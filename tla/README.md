# Verification of the Termux agent dispatcher

TLA+ models of the daemon in `src/`, the TLC runs that check them, and theorems
that TLAPS proves about them. The daemon runs on a phone: it takes HTTP requests
from an agent, passes them through a risk gate (circuit breaker, audit log,
on-device dialog), runs `termux-*` commands, and keeps streaming subscriptions.
It is small and almost everything in it runs concurrently: one thread per
request, one reader per subscription, a reaper, job threads, child processes, a
human, and the files and the database that survive a crash.

## 1. Inventory

| Component | State | Operations | Calls |
|---|---|---|---|
| `daemon.py` `do_POST`, `_run_tier_a` | none of its own; one thread per request | POST `/perceive`, `/act`, `/watch` `/<verb>` | gate, Tier A, subscriptions, audit |
| `daemon.py` `_batch_perceive` | a pool of at most 8 workers | POST `/perceive` | `_run_tier_a` |
| `daemon.py` `do_GET`, `do_DELETE` | none | health, verbs, poll, list; DELETE `/watch/<id>` | subscriptions, audit |
| `daemon.py` import and `main` | `.agent-token`, the port, the wake lock | start, stop | `recover_orphans` |
| `risk_gate.py` | `logs/audit.log` under `_AUDIT_LOCK` | `audit`, `check`, the dialog | store |
| `store.py` | table `verb_events` under `Store._lock` | `append`, `failure_count`, `is_open`, `guard`, `record_outcome` | libsql |
| `tier_a.py` | none | `run` | child process |
| `tier_b.py` `SubscriptionManager` | registry under `_lock`, `subscriptions.pids` | `start`, `poll`, `stop`, reaper, `recover_orphans` | child processes, OS |
| `tier_b.py` reader | a `queue.Queue`, `dropped`, `stopped` | `_read_lines`, `poll` | |
| `engine.py` | idempotency table | `dispatch`, `execute_kind`, `poll_confirm` | gate, jobs, Tier A/B |
| `confirm.py` | job table, one thread per job | `submit`, `_run_job`, `_notify`, `fail_orphans` | gate, engine, webhook |
| `catalog.py`, `verbs.yaml` | read only after `load` | `build_argv`, `stdin_payload`, `requires_confirmation` | |
| `scripts/enrich_verbs.py` | rewrites `verbs.yaml` | offline, by hand | |
| `mcp.py` | none (stateless by design) | `tools/list`, `tools/call`, `confirm.poll` | engine, jobs |
| `errors.py`, `tier_c.py`, `setup.sh`, `boot/` | none | | |

**This commit is in transition.** `daemon.py` does not import `engine.py`,
`confirm.py` or `mcp.py`, and these call code the repository does not have:
`Store.get_idempotency`, `put_idempotency`, `put_confirm_job`, `get_confirm_job`,
`list_pending_confirms`, `risk_gate.precheck`, `risk_gate.record_decision`,
`Verb.validate_args`, `Verb.args_schema`, `split_envelope`, and a `_confirm_on_device` of three parameters where
`risk_gate.py` defines two. Nothing calls `fail_orphans` either. `tests/conftest.py`
expects a daemon that serves the engine. The modules about the engine
and the MCP endpoint therefore model these files as written and the missing calls
by how they are used, marked external in the map.

### What is hard, and what makes each component correct

* **Store.** `record_outcome` is up to four critical sections of a lock, `guard`
  two. Correct: the breaker opens when the window is full and not otherwise,
  whatever two threads, an error or a restart do.
* **Gate.** The intent is on file first; the breaker is checked before a dialog
  that may take two minutes; the audit file and the database are written one
  after the other. Correct: nothing runs unasked, unlogged or past a guard that did
  not return; log, database and answer agree; nobody waits for someone else's dialog.
* **Subscriptions.** A registry, a process table and a file must agree across
  concurrent starts, DELETEs, the reaper and crashes. Correct: what runs is
  monitored and on file, what is said to be stopped is dead, the next daemon ends
  what this one left on file, and nothing it has not looked at.
* **Stream.** The bounded queue drops its oldest item in three separate steps,
  against any number of polls. Correct: a lossy stream, honest about its losses.
* **Batch.** Up to eight workers end in any order, and one of them may raise.
  Correct: items by position, all checked before any runs, nothing goes on once
  the client has its answer, or none.
* **Engine, jobs and MCP.** A key is looked up first and recorded last; a job's
  thread runs in one `try`; a client has tool results, polls and webhooks to
  learn from. Correct: a replay replays, what a client is told is what happened,
  a job ends and stays over, no request waits for a dialog.
* **Instances.** The token file, the wake lock and the pid file pass from a run
  to the next, which may be killed half way or overlap with it; the operator
  deletes the token file to rotate it, and clients may call the wake verbs. Correct:
  a token works until its file is deleted and not in a run started after that, the
  lock is held while the daemon listens unless a client released it, and a start ends
  leftovers only.
* **Catalog.** Three readers (loader, endpoint, route check) and one writer (the
  script) of one file. Correct: they agree, and a rewrite changes no contract.

`PROJECT.json` lists the hazards line by line, with the properties that answer
each, or the reason none does.

## 2. Modules

```
VerbStore <- Gate <- Batch      MCVerbStore, MCGate, MCBatch   VerbStoreProofs <- GateProofs <- BatchProofs
Subscriptions                   MCSubscriptions                SubscriptionsProofs
LossyStream <= StreamQueue      MCStreamQueue                  StreamQueueProofs
ConfirmJobs <- Engine <- Mcp    MCMcp                          McpProofs
Instances                       MCInstances                    InstancesProofs
Catalog                         MCCatalog                      CatalogProofs
```

`<-` is EXTENDS (the right one composes the left one with its callers), `<=` is
refinement. An MC module adds the values and the symmetry TLC needs. The
operators that begin with "Mistake:" are deliberately wrong versions of the
operator below them, used to see that a property can fail.

**VerbStore** (`store.py`). `op[t]` is the store call of thread `t` and the step
it is at; one action is one critical section of `_lock`. Of the table only what a
query reads is kept: `failures[v]` and `opens[v]`, the times of the
timeout/failed and of the circuit_open rows in id order. `append` takes its time
before the lock, so every step uses a time of its choice between the thread's
last step and now (`op[t].at .. now`). `seen` and `settled` are history: `seen[t]`
is `NotPassed` until the guard of `t` returns, and then what it read and when; a guard
that raises, a database error or `CircuitOpen`, leaves it at `NotPassed`.
`DbError` ends a call at any operation, `StoreRestart` all calls; committed rows
stay (WAL, synchronous=FULL). `SlowCalls` says whether time may pass while a call
is in progress.

**Gate** (`daemon.py`, `risk_gate.py`, `tier_a.py`). A request is its thread.
`pc[r]` is the place in `do_POST`; `trail[r]` are its lines in `audit.log`;
`launched`, `answer` are history of what happened outside. `audit()` is
`Audit` (the file) followed by the steps of a `record_outcome` of `VerbStore`,
whose errors are swallowed. `EarlyReturns` is the list of early answers in the
order of the code. "dead" is a handler ended by an exception nothing catches.

**Subscriptions** (`tier_b.py`). `starting`, `deleting` say where `start` and
`stop` are, `child` what the system knows of the process, `registered` and
`stopped` the manager's registry, `file` the pid file, `lock` who is rewriting it:
`write_text` empties the file before it writes, so a rewrite is two steps with the
lock held and a crash or an error between them leaves an empty file.
`Crash`, `Boot`, `Inspect`, `SendTerm`, `SendKill`, `RecoverDone` are a crash and
`recover_orphans`. `Recognised` are the subscriptions whose process the check of its
command line recognises: not one that runs as a script, whose cmdline[0] is the
interpreter. `tracked` (orphans that were on file at a crash) and `ours` (orphans
found since the last crash) are history. Other programs of the phone (`foreign`) take free process ids
at any time.

**StreamQueue** (`tier_b.py`, `_read_lines` and `poll`). One action per
`put_nowait`, `get_nowait`, increment of `dropped` and field that `poll` reads.
**LossyStream** is the promise: `Make`, `Take`, `Lose`, `Tell`, and no queue. The
refinement maps its `next` to `made + 1 - Len(queue)`.

**ConfirmJobs** (`confirm.py`) and **Engine** (`engine.py`). `worker[c]` is the
thread of the job that call `c` submitted, `status` and `code` its row; `at[c]` is
the place in `dispatch`, `record` the idempotency table, `prior[c]` the row that
`get_idempotency` returned to a replay, which answers from it although the table
may have changed since. `TryRaises` and
`ExceptRaises` are errors inside `_run_job`'s `try` and inside its `except`.
What an execution does is a set of results (`Executions`): "unread" is a command whose
output is not text or refused by the parser, which is reported as failed, also when
it did what it is for. A second
`put_idempotency` for a key may replace the row or leave it: the code that
decides is not in the repository.

**Mcp** (`mcp.py`). `Answers` is the list of answers that call nothing, in the
order of the code; `CallTool` is a `Receive` of `Engine`. `IsError` and
`PollIsError` are what the client makes of a result. A poll changes nothing, so
every state with a job is one in which a poll may come.

**Batch** (`daemon.py`, `_batch_perceive`). `batch[b]` is the thread of the
request, `runner[b]` the requests of `Gate` that execute its entries, in the order
in which workers took them, `items[b]` the results by position. `CollectRaises` is
`fut.result()` raising again; `Abandon` comes after `Drained`, which is the exit of
`with ThreadPoolExecutor`.

**Instances** (`daemon.py`). `at[i]` is where a run is between the import of the
module and the end of `main`. Tokens are named by the run that made them up;
`write_text` is two steps, as for the pid file. `apart` records whether runs have
overlapped: nothing but the port keeps them from it. `DeleteToken` is the rotation
of README.md:33-34, at any time; `revoked` and `outdated` record which tokens it took
from the file and which runs go on with one of them. `WakeLockVerb` and
`WakeUnlockVerb` are the verbs of `verbs.yaml` that take and release the daemon's own
lock. A run has at most one child; what happens to several is in `Subscriptions`.

**Catalog** (`catalog.py`, `enrich_verbs.py`, `public_spec`, `verb_input_schema`).
The life of one entry: written by the operator, rewritten by the script, loaded,
advertised, called. Arguments of a call are strings, null or something else.

## 3. Runs

Every run ends within four minutes; the bounds are the constants of the cfg.

| Run | Instance | Result |
|---|---|---|
| `store` | 1 verb, 2 threads, limit 2, window 3, cooldown 2, clock to 4, 1 fault | 365 000 states: `EveryTripJustified`, `NoMissedTrip` hold |
| `gate_safety` | 2 requests of any of the type's kinds, 3 verbs (ungated A, gated A, gated B), limit 1, 1 tick, slow calls, 1 fault | 428 000 states: `TrailIsLifecycle`, `OwnApproval`, `ReplyMatchesTrail`, `RowsBackedByTrail`, `AdmittedWhileClosed`, `NoNewRunWhileOpen` hold |
| `batch` | 1 batch of up to 3 entries, 2 workers, 3 verbs (one of them asks, one is no perceive verb), bad entries in each place, 1 fault in lists of up to two, fairness | 99 000 states: `ItemsMatchEntries`, `CheckedBeforeFirstLine`, `NothingRunsOn`, `BatchEnds`, `OthersNeverStall` hold |
| `subscriptions` | 2 subscriptions, one of them recognised as an orphan and one not, 2 DELETEs, 2 ids that are used again, 2 crashes or failed writes | 4 000 000 states: `StoppedIsDead`, `RunningIsMonitored`, `LiveIsOnFile`, `TrackedOrphansEnd`, `SparesRecycled` hold |
| `stream` | capacity 2, polls of at most 2, 2 clients, 4 lines | 884 000 states: `IsLossyStream`, `FinalPollIsComplete`, `ReaderNeverBlocks` hold |
| `mcp` | 2 posts of 20 kinds, 2 verbs (gated with a key required, ungated), 1 key, 2 payloads, 1 fault or crash, fairness | 319 000 states: `WebhookTellsOutcome`, `LateCallsOnlyReplay`, `GatedRunsNeedYes`, `ToolResultIsTrue`, `PollsNeverReopen`, `NeverBlocksOnDialog`, `PendingEnds` hold |
| `instances` | 3 runs, killed anywhere, overlapping or not, token file deleted at any time, wake verbs | 2 700 000 states: `KnownTokenWorks`, `WakeLockHeld` hold |
| `catalog` | entries with up to 2 arguments, one named by a word of YAML, or one field wrong; 4 confirmation lists | 29 000 states: `ServedAsAdvertised`, `RewriteKeepsContract` hold |
| `attempt_outcome` | 1 request, no faults | `AttemptHasOutcome` fails |
| `key_race` | 2 calls, no faults | `KeyRunsOnce` fails |
| `terminal_changes` | 1 call, 1 fault | `TerminalIsFinal` fails |
| `second_instance` | 2 runs | `RecoveryEndsLeftovers` fails |

### Why the bounds are enough

The store: two threads are what an interleaving of two critical sections needs,
failure rows of a third thread look like those of a second; limit 2 makes "one
below" and "at the limit" different, and with window 3, cooldown 2 and a clock to
4 rows leave the window and breakers close again. The gate: one request to trip a
breaker (limit 1) and one to be admitted before or refused after it; three verbs
cover each way through `Tier`, `Direction` and `Risk`. Subscriptions: two of
them race for the pid file, two DELETEs for one subscription, the second
crash hits the recovery of the first, and that recovery meets an orphan it
recognises and one it skips. The stream: four lines through two places
make the reader evict while two polls interleave; the theorems remove these
bounds. The engine: two calls make a race, a late replay and a conflict; one
fault is put at every step. The endpoint: every early answer has a post that
gets it, and what comes after them has one for each way through `dispatch`. The
batch: three entries on two workers (`PoolLimit`, 8 in the code) leave one in the
queue; lists of two meet every outcome, dialog, fault and restart
(`FaultsOfShort` keeps faults out of the list of three), and a worker may take
its entry as late as it likes.
Instances: one run to leave something behind, one that finds it and is killed
while it makes its own, and a third; the theorems remove this bound. The catalog:
two names are one that YAML reads as something else and one it does not.

`SlowCalls` is FALSE in `store`: if time passes inside a call, a row may be
counted or a breaker found open "at" different ticks, and statements to the tick
such as `NoMissedTrip` are not what the code promises. `TripNeedsFailures` does
not need this and is proved without it.

### What the violations show

1. `attempt_outcome`: `tier_a.run` catches only `TimeoutExpired` and
   `FileNotFoundError`. An argument list that is too long (E2BIG) or a command
   that may not be executed ends the handler: no outcome in the log, no failure
   for the breaker, no answer. README.md:86 promises an outcome after the attempt.
2. `key_race`: two overlapping calls with one idempotency key both run the verb,
   because the record is written last (tests/test_engine.py:41, mcp.py:119).
   `LateCallsOnlyReplay` is the part that does hold.
3. `terminal_changes`: a database error while `_notify` reads the job overwrites
   "executed" by "failed" (engine.py:217). `WebhookTellsOutcome` holds all the
   same: what the webhook was told is what stays. So does `PollsNeverReopen`.
4. `second_instance`: a second start of the daemon recovers before it binds. It
   kills the children of the daemon that runs, empties its pid file, fails with
   "Address already in use" and releases the wake lock (daemon.py:365).
   `KnownTokenWorks` and `WakeLockHeld` hold as long as runs do not overlap.

More things a reader of the code should know, with no promise that a run refutes:

* Output that is not UTF-8 is a `ValueError` to `_run_tier_a` (daemon.py:180),
  which logs "failed" and answers 400 for a command that ran. `ReplyMatchesTrail`
  allows a 400 for exactly this.
* A crash between `Popen` and `_pids_add` (tier_b.py:118) leaves a process that the
  next start does not know of: `TrackedOrphansEnd` speaks of orphans on file.
* `_is_our_orphan` wants the base name of cmdline[0] to begin with `termux-` and says
  no when it cannot read it (tier_b.py:214-219). The commands of Termux:API are
  scripts (README.md:62 and tier_b.py:76 call them so), and the command line of a
  script begins with its interpreter, unless the system or the package makes it
  otherwise. Such an orphan is skipped, `_pids_save([])` (line 246) erases it from the
  file, and it lives on, unknown to every later start. `TrackedOrphansEnd` is about the
  orphans that are recognised.
* `recover_orphans` looks at the command line before SIGTERM only (tier_b.py:240);
  an orphan that ends after that look may have passed its id on by the time of
  SIGTERM or of SIGKILL half a second later, and a stranger is killed. The docstring
  of `_is_our_orphan` (tier_b.py:208-211) says that the look "keeps a recycled pid from
  nuking an unrelated process": it does for ids that had passed on before the look.
  `SparesRecycled` is that much: a stranger is hit only under an id at which this
  recovery itself found a live orphan of ours.
* `wake.unlock` (verbs.yaml:534-541, risk none, no dialog) releases the wake lock the
  daemon took for itself, while it listens (daemon.py:3). `WakeLockHeld` makes an
  exception of the runs whose clients did that.
* Deleting `.agent-token` takes no effect on a daemon that runs: it accepts the deleted
  token until it ends, as README.md:33-34 implies ("and restarting the daemon").
  A start that finds the file gone between `exists` and `read_text`, or between
  `write_text` and `chmod`, ends by FileNotFoundError.
* A second DELETE of a stopped subscription removes its number from the pid file
  when the system may have given it to a new one: the exception in `LiveIsOnFile`.
* A poll reads `stopped` after it has emptied the queue. `stopped: true` may thus
  come with items still in the queue; a client must poll until it gets fewer
  items than it asked for. `FinalPollIsComplete` says what can be relied upon.
* `Catalog.load` does not compare a template's placeholders with the args: a
  placeholder that is no arg is a `KeyError` at every call, which `do_POST` does
  not catch. `ServedAsAdvertised` leaves such templates out.
* `enrich_verbs.py` writes an empty `confirmation_required_for` as `[high]`, args
  without quotes (`on` becomes a boolean, and the daemon does not start), and a
  command that is one text as the list of its characters, which the loader
  takes. `RewriteKeepsContract` makes an exception of the last.

### Fairness

`Batch`: weak fairness of what a handler does by itself (`HandlersRun` of `Gate`:
threads are scheduled by the system, a command is killed at its timeout) and of
each batch's thread and pool. Dialogs are not assumed to end: `BatchEnds` takes
that as its premise `DialogsEnd` (risk_gate.py:65, two minutes), and
`OthersNeverStall` does without. `StreamQueue`: weak fairness of an item's way
into the queue, none of the polls. `Mcp`: weak fairness of `dispatch` for an accepted
call, of each job's thread except its dialog, and of the restart after a crash;
`PendingEnds` has the end of dialogs as its premise, `NeverBlocksOnDialog` does
without. Nowhere is a child assumed to end, a client to poll, or a fault to happen.

### Assumptions

`time.time()` is monotone. A child keeps its stdout until it ends, so the end of
output is the end of the process, and a process that was sent SIGKILL has ended.
No other program of the phone has a command line that begins with `termux-`
(`_is_our_orphan` assumes this); which of the daemon's own orphans have one is not
assumed but a constant, `Recognised`, any set of them. Starting a thread does not fail in `tier_b`.
A commit that returned is durable; a line of the audit file that was written
stays. `fail_orphans` is called before the daemon that serves the engine listens
(`RecoversJobs`): nothing in the repository calls it yet. `AGENT_TOKEN` is not
set, `termux-wake-unlock` at the end of a run works, and a command of the verbs
`wake.lock` and `wake.unlock` ends before the run that started it does. The envelope of an MCP call is split off as
the three fields of `envelope_properties`, and `args_schema` is the field of that
name in `verbs.yaml`.

## 4. Theorems

Proved for every value of the constants that meets the modules' assumptions: any
verbs, threads, limits, clock, number of faults, capacity, clients. These
assumptions say that special values ("no verb", "no record", "no schema") are not
among the ordinary ones, that numbers are natural numbers, that tables have the
type the loader enforces, and that the engine has at least one verb and one
payload. The four theorems on quick calls have the hypotheses named below; no
other theorem has any.

* **VerbStoreProofs**: `StoreTypes`, `TripsNeedFailures`, and for quick calls (the
  hypothesis `~SlowCalls`: no time passes inside a call, see section 3)
  `QuickTripsJustified` and `QuickTripsNotMissed`. The inductive invariant
  `StoreInv` adds `KnowsCause` to the two: a thread at "check" or "trip" works
  for a verb that has had `FailureLimit` failures, and one at "refuse" for a verb
  that has a circuit_open row. That is what a read that may be stale by now still
  proves, since rows are never deleted. With quick calls `QuickInv` knows more: a
  thread on its way to a trip still sees a full window now, its own row in it, and
  one on its way to a refusal a row that still cools down (`KnowsNow`). Two threads
  that reach the limit together both find the window full, and the one that finds
  the breaker open already may return: the row that opened it is of this instant's
  cooldown. `QuickTripsNotMissed` needs a cooldown that is not 0, for with 0 no row
  keeps a breaker open and `NoMissedTrip` is false.
* **GateProofs**: `GateTypes`, `GateOwnApproval`, `GateLifecycle`,
  `GateIntentOnRecord`, `GateReplies`, `GateAdmissions`, the action property
  `GateStopsNewRuns`, `GateRowsBacked`, `GateTripsJustified`, `GateTripsNotMissed`. The invariant `GateInv` is `StoreInv` and, for each
  request, `TrailLink` (the place in the handler determines the lines on file),
  `ReplyLink` (what the answer says of them) and `StoreLink` (the store call it is
  in is the one its place calls for; once it is past the guard, its guard returned, for
  its own verb, having read an admissible state whose rows are still in the table). The properties alone are not inductive: they speak of requests that
  have launched or answered, and these links say what is true on the way there.
  `Frame` and `OneRequest` reduce each action to the request that takes it; then
  there is one lemma per action. `GateRowsBacked` counts: `RowsLink` says that a verb
  has no more rows than requests whose failure is in the log and whose append is over
  (`Writers`), for an append takes a request that has logged its failure and was not
  among them. It does not take the requests to be finitely many: at any time those
  with a failure on file are. `GateTripsJustified` and `GateTripsNotMissed` carry the
  two theorems on quick calls over from a store any thread may call to the calls
  that handlers make.
* **StreamQueueProofs**: `StreamTypes`, `FinalPolls`, and `StreamIsLossy`, the
  refinement. `StreamInv` says that the queue holds the newest items in order
  (`HoldsNewest`), that `dropped` is short of `lost` by one at most and only while
  the reader is between the two, that `lost + Capacity` items had been made when
  the reader evicts (`LossCounted`), and what a poll in progress knows (`PollKnows`,
  `LastKnows`). Each step of the reader and of a poll is then a step of
  `LossyStream` or a stutter.
* **BatchProofs**: `BatchItems`, `BatchChecked`, `BatchOver`, and `BatchKeepsGate`: what
  `Gate` promises of a request holds for the entries of a batch too, although they
  come past `do_POST`. The invariant is `GateInv` and, for each batch, that its
  entries are the checked ones and its workers are in use (`PoolLink`), that an item
  that is in agrees with the request that executed the entry of that place
  (`ItemLink`), and what the thread of the batch knows where it is (`ThreadLink`). Of
  a step of a request a batch needs only that a request in use stays in use and one
  that is over keeps its reply (`Settled`).
* **SubscriptionsProofs**: `SubsStopped`, `SubsMonitored`, `SubsOnFile`, `SubsOrphansEnd`,
  `SubsSpares`. The invariant relates a subscription to its process and the registry
  (`SubLink`), a DELETE to the process it ends and the lock it may hold (`DeleteLink`),
  the daemon to all of them (`DaemonLink`: without one, nobody starts or deletes),
  and the recovery to the pid file (`RecoveryLink`: the recognised orphans it has not
  handled are still on the file it will rewrite last, `Owed`, which is why a crash in it
  is harmless; and what it is about to signal, it has found to be an orphan, `ours`).
* **McpProofs**: `McpTypes`, `McpWebhook`, `McpReplays`, `McpGated`, `McpResults`, the
  action property `McpPolls`, and `EngineSafe`: the engine keeps the same under
  requests of any kind, without the checks of the endpoint. With and without
  `fail_orphans` (`RecoversJobs`). The invariant ties the thread of a job to its row
  and to what happened outside (`JobLink`), a call to the job it submitted
  (`CallLink`), every idempotency row, and the copy of one that a call replays, to
  an earlier call with that key whose result it is (`Backed`, in `RecordsLink` and
  `PriorLink`), and an answer "done" to an execution (`DoneLink`). `ToolResultIsTrue` is
  not inductive without `Backed`: a replay tells the result of another call.
* **CatalogProofs**: `CatalogServes`, `CatalogRewrites`. The entry in the file is the one
  the operator wrote, but for the schema, however often the script ran (`FileLink`,
  `SameVerb`); what is loaded is such an entry that passed the checks (`LoadedLink`).
* **InstancesProofs**: `InstancesInvariant`, `InstancesTokens`, `InstancesWakeLock`.
  The invariant `OneAtATime` holds as long as runs have not overlapped: at most one
  is alive; a run that is making the file owns an empty one, and a run past that has
  the token on file, or there is none and it is outdated; every token a client read
  since the last deletion is the one on file, and that one was never deleted, which
  needs that no run makes up its token twice (`TokenOnFile`); a run past `TakeWakeLock`
  has the lock unless the command failed or a client released it. Without "at most one
  is alive" it is not inductive: another run could unlock in between.

`TripNeedsFailures` and `IntentOnRecord` are proved and no run checks them: the
theorems say more of them than a run would.

Each invariant was checked with TLC on the instance of the run before it was
proved. One proof attempt changed a model: `PriorLink` could not be kept, because
`Engine` read the idempotency table a second time when it answered a replay, where
the code answers from the row it looked up (engine.py:162); `prior` is that row.

Every safety property and action property of the passing runs is proved. Only
model-checked is the liveness, which is out of the prover's reach: `BatchEnds`,
`OthersNeverStall`, `ReaderNeverBlocks`, `NeverBlocksOnDialog`, `PendingEnds`. What a
run shows to fail is of course proved nowhere.

## 5. Plan

Done, in this order: store, gate, stream, subscriptions, jobs and engine; then
batch, the MCP endpoint, instances and catalog. The gate came first, because it
is what stands between the agent and the phone.

Proved, in this order: store, gate, stream, instances; then catalog, batch,
subscriptions, jobs with engine and endpoint, quick calls and the rows of the gate.

Next, to prove: that `Gate` and `ConfirmJobs` implement the abstract specifications
below, step by step.

Next, to model: one composition of `Subscriptions` with `StreamQueue`, so that a
DELETE, the reaper and a poll of the same subscription meet; an abstract
specification of the gate (a request is refused, denied or attempted, once) that
`Gate` implements, and one of a job that `ConfirmJobs` implements up to the rewrite
of `terminal_changes`. When the daemon serves the engine, the external parts
of `Engine` and `Mcp` become parts of the map.

## 6. Not modelled

Read-only routes and health; error payloads and other wording; the Tier C stub,
which nothing can reach; `public_args`, the redaction of one argument; templates
with format specifications; the descriptions and enumerations of
`enrich_verbs.py`; `setup.sh` and the boot script. Beside a batch, `Batch` has no
requests of other clients: two calls meet in `gate_safety`. A Tier B verb with a
`stdin` argument, whose write may raise BrokenPipeError after `Popen`: the catalog
has none. Token comparison is one field of a request (`authorized`).
