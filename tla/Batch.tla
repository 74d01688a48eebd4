------------------------------- MODULE Batch -------------------------------
(***************************************************************************)
(* POST /perceive of daemon.py: several perceive verbs in one request.     *)
(*                                                                         *)
(* The thread of the batch checks every entry, hands them in order to a    *)
(* pool of worker threads and collects their results as they come.  A      *)
(* worker that takes an entry calls _run_tier_a, which is what a request   *)
(* of Gate does from "intent" on; so an entry being executed IS a request  *)
(* of Gate, and Threads are those requests.  (Gate has the requests that   *)
(* come from clients; beside a batch they are left out.)                   *)
(*                                                                         *)
(*     idle -> running -> answered                                         *)
(*                     -> raising -> dead            (or lost, in a crash) *)
(***************************************************************************)
EXTENDS Gate

CONSTANTS PoolLimit,   \* the 8 of min(8, len(entries))
          BatchIds,    \* batch requests; each has a thread of its own
          Bodies       \* what clients may post

EntryType == [shape: {"named", "malformed"}, verb: Verbs \cup {Unknown},
              args: {"accepted", "rejected"}]

BodyType == [authorized: BOOLEAN, body: {"object", "invalid"}, entries: Seq(EntryType)]

ASSUME BatchAssumption ==
    /\ PoolLimit \in Nat \ {0}
    /\ Bodies \subseteq BodyType

VARIABLES batch,    \* batch[b]: where the thread of b is
          entries,  \* entries[b]: the list it executes
          runner,   \* runner[b]: the requests executing its entries, in order
          items,    \* items[b]: the results by position, None before they are in
          answered  \* answered[b]: the status of its answer, 0 while there is none

batchVars == <<batch, entries, runner, items, answered>>
allVars == <<vars, batchVars>>

None == [verb |-> Unknown, status |-> 0]

-----------------------------------------------------------------------------
(* The checks: all entries, before any is executed.                        *)

\* What is wrong with an entry, 0 if nothing is.
Fault(e) ==
    IF e.verb = Unknown THEN 404
    ELSE IF \/ Tier[e.verb] # "A" \/ Direction[e.verb] # "perceive"
            \/ e.args = "rejected" THEN 400 ELSE 0

\* Mistake: only the first entry is looked at.
FaultOfFirst(es) == Fault(es[1])

FirstFault(es) ==
    IF \A i \in DOMAIN es : Fault(es[i]) = 0 THEN 0
    ELSE Fault(es[CHOOSE i \in DOMAIN es :
                     Fault(es[i]) # 0 /\ \A j \in 1..(i-1) : Fault(es[j]) = 0])

\* The status of a body that is turned down, 0 for one that is executed.
Refusal(p) ==
    IF ~p.authorized THEN 401
    ELSE IF \/ p.body = "invalid" \/ p.entries = <<>>
            \/ \E i \in DOMAIN p.entries : p.entries[i].shape = "malformed" THEN 400
    ELSE FirstFault(p.entries)

Post(b, p) ==
    /\ batch[b] = "idle"
    /\ \/ /\ Refusal(p) # 0
          /\ batch' = [batch EXCEPT ![b] = "answered"]
          /\ answered' = [answered EXCEPT ![b] = Refusal(p)]
          /\ UNCHANGED <<entries, items>>
       \/ /\ Refusal(p) = 0
          /\ batch' = [batch EXCEPT ![b] = "running"]
          /\ entries' = [entries EXCEPT ![b] = p.entries]
          /\ items' = [items EXCEPT ![b] = [i \in DOMAIN p.entries |-> None]]
          /\ UNCHANGED answered
    /\ UNCHANGED <<vars, runner>>

-----------------------------------------------------------------------------
(* The pool.                                                               *)

\* Mistake: a worker whose call raised is not free again.
BusyForever(b) == {i \in DOMAIN runner[b] : pc[runner[b][i]] # "done"}

Busy(b) == {i \in DOMAIN runner[b] : pc[runner[b][i]] \notin Ended}

\* The request a worker makes of an entry.
CallOf(e) == [authorized |-> TRUE, body |-> "object", kind |-> "perceive",
              verb |-> e.verb, args |-> e.args]

Unused == {r \in Threads : pc[r] = "idle"}

\* A worker takes the next entry, also after another entry has raised.
TakeEntry(b) ==
    LET r == CHOOSE q \in Unused : TRUE IN
    /\ Unused # {}
    /\ batch[b] \in {"running", "raising"}
    /\ Len(runner[b]) < Len(entries[b])
    /\ Cardinality(Busy(b)) < PoolLimit
    /\ Accept(r, CallOf(entries[b][Len(runner[b]) + 1]))
    /\ runner' = [runner EXCEPT ![b] = Append(@, r)]
    /\ UNCHANGED <<batch, entries, items, answered>>

\* Mistake: results are kept in the order they come.
PlaceNext(b, i, result) ==
    items' = [items EXCEPT ![b][1 + Cardinality({j \in DOMAIN items[b] : items[b][j] # None})] = result]

Place(b, i, result) == items' = [items EXCEPT ![b][i] = result]

\* as_completed yields the future of an entry that returned.
Collect(b, i) ==
    /\ batch[b] = "running"
    /\ i \in DOMAIN runner[b] /\ pc[runner[b][i]] = "done" /\ items[b][i] = None
    /\ Place(b, i, [verb |-> entries[b][i].verb, status |-> reply[runner[b][i]]])
    /\ UNCHANGED <<vars, batch, entries, runner, answered>>

\* It yields one whose call raised: fut.result() raises that again.
CollectRaises(b, i) ==
    /\ batch[b] = "running"
    /\ i \in DOMAIN runner[b] /\ pc[runner[b][i]] = "dead"
    /\ batch' = [batch EXCEPT ![b] = "raising"]
    /\ UNCHANGED <<vars, entries, runner, items, answered>>

\* Mistake: only the queue is waited for.
QueueDrained(b) == Len(runner[b]) = Len(entries[b])

\* `with ThreadPoolExecutor` waits for the entries in progress and in the queue.
Drained(b) == Len(runner[b]) = Len(entries[b]) /\ Busy(b) = {}

Answer(b) ==
    /\ batch[b] = "running"
    /\ \A i \in DOMAIN entries[b] : items[b][i] # None
    /\ batch' = [batch EXCEPT ![b] = "answered"]
    /\ answered' = [answered EXCEPT ![b] = 200]
    /\ UNCHANGED <<vars, entries, runner, items>>

\* The exception leaves do_POST: the connection closes without an answer.
Abandon(b) ==
    /\ batch[b] = "raising"
    /\ Drained(b)
    /\ batch' = [batch EXCEPT ![b] = "dead"]
    /\ UNCHANGED <<vars, entries, runner, items, answered>>

-----------------------------------------------------------------------------
BatchInit ==
    /\ Init
    /\ batch = [b \in BatchIds |-> "idle"]
    /\ entries = [b \in BatchIds |-> <<>>]
    /\ runner = [b \in BatchIds |-> <<>>]
    /\ items = [b \in BatchIds |-> <<>>]
    /\ answered = [b \in BatchIds |-> 0]

BatchRestart ==
    /\ Restart
    /\ batch' = [b \in BatchIds |-> IF batch[b] \in {"running", "raising"} THEN "lost" ELSE batch[b]]
    /\ UNCHANGED <<entries, runner, items, answered>>

\* What the thread of b and its pool do by themselves.
Serve(b) ==
    \/ TakeEntry(b)
    \/ \E i \in DOMAIN entries[b] : Collect(b, i) \/ CollectRaises(b, i)
    \/ Answer(b)
    \/ Abandon(b)

RequestStep ==
    \/ \E r \in Threads : Handle(r) \/ Confirm(r) \/ AuditRaises(r) \/ (DbError(r) /\ UNCHANGED gateVars)
    \/ Tick /\ UNCHANGED gateVars

BatchNext ==
    \/ \E b \in BatchIds : Serve(b) \/ \E p \in Bodies : Post(b, p)
    \/ RequestStep /\ UNCHANGED batchVars
    \/ BatchRestart

BatchSpec == BatchInit /\ [][BatchNext]_allVars

\* Threads of handlers, batches and pools are scheduled.
BatchFairSpec == BatchSpec /\ HandlersRun /\ \A b \in BatchIds : WF_allVars(Serve(b))

-----------------------------------------------------------------------------
(* Properties.                                                             *)

\* daemon.py:209-216: the answer to a batch has one item per entry, in the order
\* of the entries however the pool finished them, and each item is what the call
\* made for THAT entry returned.
ItemsMatchEntries ==
    \A b \in BatchIds : answered[b] = 200 =>
        \A i \in DOMAIN entries[b] :
            /\ items[b][i].verb = entries[b][i].verb
            /\ items[b][i].status = reply[runner[b][i]]

\* daemon.py:189-203: a batch is all or nothing up to its execution: a line in the
\* audit log on behalf of an entry means that every entry of the list, those
\* still in the queue too, has passed its checks.
CheckedBeforeFirstLine ==
    \A b \in BatchIds : \A i \in DOMAIN runner[b] :
        trail[runner[b][i]] # <<>> => \A j \in DOMAIN entries[b] :
            LET e == entries[b][j] IN
            e.verb \in Verbs /\ Tier[e.verb] = "A" /\ Direction[e.verb] = "perceive"
                /\ e.args = "accepted"

\* daemon.py:211: nothing of a batch goes on behind the client's back: when its
\* connection is answered or closed every entry has run and ended, those too
\* that were in the queue when another one raised.
NothingRunsOn ==
    \A b \in BatchIds : answered[b] = 200 \/ batch[b] = "dead" =>
        /\ Len(runner[b]) = Len(entries[b])
        /\ \A i \in DOMAIN runner[b] : pc[runner[b][i]] \in Ended

\* An accepted batch ends: with an answer, or because a call for one of its entries
\* raised, or lost in a crash; if dialogs end, for a gated perceive verb asks.
BatchEnds ==
    DialogsEnd => \A b \in BatchIds :
        batch[b] = "running" ~> \/ answered[b] = 200
                                \/ batch[b] = "lost"
                                \/ batch[b] = "dead" /\ \E i \in DOMAIN runner[b] : pc[runner[b][i]] = "dead"

=============================================================================
