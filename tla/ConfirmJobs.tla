---------------------------- MODULE ConfirmJobs ----------------------------
(***************************************************************************)
(* ConfirmManager of dispatch/confirm.py: a call that needs a human's yes  *)
(* becomes a job row in the database, and a worker thread asks, executes   *)
(* and stores the result while the client polls or waits for a webhook.    *)
(*                                                                         *)
(* A worker is a sequence of database operations, a dialog, an execution   *)
(* and a webhook call.  Everything up to the end of the webhook call is in *)
(* ONE try block, whose except clause stores "failed" over whatever the    *)
(* row says by then.                                                       *)
(*                                                                         *)
(* The store's job table (put_confirm_job, get_confirm_job,                *)
(* list_pending_confirms) and risk_gate.record_decision are called by this *)
(* code but are not in the repository: the table is taken to be one row    *)
(* per id that the last put replaces.  A job id is a uuid, drawn once by   *)
(* the call that submits it, so a job has the name of that call.           *)
(***************************************************************************)
EXTENDS Naturals, Sequences, FiniteSets

CONSTANTS Calls,        \* calls of dispatch; each submits one job at most
          Hooks,        \* the calls that name a webhook_url
          RecoversJobs, \* is fail_orphans called before the daemon listens?
          MaxFaults     \* bound: database errors, audit errors and crashes

ASSUME JobsAssumption ==
    /\ Hooks \subseteq Calls
    /\ RecoversJobs \in BOOLEAN
    /\ MaxFaults \in Nat

VARIABLES status,   \* status[c]: the status column of the job of c
          code,     \* code[c]: its http_status column
          worker,   \* worker[c]: where the thread of that job is
          result,   \* result[c]: what execute_kind returned to the thread
          answer,   \* history: what the human answered
          ran,      \* history: what became of the verb's command, see Outcomes
          posted,   \* history: the statuses the webhook was told
          daemon,   \* "up", or "starting" again after a crash
          faults

jobVars == <<status, code, worker, result, answer, ran, posted, daemon, faults>>
env == <<daemon, faults>>

Terminal == {"executed", "failed", "denied"}

\* The command did not run; ended well, with output the parser took; ended with
\* output that is not text (its exit code is then not looked at), or well with output
\* the parser refused; ended with another exit code, or was killed by its timeout.
Outcomes == {"no", "ok", "unread", "bad"}

JobsTypeOK ==
    /\ status \in [Calls -> {"absent", "pending"} \cup Terminal]
    /\ code \in [Calls -> {0, 200, 202, 400, 403, 500}]
    /\ worker \in [Calls -> {"none", "asking", "answered", "denying", "executing",
                             "storing", "notifying", "failing", "excusing",
                             "ended", "dead"}]
    /\ result \in [Calls -> {0, 200, 400, 500}]
    /\ answer \in [Calls -> {"none", "yes", "no"}]
    /\ ran \in [Calls -> Outcomes]
    /\ posted \in [Calls -> Seq(Terminal \cup {"pending"})]
    /\ daemon \in {"up", "starting"}
    /\ faults \in Nat

-----------------------------------------------------------------------------
Work(c, from, to) ==
    /\ worker[c] = from
    /\ worker' = [worker EXCEPT ![c] = to]

PutJob(c, s, http) ==
    /\ status' = [status EXCEPT ![c] = s]
    /\ code' = [code EXCEPT ![c] = http]

Fault == faults < MaxFaults /\ faults' = faults + 1

\* execute_kind: it returns a status, or raises (status 0) what it does not
\* catch, an OSError of a command that cannot be started.  A command whose output
\* cannot be read is reported as failed, also when it did what it is for.
Executions == {<<"ok", 200>>, <<"unread", 500>>, <<"unread", 400>>, <<"bad", 500>>,
               <<"no", 500>>, <<"no", 400>>, <<"no", 0>>}

\* _notify: the row as it is, to the call's webhook; a failed post is ignored.
Post(c) ==
    posted' = IF c \in Hooks /\ status[c] # "absent"
              THEN [posted EXCEPT ![c] = Append(@, status[c])]
              ELSE posted

-----------------------------------------------------------------------------
(* submit: the row first, then the thread.                                 *)

PutPending(c) ==
    /\ daemon = "up"
    /\ PutJob(c, "pending", 202)
    /\ UNCHANGED <<worker, result, answer, ran, posted, env>>

StartWorker(c) ==
    /\ Work(c, "none", "asking")
    /\ UNCHANGED <<status, code, result, answer, ran, posted, env>>

-----------------------------------------------------------------------------
(* _run_job                                                                *)

Ask(c) ==
    /\ Work(c, "asking", "answered")
    /\ \E a \in {"yes", "no"} : answer' = [answer EXCEPT ![c] = a]
    /\ UNCHANGED <<status, code, result, ran, posted, env>>

AskRaises(c) ==
    /\ Work(c, "asking", "failing")
    /\ UNCHANGED <<status, code, result, answer, ran, posted, env>>

\* Mistake: the decision is recorded and not looked at.
DecidedAnyway(c) == "executing"

Decided(c) == IF answer[c] = "yes" THEN "executing" ELSE "denying"

RecordDecision(c) ==
    /\ Work(c, "answered", Decided(c))
    /\ UNCHANGED <<status, code, result, answer, ran, posted, env>>

StoreDenied(c) ==
    /\ Work(c, "denying", "notifying")
    /\ PutJob(c, "denied", 403)
    /\ UNCHANGED <<result, answer, ran, posted, env>>

Execute(c) ==
    /\ \E e \in Executions :
          /\ ran' = [ran EXCEPT ![c] = e[1]]
          /\ result' = [result EXCEPT ![c] = e[2]]
          /\ Work(c, "executing", IF e[2] = 0 THEN "failing" ELSE "storing")
    /\ UNCHANGED <<status, code, answer, posted, env>>

\* Mistake: the webhook is called before the row is written.
PostAndStoreResult(c) ==
    /\ Work(c, "storing", "ended")
    /\ Post(c)
    /\ PutJob(c, IF result[c] >= 400 THEN "failed" ELSE "executed", result[c])
    /\ UNCHANGED <<result, answer, ran, env>>

StoreResult(c) ==
    /\ Work(c, "storing", "notifying")
    /\ PutJob(c, IF result[c] >= 400 THEN "failed" ELSE "executed", result[c])
    /\ UNCHANGED <<result, answer, ran, posted, env>>

Notify(c) ==
    /\ Work(c, "notifying", "ended")
    /\ Post(c)
    /\ UNCHANGED <<status, code, result, answer, ran, env>>

\* Mistake: the except clause stores nothing.
StoreNothing(c) ==
    /\ Work(c, "failing", "excusing")
    /\ UNCHANGED <<status, code, result, answer, ran, posted, env>>

\* The except clause: "failed" replaces the row.
StoreFailed(c) ==
    /\ Work(c, "failing", "excusing")
    /\ PutJob(c, "failed", 500)
    /\ UNCHANGED <<result, answer, ran, posted, env>>

NotifyFailed(c) ==
    /\ Work(c, "excusing", "ended")
    /\ Post(c)
    /\ UNCHANGED <<status, code, result, answer, ran, env>>

\* An operation inside the try raises: the audit line of the decision, either
\* put, or the get of _notify, which comes after the result was stored.
TryRaises(c) ==
    /\ \E from \in {"answered", "denying", "storing", "notifying"} : Work(c, from, "failing")
    /\ Fault
    /\ UNCHANGED <<status, code, result, answer, ran, posted, daemon>>

\* execute_kind ran the command and its audit line cannot be written.
ExecuteRaises(c) ==
    /\ Work(c, "executing", "failing")
    /\ \E how \in Outcomes \ {"no"} : ran' = [ran EXCEPT ![c] = how]
    /\ Fault
    /\ UNCHANGED <<status, code, result, answer, posted, daemon>>

\* An operation of the except clause raises: the thread ends.
ExceptRaises(c) ==
    /\ \E from \in {"failing", "excusing"} : Work(c, from, "dead")
    /\ Fault
    /\ UNCHANGED <<status, code, result, answer, ran, posted, daemon>>

\* What the thread does, once it has an answer.
Worker(c) ==
    \/ AskRaises(c) \/ RecordDecision(c) \/ StoreDenied(c)
    \/ Execute(c) \/ StoreResult(c) \/ Notify(c)
    \/ StoreFailed(c) \/ NotifyFailed(c)

Errors(c) == TryRaises(c) \/ ExecuteRaises(c) \/ ExceptRaises(c)

-----------------------------------------------------------------------------
(* Crash, and fail_orphans at the next start.                              *)

JobsCrash ==
    /\ Fault
    /\ daemon' = "starting"
    /\ worker' = [c \in Calls |-> IF worker[c] = "none" THEN "none" ELSE "dead"]
    /\ UNCHANGED <<status, code, result, answer, ran, posted>>

FailOrphan(c) ==
    /\ RecoversJobs
    /\ daemon = "starting"
    /\ status[c] = "pending"
    /\ PutJob(c, "failed", 500)
    /\ UNCHANGED <<worker, result, answer, ran, posted, env>>

Listen ==
    /\ daemon = "starting"
    /\ RecoversJobs => \A c \in Calls : status[c] # "pending"
    /\ daemon' = "up"
    /\ UNCHANGED <<status, code, worker, result, answer, ran, posted, faults>>

Boot == Listen \/ \E c \in Calls : FailOrphan(c)

JobsInit ==
    /\ status = [c \in Calls |-> "absent"]
    /\ code = [c \in Calls |-> 0]
    /\ worker = [c \in Calls |-> "none"]
    /\ result = [c \in Calls |-> 0]
    /\ answer = [c \in Calls |-> "none"]
    /\ ran = [c \in Calls |-> "no"]
    /\ posted = [c \in Calls |-> <<>>]
    /\ daemon = "up"
    /\ faults = 0

-----------------------------------------------------------------------------
(* Properties.                                                             *)

\* A webhook is told once, when the job is over, and told what every later poll
\* says: also when an error after the result was stored rewrites the row, and
\* across restarts, whose fail_orphans leaves jobs that were announced alone.
WebhookTellsOutcome ==
    \A c \in Calls : posted[c] # <<>> =>
        /\ Len(posted[c]) = 1
        /\ status[c] \in Terminal
        /\ posted[c][1] = status[c]

\* engine.py:217 "terminal HTTP status of the verb": what a poll once reported
\* as the end of a job is what every later poll reports.
TerminalIsFinal ==
    [][\A c \in Calls : status[c] \in Terminal => status'[c] = status[c]]_status

=============================================================================
