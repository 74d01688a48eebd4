------------------------------- MODULE Engine -------------------------------
(***************************************************************************)
(* dispatch() of dispatch/engine.py: the checks before the gate, the       *)
(* replay of an idempotency key, and the execution of a verb at once or as *)
(* a confirm job.                                                          *)
(*                                                                         *)
(* The key is looked up first and recorded last: between the two lie the   *)
(* breaker, the submission or the whole execution, and nothing else keeps  *)
(* two calls with one key apart.                                           *)
(*                                                                         *)
(* get_idempotency, put_idempotency and risk_gate.precheck are not in the  *)
(* repository.  A second put for a key may replace the record or leave it. *)
(***************************************************************************)
EXTENDS ConfirmJobs

CONSTANTS Verbs,       \* catalog verbs
          Gated,       \* those confirmation_required_for covers
          KeyRequired, \* those _idempotency_required says need a key
          Keys, NoKey,
          Payloads,    \* args, as told apart by args_hash
          NoRecord,
          Requests     \* what clients may send

\* `early` is the status of the first check a request fails that is not about
\* its key (404 unknown verb or route kind, 400 contract, arguments or webhook),
\* 200 for a dry run that passes them all, 0 for a request to be done.
RequestType == [early: {0, 200, 400, 404}, verb: Verbs, key: Keys \cup {NoKey},
                payload: Payloads]

\* An idempotency row; job: the response is a handle, and `by`, itself a member of
\* Calls, the call whose confirm_id it holds.
Records == [payload: Payloads, status: {200, 202, 400, 500}, by: Calls, job: BOOLEAN]

ASSUME EngineAssumption ==
    /\ Verbs # {} /\ Payloads # {}
    /\ NoRecord \notin Records
    /\ Gated \subseteq Verbs
    /\ KeyRequired \subseteq Verbs
    /\ NoKey \notin Keys
    /\ Requests \subseteq RequestType

VARIABLES at,      \* at[c]: where call c is
          req,     \* req[c]: the request it handles
          record,  \* record[v][k]: the idempotency row of key k of verb v
          prior,   \* prior[c]: the row that c replays, as get_idempotency returned it
          reply,   \* reply[c]: the status dispatch returned, 0 before
          late     \* history: was the key on record when the call began?

engineVars == <<at, req, record, prior, reply, late>>
vars == <<jobVars, engineVars>>

EngineTypeOK ==
    /\ at \in [Calls -> {"idle", "looking", "replaying", "checking", "submitting",
                         "starting", "reading", "executing", "recording", "done", "dead"}]
    /\ req \in [Calls -> RequestType]
    /\ record \in [Verbs -> [Keys -> Records \cup {NoRecord}]]
    /\ prior \in [Calls -> Records \cup {NoRecord}]
    /\ reply \in [Calls -> {0, 200, 202, 400, 403, 404, 409, 500}]
    /\ late \in [Calls -> BOOLEAN]

Recorded(q) == IF q.key = NoKey THEN NoRecord ELSE record[q.verb][q.key]

-----------------------------------------------------------------------------
Goto(c, label) == at' = [at EXCEPT ![c] = label]

Return(c, http) ==
    /\ Goto(c, "done")
    /\ reply' = [reply EXCEPT ![c] = http]

\* With a key the answer goes on record first.
Conclude(c, http) ==
    /\ reply' = [reply EXCEPT ![c] = http]
    /\ Goto(c, IF req[c].key = NoKey THEN "done" ELSE "recording")

-----------------------------------------------------------------------------
(* The checks.                                                             *)

Receive(c, q) ==
    /\ daemon = "up"
    /\ at[c] = "idle"
    /\ req' = [req EXCEPT ![c] = q]
    /\ late' = [late EXCEPT ![c] = Recorded(q) # NoRecord]
    /\ \/ q.early # 0 /\ Return(c, q.early)
       \/ /\ q.early = 0
          /\ q.key = NoKey
          /\ \/ q.verb \in KeyRequired /\ Return(c, 400)
             \/ q.verb \notin KeyRequired /\ Goto(c, "checking") /\ UNCHANGED reply
       \/ q.early = 0 /\ q.key # NoKey /\ Goto(c, "looking") /\ UNCHANGED reply
    /\ UNCHANGED <<jobVars, record, prior>>

\* Mistake: a call whose first try failed is tried again.
PriorSuccess(c) ==
    IF Recorded(req[c]) # NoRecord /\ Recorded(req[c]).status >= 400 THEN NoRecord
    ELSE Recorded(req[c])

\* get_idempotency
Prior(c) == Recorded(req[c])

LookUp(c) ==
    /\ at[c] = "looking"
    /\ \/ /\ Prior(c) # NoRecord /\ Prior(c).payload = req[c].payload /\ Prior(c).job
          /\ prior' = [prior EXCEPT ![c] = Prior(c)]
          /\ Goto(c, "replaying") /\ UNCHANGED reply
       \/ /\ \/ Prior(c) = NoRecord /\ Goto(c, "checking") /\ UNCHANGED reply
             \/ Prior(c) # NoRecord /\ Prior(c).payload # req[c].payload /\ Return(c, 409)
             \/ /\ Prior(c) # NoRecord /\ Prior(c).payload = req[c].payload
                /\ ~Prior(c).job /\ Return(c, Prior(c).status)
          /\ UNCHANGED prior
    /\ UNCHANGED <<jobVars, req, record, late>>

\* The job of the recorded confirm_id, as it is now.
Replay(c) ==
    /\ at[c] = "replaying"
    /\ Return(c, IF status[prior[c].by] = "absent" THEN prior[c].status ELSE code[prior[c].by])
    /\ UNCHANGED <<jobVars, req, record, prior, late>>

\* risk_gate.precheck: the breaker of the verb is open, or it is not.
Precheck(c) ==
    /\ at[c] = "checking"
    /\ \/ Return(c, 500)
       \/ /\ Goto(c, IF req[c].verb \in Gated THEN "submitting" ELSE "executing")
          /\ UNCHANGED reply
    /\ UNCHANGED <<jobVars, req, record, prior, late>>

-----------------------------------------------------------------------------
(* A gated verb: ConfirmManager.submit.                                    *)

SubmitJob(c) ==
    /\ at[c] = "submitting"
    /\ PutPending(c)
    /\ Goto(c, "starting")
    /\ UNCHANGED <<req, record, prior, reply, late>>

StartThread(c) ==
    /\ at[c] = "starting"
    /\ StartWorker(c)
    /\ Goto(c, "reading")
    /\ UNCHANGED <<req, record, prior, reply, late>>

\* Mistake: the row is stored again, for the webhook, say.
ReadBackAndPut(c) ==
    at[c] = "reading" /\ Conclude(c, 202) /\ PutPending(c) /\ UNCHANGED <<req, record, prior, late>>

\* Mistake: the call waits for the end of its job.
ReadBackWhenOver(c) ==
    at[c] = "reading" /\ status[c] # "pending" /\ Conclude(c, 202) /\ UNCHANGED <<jobVars, req, record, prior, late>>

\* The row is read back; whatever it says by now, the answer is 202.
ReadBack(c) ==
    /\ at[c] = "reading"
    /\ Conclude(c, 202)
    /\ UNCHANGED <<jobVars, req, record, prior, late>>

-----------------------------------------------------------------------------
(* Any other verb: execute_kind in the thread of the call.                 *)

ExecuteNow(c) ==
    /\ at[c] = "executing"
    /\ \E e \in Executions :
          /\ ran' = [ran EXCEPT ![c] = e[1]]
          /\ \/ e[2] # 0 /\ Conclude(c, e[2])
             \/ e[2] = 0 /\ Goto(c, "dead") /\ UNCHANGED reply
    /\ UNCHANGED <<status, code, worker, result, answer, posted, env, req, record, prior, late>>

-----------------------------------------------------------------------------
\* put_idempotency, and the return of dispatch.
Record(c) ==
    LET new == [payload |-> req[c].payload, status |-> reply[c], by |-> c,
                job |-> req[c].verb \in Gated]
    IN
    /\ at[c] = "recording"
    /\ \/ record' = [record EXCEPT ![req[c].verb][req[c].key] = new]
       \/ Recorded(req[c]) # NoRecord /\ UNCHANGED record
    /\ Goto(c, "done")
    /\ UNCHANGED <<jobVars, req, prior, reply, late>>

\* A database operation or the start of the thread raises, the audit of an
\* execution does, or precheck does: nothing in dispatch catches it.
Raises(c) ==
    /\ at[c] \in {"looking", "replaying", "checking", "submitting", "starting", "reading",
                  "recording"}
    /\ Fault
    /\ Goto(c, "dead")
    /\ reply' = [reply EXCEPT ![c] = 0]
    /\ UNCHANGED <<status, code, worker, result, answer, ran, posted, daemon,
                   req, record, prior, late>>

Crash ==
    /\ JobsCrash
    /\ at' = [c \in Calls |-> IF at[c] \in {"idle", "done"} THEN at[c] ELSE "dead"]
    /\ reply' = [c \in Calls |-> IF at[c] = "recording" THEN 0 ELSE reply[c]]
    /\ UNCHANGED <<req, record, prior, late>>

-----------------------------------------------------------------------------
Init ==
    /\ JobsInit
    /\ at = [c \in Calls |-> "idle"]
    /\ req = [c \in Calls |-> CHOOSE q \in RequestType : TRUE]
    /\ record = [v \in Verbs |-> [k \in Keys |-> NoRecord]]
    /\ prior = [c \in Calls |-> NoRecord]
    /\ reply = [c \in Calls |-> 0]
    /\ late = [c \in Calls |-> FALSE]

Dispatch(c) ==
    \/ LookUp(c) \/ Replay(c) \/ Precheck(c)
    \/ SubmitJob(c) \/ StartThread(c) \/ ReadBack(c)
    \/ ExecuteNow(c) \/ Record(c)

Next ==
    \/ \E c \in Calls :
          \/ \E q \in Requests : Receive(c, q)
          \/ Dispatch(c)
          \/ Raises(c)
          \/ (Ask(c) \/ Worker(c) \/ Errors(c)) /\ UNCHANGED engineVars
    \/ Crash
    \/ Boot /\ UNCHANGED engineVars

Spec == Init /\ [][Next]_vars

-----------------------------------------------------------------------------
(* Properties.                                                             *)

\* A call that comes when its key is on record is a replay: it starts no job,
\* runs nothing and asks nobody, whatever became of the first call, also when
\* that call's job is still open, was denied, failed or lost in a restart.
LateCallsOnlyReplay ==
    \A c \in Calls : late[c] =>
        status[c] = "absent" /\ ran[c] = "no" /\ answer[c] = "none"

\* Whatever the interleaving of calls, workers, errors and restarts, a command
\* of a gated verb runs only after the human's yes to the job of that very call.
GatedRunsNeedYes ==
    \A c \in Calls : ran[c] # "no" /\ req[c].verb \in Gated =>
        answer[c] = "yes" /\ status[c] # "absent"

\* tests/test_engine.py:41-58 "st2 == 200 and b2 == b1": a repeated call with
\* one key does not run the verb a second time.
KeyRunsOnce ==
    \A c, d \in Calls :
        ran[c] # "no" /\ ran[d] # "no" /\ req[c] = req[d] /\ req[c].key # NoKey => c = d

=============================================================================
