-------------------------------- MODULE Gate --------------------------------
(***************************************************************************)
(* One POST /perceive|act|watch/<verb> from the socket to the answer:      *)
(* daemon.Handler.do_POST and daemon._run_tier_a, the risk gate of         *)
(* dispatch/risk_gate.py, the audit trail it writes, and the command run   *)
(* by tier_a.run or started by SubscriptionManager.start.                  *)
(*                                                                         *)
(* Each request has a thread of its own, so Threads are the requests.  The *)
(* module extends VerbStore: every database operation of a request is a    *)
(* step of the store, interleaved with those of the other requests.        *)
(*                                                                         *)
(*   accepted -> intent -> intended -> guarding -> asking -> answered      *)
(*     -> decided -> cleared -> running -> outcome -> closing -> done      *)
(*                                                                         *)
(* "dead": an exception nothing catches ended the handler; the connection  *)
(* closes without an answer.  "lost": the process was killed.              *)
(***************************************************************************)
EXTENDS VerbStore

CONSTANTS Tier, Direction, Risk,   \* catalog.verbs: functions on Verbs
          ConfirmationRequiredFor, \* catalog.confirmation_required_for
          Unknown,                 \* a name the catalog does not have
          Calls                    \* the requests clients may send

Kinds == {"perceive", "act", "watch", "other"}

CallType == [authorized: BOOLEAN,
             body: {"object", "invalid"},
             kind: Kinds,
             verb: Verbs \cup {Unknown},
             args: {"accepted", "rejected", "not_object"}]

ASSUME GateAssumption ==
    /\ Tier \in [Verbs -> {"A", "B"}]
    /\ Direction \in [Verbs -> {"perceive", "act"}]
    /\ Risk \in [Verbs -> {"none", "low", "medium", "high"}]
    /\ ConfirmationRequiredFor \subseteq {"none", "low", "medium", "high"}
    /\ Unknown \notin Verbs
    /\ Calls \subseteq CallType

VARIABLES pc,        \* where the handler of a request is
          call,      \* the request it handles
          trail,     \* its lines in logs/audit.log, as stages
          launched,  \* history: "no", "tried" or "started": its command
          answer,    \* history: what the human answered to its dialog
          outcome,   \* the stage and the status its execution will report
          reply      \* the status of its answer, 0 while there is none

gateVars == <<pc, call, trail, launched, answer, outcome, reply>>
vars == <<storeVars, gateVars>>

-----------------------------------------------------------------------------
PCs == {"idle", "intent", "intended", "guarding", "asking", "answered", "decided",
        "cleared", "running", "outcome", "closing", "done", "dead", "lost"}

Ended == {"done", "dead", "lost"}

NoCall == [authorized |-> FALSE, body |-> "invalid", kind |-> "other",
           verb |-> Unknown, args |-> "not_object"]

Outcomes == [stage: {"executed", "failed", "timeout"}, status: {0, 200, 400, 500}]

Outcome(stage, status) == [stage |-> stage, status |-> status]

\* catalog.requires_confirmation(verb)
Gated(v) == Risk[v] \in ConfirmationRequiredFor

\* The contract of the route: perceive and act take a Tier A verb of that
\* direction, watch any Tier B verb.
Routed(c) ==
    \/ c.kind \in {"perceive", "act"} /\ Tier[c.verb] = "A" /\ Direction[c.verb] = c.kind
    \/ c.kind = "watch" /\ Tier[c.verb] = "B"

\* The early returns of do_POST, in the order of the code: the first one whose
\* condition holds answers.  (Catalog.load admits no tier but A and B, so the
\* 501 of tier C is out of reach.)
EarlyReturns(c) ==
    << [when |-> ~c.authorized,                       status |-> 401],
       [when |-> c.body = "invalid",                  status |-> 400],
       [when |-> c.kind = "other",                    status |-> 404],
       [when |-> c.args = "not_object",               status |-> 400],
       [when |-> c.verb = Unknown,                    status |-> 404],
       [when |-> c.verb # Unknown /\ ~Routed(c),      status |-> 400],
       [when |-> c.args = "rejected",                 status |-> 400] >>

Passes(c) == \A k \in 1..7 : ~EarlyReturns(c)[k].when

GateTypeOK ==
    /\ pc \in [Threads -> PCs]
    /\ call \in [Threads -> CallType]
    /\ trail \in [Threads -> Seq(Stages)]
    /\ launched \in [Threads -> {"no", "tried", "started"}]
    /\ answer \in [Threads -> {"none", "yes", "no"}]
    /\ outcome \in [Threads -> Outcomes]
    /\ reply \in [Threads -> {0, 200, 400, 401, 403, 404, 500}]
    /\ \A r \in Threads : pc[r] \notin {"idle"} \cup Ended => Passes(call[r])

-----------------------------------------------------------------------------
(* Helpers of the handlers.                                                *)

Goto(r, label) == pc' = [pc EXCEPT ![r] = label]

Answered(r, status) ==
    /\ Goto(r, "done")
    /\ reply' = [reply EXCEPT ![r] = status]

\* Mistake: failures go to the database only.
LoggedUnlessFailed(r, stage) ==
    [trail EXCEPT ![r] = IF stage \in FailureStages THEN @ ELSE Append(@, stage)]

Logged(r, stage) == [trail EXCEPT ![r] = Append(@, stage)]

\* audit(): the line is written under _AUDIT_LOCK, then record_outcome starts.
Audit(r, stage, label) ==
    /\ trail' = Logged(r, stage)
    /\ BeginRecord(r, call[r].verb, stage)
    /\ Goto(r, label)
    /\ UNCHANGED <<call, launched, answer, outcome, reply>>

\* The record_outcome of an audit() is over; its exceptions are swallowed.
Recording(r, label) == pc[r] = label /\ op[r].step = "idle"

-----------------------------------------------------------------------------
(* do_POST up to the risk gate.                                            *)

Reject(r, c) ==
    /\ pc[r] = "idle"
    /\ \E k \in 1..7 :
          /\ EarlyReturns(c)[k].when
          /\ \A j \in 1..(k-1) : ~EarlyReturns(c)[j].when
          /\ Answered(r, EarlyReturns(c)[k].status)
    /\ UNCHANGED <<storeVars, call, trail, launched, answer, outcome>>

\* Mistake: nothing is checked before the risk gate.
AcceptAnything(r, c) ==
    /\ pc[r] = "idle"
    /\ call' = [call EXCEPT ![r] = c]
    /\ Goto(r, "intent")
    /\ UNCHANGED <<storeVars, trail, launched, answer, outcome, reply>>

Accept(r, c) ==
    /\ pc[r] = "idle"
    /\ Passes(c)
    /\ call' = [call EXCEPT ![r] = c]
    /\ Goto(r, "intent")
    /\ UNCHANGED <<storeVars, trail, launched, answer, outcome, reply>>

-----------------------------------------------------------------------------
(* risk_gate.check                                                         *)

LogIntent(r) == pc[r] = "intent" /\ Audit(r, "requested", "intended")

\* Mistake: one dialog at a time, held by a lock that every call takes.
IntendedInTurn(r) == Recording(r, "intended") /\ \A q \in Threads : pc[q] # "asking"

Intended(r) == Recording(r, "intended")

CheckBreaker(r) ==
    /\ Intended(r)
    /\ BeginGuard(r, call[r].verb)
    /\ Goto(r, "guarding")
    /\ UNCHANGED <<call, trail, launched, answer, outcome, reply>>

\* Mistake: a database error of the guard is taken for a closed breaker.
GuardNotRefused(r) == op[r].result \in {"closed", "error"}

\* Mistake: CircuitOpen is swallowed.
GuardNotFailed(r) == op[r].result \in {"closed", "CircuitOpen"}

GuardReturned(r) == op[r].result = "closed"

\* Mistake: the verb's risk is not looked at.
AskNobody(v) == "cleared"

\* On to the dialog, or straight on for a verb without one.
AfterGuard(v) == IF Gated(v) THEN "asking" ELSE "cleared"

Admit(r) ==
    /\ Recording(r, "guarding")
    /\ GuardReturned(r)
    /\ Goto(r, AfterGuard(call[r].verb))
    /\ UNCHANGED <<storeVars, call, trail, launched, answer, outcome, reply>>

\* guard raised CircuitOpen: 500.
Refused(r) ==
    /\ Recording(r, "guarding")
    /\ op[r].result = "CircuitOpen"
    /\ Answered(r, 500)
    /\ UNCHANGED <<storeVars, call, trail, launched, answer, outcome>>

\* guard is outside any try: a database exception ends the handler.
GuardRaises(r) ==
    /\ Recording(r, "guarding")
    /\ op[r].result = "error"
    /\ Goto(r, "dead")
    /\ UNCHANGED <<storeVars, call, trail, launched, answer, outcome, reply>>

\* _confirm_on_device: "no" is a tap on no, two minutes without a tap, a
\* failed or missing termux-dialog, or output that is not JSON.
Dialog(r) ==
    /\ pc[r] = "asking"
    /\ \E a \in {"yes", "no"} : answer' = [answer EXCEPT ![r] = a]
    /\ Goto(r, "answered")
    /\ UNCHANGED <<storeVars, call, trail, launched, outcome, reply>>

\* Only TimeoutExpired and FileNotFoundError are caught: an argument list that
\* is too long or a termux-dialog that may not be executed ends the handler.
DialogRaises(r) ==
    /\ pc[r] = "asking"
    /\ Goto(r, "dead")
    /\ UNCHANGED <<storeVars, call, trail, launched, answer, outcome, reply>>

LogDecision(r) ==
    /\ pc[r] = "answered"
    /\ Audit(r, IF answer[r] = "yes" THEN "approved" ELSE "denied", "decided")

\* Mistake: a denied call is logged and goes on.
AnyAnswer(r) == answer[r] \in {"yes", "no"}

Approved(r) == answer[r] = "yes"

Decide(r) ==
    /\ Recording(r, "decided")
    /\ \/ Approved(r) /\ Goto(r, "cleared") /\ UNCHANGED reply
       \/ ~Approved(r) /\ Answered(r, 403)
    /\ UNCHANGED <<storeVars, call, trail, launched, answer, outcome>>

-----------------------------------------------------------------------------
(* tier_a.run and SubscriptionManager.start                                *)

Launched(r, how) == launched' = [launched EXCEPT ![r] = how]

\* A Tier A command starts; the handler waits for it.
RunCommand(r) ==
    /\ pc[r] = "cleared" /\ Tier[call[r].verb] = "A"
    /\ Launched(r, "started")
    /\ Goto(r, "running")
    /\ UNCHANGED <<storeVars, call, trail, answer, outcome, reply>>

\* It does not start: no such command is an ExecutionError (500), a NUL in an
\* argument a ValueError (400).
CommandNotRun(r) ==
    /\ pc[r] = "cleared" /\ Tier[call[r].verb] = "A"
    /\ Launched(r, "tried")
    /\ \E status \in {400, 500} :
          outcome' = [outcome EXCEPT ![r] = Outcome("failed", status)]
    /\ Goto(r, "outcome")
    /\ UNCHANGED <<storeVars, call, trail, answer, reply>>

\* It ends: well, past its timeout, with an exit code or output the parser
\* refuses (500), or with bytes that are not UTF-8, whose UnicodeDecodeError
\* the handler takes for a bad request (a ValueError: 400).
FinishCommand(r) ==
    /\ pc[r] = "running"
    /\ outcome' \in { [outcome EXCEPT ![r] = Outcome(o[1], o[2])] :
          o \in {<<"executed", 200>>, <<"timeout", 500>>, <<"failed", 500>>, <<"failed", 400>>} }
    /\ Goto(r, "outcome")
    /\ UNCHANGED <<storeVars, call, trail, launched, answer, reply>>

\* A subscription starts, or Popen raises an OSError, or the pid file cannot be
\* written once the process runs: 500 for a subscription that is live.
StartWatch(r) ==
    /\ pc[r] = "cleared" /\ Tier[call[r].verb] = "B"
    /\ \/ Launched(r, "started") /\ outcome' = [outcome EXCEPT ![r] = Outcome("executed", 200)]
       \/ Launched(r, "tried")   /\ outcome' = [outcome EXCEPT ![r] = Outcome("failed", 500)]
       \/ Launched(r, "started") /\ outcome' = [outcome EXCEPT ![r] = Outcome("failed", 500)]
    /\ Goto(r, "outcome")
    /\ UNCHANGED <<storeVars, call, trail, answer, reply>>

\* What neither route catches: an OSError other than FileNotFoundError from a
\* Tier A command, a ValueError from SubscriptionManager.start.
LaunchRaises(r) ==
    /\ pc[r] = "cleared"
    /\ Launched(r, "tried")
    /\ Goto(r, "dead")
    /\ UNCHANGED <<storeVars, call, trail, answer, outcome, reply>>

LogOutcome(r) == pc[r] = "outcome" /\ Audit(r, outcome[r].stage, "closing")

\* Mistake: a failure is logged and answered like a success.
Ok(r) == 200

StatusOf(r) == outcome[r].status

Respond(r) ==
    /\ Recording(r, "closing")
    /\ Answered(r, StatusOf(r))
    /\ UNCHANGED <<storeVars, call, trail, launched, answer, outcome>>

-----------------------------------------------------------------------------
(* Faults.                                                                 *)

\* The audit file cannot be opened or written: audit() lets the OSError
\* through, and no handler catches it.
AuditRaises(r) ==
    /\ pc[r] \in {"intent", "answered", "outcome"}
    /\ faults < MaxFaults
    /\ faults' = faults + 1
    /\ Goto(r, "dead")
    /\ UNCHANGED <<now, rows, op, seen, settled, call, trail, launched, answer,
                   outcome, reply>>

\* Killed and started again: requests in progress are gone.
Restart ==
    /\ StoreRestart
    /\ pc' = [r \in Threads |-> IF pc[r] \in {"idle"} \cup Ended THEN pc[r] ELSE "lost"]
    /\ UNCHANGED <<call, trail, launched, answer, outcome, reply>>

-----------------------------------------------------------------------------
Init ==
    /\ StoreInit
    /\ pc = [r \in Threads |-> "idle"]
    /\ call = [r \in Threads |-> NoCall]
    /\ trail = [r \in Threads |-> <<>>]
    /\ launched = [r \in Threads |-> "no"]
    /\ answer = [r \in Threads |-> "none"]
    /\ outcome = [r \in Threads |-> Outcome("executed", 0)]
    /\ reply = [r \in Threads |-> 0]

Receive(r) == \E c \in Calls : Accept(r, c) \/ Reject(r, c)

Confirm(r) == Dialog(r) \/ DialogRaises(r)

Store(r) == StoreStep(r) /\ UNCHANGED gateVars

\* What the handler of r does by itself, once it has accepted the request.
Handle(r) ==
    \/ Store(r)
    \/ LogIntent(r)
    \/ CheckBreaker(r)
    \/ Admit(r)
    \/ Refused(r)
    \/ GuardRaises(r)
    \/ LogDecision(r)
    \/ Decide(r)
    \/ RunCommand(r)
    \/ CommandNotRun(r)
    \/ StartWatch(r)
    \/ LaunchRaises(r)
    \/ FinishCommand(r)
    \/ LogOutcome(r)
    \/ Respond(r)

Next ==
    \/ \E r \in Threads :
          \/ Receive(r)
          \/ Handle(r)
          \/ Confirm(r)
          \/ AuditRaises(r)
          \/ DbError(r) /\ UNCHANGED gateVars
    \/ Restart
    \/ Tick /\ UNCHANGED gateVars

Spec == Init /\ [][Next]_vars

\* Threads are scheduled, commands are killed at their timeout.
HandlersRun == \A r \in Threads : WF_vars(Handle(r))

\* A dialog is killed after two minutes; FairSpec does not rely on it.
DialogsEnd == \A r \in Threads : WF_vars(Confirm(r))

FairSpec == Spec /\ HandlersRun

-----------------------------------------------------------------------------
(* Properties.                                                             *)

Last(s) == s[Len(s)]

\* The lines up to the execution, and the whole trails of a call of verb v.
Prefix(v) == IF Gated(v) THEN <<"requested", "approved">> ELSE <<"requested">>

Lifecycles(v) ==
    {<<"requested">>, Prefix(v)}
      \cup {Append(Prefix(v), stage) : stage \in {"executed", "failed", "timeout"}}
      \cup IF Gated(v) THEN {<<"requested", "denied">>} ELSE {}

\* README.md "Audit log": the lines of a call are a prefix of its lifecycle, in
\* that order and with no line twice, whatever happens to the call; a line of
\* the lifecycle the code has no business to write (an outcome without an
\* approval, a decision for an ungated verb) never appears.
TrailIsLifecycle ==
    \A r \in Threads : trail[r] # <<>> => trail[r] \in Lifecycles(call[r].verb)

\* risk_gate.py "Only an explicit human yes lets execution proceed": a command
\* of a gated verb is attempted only after the dialog of THAT request was
\* answered yes and the approval is on file, also across restarts and with the
\* dialogs of several requests open at once.
OwnApproval ==
    \A r \in Threads : launched[r] # "no" /\ Gated(call[r].verb) =>
        answer[r] = "yes" /\ Len(trail[r]) >= 2 /\ trail[r][2] = "approved"

\* risk_gate.py "written to the audit log first": nobody is asked and nothing
\* is attempted before the intent is on file, so a crash leaves a record.
IntentOnRecord ==
    \A r \in Threads : launched[r] # "no" \/ answer[r] # "none" \/ pc[r] = "asking"
        => Len(trail[r]) >= 1 /\ trail[r][1] = "requested"

\* What the client is told and what the log says agree: 200 means executed, 403
\* denied, 500 a failure on file or a refusal that attempted nothing, and the
\* early answers leave no line and attempt nothing.
ReplyMatchesTrail ==
    \A r \in Threads :
      /\ reply[r] = 200 => trail[r] # <<>> /\ Last(trail[r]) = "executed"
      /\ reply[r] = 403 => trail[r] # <<>> /\ Last(trail[r]) = "denied"
      /\ reply[r] = 500 => /\ trail[r] # <<>>
                           /\ \/ Last(trail[r]) \in FailureStages
                              \/ trail[r] = <<"requested">> /\ launched[r] = "no"
      /\ reply[r] \in {401, 404} => trail[r] = <<>> /\ launched[r] = "no"
      /\ reply[r] = 400 => trail[r] = <<>> \/ Last(trail[r]) = "failed"

\* audit() writes the file before the database: each failure the breaker counts
\* is on file, so the breaker can be explained from the log, after any restart.
RowsBackedByTrail ==
    \A v \in Verbs :
        Len(failures[v]) <= Cardinality({r \in Threads :
            trail[r] # <<>> /\ call[r].verb = v /\ Last(trail[r]) \in FailureStages})

PastGuard(r) ==
    \/ pc[r] \in {"asking", "answered", "decided", "cleared", "running", "outcome", "closing"}
    \/ launched[r] # "no"

\* The guard of r returned, for the verb of r, and no row it read was cooling down
\* then, save one followed by a row with an earlier time: is_open goes by the id,
\* and a time is read before the lock is taken.
Admitted(r) ==
    LET v == call[r].verb
        n == seen[r].rows
    IN  /\ seen[r].verb = v
        /\ n <= Len(opens[v])
        /\ \A k \in 1..n : seen[r].at - opens[v][k] < CooldownS =>
              \E j \in (k+1)..n : opens[v][j] < opens[v][k]

\* A request past the gate was admitted by its own guard, for its own verb, with
\* the breaker closed, and the rows that guard read are still there: no answer,
\* error or restart takes a request past a guard that raised CircuitOpen or a
\* database error (risk_gate.py:97, outside any try), or that was never called.
AdmittedWhileClosed == \A r \in Threads : PastGuard(r) => Admitted(r)

\* A command starts under an open breaker only if the guard of that request
\* returned, and the row that keeps the breaker open was written after that: the
\* trip of another request stops every request that has not been admitted yet, and
\* no other; the row of its own refusal admits nobody.
NoNewRunWhileOpen ==
    [][\A r \in Threads :
          launched[r] = "no" /\ launched'[r] = "started" /\ IsOpen(call[r].verb, now)
          => /\ seen[r].verb = call[r].verb
             /\ Len(opens[call[r].verb]) > seen[r].rows]_vars

\* daemon.py:21 "a high-risk verb blocking on a termux-dialog confirm never
\* stalls ... other verbs": ungated requests end even if no dialog ever does.
OthersNeverStall ==
    \A r \in Threads :
        pc[r] = "intent" /\ ~Gated(call[r].verb) ~> pc[r] \in Ended

-----------------------------------------------------------------------------
(* What the documents say and the code does not do.                        *)

\* README.md:86 "... then timeout/executed/failed after the attempt".
AttemptHasOutcome ==
    \A r \in Threads : launched[r] # "no" /\ pc[r] \in {"done", "dead"} =>
        Last(trail[r]) \in {"executed", "failed", "timeout"}

=============================================================================
