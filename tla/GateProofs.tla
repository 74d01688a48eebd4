------------------------------ MODULE GateProofs ------------------------------
(***************************************************************************)
(* Proofs about Gate for every catalog, every set of requests and every    *)
(* setting of the breaker.  The invariant is a conjunction over the        *)
(* requests: what the position of a handler says about its own log lines,  *)
(* dialog and command (TrailLink), and about its store call and the rows   *)
(* its guard read (StoreLink).  A step changes these values for one        *)
(* request; for the others only the store grows (Frame).  Two sections at  *)
(* the end follow the rows of the breaker: each has its line in the log    *)
(* (RowsLink), and with quick calls each trip its cause (GateQuickNext).   *)
(***************************************************************************)
EXTENDS Gate, VerbStoreProofs

BeforeLaunch == {"idle", "intent", "intended", "guarding", "asking", "answered",
                 "decided", "cleared"}

TrailLink(r) ==
    /\ pc[r] \notin {"idle"} \cup Ended \/ launched[r] # "no" => call[r].verb \in Verbs
    /\ pc[r] \in {"idle", "intent"} => trail[r] = <<>>
    /\ pc[r] \in {"intended", "guarding", "asking", "answered"} => trail[r] = <<"requested">>
    /\ pc[r] \in {"idle", "intent", "intended", "guarding", "asking"} => answer[r] = "none"
    /\ pc[r] \in BeforeLaunch => launched[r] = "no"
    /\ pc[r] \in {"asking", "answered", "decided"} => Gated(call[r].verb)
    /\ pc[r] \in {"answered", "decided"} => answer[r] \in {"yes", "no"}
    /\ pc[r] = "decided" =>
          trail[r] = <<"requested", IF answer[r] = "yes" THEN "approved" ELSE "denied">>
    /\ pc[r] \in {"cleared", "running", "outcome"} => trail[r] = Prefix(call[r].verb)
    /\ pc[r] = "closing" => trail[r] = Append(Prefix(call[r].verb), outcome[r].stage)
    /\ pc[r] \in {"cleared", "running", "outcome", "closing"} /\ Gated(call[r].verb)
          => answer[r] = "yes"
    /\ trail[r] # <<>> => trail[r] \in Lifecycles(call[r].verb)
    /\ launched[r] # "no" \/ answer[r] # "none" => trail[r] # <<>>
    /\ launched[r] # "no" /\ Gated(call[r].verb) =>
          answer[r] = "yes" /\ Len(trail[r]) >= 2 /\ trail[r][2] = "approved"

ReplyLink(r) ==
    /\ pc[r] # "done" => reply[r] = 0
    /\ pc[r] \in {"outcome", "closing"} =>
          \/ outcome[r].status = 200 /\ outcome[r].stage = "executed"
          \/ outcome[r].status = 500 /\ outcome[r].stage \in FailureStages
          \/ outcome[r].status = 400 /\ outcome[r].stage = "failed"
    /\ reply[r] = 200 => trail[r] # <<>> /\ Last(trail[r]) = "executed"
    /\ reply[r] = 403 => trail[r] # <<>> /\ Last(trail[r]) = "denied"
    /\ reply[r] = 500 => /\ trail[r] # <<>>
                         /\ \/ Last(trail[r]) \in FailureStages
                            \/ trail[r] = <<"requested">> /\ launched[r] = "no"
    /\ reply[r] \in {401, 404} => trail[r] = <<>> /\ launched[r] = "no"
    /\ reply[r] = 400 => trail[r] = <<>> \/ Last(trail[r]) = "failed"

StoreLink(r) ==
    /\ pc[r] \notin {"intended", "guarding", "decided", "closing"} => op[r].step = "idle"
    /\ op[r].step # "idle" => op[r].verb = call[r].verb
    /\ pc[r] = "guarding" => op[r].step \in {"guard", "refuse", "idle"}
    /\ op[r].step \in {"guard", "refuse"} => pc[r] = "guarding"
    /\ pc[r] = "guarding" /\ op[r].step = "idle" /\ op[r].result = "closed" => Admitted(r)
    /\ PastGuard(r) => Admitted(r)
    /\ seen[r].at <= now

Links(r) == TrailLink(r) /\ ReplyLink(r) /\ StoreLink(r)

GateInv == StoreInv /\ GateTypeOK /\ \A r \in Threads : Links(r)

-----------------------------------------------------------------------------
(* What a step leaves alone.                                               *)

\* Nothing of request u changes.
Kept(u) ==
    /\ pc'[u] = pc[u] /\ call'[u] = call[u] /\ trail'[u] = trail[u]
    /\ launched'[u] = launched[u] /\ answer'[u] = answer[u]
    /\ outcome'[u] = outcome[u] /\ reply'[u] = reply[u]
    /\ op'[u] = op[u] /\ seen'[u] = seen[u]

\* The clock and the circuit_open rows only grow.
Grows ==
    /\ now' >= now
    /\ \A v \in Verbs :
          /\ Len(opens'[v]) >= Len(opens[v])
          /\ \A i \in 1..Len(opens[v]) : opens'[v][i] = opens[v][i]

-----------------------------------------------------------------------------
\* What the early returns leave has a verb of the catalog.
LEMMA PassesVerb ==
    ASSUME NEW c \in CallType, Passes(c)
    PROVE  c.verb \in Verbs
<1>1. ~EarlyReturns(c)[5].when
  BY DEF Passes
<1>2. EarlyReturns(c)[5].when = (c.verb = Unknown)
  BY DEF EarlyReturns
<1> QED BY <1>1, <1>2 DEF CallType

\* Growth of the store does not undo an admission.
LEMMA AdmittedStays ==
    ASSUME NEW u \in Threads, StoreTypeOK, StoreTypeOK', Grows, Admitted(u),
           call[u].verb \in Verbs, call'[u] = call[u], seen'[u] = seen[u]
    PROVE  Admitted(u)'
<1> DEFINE v == call[u].verb
           n == seen[u].rows
<1>1. n \in Nat /\ Len(opens[v]) \in Nat /\ Len(opens'[v]) \in Nat
  BY DEF StoreTypeOK, Admissions
<1>2. Len(opens'[v]) >= Len(opens[v]) /\ \A i \in 1..Len(opens[v]) : opens'[v][i] = opens[v][i]
  BY DEF Grows
<1>3. /\ seen[u].verb = v /\ n <= Len(opens[v])
      /\ \A k \in 1..n : seen[u].at - opens[v][k] < CooldownS =>
            \E j \in (k+1)..n : opens[v][j] < opens[v][k]
  BY DEF Admitted
<1>4. /\ n <= Len(opens'[v])
      /\ \A k \in 1..n : seen[u].at - opens'[v][k] < CooldownS =>
            \E j \in (k+1)..n : opens'[v][j] < opens'[v][k]
  <2> HIDE DEF n, v
  <2>1. n <= Len(opens'[v])
    BY <1>1, <1>2, <1>3
  <2>2. \A k \in 1..n : opens'[v][k] = opens[v][k]
    BY <1>1, <1>2, <1>3
  <2>3. \A k \in 1..n : (k+1)..n \subseteq 1..n
    BY <1>1
  <2> QED BY <1>3, <2>1, <2>2, <2>3
<1> QED BY <1>3, <1>4 DEF Admitted

\* A step of another request or of the clock does not disturb u.
LEMMA Frame ==
    ASSUME NEW u \in Threads, StoreTypeOK, StoreTypeOK', Links(u), Kept(u), Grows
    PROVE  Links(u)'
<1>1. TrailLink(u)'
  BY DEF Links, Kept, TrailLink
<1>2. ReplyLink(u)'
  BY DEF Links, Kept, ReplyLink
<1>3. Admitted(u) /\ call[u].verb \in Verbs => Admitted(u)'
  BY AdmittedStays DEF Kept
<1>4. PastGuard(u)' = PastGuard(u)
  BY DEF Kept, PastGuard
<1>5. PastGuard(u) \/ pc[u] = "guarding" => call[u].verb \in Verbs
  BY DEF Links, TrailLink, PastGuard, Ended
<1>6. seen[u].at \in Nat /\ seen'[u] = seen[u] /\ now \in Nat /\ now' \in Nat /\ now' >= now
  BY DEF StoreTypeOK, Admissions, Kept, Grows
<1>7. StoreLink(u)'
  BY <1>3, <1>4, <1>5, <1>6 DEF Links, Kept, StoreLink
<1> QED BY <1>1, <1>2, <1>7 DEF Links

\* With the store unchanged only the place of the request matters.
LEMMA SameStore ==
    ASSUME NEW r \in Threads, StoreLink(r), UNCHANGED storeVars,
           call'[r] = call[r], op[r].step = "idle", pc'[r] # "guarding",
           PastGuard(r)' => Admitted(r)
    PROVE  StoreLink(r)'
BY DEF StoreLink, Admitted, storeVars

\* To keep the invariant, a step of request r keeps the types, lets the store
\* grow, leaves the other requests alone and keeps the links of r.
LEMMA OneRequest ==
    ASSUME GateInv, NEW r \in Threads, StoreInv', GateTypeOK', Grows,
           \A u \in Threads \ {r} : Kept(u), Links(r)'
    PROVE  GateInv'
<1>1. \A u \in Threads \ {r} : Links(u)'
  BY Frame DEF GateInv, StoreInv
<1> QED BY <1>1 DEF GateInv

\* The steps of r that are not steps of the store.
LEMMA StoreUntouched ==
    ASSUME StoreInv, UNCHANGED storeVars
    PROVE  /\ StoreInv' /\ Grows
           /\ \A u \in Threads : op'[u] = op[u] /\ seen'[u] = seen[u]
<1>1. StoreInv'
  BY StoreStutterInv
<1>2. now \in Nat /\ \A v \in Verbs : Len(opens[v]) \in Nat
  BY DEF StoreInv, StoreTypeOK
<1> QED BY <1>1, <1>2 DEF storeVars, Grows

-----------------------------------------------------------------------------
(* do_POST up to the risk gate.                                            *)

LEMMA RejectInv ==
    ASSUME GateInv, NEW r \in Threads, NEW c \in CallType, Reject(r, c)
    PROVE  GateInv'
<1>1. PICK k \in 1..7 : EarlyReturns(c)[k].when /\ Answered(r, EarlyReturns(c)[k].status)
  BY DEF Reject
<1>2. EarlyReturns(c)[k].status \in {400, 401, 404}
  BY DEF EarlyReturns
<1>3. /\ pc[r] = "idle"
      /\ pc' = [pc EXCEPT ![r] = "done"]
      /\ reply' = [reply EXCEPT ![r] = EarlyReturns(c)[k].status]
      /\ UNCHANGED <<storeVars, call, trail, launched, answer, outcome>>
  BY <1>1 DEF Reject, Answered, Goto
<1>4. GateTypeOK'
  BY <1>2, <1>3 DEF GateInv, GateTypeOK, PCs, Ended
<1>5. /\ pc'[r] = "done" /\ reply'[r] \in {400, 401, 404}
      /\ \A u \in Threads \ {r} : pc'[u] = pc[u] /\ reply'[u] = reply[u]
  BY <1>2, <1>3 DEF GateInv, GateTypeOK
<1>6. StoreInv' /\ Grows /\ \A u \in Threads : op'[u] = op[u] /\ seen'[u] = seen[u]
  BY <1>3, StoreUntouched DEF GateInv
<1>7. \A u \in Threads \ {r} : Kept(u)
  BY <1>3, <1>5, <1>6 DEF Kept
<1>8. TrailLink(r)'
  BY <1>3, <1>5 DEF GateInv, Links, TrailLink, BeforeLaunch, Ended
<1>9. ReplyLink(r)'
  BY <1>3, <1>5 DEF GateInv, Links, ReplyLink, TrailLink, BeforeLaunch
<1>10. StoreLink(r)'
  <2>1. StoreLink(r) /\ launched[r] = "no"
    BY <1>3 DEF GateInv, Links, TrailLink, BeforeLaunch
  <2> QED BY <1>3, <1>5, <2>1, SameStore DEF PastGuard, StoreLink
<1> QED BY <1>4, <1>6, <1>7, <1>8, <1>9, <1>10, OneRequest DEF Links

-----------------------------------------------------------------------------
(* risk_gate.check, between its database operations.                       *)

LEMMA AdmitInv ==
    ASSUME GateInv, NEW r \in Threads, Admit(r)
    PROVE  GateInv'
<1>1. /\ pc[r] = "guarding" /\ op[r].step = "idle" /\ op[r].result = "closed"
      /\ pc' = [pc EXCEPT ![r] = IF Gated(call[r].verb) THEN "asking" ELSE "cleared"]
      /\ UNCHANGED <<storeVars, call, trail, launched, answer, outcome, reply>>
  BY DEF Admit, GuardReturned, AfterGuard, Goto, Answered, Launched, Recording
<1>2. TrailLink(r) /\ ReplyLink(r) /\ StoreLink(r) /\ StoreInv /\ GateTypeOK
  BY DEF GateInv, Links
<1>3. /\ pc'[r] = IF Gated(call[r].verb) THEN "asking" ELSE "cleared"
      /\ \A u \in Threads \ {r} : pc'[u] = pc[u]
  BY <1>1, <1>2 DEF GateTypeOK
<1>4. GateTypeOK'
  BY <1>1, <1>2, <1>3 DEF GateTypeOK, PCs, Ended, Outcomes, Outcome
<1>5. StoreInv' /\ Grows /\ \A u \in Threads : op'[u] = op[u] /\ seen'[u] = seen[u]
  BY <1>1, <1>2, StoreUntouched
<1>6. \A u \in Threads \ {r} : Kept(u)
  BY <1>1, <1>3, <1>5 DEF Kept
<1>7. TrailLink(r)'
  BY <1>1, <1>2, <1>3 DEF TrailLink, BeforeLaunch, Ended, Prefix
<1>8. ReplyLink(r)'
  BY <1>1, <1>2, <1>3 DEF ReplyLink, TrailLink, BeforeLaunch
<1>9. StoreLink(r)'
  <2>1. op[r].step = "idle" /\ (PastGuard(r)' => Admitted(r))
    BY <1>1, <1>2, <1>3 DEF StoreLink, TrailLink, BeforeLaunch, PastGuard
  <2> QED BY <1>1, <1>2, <1>3, <2>1, SameStore
<1> QED BY <1>4, <1>5, <1>6, <1>7, <1>8, <1>9, OneRequest DEF Links

LEMMA RefusedInv ==
    ASSUME GateInv, NEW r \in Threads, Refused(r)
    PROVE  GateInv'
<1>1. /\ pc[r] = "guarding" /\ op[r].step = "idle"
      /\ pc' = [pc EXCEPT ![r] = "done"] /\ reply' = [reply EXCEPT ![r] = 500]
      /\ UNCHANGED <<storeVars, call, trail, launched, answer, outcome>>
  BY DEF Refused, Goto, Answered, Launched, Recording
<1>2. TrailLink(r) /\ ReplyLink(r) /\ StoreLink(r) /\ StoreInv /\ GateTypeOK
  BY DEF GateInv, Links
<1>3. /\ pc'[r] = "done" /\ reply'[r] = 500
      /\ \A u \in Threads \ {r} : pc'[u] = pc[u] /\ reply'[u] = reply[u]
  BY <1>1, <1>2 DEF GateTypeOK
<1>4. GateTypeOK'
  BY <1>1, <1>2, <1>3 DEF GateTypeOK, PCs, Ended, Outcomes, Outcome
<1>5. StoreInv' /\ Grows /\ \A u \in Threads : op'[u] = op[u] /\ seen'[u] = seen[u]
  BY <1>1, <1>2, StoreUntouched
<1>6. \A u \in Threads \ {r} : Kept(u)
  BY <1>1, <1>3, <1>5 DEF Kept
<1>7. TrailLink(r)'
  BY <1>1, <1>2, <1>3 DEF TrailLink, BeforeLaunch, Ended
<1>8. ReplyLink(r)'
  <2>1. trail'[r] = <<"requested">> /\ trail'[r] # <<>> /\ launched'[r] = "no"
    BY <1>1, <1>2 DEF TrailLink, BeforeLaunch
  <2> QED BY <1>3, <2>1 DEF ReplyLink
<1>9. StoreLink(r)'
  <2>1. op[r].step = "idle" /\ (PastGuard(r)' => Admitted(r))
    BY <1>1, <1>2, <1>3 DEF StoreLink, TrailLink, BeforeLaunch, PastGuard
  <2> QED BY <1>1, <1>2, <1>3, <2>1, SameStore
<1> QED BY <1>4, <1>5, <1>6, <1>7, <1>8, <1>9, OneRequest DEF Links

LEMMA GuardRaisesInv ==
    ASSUME GateInv, NEW r \in Threads, GuardRaises(r)
    PROVE  GateInv'
<1>1. /\ pc[r] = "guarding" /\ op[r].step = "idle"
      /\ pc' = [pc EXCEPT ![r] = "dead"]
      /\ UNCHANGED <<storeVars, call, trail, launched, answer, outcome, reply>>
  BY DEF GuardRaises, Goto, Answered, Launched, Recording
<1>2. TrailLink(r) /\ ReplyLink(r) /\ StoreLink(r) /\ StoreInv /\ GateTypeOK
  BY DEF GateInv, Links
<1>3. /\ pc'[r] = "dead"
      /\ \A u \in Threads \ {r} : pc'[u] = pc[u]
  BY <1>1, <1>2 DEF GateTypeOK
<1>4. GateTypeOK'
  BY <1>1, <1>2, <1>3 DEF GateTypeOK, PCs, Ended, Outcomes, Outcome
<1>5. StoreInv' /\ Grows /\ \A u \in Threads : op'[u] = op[u] /\ seen'[u] = seen[u]
  BY <1>1, <1>2, StoreUntouched
<1>6. \A u \in Threads \ {r} : Kept(u)
  BY <1>1, <1>3, <1>5 DEF Kept
<1>7. TrailLink(r)'
  BY <1>1, <1>2, <1>3 DEF TrailLink, BeforeLaunch, Ended
<1>8. ReplyLink(r)'
  BY <1>1, <1>2, <1>3 DEF ReplyLink, TrailLink, BeforeLaunch
<1>9. StoreLink(r)'
  <2>1. op[r].step = "idle" /\ (PastGuard(r)' => Admitted(r))
    BY <1>1, <1>2, <1>3 DEF StoreLink, TrailLink, BeforeLaunch, PastGuard
  <2> QED BY <1>1, <1>2, <1>3, <2>1, SameStore
<1> QED BY <1>4, <1>5, <1>6, <1>7, <1>8, <1>9, OneRequest DEF Links

LEMMA DialogInv ==
    ASSUME GateInv, NEW r \in Threads, Dialog(r)
    PROVE  GateInv'
<1>1. /\ pc[r] = "asking" /\ pc' = [pc EXCEPT ![r] = "answered"]
      /\ \E a \in {"yes", "no"} : answer' = [answer EXCEPT ![r] = a]
      /\ UNCHANGED <<storeVars, call, trail, launched, outcome, reply>>
  BY DEF Dialog, Goto, Answered, Launched, Recording
<1>2. TrailLink(r) /\ ReplyLink(r) /\ StoreLink(r) /\ StoreInv /\ GateTypeOK
  BY DEF GateInv, Links
<1>3. /\ pc'[r] = "answered" /\ answer'[r] \in {"yes", "no"}
      /\ \A u \in Threads \ {r} : pc'[u] = pc[u] /\ answer'[u] = answer[u]
  BY <1>1, <1>2 DEF GateTypeOK
<1>4. GateTypeOK'
  BY <1>1, <1>2, <1>3 DEF GateTypeOK, PCs, Ended, Outcomes, Outcome
<1>5. StoreInv' /\ Grows /\ \A u \in Threads : op'[u] = op[u] /\ seen'[u] = seen[u]
  BY <1>1, <1>2, StoreUntouched
<1>6. \A u \in Threads \ {r} : Kept(u)
  BY <1>1, <1>3, <1>5 DEF Kept
<1>7. TrailLink(r)'
  BY <1>1, <1>2, <1>3 DEF TrailLink, BeforeLaunch, Ended
<1>8. ReplyLink(r)'
  BY <1>1, <1>2, <1>3 DEF ReplyLink, TrailLink, BeforeLaunch
<1>9. StoreLink(r)'
  <2>1. op[r].step = "idle" /\ (PastGuard(r)' => Admitted(r))
    BY <1>1, <1>2, <1>3 DEF StoreLink, TrailLink, BeforeLaunch, PastGuard
  <2> QED BY <1>1, <1>2, <1>3, <2>1, SameStore
<1> QED BY <1>4, <1>5, <1>6, <1>7, <1>8, <1>9, OneRequest DEF Links

LEMMA DialogRaisesInv ==
    ASSUME GateInv, NEW r \in Threads, DialogRaises(r)
    PROVE  GateInv'
<1>1. /\ pc[r] = "asking" /\ pc' = [pc EXCEPT ![r] = "dead"]
      /\ UNCHANGED <<storeVars, call, trail, launched, answer, outcome, reply>>
  BY DEF DialogRaises, Goto, Answered, Launched, Recording
<1>2. TrailLink(r) /\ ReplyLink(r) /\ StoreLink(r) /\ StoreInv /\ GateTypeOK
  BY DEF GateInv, Links
<1>3. /\ pc'[r] = "dead"
      /\ \A u \in Threads \ {r} : pc'[u] = pc[u]
  BY <1>1, <1>2 DEF GateTypeOK
<1>4. GateTypeOK'
  BY <1>1, <1>2, <1>3 DEF GateTypeOK, PCs, Ended, Outcomes, Outcome
<1>5. StoreInv' /\ Grows /\ \A u \in Threads : op'[u] = op[u] /\ seen'[u] = seen[u]
  BY <1>1, <1>2, StoreUntouched
<1>6. \A u \in Threads \ {r} : Kept(u)
  BY <1>1, <1>3, <1>5 DEF Kept
<1>7. TrailLink(r)'
  BY <1>1, <1>2, <1>3 DEF TrailLink, BeforeLaunch, Ended
<1>8. ReplyLink(r)'
  BY <1>1, <1>2, <1>3 DEF ReplyLink, TrailLink, BeforeLaunch
<1>9. StoreLink(r)'
  <2>1. op[r].step = "idle" /\ (PastGuard(r)' => Admitted(r))
    BY <1>1, <1>2, <1>3 DEF StoreLink, TrailLink, BeforeLaunch, PastGuard
  <2> QED BY <1>1, <1>2, <1>3, <2>1, SameStore
<1> QED BY <1>4, <1>5, <1>6, <1>7, <1>8, <1>9, OneRequest DEF Links

LEMMA DecideInv ==
    ASSUME GateInv, NEW r \in Threads, Decide(r)
    PROVE  GateInv'
<1>1. /\ pc[r] = "decided" /\ op[r].step = "idle"
      /\ \/ answer[r] = "yes" /\ pc' = [pc EXCEPT ![r] = "cleared"] /\ UNCHANGED reply
         \/ /\ answer[r] # "yes"
            /\ pc' = [pc EXCEPT ![r] = "done"] /\ reply' = [reply EXCEPT ![r] = 403]
      /\ UNCHANGED <<storeVars, call, trail, launched, answer, outcome>>
  BY DEF Decide, Approved, Goto, Answered, Launched, Recording
<1>2. TrailLink(r) /\ ReplyLink(r) /\ StoreLink(r) /\ StoreInv /\ GateTypeOK
  BY DEF GateInv, Links
<1>3. /\ \/ answer[r] = "yes" /\ pc'[r] = "cleared" /\ reply'[r] = reply[r]
         \/ answer[r] # "yes" /\ pc'[r] = "done" /\ reply'[r] = 403
      /\ \A u \in Threads \ {r} : pc'[u] = pc[u] /\ reply'[u] = reply[u]
  BY <1>1, <1>2 DEF GateTypeOK
<1>4. GateTypeOK'
  <2>1. /\ pc' = [pc EXCEPT ![r] = "cleared"] \/ pc' = [pc EXCEPT ![r] = "done"]
        /\ UNCHANGED reply \/ reply' = [reply EXCEPT ![r] = 403]
    BY <1>1
  <2>2. pc' \in [Threads -> PCs] /\ reply' \in [Threads -> {0, 200, 400, 401, 403, 404, 500}]
    <3>1. pc \in [Threads -> PCs] /\ reply \in [Threads -> {0, 200, 400, 401, 403, 404, 500}]
      BY <1>2 DEF GateTypeOK
    <3>2. pc' \in [Threads -> PCs]
      BY <2>1, <3>1 DEF PCs
    <3>3. reply' \in [Threads -> {0, 200, 400, 401, 403, 404, 500}]
      BY <2>1, <3>1
    <3> QED BY <3>2, <3>3
  <2>3. \A u \in Threads : pc'[u] \notin {"idle"} \cup Ended => pc[u] \notin {"idle"} \cup Ended
    BY <1>1, <1>3 DEF Ended
  <2> QED BY <1>1, <1>2, <2>2, <2>3 DEF GateTypeOK
<1>5. StoreInv' /\ Grows /\ \A u \in Threads : op'[u] = op[u] /\ seen'[u] = seen[u]
  BY <1>1, <1>2, StoreUntouched
<1>6. \A u \in Threads \ {r} : Kept(u)
  BY <1>1, <1>3, <1>5 DEF Kept
<1>7. TrailLink(r)'
  BY <1>1, <1>2, <1>3 DEF TrailLink, BeforeLaunch, Ended, Prefix
<1>8. ReplyLink(r)'
  BY <1>1, <1>2, <1>3 DEF ReplyLink, TrailLink, BeforeLaunch, Last
<1>9. StoreLink(r)'
  <2>1. op[r].step = "idle" /\ (PastGuard(r)' => Admitted(r))
    BY <1>1, <1>2, <1>3 DEF StoreLink, TrailLink, BeforeLaunch, PastGuard
  <2> QED BY <1>1, <1>2, <1>3, <2>1, SameStore
<1> QED BY <1>4, <1>5, <1>6, <1>7, <1>8, <1>9, OneRequest DEF Links

-----------------------------------------------------------------------------
\* The log lines up to the execution.
LEMMA PrefixFacts ==
    ASSUME NEW v
    PROVE  /\ Prefix(v) # <<>>
           /\ Gated(v) => Len(Prefix(v)) >= 2 /\ Prefix(v)[2] = "approved"
BY DEF Prefix

(* The command.                                                            *)

LEMMA RunCommandInv ==
    ASSUME GateInv, NEW r \in Threads, RunCommand(r)
    PROVE  GateInv'
<1>1. /\ pc[r] = "cleared" /\ pc' = [pc EXCEPT ![r] = "running"]
      /\ launched' = [launched EXCEPT ![r] = "started"]
      /\ UNCHANGED <<storeVars, call, trail, answer, outcome, reply>>
  BY DEF RunCommand, Goto, Answered, Launched, Recording
<1>2. TrailLink(r) /\ ReplyLink(r) /\ StoreLink(r) /\ StoreInv /\ GateTypeOK
  BY DEF GateInv, Links
<1>3. /\ pc'[r] = "running" /\ launched'[r] = "started"
      /\ \A u \in Threads \ {r} : pc'[u] = pc[u] /\ launched'[u] = launched[u]
  BY <1>1, <1>2 DEF GateTypeOK
<1>4. GateTypeOK'
  BY <1>1, <1>2, <1>3 DEF GateTypeOK, PCs, Ended, Outcomes, Outcome
<1>5. StoreInv' /\ Grows /\ \A u \in Threads : op'[u] = op[u] /\ seen'[u] = seen[u]
  BY <1>1, <1>2, StoreUntouched
<1>6. \A u \in Threads \ {r} : Kept(u)
  BY <1>1, <1>3, <1>5 DEF Kept
<1>7. TrailLink(r)'
  BY <1>1, <1>2, <1>3, PrefixFacts DEF TrailLink, BeforeLaunch, Ended
<1>8. ReplyLink(r)'
  BY <1>1, <1>2, <1>3 DEF ReplyLink, TrailLink, BeforeLaunch
<1>9. StoreLink(r)'
  <2>1. op[r].step = "idle" /\ (PastGuard(r)' => Admitted(r))
    BY <1>1, <1>2, <1>3 DEF StoreLink, TrailLink, BeforeLaunch, PastGuard
  <2> QED BY <1>1, <1>2, <1>3, <2>1, SameStore
<1> QED BY <1>4, <1>5, <1>6, <1>7, <1>8, <1>9, OneRequest DEF Links

LEMMA CommandNotRunInv ==
    ASSUME GateInv, NEW r \in Threads, CommandNotRun(r)
    PROVE  GateInv'
<1>1. /\ pc[r] = "cleared" /\ pc' = [pc EXCEPT ![r] = "outcome"]
      /\ launched' = [launched EXCEPT ![r] = "tried"]
      /\ \E status \in {400, 500} :
            outcome' = [outcome EXCEPT ![r] = Outcome("failed", status)]
      /\ UNCHANGED <<storeVars, call, trail, answer, reply>>
  BY DEF CommandNotRun, Goto, Answered, Launched, Recording
<1>2. TrailLink(r) /\ ReplyLink(r) /\ StoreLink(r) /\ StoreInv /\ GateTypeOK
  BY DEF GateInv, Links
<1>3. /\ pc'[r] = "outcome" /\ launched'[r] = "tried"
      /\ \E status \in {400, 500} : outcome'[r] = Outcome("failed", status)
      /\ \A u \in Threads \ {r} : pc'[u] = pc[u] /\ launched'[u] = launched[u] /\ outcome'[u] = outcome[u]
  BY <1>1, <1>2 DEF GateTypeOK
<1>4. GateTypeOK'
  BY <1>1, <1>2, <1>3 DEF GateTypeOK, PCs, Ended, Outcomes, Outcome
<1>5. StoreInv' /\ Grows /\ \A u \in Threads : op'[u] = op[u] /\ seen'[u] = seen[u]
  BY <1>1, <1>2, StoreUntouched
<1>6. \A u \in Threads \ {r} : Kept(u)
  BY <1>1, <1>3, <1>5 DEF Kept
<1>7. TrailLink(r)'
  BY <1>1, <1>2, <1>3, PrefixFacts DEF TrailLink, BeforeLaunch, Ended
<1>8. ReplyLink(r)'
  BY <1>1, <1>2, <1>3 DEF ReplyLink, TrailLink, BeforeLaunch, Outcome, FailureStages
<1>9. StoreLink(r)'
  <2>1. op[r].step = "idle" /\ (PastGuard(r)' => Admitted(r))
    BY <1>1, <1>2, <1>3 DEF StoreLink, TrailLink, BeforeLaunch, PastGuard
  <2> QED BY <1>1, <1>2, <1>3, <2>1, SameStore
<1> QED BY <1>4, <1>5, <1>6, <1>7, <1>8, <1>9, OneRequest DEF Links

LEMMA FinishCommandInv ==
    ASSUME GateInv, NEW r \in Threads, FinishCommand(r)
    PROVE  GateInv'
<1>1. /\ pc[r] = "running" /\ pc' = [pc EXCEPT ![r] = "outcome"]
      /\ \E o \in {<<"executed", 200>>, <<"timeout", 500>>, <<"failed", 500>>, <<"failed", 400>>} :
            outcome' = [outcome EXCEPT ![r] = Outcome(o[1], o[2])]
      /\ UNCHANGED <<storeVars, call, trail, launched, answer, reply>>
  BY DEF FinishCommand, Goto, Answered, Launched, Recording
<1>2. TrailLink(r) /\ ReplyLink(r) /\ StoreLink(r) /\ StoreInv /\ GateTypeOK
  BY DEF GateInv, Links
<1>3. /\ pc'[r] = "outcome"
      /\ outcome'[r] \in {Outcome("executed", 200), Outcome("timeout", 500),
                           Outcome("failed", 500), Outcome("failed", 400)}
      /\ \A u \in Threads \ {r} : pc'[u] = pc[u] /\ outcome'[u] = outcome[u]
  BY <1>1, <1>2 DEF GateTypeOK
<1>4. GateTypeOK'
  BY <1>1, <1>2, <1>3 DEF GateTypeOK, PCs, Ended, Outcomes, Outcome
<1>5. StoreInv' /\ Grows /\ \A u \in Threads : op'[u] = op[u] /\ seen'[u] = seen[u]
  BY <1>1, <1>2, StoreUntouched
<1>6. \A u \in Threads \ {r} : Kept(u)
  BY <1>1, <1>3, <1>5 DEF Kept
<1>7. TrailLink(r)'
  BY <1>1, <1>2, <1>3, PrefixFacts DEF TrailLink, BeforeLaunch, Ended
<1>8. ReplyLink(r)'
  BY <1>1, <1>2, <1>3 DEF ReplyLink, TrailLink, BeforeLaunch, Outcome, FailureStages
<1>9. StoreLink(r)'
  <2>1. op[r].step = "idle" /\ (PastGuard(r)' => Admitted(r))
    BY <1>1, <1>2, <1>3 DEF StoreLink, TrailLink, BeforeLaunch, PastGuard
  <2> QED BY <1>1, <1>2, <1>3, <2>1, SameStore
<1> QED BY <1>4, <1>5, <1>6, <1>7, <1>8, <1>9, OneRequest DEF Links

LEMMA StartWatchInv ==
    ASSUME GateInv, NEW r \in Threads, StartWatch(r)
    PROVE  GateInv'
<1>1. /\ pc[r] = "cleared" /\ pc' = [pc EXCEPT ![r] = "outcome"]
      /\ \E how \in {"tried", "started"} : launched' = [launched EXCEPT ![r] = how]
      /\ \E o \in {Outcome("executed", 200), Outcome("failed", 500)} :
            outcome' = [outcome EXCEPT ![r] = o]
      /\ UNCHANGED <<storeVars, call, trail, answer, reply>>
  BY DEF StartWatch, Goto, Answered, Launched, Recording
<1>2. TrailLink(r) /\ ReplyLink(r) /\ StoreLink(r) /\ StoreInv /\ GateTypeOK
  BY DEF GateInv, Links
<1>3. /\ pc'[r] = "outcome" /\ launched'[r] \in {"tried", "started"}
      /\ outcome'[r] \in {Outcome("executed", 200), Outcome("failed", 500)}
      /\ \A u \in Threads \ {r} : pc'[u] = pc[u] /\ launched'[u] = launched[u] /\ outcome'[u] = outcome[u]
  BY <1>1, <1>2 DEF GateTypeOK
<1>4. GateTypeOK'
  BY <1>1, <1>2, <1>3 DEF GateTypeOK, PCs, Ended, Outcomes, Outcome
<1>5. StoreInv' /\ Grows /\ \A u \in Threads : op'[u] = op[u] /\ seen'[u] = seen[u]
  BY <1>1, <1>2, StoreUntouched
<1>6. \A u \in Threads \ {r} : Kept(u)
  BY <1>1, <1>3, <1>5 DEF Kept
<1>7. TrailLink(r)'
  BY <1>1, <1>2, <1>3, PrefixFacts DEF TrailLink, BeforeLaunch, Ended
<1>8. ReplyLink(r)'
  BY <1>1, <1>2, <1>3 DEF ReplyLink, TrailLink, BeforeLaunch, Outcome, FailureStages
<1>9. StoreLink(r)'
  <2>1. op[r].step = "idle" /\ (PastGuard(r)' => Admitted(r))
    BY <1>1, <1>2, <1>3 DEF StoreLink, TrailLink, BeforeLaunch, PastGuard
  <2> QED BY <1>1, <1>2, <1>3, <2>1, SameStore
<1> QED BY <1>4, <1>5, <1>6, <1>7, <1>8, <1>9, OneRequest DEF Links

LEMMA LaunchRaisesInv ==
    ASSUME GateInv, NEW r \in Threads, LaunchRaises(r)
    PROVE  GateInv'
<1>1. /\ pc[r] = "cleared" /\ pc' = [pc EXCEPT ![r] = "dead"]
      /\ launched' = [launched EXCEPT ![r] = "tried"]
      /\ UNCHANGED <<storeVars, call, trail, answer, outcome, reply>>
  BY DEF LaunchRaises, Goto, Answered, Launched, Recording
<1>2. TrailLink(r) /\ ReplyLink(r) /\ StoreLink(r) /\ StoreInv /\ GateTypeOK
  BY DEF GateInv, Links
<1>3. /\ pc'[r] = "dead" /\ launched'[r] = "tried"
      /\ \A u \in Threads \ {r} : pc'[u] = pc[u] /\ launched'[u] = launched[u]
  BY <1>1, <1>2 DEF GateTypeOK
<1>4. GateTypeOK'
  BY <1>1, <1>2, <1>3 DEF GateTypeOK, PCs, Ended, Outcomes, Outcome
<1>5. StoreInv' /\ Grows /\ \A u \in Threads : op'[u] = op[u] /\ seen'[u] = seen[u]
  BY <1>1, <1>2, StoreUntouched
<1>6. \A u \in Threads \ {r} : Kept(u)
  BY <1>1, <1>3, <1>5 DEF Kept
<1>7. TrailLink(r)'
  BY <1>1, <1>2, <1>3, PrefixFacts DEF TrailLink, BeforeLaunch, Ended
<1>8. ReplyLink(r)'
  BY <1>1, <1>2, <1>3 DEF ReplyLink, TrailLink, BeforeLaunch
<1>9. StoreLink(r)'
  <2>1. op[r].step = "idle" /\ (PastGuard(r)' => Admitted(r))
    BY <1>1, <1>2, <1>3 DEF StoreLink, TrailLink, BeforeLaunch, PastGuard
  <2> QED BY <1>1, <1>2, <1>3, <2>1, SameStore
<1> QED BY <1>4, <1>5, <1>6, <1>7, <1>8, <1>9, OneRequest DEF Links

LEMMA RespondInv ==
    ASSUME GateInv, NEW r \in Threads, Respond(r)
    PROVE  GateInv'
<1>1. /\ pc[r] = "closing" /\ op[r].step = "idle"
      /\ pc' = [pc EXCEPT ![r] = "done"] /\ reply' = [reply EXCEPT ![r] = outcome[r].status]
      /\ UNCHANGED <<storeVars, call, trail, launched, answer, outcome>>
  BY DEF Respond, StatusOf, Goto, Answered, Launched, Recording
<1>2. TrailLink(r) /\ ReplyLink(r) /\ StoreLink(r) /\ StoreInv /\ GateTypeOK
  BY DEF GateInv, Links
<1>3. /\ pc'[r] = "done" /\ reply'[r] = outcome[r].status
      /\ \A u \in Threads \ {r} : pc'[u] = pc[u] /\ reply'[u] = reply[u]
  BY <1>1, <1>2 DEF GateTypeOK
<1>4. GateTypeOK'
  BY <1>1, <1>2, <1>3 DEF GateTypeOK, PCs, Ended, Outcomes, Outcome
<1>5. StoreInv' /\ Grows /\ \A u \in Threads : op'[u] = op[u] /\ seen'[u] = seen[u]
  BY <1>1, <1>2, StoreUntouched
<1>6. \A u \in Threads \ {r} : Kept(u)
  BY <1>1, <1>3, <1>5 DEF Kept
<1>7. TrailLink(r)'
  BY <1>1, <1>2, <1>3 DEF TrailLink, BeforeLaunch, Ended
<1>8. ReplyLink(r)'
  BY <1>1, <1>2, <1>3 DEF ReplyLink, TrailLink, BeforeLaunch, Prefix, Last, Outcomes, FailureStages
<1>9. StoreLink(r)'
  <2>1. op[r].step = "idle" /\ (PastGuard(r)' => Admitted(r))
    BY <1>1, <1>2, <1>3 DEF StoreLink, TrailLink, BeforeLaunch, PastGuard
  <2> QED BY <1>1, <1>2, <1>3, <2>1, SameStore
<1> QED BY <1>4, <1>5, <1>6, <1>7, <1>8, <1>9, OneRequest DEF Links

-----------------------------------------------------------------------------
(* Accept, and the steps that start a store call.                          *)

LEMMA AcceptInv ==
    ASSUME GateInv, NEW r \in Threads, NEW c \in CallType, Accept(r, c)
    PROVE  GateInv'
<1>1. /\ pc[r] = "idle" /\ Passes(c)
      /\ call' = [call EXCEPT ![r] = c] /\ pc' = [pc EXCEPT ![r] = "intent"]
      /\ UNCHANGED <<storeVars, trail, launched, answer, outcome, reply>>
  BY DEF Accept, Goto
<1>2. TrailLink(r) /\ ReplyLink(r) /\ StoreLink(r) /\ StoreInv /\ GateTypeOK
  BY DEF GateInv, Links
<1>3. /\ pc'[r] = "intent" /\ call'[r] = c
      /\ \A u \in Threads \ {r} : pc'[u] = pc[u] /\ call'[u] = call[u]
  BY <1>1, <1>2 DEF GateTypeOK
<1>4. GateTypeOK'
  BY <1>1, <1>2, <1>3 DEF GateTypeOK, PCs, Ended
<1>5. StoreInv' /\ Grows /\ \A u \in Threads : op'[u] = op[u] /\ seen'[u] = seen[u]
  BY <1>1, <1>2, StoreUntouched
<1>6. \A u \in Threads \ {r} : Kept(u)
  BY <1>1, <1>3, <1>5 DEF Kept
<1>7. TrailLink(r)'
  BY <1>1, <1>2, <1>3, PassesVerb DEF TrailLink, BeforeLaunch, Ended
<1>8. ReplyLink(r)'
  BY <1>1, <1>2, <1>3 DEF ReplyLink, TrailLink, BeforeLaunch
<1>9. StoreLink(r)'
  <2>1. op[r].step = "idle" /\ launched[r] = "no"
    BY <1>1, <1>2 DEF StoreLink, TrailLink, BeforeLaunch
  <2>2. op'[r].step = "idle" /\ ~PastGuard(r)' /\ seen'[r].at <= now'
    BY <1>1, <1>2, <1>3, <1>5, <2>1 DEF PastGuard, StoreLink, storeVars
  <2> QED BY <1>3, <2>2 DEF StoreLink
<1> QED BY <1>4, <1>5, <1>6, <1>7, <1>8, <1>9, OneRequest DEF Links

\* The verb of a request in progress.
LEMMA VerbInProgress ==
    ASSUME GateInv, NEW r \in Threads, pc[r] \notin {"idle"} \cup Ended
    PROVE  call[r].verb \in Verbs
BY DEF GateInv, Links, TrailLink

\* What an audit() does: a line in the trail, and a store call that begins.
LEMMA AuditEffect ==
    ASSUME GateInv, NEW r \in Threads, NEW stage \in Stages,
           NEW label \in {"intended", "decided", "closing"},
           pc[r] \in {"intent", "answered", "outcome"}, Audit(r, stage, label)
    PROVE  /\ StoreInv' /\ GateTypeOK' /\ Grows
           /\ \A u \in Threads \ {r} : Kept(u)
           /\ pc'[r] = label /\ trail'[r] = Append(trail[r], stage)
           /\ op'[r].step = "append" /\ op'[r].verb = call[r].verb
           /\ UNCHANGED <<now, opens, seen, call, launched, answer, outcome, reply>>
<1>1. StoreInv /\ StoreTypeOK /\ GateTypeOK /\ call[r].verb \in Verbs
  BY VerbInProgress DEF GateInv, StoreInv, Ended
<1>2. /\ BeginRecord(r, call[r].verb, stage)
      /\ trail' = [trail EXCEPT ![r] = Append(@, stage)] /\ pc' = [pc EXCEPT ![r] = label]
      /\ UNCHANGED <<call, launched, answer, outcome, reply>>
  BY DEF Audit, Logged, Goto
<1>3. StoreInv'
  BY <1>1, <1>2, BeginRecordInv
<1>4. UNCHANGED <<now, opens, seen>>
  BY <1>2 DEF BeginRecord, rows
<1>5. /\ op'[r].step = "append" /\ op'[r].verb = call[r].verb
      /\ \A u \in Threads \ {r} : op'[u] = op[u]
  BY <1>1, <1>2 DEF BeginRecord, StoreTypeOK
<1>6. /\ pc'[r] = label /\ trail'[r] = Append(trail[r], stage)
      /\ \A u \in Threads \ {r} : pc'[u] = pc[u] /\ trail'[u] = trail[u]
  BY <1>1, <1>2 DEF GateTypeOK
<1>7. GateTypeOK'
  <2>1. Append(trail[r], stage) \in Seq(Stages)
    BY <1>1 DEF GateTypeOK
  <2> QED BY <1>1, <1>2, <1>6, <2>1 DEF GateTypeOK, PCs, Ended
<1>8. Grows
  BY <1>1, <1>4 DEF Grows, StoreTypeOK
<1>9. \A u \in Threads \ {r} : Kept(u)
  BY <1>2, <1>4, <1>5, <1>6 DEF Kept
<1> QED BY <1>2, <1>3, <1>4, <1>5, <1>6, <1>7, <1>8, <1>9

\* The store links of a request after audit().
LEMMA AuditStoreLink ==
    ASSUME NEW r \in Threads, StoreLink(r),
           pc[r] \in {"intent", "answered", "outcome"},
           pc'[r] \in {"intended", "decided", "closing"},
           pc[r] = "intent" => pc'[r] = "intended" /\ launched[r] = "no",
           op'[r].step = "append", op'[r].verb = call[r].verb,
           UNCHANGED <<now, opens, seen, call, launched>>
    PROVE  StoreLink(r)'
BY DEF StoreLink, PastGuard, Admitted

LEMMA LogIntentInv ==
    ASSUME GateInv, NEW r \in Threads, LogIntent(r)
    PROVE  GateInv'
<1>1. pc[r] = "intent" /\ Audit(r, "requested", "intended") /\ "requested" \in Stages
  BY DEF LogIntent, Stages
<1>2. TrailLink(r) /\ ReplyLink(r) /\ StoreLink(r)
  BY DEF GateInv, Links
<1>3. /\ StoreInv' /\ GateTypeOK' /\ Grows
      /\ \A u \in Threads \ {r} : Kept(u)
      /\ pc'[r] = "intended" /\ trail'[r] = Append(trail[r], "requested")
      /\ op'[r].step = "append" /\ op'[r].verb = call[r].verb
      /\ UNCHANGED <<now, opens, seen, call, launched, answer, outcome, reply>>
  BY <1>1, AuditEffect
<1>4. /\ trail[r] = <<>> /\ launched[r] = "no" /\ reply[r] = 0
      /\ answer[r] = "none" /\ call[r].verb \in Verbs
  BY <1>1, <1>2 DEF TrailLink, ReplyLink, BeforeLaunch, Ended
<1>5. trail'[r] = <<"requested">> /\ trail'[r] # <<>>
  BY <1>3, <1>4
<1>6. TrailLink(r)'
  BY <1>3, <1>4, <1>5 DEF TrailLink, Lifecycles
<1>7. ReplyLink(r)'
  BY <1>3, <1>4, <1>5 DEF ReplyLink
<1>8. StoreLink(r)'
  BY <1>1, <1>2, <1>3, <1>4, AuditStoreLink
<1> QED BY <1>3, <1>6, <1>7, <1>8, OneRequest DEF Links

\* A line after the first one.
LEMMA AppendToOne ==
    ASSUME NEW S, NEW a \in S, NEW b \in S
    PROVE  Append(<<a>>, b) = <<a, b>>
<1> DEFINE s == Append(<<a>>, b)
           t == <<a, b>>
<1>1. <<a>> \in Seq(S) /\ t \in Seq(S)
  OBVIOUS
<1>2. s \in Seq(S) /\ Len(s) = 2 /\ s[1] = a /\ s[2] = b
  BY <1>1, AppendProperties
<1>3. Len(t) = 2 /\ t[1] = a /\ t[2] = b
  OBVIOUS
<1> HIDE DEF s, t
<1>4. Len(s) = Len(t) /\ \A i \in 1..Len(s) : s[i] = t[i]
  BY <1>2, <1>3
<1>5. s = t
  BY <1>1, <1>2, <1>4, SeqEqual
<1> QED BY <1>5 DEF s, t

LEMMA LogDecisionInv ==
    ASSUME GateInv, NEW r \in Threads, LogDecision(r)
    PROVE  GateInv'
<1> DEFINE stage == IF answer[r] = "yes" THEN "approved" ELSE "denied"
<1>1. pc[r] = "answered" /\ Audit(r, stage, "decided") /\ stage \in Stages
  BY DEF LogDecision, Stages
<1>2. TrailLink(r) /\ ReplyLink(r) /\ StoreLink(r)
  BY DEF GateInv, Links
<1>3. /\ StoreInv' /\ GateTypeOK' /\ Grows
      /\ \A u \in Threads \ {r} : Kept(u)
      /\ pc'[r] = "decided" /\ trail'[r] = Append(trail[r], stage)
      /\ op'[r].step = "append" /\ op'[r].verb = call[r].verb
      /\ UNCHANGED <<now, opens, seen, call, launched, answer, outcome, reply>>
  <2> HIDE DEF stage
  <2> QED BY <1>1, AuditEffect
<1>4. /\ trail[r] = <<"requested">> /\ launched[r] = "no" /\ reply[r] = 0
      /\ answer[r] \in {"yes", "no"} /\ call[r].verb \in Verbs /\ Gated(call[r].verb)
  BY <1>1, <1>2 DEF TrailLink, ReplyLink, BeforeLaunch, Ended
<1>5. trail'[r] = <<"requested", stage>> /\ trail'[r] # <<>>
  <2>1. CASE answer[r] = "yes"
    <3>1. trail'[r] = Append(<<"requested">>, "approved")
      BY <1>3, <1>4, <2>1
    <3>2. Append(<<"requested">>, "approved") = <<"requested", "approved">>
      BY AppendToOne, "requested" \in Stages, "approved" \in Stages DEF Stages
    <3>3. <<"requested", "approved">> # <<>>
      OBVIOUS
    <3> QED BY <2>1, <3>1, <3>2, <3>3
  <2>2. CASE answer[r] # "yes"
    <3>1. trail'[r] = Append(<<"requested">>, "denied")
      BY <1>3, <1>4, <2>2
    <3>2. Append(<<"requested">>, "denied") = <<"requested", "denied">>
      BY AppendToOne, "requested" \in Stages, "denied" \in Stages DEF Stages
    <3>3. <<"requested", "denied">> # <<>>
      OBVIOUS
    <3> QED BY <2>2, <3>1, <3>2, <3>3
  <2> QED BY <2>1, <2>2
<1>6. TrailLink(r)'
  <2>1. <<"requested", stage>> \in Lifecycles(call[r].verb)
    BY <1>4 DEF Lifecycles, Prefix
  <2> QED BY <1>3, <1>4, <1>5, <2>1 DEF TrailLink
<1>7. ReplyLink(r)'
  BY <1>3, <1>4, <1>5 DEF ReplyLink
<1>8. StoreLink(r)'
  BY <1>1, <1>2, <1>3, AuditStoreLink
<1> QED BY <1>3, <1>6, <1>7, <1>8, OneRequest DEF Links

LEMMA LogOutcomeInv ==
    ASSUME GateInv, NEW r \in Threads, LogOutcome(r)
    PROVE  GateInv'
<1> DEFINE stage == outcome[r].stage
<1>1. pc[r] = "outcome" /\ Audit(r, stage, "closing")
  BY DEF LogOutcome
<1>2. TrailLink(r) /\ ReplyLink(r) /\ StoreLink(r)
  BY DEF GateInv, Links
<1>3. stage \in {"executed", "failed", "timeout"} /\ stage \in Stages
  BY DEF GateInv, GateTypeOK, Outcomes, Stages
<1>4. /\ StoreInv' /\ GateTypeOK' /\ Grows
      /\ \A u \in Threads \ {r} : Kept(u)
      /\ pc'[r] = "closing" /\ trail'[r] = Append(trail[r], stage)
      /\ op'[r].step = "append" /\ op'[r].verb = call[r].verb
      /\ UNCHANGED <<now, opens, seen, call, launched, answer, outcome, reply>>
  <2> HIDE DEF stage
  <2> QED BY <1>1, <1>3, AuditEffect
<1>5. /\ trail[r] = Prefix(call[r].verb) /\ reply[r] = 0 /\ call[r].verb \in Verbs
      /\ Gated(call[r].verb) => answer[r] = "yes"
  BY <1>1, <1>2 DEF TrailLink, ReplyLink, Ended
<1>6. /\ trail'[r] = Append(Prefix(call[r].verb), stage) /\ trail'[r] # <<>>
      /\ Gated(call[r].verb) => Len(trail'[r]) >= 2 /\ trail'[r][2] = "approved"
  BY <1>4, <1>5 DEF Prefix
<1>7. TrailLink(r)'
  <2>1. Append(Prefix(call[r].verb), stage) \in Lifecycles(call[r].verb)
    BY <1>3 DEF Lifecycles
  <2> QED BY <1>4, <1>5, <1>6, <2>1 DEF TrailLink, BeforeLaunch
<1>8. ReplyLink(r)'
  BY <1>1, <1>2, <1>4, <1>5 DEF ReplyLink
<1>9. StoreLink(r)'
  BY <1>1, <1>2, <1>4, AuditStoreLink
<1> QED BY <1>4, <1>7, <1>8, <1>9, OneRequest DEF Links

LEMMA CheckBreakerInv ==
    ASSUME GateInv, NEW r \in Threads, CheckBreaker(r)
    PROVE  GateInv'
<1>1. /\ pc[r] = "intended" /\ BeginGuard(r, call[r].verb)
      /\ pc' = [pc EXCEPT ![r] = "guarding"]
      /\ UNCHANGED <<call, trail, launched, answer, outcome, reply>>
  BY DEF CheckBreaker, Intended, Recording, Goto
<1>2. /\ TrailLink(r) /\ ReplyLink(r) /\ StoreLink(r) /\ StoreInv /\ StoreTypeOK
      /\ GateTypeOK /\ call[r].verb \in Verbs
  BY <1>1, VerbInProgress DEF GateInv, Links, StoreInv, Ended
<1>3. StoreInv' /\ UNCHANGED <<now, opens>> /\ now \in Nat
  BY <1>1, <1>2, BeginGuardInv DEF BeginGuard, rows, StoreTypeOK
<1>4. /\ pc'[r] = "guarding" /\ op'[r].step = "guard" /\ op'[r].verb = call[r].verb
      /\ seen'[r].at = 0
      /\ \A u \in Threads \ {r} : op'[u] = op[u] /\ pc'[u] = pc[u] /\ seen'[u] = seen[u]
  BY <1>1, <1>2 DEF BeginGuard, StoreTypeOK, GateTypeOK, NotPassed
<1>5. GateTypeOK'
  BY <1>1, <1>2, <1>4 DEF GateTypeOK, PCs, Ended
<1>6. Grows /\ \A u \in Threads \ {r} : Kept(u)
  BY <1>1, <1>2, <1>3, <1>4 DEF Grows, Kept, StoreTypeOK
<1>7. TrailLink(r)' /\ ReplyLink(r)'
  BY <1>1, <1>2, <1>4 DEF TrailLink, ReplyLink, BeforeLaunch, Ended
<1>8. StoreLink(r)'
  <2>1. launched[r] = "no"
    BY <1>1, <1>2 DEF TrailLink, BeforeLaunch
  <2> QED BY <1>1, <1>2, <1>3, <1>4, <2>1 DEF StoreLink, PastGuard
<1> QED BY <1>3, <1>5, <1>6, <1>7, <1>8, OneRequest DEF Links

-----------------------------------------------------------------------------
(* The steps of the store.                                                 *)

\* One element more at the end of one sequence: the others and what was there
\* stay.
LEMMA RowAdded ==
    ASSUME StoreTypeOK, NEW v \in Verbs, NEW ts \in Nat,
           opens' = [opens EXCEPT ![v] = Append(@, ts)], now' = now
    PROVE  Grows
<1>1. now \in Nat /\ opens \in [Verbs -> Seq(Nat)]
  BY DEF StoreTypeOK
<1>2. \A q \in Seq(Nat), x \in Nat :
        /\ Len(Append(q, x)) >= Len(q)
        /\ \A i \in 1..Len(q) : Append(q, x)[i] = q[i]
  OBVIOUS
<1>3. opens'[v] = Append(opens[v], ts) /\ \A w \in Verbs \ {v} : opens'[w] = opens[w]
  BY <1>1
<1>4. opens[v] \in Seq(Nat) /\ \A w \in Verbs : Len(opens[w]) \in Nat
  BY <1>1
<1> QED BY <1>1, <1>2, <1>3, <1>4 DEF Grows

\* A store step of t writes rows at the end only, and disturbs neither op nor
\* seen of another thread; seen of t only in guard.
LEMMA StepEffect ==
    ASSUME StoreTypeOK, NEW t \in Threads, StoreStep(t)
    PROVE  /\ Grows /\ now' = now
           /\ \A u \in Threads \ {t} : op'[u] = op[u] /\ seen'[u] = seen[u]
           /\ op[t].step # "idle"
           /\ op[t].step # "guard" => seen' = seen
           /\ op'[t].step \in {"guard", "refuse"} => op[t].step = "guard"
           /\ op'[t].step # "idle" => op'[t].verb = op[t].verb
           /\ op[t].step # "guard" => op'[t].result # "closed" \/ op'[t].step # "idle"
           /\ op[t].step = "guard" => op'[t].step \in {"refuse", "idle"}
           /\ op[t].step = "refuse" => op'[t].step = "idle"
<1>1. /\ now \in Nat /\ op[t].at \in Nat /\ op \in [Threads -> Ops] /\ t \in Threads
      /\ opens \in [Verbs -> Seq(Nat)]
  BY DEF StoreTypeOK, Ops
<1>2. CASE AppendRow(t)
  <2>1. /\ op[t].step = "append" /\ UNCHANGED <<now, opens, seen>>
        /\ \/ op' = [op EXCEPT ![t].step = "count", ![t].at = now,
                               ![t].row = Len(failures[op[t].verb]) + 1]
           \/ op' = [op EXCEPT ![t] = Done("recorded")]
    BY <1>2 DEF AppendRow
  <2> QED BY <1>1, <2>1 DEF Grows, Done, Ops
<1>3. CASE CountFailures(t)
  <2>1. /\ op[t].step = "count" /\ UNCHANGED <<now, opens, seen>>
        /\ \/ op' = [op EXCEPT ![t].step = "check", ![t].at = now]
           \/ op' = [op EXCEPT ![t] = Done("recorded")]
    BY <1>3 DEF CountFailures, LimitReached, Recorded, rows
  <2> QED BY <1>1, <2>1 DEF Grows, Done, Ops
<1>4. CASE CheckOpen(t)
  <2>1. /\ op[t].step = "check" /\ UNCHANGED <<now, opens, seen>>
        /\ \/ op' = [op EXCEPT ![t].step = "trip", ![t].at = now]
           \/ op' = [op EXCEPT ![t] = Done("recorded")]
    BY <1>4 DEF CheckOpen, Recorded, rows
  <2> QED BY <1>1, <2>1 DEF Grows, Done, Ops
<1>5. CASE Trip(t)
  <2>1. /\ op[t].step = "trip" /\ UNCHANGED <<now, seen>>
        /\ op' = [op EXCEPT ![t] = Done("recorded")]
    BY <1>5 DEF Trip, Recorded
  <2>2. Grows
    <3>1. PICK ts \in op[t].at .. now : opens' = [opens EXCEPT ![op[t].verb] = Append(@, ts)]
      BY <1>5 DEF Trip
    <3>2. ts \in Nat /\ op[t].verb \in Verbs
      BY <1>1, <2>1 DEF StoreTypeOK
    <3> QED BY <2>1, <3>1, <3>2, RowAdded
  <2> QED BY <1>1, <2>1, <2>2 DEF Done, Ops
<1>6. CASE Guard(t)
  <2>1. /\ op[t].step = "guard" /\ UNCHANGED <<now, opens>>
        /\ \/ op' = [op EXCEPT ![t].step = "refuse", ![t].at = now]
           \/ op' = [op EXCEPT ![t] = Done("closed")]
    BY <1>6 DEF Guard, rows
  <2>2. \A u \in Threads \ {t} : seen'[u] = seen[u]
    BY <1>6 DEF Guard, StoreTypeOK
  <2> QED BY <1>1, <2>1, <2>2 DEF Grows, Done, Ops
<1>7. CASE Refuse(t)
  <2>1. /\ op[t].step = "refuse" /\ UNCHANGED <<now, seen>>
        /\ op' = [op EXCEPT ![t] = Done("CircuitOpen")]
    BY <1>7 DEF Refuse
  <2>2. Grows
    <3>1. PICK ts \in op[t].at .. now : opens' = [opens EXCEPT ![op[t].verb] = Append(@, ts)]
      BY <1>7 DEF Refuse
    <3>2. ts \in Nat /\ op[t].verb \in Verbs
      BY <1>1, <2>1 DEF StoreTypeOK
    <3> QED BY <2>1, <3>1, <3>2, RowAdded
  <2> QED BY <1>1, <2>1, <2>2 DEF Done, Ops
<1> QED BY <1>2, <1>3, <1>4, <1>5, <1>6, <1>7 DEF StoreStep

\* A guard that finds the breaker closed admits the request: if a row is cooling
\* down, the last one is not, and has an earlier time.
LEMMA GuardAdmits ==
    ASSUME StoreTypeOK, NEW r \in Threads, Guard(r), op[r].verb = call[r].verb,
           UNCHANGED call, seen[r].at <= now
    PROVE  /\ op'[r].step = "idle" => Admitted(r)'
           /\ seen'[r].at <= now'
<1> DEFINE v == op[r].verb
<1>1. v \in Verbs /\ op[r].at \in Nat /\ now \in Nat
  BY DEF Guard, StoreTypeOK, Ops
<1>2. PICK ts \in op[r].at .. now :
        \/ op' = [op EXCEPT ![r].step = "refuse", ![r].at = now] /\ UNCHANGED seen
        \/ /\ ~IsOpen(v, ts)
           /\ seen' = [seen EXCEPT ![r] = [verb |-> v, rows |-> Len(opens[v]), at |-> ts]]
  BY DEF Guard
<1>3. opens' = opens /\ now' = now /\ opens[v] \in Seq(Nat)
  BY <1>1 DEF Guard, rows, StoreTypeOK
<1>4. CASE op' = [op EXCEPT ![r].step = "refuse", ![r].at = now] /\ UNCHANGED seen
  BY <1>3, <1>4 DEF StoreTypeOK, Ops
<1>5. CASE /\ ~IsOpen(v, ts)
           /\ seen' = [seen EXCEPT ![r] = [verb |-> v, rows |-> Len(opens[v]), at |-> ts]]
  <2> DEFINE n == Len(opens[v])
  <2>1. ts \in Nat /\ ts <= now /\ n \in Nat /\ CooldownS \in Nat
    BY <1>1, <1>3, StoreAssumption
  <2>2. seen'[r].verb = v /\ seen'[r].rows = n /\ seen'[r].at = ts
    BY <1>5 DEF StoreTypeOK
  <2>3. \A k \in 1..n : opens[v][k] \in Nat
    BY <1>3
  <2>4. n # 0 => ts - opens[v][n] >= CooldownS
    <3>1. n # 0 => opens[v] # <<>> /\ n \in 1..n
      BY <1>3
    <3> QED BY <1>5, <2>1, <2>3, <3>1 DEF IsOpen
  <2>5. \A k \in 1..n : ts - opens[v][k] < CooldownS =>
           \E j \in (k+1)..n : opens[v][j] < opens[v][k]
    <3> HIDE DEF n, v
    <3> SUFFICES ASSUME NEW k \in 1..n, ts - opens[v][k] < CooldownS
                 PROVE  n \in (k+1)..n /\ opens[v][n] < opens[v][k]
      OBVIOUS
    <3>1. n \in 1..n /\ opens[v][n] \in Nat /\ opens[v][k] \in Nat
      BY <2>1, <2>3
    <3>2. opens[v][n] < opens[v][k]
      BY <2>1, <2>4, <3>1
    <3>3. k # n
      BY <3>1, <3>2
    <3> QED BY <2>1, <3>2, <3>3
  <2> QED BY <1>3, <2>1, <2>2, <2>5 DEF Admitted
<1> QED BY <1>2, <1>4, <1>5

LEMMA StoreStepLinks ==
    ASSUME GateInv, NEW r \in Threads, Store(r)
    PROVE  GateInv'
<1>1. /\ StoreStep(r) /\ StoreInv /\ StoreTypeOK /\ GateTypeOK
      /\ TrailLink(r) /\ ReplyLink(r) /\ StoreLink(r)
      /\ UNCHANGED <<pc, call, trail, launched, answer, outcome, reply>>
  BY DEF Store, gateVars, GateInv, StoreInv, Links
<1>2. StoreInv' /\ StoreTypeOK'
  BY <1>1, StoreStepInv DEF StoreInv
<1>3. /\ Grows /\ now' = now
      /\ \A u \in Threads \ {r} : op'[u] = op[u] /\ seen'[u] = seen[u]
      /\ op[r].step # "idle"
      /\ op[r].step # "guard" => seen' = seen
      /\ op'[r].step \in {"guard", "refuse"} => op[r].step = "guard"
      /\ op'[r].step # "idle" => op'[r].verb = op[r].verb
      /\ op[r].step # "guard" => op'[r].result # "closed" \/ op'[r].step # "idle"
      /\ op[r].step = "guard" => op'[r].step \in {"refuse", "idle"}
      /\ op[r].step = "refuse" => op'[r].step = "idle"
  BY <1>1, StepEffect
<1>4. GateTypeOK' /\ TrailLink(r)' /\ ReplyLink(r)'
  BY <1>1 DEF GateTypeOK, TrailLink, ReplyLink
<1>5. \A u \in Threads \ {r} : Kept(u)
  BY <1>1, <1>3 DEF Kept
<1>6. PastGuard(r)' => PastGuard(r) /\ op[r].step # "guard"
  BY <1>1 DEF PastGuard, StoreLink, TrailLink, BeforeLaunch
<1>7. PastGuard(r)' => Admitted(r)'
  <2> SUFFICES ASSUME PastGuard(r)' PROVE Admitted(r)'
    OBVIOUS
  <2>1. Admitted(r) /\ seen'[r] = seen[r] /\ call[r].verb \in Verbs
    BY <1>1, <1>3, <1>6 DEF StoreLink, StoreTypeOK
  <2> QED BY <1>1, <1>2, <1>3, <2>1, AdmittedStays
<1>8. op[r].step = "guard" => Guard(r)
  BY <1>1 DEF StoreStep, AppendRow, CountFailures, LimitReached, CheckOpen, Trip, Guard, Refuse
<1>9. op[r].step = "guard" => (op'[r].step = "idle" => Admitted(r)') /\ seen'[r].at <= now'
  BY <1>1, <1>3, <1>8, GuardAdmits DEF StoreLink
<1>10. StoreLink(r)'
  BY <1>1, <1>3, <1>7, <1>9 DEF StoreLink
<1> QED BY <1>2, <1>3, <1>4, <1>5, <1>10, OneRequest DEF Links

LEMMA GateDbErrorInv ==
    ASSUME GateInv, NEW r \in Threads, DbError(r), UNCHANGED gateVars
    PROVE  GateInv'
<1>1. /\ StoreInv /\ StoreTypeOK /\ GateTypeOK
      /\ TrailLink(r) /\ ReplyLink(r) /\ StoreLink(r)
      /\ UNCHANGED <<pc, call, trail, launched, answer, outcome, reply>>
  BY DEF gateVars, GateInv, StoreInv, Links
<1>2. StoreInv' /\ UNCHANGED <<now, opens, seen>> /\ op' = [op EXCEPT ![r] = Done("error")]
  BY <1>1, DbErrorInv DEF DbError, rows
<1>3. op'[r].step = "idle" /\ op'[r].result = "error"
      /\ \A u \in Threads \ {r} : op'[u] = op[u]
  BY <1>1, <1>2 DEF StoreTypeOK, Done
<1>4. GateTypeOK' /\ TrailLink(r)' /\ ReplyLink(r)'
  BY <1>1 DEF GateTypeOK, TrailLink, ReplyLink
<1>5. Grows /\ \A u \in Threads \ {r} : Kept(u)
  BY <1>1, <1>2, <1>3 DEF Grows, Kept, StoreTypeOK
<1>6. StoreLink(r)'
  BY <1>1, <1>2, <1>3 DEF StoreLink, PastGuard, Admitted
<1> QED BY <1>2, <1>4, <1>5, <1>6, OneRequest DEF Links

-----------------------------------------------------------------------------
(* Faults and time.                                                        *)

LEMMA AuditRaisesInv ==
    ASSUME GateInv, NEW r \in Threads, AuditRaises(r)
    PROVE  GateInv'
<1>1. /\ pc[r] \in {"intent", "answered", "outcome"} /\ pc' = [pc EXCEPT ![r] = "dead"]
      /\ faults' = faults + 1
      /\ UNCHANGED <<now, failures, opens, op, seen, settled, call, trail, launched,
                     answer, outcome, reply>>
  BY DEF AuditRaises, Goto, rows
<1>2. /\ StoreInv /\ StoreTypeOK /\ GateTypeOK
      /\ TrailLink(r) /\ ReplyLink(r) /\ StoreLink(r)
  BY DEF GateInv, StoreInv, Links
<1>3. pc'[r] = "dead" /\ \A u \in Threads \ {r} : pc'[u] = pc[u]
  BY <1>1, <1>2 DEF GateTypeOK
<1>4. StoreInv'
  BY <1>1, <1>2 DEF StoreInv, StoreTypeOK, KnowsCause, TripNeedsFailures
<1>5. GateTypeOK'
  BY <1>1, <1>2, <1>3 DEF GateTypeOK, PCs, Ended
<1>6. Grows /\ \A u \in Threads \ {r} : Kept(u)
  BY <1>1, <1>2, <1>3 DEF Grows, Kept, StoreTypeOK
<1>7. TrailLink(r)' /\ ReplyLink(r)'
  BY <1>1, <1>2, <1>3 DEF TrailLink, ReplyLink, BeforeLaunch, Ended
<1>8. StoreLink(r)'
  BY <1>1, <1>2, <1>3 DEF StoreLink, PastGuard, Admitted
<1> QED BY <1>4, <1>5, <1>6, <1>7, <1>8, OneRequest DEF Links

LEMMA RestartInv == GateInv /\ Restart => GateInv'
<1> SUFFICES ASSUME GateInv, Restart PROVE GateInv'
  OBVIOUS
<1>1. /\ StoreInv /\ StoreTypeOK /\ GateTypeOK /\ StoreRestart
      /\ \A r \in Threads : TrailLink(r) /\ ReplyLink(r) /\ StoreLink(r)
  BY DEF GateInv, StoreInv, Links, Restart
<1>2. /\ StoreInv' /\ UNCHANGED <<now, opens, seen>>
      /\ op' = [t \in Threads |-> Done("none")]
      /\ UNCHANGED <<call, trail, launched, answer, outcome, reply>>
  BY <1>1, StoreRestartInv DEF Restart, StoreRestart, rows
<1>3. \A r \in Threads : pc'[r] = IF pc[r] \in {"idle"} \cup Ended THEN pc[r] ELSE "lost"
  BY DEF Restart
<1>4. GateTypeOK'
  <2>1. pc' \in [Threads -> PCs]
    BY <1>1 DEF Restart, GateTypeOK, PCs
  <2> QED BY <1>1, <1>2, <1>3, <2>1 DEF GateTypeOK, Ended
<1>5. ASSUME NEW r \in Threads PROVE Links(r)'
  <2>1. TrailLink(r)' /\ ReplyLink(r)'
    BY <1>1, <1>2, <1>3 DEF TrailLink, ReplyLink, BeforeLaunch, Ended
  <2>2. op'[r].step = "idle"
    BY <1>2 DEF Done
  <2>3. pc'[r] # "guarding" /\ (PastGuard(r)' => PastGuard(r))
    BY <1>2, <1>3 DEF PastGuard, Ended
  <2>4. StoreLink(r)'
    BY <1>1, <1>2, <2>2, <2>3 DEF StoreLink, Admitted
  <2> QED BY <2>1, <2>4 DEF Links
<1> QED BY <1>2, <1>4, <1>5 DEF GateInv

LEMMA GateTickInv ==
    ASSUME GateInv, Tick, UNCHANGED gateVars
    PROVE  GateInv'
<1>1. /\ StoreInv /\ StoreTypeOK /\ GateTypeOK /\ \A r \in Threads : Links(r)
      /\ UNCHANGED <<pc, call, trail, launched, answer, outcome, reply>>
  BY DEF gateVars, GateInv, StoreInv
<1>2. StoreInv' /\ StoreTypeOK' /\ now' = now + 1 /\ UNCHANGED <<opens, op, seen>>
  BY <1>1, TickInv DEF Tick, rows, StoreInv
<1>3. Grows /\ \A u \in Threads : Kept(u)
  BY <1>1, <1>2 DEF Grows, Kept, StoreTypeOK
<1>4. GateTypeOK' /\ \A u \in Threads : Links(u)'
  BY <1>1, <1>2, <1>3, Frame DEF GateTypeOK
<1> QED BY <1>2, <1>4 DEF GateInv

LEMMA GateStutterInv ==
    ASSUME GateInv, UNCHANGED vars
    PROVE  GateInv'
<1>1. UNCHANGED storeVars /\ UNCHANGED gateVars /\ StoreInv
  BY DEF vars, GateInv
<1>2. StoreInv' /\ Grows /\ \A u \in Threads : op'[u] = op[u] /\ seen'[u] = seen[u]
  BY <1>1, StoreUntouched
<1>3. \A u \in Threads : Kept(u)
  BY <1>1, <1>2 DEF gateVars, Kept
<1>4. GateTypeOK' /\ \A u \in Threads : Links(u)'
  BY <1>1, <1>2, <1>3, Frame DEF GateInv, gateVars, GateTypeOK, StoreInv
<1> QED BY <1>2, <1>4 DEF GateInv

-----------------------------------------------------------------------------
(* The theorems.                                                           *)

LEMMA GateInitInv == Init => GateInv
<1> SUFFICES ASSUME Init PROVE GateInv
  OBVIOUS
<1>1. StoreInv
  BY StoreInitInv DEF Init
<1>2. GateTypeOK
  BY DEF Init, GateTypeOK, PCs, CallType, NoCall, Kinds, Outcomes, Outcome, Ended
<1>3. ASSUME NEW r \in Threads PROVE Links(r)
  <2>1. TrailLink(r) /\ ReplyLink(r)
    BY DEF Init, TrailLink, ReplyLink, Ended, BeforeLaunch
  <2>2. StoreLink(r)
    BY DEF Init, StoreInit, StoreLink, PastGuard, Done, NotPassed
  <2> QED BY <2>1, <2>2 DEF Links
<1> QED BY <1>1, <1>2, <1>3 DEF GateInv

LEMMA GateNextInv == GateInv /\ [Next]_vars => GateInv'
<1> SUFFICES ASSUME GateInv, [Next]_vars PROVE GateInv'
  OBVIOUS
<1>1. ASSUME NEW r \in Threads, Receive(r) PROVE GateInv'
  BY <1>1, GateAssumption, AcceptInv, RejectInv DEF Receive
<1>2. ASSUME NEW r \in Threads, Handle(r) PROVE GateInv'
  BY <1>2, StoreStepLinks, LogIntentInv, CheckBreakerInv, AdmitInv, RefusedInv,
     GuardRaisesInv, LogDecisionInv, DecideInv, RunCommandInv, CommandNotRunInv,
     StartWatchInv, LaunchRaisesInv, FinishCommandInv, LogOutcomeInv, RespondInv DEF Handle
<1>3. ASSUME NEW r \in Threads, Confirm(r) PROVE GateInv'
  BY <1>3, DialogInv, DialogRaisesInv DEF Confirm
<1>4. ASSUME NEW r \in Threads, AuditRaises(r) \/ (DbError(r) /\ UNCHANGED gateVars)
      PROVE  GateInv'
  BY <1>4, AuditRaisesInv, GateDbErrorInv
<1>5. CASE Restart
  BY <1>5, RestartInv
<1>6. CASE Tick /\ UNCHANGED gateVars
  BY <1>6, GateTickInv
<1>7. CASE UNCHANGED vars
  BY <1>7, GateStutterInv
<1> QED BY <1>1, <1>2, <1>3, <1>4, <1>5, <1>6, <1>7 DEF Next

\* The inductive invariant of the gate.
THEOREM GateInvariant == Spec => []GateInv
BY GateInitInv, GateNextInv, PTL DEF Spec

\* Type correctness of the gate and of the store it is composed with; no
\* request in progress is one an early return should have answered.
THEOREM GateTypes == Spec => [](StoreTypeOK /\ GateTypeOK)
<1>1. GateInv => StoreTypeOK /\ GateTypeOK
  BY DEF GateInv, StoreInv
<1> QED BY <1>1, GateInvariant, PTL

\* Only the request's own yes lets a gated command be attempted.
THEOREM GateOwnApproval == Spec => []OwnApproval
<1>1. GateInv => OwnApproval
  BY DEF GateInv, Links, TrailLink, OwnApproval
<1> QED BY <1>1, GateInvariant, PTL

\* The log lines of a call are always a prefix of its documented lifecycle.
THEOREM GateLifecycle == Spec => []TrailIsLifecycle
<1>1. GateInv => TrailIsLifecycle
  BY DEF GateInv, Links, TrailLink, TrailIsLifecycle
<1> QED BY <1>1, GateInvariant, PTL

\* No dialog and no command without the intent on file.
THEOREM GateIntentOnRecord == Spec => []IntentOnRecord
<1>1. ASSUME GateInv, NEW r \in Threads,
             launched[r] # "no" \/ answer[r] # "none" \/ pc[r] = "asking"
      PROVE  Len(trail[r]) >= 1 /\ trail[r][1] = "requested"
  <2>1. trail[r] # <<>> /\ trail[r] \in Lifecycles(call[r].verb)
    BY <1>1 DEF GateInv, Links, TrailLink
  <2>2. \A stage \in Stages, v \in {call[r].verb} :
           /\ Len(Append(Prefix(v), stage)) >= 1 /\ Append(Prefix(v), stage)[1] = "requested"
           /\ Len(Prefix(v)) >= 1 /\ Prefix(v)[1] = "requested"
    BY DEF Prefix
  <2> QED BY <2>1, <2>2 DEF Lifecycles, Stages
<1>2. GateInv => IntentOnRecord
  BY <1>1 DEF IntentOnRecord
<1> QED BY <1>2, GateInvariant, PTL

\* What a client is told agrees with the log.
THEOREM GateReplies == Spec => []ReplyMatchesTrail
<1>1. GateInv => ReplyMatchesTrail
  BY DEF GateInv, Links, ReplyLink, ReplyMatchesTrail
<1> QED BY <1>1, GateInvariant, PTL

\* Nobody gets past the gate but by an own guard that found the breaker closed.
THEOREM GateAdmissions == Spec => []AdmittedWhileClosed
<1>1. GateInv => AdmittedWhileClosed
  BY DEF GateInv, Links, StoreLink, AdmittedWhileClosed
<1> QED BY <1>1, GateInvariant, PTL

\* Only a handler that has been cleared launches a command.
LEMMA LaunchFromCleared ==
    ASSUME GateTypeOK, [Next]_vars, NEW r \in Threads, launched'[r] # launched[r]
    PROVE  pc[r] = "cleared"
<1>1. ASSUME NEW u \in Threads,
             RunCommand(u) \/ CommandNotRun(u) \/ StartWatch(u) \/ LaunchRaises(u)
      PROVE  pc[u] = "cleared" /\ (u # r => launched'[r] = launched[r])
  BY <1>1 DEF RunCommand, CommandNotRun, StartWatch, LaunchRaises, Launched, GateTypeOK
<1>2. ASSUME NEW u \in Threads, Receive(u) PROVE launched' = launched
  BY <1>2 DEF Receive, Accept, Reject
<1>3. ASSUME NEW u \in Threads, Confirm(u) PROVE launched' = launched
  BY <1>3 DEF Confirm, Dialog, DialogRaises
<1>4. ASSUME NEW u \in Threads, Store(u) \/ (DbError(u) /\ UNCHANGED gateVars)
      PROVE  launched' = launched
  BY <1>4 DEF Store, gateVars
<1>5. ASSUME NEW u \in Threads, LogIntent(u) \/ LogDecision(u) \/ LogOutcome(u)
      PROVE  launched' = launched
  BY <1>5 DEF LogIntent, LogDecision, LogOutcome, Audit, Logged
<1>6. ASSUME NEW u \in Threads,
             \/ CheckBreaker(u) \/ Admit(u) \/ Refused(u) \/ GuardRaises(u) \/ Decide(u)
             \/ FinishCommand(u) \/ Respond(u) \/ AuditRaises(u)
      PROVE  launched' = launched
  BY <1>6 DEF CheckBreaker, Intended, Admit, GuardReturned, AfterGuard, Refused, GuardRaises,
              Decide, Approved, FinishCommand, Respond, StatusOf, AuditRaises
<1>7. Restart \/ (Tick /\ UNCHANGED gateVars) \/ UNCHANGED vars => launched' = launched
  BY DEF Restart, gateVars, vars
<1> QED BY <1>1, <1>2, <1>3, <1>4, <1>5, <1>6, <1>7 DEF Next, Handle

\* A trip stops every command but those whose guard had returned before it (daemon.py
\* _run_tier_a): a request that was refused, or whose guard raised, starts none.
THEOREM GateStopsNewRuns == Spec => NoNewRunWhileOpen
<1> DEFINE A(r) == launched[r] = "no" /\ launched'[r] = "started" /\ IsOpen(call[r].verb, now)
                     => /\ seen[r].verb = call[r].verb
                        /\ Len(opens[call[r].verb]) > seen[r].rows
<1>1. ASSUME GateInv, [Next]_vars, NEW r \in Threads, launched[r] = "no",
             launched'[r] = "started", IsOpen(call[r].verb, now)
      PROVE  /\ seen[r].verb = call[r].verb
             /\ Len(opens[call[r].verb]) > seen[r].rows
  <2> DEFINE v == call[r].verb
             n == Len(opens[v])
  <2>1. pc[r] = "cleared"
    BY <1>1, LaunchFromCleared DEF GateInv
  <2>2. Admitted(r) /\ seen[r].at <= now /\ v \in Verbs /\ StoreTypeOK
    BY <1>1, <2>1 DEF GateInv, StoreInv, Links, StoreLink, TrailLink, PastGuard, Ended
  <2>3. /\ opens[v] \in Seq(Nat) /\ n \in Nat /\ now \in Nat
        /\ seen[r].rows \in Nat /\ seen[r].at \in Nat
    BY <2>2 DEF StoreTypeOK, Admissions
  <2>4. opens[v] # <<>> /\ now - opens[v][n] < CooldownS
    BY <1>1 DEF IsOpen
  <2>5. n \in 1..n /\ opens[v][n] \in Nat
    BY <2>3, <2>4
  <2>6. /\ seen[r].verb = v /\ seen[r].rows <= n
        /\ \A k \in 1..seen[r].rows : seen[r].at - opens[v][k] < CooldownS =>
              \E j \in (k+1)..seen[r].rows : opens[v][j] < opens[v][k]
    BY <2>2 DEF Admitted
  <2>7. CooldownS \in Nat /\ seen[r].at <= now
    BY <2>2, StoreAssumption
  <2> SUFFICES ASSUME seen[r].rows >= n PROVE FALSE
    BY <2>3, <2>6
  <2>8. seen[r].rows = n
    BY <2>3, <2>6
  <2>9. seen[r].at - opens[v][n] >= CooldownS
    <3>1. (n+1)..n = {}
      BY <2>3
    <3>2. ~(seen[r].at - opens[v][n] < CooldownS)
      BY <2>5, <2>6, <2>8, <3>1
    <3> HIDE DEF v, n
    <3> QED BY <2>3, <2>5, <2>7, <3>2
  <2> HIDE DEF v, n
  <2> QED BY <2>3, <2>4, <2>5, <2>7, <2>9
<1>2. GateInv /\ [Next]_vars => [\A r \in Threads : A(r)]_vars
  BY <1>1
<1> QED BY <1>2, GateInvariant, PTL DEF Spec, NoNewRunWhileOpen

-----------------------------------------------------------------------------
(* The rows the breaker counts and the audit log: a request writes its     *)
(* failure line before the store call that may append a row, and appends   *)
(* at most one row.                                                        *)

\* The last line of r is a failure.
FailureOnFile(r) == trail[r] # <<>> /\ Last(trail[r]) \in FailureStages

\* The requests whose log accounts for a row of v, and those of them whose
\* append is over or was cut short.
Backers(v) == {r \in Threads :
    trail[r] # <<>> /\ call[r].verb = v /\ Last(trail[r]) \in FailureStages}

Writers(v) == {r \in Backers(v) : op[r].step # "append"}

RowsLink ==
    /\ \A r \in Threads : op[r].step = "append" /\ op[r].counts => FailureOnFile(r)
    /\ \A v \in Verbs : /\ IsFiniteSet(Backers(v))
                        /\ Len(failures[v]) <= Cardinality(Writers(v))

\* Request u writes no line, and no append of it begins.
WritesNoLine(u) ==
    /\ trail'[u] = trail[u] /\ call'[u] = call[u]
    /\ op'[u].step = "append" => op'[u] = op[u]

\* Request r, with no failure on file yet, begins something: if it is a counted
\* append, the line is there.
WritesLine(r) ==
    /\ ~FailureOnFile(r)
    /\ op'[r].step = "append" /\ op'[r].counts => FailureOnFile(r)'

\* A step of r, as far as rows and lines are concerned.
RowsStep(r) ==
    /\ \A u \in Threads \ {r} : WritesNoLine(u)
    /\ \/ WritesNoLine(r) /\ failures' = failures
       \/ WritesLine(r) /\ failures' = failures
       \/ /\ WritesNoLine(r)
          /\ op[r].step = "append" /\ op[r].counts /\ op'[r].step # "append"
          /\ \A v \in Verbs :
                Len(failures'[v]) =
                   IF v = op[r].verb THEN Len(failures[v]) + 1 ELSE Len(failures[v])

\* Before its outcome is logged a request has no failure on file.
LEMMA NoFailureYet ==
    ASSUME GateInv, NEW r \in Threads, pc[r] \in {"idle", "intent", "answered", "outcome"}
    PROVE  ~FailureOnFile(r) /\ op[r].step = "idle"
<1>1. TrailLink(r) /\ StoreLink(r)
  BY DEF GateInv, Links
<1>2. trail[r] \in {<<>>, <<"requested">>, <<"requested", "approved">>}
  BY <1>1 DEF TrailLink, Prefix
<1>3. ~FailureOnFile(r)
  BY <1>2 DEF FailureOnFile, FailureStages, Last
<1> QED BY <1>1, <1>3 DEF StoreLink

\* audit() writes the line, then begins the store call.
LEMMA AuditWrites ==
    ASSUME GateInv, NEW r \in Threads, NEW stage \in Stages, NEW label \in PCs,
           pc[r] \in {"intent", "answered", "outcome"}, Audit(r, stage, label)
    PROVE  RowsStep(r)
<1>1. /\ trail' = [trail EXCEPT ![r] = Append(@, stage)]
      /\ op' = [op EXCEPT ![r] =
                  [step |-> "append", verb |-> call[r].verb,
                   counts |-> stage \in FailureStages,
                   at |-> now, row |-> 0, result |-> "none"]]
      /\ failures' = failures /\ call' = call
  BY DEF Audit, Logged, BeginRecord, rows
<1>2. trail \in [Threads -> Seq(Stages)] /\ op \in [Threads -> Ops]
  BY DEF GateInv, GateTypeOK, StoreInv, StoreTypeOK
<1>3. \A u \in Threads \ {r} : WritesNoLine(u)
  BY <1>1, <1>2 DEF WritesNoLine
<1>4. /\ trail'[r] = Append(trail[r], stage)
      /\ op'[r].counts = (stage \in FailureStages)
  BY <1>1, <1>2
<1>5. Append(trail[r], stage) # <<>> /\ Last(Append(trail[r], stage)) = stage
  BY <1>2 DEF Last
<1>6. WritesLine(r)
  BY <1>4, <1>5, NoFailureYet DEF WritesLine, FailureOnFile
<1> QED BY <1>1, <1>3, <1>6 DEF RowsStep

\* Among the store steps only the append of a counted row adds a row.
LEMMA StoreWrites ==
    ASSUME GateInv, NEW r \in Threads, Store(r)
    PROVE  RowsStep(r)
<1>1. /\ StoreStep(r) /\ StoreTypeOK /\ UNCHANGED <<trail, call>>
      /\ \A u \in Threads \ {r} : op'[u] = op[u]
      /\ op[r].step # "idle" /\ op[r] \in Ops /\ op[r].verb \in Verbs
  BY StepEffect DEF Store, gateVars, GateInv, StoreInv, StoreTypeOK
<1>2. op'[r].step # "append"
  BY <1>1 DEF StoreStep, AppendRow, CountFailures, CheckOpen, Trip, Guard, Refuse,
              Recorded, Done, StoreTypeOK, Ops
<1>3. \A u \in Threads : WritesNoLine(u)
  BY <1>1, <1>2 DEF WritesNoLine
<1>4. CASE failures' = failures
  BY <1>3, <1>4 DEF RowsStep
<1>5. CASE failures' # failures
  <2>1. AppendRow(r) /\ op[r].step = "append" /\ op[r].counts
    BY <1>1, <1>5 DEF StoreStep, AppendRow, CountFailures, CheckOpen, Trip, Guard, Refuse, rows
  <2>2. PICK ts \in op[r].at .. now :
           failures' = [failures EXCEPT ![op[r].verb] = Append(@, ts)]
    BY <1>5, <2>1 DEF AppendRow
  <2>3. ts \in Nat /\ failures \in [Verbs -> Seq(Nat)]
    BY <1>1, <2>2 DEF StoreTypeOK, Ops
  <2>4. \A v \in Verbs :
           failures'[v] = IF v = op[r].verb THEN Append(failures[v], ts) ELSE failures[v]
    BY <1>1, <2>2, <2>3
  <2>5. \A v \in Verbs : Len(Append(failures[v], ts)) = Len(failures[v]) + 1
    BY <2>3
  <2> QED BY <1>2, <1>3, <2>1, <2>4, <2>5 DEF RowsStep
<1> QED BY <1>4, <1>5

\* A step that writes no line, or a request is the only one to do anything.
LEMMA OneWriter ==
    ASSUME GateInv, [Next]_vars
    PROVE  \/ \E r \in Threads : RowsStep(r)
           \/ failures' = failures /\ \A u \in Threads : WritesNoLine(u)
<1>0. /\ StoreTypeOK /\ GateTypeOK
  BY DEF GateInv, StoreInv
<1>1. ASSUME NEW r \in Threads, NEW c \in Calls, Accept(r, c)
      PROVE  RowsStep(r)
  <2>1. /\ call' = [call EXCEPT ![r] = c] /\ pc[r] = "idle"
        /\ UNCHANGED <<trail, op, failures>>
    BY <1>1 DEF Accept, storeVars
  <2>2. \A u \in Threads \ {r} : WritesNoLine(u)
    BY <1>0, <2>1 DEF WritesNoLine, GateTypeOK
  <2>3. WritesLine(r)
    BY <2>1, NoFailureYet DEF WritesLine
  <2> QED BY <2>1, <2>2, <2>3 DEF RowsStep
<1>2. ASSUME NEW r \in Threads, LogIntent(r) \/ LogDecision(r) \/ LogOutcome(r)
      PROVE  RowsStep(r)
  <2>1. \E stage \in Stages, label \in PCs : Audit(r, stage, label)
    BY <1>0, <1>2 DEF LogIntent, LogDecision, LogOutcome, Stages, PCs, GateTypeOK, Outcomes
  <2>2. pc[r] \in {"intent", "answered", "outcome"}
    BY <1>2 DEF LogIntent, LogDecision, LogOutcome
  <2> QED BY <2>1, <2>2, AuditWrites
<1>3. ASSUME NEW r \in Threads, Store(r) PROVE RowsStep(r)
  BY <1>3, StoreWrites
<1> DEFINE Quiet == failures' = failures /\ \A u \in Threads : WritesNoLine(u)
<1>4. ASSUME UNCHANGED <<failures, op, trail, call>> PROVE Quiet
  BY <1>4 DEF WritesNoLine
<1>5. ASSUME NEW r \in Threads, CheckBreaker(r) PROVE Quiet
  <2>1. /\ UNCHANGED <<failures, trail, call>>
        /\ op'[r].step = "guard" /\ \A u \in Threads \ {r} : op'[u] = op[u]
    BY <1>0, <1>5 DEF CheckBreaker, BeginGuard, rows, StoreTypeOK
  <2> QED BY <2>1 DEF WritesNoLine
<1>6. ASSUME NEW r \in Threads, DbError(r), UNCHANGED gateVars PROVE Quiet
  <2>1. /\ UNCHANGED <<failures, trail, call>>
        /\ op'[r].step = "idle" /\ \A u \in Threads \ {r} : op'[u] = op[u]
    BY <1>0, <1>6 DEF DbError, gateVars, rows, StoreTypeOK, Done
  <2> QED BY <2>1 DEF WritesNoLine
<1>7. ASSUME Restart PROVE Quiet
  <2>1. UNCHANGED <<failures, trail, call>> /\ \A u \in Threads : op'[u].step = "idle"
    BY <1>7 DEF Restart, StoreRestart, rows, Done
  <2> QED BY <2>1 DEF WritesNoLine
<1>8. ASSUME NEW r \in Threads,
             \/ Admit(r) \/ Refused(r) \/ GuardRaises(r) \/ Decide(r) \/ RunCommand(r)
             \/ CommandNotRun(r) \/ StartWatch(r) \/ LaunchRaises(r)
             \/ FinishCommand(r) \/ Respond(r) \/ Confirm(r) \/ AuditRaises(r)
             \/ \E c \in Calls : Reject(r, c)
      PROVE  Quiet
  <2>1. UNCHANGED <<failures, op, trail, call>>
    BY <1>8 DEF Admit, Refused, GuardRaises, Decide, RunCommand, CommandNotRun, StartWatch,
                LaunchRaises, FinishCommand, Respond, Confirm, Dialog, DialogRaises,
                AuditRaises, Reject, storeVars, rows
  <2> QED BY <1>4, <2>1
<1>9. (Tick /\ UNCHANGED gateVars) \/ UNCHANGED vars => Quiet
  BY <1>4 DEF Tick, gateVars, vars, storeVars, rows
<1> HIDE DEF Quiet
<1>10. ASSUME NEW r \in Threads, Receive(r) PROVE RowsStep(r) \/ Quiet
  BY <1>1, <1>8, <1>10 DEF Receive
<1>11. ASSUME NEW r \in Threads, Handle(r) PROVE RowsStep(r) \/ Quiet
  BY <1>2, <1>3, <1>5, <1>8, <1>11 DEF Handle
<1>12. (\E r \in Threads : RowsStep(r)) \/ Quiet
  BY <1>6, <1>7, <1>8, <1>9, <1>10, <1>11 DEF Next
<1> QED BY <1>12 DEF Quiet

\* What a step does to the two sets of one verb.
LEMMA SetsGrow ==
    ASSUME NEW v \in Verbs, NEW r,
           \A u \in Threads \ {r} : WritesNoLine(u),
           r \in Threads => WritesNoLine(r) \/ WritesLine(r)
    PROVE  /\ Backers(v)' \in SUBSET (Backers(v) \cup {r})
           /\ Writers(v) \in SUBSET Writers(v)'
<1>1. ASSUME NEW u \in Threads, WritesNoLine(u)
      PROVE  /\ u \in Backers(v)' <=> u \in Backers(v)
             /\ u \in Writers(v) => u \in Writers(v)'
  BY <1>1 DEF WritesNoLine, Backers, Writers
<1>2. ASSUME NEW u \in Threads, WritesLine(u) PROVE u \notin Backers(v) /\ u \notin Writers(v)
  BY <1>2 DEF WritesLine, FailureOnFile, Backers, Writers
<1>3. ASSUME NEW u \in Backers(v)', u # r PROVE u \in Backers(v)
  BY <1>1, <1>3 DEF Backers
<1>4. ASSUME NEW u \in Writers(v) PROVE u \in Writers(v)'
  <2>1. u \in Threads
    BY <1>4 DEF Writers, Backers
  <2> QED BY <1>1, <1>2, <1>4, <2>1
<1> QED BY <1>3, <1>4

LEMMA RowsLinkStep ==
    ASSUME GateInv, RowsLink, NEW r,
           (r \in Threads /\ RowsStep(r))
             \/ (failures' = failures /\ \A u \in Threads : WritesNoLine(u))
    PROVE  RowsLink'
<1>1. ASSUME NEW u \in Threads, op'[u].step = "append", op'[u].counts
      PROVE  FailureOnFile(u)'
  BY <1>1 DEF RowsLink, RowsStep, WritesNoLine, WritesLine, FailureOnFile
<1>2. ASSUME NEW v \in Verbs
      PROVE  IsFiniteSet(Backers(v)') /\ Len(failures'[v]) <= Cardinality(Writers(v)')
  <2>1. /\ Backers(v)' \in SUBSET (Backers(v) \cup {r})
        /\ Writers(v) \in SUBSET Writers(v)'
    BY SetsGrow DEF RowsStep
  <2>2. /\ IsFiniteSet(Backers(v)) /\ Len(failures[v]) <= Cardinality(Writers(v))
        /\ Len(failures[v]) \in Nat
    BY DEF RowsLink, GateInv, StoreInv, StoreTypeOK
  <2>3. IsFiniteSet(Backers(v)')
    <3>1. IsFiniteSet(Backers(v) \cup {r})
      BY <2>2, FS_AddElement
    <3> QED BY <2>1, <3>1, FS_Subset
  <2>4. IsFiniteSet(Writers(v)') /\ IsFiniteSet(Writers(v))
    <3>1. Writers(v)' \in SUBSET Backers(v)' /\ Writers(v) \in SUBSET Backers(v)
      BY DEF Writers
    <3> QED BY <2>2, <2>3, <3>1, FS_Subset
  <2>5. /\ Cardinality(Writers(v)) \in Nat /\ Cardinality(Writers(v)') \in Nat
        /\ Cardinality(Writers(v)) <= Cardinality(Writers(v)')
    BY <2>1, <2>4, FS_Subset, FS_CardinalityType
  <2>6. CASE Len(failures'[v]) = Len(failures[v])
    BY <2>2, <2>3, <2>5, <2>6
  <2>7. CASE Len(failures'[v]) # Len(failures[v])
    <3>1. /\ r \in Threads /\ WritesNoLine(r) /\ op[r].step = "append" /\ op[r].counts
          /\ op'[r].step # "append" /\ v = op[r].verb
          /\ Len(failures'[v]) = Len(failures[v]) + 1
      BY <2>7 DEF RowsStep
    <3>2. FailureOnFile(r) /\ call[r].verb = v
      BY <3>1 DEF RowsLink, GateInv, Links, StoreLink
    <3>3. r \notin Writers(v) /\ r \in Writers(v)'
      BY <3>1, <3>2 DEF Writers, Backers, FailureOnFile, WritesNoLine
    <3>4. /\ IsFiniteSet(Writers(v) \cup {r})
          /\ Cardinality(Writers(v) \cup {r}) = Cardinality(Writers(v)) + 1
      BY <2>4, <3>3, FS_AddElement
    <3>5. Writers(v) \cup {r} \in SUBSET Writers(v)'
      BY <2>1, <3>3
    <3>6. Cardinality(Writers(v) \cup {r}) <= Cardinality(Writers(v)')
      BY <2>4, <3>5, FS_Subset
    <3> QED BY <2>2, <2>3, <2>5, <3>1, <3>4, <3>6
  <2> QED BY <2>6, <2>7
<1> QED BY <1>1, <1>2 DEF RowsLink

LEMMA RowsLinkInit == Init => RowsLink
<1> SUFFICES ASSUME Init PROVE RowsLink
  OBVIOUS
<1>1. \A r \in Threads : op[r].step = "idle" /\ trail[r] = <<>>
  BY DEF Init, StoreInit, Done
<1>2. \A v \in Verbs : Backers(v) = {} /\ Writers(v) = {} /\ failures[v] = <<>>
  BY <1>1 DEF Backers, Writers, Init, StoreInit
<1>3. IsFiniteSet({}) /\ Cardinality({}) = 0
  BY FS_EmptySet
<1>4. ASSUME NEW v \in Verbs
      PROVE  IsFiniteSet(Backers(v)) /\ Len(failures[v]) <= Cardinality(Writers(v))
  <2>1. Len(failures[v]) = 0 /\ Backers(v) = {} /\ Writers(v) = {}
    BY <1>2
  <2>2. Cardinality(Writers(v)) = 0 /\ IsFiniteSet(Backers(v))
    BY <1>3, <2>1, Zenon
  <2> QED BY <2>1, <2>2
<1> QED BY <1>1, <1>4 DEF RowsLink

LEMMA RowsLinkNext == GateInv /\ RowsLink /\ [Next]_vars => RowsLink'
<1> SUFFICES ASSUME GateInv, RowsLink, [Next]_vars PROVE RowsLink'
  OBVIOUS
<1>1. (\E r \in Threads : RowsStep(r))
        \/ (failures' = failures /\ \A u \in Threads : WritesNoLine(u))
  BY OneWriter
<1> QED BY <1>1, RowsLinkStep

\* Each failure the breaker counts is in the log of a request of its own.  No
\* finiteness of the requests is assumed: those with a failure on file are
\* finitely many at any time.
THEOREM GateRowsBacked == Spec => []RowsBackedByTrail
<1>1. GateInv /\ RowsLink => RowsBackedByTrail
  <2> SUFFICES ASSUME GateInv, RowsLink, NEW v \in Verbs
               PROVE  Len(failures[v]) <= Cardinality(Backers(v))
    BY DEF RowsBackedByTrail, Backers
  <2>1. /\ IsFiniteSet(Backers(v)) /\ Len(failures[v]) <= Cardinality(Writers(v))
        /\ Len(failures[v]) \in Nat
    BY DEF RowsLink, GateInv, StoreInv, StoreTypeOK
  <2>2. Writers(v) \in SUBSET Backers(v)
    BY DEF Writers
  <2>3. /\ IsFiniteSet(Writers(v)) /\ Cardinality(Writers(v)) <= Cardinality(Backers(v))
        /\ Cardinality(Writers(v)) \in Nat /\ Cardinality(Backers(v)) \in Nat
    BY <2>1, <2>2, FS_Subset, FS_CardinalityType
  <2> QED BY <2>1, <2>3
<1>2. Spec => [](GateInv /\ RowsLink)
  BY GateInitInv, GateNextInv, RowsLinkInit, RowsLinkNext, PTL DEF Spec
<1> QED BY <1>1, <1>2, PTL

-----------------------------------------------------------------------------
(* The breaker as the gate uses it, when calls are quick.                  *)

\* The step of a handler that is no step of the store leaves what the store
\* knows of this instant.
LEMMA QuickUntouched ==
    ASSUME QuickInv, StoreInv', UNCHANGED <<now, failures, opens, op, settled>>
    PROVE  QuickInv' /\ (NoMissedTrip => NoMissedTrip')
BY DEF QuickInv, KnowsNow, RowsArePast, EveryTripJustified, NoMissedTrip

LEMMA GateQuickNext ==
    ASSUME ~SlowCalls, GateInv, QuickInv, [Next]_vars
    PROVE  QuickInv' /\ (CooldownS # 0 /\ NoMissedTrip => NoMissedTrip')
<1> DEFINE Goal == QuickInv' /\ (CooldownS # 0 /\ NoMissedTrip => NoMissedTrip')
<1>1. StoreInv' /\ StoreTypeOK /\ GateTypeOK
  BY GateNextInv DEF GateInv, StoreInv
<1>2. ASSUME NEW r \in Threads, QuickStep(r) /\ KnowsNow(r)' PROVE Goal
  BY <1>1, <1>2, QuickStepInv, NoMissStep
<1>3. ASSUME NEW r \in Threads, Store(r) PROVE Goal
  BY <1>2, <1>3, AppendRowQuick, CountFailuresQuick, CheckOpenQuick, TripQuick, GuardQuick,
     RefuseQuick DEF Store, StoreStep
<1>4. ASSUME NEW r \in Threads, LogIntent(r) \/ LogDecision(r) \/ LogOutcome(r) \/ CheckBreaker(r)
      PROVE  Goal
  <2>1. call[r].verb \in Verbs
    BY <1>4, VerbInProgress
       DEF GateInv, Links, Ended, LogIntent, LogDecision, LogOutcome, CheckBreaker, Intended, Recording
  <2>2. \/ \E stage \in Stages : BeginRecord(r, call[r].verb, stage)
        \/ BeginGuard(r, call[r].verb)
    <3>1. outcome[r].stage \in Stages
      BY <1>1 DEF GateTypeOK, Outcomes, Stages
    <3>2. {"requested", "approved", "denied"} \subseteq Stages
      BY DEF Stages
    <3> QED BY <1>4, <3>1, <3>2 DEF LogIntent, LogDecision, LogOutcome, CheckBreaker, Audit
  <2> QED BY <1>2, <2>1, <2>2, BeginsQuick
<1>5. ASSUME NEW r \in Threads, DbError(r) PROVE Goal
  BY <1>2, <1>5, DbErrorQuick
<1>6. ASSUME UNCHANGED <<now, failures, opens, op, settled>> PROVE Goal
  BY <1>1, <1>6, QuickUntouched
<1>7. ASSUME NEW r \in Threads,
             \/ Admit(r) \/ Refused(r) \/ GuardRaises(r) \/ Decide(r) \/ RunCommand(r)
             \/ CommandNotRun(r) \/ StartWatch(r) \/ LaunchRaises(r)
             \/ FinishCommand(r) \/ Respond(r) \/ Confirm(r) \/ AuditRaises(r) \/ Receive(r)
      PROVE  Goal
  <2>1. UNCHANGED <<now, failures, opens, op, settled>>
    BY <1>7 DEF Admit, Refused, GuardRaises, Decide, RunCommand, CommandNotRun, StartWatch,
                LaunchRaises, FinishCommand, Respond, Confirm, Dialog, DialogRaises,
                AuditRaises, Receive, Accept, Reject, storeVars, rows
  <2> QED BY <1>6, <2>1
<1>8. ASSUME Tick \/ Restart PROVE Goal
  <2>1. /\ now' \in {now, now + 1} /\ UNCHANGED <<failures, opens, settled>>
        /\ \A r \in Threads : op'[r].step = "idle"
    BY <1>8 DEF Tick, Restart, StoreRestart, rows, Done
  <2> QED BY <1>1, <2>1, NobodyCalls
<1>9. ASSUME UNCHANGED vars PROVE Goal
  BY <1>6, <1>9 DEF vars, storeVars
<1> HIDE DEF Goal
<1>10. Goal
  BY <1>3, <1>4, <1>5, <1>7, <1>8, <1>9 DEF Next, Handle
<1> QED BY <1>10 DEF Goal

LEMMA QuickInit == Init => QuickInv
<1> SUFFICES ASSUME Init PROVE QuickInv
  OBVIOUS
<1>1. StoreInv
  BY StoreInitInv DEF Init
<1> QED BY <1>1 DEF Init, StoreInit, QuickInv, KnowsNow, RowsArePast, EveryTripJustified, Done

\* The breaker of the daemon, where only the handlers of requests call it: when
\* calls are quick, each circuit_open row has its cause.
THEOREM GateTripsJustified ==
    ASSUME ~SlowCalls PROVE Spec => []EveryTripJustified
<1>1. QuickInv => EveryTripJustified
  BY DEF QuickInv
<1>2. GateInv /\ QuickInv /\ [Next]_vars => QuickInv'
  BY GateQuickNext
<1> QED BY <1>1, <1>2, QuickInit, GateInitInv, GateNextInv, PTL DEF Spec

\* And, when there is a cooldown, no trip is lost between requests whose failures
\* reach the limit together.
THEOREM GateTripsNotMissed ==
    ASSUME ~SlowCalls, CooldownS # 0 PROVE Spec => []NoMissedTrip
<1> DEFINE Inv == QuickInv /\ NoMissedTrip
<1>1. Init => Inv
  BY QuickInit DEF Init, StoreInit, NoMissedTrip
<1>2. GateInv /\ Inv /\ [Next]_vars => Inv'
  BY GateQuickNext
<1>3. Inv => NoMissedTrip
  OBVIOUS
<1> QED BY <1>1, <1>2, <1>3, GateInitInv, GateNextInv, PTL DEF Spec

=============================================================================
