----------------------------- MODULE BatchProofs -----------------------------
(***************************************************************************)
(* Proofs about Batch for every catalog, every set of bodies, any number   *)
(* of batches, workers and requests.  The entries of a batch are executed  *)
(* by requests of Gate: GateInv carries over (RequestStepGate), and all    *)
(* that a batch needs to know of a step of its requests is that one in     *)
(* use stays in use and one that has ended keeps its end and its reply     *)
(* (Settled).                                                              *)
(***************************************************************************)
EXTENDS Batch, GateProofs, WellFoundedInduction

BatchTypeOK ==
    /\ batch \in [BatchIds -> {"idle", "running", "raising", "answered", "dead", "lost"}]
    /\ entries \in [BatchIds -> Seq(EntryType)]
    /\ runner \in [BatchIds -> Seq(Threads)]
    /\ DOMAIN items = BatchIds
    /\ answered \in [BatchIds -> {0, 200, 400, 401, 404}]

\* The pool: entries go to requests that are in use, and all are checked.
PoolLink(b) ==
    /\ Len(runner[b]) <= Len(entries[b])
    /\ \A i \in DOMAIN runner[b] : pc[runner[b][i]] # "idle"
    /\ \A j \in DOMAIN entries[b] : Fault(entries[b][j]) = 0

\* A result that is in is what the request of its entry answered.
ItemLink(b, i) ==
    items[b][i] # None =>
        /\ i \in DOMAIN runner[b] /\ pc[runner[b][i]] = "done"
        /\ items[b][i] = [verb |-> entries[b][i].verb, status |-> reply[runner[b][i]]]

\* The thread of the batch: what it has, where it is.
ThreadLink(b) ==
    /\ DOMAIN items[b] = DOMAIN entries[b]
    /\ batch[b] = "idle" => entries[b] = <<>> /\ runner[b] = <<>>
    /\ batch[b] # "answered" => answered[b] = 0
    /\ answered[b] = 200 => \A i \in DOMAIN entries[b] : items[b][i] # None
    /\ batch[b] = "dead" => Drained(b)

BatchLink(b) ==
    /\ PoolLink(b)
    /\ \A i \in DOMAIN entries[b] : ItemLink(b, i)
    /\ ThreadLink(b)

BatchInv == GateInv /\ BatchTypeOK /\ \A b \in BatchIds : BatchLink(b)

\* What a step does to request r, as far as a batch is concerned.
Settled(r) ==
    /\ pc[r] # "idle" => pc'[r] # "idle"
    /\ pc[r] \in Ended => pc'[r] = pc[r] /\ reply'[r] = reply[r]

-----------------------------------------------------------------------------
(* The checks.                                                             *)

LEMMA FaultValues == \A e : Fault(e) \in {0, 400, 404}
BY DEF Fault

\* An entry without fault is a call that the risk gate may see.
LEMMA Faultless ==
    ASSUME NEW e \in EntryType, Fault(e) = 0
    PROVE  /\ e.verb \in Verbs /\ Tier[e.verb] = "A" /\ Direction[e.verb] = "perceive"
           /\ e.args = "accepted"
<1>1. e.verb # Unknown /\ ~(Tier[e.verb] # "A" \/ Direction[e.verb] # "perceive" \/ e.args = "rejected")
  BY DEF Fault
<1> QED BY <1>1 DEF EntryType

\* A set of numbers that is not empty has a least one.
LEMMA LeastNumber ==
    ASSUME NEW S \in SUBSET Nat, S # {}
    PROVE  \E n \in S : \A m \in S : n <= m
<1> DEFINE less == {p \in Nat \X Nat : p[1] < p[2]}
<1>1. IsWellFoundedOn(less, Nat)
  BY NatLessThanWellFounded DEF OpToRel
<1>2. PICK n \in S : \A m \in S : <<m, n>> \notin less
  <2> HIDE DEF less
  <2> QED BY <1>1, WFMin
<1>3. ASSUME NEW m \in S PROVE n <= m
  <2>1. m \in Nat /\ n \in Nat /\ <<m, n>> \notin less
    BY <1>2
  <2> QED BY <2>1
<1> QED BY <1>3

\* The scan for the first fault lets no faulty list through.
LEMMA FirstFaultFinds ==
    ASSUME NEW es \in Seq(EntryType)
    PROVE  /\ FirstFault(es) \in {0, 400, 404}
           /\ FirstFault(es) = 0 => \A i \in DOMAIN es : Fault(es[i]) = 0
<1>1. FirstFault(es) \in {0, 400, 404}
  BY FaultValues DEF FirstFault
<1>2. ASSUME NEW i \in DOMAIN es, Fault(es[i]) # 0
      PROVE  FirstFault(es) # 0
  <2> DEFINE faulty == {k \in DOMAIN es : Fault(es[k]) # 0}
             First(k) == Fault(es[k]) # 0 /\ \A j \in 1..(k-1) : Fault(es[j]) = 0
  <2>1. DOMAIN es = 1..Len(es) /\ Len(es) \in Nat
    OBVIOUS
  <2>2. PICK n \in faulty : \A m \in faulty : n <= m
    <3>1. faulty \in SUBSET Nat /\ faulty # {}
      BY <1>2, <2>1
    <3> HIDE DEF faulty
    <3> QED BY <3>1, LeastNumber
  <2>3. n \in DOMAIN es /\ First(n)
    <3>1. n \in 1..Len(es) /\ Fault(es[n]) # 0
      BY <2>1, <2>2
    <3>2. ASSUME NEW j \in 1..(n-1) PROVE Fault(es[j]) = 0
      <4>1. j \in 1..Len(es) /\ ~(n <= j)
        BY <2>1, <3>1
      <4> QED BY <2>1, <2>2, <4>1
    <3> QED BY <2>1, <3>1, <3>2
  <2>4. FirstFault(es) = Fault(es[CHOOSE k \in DOMAIN es : First(k)])
    BY <1>2 DEF FirstFault
  <2> HIDE DEF First
  <2>5. First(CHOOSE k \in DOMAIN es : First(k))
    BY <2>3
  <2> QED BY <2>4, <2>5 DEF First
<1> QED BY <1>1, <1>2

\* What is executed has no faulty entry; what is turned down is not told 200.
LEMMA RefusalFinds ==
    ASSUME NEW p \in BodyType
    PROVE  /\ Refusal(p) \in {0, 400, 401, 404}
           /\ Refusal(p) = 0 => \A i \in DOMAIN p.entries : Fault(p.entries[i]) = 0
<1>1. p.entries \in Seq(EntryType)
  BY DEF BodyType
<1>2. Refusal(p) \in {400, 401} \/ Refusal(p) = FirstFault(p.entries)
  BY DEF Refusal
<1> QED BY <1>1, <1>2, FirstFaultFinds

-----------------------------------------------------------------------------
(* A step of the requests.                                                 *)

\* A request that a step moves is in progress, before and after it.
LEMMA HandleSettles ==
    ASSUME GateInv, NEW r \in Threads, Handle(r) \/ Confirm(r) \/ AuditRaises(r),
           NEW u \in Threads
    PROVE  Settled(u)
<1>1. pc \in [Threads -> PCs] /\ reply \in [Threads -> {0, 200, 400, 401, 403, 404, 500}]
  BY DEF GateInv, GateTypeOK
<1>2. CASE Store(r)
  BY <1>2 DEF Store, gateVars, Settled
<1>3. ASSUME NEW stage, NEW label \in PCs \ {"idle"}, Audit(r, stage, label), pc[r] \notin {"idle"} \cup Ended
      PROVE  Settled(u)
  BY <1>1, <1>3 DEF Audit, Goto, Settled, Ended
<1>4. CASE LogIntent(r) \/ LogDecision(r) \/ LogOutcome(r)
  BY <1>3, <1>4 DEF LogIntent, LogDecision, LogOutcome, PCs, Ended
<1>5. CASE CheckBreaker(r) \/ Admit(r) \/ Refused(r) \/ GuardRaises(r)
  BY <1>1, <1>5 DEF CheckBreaker, Admit, Refused, GuardRaises, Recording, Intended, AfterGuard,
                    Answered, Goto, Settled, Ended
<1>6. CASE Dialog(r) \/ DialogRaises(r) \/ Decide(r)
  BY <1>1, <1>6 DEF Dialog, DialogRaises, Decide, Recording, Answered, Goto, Settled, Ended
<1>7. CASE RunCommand(r) \/ CommandNotRun(r) \/ StartWatch(r) \/ LaunchRaises(r)
  BY <1>1, <1>7 DEF RunCommand, CommandNotRun, StartWatch, LaunchRaises, Goto, Settled, Ended
<1>8. CASE FinishCommand(r) \/ Respond(r) \/ AuditRaises(r)
  BY <1>1, <1>8 DEF FinishCommand, Respond, AuditRaises, Recording, Answered, Goto, Settled, Ended
<1> QED BY <1>2, <1>4, <1>5, <1>6, <1>7, <1>8 DEF Handle, Confirm

LEMMA RequestStepGate ==
    ASSUME GateInv, RequestStep
    PROVE  GateInv' /\ \A u \in Threads : Settled(u)
<1>1. GateInv'
  <2>1. RequestStep => Next
    BY DEF RequestStep, Next
  <2> QED BY <2>1, GateNextInv
<1>2. ASSUME NEW r \in Threads, DbError(r), UNCHANGED gateVars, NEW u \in Threads
      PROVE  Settled(u)
  BY <1>2 DEF gateVars, Settled
<1>3. ASSUME Tick, UNCHANGED gateVars, NEW u \in Threads PROVE Settled(u)
  BY <1>3 DEF gateVars, Settled
<1>4. ASSUME NEW u \in Threads PROVE Settled(u)
  BY <1>2, <1>3, HandleSettles DEF RequestStep
<1> QED BY <1>1, <1>4

-----------------------------------------------------------------------------
(* The batches a step leaves alone.                                        *)

KeptBatch(b) ==
    /\ batch'[b] = batch[b] /\ entries'[b] = entries[b] /\ runner'[b] = runner[b]
    /\ items'[b] = items[b] /\ answered'[b] = answered[b]

\* Whatever its requests do, a batch keeps its links.
LEMMA BatchFrame ==
    ASSUME NEW b \in BatchIds, BatchTypeOK, BatchLink(b), KeptBatch(b),
           \A u \in Threads : Settled(u)
    PROVE  BatchLink(b)'
<1>1. \A i \in DOMAIN runner[b] : Settled(runner[b][i])
  BY DEF BatchTypeOK
<1>2. PoolLink(b)'
  BY <1>1 DEF BatchLink, PoolLink, KeptBatch, Settled
<1>3. ASSUME NEW i \in DOMAIN entries[b] PROVE ItemLink(b, i)'
  <2> SUFFICES ASSUME items[b][i] # None PROVE ItemLink(b, i)'
    BY DEF ItemLink, KeptBatch
  <2>1. /\ i \in DOMAIN runner[b] /\ pc[runner[b][i]] = "done"
        /\ items[b][i] = [verb |-> entries[b][i].verb, status |-> reply[runner[b][i]]]
    BY DEF BatchLink, ItemLink
  <2>2. pc'[runner[b][i]] = "done" /\ reply'[runner[b][i]] = reply[runner[b][i]]
    BY <1>1, <2>1 DEF Settled, Ended
  <2> QED BY <2>1, <2>2 DEF ItemLink, KeptBatch
<1>4. batch[b] = "dead" => Drained(b)'
  BY <1>1 DEF BatchLink, ThreadLink, KeptBatch, Drained, Busy, Settled
<1>5. ThreadLink(b)'
  BY <1>4 DEF BatchLink, ThreadLink, KeptBatch
<1> QED BY <1>2, <1>3, <1>5 DEF BatchLink, KeptBatch

LEMMA OneBatch ==
    ASSUME BatchInv, NEW b \in BatchIds, GateInv', BatchTypeOK',
           \A u \in Threads : Settled(u),
           \A d \in BatchIds \ {b} : KeptBatch(d), BatchLink(b)'
    PROVE  BatchInv'
<1>1. \A d \in BatchIds \ {b} : BatchLink(d)'
  BY BatchFrame DEF BatchInv
<1> QED BY <1>1 DEF BatchInv

LEMMA RequestsKept ==
    ASSUME GateInv, UNCHANGED vars
    PROVE  GateInv' /\ \A u \in Threads : Settled(u)
BY GateStutterInv DEF vars, gateVars, Settled

-----------------------------------------------------------------------------
(* The steps of a batch.                                                   *)

LEMMA PostInv ==
    ASSUME BatchInv, NEW b \in BatchIds, NEW p \in BodyType, Post(b, p)
    PROVE  BatchInv'
<1>1. /\ batch[b] = "idle" /\ UNCHANGED vars /\ runner' = runner
      /\ BatchTypeOK /\ GateInv /\ BatchLink(b) /\ p.entries \in Seq(EntryType)
  BY DEF Post, BatchInv, BodyType
<1>2. GateInv' /\ \A u \in Threads : Settled(u)
  BY <1>1, RequestsKept
<1>3. CASE /\ Refusal(p) # 0
           /\ batch' = [batch EXCEPT ![b] = "answered"]
           /\ answered' = [answered EXCEPT ![b] = Refusal(p)]
           /\ UNCHANGED <<entries, items>>
  <2>1. Refusal(p) \in {400, 401, 404}
    BY <1>3, RefusalFinds
  <2>2. BatchTypeOK'
    BY <1>1, <1>3, <2>1 DEF BatchTypeOK
  <2>3. \A d \in BatchIds \ {b} : KeptBatch(d)
    BY <1>1, <1>3 DEF BatchTypeOK, KeptBatch
  <2>4. batch'[b] = "answered" /\ answered'[b] \in {400, 401, 404}
    BY <1>1, <1>3, <2>1 DEF BatchTypeOK
  <2>5. BatchLink(b)'
    BY <1>1, <1>3, <2>4 DEF BatchLink, PoolLink, ThreadLink, ItemLink, vars, gateVars
  <2> QED BY <1>2, <2>2, <2>3, <2>5, OneBatch
<1>4. CASE /\ Refusal(p) = 0
           /\ batch' = [batch EXCEPT ![b] = "running"]
           /\ entries' = [entries EXCEPT ![b] = p.entries]
           /\ items' = [items EXCEPT ![b] = [i \in DOMAIN p.entries |-> None]]
           /\ UNCHANGED answered
  <2>1. \A i \in DOMAIN p.entries : Fault(p.entries[i]) = 0
    BY <1>4, RefusalFinds
  <2>2. BatchTypeOK'
    BY <1>1, <1>4 DEF BatchTypeOK
  <2>3. \A d \in BatchIds \ {b} : KeptBatch(d)
    BY <1>1, <1>4 DEF BatchTypeOK, KeptBatch
  <2>4. /\ batch'[b] = "running" /\ entries'[b] = p.entries /\ answered'[b] = 0
        /\ items'[b] = [i \in DOMAIN p.entries |-> None] /\ runner'[b] = <<>>
    BY <1>1, <1>4 DEF BatchTypeOK, BatchLink, ThreadLink
  <2>5. PoolLink(b)'
    <3>1. Len(p.entries) \in Nat /\ Len(<<>>) = 0 /\ DOMAIN <<>> = {}
      BY <1>1
    <3> QED BY <2>1, <2>4, <3>1 DEF PoolLink
  <2>6. BatchLink(b)'
    BY <2>4, <2>5 DEF BatchLink, ThreadLink, ItemLink
  <2> QED BY <1>2, <2>2, <2>3, <2>6, OneBatch
<1> QED BY <1>3, <1>4 DEF Post

LEMMA TakeEntryInv ==
    ASSUME BatchInv, NEW b \in BatchIds, TakeEntry(b)
    PROVE  BatchInv'
<1> DEFINE r == CHOOSE q \in Unused : TRUE
           k == Len(runner[b]) + 1
           e == entries[b][k]
<1>1. /\ r \in Threads /\ pc[r] = "idle" /\ Accept(r, CallOf(e))
      /\ k - 1 < Len(entries[b]) /\ batch[b] \in {"running", "raising"}
      /\ runner' = [runner EXCEPT ![b] = Append(@, r)]
      /\ UNCHANGED <<batch, entries, items, answered>>
  BY DEF TakeEntry, Unused
<1> HIDE DEF r
<1>2. BatchTypeOK /\ GateInv /\ BatchLink(b) /\ GateTypeOK
  BY DEF BatchInv, GateInv
<1>3. /\ runner[b] \in Seq(Threads) /\ entries[b] \in Seq(EntryType)
      /\ Len(runner[b]) \in Nat /\ Len(entries[b]) \in Nat /\ DOMAIN entries[b] = 1..Len(entries[b])
  BY <1>2 DEF BatchTypeOK
<1>4. k \in DOMAIN entries[b] /\ e \in EntryType
  BY <1>1, <1>3
<1>5. Fault(e) = 0
  BY <1>2, <1>4 DEF BatchLink, PoolLink
<1>6. CallOf(e) \in CallType
  BY <1>4, <1>5, Faultless DEF CallOf, CallType, Kinds
<1>7. GateInv'
  BY <1>1, <1>2, <1>6, AcceptInv
<1>8. pc' = [pc EXCEPT ![r] = "intent"] /\ reply' = reply
  BY <1>1 DEF Accept, Goto
<1>9. \A u \in Threads : Settled(u)
  BY <1>1, <1>2, <1>8 DEF Settled, GateTypeOK, Ended
<1>10. BatchTypeOK'
  BY <1>1, <1>2, <1>3 DEF BatchTypeOK
<1>11. \A d \in BatchIds \ {b} : KeptBatch(d)
  BY <1>1, <1>2 DEF BatchTypeOK, KeptBatch
<1>12. /\ Len(runner'[b]) = k /\ DOMAIN runner'[b] = 1..k /\ DOMAIN runner[b] = 1..(k-1)
       /\ runner'[b][k] = r /\ \A i \in 1..(k-1) : runner'[b][i] = runner[b][i]
  BY <1>1, <1>2, <1>3 DEF BatchTypeOK
<1>13. PoolLink(b)'
  <2>1. ASSUME NEW i \in DOMAIN runner'[b] PROVE pc'[runner'[b][i]] # "idle"
    <3>1. CASE i = k
      BY <1>1, <1>2, <1>8, <1>12, <3>1 DEF GateTypeOK
    <3>2. CASE i # k
      <4>1. i \in DOMAIN runner[b] /\ runner'[b][i] = runner[b][i] /\ runner[b][i] \in Threads
        BY <1>3, <1>12, <2>1, <3>2
      <4> QED BY <1>2, <1>9, <4>1 DEF BatchLink, PoolLink, Settled
    <3> QED BY <3>1, <3>2
  <2> QED BY <1>1, <1>2, <1>3, <1>4, <1>12, <2>1 DEF BatchLink, PoolLink
<1>14. ASSUME NEW i \in DOMAIN entries[b] PROVE ItemLink(b, i)'
  <2> SUFFICES ASSUME items[b][i] # None PROVE ItemLink(b, i)'
    BY <1>1 DEF ItemLink
  <2>1. /\ i \in DOMAIN runner[b] /\ pc[runner[b][i]] = "done"
        /\ items[b][i] = [verb |-> entries[b][i].verb, status |-> reply[runner[b][i]]]
    BY <1>2 DEF BatchLink, ItemLink
  <2>2. i \in DOMAIN runner'[b] /\ runner'[b][i] = runner[b][i] /\ runner[b][i] \in Threads
    BY <1>3, <1>12, <2>1
  <2>3. pc'[runner[b][i]] = "done"
    BY <1>9, <2>1, <2>2 DEF Settled, Ended
  <2> QED BY <1>1, <1>8, <2>1, <2>2, <2>3 DEF ItemLink
<1>15. ThreadLink(b)'
  BY <1>1, <1>2 DEF BatchLink, ThreadLink
<1>16. BatchLink(b)'
  BY <1>1, <1>13, <1>14, <1>15 DEF BatchLink
<1> QED BY <1>7, <1>9, <1>10, <1>11, <1>16, OneBatch

LEMMA CollectInv ==
    ASSUME BatchInv, NEW b \in BatchIds, NEW i \in DOMAIN entries[b], Collect(b, i)
    PROVE  BatchInv'
<1> DEFINE result == [verb |-> entries[b][i].verb, status |-> reply[runner[b][i]]]
<1>1. /\ batch[b] = "running" /\ i \in DOMAIN runner[b] /\ pc[runner[b][i]] = "done"
      /\ items' = [items EXCEPT ![b][i] = result]
      /\ UNCHANGED <<vars, batch, entries, runner, answered>>
      /\ BatchTypeOK /\ GateInv /\ BatchLink(b)
  BY DEF Collect, Place, BatchInv
<1>2. GateInv' /\ \A u \in Threads : Settled(u)
  BY <1>1, RequestsKept
<1>3. BatchTypeOK' /\ \A d \in BatchIds \ {b} : KeptBatch(d)
  BY <1>1 DEF BatchTypeOK, KeptBatch
<1>4. /\ DOMAIN items'[b] = DOMAIN items[b] /\ items'[b][i] = result
      /\ \A j \in DOMAIN items[b] \ {i} : items'[b][j] = items[b][j]
  BY <1>1 DEF BatchTypeOK, BatchLink, ThreadLink
<1>5. PoolLink(b)'
  BY <1>1 DEF BatchLink, PoolLink, vars, gateVars
<1>6. ASSUME NEW j \in DOMAIN entries[b] PROVE ItemLink(b, j)'
  BY <1>1, <1>4, <1>6 DEF BatchLink, ThreadLink, ItemLink, vars, gateVars
<1>7. ThreadLink(b)'
  BY <1>1, <1>4 DEF BatchLink, ThreadLink
<1> QED BY <1>1, <1>2, <1>3, <1>5, <1>6, <1>7, OneBatch DEF BatchLink

\* The other steps of the thread move it, and nothing else but its answer.
LEMMA MoveInv ==
    ASSUME BatchInv, NEW b \in BatchIds, (\E i \in DOMAIN entries[b] : CollectRaises(b, i)) \/ Answer(b) \/ Abandon(b)
    PROVE  BatchInv'
<1>1. /\ UNCHANGED <<vars, entries, runner, items>>
      /\ BatchTypeOK /\ GateInv /\ BatchLink(b) /\ batch[b] \in {"running", "raising"}
  BY DEF CollectRaises, Answer, Abandon, BatchInv
<1>2. GateInv' /\ \A u \in Threads : Settled(u)
  BY <1>1, RequestsKept
<1>3. \/ /\ batch' = [batch EXCEPT ![b] = "raising"] /\ answered' = answered
      \/ /\ batch' = [batch EXCEPT ![b] = "answered"] /\ answered' = [answered EXCEPT ![b] = 200]
         /\ \A i \in DOMAIN entries[b] : items[b][i] # None
      \/ /\ batch' = [batch EXCEPT ![b] = "dead"] /\ answered' = answered /\ Drained(b)
  BY DEF CollectRaises, Answer, Abandon
<1>4. BatchTypeOK' /\ \A d \in BatchIds \ {b} : KeptBatch(d)
  <2>1. PICK label \in {"raising", "answered", "dead"} : batch' = [batch EXCEPT ![b] = label]
    BY <1>3
  <2>2. PICK status \in {answered[b], 200} : answered' = [answered EXCEPT ![b] = status]
    <3>1. CASE answered' = answered
      BY <1>1, <3>1 DEF BatchTypeOK
    <3>2. CASE answered' = [answered EXCEPT ![b] = 200]
      BY <3>2
    <3> QED BY <1>3, <3>1, <3>2
  <2>3. status \in {0, 200, 400, 401, 404}
    <3>1. answered[b] \in {0, 200, 400, 401, 404}
      BY <1>1 DEF BatchTypeOK
    <3> QED BY <3>1
  <2> QED BY <1>1, <2>1, <2>2, <2>3 DEF BatchTypeOK, KeptBatch
<1>5. PoolLink(b)' /\ \A i \in DOMAIN entries[b] : ItemLink(b, i)'
  BY <1>1 DEF BatchLink, PoolLink, ItemLink, vars, gateVars
<1>6. \/ batch'[b] = "raising" /\ answered'[b] = answered[b]
      \/ /\ batch'[b] = "answered" /\ answered'[b] = 200
         /\ \A i \in DOMAIN entries[b] : items[b][i] # None
      \/ batch'[b] = "dead" /\ answered'[b] = answered[b] /\ Drained(b)
  BY <1>1, <1>3 DEF BatchTypeOK
<1>7. Drained(b)' = Drained(b)
  BY <1>1 DEF Drained, Busy, vars, gateVars
<1>8. ThreadLink(b)'
  BY <1>1, <1>6, <1>7 DEF BatchLink, ThreadLink
<1> QED BY <1>1, <1>2, <1>4, <1>5, <1>8, OneBatch DEF BatchLink

LEMMA BatchRestartInv == BatchInv /\ BatchRestart => BatchInv'
<1> SUFFICES ASSUME BatchInv, BatchRestart PROVE BatchInv'
  OBVIOUS
<1>1. /\ BatchTypeOK /\ GateInv /\ GateTypeOK /\ Restart /\ \A b \in BatchIds : BatchLink(b)
      /\ UNCHANGED <<entries, runner, items, answered>>
  BY DEF BatchInv, BatchRestart, GateInv
<1>2. GateInv'
  BY <1>1, RestartInv
<1>3. \A u \in Threads : Settled(u)
  BY <1>1 DEF Restart, Settled, GateTypeOK
<1>4. \A b \in BatchIds : batch'[b] = IF batch[b] \in {"running", "raising"} THEN "lost" ELSE batch[b]
  BY DEF BatchRestart
<1>5. BatchTypeOK'
  BY <1>1 DEF BatchTypeOK, BatchRestart
<1>6. ASSUME NEW b \in BatchIds PROVE BatchLink(b)'
  <2>1. \A i \in DOMAIN runner[b] : Settled(runner[b][i])
    BY <1>1, <1>3 DEF BatchTypeOK
  <2>2. PoolLink(b)'
    BY <1>1, <2>1 DEF BatchLink, PoolLink, Settled
  <2>3. ASSUME NEW i \in DOMAIN entries[b] PROVE ItemLink(b, i)'
    BY <1>1, <2>1, <2>3 DEF BatchLink, ItemLink, Settled, Ended
  <2>4. batch[b] = "dead" => Drained(b)'
    BY <1>1, <2>1 DEF BatchLink, ThreadLink, Drained, Busy, Settled
  <2>5. ThreadLink(b)'
    BY <1>1, <1>4, <2>4 DEF BatchLink, ThreadLink
  <2> QED BY <1>1, <2>2, <2>3, <2>5 DEF BatchLink
<1> QED BY <1>2, <1>5, <1>6 DEF BatchInv

-----------------------------------------------------------------------------
(* The theorems.                                                           *)

LEMMA BatchInitInv == BatchInit => BatchInv
<1> SUFFICES ASSUME BatchInit PROVE BatchInv
  OBVIOUS
<1>1. GateInv
  BY GateInitInv DEF BatchInit
<1>2. BatchTypeOK
  BY DEF BatchInit, BatchTypeOK
<1>3. ASSUME NEW b \in BatchIds PROVE BatchLink(b)
  BY DEF BatchInit, BatchLink, PoolLink, ItemLink, ThreadLink
<1> QED BY <1>1, <1>2, <1>3 DEF BatchInv

LEMMA BatchNextInv == BatchInv /\ [BatchNext]_allVars => BatchInv'
<1> SUFFICES ASSUME BatchInv, [BatchNext]_allVars PROVE BatchInv'
  OBVIOUS
<1>1. ASSUME UNCHANGED batchVars, GateInv', \A u \in Threads : Settled(u)
      PROVE  BatchInv'
  <2>1. \A b \in BatchIds : KeptBatch(b)
    BY <1>1 DEF batchVars, KeptBatch
  <2>2. BatchTypeOK'
    BY <1>1 DEF BatchInv, BatchTypeOK, batchVars
  <2> QED BY <1>1, <2>1, <2>2, BatchFrame DEF BatchInv
<1>2. CASE RequestStep /\ UNCHANGED batchVars
  BY <1>1, <1>2, RequestStepGate DEF BatchInv
<1>3. CASE UNCHANGED allVars
  BY <1>1, <1>3, RequestsKept DEF BatchInv, allVars
<1>4. ASSUME NEW b \in BatchIds, Serve(b) PROVE BatchInv'
  BY <1>4, TakeEntryInv, CollectInv, MoveInv DEF Serve
<1>5. ASSUME NEW b \in BatchIds, NEW p \in Bodies, Post(b, p) PROVE BatchInv'
  BY <1>5, BatchAssumption, PostInv
<1> QED BY <1>2, <1>3, <1>4, <1>5, BatchRestartInv DEF BatchNext

\* The inductive invariant of a batch.
THEOREM BatchInvariant == BatchSpec => []BatchInv
BY BatchInitInv, BatchNextInv, PTL DEF BatchSpec

\* An answer has an item for each entry, in its place, from its own call.
THEOREM BatchItems == BatchSpec => []ItemsMatchEntries
<1>1. ASSUME BatchInv, NEW b \in BatchIds, answered[b] = 200, NEW i \in DOMAIN entries[b]
      PROVE  items[b][i].verb = entries[b][i].verb /\ items[b][i].status = reply[runner[b][i]]
  <2>1. BatchLink(b) /\ ItemLink(b, i)
    BY <1>1 DEF BatchInv, BatchLink
  <2>2. items[b][i] # None
    BY <1>1, <2>1 DEF BatchLink, ThreadLink
  <2> QED BY <2>1, <2>2 DEF ItemLink
<1>2. BatchInv => ItemsMatchEntries
  BY <1>1 DEF ItemsMatchEntries
<1> QED BY <1>2, BatchInvariant, PTL

\* No line is written for a batch with an entry that should be turned down.
THEOREM BatchChecked == BatchSpec => []CheckedBeforeFirstLine
<1>1. ASSUME BatchInv, NEW b \in BatchIds, NEW j \in DOMAIN entries[b]
      PROVE  /\ entries[b][j].verb \in Verbs /\ Tier[entries[b][j].verb] = "A"
             /\ Direction[entries[b][j].verb] = "perceive" /\ entries[b][j].args = "accepted"
  BY <1>1, Faultless DEF BatchInv, BatchTypeOK, BatchLink, PoolLink
<1>2. BatchInv => CheckedBeforeFirstLine
  BY <1>1 DEF CheckedBeforeFirstLine
<1> QED BY <1>2, BatchInvariant, PTL

\* An answered or closed batch has nothing left that runs.
THEOREM BatchOver == BatchSpec => []NothingRunsOn
<1>1. ASSUME BatchInv, NEW b \in BatchIds, answered[b] = 200 \/ batch[b] = "dead"
      PROVE  /\ Len(runner[b]) = Len(entries[b])
             /\ \A i \in DOMAIN runner[b] : pc[runner[b][i]] \in Ended
  <2>1. BatchTypeOK /\ BatchLink(b)
    BY <1>1 DEF BatchInv
  <2>2. /\ Len(runner[b]) \in Nat /\ Len(entries[b]) \in Nat /\ Len(runner[b]) <= Len(entries[b])
        /\ DOMAIN runner[b] = 1..Len(runner[b]) /\ DOMAIN entries[b] = 1..Len(entries[b])
    BY <2>1 DEF BatchTypeOK, BatchLink, PoolLink
  <2>3. CASE answered[b] = 200
    <3>1. \A i \in 1..Len(entries[b]) : i \in 1..Len(runner[b]) /\ pc[runner[b][i]] = "done"
      <4>1. \A i \in DOMAIN entries[b] : ItemLink(b, i) /\ items[b][i] # None
        BY <2>1, <2>3 DEF BatchLink, ThreadLink
      <4> QED BY <2>2, <4>1 DEF ItemLink
    <3>2. Len(runner[b]) = Len(entries[b])
      BY <2>2, <3>1
    <3> QED BY <2>2, <3>1, <3>2 DEF Ended
  <2>4. CASE batch[b] = "dead"
    BY <2>1, <2>4 DEF BatchLink, ThreadLink, Drained, Busy
  <2> QED BY <1>1, <2>3, <2>4
<1>2. BatchInv => NothingRunsOn
  BY <1>1 DEF NothingRunsOn
<1> QED BY <1>2, BatchInvariant, PTL

\* The gate holds for the entries of a batch as for single requests, although
\* they come past do_POST: own approval, trails, replies and admissions.
THEOREM BatchKeepsGate ==
    BatchSpec => [](OwnApproval /\ TrailIsLifecycle /\ ReplyMatchesTrail /\ AdmittedWhileClosed)
<1>1. BatchInv => OwnApproval /\ TrailIsLifecycle /\ ReplyMatchesTrail /\ AdmittedWhileClosed
  BY DEF BatchInv, GateInv, Links, TrailLink, ReplyLink, StoreLink,
         OwnApproval, TrailIsLifecycle, ReplyMatchesTrail, AdmittedWhileClosed
<1> QED BY <1>1, BatchInvariant, PTL

=============================================================================
