--------------------------- MODULE VerbStoreProofs ---------------------------
(***************************************************************************)
(* Proofs about VerbStore for every set of verbs and threads, every limit, *)
(* window and cooldown: its type invariant, that a breaker opens only      *)
(* after failure_limit failures, and that with quick calls it opens        *)
(* exactly when it should.  The lemmas are stated for one action at a      *)
(* time, so that Gate, which interleaves the actions of the store with its *)
(* own, can use them as well.                                              *)
(***************************************************************************)
EXTENDS VerbStore, FiniteSetTheorems, SequenceTheorems, TLAPS

\* What a thread knows at the step it is at: on its way to a trip it has counted
\* failure_limit rows, on its way to a refusal it has seen a circuit_open row.
\* Rows are never removed, so it stays true until the thread writes its row.
KnowsCause ==
    \A t \in Threads :
        /\ op[t].step \in {"check", "trip"} => Len(failures[op[t].verb]) >= FailureLimit
        /\ op[t].step = "refuse" => opens[op[t].verb] # <<>>

StoreInv == StoreTypeOK /\ KnowsCause /\ TripNeedsFailures

\* A window never counts more rows than there are.
LEMMA FailureCountBounded ==
    ASSUME StoreTypeOK, NEW v \in Verbs, NEW t \in Int
    PROVE  FailureCount(v, t) \in Nat /\ FailureCount(v, t) <= Len(failures[v])
<1> DEFINE n == Len(failures[v])
           S == {i \in 1..n : failures[v][i] >= t - WindowS}
<1>1. n \in Nat
  BY DEF StoreTypeOK
<1>2. IsFiniteSet(1..n) /\ Cardinality(1..n) = n
  BY <1>1, FS_Interval
<1>3. S \in SUBSET (1..n)
  OBVIOUS
<1>4. IsFiniteSet(S) /\ Cardinality(S) <= n
  <2> HIDE DEF S
  <2> QED BY <1>2, <1>3, FS_Subset
<1>5. Cardinality(S) \in Nat
  BY <1>4, FS_CardinalityType
<1> QED BY <1>4, <1>5 DEF FailureCount

\* The store starts in the invariant.
LEMMA StoreInitInv == StoreInit => StoreInv
BY StoreAssumption DEF StoreInit, StoreInv, StoreTypeOK, KnowsCause, TripNeedsFailures,
   Done, Ops, Steps, Results, NotPassed, Admissions

-----------------------------------------------------------------------------
(* Each action keeps the invariant.                                        *)

\* Thread t moves to another step of its call: the only change of op, and the
\* new record is again one of Ops.
LEMMA NextStep ==
    ASSUME StoreTypeOK, NEW t \in Threads, NEW step \in Steps, NEW row \in Nat,
           op[t].step # "idle",
           op' = [op EXCEPT ![t] = [op[t] EXCEPT !.step = step, !.at = now, !.row = row]]
    PROVE  /\ op' \in [Threads -> Ops]
           /\ \A u \in Threads : op'[u].step # "idle" => op'[u].verb \in Verbs
           /\ op'[t].step = step /\ op'[t].verb = op[t].verb
           /\ \A u \in Threads \ {t} : op'[u] = op[u]
<1> DEFINE x == [op[t] EXCEPT !.step = step, !.at = now, !.row = row]
<1>1. op[t] \in Ops /\ now \in Nat /\ op[t].verb \in Verbs
  BY DEF StoreTypeOK
<1>2. x \in Ops /\ x.step = step /\ x.verb = op[t].verb
  BY <1>1 DEF Ops
<1> HIDE DEF x
<1>3. op' = [op EXCEPT ![t] = x] /\ op \in [Threads -> Ops]
  BY DEF x, StoreTypeOK
<1>4. op'[t] = x /\ \A u \in Threads \ {t} : op'[u] = op[u]
  BY <1>3
<1> QED BY <1>1, <1>2, <1>3, <1>4 DEF StoreTypeOK

\* Thread t returns from its call.
LEMMA Returns ==
    ASSUME StoreTypeOK, NEW t \in Threads, NEW result \in Results,
           op' = [op EXCEPT ![t] = Done(result)]
    PROVE  /\ op' \in [Threads -> Ops]
           /\ \A u \in Threads : op'[u].step # "idle" => op'[u].verb \in Verbs
           /\ op'[t].step = "idle"
           /\ \A u \in Threads \ {t} : op'[u] = op[u]
<1>1. Done(result) \in Ops /\ Done(result).step = "idle"
  BY DEF Done, Ops, Steps
<1>2. op'[t] = Done(result) /\ \A u \in Threads \ {t} : op'[u] = op[u]
  BY DEF StoreTypeOK
<1> QED BY <1>1, <1>2 DEF StoreTypeOK

LEMMA BeginRecordInv ==
    ASSUME StoreInv, NEW t \in Threads, NEW v \in Verbs, NEW stage \in Stages,
           BeginRecord(t, v, stage)
    PROVE  StoreInv'
BY DEF StoreInv, StoreTypeOK, KnowsCause, TripNeedsFailures, BeginRecord, Ops, Steps,
   Results, FailureStages, rows

LEMMA BeginGuardInv ==
    ASSUME StoreInv, NEW t \in Threads, NEW v \in Verbs, BeginGuard(t, v)
    PROVE  StoreInv'
BY DEF StoreInv, StoreTypeOK, KnowsCause, TripNeedsFailures, BeginGuard, Ops, Steps,
   Results, rows, NotPassed, Admissions

LEMMA AppendRowInv ==
    ASSUME StoreInv, NEW t \in Threads, AppendRow(t)
    PROVE  StoreInv'
<1> DEFINE v == op[t].verb
           n == Len(failures[v]) + 1
<1>1. StoreTypeOK /\ v \in Verbs /\ op[t] \in Ops /\ op[t].step # "idle"
  BY DEF AppendRow, StoreInv, StoreTypeOK
<1>2. UNCHANGED <<now, opens, seen, settled, faults>>
  BY DEF AppendRow
<1>3. CASE op' = [op EXCEPT ![t] = Done("recorded")] /\ UNCHANGED failures
  <2>1. "recorded" \in Results
    BY DEF Results
  <2> QED BY <1>1, <1>2, <1>3, <2>1, Returns
      DEF StoreInv, StoreTypeOK, KnowsCause, TripNeedsFailures
<1>4. ASSUME NEW ts \in op[t].at .. now,
             failures' = [failures EXCEPT ![v] = Append(@, ts)],
             op' = [op EXCEPT ![t].step = "count", ![t].at = now, ![t].row = n]
      PROVE  StoreInv'
  <2>1. ts \in Nat /\ n \in Nat /\ failures \in [Verbs -> Seq(Nat)]
    BY <1>1 DEF Ops, StoreTypeOK
  <2>2. /\ failures' \in [Verbs -> Seq(Nat)]
        /\ \A u \in Verbs : Len(failures'[u]) >= Len(failures[u])
    BY <1>1, <1>4, <2>1
  <2>3. op' = [op EXCEPT ![t] = [op[t] EXCEPT !.step = "count", !.at = now, !.row = n]]
    BY <1>1, <1>4 DEF StoreTypeOK, Ops
  <2>4. /\ op' \in [Threads -> Ops]
        /\ \A u \in Threads : op'[u].step # "idle" => op'[u].verb \in Verbs
        /\ op'[t].step = "count" /\ op'[t].verb = v
        /\ \A u \in Threads \ {t} : op'[u] = op[u]
    <3>1. "count" \in Steps
      BY DEF Steps
    <3> QED BY <1>1, <2>1, <2>3, <3>1, NextStep
  <2>5. StoreTypeOK'
    BY <1>1, <1>2, <2>2, <2>4 DEF StoreTypeOK
  <2>6. KnowsCause'
    <3> SUFFICES ASSUME NEW u \in Threads
                 PROVE  /\ op'[u].step \in {"check", "trip"} =>
                             Len(failures'[op'[u].verb]) >= FailureLimit
                        /\ op'[u].step = "refuse" => opens'[op'[u].verb] # <<>>
      BY DEF KnowsCause
    <3>1. CASE u = t
      BY <2>4, <3>1
    <3>2. CASE u # t
      <4>1. op'[u] = op[u] /\ (op[u].step # "idle" => op[u].verb \in Verbs)
        BY <1>1, <2>4, <3>2 DEF StoreTypeOK
      <4>2. \A w \in Verbs : Len(failures[w]) \in Nat /\ Len(failures'[w]) \in Nat
        BY <2>1, <2>2
      <4> QED BY <1>2, <2>2, <4>1, <4>2, StoreAssumption DEF StoreInv, KnowsCause
    <3> QED BY <3>1, <3>2
  <2>7. TripNeedsFailures'
    <3>1. \A w \in Verbs : Len(failures[w]) \in Nat /\ Len(failures'[w]) \in Nat
      BY <2>1, <2>2
    <3> QED BY <1>2, <2>2, <3>1, StoreAssumption DEF StoreInv, TripNeedsFailures
  <2> QED BY <2>5, <2>6, <2>7 DEF StoreInv
<1> QED BY <1>3, <1>4 DEF AppendRow

\* A call that wrote a failure row returns.
LEMMA RecordedInv ==
    ASSUME StoreInv, NEW t \in Threads, op[t].step # "idle", Recorded(t),
           UNCHANGED <<now, failures, opens, seen, faults>>
    PROVE  StoreInv'
<1>1. StoreTypeOK /\ op[t].verb \in Verbs /\ op[t].row \in Nat
  BY DEF StoreInv, StoreTypeOK, Ops
<1>2. "recorded" \in Results /\ op' = [op EXCEPT ![t] = Done("recorded")]
  BY DEF Results, Recorded
<1>3. settled' \in [Verbs -> SUBSET Nat]
  BY <1>1 DEF Recorded, StoreTypeOK
<1> QED BY <1>1, <1>2, <1>3, Returns DEF StoreInv, StoreTypeOK, KnowsCause, TripNeedsFailures

\* A call goes on to its next step and no row is written; what the thread has
\* to know there is the third assumption.
LEMMA GoesOnInv ==
    ASSUME StoreInv, NEW t \in Threads, op[t].step # "idle", NEW step \in Steps,
           op' = [op EXCEPT ![t].step = step, ![t].at = now],
           step \in {"check", "trip"} => Len(failures[op[t].verb]) >= FailureLimit,
           step = "refuse" => opens[op[t].verb] # <<>>,
           UNCHANGED <<now, failures, opens, settled, faults>>,
           seen' \in [Threads -> Admissions]
    PROVE  StoreInv'
<1>1. StoreTypeOK /\ op[t] \in Ops /\ op[t].row \in Nat
  BY DEF StoreInv, StoreTypeOK, Ops
<1>2. op' = [op EXCEPT ![t] = [op[t] EXCEPT !.step = step, !.at = now, !.row = op[t].row]]
  BY <1>1 DEF StoreTypeOK, Ops
<1>3. /\ op' \in [Threads -> Ops]
      /\ \A u \in Threads : op'[u].step # "idle" => op'[u].verb \in Verbs
      /\ op'[t].step = step /\ op'[t].verb = op[t].verb
      /\ \A u \in Threads \ {t} : op'[u] = op[u]
  BY <1>1, <1>2, NextStep
<1> QED BY <1>1, <1>3 DEF StoreInv, StoreTypeOK, KnowsCause, TripNeedsFailures

LEMMA CountFailuresInv ==
    ASSUME StoreInv, NEW t \in Threads, CountFailures(t)
    PROVE  StoreInv'
<1> DEFINE v == op[t].verb
<1>1. StoreTypeOK /\ v \in Verbs /\ op[t] \in Ops /\ op[t].step = "count"
  BY DEF CountFailures, LimitReached, StoreInv, StoreTypeOK
<1>2. PICK ts \in op[t].at .. now :
        \/ /\ FailureCount(v, ts) >= FailureLimit
           /\ op' = [op EXCEPT ![t].step = "check", ![t].at = now]
           /\ UNCHANGED settled
        \/ Recorded(t)
  BY DEF CountFailures, LimitReached
<1>3. UNCHANGED <<now, failures, opens, seen, faults>>
  BY DEF CountFailures, LimitReached, rows
<1>4. CASE /\ FailureCount(v, ts) >= FailureLimit
           /\ op' = [op EXCEPT ![t].step = "check", ![t].at = now]
           /\ UNCHANGED settled
  <2>1. FailureCount(v, ts) \in Nat /\ FailureCount(v, ts) <= Len(failures[v])
    BY <1>1, FailureCountBounded
  <2>2. Len(failures[v]) >= FailureLimit
    BY <1>1, <1>4, <2>1, StoreAssumption DEF StoreTypeOK
  <2>3. "check" \in Steps /\ seen' \in [Threads -> Admissions]
    BY <1>1, <1>3 DEF Steps, StoreTypeOK
  <2> QED BY <1>1, <1>3, <1>4, <2>2, <2>3, GoesOnInv
<1>5. CASE Recorded(t)
  BY <1>1, <1>3, <1>5, RecordedInv
<1> QED BY <1>2, <1>4, <1>5

LEMMA CheckOpenInv ==
    ASSUME StoreInv, NEW t \in Threads, CheckOpen(t)
    PROVE  StoreInv'
<1>1. op[t].step = "check" /\ Len(failures[op[t].verb]) >= FailureLimit
  BY DEF CheckOpen, StoreInv, KnowsCause
<1>2. "trip" \in Steps
  BY DEF Steps
<1>3. UNCHANGED <<now, failures, opens, seen, faults>>
  BY DEF CheckOpen, rows
<1>4. \/ op' = [op EXCEPT ![t].step = "trip", ![t].at = now] /\ UNCHANGED settled
      \/ Recorded(t)
  BY DEF CheckOpen
<1>5. seen' \in [Threads -> Admissions]
  BY <1>3 DEF StoreInv, StoreTypeOK
<1> QED BY <1>1, <1>2, <1>3, <1>4, <1>5, GoesOnInv, RecordedInv

\* A call writes a circuit_open row for a verb that has its failures, and ends.
LEMMA OpenRowInv ==
    ASSUME StoreInv, NEW t \in Threads, op[t].step # "idle",
           Len(failures[op[t].verb]) >= FailureLimit,
           NEW ts \in op[t].at .. now, NEW result \in Results,
           opens' = [opens EXCEPT ![op[t].verb] = Append(@, ts)],
           op' = [op EXCEPT ![t] = Done(result)],
           settled' \in [Verbs -> SUBSET Nat],
           UNCHANGED <<now, failures, seen, faults>>
    PROVE  StoreInv'
<1> DEFINE v == op[t].verb
<1>1. StoreTypeOK /\ v \in Verbs /\ ts \in Nat
  BY DEF StoreInv, StoreTypeOK, Ops
<1>2. /\ opens' \in [Verbs -> Seq(Nat)]
      /\ opens'[v] # <<>>
      /\ \A w \in Verbs \ {v} : opens'[w] = opens[w]
  <2>1. opens \in [Verbs -> Seq(Nat)] /\ opens[v] \in Seq(Nat)
    BY <1>1 DEF StoreTypeOK
  <2>2. opens'[v] = Append(opens[v], ts) /\ \A w \in Verbs \ {v} : opens'[w] = opens[w]
    BY <1>1, <2>1
  <2>3. Append(opens[v], ts) \in Seq(Nat) /\ Append(opens[v], ts) # <<>>
    <3>1. \A q \in Seq(Nat), x \in Nat : Append(q, x) \in Seq(Nat) /\ Append(q, x) # <<>>
      BY AppendProperties
    <3>2. opens[v] \in Seq(Nat) /\ ts \in Nat
      BY <1>1, <2>1
    <3> HIDE DEF v
    <3> QED BY <3>1, <3>2
  <2> QED BY <1>1, <2>1, <2>2, <2>3
<1>3. /\ op' \in [Threads -> Ops]
      /\ \A u \in Threads : op'[u].step # "idle" => op'[u].verb \in Verbs
      /\ op'[t].step = "idle"
      /\ \A u \in Threads \ {t} : op'[u] = op[u]
  BY <1>1, Returns
<1>4. StoreTypeOK'
  BY <1>1, <1>2, <1>3 DEF StoreTypeOK
<1>5. KnowsCause'
  <2> SUFFICES ASSUME NEW u \in Threads
               PROVE  /\ op'[u].step \in {"check", "trip"} =>
                           Len(failures'[op'[u].verb]) >= FailureLimit
                      /\ op'[u].step = "refuse" => opens'[op'[u].verb] # <<>>
    BY DEF KnowsCause
  <2>1. CASE u = t
    BY <1>3, <2>1
  <2>2. CASE u # t
    <3>1. op'[u] = op[u] /\ (op[u].step # "idle" => op[u].verb \in Verbs)
      BY <1>1, <1>3, <2>2 DEF StoreTypeOK
    <3> QED BY <1>2, <3>1 DEF StoreInv, KnowsCause
  <2> QED BY <2>1, <2>2
<1>6. TripNeedsFailures'
  BY <1>1, <1>2 DEF StoreInv, TripNeedsFailures
<1> QED BY <1>4, <1>5, <1>6 DEF StoreInv

LEMMA TripInv ==
    ASSUME StoreInv, NEW t \in Threads, Trip(t)
    PROVE  StoreInv'
<1>1. op[t].step = "trip" /\ Len(failures[op[t].verb]) >= FailureLimit
  BY DEF Trip, StoreInv, KnowsCause
<1>2. "recorded" \in Results /\ op' = [op EXCEPT ![t] = Done("recorded")]
  BY DEF Trip, Recorded, Results
<1>3. settled' \in [Verbs -> SUBSET Nat]
  BY <1>1 DEF Trip, Recorded, StoreInv, StoreTypeOK, Ops
<1>4. PICK ts \in op[t].at .. now : opens' = [opens EXCEPT ![op[t].verb] = Append(@, ts)]
  BY DEF Trip
<1>5. UNCHANGED <<now, failures, seen, faults>>
  BY DEF Trip
<1> QED BY <1>1, <1>2, <1>3, <1>4, <1>5, OpenRowInv

LEMMA RefuseInv ==
    ASSUME StoreInv, NEW t \in Threads, Refuse(t)
    PROVE  StoreInv'
<1>1. op[t].step = "refuse" /\ op[t].verb \in Verbs /\ opens[op[t].verb] # <<>>
  BY DEF Refuse, StoreInv, StoreTypeOK, KnowsCause
<1>2. Len(failures[op[t].verb]) >= FailureLimit
  BY <1>1 DEF StoreInv, TripNeedsFailures
<1>3. "CircuitOpen" \in Results /\ op' = [op EXCEPT ![t] = Done("CircuitOpen")]
  BY DEF Refuse, Results
<1>4. settled' \in [Verbs -> SUBSET Nat] /\ UNCHANGED <<now, failures, seen, faults>>
  BY DEF Refuse, StoreInv, StoreTypeOK
<1>5. PICK ts \in op[t].at .. now : opens' = [opens EXCEPT ![op[t].verb] = Append(@, ts)]
  BY DEF Refuse
<1> QED BY <1>1, <1>2, <1>3, <1>4, <1>5, OpenRowInv

LEMMA GuardInv ==
    ASSUME StoreInv, NEW t \in Threads, Guard(t)
    PROVE  StoreInv'
<1> DEFINE v == op[t].verb
<1>1. StoreTypeOK /\ op[t].step = "guard" /\ v \in Verbs /\ op[t] \in Ops
  BY DEF Guard, StoreInv, StoreTypeOK
<1>2. UNCHANGED <<now, failures, opens, settled, faults>>
  BY DEF Guard, rows
<1>3. PICK ts \in op[t].at .. now :
        \/ /\ IsOpen(v, ts)
           /\ op' = [op EXCEPT ![t].step = "refuse", ![t].at = now]
           /\ UNCHANGED seen
        \/ /\ op' = [op EXCEPT ![t] = Done("closed")]
           /\ seen' = [seen EXCEPT ![t] = [verb |-> v, rows |-> Len(opens[v]), at |-> ts]]
  BY DEF Guard
<1>4. seen' \in [Threads -> Admissions]
  <2>1. ts \in Nat /\ Len(opens[v]) \in Nat
    BY <1>1, <1>3 DEF Ops, StoreTypeOK
  <2>2. [verb |-> v, rows |-> Len(opens[v]), at |-> ts] \in Admissions
    BY <1>1, <2>1 DEF Admissions
  <2> QED BY <1>1, <1>3, <2>2 DEF StoreTypeOK
<1>5. CASE IsOpen(v, ts) /\ op' = [op EXCEPT ![t].step = "refuse", ![t].at = now]
  <2>1. opens[v] # <<>> /\ "refuse" \in Steps
    BY <1>5 DEF IsOpen, Steps
  <2> QED BY <1>1, <1>2, <1>4, <1>5, <2>1, GoesOnInv
<1>6. CASE op' = [op EXCEPT ![t] = Done("closed")]
  <2>1. "closed" \in Results
    BY DEF Results
  <2> QED BY <1>1, <1>2, <1>4, <1>6, <2>1, Returns
      DEF StoreInv, StoreTypeOK, KnowsCause, TripNeedsFailures
<1> QED BY <1>3, <1>5, <1>6

LEMMA DbErrorInv ==
    ASSUME StoreInv, NEW t \in Threads, DbError(t)
    PROVE  StoreInv'
<1>1. "error" \in Results /\ op' = [op EXCEPT ![t] = Done("error")]
  BY DEF DbError, Results
<1>2. StoreTypeOK /\ UNCHANGED <<now, failures, opens, seen, settled>> /\ faults' \in Nat
  BY DEF DbError, rows, StoreInv, StoreTypeOK
<1> QED BY <1>1, <1>2, Returns DEF StoreInv, StoreTypeOK, KnowsCause, TripNeedsFailures

LEMMA StoreRestartInv == StoreInv /\ StoreRestart => StoreInv'
BY DEF StoreInv, StoreRestart, StoreTypeOK, KnowsCause, TripNeedsFailures, Done, Ops,
   Steps, Results, rows

LEMMA TickInv == StoreInv /\ Tick => StoreInv'
BY DEF StoreInv, Tick, StoreTypeOK, KnowsCause, TripNeedsFailures, rows

LEMMA StoreStutterInv == StoreInv /\ UNCHANGED storeVars => StoreInv'
BY DEF StoreInv, storeVars, StoreTypeOK, KnowsCause, TripNeedsFailures

LEMMA StoreStepInv ==
    ASSUME StoreInv, NEW t \in Threads, StoreStep(t)
    PROVE  StoreInv'
BY AppendRowInv, CountFailuresInv, CheckOpenInv, TripInv, GuardInv, RefuseInv DEF StoreStep

LEMMA StoreNextInv ==
    ASSUME StoreInv, [StoreNext]_storeVars
    PROVE  StoreInv'
<1>1. ASSUME NEW t \in Threads, StoreStep(t) PROVE StoreInv'
  BY <1>1, StoreStepInv
<1>2. ASSUME NEW t \in Threads, DbError(t) PROVE StoreInv'
  BY <1>2, DbErrorInv
<1>3. ASSUME NEW t \in Threads, NEW v \in Verbs, BeginGuard(t, v) PROVE StoreInv'
  BY <1>3, BeginGuardInv
<1>4. ASSUME NEW t \in Threads, NEW v \in Verbs, NEW stage \in Stages,
             BeginRecord(t, v, stage)
      PROVE  StoreInv'
  BY <1>4, BeginRecordInv
<1> QED BY <1>1, <1>2, <1>3, <1>4, StoreRestartInv, TickInv, StoreStutterInv DEF StoreNext

-----------------------------------------------------------------------------
\* The inductive invariant of the store by itself.
THEOREM StoreInvariant == StoreSpec => []StoreInv
<1>1. StoreInit => StoreInv
  BY StoreInitInv
<1>2. StoreInv /\ [StoreNext]_storeVars => StoreInv'
  BY StoreNextInv
<1> QED BY <1>1, <1>2, PTL DEF StoreSpec

\* The type invariant of the store.
THEOREM StoreTypes == StoreSpec => []StoreTypeOK
BY StoreInvariant, PTL DEF StoreInv

\* A breaker opens only after failure_limit timeout/failed rows of its verb,
\* with any number of threads, any clock, any limits, errors and restarts.
THEOREM TripsNeedFailures == StoreSpec => []TripNeedsFailures
BY StoreInvariant, PTL DEF StoreInv

-----------------------------------------------------------------------------
(* Quick calls: no time passes while a call is in progress.                *)

\* The rows that count against a trip, or a failure, at ts.
InWindow(f, ts) == {i \in 1..Len(f) : f[i] \in (ts - WindowS) .. ts}

\* What a thread knows of this very instant.  It wrote its row now; the window was
\* full when it counted; a refusal has seen a row that is cooling down.
KnowsNow(t) ==
    /\ op[t].step # "idle" => op[t].at = now
    /\ op[t].step \in {"check", "trip"} =>
          Cardinality(InWindow(failures[op[t].verb], now)) >= FailureLimit
    /\ op[t].step \in {"count", "check", "trip"} =>
          op[t].row \in 1..Len(failures[op[t].verb]) /\ failures[op[t].verb][op[t].row] = now
    /\ op[t].step = "refuse" =>
          \E k \in 1..Len(opens[op[t].verb]) : now - opens[op[t].verb][k] < CooldownS

RowsArePast(v) ==
    /\ \A i \in 1..Len(failures[v]) : failures[v][i] <= now
    /\ \A k \in 1..Len(opens[v]) : opens[v][k] <= now
    /\ \A i \in settled[v] : i \in 1..Len(failures[v])

QuickInv ==
    /\ StoreInv
    /\ \A t \in Threads : KnowsNow(t)
    /\ \A v \in Verbs : RowsArePast(v)
    /\ EveryTripJustified

\* A sequence with at most one new element.
LEMMA AtMostOneMore ==
    ASSUME NEW s \in Seq(Nat), NEW x \in Nat, NEW r, r = s \/ r = Append(s, x)
    PROVE  /\ r \in Seq(Nat) /\ Len(s) \in Nat /\ Len(r) \in Nat /\ Len(s) <= Len(r)
           /\ \A i \in 1..Len(s) : i \in 1..Len(r) /\ r[i] = s[i]
           /\ \A i \in 1..Len(r) : i \in 1..Len(s) \/ (r # s /\ r[i] = x)
<1>1. CASE r = s
  BY <1>1
<1>2. CASE r = Append(s, x)
  BY <1>2
<1> QED BY <1>1, <1>2

\* A window does not lose what it counts.
LEMMA WindowGrows ==
    ASSUME NEW f \in Seq(Nat), NEW g \in Seq(Nat), Len(f) <= Len(g),
           \A i \in 1..Len(f) : g[i] = f[i], NEW ts \in Nat
    PROVE  /\ Cardinality(InWindow(f, ts)) \in Nat /\ Cardinality(InWindow(g, ts)) \in Nat
           /\ Cardinality(InWindow(f, ts)) <= Cardinality(InWindow(g, ts))
<1>1. Len(f) \in Nat /\ Len(g) \in Nat
  OBVIOUS
<1>2. IsFiniteSet(1..Len(g))
  BY <1>1, FS_Interval
<1>3. InWindow(g, ts) \in SUBSET (1..Len(g)) /\ InWindow(f, ts) \in SUBSET InWindow(g, ts)
  BY <1>1 DEF InWindow
<1>4. IsFiniteSet(InWindow(g, ts))
  BY <1>2, <1>3, FS_Subset
<1>5. IsFiniteSet(InWindow(f, ts)) /\ Cardinality(InWindow(f, ts)) <= Cardinality(InWindow(g, ts))
  BY <1>3, <1>4, FS_Subset
<1> QED BY <1>4, <1>5, FS_CardinalityType

\* A trip or a refusal at this instant has its cause.
Justified(v) ==
    \/ \E j \in 1..Len(opens[v]) : now - opens[v][j] < CooldownS
    \/ Cardinality(InWindow(failures[v], now)) >= FailureLimit

\* A call that returns leaves its row with what it calls for.
Settles(v, i) ==
    /\ i \in 1..Len(failures[v]) /\ failures[v][i] = now
    /\ CooldownS # 0 =>
          \/ Cardinality(InWindow(failures[v], now)) < FailureLimit
          \/ \E k \in 1..Len(opens'[v]) : opens'[v][k] \in (now - CooldownS + 1) .. now

\* A step of thread t, of whatever call.
QuickStep(t) ==
    /\ now' = now
    /\ \A u \in Threads \ {t} : op'[u] = op[u]
    /\ \A v \in Verbs :
          /\ failures'[v] \in {failures[v], Append(failures[v], now)}
          /\ opens'[v] \in {opens[v], Append(opens[v], now)}
          /\ opens'[v] # opens[v] => Justified(v)
          /\ \A i \in settled'[v] : i \in settled[v] \/ Settles(v, i)

LEMMA QuickStepInv ==
    ASSUME QuickInv, StoreInv', NEW t \in Threads, QuickStep(t), KnowsNow(t)'
    PROVE  QuickInv'
<1>1. /\ StoreTypeOK /\ StoreTypeOK' /\ now \in Nat /\ now' = now
      /\ \A v \in Verbs : failures[v] \in Seq(Nat) /\ opens[v] \in Seq(Nat)
  BY DEF QuickInv, StoreInv, StoreTypeOK, QuickStep
<1>2. ASSUME NEW v \in Verbs
      PROVE  /\ failures'[v] \in Seq(Nat) /\ Len(failures[v]) <= Len(failures'[v])
             /\ \A i \in 1..Len(failures[v]) :
                   i \in 1..Len(failures'[v]) /\ failures'[v][i] = failures[v][i]
             /\ \A i \in 1..Len(failures'[v]) : i \in 1..Len(failures[v]) \/ failures'[v][i] = now
  <2> DEFINE s == failures[v]
             r == failures'[v]
  <2>1. s \in Seq(Nat) /\ (r = s \/ r = Append(s, now)) /\ now \in Nat
    BY <1>1 DEF QuickStep
  <2> HIDE DEF s, r
  <2>2. /\ r \in Seq(Nat) /\ Len(s) <= Len(r)
        /\ \A i \in 1..Len(s) : i \in 1..Len(r) /\ r[i] = s[i]
        /\ \A i \in 1..Len(r) : i \in 1..Len(s) \/ (r # s /\ r[i] = now)
    BY <2>1, AtMostOneMore, Zenon
  <2> QED BY <2>2 DEF s, r
<1>3. ASSUME NEW v \in Verbs
      PROVE  /\ opens'[v] \in Seq(Nat) /\ Len(opens[v]) <= Len(opens'[v])
             /\ \A k \in 1..Len(opens[v]) :
                   k \in 1..Len(opens'[v]) /\ opens'[v][k] = opens[v][k]
             /\ \A k \in 1..Len(opens'[v]) : k \in 1..Len(opens[v])
                                             \/ (opens'[v] # opens[v] /\ opens'[v][k] = now)
  <2> DEFINE s == opens[v]
             r == opens'[v]
  <2>1. s \in Seq(Nat) /\ (r = s \/ r = Append(s, now)) /\ now \in Nat
    BY <1>1 DEF QuickStep
  <2> HIDE DEF s, r
  <2>2. /\ r \in Seq(Nat) /\ Len(s) <= Len(r)
        /\ \A i \in 1..Len(s) : i \in 1..Len(r) /\ r[i] = s[i]
        /\ \A i \in 1..Len(r) : i \in 1..Len(s) \/ (r # s /\ r[i] = now)
    BY <2>1, AtMostOneMore, Zenon
  <2> QED BY <2>2 DEF s, r
<1>4. ASSUME NEW v \in Verbs, NEW ts \in Nat, Cardinality(InWindow(failures[v], ts)) >= FailureLimit
      PROVE  Cardinality(InWindow(failures'[v], ts)) >= FailureLimit
  <2> DEFINE a == Cardinality(InWindow(failures[v], ts))
             b == Cardinality(InWindow(failures'[v], ts))
  <2>1. a \in Nat /\ b \in Nat /\ a <= b
    BY <1>1, <1>2, WindowGrows
  <2> HIDE DEF b
  <2> QED BY <1>4, <2>1, StoreAssumption DEF b
<1>5. ASSUME NEW u \in Threads PROVE KnowsNow(u)'
  <2>1. CASE u = t
    BY <2>1
  <2>2. CASE u # t
    <3> DEFINE v == op[u].verb
    <3>1. op'[u] = op[u] /\ KnowsNow(u) /\ (op[u].step # "idle" => v \in Verbs)
      BY <1>1, <2>2 DEF QuickInv, QuickStep, StoreTypeOK
    <3>2. op[u].step # "idle" => op[u].at = now
      BY <3>1 DEF KnowsNow
    <3>3. op[u].step \in {"check", "trip"} =>
             Cardinality(InWindow(failures'[v], now)) >= FailureLimit
      BY <1>1, <1>4, <3>1 DEF KnowsNow
    <3>4. op[u].step \in {"count", "check", "trip"} =>
             op[u].row \in 1..Len(failures'[v]) /\ failures'[v][op[u].row] = now
      BY <1>2, <3>1 DEF KnowsNow
    <3>5. op[u].step = "refuse" => \E k \in 1..Len(opens'[v]) : now - opens'[v][k] < CooldownS
      BY <1>3, <3>1 DEF KnowsNow
    <3> QED BY <1>1, <3>1, <3>2, <3>3, <3>4, <3>5 DEF KnowsNow
  <2> QED BY <2>1, <2>2
<1>6. ASSUME NEW v \in Verbs PROVE RowsArePast(v)'
  <2>1. RowsArePast(v) /\ now <= now
    BY <1>1 DEF QuickInv
  <2>2. \A i \in 1..Len(failures'[v]) : failures'[v][i] <= now
    BY <1>2, <2>1 DEF RowsArePast
  <2>3. \A k \in 1..Len(opens'[v]) : opens'[v][k] <= now
    BY <1>3, <2>1 DEF RowsArePast
  <2>4. \A i \in settled'[v] : i \in 1..Len(failures'[v])
    BY <1>2, <2>1 DEF RowsArePast, QuickStep, Settles
  <2> QED BY <1>1, <2>2, <2>3, <2>4 DEF RowsArePast
<1>7. EveryTripJustified'
  <2> SUFFICES ASSUME NEW v \in Verbs, NEW k \in 1..Len(opens'[v])
               PROVE  \/ \E j \in 1..(k-1) : opens'[v][k] - opens'[v][j] < CooldownS
                      \/ Cardinality(InWindow(failures'[v], opens'[v][k])) >= FailureLimit
    BY DEF EveryTripJustified, InWindow
  <2>1. CASE k \in 1..Len(opens[v])
    <3>1. \/ \E j \in 1..(k-1) : opens[v][k] - opens[v][j] < CooldownS
          \/ Cardinality(InWindow(failures[v], opens[v][k])) >= FailureLimit
      BY <2>1 DEF QuickInv, EveryTripJustified, InWindow
    <3>2. opens[v][k] \in Nat /\ opens'[v][k] = opens[v][k]
      BY <1>1, <1>3, <2>1
    <3>3. \A j \in 1..(k-1) : j \in 1..Len(opens[v])
      BY <1>1, <2>1
    <3> QED BY <1>3, <1>4, <3>1, <3>2, <3>3
  <2>2. CASE k \notin 1..Len(opens[v])
    <3>1. opens'[v] # opens[v] /\ opens'[v][k] = now
      BY <1>3, <2>2
    <3>2. Justified(v)
      BY <3>1 DEF QuickStep
    <3>3. \A j \in 1..Len(opens[v]) : j \in 1..(k-1)
      BY <1>1, <2>2
    <3> QED BY <1>1, <1>3, <1>4, <3>1, <3>2, <3>3 DEF Justified
  <2> QED BY <2>1, <2>2
<1> QED BY <1>5, <1>6, <1>7 DEF QuickInv

\* No step makes a settled row one that nobody answered.
LEMMA NoMissStep ==
    ASSUME QuickInv, NoMissedTrip, CooldownS # 0, StoreInv', NEW t \in Threads, QuickStep(t)
    PROVE  NoMissedTrip'
<1>1. /\ now \in Nat /\ now' = now
      /\ \A v \in Verbs : failures[v] \in Seq(Nat) /\ opens[v] \in Seq(Nat)
                          /\ failures'[v] \in Seq(Nat) /\ settled[v] \subseteq Nat
  BY DEF QuickInv, StoreInv, StoreTypeOK, QuickStep
<1> SUFFICES ASSUME NEW v \in Verbs, NEW i \in settled'[v],
                    Cardinality({j \in 1..i : failures'[v][j] >= failures'[v][i] - WindowS})
                       >= FailureLimit
             PROVE  \E k \in 1..Len(opens'[v]) :
                       opens'[v][k] \in (failures'[v][i] - CooldownS + 1) .. failures'[v][i]
  BY DEF NoMissedTrip
<1> DEFINE f == failures[v]
           g == failures'[v]
           o == opens[v]
           p == opens'[v]
<1>2. /\ \A j \in 1..Len(f) : g[j] = f[j]
      /\ \A k \in 1..Len(o) : k \in 1..Len(p) /\ p[k] = o[k]
  <2>1. (g = f \/ g = Append(f, now)) /\ (p = o \/ p = Append(o, now))
    BY DEF QuickStep
  <2>2. f \in Seq(Nat) /\ o \in Seq(Nat) /\ now \in Nat
    BY <1>1
  <2> HIDE DEF f, g, o, p
  <2>3. \A j \in 1..Len(f) : j \in 1..Len(g) /\ g[j] = f[j]
    BY <2>1, <2>2, AtMostOneMore, Zenon
  <2>4. \A k \in 1..Len(o) : k \in 1..Len(p) /\ p[k] = o[k]
    BY <2>1, <2>2, AtMostOneMore, Zenon
  <2> QED BY <2>3, <2>4
<1>3. f \in Seq(Nat) /\ \A j \in 1..Len(f) : f[j] \in Nat /\ f[j] <= now
  BY <1>1 DEF QuickInv, RowsArePast
<1>4. CASE i \in settled[v]
  <2>1. i \in 1..Len(f) /\ \A j \in 1..i : j \in 1..Len(f)
    BY <1>1, <1>4 DEF QuickInv, RowsArePast
  <2>2. {j \in 1..i : g[j] >= g[i] - WindowS} = {j \in 1..i : f[j] >= f[i] - WindowS}
    BY <1>2, <2>1
  <2>3. \E k \in 1..Len(o) : o[k] \in (f[i] - CooldownS + 1) .. f[i]
    BY <1>4, <2>2 DEF NoMissedTrip
  <2> QED BY <1>2, <2>1, <2>3
<1>5. CASE i \notin settled[v]
  <2>1. Settles(v, i)
    BY <1>5 DEF QuickStep
  <2>2. i \in 1..Len(f) /\ f[i] = now /\ g[i] = now
    BY <1>2, <2>1 DEF Settles
  <2>3. {j \in 1..i : g[j] >= g[i] - WindowS} \in SUBSET InWindow(f, now)
    <3>1. \A j \in 1..i : j \in 1..Len(f) /\ g[j] = f[j] /\ f[j] \in Nat /\ f[j] <= now
      BY <1>2, <1>3, <2>2
    <3> HIDE DEF f, g
    <3> QED BY <1>1, <2>2, <3>1, StoreAssumption DEF InWindow
  <2>4. IsFiniteSet(InWindow(f, now))
    <3>1. Len(f) \in Nat
      BY <1>3
    <3>2. IsFiniteSet(1..Len(f)) /\ InWindow(f, now) \in SUBSET (1..Len(f))
      BY <3>1, FS_Interval DEF InWindow
    <3> QED BY <3>2, FS_Subset
  <2>5. ~(Cardinality(InWindow(f, now)) < FailureLimit)
    <3> DEFINE S == {j \in 1..i : g[j] >= g[i] - WindowS}
    <3>1. Cardinality(S) >= FailureLimit
      OBVIOUS
    <3>2. S \in SUBSET InWindow(f, now)
      BY <2>3
    <3> HIDE DEF S, f
    <3>3. IsFiniteSet(S) /\ Cardinality(S) <= Cardinality(InWindow(f, now))
      BY <2>4, <3>2, FS_Subset
    <3>4. Cardinality(S) \in Nat /\ Cardinality(InWindow(f, now)) \in Nat
      BY <2>4, <3>3, FS_CardinalityType
    <3> QED BY <3>1, <3>3, <3>4, StoreAssumption
  <2> QED BY <2>1, <2>2, <2>5 DEF Settles
<1> QED BY <1>4, <1>5

-----------------------------------------------------------------------------
(* Every step is a quick step when calls are quick.                        *)

LEMMA BeginsQuick ==
    ASSUME QuickInv, NEW t \in Threads, NEW v \in Verbs,
           (\E stage \in Stages : BeginRecord(t, v, stage)) \/ BeginGuard(t, v)
    PROVE  QuickStep(t) /\ KnowsNow(t)'
<1>1. StoreTypeOK
  BY DEF QuickInv, StoreInv
<1>2. UNCHANGED <<now, failures, opens, settled>>
  BY DEF BeginRecord, BeginGuard, rows
<1>3. CASE BeginGuard(t, v)
  <2>1. /\ op'[t].step = "guard" /\ op'[t].at = now
        /\ \A u \in Threads \ {t} : op'[u] = op[u]
    BY <1>1, <1>3 DEF StoreTypeOK, BeginGuard
  <2> QED BY <1>2, <2>1 DEF QuickStep, KnowsNow
<1>4. ASSUME NEW stage \in Stages, BeginRecord(t, v, stage)
      PROVE  QuickStep(t) /\ KnowsNow(t)'
  <2>1. /\ op'[t].step = "append" /\ op'[t].at = now
        /\ \A u \in Threads \ {t} : op'[u] = op[u]
    BY <1>1, <1>4 DEF StoreTypeOK, BeginRecord
  <2> QED BY <1>2, <2>1 DEF QuickStep, KnowsNow
<1> QED BY <1>3, <1>4

\* What every step of a call in progress starts from.
LEMMA AtThisInstant ==
    ASSUME QuickInv, NEW t \in Threads, op[t].step # "idle"
    PROVE  /\ StoreTypeOK /\ op[t] \in Ops /\ op[t].verb \in Verbs /\ now \in Nat
           /\ op[t].at .. now = {now} /\ KnowsNow(t) /\ RowsArePast(op[t].verb)
           /\ failures[op[t].verb] \in Seq(Nat) /\ opens[op[t].verb] \in Seq(Nat)
<1>1. StoreTypeOK /\ op[t].verb \in Verbs /\ now \in Nat /\ KnowsNow(t) /\ op[t].at = now
  BY DEF QuickInv, StoreInv, StoreTypeOK, KnowsNow
<1>2. now .. now = {now}
  BY <1>1
<1> QED BY <1>1, <1>2 DEF QuickInv, StoreTypeOK

LEMMA ReturnsQuick ==
    ASSUME QuickInv, NEW t \in Threads, NEW result \in Results,
           op' = [op EXCEPT ![t] = Done(result)]
    PROVE  KnowsNow(t)' /\ \A u \in Threads \ {t} : op'[u] = op[u]
<1>1. op'[t].step = "idle" /\ \A u \in Threads \ {t} : op'[u] = op[u]
  BY Returns DEF QuickInv, StoreInv
<1> QED BY <1>1 DEF KnowsNow

LEMMA GoesOnQuick ==
    ASSUME QuickInv, NEW t \in Threads, op[t].step # "idle", NEW step \in Steps,
           op' = [op EXCEPT ![t].step = step, ![t].at = now],
           now' = now
    PROVE  /\ op'[t].step = step /\ op'[t].verb = op[t].verb /\ op'[t].row = op[t].row
           /\ op'[t].at = now
           /\ \A u \in Threads \ {t} : op'[u] = op[u]
<1>1. StoreTypeOK /\ op[t] \in Ops
  BY AtThisInstant
<1> QED BY <1>1 DEF StoreTypeOK, Ops

LEMMA AppendRowQuick ==
    ASSUME QuickInv, NEW t \in Threads, AppendRow(t)
    PROVE  QuickStep(t) /\ KnowsNow(t)'
<1> DEFINE v == op[t].verb
           n == Len(failures[v]) + 1
<1>1. op[t].step # "idle" /\ UNCHANGED <<now, opens, settled>>
  BY DEF AppendRow
<1>2. /\ StoreTypeOK /\ v \in Verbs /\ now \in Nat /\ op[t] \in Ops
      /\ op[t].at .. now = {now} /\ failures[v] \in Seq(Nat)
  BY <1>1, AtThisInstant
<1>3. CASE op' = [op EXCEPT ![t] = Done("recorded")] /\ UNCHANGED failures
  <2>1. KnowsNow(t)' /\ \A u \in Threads \ {t} : op'[u] = op[u]
    BY <1>3, ReturnsQuick DEF Results
  <2> QED BY <1>1, <1>3, <2>1 DEF QuickStep
<1>4. CASE /\ failures' = [failures EXCEPT ![v] = Append(@, now)]
           /\ op' = [op EXCEPT ![t].step = "count", ![t].at = now, ![t].row = n]
  <2>1. /\ op'[t].step = "count" /\ op'[t].at = now /\ op'[t].row = n /\ op'[t].verb = v
        /\ \A u \in Threads \ {t} : op'[u] = op[u]
    BY <1>2, <1>4 DEF StoreTypeOK, Ops
  <2>2. /\ failures'[v] = Append(failures[v], now)
        /\ \A w \in Verbs \ {v} : failures'[w] = failures[w]
    BY <1>2, <1>4 DEF StoreTypeOK
  <2>3. n \in 1..Len(Append(failures[v], now)) /\ Append(failures[v], now)[n] = now
    BY <1>2
  <2>4. KnowsNow(t)'
    BY <1>1, <2>1, <2>2, <2>3 DEF KnowsNow
  <2> QED BY <1>1, <2>1, <2>2, <2>4 DEF QuickStep
<1> QED BY <1>2, <1>3, <1>4 DEF AppendRow

\* What failure_count finds at this instant.
LEMMA CountsNow ==
    ASSUME NEW v \in Verbs, RowsArePast(v), StoreTypeOK
    PROVE  /\ FailureCount(v, now) = Cardinality(InWindow(failures[v], now))
           /\ FailureCount(v, now) \in Nat
<1>1. now \in Nat /\ failures[v] \in Seq(Nat)
  BY DEF StoreTypeOK
<1>2. InWindow(failures[v], now) = {i \in 1..Len(failures[v]) : failures[v][i] >= now - WindowS}
  BY <1>1, StoreAssumption DEF InWindow, RowsArePast
<1> QED BY <1>1, <1>2, FailureCountBounded DEF FailureCount

\* What is_open finds at this instant.
LEMMA OpenNow ==
    ASSUME NEW v \in Verbs, RowsArePast(v), StoreTypeOK, IsOpen(v, now)
    PROVE  \E k \in 1..Len(opens[v]) : /\ now - opens[v][k] < CooldownS
                                       /\ opens[v][k] \in (now - CooldownS + 1) .. now
<1>1. now \in Nat /\ opens[v] \in Seq(Nat) /\ opens[v] # <<>>
  BY DEF StoreTypeOK, IsOpen
<1>2. Len(opens[v]) \in 1..Len(opens[v])
  BY <1>1
<1>3. opens[v][Len(opens[v])] \in Nat /\ opens[v][Len(opens[v])] <= now
  BY <1>1, <1>2 DEF RowsArePast
<1>4. now - opens[v][Len(opens[v])] < CooldownS
  BY DEF IsOpen
<1>5. opens[v][Len(opens[v])] \in (now - CooldownS + 1) .. now
  BY <1>1, <1>3, <1>4, StoreAssumption
<1> QED BY <1>2, <1>4, <1>5

LEMMA RecordedQuick ==
    ASSUME QuickInv, NEW t \in Threads, op[t].step \in {"count", "check", "trip"}, Recorded(t),
           now' = now, UNCHANGED failures,
           \A w \in Verbs : /\ opens'[w] \in {opens[w], Append(opens[w], now)}
                            /\ opens'[w] # opens[w] => Justified(w),
           CooldownS # 0 =>
              \/ FailureCount(op[t].verb, now) < FailureLimit
              \/ \E k \in 1..Len(opens'[op[t].verb]) :
                    opens'[op[t].verb][k] \in (now - CooldownS + 1) .. now
    PROVE  QuickStep(t) /\ KnowsNow(t)'
<1> DEFINE v == op[t].verb
<1>1. /\ StoreTypeOK /\ v \in Verbs /\ KnowsNow(t) /\ RowsArePast(v)
  BY AtThisInstant
<1>2. KnowsNow(t)' /\ \A u \in Threads \ {t} : op'[u] = op[u]
  BY ReturnsQuick DEF Recorded, Results
<1>3. Settles(v, op[t].row)
  BY <1>1, CountsNow DEF KnowsNow, Settles
<1>4. \A w \in Verbs : \A i \in settled'[w] : i \in settled[w] \/ (w = v /\ i = op[t].row)
  BY <1>1 DEF Recorded, StoreTypeOK
<1> QED BY <1>2, <1>3, <1>4 DEF QuickStep

LEMMA CountFailuresQuick ==
    ASSUME QuickInv, NEW t \in Threads, CountFailures(t)
    PROVE  QuickStep(t) /\ KnowsNow(t)'
<1> DEFINE v == op[t].verb
<1>1. op[t].step = "count" /\ UNCHANGED <<now, failures, opens>>
  BY DEF CountFailures, rows
<1>2. /\ StoreTypeOK /\ v \in Verbs /\ op[t].at .. now = {now} /\ KnowsNow(t) /\ RowsArePast(v)
  BY <1>1, AtThisInstant
<1>3. CASE FailureCount(v, now) >= FailureLimit
           /\ op' = [op EXCEPT ![t].step = "check", ![t].at = now] /\ UNCHANGED settled
  <2>1. /\ op'[t].step = "check" /\ op'[t].verb = v /\ op'[t].row = op[t].row
        /\ op'[t].at = now /\ \A u \in Threads \ {t} : op'[u] = op[u]
    BY <1>1, <1>3, GoesOnQuick DEF Steps
  <2>2. Cardinality(InWindow(failures[v], now)) >= FailureLimit
    BY <1>2, <1>3, CountsNow
  <2>3. KnowsNow(t)'
    BY <1>1, <1>2, <2>1, <2>2 DEF KnowsNow
  <2> QED BY <1>1, <1>3, <2>1, <2>3 DEF QuickStep
<1>4. CASE ~(FailureCount(v, now) >= FailureLimit) /\ Recorded(t)
  <2>1. FailureCount(v, now) < FailureLimit
    BY <1>2, <1>4, CountsNow, StoreAssumption
  <2> QED BY <1>1, <1>4, <2>1, RecordedQuick
<1>5. PICK ts \in {now} :
        \/ /\ LimitReached(v, ts)
           /\ op' = [op EXCEPT ![t].step = "check", ![t].at = now]
           /\ UNCHANGED settled
        \/ ~LimitReached(v, ts) /\ Recorded(t)
  BY <1>2 DEF CountFailures
<1> QED BY <1>3, <1>4, <1>5 DEF LimitReached

LEMMA CheckOpenQuick ==
    ASSUME QuickInv, NEW t \in Threads, CheckOpen(t)
    PROVE  QuickStep(t) /\ KnowsNow(t)'
<1> DEFINE v == op[t].verb
<1>1. op[t].step = "check" /\ UNCHANGED <<now, failures, opens>>
  BY DEF CheckOpen, rows
<1>2. /\ StoreTypeOK /\ v \in Verbs /\ op[t].at .. now = {now} /\ KnowsNow(t) /\ RowsArePast(v)
  BY <1>1, AtThisInstant
<1>3. CASE op' = [op EXCEPT ![t].step = "trip", ![t].at = now] /\ UNCHANGED settled
  <2>1. /\ op'[t].step = "trip" /\ op'[t].verb = v /\ op'[t].row = op[t].row
        /\ op'[t].at = now /\ \A u \in Threads \ {t} : op'[u] = op[u]
    BY <1>1, <1>3, GoesOnQuick DEF Steps
  <2>2. KnowsNow(t)'
    BY <1>1, <1>2, <2>1 DEF KnowsNow
  <2> QED BY <1>1, <1>3, <2>1, <2>2 DEF QuickStep
<1>4. CASE IsOpen(v, now) /\ Recorded(t)
  <2>1. \E k \in 1..Len(opens[v]) : opens[v][k] \in (now - CooldownS + 1) .. now
    BY <1>2, <1>4, OpenNow
  <2> QED BY <1>1, <1>4, <2>1, RecordedQuick
<1>5. PICK ts \in {now} :
        \/ op' = [op EXCEPT ![t].step = "trip", ![t].at = now] /\ UNCHANGED settled
        \/ IsOpen(v, ts) /\ Recorded(t)
  BY <1>2 DEF CheckOpen
<1> QED BY <1>3, <1>4, <1>5

\* The row of a trip or of a refusal is of this instant, and last.
LEMMA OpensNow ==
    ASSUME StoreTypeOK, NEW v \in Verbs, opens' = [opens EXCEPT ![v] = Append(@, now)]
    PROVE  /\ \A w \in Verbs : opens'[w] \in {opens[w], Append(opens[w], now)}
           /\ \A w \in Verbs : opens'[w] # opens[w] => w = v
           /\ \E k \in 1..Len(opens'[v]) : opens'[v][k] = now
<1>1. opens[v] \in Seq(Nat) /\ now \in Nat
  BY DEF StoreTypeOK
<1>2. opens'[v] = Append(opens[v], now) /\ \A w \in Verbs \ {v} : opens'[w] = opens[w]
  BY DEF StoreTypeOK
<1>3. Len(opens[v]) + 1 \in 1..Len(Append(opens[v], now))
      /\ Append(opens[v], now)[Len(opens[v]) + 1] = now
  BY <1>1
<1> QED BY <1>2, <1>3

LEMMA TripQuick ==
    ASSUME QuickInv, NEW t \in Threads, Trip(t)
    PROVE  QuickStep(t) /\ KnowsNow(t)'
<1> DEFINE v == op[t].verb
<1>1. op[t].step = "trip" /\ UNCHANGED <<now, failures>> /\ Recorded(t)
  BY DEF Trip
<1>2. /\ StoreTypeOK /\ v \in Verbs /\ op[t].at .. now = {now} /\ KnowsNow(t) /\ now \in Nat
  BY <1>1, AtThisInstant
<1>3. opens' = [opens EXCEPT ![v] = Append(@, now)]
  BY <1>2 DEF Trip
<1>4. Justified(v)
  BY <1>1, <1>2 DEF KnowsNow, Justified
<1>5. /\ \A w \in Verbs : /\ opens'[w] \in {opens[w], Append(opens[w], now)}
                          /\ opens'[w] # opens[w] => Justified(w)
      /\ \E k \in 1..Len(opens'[v]) : opens'[v][k] = now
  BY <1>2, <1>3, <1>4, OpensNow
<1>6. CooldownS # 0 => now \in (now - CooldownS + 1) .. now
  BY <1>2, StoreAssumption
<1> QED BY <1>1, <1>5, <1>6, RecordedQuick

LEMMA GuardQuick ==
    ASSUME QuickInv, NEW t \in Threads, Guard(t)
    PROVE  QuickStep(t) /\ KnowsNow(t)'
<1> DEFINE v == op[t].verb
<1>1. op[t].step = "guard" /\ UNCHANGED <<now, failures, opens, settled>>
  BY DEF Guard, rows
<1>2. /\ StoreTypeOK /\ v \in Verbs /\ op[t].at .. now = {now} /\ KnowsNow(t) /\ RowsArePast(v)
  BY <1>1, AtThisInstant
<1>3. CASE IsOpen(v, now) /\ op' = [op EXCEPT ![t].step = "refuse", ![t].at = now]
  <2>1. /\ op'[t].step = "refuse" /\ op'[t].verb = v /\ op'[t].at = now
        /\ \A u \in Threads \ {t} : op'[u] = op[u]
    BY <1>1, <1>3, GoesOnQuick DEF Steps
  <2>2. \E k \in 1..Len(opens[v]) : now - opens[v][k] < CooldownS
    BY <1>2, <1>3, OpenNow
  <2>3. KnowsNow(t)'
    BY <1>1, <2>1, <2>2 DEF KnowsNow
  <2> QED BY <1>1, <2>1, <2>3 DEF QuickStep
<1>4. CASE op' = [op EXCEPT ![t] = Done("closed")]
  <2>1. KnowsNow(t)' /\ \A u \in Threads \ {t} : op'[u] = op[u]
    BY <1>4, ReturnsQuick DEF Results
  <2> QED BY <1>1, <2>1 DEF QuickStep
<1>5. PICK ts \in {now} :
        \/ IsOpen(v, ts) /\ op' = [op EXCEPT ![t].step = "refuse", ![t].at = now]
        \/ op' = [op EXCEPT ![t] = Done("closed")]
  BY <1>2 DEF Guard
<1> QED BY <1>3, <1>4, <1>5

LEMMA RefuseQuick ==
    ASSUME QuickInv, NEW t \in Threads, Refuse(t)
    PROVE  QuickStep(t) /\ KnowsNow(t)'
<1> DEFINE v == op[t].verb
<1>1. op[t].step = "refuse" /\ UNCHANGED <<now, failures, settled>>
      /\ op' = [op EXCEPT ![t] = Done("CircuitOpen")]
  BY DEF Refuse
<1>2. /\ StoreTypeOK /\ v \in Verbs /\ op[t].at .. now = {now} /\ KnowsNow(t)
  BY <1>1, AtThisInstant
<1>3. opens' = [opens EXCEPT ![v] = Append(@, now)]
  BY <1>2 DEF Refuse
<1>4. Justified(v)
  BY <1>1, <1>2 DEF KnowsNow, Justified
<1>5. \A w \in Verbs : /\ opens'[w] \in {opens[w], Append(opens[w], now)}
                       /\ opens'[w] # opens[w] => Justified(w)
  BY <1>2, <1>3, <1>4, OpensNow
<1>6. KnowsNow(t)' /\ \A u \in Threads \ {t} : op'[u] = op[u]
  BY <1>1, ReturnsQuick DEF Results
<1> QED BY <1>1, <1>5, <1>6 DEF QuickStep

LEMMA DbErrorQuick ==
    ASSUME QuickInv, NEW t \in Threads, DbError(t)
    PROVE  QuickStep(t) /\ KnowsNow(t)'
<1>1. KnowsNow(t)' /\ \A u \in Threads \ {t} : op'[u] = op[u]
  BY ReturnsQuick DEF DbError, Results
<1> QED BY <1>1 DEF QuickStep, DbError, rows

\* Without a call in progress nothing is known of the instant.
LEMMA NobodyCalls ==
    ASSUME QuickInv, StoreInv', UNCHANGED <<failures, opens, settled>>,
           now' \in {now, now + 1}, \A t \in Threads : op'[t].step = "idle"
    PROVE  QuickInv' /\ (NoMissedTrip => NoMissedTrip')
<1>1. \A t \in Threads : KnowsNow(t)'
  BY DEF KnowsNow
<1>2. now \in Nat /\ \A v \in Verbs : failures[v] \in Seq(Nat) /\ opens[v] \in Seq(Nat)
  BY DEF QuickInv, StoreInv, StoreTypeOK
<1>3. ASSUME NEW v \in Verbs PROVE RowsArePast(v)'
  <2>1. RowsArePast(v)
    BY DEF QuickInv
  <2>2. /\ \A i \in 1..Len(failures[v]) : failures[v][i] \in Nat
        /\ \A k \in 1..Len(opens[v]) : opens[v][k] \in Nat
    BY <1>2
  <2> QED BY <1>2, <2>1, <2>2 DEF RowsArePast
<1>4. EveryTripJustified' /\ (NoMissedTrip => NoMissedTrip')
  BY DEF QuickInv, EveryTripJustified, NoMissedTrip
<1> QED BY <1>1, <1>3, <1>4 DEF QuickInv

LEMMA QuickNextInv ==
    ASSUME ~SlowCalls, QuickInv, [StoreNext]_storeVars
    PROVE  QuickInv' /\ (CooldownS # 0 /\ NoMissedTrip => NoMissedTrip')
<1>1. StoreInv'
  BY StoreNextInv DEF QuickInv
<1>2. ASSUME NEW t \in Threads, QuickStep(t) /\ KnowsNow(t)'
      PROVE  QuickInv' /\ (CooldownS # 0 /\ NoMissedTrip => NoMissedTrip')
  BY <1>1, <1>2, QuickStepInv, NoMissStep
<1>3. ASSUME NEW t \in Threads, StoreStep(t) PROVE QuickStep(t) /\ KnowsNow(t)'
  BY <1>3, AppendRowQuick, CountFailuresQuick, CheckOpenQuick, TripQuick, GuardQuick, RefuseQuick
     DEF StoreStep
<1>4. ASSUME NEW t \in Threads, NEW v \in Verbs,
             BeginGuard(t, v) \/ \E stage \in Stages \ {"circuit_open"} : BeginRecord(t, v, stage)
      PROVE  QuickStep(t) /\ KnowsNow(t)'
  BY <1>4, BeginsQuick
<1>5. CASE Tick
  <2>1. /\ now' = now + 1 /\ UNCHANGED <<failures, opens, settled>>
        /\ \A t \in Threads : op'[t].step = "idle"
    BY <1>5 DEF Tick, rows
  <2> QED BY <1>1, <2>1, NobodyCalls
<1>6. CASE StoreRestart
  <2>1. /\ now' = now /\ UNCHANGED <<failures, opens, settled>>
        /\ \A t \in Threads : op'[t].step = "idle"
    BY <1>6 DEF StoreRestart, rows, Done
  <2> QED BY <1>1, <2>1, NobodyCalls
<1>7. CASE UNCHANGED storeVars
  BY <1>1, <1>7 DEF storeVars, QuickInv, KnowsNow, RowsArePast, EveryTripJustified, NoMissedTrip
<1> QED BY <1>2, <1>3, <1>4, <1>5, <1>6, <1>7, DbErrorQuick DEF StoreNext

\* When calls are quick, each circuit_open row restarts a cooldown or has
\* failure_limit failures in its window, with any number of threads at once.
THEOREM QuickTripsJustified ==
    ASSUME ~SlowCalls PROVE StoreSpec => []EveryTripJustified
<1>1. StoreInit => QuickInv
  <2> SUFFICES ASSUME StoreInit PROVE QuickInv
    OBVIOUS
  <2>1. StoreInv
    BY StoreInitInv
  <2> QED BY <2>1 DEF StoreInit, QuickInv, KnowsNow, RowsArePast, EveryTripJustified, Done
<1>2. QuickInv /\ [StoreNext]_storeVars => QuickInv'
  BY QuickNextInv
<1>3. QuickInv => EveryTripJustified
  BY DEF QuickInv
<1> QED BY <1>1, <1>2, <1>3, PTL DEF StoreSpec

\* When calls are quick and there is a cooldown, no trip is lost between threads
\* whose failures reach the limit together.
THEOREM QuickTripsNotMissed ==
    ASSUME ~SlowCalls, CooldownS # 0 PROVE StoreSpec => []NoMissedTrip
<1> DEFINE Inv == QuickInv /\ NoMissedTrip
<1>1. StoreInit => Inv
  <2> SUFFICES ASSUME StoreInit PROVE Inv
    OBVIOUS
  <2>1. StoreInv
    BY StoreInitInv
  <2> QED BY <2>1 DEF StoreInit, QuickInv, KnowsNow, RowsArePast, EveryTripJustified, NoMissedTrip,
                      Done
<1>2. Inv /\ [StoreNext]_storeVars => Inv'
  BY QuickNextInv
<1>3. Inv => NoMissedTrip
  OBVIOUS
<1> QED BY <1>1, <1>2, <1>3, PTL DEF StoreSpec

=============================================================================
