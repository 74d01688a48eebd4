----------------------------- MODULE VerbStore -----------------------------
(***************************************************************************)
(* The durable verb event store of dispatch/store.py and the per-verb      *)
(* circuit breaker computed from it.                                       *)
(*                                                                         *)
(* Every handler thread of the daemon calls record_outcome and guard.  Each*)
(* of them is a SEQUENCE of short database operations, and Store._lock is  *)
(* held for one operation only: between two operations of one thread,      *)
(* operations of other threads, time and a crash may come.  One action     *)
(* below is one critical section of the lock.  The time a call works with  *)
(* is read BEFORE it takes the lock, so a step uses a stamp read at any    *)
(* moment since the thread's previous step.                                *)
(*                                                                         *)
(* Of the table only the rows some query reads are kept: the timestamps of *)
(* the timeout/failed rows and of the circuit_open rows of each verb, in   *)
(* id order.  Time is counted in ticks; time.time() is taken to be         *)
(* monotone.                                                               *)
(***************************************************************************)
EXTENDS Integers, Sequences, FiniteSets

CONSTANTS Verbs,         \* names of catalog verbs
          Threads,       \* handler threads (ThreadingHTTPServer: one a request)
          NoVerb,        \* the verb of a thread that is in no store call
          FailureLimit,  \* StoreConfig.failure_limit
          WindowS,       \* StoreConfig.window_s, in ticks
          CooldownS,     \* StoreConfig.cooldown_s, in ticks
          SlowCalls,     \* may time pass while a store call is in progress?
          MaxNow,        \* bound: the clock stops here
          MaxRows,       \* bound: no call begins for a verb with this many rows
          MaxFaults      \* bound: database errors and crashes

ASSUME StoreAssumption ==
    /\ NoVerb \notin Verbs
    /\ FailureLimit \in Nat \ {0}
    /\ WindowS \in Nat
    /\ CooldownS \in Nat
    /\ SlowCalls \in BOOLEAN
    /\ MaxNow \in Nat
    /\ MaxRows \in Nat
    /\ MaxFaults \in Nat

VARIABLES now,       \* time.time()
          failures,  \* failures[v]: ts of the timeout/failed rows of v
          opens,     \* opens[v]: ts of the circuit_open rows of v
          op,        \* op[t]: the store call thread t is executing
          seen,      \* history: seen[t], what the last guard of t read when it
                     \* returned, NotPassed if it raised or has not returned
          settled,   \* history: settled[v], the failure rows of v whose
                     \* record_outcome returned without an error
          faults     \* database errors and crashes so far

storeVars == <<now, failures, opens, op, seen, settled, faults>>
rows == <<failures, opens>>

-----------------------------------------------------------------------------
Stages == {"requested", "approved", "denied", "timeout", "executed", "failed",
           "circuit_open"}
FailureStages == {"timeout", "failed"}

Steps == {"idle", "append", "count", "check", "trip", "guard", "refuse"}

\* How a call ended: record_outcome returned, guard returned, guard raised
\* CircuitOpen, or either let a database exception through.
Results == {"none", "recorded", "closed", "CircuitOpen", "error"}

Ops == [step: Steps, verb: Verbs \cup {NoVerb}, counts: BOOLEAN,
        at: Nat, row: Nat, result: Results]

\* What a guard that returned has read: the rows of the verb, and its time.
Admissions == [verb: Verbs \cup {NoVerb}, rows: Nat, at: Nat]

NotPassed == [verb |-> NoVerb, rows |-> 0, at |-> 0]

Done(result) == [step |-> "idle", verb |-> NoVerb, counts |-> FALSE,
                 at |-> 0, row |-> 0, result |-> result]

StoreTypeOK ==
    /\ now \in Nat
    /\ failures \in [Verbs -> Seq(Nat)]
    /\ opens \in [Verbs -> Seq(Nat)]
    /\ op \in [Threads -> Ops]
    /\ \A t \in Threads : op[t].step # "idle" => op[t].verb \in Verbs
    /\ seen \in [Threads -> Admissions]
    /\ settled \in [Verbs -> SUBSET Nat]
    /\ faults \in Nat

-----------------------------------------------------------------------------
(* The two queries.                                                        *)

\* failure_count(verb, now): the rows inside the window that ends at t.
FailureCount(v, t) ==
    Cardinality({i \in 1..Len(failures[v]) : failures[v][i] >= t - WindowS})

\* is_open(verb, now): the newest circuit_open row BY ID is within the cooldown.
IsOpen(v, t) ==
    /\ opens[v] # <<>>
    /\ t - opens[v][Len(opens[v])] < CooldownS

-----------------------------------------------------------------------------
(* record_outcome(verb, stage): append, then count, check and trip.        *)

BeginRecord(t, v, stage) ==
    /\ op[t].step = "idle"
    /\ op' = [op EXCEPT ![t] =
                [step |-> "append", verb |-> v, counts |-> stage \in FailureStages,
                 at |-> now, row |-> 0, result |-> "none"]]
    /\ UNCHANGED <<now, rows, seen, settled, faults>>

\* The call of thread t on its verb returns; the failure row it wrote, if any,
\* is settled unless an exception ends the call.
Recorded(t) ==
    /\ op' = [op EXCEPT ![t] = Done("recorded")]
    /\ settled' = [settled EXCEPT ![op[t].verb] = @ \cup {op[t].row}]

\* append(): the row is committed.  A row no query counts ends the call.
AppendRow(t) ==
    /\ op[t].step = "append"
    /\ \/ /\ op[t].counts
          /\ \E ts \in op[t].at .. now :
                failures' = [failures EXCEPT ![op[t].verb] = Append(@, ts)]
          /\ op' = [op EXCEPT ![t].step = "count", ![t].at = now,
                              ![t].row = Len(failures[op[t].verb]) + 1]
       \/ /\ ~op[t].counts
          /\ op' = [op EXCEPT ![t] = Done("recorded")]
          /\ UNCHANGED failures
    /\ UNCHANGED <<now, opens, seen, settled, faults>>

\* Mistake: the breaker trips one failure early.
LimitNear(v, t) == FailureCount(v, t) >= FailureLimit - 1

\* Mistake: > for >=.
LimitPassed(v, t) == FailureCount(v, t) > FailureLimit

\* failure_count(verb) >= failure_limit
LimitReached(v, t) == FailureCount(v, t) >= FailureLimit

CountFailures(t) ==
    /\ op[t].step = "count"
    /\ \E ts \in op[t].at .. now :
          \/ /\ LimitReached(op[t].verb, ts)
             /\ op' = [op EXCEPT ![t].step = "check", ![t].at = now]
             /\ UNCHANGED settled
          \/ /\ ~LimitReached(op[t].verb, ts)
             /\ Recorded(t)
    /\ UNCHANGED <<now, rows, seen, faults>>

\* if not self.is_open(verb)
CheckOpen(t) ==
    /\ op[t].step = "check"
    /\ \E ts \in op[t].at .. now :
          \/ /\ ~IsOpen(op[t].verb, ts)
             /\ op' = [op EXCEPT ![t].step = "trip", ![t].at = now]
             /\ UNCHANGED settled
          \/ /\ IsOpen(op[t].verb, ts)
             /\ Recorded(t)
    /\ UNCHANGED <<now, rows, seen, faults>>

\* Mistake: the row is dated back by the cooldown.
TripBackdated(t) ==
    /\ op[t].step = "trip"
    /\ \E ts \in op[t].at .. now :
          opens' = [opens EXCEPT ![op[t].verb] = Append(@, ts - CooldownS)]
    /\ Recorded(t)
    /\ UNCHANGED <<now, failures, seen, faults>>

\* The circuit_open row of a trip.
Trip(t) ==
    /\ op[t].step = "trip"
    /\ \E ts \in op[t].at .. now :
          opens' = [opens EXCEPT ![op[t].verb] = Append(@, ts)]
    /\ Recorded(t)
    /\ UNCHANGED <<now, failures, seen, faults>>

-----------------------------------------------------------------------------
(* guard(verb): check, and record the refusal before raising CircuitOpen.  *)

BeginGuard(t, v) ==
    /\ op[t].step = "idle"
    /\ op' = [op EXCEPT ![t] = [step |-> "guard", verb |-> v, counts |-> FALSE,
                                at |-> now, row |-> 0, result |-> "none"]]
    /\ seen' = [seen EXCEPT ![t] = NotPassed]
    /\ UNCHANGED <<now, rows, settled, faults>>

\* Only a guard that returns leaves a record in seen; one that is to raise, or
\* whose is_open raises, leaves NotPassed.
Guard(t) ==
    /\ op[t].step = "guard"
    /\ \E ts \in op[t].at .. now :
          \/ /\ IsOpen(op[t].verb, ts)
             /\ op' = [op EXCEPT ![t].step = "refuse", ![t].at = now]
             /\ UNCHANGED seen
          \/ /\ ~IsOpen(op[t].verb, ts)
             /\ op' = [op EXCEPT ![t] = Done("closed")]
             /\ seen' = [seen EXCEPT ![t] = [verb |-> op[t].verb,
                                             rows |-> Len(opens[op[t].verb]), at |-> ts]]
    /\ UNCHANGED <<now, rows, settled, faults>>

\* The row of a refusal is a circuit_open row too: it restarts the cooldown.
Refuse(t) ==
    /\ op[t].step = "refuse"
    /\ \E ts \in op[t].at .. now :
          opens' = [opens EXCEPT ![op[t].verb] = Append(@, ts)]
    /\ op' = [op EXCEPT ![t] = Done("CircuitOpen")]
    /\ UNCHANGED <<now, failures, seen, settled, faults>>

-----------------------------------------------------------------------------
(* Faults and time.                                                        *)

\* Any database operation may raise (disk full, file locked by another
\* process).  append() rolls back, so nothing of the operation is kept; what
\* earlier operations of the call committed stays.
DbError(t) ==
    /\ op[t].step # "idle"
    /\ faults < MaxFaults
    /\ op' = [op EXCEPT ![t] = Done("error")]
    /\ faults' = faults + 1
    /\ UNCHANGED <<now, rows, seen, settled>>

\* The process is killed and started again: the calls in progress are gone,
\* the committed rows are not (WAL, synchronous=FULL).
StoreRestart ==
    /\ faults < MaxFaults
    /\ op' = [t \in Threads |-> Done("none")]
    /\ faults' = faults + 1
    /\ UNCHANGED <<now, rows, seen, settled>>

Tick ==
    /\ now < MaxNow
    /\ SlowCalls \/ \A t \in Threads : op[t].step = "idle"
    /\ now' = now + 1
    /\ UNCHANGED <<rows, op, seen, settled, faults>>

\* One operation of the call thread t is in.
StoreStep(t) ==
    \/ AppendRow(t)
    \/ CountFailures(t)
    \/ CheckOpen(t)
    \/ Trip(t)
    \/ Guard(t)
    \/ Refuse(t)

-----------------------------------------------------------------------------
(* The store by itself: any thread may make any call.                      *)

StoreInit ==
    /\ now = 0
    /\ failures = [v \in Verbs |-> <<>>]
    /\ opens = [v \in Verbs |-> <<>>]
    /\ op = [t \in Threads |-> Done("none")]
    /\ seen = [t \in Threads |-> NotPassed]
    /\ settled = [v \in Verbs |-> {}]
    /\ faults = 0

RoomFor(v) == Len(failures[v]) < MaxRows /\ Len(opens[v]) < MaxRows

StoreNext ==
    \/ Tick
    \/ StoreRestart
    \/ \E t \in Threads :
          \/ StoreStep(t)
          \/ DbError(t)
          \/ \E v \in Verbs : RoomFor(v) /\ BeginGuard(t, v)
          \/ \E v \in Verbs, stage \in Stages \ {"circuit_open"} :
                RoomFor(v) /\ BeginRecord(t, v, stage)

StoreSpec == StoreInit /\ [][StoreNext]_storeVars

-----------------------------------------------------------------------------
(* Properties.                                                             *)

\* A breaker never opens on its own: a verb with a circuit_open row has had at
\* least failure_limit timeout/failed rows, whatever the interleaving, however
\* slow the calls, and across errors and restarts (store.py guard writes
\* circuit_open rows as well, but only for a breaker that was open).
TripNeedsFailures ==
    \A v \in Verbs : opens[v] # <<>> => Len(failures[v]) >= FailureLimit

\* When calls are quick, each circuit_open row is accounted for: it restarts
\* the cooldown of an earlier row (a refusal), or failure_limit failures lie
\* in the window that ends at it (a trip).  With two threads failing at once
\* the second trip must not be a row out of nowhere.
EveryTripJustified ==
    \A v \in Verbs : \A k \in 1..Len(opens[v]) :
       \/ \E j \in 1..(k-1) : opens[v][k] - opens[v][j] < CooldownS
       \/ Cardinality({i \in 1..Len(failures[v]) :
             failures[v][i] \in (opens[v][k] - WindowS) .. opens[v][k]}) >= FailureLimit

\* When calls are quick, no trip is lost: if a failure row brought the window to
\* failure_limit and its record_outcome returned, the breaker was open at the
\* time of that row, by a trip or by an earlier row still cooling down.  Two
\* threads whose rows reach the limit together may not each leave it to the
\* other, and a restart between the row and the trip excuses that row only.
NoMissedTrip ==
    \A v \in Verbs : \A i \in settled[v] :
       Cardinality({j \in 1..i : failures[v][j] >= failures[v][i] - WindowS})
          >= FailureLimit
       => \E k \in 1..Len(opens[v]) :
             opens[v][k] \in (failures[v][i] - CooldownS + 1) .. failures[v][i]

=============================================================================
