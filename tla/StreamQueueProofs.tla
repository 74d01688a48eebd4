------------------------- MODULE StreamQueueProofs -------------------------
(***************************************************************************)
(* Proofs about StreamQueue, for every capacity, number of clients and     *)
(* number of lines: it implements LossyStream, and a final poll is         *)
(* complete.  The inductive invariant says what the queue holds (the       *)
(* newest items, consecutively), that a reader about to evict has seen a   *)
(* full queue, and what a poll that began after the end may count on.      *)
(***************************************************************************)
EXTENDS StreamQueue, TLAPS

HoldsNewest ==
    /\ Len(queue) <= Capacity
    /\ Len(queue) <= made
    /\ \A i \in 1..Len(queue) : queue[i] = made - Len(queue) + i

LossCounted ==
    /\ lost <= made - Len(queue)
    /\ reader = "evicting" => lost + Capacity <= made
    /\ dropped = IF reader = "counting" THEN lost - 1 ELSE lost
    /\ reader = "counting" => lost > 0

\* What a poll in progress that began after the end has established.
PollKnows(p) ==
    /\ poll[p].over => reader = "ended"
    /\ poll[p].over /\ poll[p].at \in {"stopped", "dropped"} /\ poll[p].count < MaxItems
       => queue = <<>>
    /\ poll[p].over /\ poll[p].at = "dropped" => poll[p].stopped

LastKnows(p) ==
    /\ last[p].over => reader = "ended"
    /\ last[p].over /\ last[p].count < MaxItems =>
         queue = <<>> /\ last[p].stopped /\ last[p].dropped = lost

StreamInv ==
    /\ StreamTypeOK
    /\ HoldsNewest
    /\ LossCounted
    /\ reader = "ended" => stopped
    /\ \A p \in Pollers : PollKnows(p) /\ LastKnows(p)

-----------------------------------------------------------------------------
\* What Append and Tail do to a sequence of numbers.
LEMMA AppendFacts ==
    ASSUME NEW s \in Seq(Nat), NEW n \in Nat
    PROVE  /\ Append(s, n) \in Seq(Nat)
           /\ Len(Append(s, n)) = Len(s) + 1
           /\ \A i \in 1..Len(s) : Append(s, n)[i] = s[i]
           /\ Append(s, n)[Len(s) + 1] = n
  OBVIOUS

LEMMA TailFacts ==
    ASSUME NEW s \in Seq(Nat), s # <<>>
    PROVE  /\ Tail(s) \in Seq(Nat)
           /\ Len(s) \in Nat \ {0}
           /\ Len(Tail(s)) = Len(s) - 1
           /\ Head(s) = s[1] /\ Head(s) \in Nat
           /\ \A i \in 1..(Len(s) - 1) : Tail(s)[i] = s[i + 1]
  OBVIOUS

-----------------------------------------------------------------------------
LEMMA InitInv == Init => StreamInv
  <1> SUFFICES ASSUME Init PROVE StreamInv
    OBVIOUS
  <1>0. Capacity \in Nat /\ MaxItems \in Nat
    BY StreamAssumption
  <1>1. queue \in Seq(Nat) /\ Len(queue) = 0
    BY DEF Init
  <1>2. poll \in [Pollers -> Polls] /\ last \in [Pollers -> Replies]
    BY <1>0 DEF Init, Polls, Replies
  <1>3. received \in [Pollers -> Seq(Nat)]
    BY DEF Init
  <1>4. StreamTypeOK
    BY <1>1, <1>2, <1>3 DEF Init, StreamTypeOK
  <1>5. HoldsNewest /\ LossCounted
    BY <1>0, <1>1 DEF Init, HoldsNewest, LossCounted
  <1>6. \A p \in Pollers : PollKnows(p) /\ LastKnows(p)
    BY DEF Init, PollKnows, LastKnows
  <1> QED
    BY <1>4, <1>5, <1>6 DEF Init, StreamInv

\* Taking the oldest item out leaves the newest ones.
LEMMA TailHoldsNewest ==
    ASSUME StreamTypeOK, HoldsNewest, queue # <<>>,
           queue' = Tail(queue), made' = made
    PROVE  /\ HoldsNewest'
           /\ queue' \in Seq(Nat)
           /\ Len(queue') = Len(queue) - 1
           /\ Len(queue) \in Nat \ {0}
           /\ Head(queue) = made + 1 - Len(queue)
  <1>1. queue \in Seq(Nat) /\ made \in Nat /\ Capacity \in Nat
    BY StreamAssumption DEF StreamTypeOK
  <1>2. /\ queue' \in Seq(Nat)
        /\ Len(queue) \in Nat \ {0}
        /\ Len(queue') = Len(queue) - 1
        /\ Head(queue) = queue[1]
        /\ \A i \in 1..(Len(queue) - 1) : queue'[i] = queue[i + 1]
    BY <1>1, TailFacts
  <1>3. queue[1] = made - Len(queue) + 1
    BY <1>2 DEF HoldsNewest
  <1>4. ASSUME NEW i \in 1..Len(queue')
        PROVE  queue'[i] = made' - Len(queue') + i
    <2>1. i \in 1..(Len(queue) - 1) /\ i + 1 \in 1..Len(queue)
      BY <1>2
    <2>2. queue'[i] = made - Len(queue) + (i + 1)
      BY <2>1, <1>2 DEF HoldsNewest
    <2> QED
      BY <2>1, <2>2, <1>1, <1>2
  <1>5. HoldsNewest'
    BY <1>1, <1>2, <1>4 DEF HoldsNewest
  <1> QED
    BY <1>1, <1>2, <1>3, <1>5

LEMMA ReaderKeepsInv ==
    ASSUME StreamInv, ReadLine \/ Enqueue \/ EndOfOutput \/ ReaderDies \/ StopMarks
    PROVE  StreamInv'
  <1> USE DEF StreamInv, StreamTypeOK
  <1>0. Capacity \in Nat \ {0} /\ Len(queue) \in Nat
    BY StreamAssumption
  <1>1. CASE ReadLine
    BY <1>1, <1>0 DEF ReadLine, HoldsNewest, LossCounted, PollKnows, LastKnows
  <1>2. CASE Put
    <2>1. /\ queue' \in Seq(Nat)
          /\ Len(queue') = Len(queue) + 1
          /\ \A i \in 1..Len(queue) : queue'[i] = queue[i]
          /\ queue'[Len(queue) + 1] = made + 1
      BY <1>2, AppendFacts DEF Put
    <2>2. HoldsNewest'
      BY <2>1, <1>2, <1>0 DEF Put, HoldsNewest
    <2>3. LossCounted'
      BY <2>1, <1>2, <1>0 DEF Put, HoldsNewest, LossCounted
    <2>4. \A p \in Pollers : (PollKnows(p) /\ LastKnows(p))'
      BY <1>2 DEF Put, PollKnows, LastKnows
    <2> QED
      BY <2>1, <2>2, <2>3, <2>4, <1>2 DEF Put
  <1>3. CASE PutFull
    BY <1>3, <1>0 DEF PutFull, HoldsNewest, LossCounted, PollKnows, LastKnows
  <1>4. CASE Evict
    <2>1. /\ HoldsNewest'
          /\ queue' \in Seq(Nat)
          /\ Len(queue') = Len(queue) - 1
          /\ Len(queue) \in Nat \ {0}
      BY <1>4, TailHoldsNewest DEF Evict
    <2>2. LossCounted'
      BY <2>1, <1>4, <1>0 DEF Evict, LossCounted, HoldsNewest
    <2>3. \A p \in Pollers : (PollKnows(p) /\ LastKnows(p))'
      BY <1>4 DEF Evict, PollKnows, LastKnows
    <2> QED
      BY <2>1, <2>2, <2>3, <1>4 DEF Evict
  <1>5. CASE EvictNothing
    BY <1>5, <1>0 DEF EvictNothing, HoldsNewest, LossCounted, PollKnows, LastKnows
  <1>6. CASE CountDrop
    BY <1>6, <1>0 DEF CountDrop, HoldsNewest, LossCounted, PollKnows, LastKnows
  <1>7. CASE EndOfOutput
    BY <1>7, <1>0 DEF EndOfOutput, HoldsNewest, LossCounted, PollKnows, LastKnows
  <1>8. CASE ReaderDies
    BY <1>8, <1>0 DEF ReaderDies, HoldsNewest, LossCounted, PollKnows, LastKnows
  <1>9. CASE StopMarks
    BY <1>9, <1>0 DEF StopMarks, HoldsNewest, LossCounted, PollKnows, LastKnows
  <1> QED
    BY <1>1, <1>2, <1>3, <1>4, <1>5, <1>6, <1>7, <1>8, <1>9 DEF Enqueue

LEMMA PollKeepsInv ==
    ASSUME StreamInv, NEW p \in Pollers, Poll(p)
    PROVE  StreamInv'
  <1> USE DEF StreamInv, StreamTypeOK
  <1>0. MaxItems \in Nat \ {0}
    BY StreamAssumption
  <1>1. CASE BeginPoll(p)
    BY <1>1, <1>0 DEF BeginPoll, HoldsNewest, LossCounted, PollKnows, LastKnows, Polls
  <1>2. CASE TakeItem(p)
    <2>1. /\ HoldsNewest'
          /\ queue' \in Seq(Nat)
          /\ Len(queue') = Len(queue) - 1
          /\ Len(queue) \in Nat \ {0}
      BY <1>2, TailHoldsNewest DEF TakeItem
    <2>2. LossCounted'
      BY <2>1, <1>2 DEF TakeItem, LossCounted, HoldsNewest
    <2>3. poll[p] \in Polls /\ poll[p].count + 1 \in 0..MaxItems
      BY <1>2, <1>0 DEF TakeItem, Polls
    <2>4. poll' \in [Pollers -> Polls]
      BY <2>3, <1>2 DEF TakeItem, Polls
    <2>5. received' \in [Pollers -> Seq(Nat)]
      <3>1. Head(queue) \in Nat
        BY <1>2, TailFacts DEF TakeItem
      <3>2. Append(received[p], Head(queue)) \in Seq(Nat)
        BY <3>1, AppendFacts
      <3> QED
        BY <3>2, <1>2 DEF TakeItem
    <2>6. \A q \in Pollers : (PollKnows(q) /\ LastKnows(q))'
      BY <1>2 DEF TakeItem, PollKnows, LastKnows, Polls
    <2> QED
      BY <2>1, <2>2, <2>4, <2>5, <2>6, <1>2 DEF TakeItem
  <1>3. CASE TakeNoMore(p)
    <2>1. poll' \in [Pollers -> Polls]
      BY <1>3 DEF TakeNoMore, Polls
    <2>2. \A q \in Pollers : (PollKnows(q) /\ LastKnows(q))'
      BY <1>3, <1>0 DEF TakeNoMore, PollKnows, LastKnows, Polls
    <2> QED
      BY <2>1, <2>2, <1>3 DEF TakeNoMore, HoldsNewest, LossCounted
  <1>4. CASE ReadStopped(p)
    <2>1. poll' \in [Pollers -> Polls]
      BY <1>4 DEF ReadStopped, Polls
    <2>2. \A q \in Pollers : (PollKnows(q) /\ LastKnows(q))'
      BY <1>4, <1>0 DEF ReadStopped, PollKnows, LastKnows, Polls
    <2> QED
      BY <2>1, <2>2, <1>4 DEF ReadStopped, HoldsNewest, LossCounted
  <1>5. CASE Reply(p)
    <2>1. last' \in [Pollers -> Replies] /\ poll' \in [Pollers -> Polls]
      BY <1>5, <1>0 DEF Reply, Polls, Replies
    <2>2. \A q \in Pollers : (PollKnows(q) /\ LastKnows(q))'
      BY <1>5 DEF Reply, PollKnows, LastKnows, LossCounted, Polls, Replies
    <2> QED
      BY <2>1, <2>2, <1>5 DEF Reply, HoldsNewest, LossCounted
  <1> QED
    BY <1>1, <1>2, <1>3, <1>4, <1>5 DEF Poll

LEMMA StutterKeepsInv == StreamInv /\ UNCHANGED vars => StreamInv'
  BY DEF vars, StreamInv, StreamTypeOK, HoldsNewest, LossCounted, PollKnows, LastKnows

\* The invariant all the results rest on.
THEOREM StreamInvariant == Spec => []StreamInv
  <1>1. StreamInv /\ [Next]_vars => StreamInv'
    BY ReaderKeepsInv, PollKeepsInv, StutterKeepsInv DEF Next
  <1> QED
    BY InitInv, <1>1, PTL DEF Spec

\* Every variable of the queue and its clients keeps its type.
THEOREM StreamTypes == Spec => []StreamTypeOK
  <1>1. StreamInv => StreamTypeOK
    BY DEF StreamInv
  <1> QED
    BY StreamInvariant, <1>1, PTL

\* For any capacity and any number of clients polling at once, a poll that began
\* after the end of the output and came back short has told its client all.
THEOREM FinalPolls == Spec => []FinalPollIsComplete
  <1>1. StreamInv => FinalPollIsComplete
    BY DEF StreamInv, LastKnows, FinalPollIsComplete
  <1> QED
    BY StreamInvariant, <1>1, PTL

-----------------------------------------------------------------------------
(* The refinement.                                                         *)

Oldest == made + 1 - Len(queue)

LEMMA InitRefines == Init => Stream!Init
  BY DEF Init, Stream!Init

\* Only Put, Evict, CountDrop and TakeItem show through the refinement mapping.
LEMMA StepRefines ==
    ASSUME StreamInv, [Next]_vars
    PROVE  [Stream!Next]_(Stream!svars)
  <1> USE DEF StreamInv, StreamTypeOK
  <1>0. Capacity \in Nat \ {0} /\ Len(queue) \in Nat
    BY StreamAssumption
  <1>1. CASE Put
    <2>1. Len(queue') = Len(queue) + 1
      BY <1>1, AppendFacts DEF Put
    <2>2. Stream!Make
      BY <2>1, <1>0, <1>1 DEF Put, Stream!Make
    <2> QED
      BY <2>2 DEF Stream!Next
  <1>2. CASE Evict
    <2>1. Len(queue') = Len(queue) - 1 /\ Len(queue) \in Nat \ {0}
      BY <1>2, TailHoldsNewest DEF Evict
    <2>2. Stream!Lose
      BY <2>1, <1>2 DEF Evict, LossCounted, Stream!Lose, Stream!Leaves
    <2> QED
      BY <2>2 DEF Stream!Next
  <1>3. CASE CountDrop
    <2>1. Stream!Tell
      BY <1>3 DEF CountDrop, LossCounted, Stream!Tell
    <2> QED
      BY <2>1 DEF Stream!Next
  <1>4. ASSUME NEW p \in Pollers, TakeItem(p)
        PROVE  Stream!Next
    <2>1. /\ Len(queue') = Len(queue) - 1
          /\ Len(queue) \in Nat \ {0}
          /\ Head(queue) = made + 1 - Len(queue)
      BY <1>4, TailHoldsNewest DEF TakeItem
    <2>2. received' = [received EXCEPT ![p] = Append(@, made + 1 - Len(queue))]
      BY <2>1, <1>4, Zenon DEF TakeItem
    <2>3. Stream!Leaves /\ UNCHANGED <<made, lost, dropped>>
      BY <2>1, <1>4, SMT DEF TakeItem, Stream!Leaves
    <2>4. Stream!Take(p)
      BY <2>2, <2>3, Zenon DEF Stream!Take
    <2> QED
      BY <2>4 DEF Stream!Next
  <1>5. CASE ReadLine \/ PutFull \/ EvictNothing \/ EndOfOutput \/ ReaderDies \/ StopMarks
    BY <1>5 DEF ReadLine, PutFull, EvictNothing, EndOfOutput, ReaderDies, StopMarks,
       Stream!svars
  <1>6. ASSUME NEW p \in Pollers,
               BeginPoll(p) \/ TakeNoMore(p) \/ ReadStopped(p) \/ Reply(p)
        PROVE  UNCHANGED Stream!svars
    BY <1>6 DEF BeginPoll, TakeNoMore, ReadStopped, Reply, Stream!svars
  <1>7. CASE UNCHANGED vars
    BY <1>7 DEF vars, Stream!svars
  <1> QED
    BY <1>1, <1>2, <1>3, <1>4, <1>5, <1>6, <1>7 DEF Next, Enqueue, Poll

\* The reader thread and the polls implement the lossy stream: the racing
\* put_nowait, get_nowait and counter add up to its atomic steps.
THEOREM StreamIsLossy == Spec => IsLossyStream
  <1> QED
    BY InitRefines, StepRefines, StreamInvariant, PTL
    DEF Spec, IsLossyStream, Stream!Spec

=============================================================================
