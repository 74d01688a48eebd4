---------------------------- MODULE StreamQueue ----------------------------
(***************************************************************************)
(* The queue between the reader thread of a subscription and the handler   *)
(* threads that poll it (dispatch/tier_b.py: _read_lines and poll).        *)
(*                                                                         *)
(* queue.Queue makes put_nowait and get_nowait atomic and nothing else:    *)
(* "full" or "empty" may be out of date when the next call comes, and poll *)
(* reads .stopped and .dropped after it has emptied the queue.             *)
(*                                                                         *)
(* Items are the numbers of the lines that reach the queue; what a line    *)
(* says, and whether it parses, is left out.                               *)
(***************************************************************************)
EXTENDS Naturals, Sequences

CONSTANTS Capacity,  \* QUEUE_MAX
          MaxItems,  \* max_items of poll
          Pollers,   \* clients that poll, each one poll after another
          MaxMade    \* bound: the child writes this many lines

ASSUME StreamAssumption ==
    /\ Capacity \in Nat \ {0}
    /\ MaxItems \in Nat \ {0}
    /\ MaxMade \in Nat

VARIABLES queue,     \* sub.queue
          reader,    \* where the reader thread is
          made,      \* the items it has put in the queue
          dropped,   \* sub.dropped
          stopped,   \* sub.stopped
          poll,      \* poll[p]: the poll p is in
          last,      \* history: what the last poll of p told it
          received,  \* history: all items p was given
          lost       \* history: the items the reader took out

vars == <<queue, reader, made, dropped, stopped, poll, last, received, lost>>

Polls == [at: {"idle", "taking", "stopped", "dropped"},
          count: 0..MaxItems,   \* len(items)
          over: BOOLEAN,        \* history: had the reader ended when it began?
          stopped: BOOLEAN]     \* the value for the reply

Replies == [count: 0..MaxItems, over: BOOLEAN, stopped: BOOLEAN, dropped: Nat]

StreamTypeOK ==
    /\ queue \in Seq(Nat)
    /\ reader \in {"reading", "putting", "evicting", "counting", "ended", "dead"}
    /\ made \in Nat
    /\ dropped \in Nat
    /\ stopped \in BOOLEAN
    /\ poll \in [Pollers -> Polls]
    /\ last \in [Pollers -> Replies]
    /\ received \in [Pollers -> Seq(Nat)]
    /\ lost \in Nat

-----------------------------------------------------------------------------
(* The reader thread.                                                      *)

ReadLine ==
    /\ reader = "reading"
    /\ made < MaxMade
    /\ reader' = "putting"
    /\ UNCHANGED <<queue, made, dropped, stopped, poll, last, received, lost>>

Put ==
    /\ reader = "putting"
    /\ Len(queue) < Capacity
    /\ queue' = Append(queue, made + 1)
    /\ made' = made + 1
    /\ reader' = "reading"
    /\ UNCHANGED <<dropped, stopped, poll, last, received, lost>>

\* Mistake: put for put_nowait.
PutFullWaits ==
    /\ reader = "putting"
    /\ Len(queue) = Capacity
    /\ UNCHANGED vars

PutFull ==
    /\ reader = "putting"
    /\ Len(queue) = Capacity
    /\ reader' = "evicting"
    /\ UNCHANGED <<queue, made, dropped, stopped, poll, last, received, lost>>

\* Mistake: the newest item goes.
EvictNewest ==
    /\ reader = "evicting"
    /\ queue # <<>>
    /\ queue' = SubSeq(queue, 1, Len(queue) - 1)
    /\ lost' = lost + 1
    /\ reader' = "counting"
    /\ UNCHANGED <<made, dropped, stopped, poll, last, received>>

\* get_nowait: by now the queue may have room, the oldest item goes all the same.
Evict ==
    /\ reader = "evicting"
    /\ queue # <<>>
    /\ queue' = Tail(queue)
    /\ lost' = lost + 1
    /\ reader' = "counting"
    /\ UNCHANGED <<made, dropped, stopped, poll, last, received>>

\* Polls have emptied it meanwhile.
EvictNothing ==
    /\ reader = "evicting"
    /\ queue = <<>>
    /\ reader' = "putting"
    /\ UNCHANGED <<queue, made, dropped, stopped, poll, last, received, lost>>

\* Mistake: the loss is not counted.
CountNoDrop ==
    /\ reader = "counting"
    /\ reader' = "putting"
    /\ UNCHANGED <<queue, made, dropped, stopped, poll, last, received, lost>>

CountDrop ==
    /\ reader = "counting"
    /\ dropped' = dropped + 1
    /\ reader' = "putting"
    /\ UNCHANGED <<queue, made, stopped, poll, last, received, lost>>

\* End of output, and _mark_stopped.
EndOfOutput ==
    /\ reader = "reading"
    /\ reader' = "ended"
    /\ stopped' = TRUE
    /\ UNCHANGED <<queue, made, dropped, poll, last, received, lost>>

\* A line that is not UTF-8: the thread ends without marking anything.
ReaderDies ==
    /\ reader = "reading"
    /\ reader' = "dead"
    /\ UNCHANGED <<queue, made, dropped, stopped, poll, last, received, lost>>

\* stop() on a DELETE marks the subscription whether or not the reader has
\* seen the end of the output.
StopMarks ==
    /\ ~stopped
    /\ stopped' = TRUE
    /\ UNCHANGED <<queue, reader, made, dropped, poll, last, received, lost>>

-----------------------------------------------------------------------------
(* poll                                                                    *)

BeginPoll(p) ==
    /\ poll[p].at = "idle"
    /\ poll' = [poll EXCEPT ![p] = [at |-> "taking", count |-> 0,
                                    over |-> reader = "ended", stopped |-> FALSE]]
    /\ UNCHANGED <<queue, reader, made, dropped, stopped, last, received, lost>>

\* Mistake: max_items is not heeded.
TakeAnyItem(p) ==
    /\ poll[p].at = "taking"
    /\ queue # <<>>
    /\ queue' = Tail(queue)
    /\ received' = [received EXCEPT ![p] = Append(@, Head(queue))]
    /\ poll' = [poll EXCEPT ![p].count = @ + 1]
    /\ UNCHANGED <<reader, made, dropped, stopped, last, lost>>

TakeItem(p) ==
    /\ poll[p].at = "taking" /\ poll[p].count < MaxItems
    /\ queue # <<>>
    /\ queue' = Tail(queue)
    /\ received' = [received EXCEPT ![p] = Append(@, Head(queue))]
    /\ poll' = [poll EXCEPT ![p].count = @ + 1]
    /\ UNCHANGED <<reader, made, dropped, stopped, last, lost>>

TakeNoMore(p) ==
    /\ poll[p].at = "taking"
    /\ poll[p].count = MaxItems \/ queue = <<>>
    /\ poll' = [poll EXCEPT ![p].at = "stopped"]
    /\ UNCHANGED <<queue, reader, made, dropped, stopped, last, received, lost>>

ReadStopped(p) ==
    /\ poll[p].at = "stopped"
    /\ poll' = [poll EXCEPT ![p].at = "dropped", ![p].stopped = stopped]
    /\ UNCHANGED <<queue, reader, made, dropped, stopped, last, received, lost>>

Reply(p) ==
    /\ poll[p].at = "dropped"
    /\ last' = [last EXCEPT ![p] = [count |-> poll[p].count, over |-> poll[p].over,
                                    stopped |-> poll[p].stopped, dropped |-> dropped]]
    /\ poll' = [poll EXCEPT ![p].at = "idle"]
    /\ UNCHANGED <<queue, reader, made, dropped, stopped, received, lost>>

-----------------------------------------------------------------------------
Init ==
    /\ queue = <<>>
    /\ reader = "reading"
    /\ made = 0
    /\ dropped = 0
    /\ stopped = FALSE
    /\ poll = [p \in Pollers |-> [at |-> "idle", count |-> 0, over |-> FALSE,
                                  stopped |-> FALSE]]
    /\ last = [p \in Pollers |-> [count |-> 0, over |-> FALSE, stopped |-> FALSE,
                                  dropped |-> 0]]
    /\ received = [p \in Pollers |-> <<>>]
    /\ lost = 0

\* An item in hand goes on its way, without waiting for anything.
Enqueue == Put \/ PutFull \/ Evict \/ EvictNothing \/ CountDrop

Poll(p) == BeginPoll(p) \/ TakeItem(p) \/ TakeNoMore(p) \/ ReadStopped(p) \/ Reply(p)

Next ==
    \/ ReadLine \/ Enqueue \/ EndOfOutput \/ ReaderDies
    \/ StopMarks
    \/ \E p \in Pollers : Poll(p)

Spec == Init /\ [][Next]_vars

\* The reader thread is scheduled; nothing is assumed of the polls.
FairSpec == Spec /\ WF_vars(Enqueue)

-----------------------------------------------------------------------------
(* Properties.                                                             *)

Stream == INSTANCE LossyStream WITH next <- made + 1 - Len(queue)

\* The reader and any number of polls together are the lossy stream: no item is
\* given to two polls, none leaves before an older one, none is lost without
\* need or without being counted, whatever "full" and "empty" were worth.
IsLossyStream == Stream!Spec

\* The "final drain" of tier_b.py:32: a poll that began after the output had
\* ended and came back with fewer items than it may carry has told its client
\* everything: nothing is left, "stopped" is set and "dropped" is exact.
FinalPollIsComplete ==
    \A p \in Pollers : last[p].over /\ last[p].count < MaxItems =>
        queue = <<>> /\ last[p].stopped /\ last[p].dropped = lost

\* "drop-oldest": a client that never polls cannot hold the reader up, and so
\* the child behind it, nor can polls that come at the worst moment.
ReaderNeverBlocks == reader = "putting" ~> reader = "reading"

=============================================================================
