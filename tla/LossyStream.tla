---------------------------- MODULE LossyStream ----------------------------
(***************************************************************************)
(* What a Tier B subscription promises its clients: a bounded stream that  *)
(* sheds its oldest items.                                                 *)
(*                                                                         *)
(* Items are numbered in the order the child wrote them.  An item leaves   *)
(* the stream once, oldest first, either to one poll or lost.  One item at *)
(* most is lost for each item that comes after the first Capacity, so a    *)
(* stream that is not behind loses nothing; and the clients are told of no *)
(* loss that did not happen.                                               *)
(***************************************************************************)
EXTENDS Naturals, Sequences

CONSTANTS Capacity,  \* items held at most
          Pollers    \* clients that poll, each one poll after another

VARIABLES made,      \* number of the newest item
          next,      \* number of the oldest item that has not left
          received,  \* received[p]: the items p was given, in order
          lost,      \* how many were lost
          dropped    \* how many losses the clients are told of

svars == <<made, next, received, lost, dropped>>

Init ==
    /\ made = 0
    /\ next = 1
    /\ received = [p \in Pollers |-> <<>>]
    /\ lost = 0
    /\ dropped = 0

Make ==
    /\ made + 1 < next + Capacity
    /\ made' = made + 1
    /\ UNCHANGED <<next, received, lost, dropped>>

Leaves == next <= made /\ next' = next + 1

Take(p) ==
    /\ Leaves
    /\ received' = [received EXCEPT ![p] = Append(@, next)]
    /\ UNCHANGED <<made, lost, dropped>>

Lose ==
    /\ Leaves
    /\ lost + Capacity <= made
    /\ lost' = lost + 1
    /\ UNCHANGED <<made, received, dropped>>

Tell ==
    /\ dropped < lost
    /\ dropped' = dropped + 1
    /\ UNCHANGED <<made, next, received, lost>>

Next == Make \/ (\E p \in Pollers : Take(p)) \/ Lose \/ Tell

Spec == Init /\ [][Next]_svars

=============================================================================
