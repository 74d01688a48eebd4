-------------------------- MODULE MCSubscriptions --------------------------
(* Subscriptions for TLC.  DELETE handlers and process ids are              *)
(* interchangeable, each among themselves.                                  *)
EXTENDS Subscriptions, TLC

Symmetry == Permutations(Deleters) \cup Permutations(Pids)

=============================================================================
