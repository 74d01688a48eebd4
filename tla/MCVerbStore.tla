---------------------------- MODULE MCVerbStore ----------------------------
(* VerbStore for TLC: threads are interchangeable.                         *)
EXTENDS VerbStore, TLC

ThreadSymmetry == Permutations(Threads)

=============================================================================
