---------------------------- MODULE MCInstances ----------------------------
(* Instances for TLC. *)
EXTENDS Instances, TLC

Symmetry == Permutations(Runs)

=============================================================================
