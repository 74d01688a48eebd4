--------------------------- MODULE MCStreamQueue ---------------------------
(* StreamQueue for TLC.  Liveness is checked, so no symmetry is used.       *)
EXTENDS StreamQueue, TLC

=============================================================================
