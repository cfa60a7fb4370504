--------------------------- MODULE MCDesiredState ---------------------------
(* A small instance of DesiredState for TLC.                               *)
EXTENDS DesiredState, TLC

Symmetry == Permutations(Calls)
=============================================================================
