--------------------------- MODULE MCNodeLiveness ---------------------------
(* A small instance of NodeLiveness for TLC.                               *)
EXTENDS NodeLiveness, TLC

Symmetry == Permutations(Nodes) \cup Permutations(Slots)
=============================================================================
