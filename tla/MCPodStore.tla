----------------------------- MODULE MCPodStore -----------------------------
(* Small instances of PodStore for TLC, of one name: names do not share    *)
(* state.                                                                  *)
EXTENDS PodStore, TLC

Symmetry == Permutations(Calls) \cup Permutations(Nodes)
=============================================================================
