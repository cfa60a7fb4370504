------------------------- MODULE MCWorkloadNetwork -------------------------
(* WorkloadNetwork for TLC: whatever there are several of is alike.        *)
EXTENDS WorkloadNetwork, TLC

Symmetry ==
  UNION {Permutations(S) : S \in {Workloads, Addresses, Ports, Peers}}
=============================================================================
