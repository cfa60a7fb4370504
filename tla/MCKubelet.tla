----------------------------- MODULE MCKubelet -----------------------------
(* Small instances of Kubelet for TLC.                                     *)
EXTENDS Kubelet, TLC

Symmetry == Permutations(Pods) \cup Permutations(Containers)

Known ==
  {p \in Pods :
     \/ op # Idle /\ op.p = p
     \/ vlans[p] # NoVlan \/ (file # Torn /\ file[p] # NoVlan)
     \/ cgroup[p] # "absent"
     \/ \E c \in Containers : ctr[p][c] # "none" \/ net[p][c] # NoNet}

Used ==
  {c \in Containers :
     \/ op # Idle /\ c \in op.spec
     \/ \E p \in Pods : ctr[p][c] # "none" \/ net[p][c] # NoNet}

Limited ==
  {p \in Pods :
     \/ op # Idle /\ op.p = p /\ op.limits # "max"
     \/ cgroup[p] \notin {"absent", "max"}}

(* Bound: one pod, with limits and without; two pods without limits and    *)
(* one failure; or more pods, of one container and without limits, and as  *)
(* many failures as there may be.                                          *)
Bounded ==
  \/ Cardinality(Known) <= 1
  \/ Limited = {} /\ Cardinality(Known) <= 2 /\ faults <= 1
  \/ Limited = {} /\ Cardinality(Used) <= 1
=============================================================================
