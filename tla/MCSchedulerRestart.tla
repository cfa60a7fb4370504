------------------------- MODULE MCSchedulerRestart ------------------------
(* Small instances of SchedulerRestart for TLC: the pods want the same     *)
(* host port of their node, all but some that bind none.                   *)
EXTENDS SchedulerRestart, TLC

CONSTANT Portless

SamePort == [p \in Pods |-> IF p \in Portless THEN {} ELSE {80}]

Symmetry == Permutations(Pods \ Portless) \cup Permutations(Nodes)

(* Bound: three pods on one node or two on two nodes until the first       *)
(* restart; two pods on one node or one on two through a restart; and one  *)
(* pod with a lost node and a failed RPC, on two nodes until the restart   *)
(* and then on one.  Not followed further is an opening that lost an event *)
(* in etcd's gap.                                                          *)
Bounded ==
  LET used  == {p \in Pods : life[p] # "new"}
      size  == Cardinality(used) + Cardinality({n \in Nodes : status[n] # "UNSEEN"})
      mixed == used \cap Portless # {}
  IN  /\ size <= (IF restarts = 0 THEN 4 ELSE 3)
      /\ mixed => restarts + losses + faults = 0
      /\ losses + faults = 0 \/ Cardinality(used) <= 1
      /\ losses + faults = 0 \/ restarts = 0 \/ size <= 2
      /\ "gap" \notin blemish
=============================================================================
