----------------------------- MODULE Placement -----------------------------
(***************************************************************************)
(* What the scheduler and the API server promise together about the        *)
(* placements that are stored.  A pod that has no node may be given one,   *)
(* if it fits beside the pods stored on that node; a pod that has a node   *)
(* may lose it, never exchange it for another.  The promise ends when a    *)
(* node is lost or a process of the scheduler interferes with its          *)
(* successor: then a pod may go astray.                                    *)
(***************************************************************************)
CONSTANTS
  Pods,     \* names of the pods
  Nodes,    \* names of the nodes
  NoNode,   \* the empty node_name
  Fitting   \* the groups of pods that a node has room and host ports for

VARIABLES
  life,      \* life[p]: "new", "live" or "gone"
  node,      \* node[p]: where p is stored to be, if it is live
  disturbed  \* the promise has ended

Companions(p, n) == {q \in Pods : node[q] = n} \cup {p}

Init ==
  /\ life = [p \in Pods |-> "new"]
  /\ node = [p \in Pods |-> NoNode]
  /\ disturbed = FALSE

Create(p) ==
  /\ life[p] = "new"
  /\ life' = [life EXCEPT ![p] = "live"]
  /\ UNCHANGED <<node, disturbed>>

Remove(p) ==
  /\ life[p] = "live"
  /\ life' = [life EXCEPT ![p] = "gone"]
  /\ node' = [node EXCEPT ![p] = NoNode]
  /\ UNCHANGED disturbed

Place(p, n) ==
  /\ life[p] = "live" /\ node[p] \in {NoNode, n}
  /\ Companions(p, n) \in Fitting
  /\ node' = [node EXCEPT ![p] = n]
  /\ UNCHANGED <<life, disturbed>>

Unplace(p) ==
  /\ life[p] = "live"
  /\ node' = [node EXCEPT ![p] = NoNode]
  /\ UNCHANGED <<life, disturbed>>

Disturb == disturbed' = TRUE /\ UNCHANGED <<life, node>>

Stray(p, n) ==
  /\ life[p] = "live"
  /\ node' = [node EXCEPT ![p] = n]
  /\ disturbed' = TRUE
  /\ UNCHANGED life

Next ==
  \/ \E p \in Pods : Create(p) \/ Remove(p) \/ Unplace(p)
  \/ \E p \in Pods, n \in Nodes : Place(p, n)
  \/ Disturb
  \/ \E p \in Pods, n \in Nodes \cup {NoNode} : Stray(p, n)

Spec == Init /\ [][Next]_<<life, node, disturbed>>
=============================================================================
