---------------------------- MODULE PodRegistry ----------------------------
(***************************************************************************)
(* What the API server promises about the first pod of each name: its      *)
(* record is created, changed and removed as if each call were a single    *)
(* step.  The scheduler's outcomes replace placement and status, an        *)
(* agent's report changes the status alone, and no call based on an older  *)
(* record undoes a newer one or brings a removed pod back.                 *)
(***************************************************************************)
CONSTANTS
  Pods,    \* names of the pods
  Nodes,   \* names of the nodes
  NoNode   \* the empty node_name

VARIABLES
  pods,    \* pods[p]: placement and status, Absent when there is no pod p
  used     \* the names that have been created

Absent == [node |-> NoNode, status |-> "ABSENT"]
Stored(p) == pods[p] # Absent

Init ==
  /\ pods = [p \in Pods |-> Absent]
  /\ used = {}

Create(p) ==
  /\ p \notin used
  /\ pods' = [pods EXCEPT ![p] = [node |-> NoNode, status |-> "PENDING"]]
  /\ used' = used \cup {p}

Place(p) ==
  /\ Stored(p)
  /\ \E n \in Nodes : pods' = [pods EXCEPT ![p] = [node |-> n, status |-> "PENDING"]]
  /\ UNCHANGED used

Unplace(p) ==
  /\ Stored(p)
  /\ \E s \in {"NO_NODE_AVAILABLE", "UNKNOWN"} :
       pods' = [pods EXCEPT ![p] = [node |-> NoNode, status |-> s]]
  /\ UNCHANGED used

Report(p) ==
  /\ Stored(p)
  /\ \E s \in {"RUNNING", "FAILED"} :
       pods' = [pods EXCEPT ![p] = [node |-> pods[p].node, status |-> s]]
  /\ UNCHANGED used

Remove(p) ==
  /\ Stored(p)
  /\ pods' = [pods EXCEPT ![p] = Absent]
  /\ UNCHANGED used

Next == \E p \in Pods : Create(p) \/ Place(p) \/ Unplace(p) \/ Report(p) \/ Remove(p)

Spec == Init /\ [][Next]_<<pods, used>>
=============================================================================
