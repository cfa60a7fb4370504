-------------------------- MODULE SchedulerRestart -------------------------
(***************************************************************************)
(* The scheduler through its restarts.                                     *)
(*                                                                         *)
(* Everything the scheduler knows is in memory.  When one of its two       *)
(* watches ends (an error, a stream that fell behind, a broken connection) *)
(* the process ends and is started again with nothing.  Each watch then    *)
(* opens with a snapshot of what is stored: pods that have a node first,   *)
(* so that their claims are counted before anything else is placed.  In    *)
(* memory the snapshot and the subscription are under one lock; with etcd  *)
(* they are two steps.  An AssignPod that the dead process had sent can    *)
(* still reach the store afterwards.                                       *)
(*                                                                         *)
(* Simplifications: those of Scheduler, but for the connection; an API     *)
(* server that restarts is seen as broken streams.                         *)
(***************************************************************************)
EXTENDS Scheduler, SequencesExt

CONSTANT
  MaxRestarts  \* bound: how often the scheduler is restarted

ASSUME NodesFinite == IsFiniteSet(Nodes)
ASSUME PodsAreNotMarks == {"gap", "outlived", "crossed", "fault"} \cap Pods = {}

VARIABLES
  stream,    \* stream[l]: "closed", "listed" (snapshot read) or "open"
  listed,    \* listed[l]: the snapshot of a stream that is not yet subscribed
  late,      \* AssignPods of earlier processes that may still arrive
  restarts,  \* restarts so far
  blemish    \* what has gone wrong that the scheduler cannot know of: all
             \* but "crossed" concern the process that runs

linkVars == <<stream, listed, late, restarts>>
allVars == <<vars, linkVars, blemish>>

Blemishes == {"gap", "outlived", "crossed", "fault"} \cup Pods

RInit ==
  /\ Init
  /\ stream = [l \in Loops |-> "open"]
  /\ listed = [l \in Loops |-> <<>>]
  /\ late = {}
  /\ restarts = 0
  /\ blemish = {}

-----------------------------------------------------------------------------
Requests == [pod: Pods, node: MaybeNodes]

(* The AssignPod that a job is waiting for.                                *)
RequestsOf(l, p) ==
  CASE job[l][p].at = "assign" -> {[pod |-> p, node |-> job[l][p].node]}
    [] job[l][p].at = "orphan" -> {[pod |-> p, node |-> NoNode]}
    [] OTHER -> {}

Outstanding == UNION {RequestsOf(l, p) : l \in Loops, p \in Pods}

RestartKeepingState ==
  /\ restarts < MaxRestarts
  /\ restarts' = restarts + 1
  /\ stream' = [l \in Loops |-> "closed"]
  /\ listed' = [l \in Loops |-> <<>>]
  /\ late' = late \cup Outstanding
  /\ todo' = {}
  /\ loop' = [l \in Loops |-> IdleLoop]
  /\ job' = [l \in Loops |-> [p \in Pods |-> NoJob]]
  /\ podFeed' = <<>>
  /\ nodeFeed' = <<>>
  /\ blemish' = blemish \cap {"crossed"}
  /\ UNCHANGED <<life, assigned, status, told, losses, faults, stateVars>>

(* supervise_watchers: a watch ends, and the process with both of them.    *)
Restart ==
  /\ restarts < MaxRestarts
  /\ restarts' = restarts + 1
  /\ stream' = [l \in Loops |-> "closed"]
  /\ listed' = [l \in Loops |-> <<>>]
  /\ late' = late \cup Outstanding
  /\ view' = [n \in Nodes |-> "UNSEEN"]
  /\ book' = [placed  |-> [p \in Pods |-> NoNode],
              claimed |-> [n \in Nodes |-> 0],
              ports   |-> [n \in Nodes |-> {}]]
  /\ pending' = {}
  /\ todo' = {}
  /\ loop' = [l \in Loops |-> IdleLoop]
  /\ job' = [l \in Loops |-> [p \in Pods |-> NoJob]]
  /\ podFeed' = <<>>
  /\ nodeFeed' = <<>>
  /\ blemish' = blemish \cap {"crossed"}
  /\ UNCHANGED <<life, assigned, status, told, losses, faults>>

Live == {p \in Pods : life[p] = "live"}
WithNode == {p \in Live : assigned[p] # NoNode}

AddedEvents(order) == [i \in DOMAIN order |-> PodEvent("ADDED", order[i], assigned[order[i]])]

PodSnapshotsUnsorted == {AddedEvents(s) : s \in SetToSeqs(Live)}
PodSnapshotsUnplaced == {AddedEvents(s) : s \in SetToSeqs(Live \ WithNode)}
PodSnapshotsPlaced == {AddedEvents(s) : s \in SetToSeqs(WithNode)}

(* subscribe_pod_events_with_snapshot: every pod as an ADDED event, those  *)
(* that have a node first, in any order otherwise.                         *)
PodSnapshots ==
  {AddedEvents(a \o b) : a \in SetToSeqs(WithNode), b \in SetToSeqs(Live \ WithNode)}

(* subscribe_node_events_with_snapshot                                     *)
NodeSnapshots ==
  {[i \in DOMAIN s |-> NodeEvent(s[i], status[s[i]])] :
     s \in SetToSeqs({n \in Nodes : status[n] # "UNSEEN"})}

Snapshots(l) == IF l = "pods" THEN PodSnapshots ELSE NodeSnapshots
Feed(l) == IF l = "pods" THEN podFeed ELSE nodeFeed

(* What a stream delivers from now on; the other stream's is unchanged.    *)
Deliver(l, events) ==
  /\ podFeed' = IF l = "pods" THEN events ELSE podFeed
  /\ nodeFeed' = IF l = "nodes" THEN events ELSE nodeFeed

StoreUntouched == UNCHANGED <<life, assigned, status, told, losses, faults, stateVars, taskVars>>

(* With etcd a stream opens with a read of the prefix ...                  *)
List(l) ==
  /\ stream[l] = "closed"
  /\ stream' = [stream EXCEPT ![l] = "listed"]
  /\ \E s \in Snapshots(l) : listed' = [listed EXCEPT ![l] = s]
  /\ Deliver(l, <<>>)
  /\ StoreUntouched
  /\ UNCHANGED <<late, restarts, blemish>>

(* ... and then subscribes.  What was published since the read is in       *)
(* neither.  In memory both happen under one lock: nothing is.             *)
Subscribe(l) ==
  /\ stream[l] = "listed"
  /\ stream' = [stream EXCEPT ![l] = "open"]
  /\ Deliver(l, listed[l])
  /\ listed' = [listed EXCEPT ![l] = <<>>]
  /\ blemish' = IF Feed(l) = <<>> THEN blemish ELSE blemish \cup {"gap"}
  /\ StoreUntouched
  /\ UNCHANGED <<late, restarts>>

(* An AssignPod of an earlier process reaches the store.                   *)
LateAssign ==
  \E r \in late :
    /\ life[r.pod] = "live"
    /\ late' = late \ {r}
    /\ assigned' = [assigned EXCEPT ![r.pod] = r.node]
    /\ podFeed' = Append(podFeed,
                         PodEvent(IF r.node = NoNode THEN "MODIFIED" ELSE "SCHEDULED", r.pod, r.node))
    /\ told' = IF r.node \in Nodes /\ status[r.node] = "READY"
                 THEN [told EXCEPT ![r.pod] = @ \cup {r.node}] ELSE told
    /\ blemish' = blemish \cup {"outlived", "crossed"}
    /\ UNCHANGED <<life, status, nodeFeed, losses, faults, stateVars, taskVars>>
    /\ UNCHANGED <<stream, listed, restarts>>

Other(l) == IF l = "nodes" THEN "pods" ELSE "nodes"

(* A pod is placed whose removal the scheduler has dealt with already: the *)
(* AssignPod will be answered not-found, which takes the pod off the       *)
(* pending ones but leaves the room it was given.                          *)
BookedTooLate(p) ==
  /\ book' # book /\ book'.placed[p] # NoNode
  /\ life[p] = "gone"
  /\ \A i \in DOMAIN podFeed : podFeed[i].pod # p

(* The steps of Scheduler.  A failed RPC is a blemish until the next       *)
(* restart, and so are two AssignPods about one pod that are under way at  *)
(* the same time: they can arrive in either order.                         *)
RJobStep(l, p) ==
  /\ JobStep(l, p)
  /\ blemish' = blemish \cup (IF faults' # faults THEN {"fault"} ELSE {})
                        \cup (IF RequestsOf(l, p) # {} /\ RequestsOf(Other(l), p) # {}
                                THEN {p} ELSE {})
                        \cup (IF BookedTooLate(p) THEN {p} ELSE {})
  /\ UNCHANGED linkVars

REnvironment == Environment /\ UNCHANGED <<linkVars, blemish>>
RNodesStep == stream["nodes"] = "open" /\ NodesStep /\ UNCHANGED <<linkVars, blemish>>
RPodsStep == stream["pods"] = "open" /\ PodsStep /\ UNCHANGED <<linkVars, blemish>>
Reconnect(l) == List(l) \/ Subscribe(l)

RNext ==
  \/ REnvironment
  \/ RNodesStep
  \/ RPodsStep
  \/ \E l \in Loops, p \in Pods : RJobStep(l, p)
  \/ \E l \in Loops : Reconnect(l)
  \/ Restart
  \/ LateAssign

RSpec == RInit /\ [][RNext]_allVars

-----------------------------------------------------------------------------
RTypeOK ==
  /\ TypeOK
  /\ stream \in [Loops -> {"closed", "listed", "open"}]
  /\ listed["pods"] \in Seq(PodEvents) /\ listed["nodes"] \in Seq(NodeEvents)
  /\ DOMAIN listed = Loops
  /\ late \in SUBSET Requests
  /\ restarts \in Nat
  /\ blemish \in SUBSET Blemishes

Connected == \A l \in Loops : stream[l] = "open"
RAtRest == AtRest /\ Connected

(* At rest the scheduler counts every stored placement, also those that an *)
(* earlier process made: it cannot overbook a node for not knowing what    *)
(* runs there (subscribe_pod_events_with_snapshot, watch_pods).  Except    *)
(* for what fell between an etcd snapshot and its subscription, and, until *)
(* the next restart, for an orphaning that failed (it leaves the pod with  *)
(* its node in the store, and pending here).                               *)
StoredPlacementsAreCounted ==
  RAtRest /\ blemish \cap {"gap", "fault"} = {} =>
    \A p \in WithNode : book.placed[p] = assigned[p]

(* At rest a pod without a node is pending, so that the next node event or *)
(* removal retries it: also one that an earlier process placed without     *)
(* being able to say so, or left in neither place (try_schedule's failed   *)
(* AssignPod is only logged).  Until the next restart the exceptions are a *)
(* failed RPC and decisions about one pod that overtake one another, which *)
(* SchedulerPending shows, and which a lost node multiplies.               *)
UnplacedIsRetried ==
  RAtRest /\ losses = 0 /\ blemish \cap {"gap", "outlived", "fault"} = {} =>
    \A p \in Live \ WithNode : p \in pending \cup blemish

(* A restarted scheduler counts what runs before it places anything: as    *)
(* long as no node was lost and no request of an earlier process has ever  *)
(* arrived late (it can place a pod where its successor has placed another *)
(* one, and every later process finds both stored), no two pods of a node  *)
(* bind the same host port and no node has more pods than room.            *)
SharedThroughRestarts ==
  losses = 0 /\ "crossed" \notin blemish => NodesAreShared

(* No pod is on two nodes that both run it, through sweeps that overlap    *)
(* and RPCs that fail, as long as no node is lost (SchedulerDouble) and    *)
(* the scheduler is not restarted: a request that arrives late, or a pod   *)
(* that SchedulerPending's race left without a node while it runs, is then *)
(* placed again.                                                           *)
PlacedOnce == losses = 0 /\ restarts = 0 => NoDoublePlacement

(* A restart forgets nothing that matters: at rest a pod removed while the *)
(* scheduler was away holds no room, no port and no place among the        *)
(* pending pods.  (A failed orphaning parks its pod without knowing that   *)
(* it is gone; the next sweep is told so.)                                 *)
RemovedThroughRestarts ==
  RAtRest /\ blemish \cap {"gap", "fault"} = {} =>
    \A p \in Pods : life[p] = "gone" /\ p \notin blemish => ~Placed(p) /\ p \notin pending

-----------------------------------------------------------------------------
(* Where the store has a pod, and what ends the promise about it.          *)
Where == [p \in Pods |-> IF life[p] = "live" THEN assigned[p] ELSE NoNode]
Disturbed == losses > 0 \/ "crossed" \in blemish

(* The groups of pods that one node can run.                               *)
Fitting ==
  {group \in SUBSET Pods :
     /\ Cardinality(group) < Room
     /\ \A p, q \in group : p # q => HostPorts[p] \cap HostPorts[q] = {}}

Placement == INSTANCE Placement WITH node <- Where, disturbed <- Disturbed

(* What is stored is an undisturbed placement, whatever the scheduler has  *)
(* in its books and wherever it is restarted: a step that gives a pod a    *)
(* node finds the pod without one and the pods stored on that node leave   *)
(* it room and its host ports, though the decision was made earlier, under *)
(* a lock that has been released since (place, try_schedule, assign_pod).  *)
ImplementsPlacement == Placement!Spec
=============================================================================
