----------------------------- MODULE Scheduler ------------------------------
(***************************************************************************)
(* The scheduler: two watch loops over one state, and the API server they  *)
(* talk to.                                                                *)
(*                                                                         *)
(* watch_nodes keeps the node view and, on a node event, evicts the pods   *)
(* of a lost node or retries every pending pod; watch_pods schedules new   *)
(* pods, records placements it is told of, and on a removal retries the    *)
(* pending pods too.  The state's lock is held for one step at a time and  *)
(* released across every RPC, so the loops, and the pods of a retry sweep  *)
(* with one another, run interleaved on what may have changed meanwhile.   *)
(* AssignPod can fail, and is answered not-found for a pod that is gone or *)
(* whose record changed under it.                                          *)
(*                                                                         *)
(* Simplifications:                                                        *)
(*  - AssignPod and its event are one step, and events arrive in the order *)
(*    of the changes (PodStore has the store's own interleavings);         *)
(*  - the scheduler is connected before the first pod and stays connected  *)
(*    (SchedulerRestart has its restarts and its watches' snapshots);      *)
(*  - a name is used once; nodes are READY or NOT_READY;                   *)
(*  - every pod asks for one unit of every resource, and every node has    *)
(*    the same, unchanging number of units (Room).                         *)
(***************************************************************************)
EXTENDS Naturals, FiniteSets, Sequences

CONSTANTS
  Pods,        \* (namespace, name) keys
  Nodes,       \* names of the nodes
  NoNode,      \* the empty node_name
  Room,        \* units a node can allocate
  HostPorts,   \* HostPorts[p]: the host ports p binds on its node
  MaxLosses,   \* bound: how often a node is lost
  MaxFaults    \* bound: how often AssignPod fails or finds the record changed

ASSUME NoNodeIsNoNode == NoNode \notin Nodes
ASSUME PodsFinite == IsFiniteSet(Pods)
ASSUME HostPortsOfPods == DOMAIN HostPorts = Pods
ASSUME RoomIsNat == Room \in Nat

VARIABLES
  (* The API server and the agents.                                        *)
  life,      \* life[p]: "new", "live" or "gone"
  assigned,  \* assigned[p]: the stored node_name
  status,    \* status[n]: "UNSEEN" before it registers
  told,      \* told[p]: nodes told to run p, not told to stop it, not lost since
  podFeed,   \* pod events the scheduler has not taken yet
  nodeFeed,  \* node events the scheduler has not taken yet
  losses,    \* node losses so far
  faults,    \* AssignPod faults so far
  (* The scheduler.                                                        *)
  view,      \* view[n]: status in the last event about n
  book,      \* placements, claimed and claimed_ports
  pending,   \* pods seen and not placed
  todo,      \* pods evicted from a lost node and still to be rescheduled
  loop,      \* loop[l]: what loop l does next, before its next event
  job        \* job[l][p]: how far l's rescheduling of p has come

apiVars == <<life, assigned, status, told, podFeed, nodeFeed, losses, faults>>
stateVars == <<view, book, pending>>
taskVars == <<todo, loop, job>>
vars == <<apiVars, stateVars, taskVars>>

Loops == {"nodes", "pods"}
MaybeNodes == Nodes \cup {NoNode}
AnyPort == UNION {HostPorts[p] : p \in Pods}
Statuses == {"UNSEEN", "NOT_READY", "READY"}

IdleLoop == [at |-> "idle"]
NoJob == [at |-> "none"]

PodEvent(kind, p, n) == [kind |-> kind, pod |-> p, node |-> n]
NodeEvent(n, s) == [node |-> n, status |-> s]

Init ==
  /\ life = [p \in Pods |-> "new"]
  /\ assigned = [p \in Pods |-> NoNode]
  /\ status = [n \in Nodes |-> "UNSEEN"]
  /\ told = [p \in Pods |-> {}]
  /\ podFeed = <<>>
  /\ nodeFeed = <<>>
  /\ losses = 0
  /\ faults = 0
  /\ view = [n \in Nodes |-> "UNSEEN"]
  /\ book = [placed  |-> [p \in Pods |-> NoNode],
             claimed |-> [n \in Nodes |-> 0],
             ports   |-> [n \in Nodes |-> {}]]
  /\ pending = {}
  /\ todo = {}
  /\ loop = [l \in Loops |-> IdleLoop]
  /\ job = [l \in Loops |-> [p \in Pods |-> NoJob]]

-----------------------------------------------------------------------------
(* BasicScheduler.                                                         *)

Placed(p) == book.placed[p] # NoNode
PlacedOn(b, n) == {p \in Pods : b.placed[p] = n}

(* release_placement                                                       *)
Release(b, p) ==
  LET n == b.placed[p]
  IN  IF n = NoNode THEN b
      ELSE [placed  |-> [b.placed EXCEPT ![p] = NoNode],
            claimed |-> [b.claimed EXCEPT ![n] = @ - 1],
            ports   |-> [b.ports EXCEPT ![n] = @ \ HostPorts[p]]]

Claim(b, p, n) ==
  [placed  |-> [b.placed EXCEPT ![p] = n],
   claimed |-> [b.claimed EXCEPT ![n] = @ + 1],
   ports   |-> [b.ports EXCEPT ![n] = @ \cup HostPorts[p]]]

RecordKeepingClaim(b, p, n) == Claim(b, p, n)

(* record_placement: recorded again for the same node, nothing changes.    *)
Record(b, p, n) == IF b.placed[p] = n THEN b ELSE Claim(Release(b, p), p, n)

EvictedKeepingPlacements(b, n) ==
  [b EXCEPT !.claimed[n] = @ - Cardinality(PlacedOn(b, n)),
            !.ports[n] = @ \ UNION {HostPorts[p] : p \in PlacedOn(b, n)}]

(* evict_node                                                              *)
Evicted(b, n) ==
  [placed  |-> [p \in Pods |-> IF b.placed[p] = n THEN NoNode ELSE b.placed[p]],
   claimed |-> [b.claimed EXCEPT ![n] = @ - Cardinality(PlacedOn(b, n))],
   ports   |-> [b.ports EXCEPT ![n] = @ \ UNION {HostPorts[p] : p \in PlacedOn(b, n)}]]

(* place: a ready node with more room than the pod asks for, on which none *)
(* of its host ports is claimed, and of those one that is least used.      *)
Candidates(p) ==
  {n \in Nodes : /\ view[n] = "READY"
                 /\ book.claimed[n] + 1 < Room
                 /\ HostPorts[p] \cap book.ports[n] = {}}

Elected(p) ==
  {n \in Candidates(p) : \A m \in Candidates(p) : book.claimed[n] <= book.claimed[m]}

-----------------------------------------------------------------------------
(* Users and agents, as far as the scheduler sees them.                    *)

CreatePod(p) ==
  /\ life[p] = "new"
  /\ life' = [life EXCEPT ![p] = "live"]
  /\ podFeed' = Append(podFeed, PodEvent("ADDED", p, NoNode))
  /\ UNCHANGED <<assigned, status, told, nodeFeed, losses, faults, stateVars, taskVars>>

(* The node in the removed record is told to stop the pod.                 *)
DeletePod(p) ==
  /\ life[p] = "live"
  /\ life' = [life EXCEPT ![p] = "gone"]
  /\ told' = [told EXCEPT ![p] = @ \ {assigned[p]}]
  /\ podFeed' = Append(podFeed, PodEvent("DELETED", p, assigned[p]))
  /\ UNCHANGED <<assigned, status, nodeFeed, losses, faults, stateVars, taskVars>>

NodeRegisters(n) ==
  /\ status[n] = "UNSEEN"
  /\ status' = [status EXCEPT ![n] = "NOT_READY"]
  /\ nodeFeed' = Append(nodeFeed, NodeEvent(n, "NOT_READY"))
  /\ UNCHANGED <<life, assigned, told, podFeed, losses, faults, stateVars, taskVars>>

(* The agent's stream opens: with the pods that are assigned to its node.  *)
NodeConnects(n) ==
  /\ status[n] = "NOT_READY"
  /\ status' = [status EXCEPT ![n] = "READY"]
  /\ told' = [p \in Pods |-> IF life[p] = "live" /\ assigned[p] = n
                               THEN told[p] \cup {n} ELSE told[p]]
  /\ nodeFeed' = Append(nodeFeed, NodeEvent(n, "READY"))
  /\ UNCHANGED <<life, assigned, podFeed, losses, faults, stateVars, taskVars>>

(* Its stream ends: nothing vouches for its pods any more.                 *)
NodeIsLost(n) ==
  /\ status[n] = "READY"
  /\ losses < MaxLosses
  /\ losses' = losses + 1
  /\ status' = [status EXCEPT ![n] = "NOT_READY"]
  /\ told' = [p \in Pods |-> told[p] \ {n}]
  /\ nodeFeed' = Append(nodeFeed, NodeEvent(n, "NOT_READY"))
  /\ UNCHANGED <<life, assigned, podFeed, faults, stateVars, taskVars>>

-----------------------------------------------------------------------------
(* The loops.  A loop takes its next event when it is done with the last.  *)

NoJobs(l) == \A p \in Pods : job[l][p] = NoJob
Free(l) == loop[l] = IdleLoop /\ NoJobs(l) /\ (l = "nodes" => todo = {})
Goto(l, next) == loop' = [loop EXCEPT ![l] = next]
Start(l, p, next) == job' = [job EXCEPT ![l][p] = next]
Done(l, p) == Start(l, p, NoJob)

(* upsert_node says whether pending pods should be retried: for a new node *)
(* and for one that recovers.                                              *)
ShouldRetry(e) == view[e.node] = "UNSEEN" \/ (e.status = "READY" /\ view[e.node] # "READY")

(* watch_nodes                                                             *)
TakeNodeEvent ==
  /\ Free("nodes")
  /\ nodeFeed # <<>>
  /\ LET e == Head(nodeFeed)
     IN  /\ view' = [view EXCEPT ![e.node] = e.status]
         /\ Goto("nodes", CASE e.status = "NOT_READY" -> [at |-> "evict", node |-> e.node]
                            [] e.status = "READY" /\ ShouldRetry(e) -> [at |-> "sweep"]
                            [] OTHER -> IdleLoop)
  /\ nodeFeed' = Tail(nodeFeed)
  /\ UNCHANGED <<life, assigned, status, told, podFeed, losses, faults, book, pending, todo, job>>

(* reschedule_orphaned_pods: evict_node ...                                *)
Evict ==
  /\ loop["nodes"].at = "evict"
  /\ LET n == loop["nodes"].node
     IN  /\ todo' = PlacedOn(book, n)
         /\ book' = Evicted(book, n)
  /\ Goto("nodes", IdleLoop)
  /\ UNCHANGED <<apiVars, view, pending, job>>

(* ... then the evicted pods one after the other.                          *)
NextOrphan(p) ==
  /\ p \in todo
  /\ NoJobs("nodes")
  /\ todo' = todo \ {p}
  /\ Start("nodes", p, [at |-> "orphan"])
  /\ UNCHANGED <<apiVars, stateVars, loop>>

(* watch_pods, a removed pod: only a placement that is released frees      *)
(* room that is worth a sweep.                                             *)
TakeRemoval ==
  /\ Free("pods")
  /\ podFeed # <<>>
  /\ LET e == Head(podFeed)
     IN  /\ e.kind = "DELETED"
         /\ pending' = pending \ {e.pod}
         /\ book' = Release(book, e.pod)
         /\ Goto("pods", IF Placed(e.pod) THEN [at |-> "sweep"] ELSE IdleLoop)
  /\ podFeed' = Tail(podFeed)
  /\ UNCHANGED <<life, assigned, status, told, nodeFeed, losses, faults, view, todo, job>>

(* watch_pods, a pod with a node: it is orphaned if the node is known to   *)
(* be lost; otherwise its placement is recorded, under another acquisition *)
(* of the lock.                                                            *)
TakePlacement ==
  /\ Free("pods")
  /\ podFeed # <<>>
  /\ LET e == Head(podFeed)
     IN  /\ e.kind # "DELETED" /\ e.node # NoNode
         /\ IF view[e.node] = "NOT_READY"
              THEN Start("pods", e.pod, [at |-> "orphan"]) /\ UNCHANGED loop
              ELSE /\ Goto("pods", [at |-> "record", pod |-> e.pod, node |-> e.node])
                   /\ UNCHANGED job
  /\ podFeed' = Tail(podFeed)
  /\ UNCHANGED <<life, assigned, status, told, nodeFeed, losses, faults, stateVars, todo>>

RecordPlacement ==
  /\ loop["pods"].at = "record"
  /\ pending' = pending \ {loop["pods"].pod}
  /\ book' = Record(book, loop["pods"].pod, loop["pods"].node)
  /\ Goto("pods", IdleLoop)
  /\ UNCHANGED <<apiVars, view, todo, job>>

TakeUnplacedOfAnyKind ==
  /\ Free("pods")
  /\ podFeed # <<>>
  /\ LET e == Head(podFeed)
     IN  /\ e.kind # "DELETED" /\ e.node = NoNode
         /\ Start("pods", e.pod, [at |-> "try"])
  /\ podFeed' = Tail(podFeed)
  /\ UNCHANGED <<life, assigned, status, told, nodeFeed, losses, faults, stateVars, todo, loop>>

(* watch_pods, a pod without a node: only a new one is scheduled, not one  *)
(* the scheduler itself has just left without a node.                      *)
TakeUnplaced ==
  /\ Free("pods")
  /\ podFeed # <<>>
  /\ LET e == Head(podFeed)
     IN  /\ e.kind # "DELETED" /\ e.node = NoNode
         /\ IF e.kind = "ADDED" THEN Start("pods", e.pod, [at |-> "try"]) ELSE UNCHANGED job
  /\ podFeed' = Tail(podFeed)
  /\ UNCHANGED <<life, assigned, status, told, nodeFeed, losses, faults, stateVars, todo, loop>>

(* retry_pending: a task for every pod that is pending now.                *)
Sweep(l) ==
  /\ loop[l].at = "sweep"
  /\ job' = [job EXCEPT ![l] = [p \in Pods |-> IF p \in pending THEN [at |-> "retry"] ELSE NoJob]]
  /\ Goto(l, IdleLoop)
  /\ UNCHANGED <<apiVars, stateVars, todo>>

-----------------------------------------------------------------------------
(* Rescheduling one pod: reschedule_one_orphaned_pod, try_schedule.        *)

(* AssignPod with an orphaned_reason.                                      *)
Orphan(l, p) ==
  /\ job[l][p].at = "orphan"
  /\ life[p] = "live"
  /\ assigned' = [assigned EXCEPT ![p] = NoNode]
  /\ podFeed' = Append(podFeed, PodEvent("MODIFIED", p, NoNode))
  /\ Start(l, p, [at |-> "try"])
  /\ UNCHANGED <<life, status, told, nodeFeed, losses, faults, stateVars, todo, loop>>

OrphanGone(l, p) ==
  /\ job[l][p].at = "orphan"
  /\ life[p] # "live"
  /\ Done(l, p)
  /\ UNCHANGED <<apiVars, stateVars, todo, loop>>

(* The RPC fails: the pod is parked; or the record changed under it: the   *)
(* pod is skipped as one that is gone.                                     *)
OrphanFails(l, p) ==
  /\ job[l][p].at = "orphan"
  /\ faults < MaxFaults
  /\ faults' = faults + 1
  /\ pending' \in {pending, pending \cup {p}}
  /\ Done(l, p)
  /\ UNCHANGED <<life, assigned, status, told, podFeed, nodeFeed, losses, view, book, todo, loop>>

PlaceUnrecorded(l, p) ==  \* wrong: the room is claimed when the event comes
  \/ Candidates(p) = {} /\ pending' = pending \cup {p} /\ UNCHANGED book
     /\ Start(l, p, [at |-> "assign", node |-> NoNode])
  \/ \E n \in Elected(p) :
       pending' = pending \ {p} /\ Start(l, p, [at |-> "assign", node |-> n]) /\ UNCHANGED book

(* The lock is held: the pod is placed, or left pending, and AssignPod is  *)
(* to say which.                                                           *)
Place(l, p) ==
  \/ /\ Candidates(p) = {}
     /\ pending' = pending \cup {p}
     /\ Start(l, p, [at |-> "assign", node |-> NoNode])
     /\ UNCHANGED book
  \/ \E n \in Elected(p) :
       /\ pending' = pending \ {p}
       /\ book' = Record(book, p, n)
       /\ Start(l, p, [at |-> "assign", node |-> n])

RetryUnchecked(l, p) ==
  /\ job[l][p].at = "retry"
  /\ Place(l, p)
  /\ UNCHANGED <<apiVars, view, todo, loop>>

Try(l, p) ==
  /\ job[l][p].at = "try"
  /\ Place(l, p)
  /\ UNCHANGED <<apiVars, view, todo, loop>>

(* only_if_pending: in a sweep the pod is placed only if nobody has        *)
(* resolved it since the sweep began.                                      *)
Retry(l, p) ==
  /\ job[l][p].at = "retry"
  /\ IF p \in pending
       THEN Place(l, p)
       ELSE Done(l, p) /\ UNCHANGED <<pending, book>>
  /\ UNCHANGED <<apiVars, view, todo, loop>>

(* AssignPod with a node_name or an unschedulable_reason; an agent that    *)
(* watches is told to run the pod.                                         *)
Assign(l, p) ==
  /\ job[l][p].at = "assign"
  /\ life[p] = "live"
  /\ LET n == job[l][p].node
     IN  /\ assigned' = [assigned EXCEPT ![p] = n]
         /\ podFeed' = Append(podFeed,
                              PodEvent(IF n = NoNode THEN "MODIFIED" ELSE "SCHEDULED", p, n))
         /\ told' = IF n \in Nodes /\ status[n] = "READY"
                      THEN [told EXCEPT ![p] = @ \cup {n}] ELSE told
  /\ Done(l, p)
  /\ UNCHANGED <<life, status, nodeFeed, losses, faults, stateVars, todo, loop>>

(* Not found: because the pod is gone, or the record changed under it.     *)
NotFound(l, p) ==
  /\ job[l][p].at = "assign"
  /\ \/ life[p] # "live" /\ UNCHANGED faults
     \/ life[p] = "live" /\ faults < MaxFaults /\ faults' = faults + 1
  /\ Start(l, p, [at |-> "drop"])
  /\ UNCHANGED <<life, assigned, status, told, podFeed, nodeFeed, losses, stateVars, todo, loop>>

DropPending(l, p) ==
  /\ job[l][p].at = "drop"
  /\ pending' = pending \ {p}
  /\ Done(l, p)
  /\ UNCHANGED <<apiVars, view, book, todo, loop>>

(* Any other failure is only logged.                                       *)
AssignFails(l, p) ==
  /\ job[l][p].at = "assign"
  /\ faults < MaxFaults
  /\ faults' = faults + 1
  /\ Done(l, p)
  /\ UNCHANGED <<life, assigned, status, told, podFeed, nodeFeed, losses, stateVars, todo, loop>>

-----------------------------------------------------------------------------
JobStep(l, p) ==
  \/ Orphan(l, p)
  \/ OrphanGone(l, p)
  \/ OrphanFails(l, p)
  \/ Try(l, p)
  \/ Retry(l, p)
  \/ Assign(l, p)
  \/ NotFound(l, p)
  \/ DropPending(l, p)
  \/ AssignFails(l, p)

NodesStep == TakeNodeEvent \/ Evict \/ Sweep("nodes") \/ \E p \in Pods : NextOrphan(p)
PodsStep == TakeRemoval \/ TakePlacement \/ RecordPlacement \/ TakeUnplaced \/ Sweep("pods")

Environment ==
  \/ \E p \in Pods : CreatePod(p) \/ DeletePod(p)
  \/ \E n \in Nodes : NodeRegisters(n) \/ NodeConnects(n) \/ NodeIsLost(n)

Next ==
  \/ Environment
  \/ NodesStep
  \/ PodsStep
  \/ \E l \in Loops, p \in Pods : JobStep(l, p)

Spec == Init /\ [][Next]_vars

(* The loops run on, and an RPC is answered, one way or another.  Users,   *)
(* agents and failures owe nothing.                                        *)
Fairness ==
  /\ WF_vars(NodesStep)
  /\ WF_vars(PodsStep)
  /\ \A l \in Loops, p \in Pods : WF_vars(JobStep(l, p))

FairSpec == Spec /\ Fairness

-----------------------------------------------------------------------------
PodEvents == [kind: {"ADDED", "SCHEDULED", "MODIFIED", "DELETED"}, pod: Pods, node: MaybeNodes]
NodeEvents == [node: Nodes, status: {"NOT_READY", "READY"}]
Books == [placed: [Pods -> MaybeNodes], claimed: [Nodes -> Nat], ports: [Nodes -> SUBSET AnyPort]]
LoopStates ==
       {IdleLoop} \cup [at: {"sweep"}] \cup [at: {"evict"}, node: Nodes]
  \cup [at: {"record"}, pod: Pods, node: Nodes]
JobStates == [at: {"none", "orphan", "try", "retry", "drop"}] \cup [at: {"assign"}, node: MaybeNodes]

TypeOK ==
  /\ life \in [Pods -> {"new", "live", "gone"}]
  /\ assigned \in [Pods -> MaybeNodes]
  /\ status \in [Nodes -> Statuses]
  /\ told \in [Pods -> SUBSET Nodes]
  /\ podFeed \in Seq(PodEvents)
  /\ nodeFeed \in Seq(NodeEvents)
  /\ losses \in Nat
  /\ faults \in Nat
  /\ view \in [Nodes -> Statuses]
  /\ book \in Books
  /\ pending \in SUBSET Pods
  /\ todo \in SUBSET Pods
  /\ loop \in [Loops -> LoopStates]
  /\ job \in [Loops -> [Pods -> JobStates]]

(* Nothing is on its way to the scheduler and it does nothing.             *)
AtRest == podFeed = <<>> /\ nodeFeed = <<>> /\ \A l \in Loops : Free(l)

(* What is claimed of a node is what the pods placed on it ask for,        *)
(* through moves, evictions and repeated records: no room leaks and none   *)
(* is given twice (record_placement, release_placement, evict_node).       *)
ClaimsMatchPlacements ==
  \A n \in Nodes : book.claimed[n] = Cardinality(PlacedOn(book, n))

(* Two sweeps, a new pod's scheduling and failing RPCs never put one pod   *)
(* on two nodes that both run it (try_schedule, only_if_pending), as long  *)
(* as no node is lost: SchedulerDouble shows what a lost node does.        *)
NoDoublePlacement == \A p \in Pods : Cardinality(told[p]) <= 1

(* Two pods placed on the same node never bind the same host port, and no  *)
(* node has more pods than room for them (place).                          *)
NodesAreShared ==
  \A n \in Nodes :
    /\ book.claimed[n] = 0 \/ book.claimed[n] < Room
    /\ \A p, q \in PlacedOn(book, n) : p # q => HostPorts[p] \cap HostPorts[q] = {}

(* The scheduler never chases its own writes: with no news from users and  *)
(* agents it comes to rest ("would make the scheduler retry-loop against   *)
(* its own writes forever").                                               *)
ComesToRest == <>[]AtRest

-----------------------------------------------------------------------------
(* What comments of the code promise and its steps do not keep.            *)

(* "keeps `pending` in sync so a later node event can retry an             *)
(* unschedulable pod": at rest, a pod without a node is pending.  Two      *)
(* sweeps decide one after the other, and their AssignPods arrive in the   *)
(* other order.  Stated of runs in which no RPC fails.                     *)
UnplacedIsPending ==
  AtRest => \A p \in Pods : life[p] = "live" /\ assigned[p] = NoNode => p \in pending
=============================================================================
