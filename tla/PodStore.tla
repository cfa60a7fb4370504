------------------------------ MODULE PodStore ------------------------------
(***************************************************************************)
(* The pods of the API server's store, and the calls that change them:     *)
(* create_pod, remove_pod, update_and_publish_pod, update_pod_status, each *)
(* run on behalf of a handler and interleaved with the others.             *)
(*                                                                         *)
(* In etcd an update is a read, then a transaction that compares the key's *)
(* version with the one that was read; a removal is a read, then a delete. *)
(* In memory each is one step under the write lock.                        *)
(*                                                                         *)
(* etcd keeps two numbers per key that the code's correctness hangs on:    *)
(* the version, which counts the puts since the key was last created, and  *)
(* the create revision, which tells one life of the key from the next and  *)
(* which the code never reads (here: life).                                *)
(*                                                                         *)
(* Simplifications: a pod's spec is the life whose CreatePod wrote it;     *)
(* runtime details other than placement and status are left out;           *)
(* undecodable records do not occur; of the pod feed only the last event   *)
(* about each pod is kept.                                                 *)
(***************************************************************************)
EXTENDS Naturals

CONSTANTS
  Pods,        \* (namespace, name) keys
  Nodes,       \* names of the nodes
  NoNode,      \* the empty node_name
  Calls,       \* calls the server handles at a time
  Mtls,        \* the server checks that a node reports its own pods
  MaxLives,    \* bound: times a name is created
  MaxVersion   \* bound: puts in one life of a key

ASSUME NoNodeIsNoNode == NoNode \notin Nodes
ASSUME BoundsAreNat == MaxLives \in Nat /\ MaxVersion \in Nat

VARIABLES
  backend,   \* "etcd" or "memory"; fixed when the server is started
  pods,      \* pods[p]: the stored record, NoPod when the key does not exist
  lives,     \* lives[p]: how many times p has been created
  calls,     \* calls[c]: the call that c runs, and how far it has come
  feed       \* feed[p]: the life the last event about p tells of, and its kind

storeVars == <<backend, pods, lives, calls, feed>>

PodStatuses == {"PENDING", "RUNNING", "FAILED", "NO_NODE_AVAILABLE", "UNKNOWN"}
MaybeNodes == Nodes \cup {NoNode}
Records == [version: Nat, life: Nat, spec: Nat, node: MaybeNodes, status: PodStatuses]
NoPod == [version |-> 0, life |-> 0, spec |-> 0, node |-> NoNode, status |-> "PENDING"]

Exists(p) == pods[p].version > 0

(* What a caller can ask of an existing pod: AssignPod's three outcomes,   *)
(* and UpdatePodStatus from the agent of a node.                           *)
Assignments ==
       [op: {"place"}, node: Nodes, status: {"PENDING"}]
  \cup [op: {"unplace"}, node: {NoNode}, status: {"NO_NODE_AVAILABLE", "UNKNOWN"}]
Reports == [op: {"report"}, node: Nodes, status: {"RUNNING", "FAILED"}]
Creation == [op |-> "create", node |-> NoNode, status |-> "PENDING"]
Removal == [op |-> "remove", node |-> NoNode, status |-> "PENDING"]
Requests == Assignments \cup Reports \cup {Creation, Removal}
Updates == {"place", "unplace", "report"}

(* The mutate closures: AssignPod sets placement and status, a report only *)
(* the status.                                                             *)
Mutate(rec, req) ==
  [rec EXCEPT !.node = IF req.op = "report" THEN @ ELSE req.node, !.status = req.status]

Phases == {"checked", "read", "committed", "done", "refused"}
Idle == [phase |-> "idle"]
CallStates == [phase: Phases, req: Requests, pod: Pods, rec: Records]

IsIdle(c) == calls[c].phase = "idle"
IsAt(c, phase, ops) == calls[c].phase = phase /\ calls[c].req.op \in ops
Call(phase, req, p, rec) == [phase |-> phase, req |-> req, pod |-> p, rec |-> rec]
Turn(c, call) == calls' = [calls EXCEPT ![c] = call]
Begin(c, phase, req, p, rec) == Turn(c, Call(phase, req, p, rec))
Become(c, phase, rec) == Begin(c, phase, calls[c].req, calls[c].pod, rec)

(* A placement or a removal has yet to be told to a node; the handlers of  *)
(* the other calls end with the event.                                     *)
Ended(c, req, p, rec) ==
  Turn(c, IF req.op \in {"place", "remove"} THEN Call("done", req, p, rec) ELSE Idle)

Event(rec, req) ==
  [life |-> rec.life, kind |-> CASE req.op = "create" -> "ADDED"
                                 [] req.op = "remove" -> "DELETED"
                                 [] req.op = "place" -> "SCHEDULED"
                                 [] OTHER -> "MODIFIED"]

Init ==
  /\ backend \in {"etcd", "memory"}
  /\ pods = [p \in Pods |-> NoPod]
  /\ lives = [p \in Pods |-> 0]
  /\ calls = [c \in Calls |-> Idle]
  /\ feed = [p \in Pods |-> [life |-> 0, kind |-> "NONE"]]

-----------------------------------------------------------------------------
CreateKeepingStatus(c, p) ==
  /\ IsIdle(c)
  /\ ~Exists(p)
  /\ lives[p] < MaxLives
  /\ LET life == lives[p] + 1
         rec == [NoPod EXCEPT !.version = 1, !.life = life, !.spec = life, !.status = "UNSPECIFIED"]
     IN  /\ pods' = [pods EXCEPT ![p] = rec]
         /\ lives' = [lives EXCEPT ![p] = life]
         /\ Begin(c, "committed", Creation, p, rec)
  /\ UNCHANGED <<backend, feed>>

(* CreatePod, create_pod: stores the pod only if the key does not exist;   *)
(* the caller of an existing one is told so and nothing changes.           *)
Create(c, p) ==
  /\ IsIdle(c)
  /\ ~Exists(p)
  /\ lives[p] < MaxLives
  /\ LET life == lives[p] + 1
         rec == [NoPod EXCEPT !.version = 1, !.life = life, !.spec = life]
     IN  /\ pods' = [pods EXCEPT ![p] = rec]
         /\ lives' = [lives EXCEPT ![p] = life]
         /\ Begin(c, "committed", Creation, p, rec)
  /\ UNCHANGED <<backend, feed>>

(* UpdatePodStatus first looks the pod up to compare its owner with the    *)
(* caller.                                                                 *)
CheckReport(c, p, req) ==
  /\ IsIdle(c)
  /\ Exists(p)
  /\ Mtls => pods[p].node = req.node
  /\ Begin(c, "checked", req, p, NoPod)
  /\ UNCHANGED <<backend, pods, lives, feed>>

(* By the time of the update the pod is gone.                              *)
ReportGone(c) ==
  /\ IsAt(c, "checked", {"report"})
  /\ ~Exists(calls[c].pod)
  /\ Become(c, "refused", NoPod)
  /\ UNCHANGED <<backend, pods, lives, feed>>

(* The reads in etcd.  A removal goes on to its delete whatever it read.   *)
ReadForReport(c) ==
  /\ backend = "etcd"
  /\ IsAt(c, "checked", {"report"})
  /\ Exists(calls[c].pod)
  /\ Become(c, "read", pods[calls[c].pod])
  /\ UNCHANGED <<backend, pods, lives, feed>>

ReadForAssign(c, p, req) ==
  /\ backend = "etcd"
  /\ IsIdle(c)
  /\ Exists(p)
  /\ Begin(c, "read", req, p, pods[p])
  /\ UNCHANGED <<backend, pods, lives, feed>>

ReadForRemoval(c, p) ==
  /\ backend = "etcd"
  /\ IsIdle(c)
  /\ Begin(c, "read", Removal, p, pods[p])
  /\ UNCHANGED <<backend, pods, lives, feed>>

(* A put replaces the value by the mutated copy of what was read; etcd     *)
(* bumps the version and keeps the create revision.                        *)
Put(c) ==
  LET p == calls[c].pod
      rec == [Mutate(calls[c].rec, calls[c].req) EXCEPT
                !.version = pods[p].version + 1, !.life = pods[p].life]
  IN  /\ pods[p].version < MaxVersion
      /\ pods' = [pods EXCEPT ![p] = rec]
      /\ Become(c, "committed", rec)

CommitIfThere(c) ==
  /\ IsAt(c, "read", Updates)
  /\ IF Exists(calls[c].pod)
       THEN Put(c)
       ELSE Become(c, "refused", calls[c].rec) /\ UNCHANGED pods
  /\ UNCHANGED <<backend, lives, feed>>

CommitBlindly(c) ==
  /\ IsAt(c, "read", Updates)
  /\ Put(c)
  /\ UNCHANGED <<backend, lives, feed>>

(* The transaction of an update: it puts if the key's version is the one   *)
(* that was read, and otherwise the caller is told the pod was not found.  *)
Commit(c) ==
  /\ IsAt(c, "read", Updates)
  /\ IF pods[calls[c].pod].version = calls[c].rec.version
       THEN Put(c)
       ELSE Become(c, "refused", calls[c].rec) /\ UNCHANGED pods
  /\ UNCHANGED <<backend, lives, feed>>

DeleteIgnoringConflict(c) ==
  LET p == calls[c].pod
  IN  /\ IsAt(c, "read", {"remove"})
      /\ pods' = IF pods[p].version = calls[c].rec.version
                   THEN [pods EXCEPT ![p] = NoPod] ELSE pods
      /\ Become(c, IF calls[c].rec = NoPod THEN "refused" ELSE "committed", calls[c].rec)
      /\ UNCHANGED <<backend, lives, feed>>

(* The delete of a removal is unconditional; only a pod that was read is   *)
(* announced and returned.                                                 *)
Delete(c) ==
  /\ IsAt(c, "read", {"remove"})
  /\ pods' = [pods EXCEPT ![calls[c].pod] = NoPod]
  /\ Become(c, IF calls[c].rec = NoPod THEN "refused" ELSE "committed", calls[c].rec)
  /\ UNCHANGED <<backend, lives, feed>>

(* In memory an update or a removal happens, event included, under the     *)
(* lock.                                                                   *)
ChangeInMemory(p, req, rec) ==
  /\ backend = "memory"
  /\ Exists(p)
  /\ pods' = [pods EXCEPT ![p] = rec]
  /\ feed' = [feed EXCEPT ![p] = Event(pods[p], req)]
  /\ UNCHANGED <<backend, lives>>

Mutated(p, req) == [Mutate(pods[p], req) EXCEPT !.version = @ + 1]

AssignInMemory(c, p, req) ==
  /\ IsIdle(c)
  /\ pods[p].version < MaxVersion
  /\ ChangeInMemory(p, req, Mutated(p, req))
  /\ Ended(c, req, p, Mutated(p, req))

ReportInMemory(c) ==
  LET p == calls[c].pod
  IN  /\ IsAt(c, "checked", {"report"})
      /\ pods[p].version < MaxVersion
      /\ ChangeInMemory(p, calls[c].req, Mutated(p, calls[c].req))
      /\ Ended(c, calls[c].req, p, Mutated(p, calls[c].req))

RemoveInMemory(c, p) ==
  /\ IsIdle(c)
  /\ ChangeInMemory(p, Removal, NoPod)
  /\ Ended(c, Removal, p, pods[p])

RemoveNothing(c, p) ==
  /\ backend = "memory"
  /\ IsIdle(c)
  /\ ~Exists(p)
  /\ Begin(c, "refused", Removal, p, NoPod)
  /\ UNCHANGED <<backend, pods, lives, feed>>

(* Elsewhere the event is published once the store has answered.           *)
Announce(c) ==
  /\ calls[c].phase = "committed"
  /\ feed' = [feed EXCEPT ![calls[c].pod] = Event(calls[c].rec, calls[c].req)]
  /\ Ended(c, calls[c].req, calls[c].pod, calls[c].rec)
  /\ UNCHANGED <<backend, pods, lives>>

(* The handler ends.                                                       *)
Return(c) ==
  /\ calls[c].phase \in {"done", "refused"}
  /\ Turn(c, Idle)
  /\ UNCHANGED <<backend, pods, lives, feed>>

(* The client goes away while the call waits, or etcd fails: the call ends *)
(* where it stands.                                                        *)
Abandon(c) ==
  /\ \/ calls[c].phase = "checked"
     \/ backend = "etcd" /\ calls[c].phase \in {"read", "committed"}
  /\ Turn(c, Idle)
  /\ UNCHANGED <<backend, pods, lives, feed>>

Request(c, p) ==
  \/ Create(c, p)
  \/ ReadForRemoval(c, p)
  \/ RemoveInMemory(c, p)
  \/ RemoveNothing(c, p)
  \/ \E req \in Assignments : ReadForAssign(c, p, req) \/ AssignInMemory(c, p, req)
  \/ \E req \in Reports : CheckReport(c, p, req)

Progress(c) ==
  \/ ReportGone(c)
  \/ ReadForReport(c)
  \/ ReportInMemory(c)
  \/ Commit(c)
  \/ Delete(c)
  \/ Announce(c)
  \/ Return(c)
  \/ Abandon(c)

Next == \E c \in Calls : Progress(c) \/ \E p \in Pods : Request(c, p)

Spec == Init /\ [][Next]_storeVars

-----------------------------------------------------------------------------
TypeOK ==
  /\ backend \in {"etcd", "memory"}
  /\ pods \in [Pods -> Records]
  /\ lives \in [Pods -> Nat]
  /\ calls \in [Calls -> CallStates \cup {Idle}]
  /\ feed \in [Pods -> [life: Nat, kind: {"NONE", "ADDED", "SCHEDULED", "MODIFIED", "DELETED"}]]

(* Until its name is used again, a pod is a pod of the registry in which   *)
(* every call is one step: the interleaving of reads, transactions and     *)
(* deletes loses no update, moves no placement with a status report and    *)
(* brings no removed pod back (create_pod, remove_pod and the two updates).*)
Seen(rec) == IF rec.version > 0 /\ rec.life = 1
               THEN [node |-> rec.node, status |-> rec.status]
               ELSE [node |-> NoNode, status |-> "ABSENT"]
Registry == INSTANCE PodRegistry WITH
  pods <- [p \in Pods |-> Seen(pods[p])],
  used <- {p \in Pods : lives[p] > 0}

ImplementsRegistry == Registry!Spec

(* A removed pod comes back only as a new pod: whatever update was under   *)
(* way, a key appears with the record of a fresh CreatePod, in a life of   *)
(* its own.                                                                *)
NoResurrection ==
  [][\A p \in Pods :
       ~Exists(p) /\ Exists(p)' =>
         /\ pods'[p].life = lives[p] + 1 /\ lives'[p] = lives[p] + 1
         /\ pods'[p].node = NoNode /\ pods'[p].status = "PENDING"]_storeVars

(* Once a DELETED event is out, the pod it tells of is gone for good: no   *)
(* update that had read it, and no event still to come, has it stored      *)
(* again (remove_pod against the two updates).                             *)
AnnouncedRemovalIsFinal ==
  \A p \in Pods : feed[p].kind = "DELETED" => pods[p].life # feed[p].life

-----------------------------------------------------------------------------
(* What comments of the code promise and its steps do not keep.            *)

(* "Uses an etcd Txn to ensure the key version hasn't changed between read *)
(* and write": the spec a pod is stored with is the one it was created     *)
(* with.  The version starts again at one with each life of a key, so a    *)
(* record that was read in one life can be written back into the next.     *)
SpecIsCreated == \A p \in Pods : pods[p].spec = pods[p].life
=============================================================================
