------------------------------ MODULE Kubelet -------------------------------
(***************************************************************************)
(* The Kubelet service of a node's agent: ApplyPod recreates a pod's       *)
(* cgroup and containers and attaches each container to the pod's VLAN,    *)
(* DeletePod takes them down.                                              *)
(*                                                                         *)
(* The agent calls one at a time.  Each is a sequence of requests to       *)
(* containerd and to the CNI daemon, which outlive the agent and can fail  *)
(* it, of changes to the pod's cgroup, and of changes to the VLAN map,     *)
(* which is kept in memory and mirrored to a file.  The agent can stop     *)
(* between any two of them and in the middle of writing the file.          *)
(*                                                                         *)
(* Simplifications:                                                        *)
(*  - a pod's containers are taken in any order; a container's processes   *)
(*    run until it is removed, and its link goes with it;                  *)
(*  - the CNI daemon's calls succeed or fail as a whole (WorkloadNetwork   *)
(*    has their steps) and its ports and addresses do not run out;         *)
(*  - a pod either declares limits or declares none; the values written to *)
(*    its cgroup's three files are not told apart further.                 *)
(***************************************************************************)
EXTENDS Naturals, FiniteSets

CONSTANTS
  Pods,         \* pod ids
  Containers,   \* container names
  FirstVlan,    \* what VlanAllocations hands out ...
  LastVlan,     \* ... to pods
  CniLastVlan,  \* the last VLAN the CNI daemon accepts
  Torn,         \* the content of a file that cannot be parsed
  MaxCrashes,   \* bound: how often the agent stops
  MaxFaults     \* bound: how often a request or a file write fails

ASSUME VlansAreNumbers ==
  FirstVlan \in Nat \ {0} /\ LastVlan \in Nat /\ CniLastVlan \in Nat
ASSUME BoundsAreNumbers == MaxCrashes \in Nat /\ MaxFaults \in Nat

VARIABLES
  up,        \* the agent runs
  vlans,     \* vlans[p]: the VLAN p has in memory, NoVlan when none
  file,      \* what vlans.json holds, or Torn
  ctr,       \* ctr[p][c]: what containerd has of a container
  net,       \* net[p][c]: the CNI daemon's record, and whether the link is there
  cgroup,    \* cgroup[p]: what p's cgroup enforces, "absent" when there is none
  op,        \* the call that is under way, and its next step
  crashes,   \* stops so far
  faults,    \* failures so far
  botched    \* history: a new VLAN was not saved, or the roll back of a pod
             \* neither detached nor removed a container

vars == <<up, vlans, file, ctr, net, cgroup, op, crashes, faults, botched>>

NoVlan == 0
Vlans == FirstVlan .. LastVlan
NoVlans == [p \in Pods |-> NoVlan]
NoNet == [vlan |-> NoVlan, link |-> FALSE]
Stages == {"none", "snapshot", "created", "running"}

(* Limits a pod declares, "max" for none; and the states of its cgroup, of *)
(* whose files some may have been written.                                 *)
Limits == {"max", "capped"}
Cgroups == {"absent", "part"} \cup Limits
Idle == [at |-> "idle"]

Listed(p) == {c \in Containers : ctr[p][c] \in {"created", "running"}}
Recorded(p) == {c \in Containers : net[p][c].vlan # NoVlan}
Attached(p) == {c \in Containers : net[p][c].link}

Init ==
  /\ up = TRUE
  /\ vlans = NoVlans
  /\ file = NoVlans
  /\ ctr = [p \in Pods |-> [c \in Containers |-> "none"]]
  /\ net = [p \in Pods |-> [c \in Containers |-> NoNet]]
  /\ cgroup = [p \in Pods |-> "absent"]
  /\ op = Idle
  /\ crashes = 0
  /\ faults = 0
  /\ botched = FALSE

-----------------------------------------------------------------------------
(* How a call goes on: op.at is its next step, op.todo the containers that *)
(* step has yet to treat, op.cur the one being created.                    *)

Call(kind, at, p, spec, limits, todo) ==
  [kind |-> kind, at |-> at, p |-> p, spec |-> spec, limits |-> limits,
   todo |-> todo, cur |-> "none", hurt |-> FALSE]
Step(s) == op.at = s
Goto(s, todo) == op' = [op EXCEPT !.at = s, !.todo = todo]
End == op' = Idle
Fault == faults < MaxFaults /\ faults' = faults + 1

RollBackTheRest ==
  op' = [op EXCEPT !.kind = "rollback", !.at = "detach", !.todo = op.todo \ {op.cur}]

(* Every network of the spec is detached, whether it was attached or not.  *)
RollBack == op' = [op EXCEPT !.kind = "rollback", !.at = "detach", !.todo = op.spec]

-----------------------------------------------------------------------------
(* apply_pod                                                               *)

Apply(p, spec, limits) ==
  /\ up /\ op = Idle
  /\ op' = Call("apply", "allocate", p, spec, limits, {})
  /\ UNCHANGED <<up, vlans, file, ctr, net, cgroup, crashes, faults, botched>>

Free == {v \in Vlans : \A p \in Pods : vlans[p] # v}
Lowest == {v \in Free : \A w \in Free : v <= w}

KeepVlanAndRun == vlans[op.p] # NoVlan /\ Goto("run", op.spec) /\ UNCHANGED vlans

(* allocate_for: a pod keeps its VLAN, a new one is saved.                 *)
KeepVlan == vlans[op.p] # NoVlan /\ Goto("clear", Listed(op.p)) /\ UNCHANGED vlans
NewVlan ==
  /\ vlans[op.p] = NoVlan
  /\ \E v \in Lowest : vlans' = [vlans EXCEPT ![op.p] = v]
  /\ Goto("save", {})
NoVlanLeft == vlans[op.p] = NoVlan /\ Free = {} /\ End /\ UNCHANGED vlans

AllocateRegardless ==
  /\ Step("allocate")
  /\ \/ KeepVlan
     \/ /\ vlans[op.p] = NoVlan
        /\ \E v \in IF Free = {} THEN {LastVlan + 1} ELSE Lowest :
             vlans' = [vlans EXCEPT ![op.p] = v]
        /\ Goto("save", {})
  /\ UNCHANGED <<up, file, ctr, net, cgroup, crashes, faults, botched>>

Allocate ==
  /\ Step("allocate")
  /\ KeepVlan \/ NewVlan \/ NoVlanLeft
  /\ UNCHANGED <<up, file, ctr, net, cgroup, crashes, faults, botched>>

Saved == IF op.kind = "apply" THEN Goto("clear", Listed(op.p)) ELSE End

SaveLater ==
  /\ Step("save") /\ Saved
  /\ UNCHANGED <<up, vlans, file, ctr, net, cgroup, crashes, faults, botched>>

Save ==
  /\ Step("save") /\ Saved
  /\ file' = vlans
  /\ UNCHANGED <<up, vlans, ctr, net, cgroup, crashes, faults, botched>>

(* A write that fails leaves the file as it was, or truncated; the map in  *)
(* memory stays changed.  It fails an ApplyPod, and is logged by the rest. *)
SaveFails ==
  /\ Step("save") /\ End /\ Fault
  /\ file' \in {file, Torn}
  /\ botched' = (botched \/ op.kind = "apply")
  /\ UNCHANGED <<up, vlans, ctr, net, cgroup, crashes>>

-----------------------------------------------------------------------------
(* remove_pod: each listed container is killed and deleted, then its       *)
(* snapshot.                                                               *)

Kill(c) ==
  /\ Step("clear") /\ c \in op.todo /\ ctr[op.p][c] = "running"
  /\ \A d \in op.todo : ctr[op.p][d] # "snapshot"
  /\ ctr' = [ctr EXCEPT ![op.p][c] = "created"]
  /\ net' = [net EXCEPT ![op.p][c].link = FALSE]
  /\ UNCHANGED <<up, vlans, file, cgroup, op, crashes, faults, botched>>

DeleteContainer(c) ==
  /\ Step("clear") /\ c \in op.todo /\ ctr[op.p][c] = "created"
  /\ \A d \in op.todo : ctr[op.p][d] # "snapshot"
  /\ ctr' = [ctr EXCEPT ![op.p][c] = "snapshot"]
  /\ UNCHANGED <<up, vlans, file, net, cgroup, op, crashes, faults, botched>>

RemoveSnapshot(c) ==
  /\ Step("clear") /\ c \in op.todo /\ ctr[op.p][c] = "snapshot"
  /\ ctr' = [ctr EXCEPT ![op.p][c] = "none"]
  /\ Goto("clear", op.todo \ {c})
  /\ UNCHANGED <<up, vlans, file, net, cgroup, crashes, faults, botched>>

Cleared ==
  /\ Step("clear") /\ op.todo = {}
  /\ Goto("cgroup", {})
  /\ UNCHANGED <<up, vlans, file, ctr, net, cgroup, crashes, faults, botched>>

GoOnAnyway == op' = [op EXCEPT !.at = "cgroup", !.hurt = TRUE]

ClearFailsRegardless ==
  /\ Step("clear") /\ Fault
  /\ IF op.kind = "apply" THEN End ELSE GoOnAnyway
  /\ botched' = (botched \/ (op.kind = "rollback" /\ Attached(op.p) # {}))
  /\ UNCHANGED <<up, vlans, file, ctr, net, cgroup, crashes>>

(* The first failure ends the call; a roll back only logs it and goes on,  *)
(* to release the VLAN of whatever is left.                                *)
ClearFails ==
  /\ Step("clear") /\ Fault
  /\ IF op.kind = "rollback" THEN GoOnAnyway ELSE End
  /\ botched' = (botched \/ (op.kind = "rollback" /\ Attached(op.p) # {}))
  /\ UNCHANGED <<up, vlans, file, ctr, net, cgroup, crashes>>

-----------------------------------------------------------------------------
(* The pod's cgroup.  ApplyPod makes it anew before it creates the         *)
(* containers, the others go on to release the VLAN.                       *)

AfterCgroup == IF op.kind = "apply" THEN "limit" ELSE "release"

(* cgroup::remove_pod: the kernel keeps a cgroup that has processes.       *)
RemoveCgroup ==
  /\ Step("cgroup")
  /\ cgroup' = IF \E c \in Containers : ctr[op.p][c] = "running"
                 THEN cgroup ELSE [cgroup EXCEPT ![op.p] = "absent"]
  /\ Goto(AfterCgroup, {})
  /\ UNCHANGED <<up, vlans, file, ctr, net, crashes, faults, botched>>

(* A failure is only logged.                                               *)
RemoveCgroupFails ==
  /\ Step("cgroup") /\ cgroup[op.p] # "absent" /\ Fault
  /\ op' = [op EXCEPT !.at = AfterCgroup, !.hurt = op.kind # "apply"]
  /\ UNCHANGED <<up, vlans, file, ctr, net, cgroup, crashes, botched>>

NothingDeclared == op.limits = "max"

(* Nothing to enforce, and nothing left over that has to be cleared.       *)
NothingToEnforce == op.limits = "max" /\ cgroup[op.p] = "absent"

(* cgroup::create_pod: every file is written, "max" where there is no      *)
(* limit.                                                                  *)
Limit ==
  /\ Step("limit")
  /\ cgroup' = IF NothingToEnforce
                 THEN cgroup ELSE [cgroup EXCEPT ![op.p] = op.limits]
  /\ Goto("run", op.spec)
  /\ UNCHANGED <<up, vlans, file, ctr, net, crashes, faults, botched>>

(* It can fail before the directory is there, or before any of its files.  *)
LimitFails ==
  /\ Step("limit") /\ ~NothingToEnforce /\ Fault
  /\ \E g \in {cgroup[op.p], "part"} : cgroup' = [cgroup EXCEPT ![op.p] = g]
  /\ RollBack
  /\ UNCHANGED <<up, vlans, file, ctr, net, crashes, botched>>

-----------------------------------------------------------------------------
(* create_containers: per container a snapshot, the container, its task;   *)
(* then its network.                                                       *)

Prepare(c) ==
  /\ Step("run") /\ c \in op.todo /\ ctr[op.p][c] = "none"
  /\ ctr' = [ctr EXCEPT ![op.p][c] = "snapshot"]
  /\ op' = [op EXCEPT !.at = "create", !.cur = c]
  /\ UNCHANGED <<up, vlans, file, net, cgroup, crashes, faults, botched>>

(* A snapshot that exists already cannot be prepared again.                *)
SnapshotExists(c) ==
  /\ Step("run") /\ c \in op.todo /\ ctr[op.p][c] # "none"
  /\ RollBack
  /\ UNCHANGED <<up, vlans, file, ctr, net, cgroup, crashes, faults, botched>>

Create ==
  /\ Step("create")
  /\ ctr' = [ctr EXCEPT ![op.p][op.cur] = "created"]
  /\ Goto("start", op.todo)
  /\ UNCHANGED <<up, vlans, file, net, cgroup, crashes, faults, botched>>

(* The task runs in a cgroup below the pod's, made with it if need be.     *)
Entered == IF cgroup[op.p] = "absent" THEN "max" ELSE cgroup[op.p]

Start ==
  /\ Step("start")
  /\ ctr' = [ctr EXCEPT ![op.p][op.cur] = "running"]
  /\ cgroup' = [cgroup EXCEPT ![op.p] = Entered]
  /\ Goto("attach", op.todo)
  /\ UNCHANGED <<up, vlans, file, net, crashes, faults, botched>>

Network == [vlan |-> vlans[op.p], link |-> TRUE]

(* The daemon refuses a VLAN out of its range, and one other than recorded.*)
Accepted ==
  /\ vlans[op.p] <= CniLastVlan
  /\ net[op.p][op.cur].vlan \in {NoVlan, vlans[op.p]}

Attach ==
  /\ Step("attach") /\ Accepted
  /\ net' = [net EXCEPT ![op.p][op.cur] = Network]
  /\ Goto("run", op.todo \ {op.cur})
  /\ UNCHANGED <<up, vlans, file, ctr, cgroup, crashes, faults, botched>>

AttachRefused ==
  /\ Step("attach") /\ ~Accepted
  /\ RollBack
  /\ UNCHANGED <<up, vlans, file, ctr, net, cgroup, crashes, faults, botched>>

(* The image cannot be pulled, does not say what to run, or its snapshot   *)
(* cannot be prepared.                                                     *)
PullFails ==
  /\ Step("run") /\ op.todo # {} /\ Fault
  /\ RollBack
  /\ UNCHANGED <<up, vlans, file, ctr, net, cgroup, crashes, botched>>

(* A later request that fails; one to the daemon may have been carried     *)
(* out, in part or entirely.                                               *)
RunFails ==
  /\ op.at \in {"create", "start", "attach"} /\ Fault
  /\ IF Step("attach") /\ Accepted
       THEN \E n \in {net[op.p][op.cur], NoNet, Network} :
              net' = [net EXCEPT ![op.p][op.cur] = n]
       ELSE UNCHANGED net
  /\ \E g \in {cgroup[op.p], Entered} :
       cgroup' = [cgroup EXCEPT ![op.p] = IF Step("start") THEN g ELSE @]
  /\ RollBack
  /\ UNCHANGED <<up, vlans, file, ctr, crashes, botched>>

Applied ==
  /\ Step("run") /\ op.todo = {}
  /\ End
  /\ UNCHANGED <<up, vlans, file, ctr, net, cgroup, crashes, faults, botched>>

-----------------------------------------------------------------------------
(* delete_pod, and what it shares with a roll back.                        *)

Delete(p) ==
  /\ up /\ op = Idle
  /\ op' = Call("delete", "detach", p, {}, "max", Listed(p))
  /\ UNCHANGED <<up, vlans, file, ctr, net, cgroup, crashes, faults, botched>>

Detach(c) ==
  /\ Step("detach") /\ c \in op.todo
  /\ net' = [net EXCEPT ![op.p][c] = NoNet]
  /\ Goto("detach", op.todo \ {c})
  /\ UNCHANGED <<up, vlans, file, ctr, cgroup, crashes, faults, botched>>

(* The record stays, with its link or without; the failure is only logged. *)
DetachFails(c) ==
  /\ Step("detach") /\ c \in op.todo /\ Fault
  /\ \E l \in {net[op.p][c].link, FALSE} : net' = [net EXCEPT ![op.p][c].link = l]
  /\ op' = [op EXCEPT !.todo = @ \ {c}, !.hurt = TRUE]
  /\ UNCHANGED <<up, vlans, file, ctr, cgroup, crashes, botched>>

Detached ==
  /\ Step("detach") /\ op.todo = {}
  /\ Goto("clear", Listed(op.p))
  /\ UNCHANGED <<up, vlans, file, ctr, net, cgroup, crashes, faults, botched>>

Release ==
  /\ Step("release")
  /\ vlans' = [vlans EXCEPT ![op.p] = NoVlan]
  /\ IF vlans[op.p] = NoVlan THEN End ELSE Goto("save", {})
  /\ UNCHANGED <<up, file, ctr, net, cgroup, crashes, faults, botched>>

-----------------------------------------------------------------------------
(* The agent stops, in the middle of a write too, and starts again; it     *)
(* does not start on a file it cannot parse.                               *)

Crash ==
  /\ up /\ crashes < MaxCrashes
  /\ up' = FALSE /\ vlans' = NoVlans /\ op' = Idle /\ crashes' = crashes + 1
  /\ file' \in IF Step("save") THEN {file, vlans, Torn} ELSE {file}
  /\ UNCHANGED <<ctr, net, cgroup, faults, botched>>

Boot ==
  /\ ~up /\ file # Torn
  /\ up' = TRUE /\ vlans' = file
  /\ UNCHANGED <<file, ctr, net, cgroup, op, crashes, faults, botched>>

(* The CNI daemon restarts: it drops the records that have lost their link.*)
CniRestarts ==
  /\ net' = [p \in Pods |-> [c \in Containers |->
               IF net[p][c].link THEN net[p][c] ELSE NoNet]]
  /\ UNCHANGED <<up, vlans, file, ctr, cgroup, op, crashes, faults, botched>>

(* containerd collects a snapshot that no container uses.                  *)
Collect(p, c) ==
  /\ ctr[p][c] = "snapshot"
  /\ op # Idle => op.p # p
  /\ ctr' = [ctr EXCEPT ![p][c] = "none"]
  /\ UNCHANGED <<up, vlans, file, net, cgroup, op, crashes, faults, botched>>

OfContainer(c) ==
  \/ Kill(c) \/ DeleteContainer(c) \/ RemoveSnapshot(c)
  \/ Prepare(c) \/ SnapshotExists(c)
  \/ Detach(c) \/ DetachFails(c)

Next ==
  \/ \E p \in Pods :
       \/ Delete(p)
       \/ \E spec \in SUBSET Containers, limits \in Limits : Apply(p, spec, limits)
  \/ Allocate \/ Save \/ SaveFails
  \/ Cleared \/ ClearFails
  \/ RemoveCgroup \/ RemoveCgroupFails \/ Limit \/ LimitFails
  \/ Create \/ Start \/ Attach \/ AttachRefused \/ PullFails \/ RunFails \/ Applied
  \/ Detached \/ Release
  \/ \E c \in Containers : OfContainer(c)
  \/ Crash \/ Boot \/ CniRestarts
  \/ \E p \in Pods, c \in Containers : Collect(p, c)

Spec == Init /\ [][Next]_vars

-----------------------------------------------------------------------------
OpOK ==
  \/ op = Idle
  \/ /\ op \in [kind : {"apply", "rollback", "delete"},
                at : {"allocate", "save", "clear", "cgroup", "limit", "run",
                      "create", "start", "attach", "detach", "release"},
                p : Pods, spec : SUBSET Containers, limits : Limits,
                todo : SUBSET Containers,
                cur : Containers \cup {"none"}, hurt : BOOLEAN]
     /\ op.at \in {"create", "start", "attach"} => op.cur \in op.todo

(* Every VLAN handed out is one of the range, in memory and in the file.   *)
TypeOK ==
  /\ up \in BOOLEAN /\ botched \in BOOLEAN
  /\ vlans \in [Pods -> Vlans \cup {NoVlan}]
  /\ file \in [Pods -> Vlans \cup {NoVlan}] \cup {Torn}
  /\ ctr \in [Pods -> [Containers -> Stages]]
  /\ net \in [Pods -> [Containers -> [vlan : Vlans \cup {NoVlan}, link : BOOLEAN]]]
  /\ cgroup \in [Pods -> Cgroups]
  /\ OpOK
  /\ crashes \in 0 .. MaxCrashes /\ faults \in 0 .. MaxFaults

(* Whatever stops or fails, containers of two pods never share a VLAN: one *)
(* is released only after the pod's containers are gone.  (Excepted are    *)
(* the two ways the code is known to forget a VLAN that is in use: a new   *)
(* VLAN whose save failed, a roll back that could not remove.)             *)
VlanIsolated ==
  ~botched =>
    \A p, q \in Pods : p # q =>
      \A c \in Attached(p), d \in Attached(q) : net[p][c].vlan # net[q][d].vlan

(* "A pod ... keeps it across re-applies and restarts" (vlan.rs): as long  *)
(* as one of its containers is attached, memory and the file both have the *)
(* VLAN it is attached to.                                                 *)
VlanKept ==
  ~botched =>
    \A p \in Pods : \A c \in Attached(p) :
      /\ up => vlans[p] = net[p][c].vlan
      /\ file # Torn => file[p] = net[p][c].vlan

Ends(kind, at) == op # Idle /\ op.kind = kind /\ op.at \in at /\ op' = Idle /\ up'

(* An ApplyPod that succeeds leaves the pod with exactly the containers of *)
(* its spec, all running and attached to one VLAN, the pod's, under        *)
(* exactly the limits it declares, whatever an earlier ApplyPod set: "a    *)
(* re-apply must not keep enforcing the limits of the last one".           *)
AppliedExactly ==
  [][Ends("apply", {"run"}) =>
       /\ Listed(op.p) = op.spec
       /\ \A c \in op.spec : ctr[op.p][c] = "running" /\ net[op.p][c] = Network
       /\ cgroup[op.p] \in {op.limits, IF op.limits = "max" THEN "absent" ELSE op.limits}]_vars

(* A roll back in which nothing failed leaves nothing behind: no           *)
(* container, no record of the spec's networks, no cgroup, and no VLAN, so *)
(* that it can be given to another pod.                                    *)
RollbackIsComplete ==
  [][Ends("rollback", {"release", "save"}) /\ ~op.hurt =>
       /\ Listed(op.p) = {}
       /\ op.spec \cap Recorded(op.p) = {}
       /\ cgroup[op.p] = "absent"
       /\ vlans'[op.p] = NoVlan]_vars
=============================================================================
