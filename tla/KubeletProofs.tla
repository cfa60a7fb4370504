---------------------------- MODULE KubeletProofs ---------------------------
(***************************************************************************)
(* Proofs about Kubelet, for any pods, containers, range of VLANs and      *)
(* bounds: types, that a pod keeps its VLAN and shares it with no other,   *)
(* whatever request or write fails and wherever the agent stops, and what  *)
(* a call that ends well has built or taken back.                          *)
(*                                                                         *)
(* A VLAN passes through three places: memory, the file and the links of   *)
(* the pod's containers.  The invariant says which of them may be behind   *)
(* the others at each step of a call: a new VLAN is in the file before the *)
(* first link has it, and the last link is gone before memory forgets it.  *)
(***************************************************************************)
EXTENDS Kubelet, TLAPS

(* Only a running container is linked, and never to no VLAN.               *)
Links ==
  \A p \in Pods : \A c \in Attached(p) : ctr[p][c] = "running" /\ net[p][c].vlan # NoVlan

(* What a call has got hold of at each of its steps.                       *)
Order ==
  op # Idle =>
    /\ up
    /\ op.at \in {"allocate", "limit", "run", "create", "start", "attach"} => op.kind = "apply"
    /\ op.at \in {"detach", "release"} => op.kind # "apply"
    /\ op.kind = "apply" /\ op.at # "allocate" => vlans[op.p] # NoVlan
    /\ op.kind # "apply" /\ op.at = "save" => vlans[op.p] = NoVlan
    /\ op.at = "create" => ctr[op.p][op.cur] = "snapshot"
    /\ op.at = "attach" => ctr[op.p][op.cur] = "running"
    /\ op.at = "clear" => Listed(op.p) \subseteq op.todo

Injective(f) == \A p, q \in Pods : f[p] = f[q] /\ f[p] # NoVlan => p = q

(* No VLAN is given to two pods, in memory or in the file.                 *)
Distinct == Injective(vlans) /\ (file # Torn => Injective(file))

Saving(p) == op # Idle /\ op.at = "save" /\ op.p = p

(* What memory has is in the file, but for the pod that is being saved.    *)
Mirrored ==
  \A p \in Pods : vlans[p] # NoVlan /\ ~Saving(p) /\ file # Torn => file[p] = vlans[p]

(* A VLAN is released only when nothing is attached to it.                 *)
Emptied ==
  op # Idle /\ op.kind # "apply" /\ op.at \in {"cgroup", "release"} => Attached(op.p) = {}

Base == TypeOK /\ Links /\ Order /\ Distinct

VlanInv == ~botched => Mirrored /\ Emptied
IInv == Base /\ VlanInv /\ VlanKept /\ VlanIsolated

-----------------------------------------------------------------------------
(* How a call goes on.                                                     *)

Places == {"allocate", "save", "clear", "cgroup", "limit", "run", "create",
           "start", "attach", "detach", "release"}

LEMMA UnderWay ==
  ASSUME NEW s \in Places, Step(s)
  PROVE  op # Idle
BY DEF Places, Step, Idle

LEMMA CallTyped ==
  ASSUME OpOK, op # Idle
  PROVE  /\ op.kind \in {"apply", "rollback", "delete"} /\ op.at \in Places
         /\ op.p \in Pods /\ op.spec \in SUBSET Containers /\ op.limits \in Limits
         /\ op.todo \in SUBSET Containers
         /\ op.at \in {"create", "start", "attach"} => op.cur \in op.todo /\ op.cur \in Containers
BY DEF OpOK, Places

LEMMA GotoTyped ==
  ASSUME OpOK, op # Idle, NEW s \in Places, NEW todo \in SUBSET Containers, Goto(s, todo),
         s \in {"create", "start", "attach"} => op.cur \in todo
  PROVE  OpOK'
BY DEF OpOK, Places, Goto

LEMMA RollBackTyped ==
  ASSUME OpOK, op # Idle, RollBack
  PROVE  OpOK'
BY DEF OpOK, RollBack

LEMMA EndTyped ==
  ASSUME End
  PROVE  OpOK'
BY DEF OpOK, End

LEMMA ListedTyped ==
  ASSUME NEW p
  PROVE  Listed(p) \in SUBSET Containers
BY DEF Listed

-----------------------------------------------------------------------------
(* Types.                                                                  *)

Nets == [vlan : Vlans \cup {NoVlan}, link : BOOLEAN]

AllNets == [Pods -> [Containers -> Nets]]

LEMMA NetTypes ==
  /\ TypeOK => net \in AllNets
  /\ net' \in AllNets => net' \in [Pods -> [Containers -> [vlan : Vlans \cup {NoVlan}, link : BOOLEAN]]]
  /\ NoNet \in Nets
BY DEF Nets, AllNets, NoNet, TypeOK

LEMMA NetUpdate ==
  ASSUME NEW f \in AllNets, NEW p \in Pods, NEW c \in Containers, NEW n \in Nets
  PROVE  /\ [f EXCEPT ![p][c] = n] \in AllNets
         /\ \A q \in Pods, d \in Containers :
              [f EXCEPT ![p][c] = n][q][d] = IF q = p /\ d = c THEN n ELSE f[q][d]
BY DEF AllNets

LEMMA LinkUpdate ==
  ASSUME NEW f \in AllNets, NEW p \in Pods, NEW c \in Containers, NEW l \in BOOLEAN
  PROVE  [f EXCEPT ![p][c].link = l] \in AllNets
<1>1. f[p][c] \in Nets
  BY DEF AllNets
<1>2. [f[p][c] EXCEPT !.link = l] \in Nets
  BY <1>1 DEF Nets
<1>3. [f EXCEPT ![p][c].link = l] = [f EXCEPT ![p][c] = [f[p][c] EXCEPT !.link = l]]
  BY DEF AllNets
<1> QED
  BY <1>2, <1>3, NetUpdate

LEMMA FaultTypes ==
  ASSUME TypeOK, Fault
  PROVE  faults' \in 0 .. MaxFaults
BY BoundsAreNumbers DEF TypeOK, Fault

LEMMA TypesInitially ==
  ASSUME Init
  PROVE  TypeOK
<1>1. NoVlans \in [Pods -> Vlans \cup {NoVlan}]
  BY DEF NoVlans
<1>2. ctr \in [Pods -> [Containers -> Stages]] /\ cgroup \in [Pods -> Cgroups]
  BY DEF Init, Stages, Cgroups
<1>3. net \in [Pods -> [Containers -> Nets]]
  BY NetTypes DEF Init
<1>4. crashes \in 0 .. MaxCrashes /\ faults \in 0 .. MaxFaults
  BY BoundsAreNumbers DEF Init
<1> QED
  BY <1>1, <1>2, <1>3, <1>4 DEF Init, TypeOK, OpOK, Nets

(* The steps of the VLAN map.                                              *)
LEMMA VlanTypes ==
  ASSUME TypeOK, Allocate \/ Save \/ SaveFails \/ Release
  PROVE  TypeOK'
<1> USE DEF TypeOK
<1>1. op # Idle
  BY UnderWay DEF Allocate, Save, SaveFails, Release, Places
<1>2. op.p \in Pods
  BY <1>1, CallTyped
<1>3. CASE Allocate
  <2>1. vlans' \in [Pods -> Vlans \cup {NoVlan}]
    BY <1>3 DEF Allocate, KeepVlan, NewVlan, NoVlanLeft, Lowest, Free
  <2>2. OpOK'
    BY <1>1, <1>3, GotoTyped, EndTyped, ListedTyped
       DEF Allocate, KeepVlan, NewVlan, NoVlanLeft, Places
  <2> QED
    BY <1>3, <2>1, <2>2 DEF Allocate
<1>4. CASE Save
  <2>1. OpOK'
    BY <1>1, <1>4, GotoTyped, EndTyped, ListedTyped DEF Save, Saved, Places
  <2> QED
    BY <1>4, <2>1 DEF Save
<1>5. CASE SaveFails
  <2>1. OpOK'
    BY <1>5, EndTyped DEF SaveFails
  <2> QED
    BY <1>5, <2>1, BoundsAreNumbers DEF SaveFails, Fault
<1>6. CASE Release
  <2>1. OpOK'
    BY <1>1, <1>6, GotoTyped, EndTyped DEF Release, Places
  <2> QED
    BY <1>6, <2>1 DEF Release
<1> QED
  BY <1>3, <1>4, <1>5, <1>6

(* The steps of remove_pod and of the cgroup.                              *)
LEMMA ClearTypes ==
  ASSUME TypeOK,
         \/ \E c \in Containers : Kill(c) \/ DeleteContainer(c) \/ RemoveSnapshot(c)
         \/ Cleared \/ ClearFails
         \/ RemoveCgroup \/ RemoveCgroupFails \/ Limit \/ LimitFails
  PROVE  TypeOK'
<1> USE DEF TypeOK
<1>1. op # Idle
  BY UnderWay DEF Kill, DeleteContainer, RemoveSnapshot, Cleared, ClearFails, RemoveCgroup,
                  RemoveCgroupFails, Limit, LimitFails, Places
<1>2. op.p \in Pods /\ op.limits \in Limits
  BY <1>1, CallTyped
<1>3. ASSUME NEW c \in Containers, Kill(c) PROVE TypeOK'
  <2>1. ctr' \in [Pods -> [Containers -> Stages]]
    BY <1>2, <1>3 DEF Kill, Stages
  <2>2. net' \in AllNets
    BY <1>2, <1>3, NetTypes, LinkUpdate DEF Kill
  <2>3. net' \in [Pods -> [Containers -> [vlan : Vlans \cup {NoVlan}, link : BOOLEAN]]]
    BY <2>2, NetTypes
  <2>4. UNCHANGED <<up, vlans, file, cgroup, op, crashes, faults, botched>>
    BY <1>3 DEF Kill
  <2> QED
    BY <2>1, <2>3, <2>4 DEF OpOK
<1>4. ASSUME NEW c \in Containers, DeleteContainer(c) PROVE TypeOK'
  BY <1>2, <1>4 DEF DeleteContainer, Stages, OpOK
<1>5. ASSUME NEW c \in Containers, RemoveSnapshot(c) PROVE TypeOK'
  <2>1. op.todo \ {c} \in SUBSET Containers
    BY <1>1, CallTyped
  <2>2. OpOK'
    BY <1>1, <1>5, <2>1, GotoTyped DEF RemoveSnapshot, Places
  <2> QED
    BY <1>2, <1>5, <2>2 DEF RemoveSnapshot, Stages
<1>6. CASE Cleared
  <2>1. OpOK'
    BY <1>1, <1>6, GotoTyped DEF Cleared, Places
  <2> QED
    BY <1>6, <2>1 DEF Cleared
<1>7. CASE ClearFails
  <2>1. OpOK'
    <3>1. End \/ GoOnAnyway
      BY <1>7 DEF ClearFails
    <3>2. CASE GoOnAnyway
      BY <1>1, <3>2 DEF GoOnAnyway, OpOK
    <3> QED
      BY <3>1, <3>2, EndTyped
  <2> QED
    BY <1>7, <2>1, BoundsAreNumbers DEF ClearFails, Fault
<1>8. AfterCgroup \in {"limit", "release"}
  BY DEF AfterCgroup
<1>9. CASE RemoveCgroup
  <2>1. OpOK'
    BY <1>1, <1>8, <1>9, GotoTyped DEF RemoveCgroup, Places
  <2> QED
    BY <1>2, <1>9, <2>1 DEF RemoveCgroup, Cgroups
<1>10. CASE RemoveCgroupFails
  <2>1. OpOK'
    BY <1>1, <1>8, <1>10 DEF RemoveCgroupFails, OpOK
  <2> QED
    BY <1>10, <2>1, BoundsAreNumbers DEF RemoveCgroupFails, Fault
<1>11. CASE Limit
  <2>1. OpOK'
    BY <1>1, <1>11, GotoTyped, CallTyped DEF Limit, Places
  <2> QED
    BY <1>2, <1>11, <2>1 DEF Limit, Cgroups, Limits
<1>12. CASE LimitFails
  <2>1. OpOK'
    BY <1>1, <1>12, RollBackTyped DEF LimitFails
  <2>2. cgroup' \in [Pods -> Cgroups]
    <3>1. PICK g \in {cgroup[op.p], "part"} : cgroup' = [cgroup EXCEPT ![op.p] = g]
      BY <1>12 DEF LimitFails
    <3>2. g \in Cgroups
      BY <1>2 DEF Cgroups
    <3> QED
      BY <1>2, <3>1, <3>2
  <2>3. faults' \in 0 .. MaxFaults
    BY <1>12, FaultTypes DEF LimitFails
  <2> QED
    BY <1>12, <2>1, <2>2, <2>3 DEF LimitFails
<1> QED
  BY <1>3, <1>4, <1>5, <1>6, <1>7, <1>9, <1>10, <1>11, <1>12

(* The steps of create_containers.                                         *)
LEMMA RunTypes ==
  ASSUME TypeOK,
         \/ \E c \in Containers : Prepare(c) \/ SnapshotExists(c)
         \/ Create \/ Start \/ Attach \/ AttachRefused \/ PullFails \/ RunFails \/ Applied
  PROVE  TypeOK'
<1> USE DEF TypeOK
<1>1. op # Idle
  BY UnderWay DEF Prepare, SnapshotExists, Create, Start, Attach, AttachRefused, PullFails,
                  RunFails, Applied, Places, Step
<1>2. op.p \in Pods /\ op.todo \in SUBSET Containers
  BY <1>1, CallTyped
<1>3. Network \in [vlan : Vlans \cup {NoVlan}, link : BOOLEAN]
  BY <1>2 DEF Network
<1>4. ASSUME NEW c \in Containers, Prepare(c) PROVE TypeOK'
  <2>1. OpOK'
    BY <1>1, <1>4 DEF Prepare, OpOK
  <2> QED
    BY <1>2, <1>4, <2>1 DEF Prepare, Stages
<1>5. ASSUME \/ \E c \in Containers : SnapshotExists(c)
             \/ AttachRefused \/ PullFails
      PROVE  TypeOK'
  <2>1. OpOK'
    BY <1>1, <1>5, RollBackTyped DEF SnapshotExists, AttachRefused, PullFails
  <2> QED
    BY <1>5, <2>1, BoundsAreNumbers DEF SnapshotExists, AttachRefused, PullFails, Fault
<1>6. CASE Create
  <2>1. op.cur \in op.todo /\ op.cur \in Containers
    BY <1>1, <1>6, CallTyped DEF Create, Step
  <2>2. OpOK'
    BY <1>1, <1>2, <1>6, <2>1, GotoTyped DEF Create, Places
  <2> QED
    BY <1>2, <1>6, <2>1, <2>2 DEF Create, Stages
<1>7. CASE Start
  <2>1. op.cur \in op.todo /\ op.cur \in Containers
    BY <1>1, <1>7, CallTyped DEF Start, Step
  <2>2. OpOK'
    BY <1>1, <1>2, <1>7, <2>1, GotoTyped DEF Start, Places
  <2>3. Entered \in Cgroups
    BY <1>2 DEF Entered, Cgroups, Limits
  <2> QED
    BY <1>2, <1>7, <2>1, <2>2, <2>3 DEF Start, Stages
<1>8. CASE Attach
  <2>1. op.cur \in op.todo /\ op.cur \in Containers
    BY <1>1, <1>8, CallTyped DEF Attach, Step
  <2>2. op.todo \ {op.cur} \in SUBSET Containers
    BY <1>2
  <2>3. OpOK'
    BY <1>1, <1>8, <2>2, GotoTyped DEF Attach, Places
  <2>4. net' \in [Pods -> [Containers -> [vlan : Vlans \cup {NoVlan}, link : BOOLEAN]]]
    BY <1>2, <1>3, <1>8, <2>1 DEF Attach
  <2> QED
    BY <1>8, <2>3, <2>4 DEF Attach
<1>9. CASE RunFails
  <2>1. op.cur \in Containers
    BY <1>1, <1>9, CallTyped DEF RunFails, Step
  <2>2. OpOK'
    BY <1>1, <1>9, RollBackTyped DEF RunFails
  <2>3. Entered \in Cgroups
    BY <1>2 DEF Entered, Cgroups, Limits
  <2>5. net' \in AllNets
    <3>1. net' = net \/ \E n \in Nets : net' = [net EXCEPT ![op.p][op.cur] = n]
      <4>1. net[op.p][op.cur] \in Nets /\ Network \in Nets /\ NoNet \in Nets
        BY <1>2, <1>3, <2>1, NetTypes DEF Nets
      <4> QED
        BY <1>9, <4>1 DEF RunFails
    <3>2. net \in AllNets
      BY NetTypes
    <3>3. ASSUME NEW n \in Nets PROVE [net EXCEPT ![op.p][op.cur] = n] \in AllNets
      BY <1>2, <2>1, <3>2, NetUpdate
    <3> QED
      BY <3>1, <3>2, <3>3
  <2>6. cgroup' \in [Pods -> Cgroups]
    BY <1>2, <1>9, <2>3 DEF RunFails
  <2> QED
    BY <1>9, <2>2, <2>5, <2>6, FaultTypes, NetTypes DEF RunFails
<1>10. CASE Applied
  <2>1. OpOK'
    BY <1>10, EndTyped DEF Applied
  <2> QED
    BY <1>10, <2>1 DEF Applied
<1> QED
  BY <1>4, <1>5, <1>6, <1>7, <1>8, <1>9, <1>10

(* The first step of every call, the steps of delete_pod, and what happens *)
(* around the calls.                                                       *)
LEMMA OtherTypes ==
  ASSUME TypeOK,
         \/ \E p \in Pods : \/ Delete(p)
                            \/ \E spec \in SUBSET Containers, limits \in Limits : Apply(p, spec, limits)
         \/ \E c \in Containers : Detach(c) \/ DetachFails(c)
         \/ Detached \/ Crash \/ Boot \/ CniRestarts
         \/ \E p \in Pods, c \in Containers : Collect(p, c)
         \/ UNCHANGED vars
  PROVE  TypeOK'
<1> USE DEF TypeOK
<1>1. ASSUME NEW p \in Pods,
             \/ Delete(p)
             \/ \E spec \in SUBSET Containers, limits \in Limits : Apply(p, spec, limits)
      PROVE  TypeOK'
  <2>1. OpOK'
    <3>1. CASE Delete(p)
      <4>1. Listed(p) \in SUBSET Containers /\ "max" \in Limits
        BY ListedTyped DEF Limits
      <4> QED
        BY <3>1, <4>1 DEF Delete, Call, OpOK
    <3>2. ASSUME NEW spec \in SUBSET Containers, NEW limits \in Limits, Apply(p, spec, limits)
          PROVE  OpOK'
      BY <3>2 DEF Apply, Call, OpOK
    <3> QED
      BY <1>1, <3>1, <3>2
  <2> QED
    BY <1>1, <2>1 DEF Delete, Apply
<1>2. ASSUME NEW c \in Containers, Detach(c) \/ DetachFails(c)
      PROVE  TypeOK'
  <2>1. op # Idle
    BY <1>2, UnderWay DEF Detach, DetachFails, Places
  <2>2. op.p \in Pods /\ op.todo \ {c} \in SUBSET Containers
    BY <2>1, CallTyped
  <2>3. OpOK'
    BY <1>2, <2>1, <2>2, GotoTyped DEF Detach, DetachFails, Places, OpOK, Step
  <2>4. net' \in AllNets
    <3>1. CASE Detach(c)
      BY <2>2, <3>1, NetTypes, NetUpdate DEF Detach
    <3>2. CASE DetachFails(c)
      <4>1. PICK l \in {net[op.p][c].link, FALSE} : net' = [net EXCEPT ![op.p][c].link = l]
        BY <3>2 DEF DetachFails
      <4>2. l \in BOOLEAN
        <5>1. net[op.p][c] \in Nets
          BY <2>2, NetTypes DEF AllNets
        <5> QED
          BY <4>1, <5>1 DEF Nets
      <4> QED
        BY <2>2, <4>1, <4>2, NetTypes, LinkUpdate
    <3> QED
      BY <1>2, <3>1, <3>2
  <2>5. faults' \in 0 .. MaxFaults
    BY <1>2, FaultTypes DEF Detach, DetachFails
  <2> QED
    BY <1>2, <2>3, <2>4, <2>5, NetTypes DEF Detach, DetachFails
<1>3. CASE Detached
  <2>1. OpOK'
    BY <1>3, UnderWay, GotoTyped, ListedTyped DEF Detached, Places
  <2> QED
    BY <1>3, <2>1 DEF Detached
<1>4. CASE Crash
  <2>1. vlans' \in [Pods -> Vlans \cup {NoVlan}]
    BY <1>4 DEF Crash, NoVlans
  <2>2. file' \in [Pods -> Vlans \cup {NoVlan}] \cup {Torn}
    BY <1>4 DEF Crash
  <2>3. crashes' \in 0 .. MaxCrashes
    BY <1>4, BoundsAreNumbers DEF Crash
  <2> QED
    BY <1>4, <2>1, <2>2, <2>3 DEF Crash, OpOK
<1>5. CASE Boot
  BY <1>5 DEF Boot, OpOK
<1>6. CASE CniRestarts
  BY <1>6 DEF CniRestarts, OpOK, NoNet
<1>7. ASSUME NEW p \in Pods, NEW c \in Containers, Collect(p, c)
      PROVE  TypeOK'
  BY <1>7 DEF Collect, OpOK, Stages
<1>8. CASE UNCHANGED vars
  BY <1>8 DEF vars, OpOK
<1> QED
  BY <1>1, <1>2, <1>3, <1>4, <1>5, <1>6, <1>7, <1>8

LEMMA TypesKept ==
  ASSUME TypeOK, [Next]_vars
  PROVE  TypeOK'
BY VlanTypes, ClearTypes, RunTypes, OtherTypes DEF Next, OfContainer

-----------------------------------------------------------------------------
(* What a step does to a call, to the links and to the containers.         *)

LEMMA GoesTo ==
  ASSUME OpOK, op # Idle, NEW s \in Places, NEW todo, Goto(s, todo)
  PROVE  /\ op'.at = s /\ op'.todo = todo
         /\ op'.kind = op.kind /\ op'.p = op.p /\ op'.cur = op.cur
BY DEF OpOK, Goto

LEMMA RollsBack ==
  ASSUME OpOK, op # Idle, RollBack
  PROVE  op'.kind = "rollback" /\ op'.at = "detach" /\ op'.p = op.p
BY DEF OpOK, RollBack

(* A link is made by create_containers' last request, with the pod's VLAN, *)
(* and changes at no other time but to be gone.                            *)
LEMMA LinkSteps ==
  ASSUME TypeOK, [Next]_vars, NEW p \in Pods, NEW c \in Containers, net'[p][c].link
  PROVE  \/ net[p][c].link /\ net'[p][c].vlan = net[p][c].vlan
         \/ /\ Step("attach") /\ p = op.p /\ c = op.cur
            /\ net'[p][c].vlan = vlans[p]
            /\ UNCHANGED <<up, vlans, file, ctr, botched>>
<1> DEFINE Goal == \/ net[p][c].link /\ net'[p][c].vlan = net[p][c].vlan
                   \/ /\ Step("attach") /\ p = op.p /\ c = op.cur
                      /\ net'[p][c].vlan = vlans[p]
                      /\ UNCHANGED <<up, vlans, file, ctr, botched>>
<1>1. net \in AllNets
  BY NetTypes
<1>2. op # Idle => op.p \in Pods
  BY CallTyped DEF TypeOK
<1>3. CASE UNCHANGED net
  BY <1>3
<1>4. ASSUME NEW d \in Containers, Kill(d) PROVE Goal
  <2>1. op.p \in Pods
    BY <1>2, <1>4, UnderWay DEF Kill, Places
  <2> QED
    BY <1>1, <1>4, <2>1, LinkUpdate DEF Kill
<1>5. ASSUME NEW d \in Containers, Detach(d) PROVE Goal
  <2>1. op.p \in Pods
    BY <1>2, <1>5, UnderWay DEF Detach, Places
  <2>2. NoNet \in Nets /\ ~NoNet.link
    BY NetTypes DEF NoNet
  <2> QED
    BY <1>1, <1>5, <2>1, <2>2, NetUpdate DEF Detach
<1>6. ASSUME NEW d \in Containers, DetachFails(d) PROVE Goal
  <2>1. op.p \in Pods
    BY <1>2, <1>6, UnderWay DEF DetachFails, Places
  <2>2. PICK l \in {net[op.p][d].link, FALSE} : net' = [net EXCEPT ![op.p][d].link = l]
    BY <1>6 DEF DetachFails
  <2>3. l \in BOOLEAN
    <3>1. net[op.p][d] \in Nets
      BY <1>1, <2>1 DEF AllNets
    <3> QED
      BY <2>2, <3>1 DEF Nets
  <2>4. /\ net'[p][c].vlan = net[p][c].vlan
        /\ net'[p][c].link = IF p = op.p /\ c = d THEN l ELSE net[p][c].link
    <3> DEFINE g == [net EXCEPT ![op.p][d].link = l]
    <3>1. \A q \in Pods, e \in Containers :
            /\ g[q][e].vlan = net[q][e].vlan
            /\ g[q][e].link = IF q = op.p /\ e = d THEN l ELSE net[q][e].link
      BY <1>1, <2>1, <2>3 DEF AllNets, Nets
    <3>2. net' = g
      BY <2>2
    <3> HIDE DEF g
    <3> QED
      BY <3>1, <3>2
  <2> QED
    BY <2>2, <2>4
<1>7. ASSUME Attach \/ RunFails, ~UNCHANGED net PROVE Goal
  <2>1. Step("attach") /\ UNCHANGED <<up, vlans, file, ctr, botched>>
    BY <1>7 DEF Attach, RunFails
  <2>2. op.p \in Pods /\ op.cur \in Containers
    BY <2>1, UnderWay, CallTyped DEF Places, Step, TypeOK
  <2>3. PICK n \in {net[op.p][op.cur], NoNet, Network} :
          net' = [net EXCEPT ![op.p][op.cur] = n]
    BY <1>7 DEF Attach, RunFails
  <2>4. /\ net[op.p][op.cur] \in Nets
        /\ NoNet \in Nets /\ ~NoNet.link
        /\ Network \in Nets /\ Network.vlan = vlans[op.p]
    BY <1>1, <2>2, NetTypes DEF AllNets, Nets, NoNet, Network, TypeOK
  <2>5. \A q \in Pods, d \in Containers :
          net'[q][d] = IF q = op.p /\ d = op.cur THEN n ELSE net[q][d]
    BY <1>1, <2>2, <2>3, <2>4, NetUpdate
  <2> QED
    BY <2>1, <2>2, <2>3, <2>4, <2>5
<1>8. CASE CniRestarts
  BY <1>8 DEF CniRestarts, NoNet
<1>9. ASSUME ~UNCHANGED net
      PROVE  \/ \E d \in Containers : Kill(d) \/ Detach(d) \/ DetachFails(d)
             \/ Attach \/ RunFails \/ CniRestarts
  BY <1>9 DEF Next, OfContainer, vars, Delete, Apply, Allocate, Save, SaveFails, Cleared,
     ClearFails, RemoveCgroup, RemoveCgroupFails, Limit, LimitFails, Create, Start,
     AttachRefused, PullFails, Applied, Detached, Release, DeleteContainer, RemoveSnapshot,
     Prepare, SnapshotExists, Crash, Boot, Collect
<1> QED
  BY <1>3, <1>4, <1>5, <1>6, <1>7, <1>8, <1>9

(* A container that stops to run loses its link.                           *)
LEMMA StopsUnlinked ==
  ASSUME Base, [Next]_vars, NEW p \in Pods, NEW c \in Containers,
         ctr[p][c] = "running", ctr'[p][c] # "running"
  PROVE  ~net'[p][c].link
<1> USE DEF Base
<1>1. op # Idle => op.p \in Pods /\ (op.at \in {"create", "start"} => op.cur \in Containers)
  BY CallTyped DEF TypeOK
<1>2. ctr \in [Pods -> [Containers -> Stages]]
  BY DEF TypeOK
<1>3. ASSUME NEW d \in Containers, Kill(d) PROVE ~net'[p][c].link
  <2>1. op.p \in Pods /\ net \in AllNets
    BY <1>1, <1>3, UnderWay, NetTypes DEF Kill, Places
  <2>2. p = op.p /\ c = d
    BY <1>2, <1>3, <2>1 DEF Kill
  <2>3. net' = [net EXCEPT ![p][c].link = FALSE]
    BY <1>3, <2>2 DEF Kill
  <2> DEFINE g == [net EXCEPT ![p][c].link = FALSE]
  <2>4. g[p][c].link = FALSE
    BY <2>1 DEF AllNets, Nets
  <2> QED
    BY <2>3, <2>4
<1>4. ASSUME NEW d \in Containers, DeleteContainer(d) \/ RemoveSnapshot(d) \/ Prepare(d)
      PROVE  FALSE
  <2>1. op.p \in Pods
    BY <1>1, <1>4, UnderWay DEF DeleteContainer, RemoveSnapshot, Prepare, Places
  <2> QED
    BY <1>2, <1>4, <2>1 DEF DeleteContainer, RemoveSnapshot, Prepare
<1>5. ASSUME Create \/ Start PROVE FALSE
  <2>1. op # Idle
    BY <1>5, UnderWay DEF Create, Start, Places
  <2>2. op.p \in Pods /\ op.cur \in Containers
    BY <1>1, <1>5, <2>1 DEF Create, Start, Step
  <2>3. Create => ctr[op.p][op.cur] = "snapshot"
    BY <2>1 DEF Order, Create, Step
  <2> QED
    BY <1>2, <1>5, <2>2, <2>3 DEF Create, Start
<1>6. ASSUME NEW q \in Pods, NEW d \in Containers, Collect(q, d) PROVE FALSE
  BY <1>2, <1>6 DEF Collect
<1>7. \/ \E d \in Containers : Kill(d) \/ DeleteContainer(d) \/ RemoveSnapshot(d) \/ Prepare(d)
      \/ Create \/ Start
      \/ \E q \in Pods, d \in Containers : Collect(q, d)
  BY DEF Next, OfContainer, vars, Delete, Apply, Allocate, Save, SaveFails, Cleared,
     ClearFails, RemoveCgroup, RemoveCgroupFails, Limit, LimitFails, Attach, RunFails,
     AttachRefused, PullFails, Applied, Detached, Release, SnapshotExists, Detach,
     DetachFails, Crash, Boot, CniRestarts
<1> QED
  BY <1>3, <1>4, <1>5, <1>6, <1>7

LEMMA LinksKept ==
  ASSUME Base, [Next]_vars
  PROVE  Links'
<1> SUFFICES ASSUME NEW p \in Pods, NEW c \in Containers, net'[p][c].link
             PROVE  ctr'[p][c] = "running" /\ net'[p][c].vlan # NoVlan
  BY DEF Links, Attached
<1> USE DEF Base
<1>1. CASE net[p][c].link /\ net'[p][c].vlan = net[p][c].vlan
  <2>1. ctr[p][c] = "running" /\ net[p][c].vlan # NoVlan
    BY <1>1 DEF Links, Attached
  <2> QED
    BY <1>1, <2>1, StopsUnlinked
<1>2. CASE /\ Step("attach") /\ p = op.p /\ c = op.cur
           /\ net'[p][c].vlan = vlans[p]
           /\ UNCHANGED <<up, vlans, file, ctr, botched>>
  <2>1. op # Idle /\ op.at = "attach"
    BY <1>2, UnderWay DEF Places, Step
  <2> QED
    BY <1>2, <2>1 DEF Order
<1> QED
  BY <1>1, <1>2, LinkSteps

-----------------------------------------------------------------------------
(* The order of a call's steps.                                            *)

LEMMA NoCallInOrder ==
  ASSUME op' = Idle
  PROVE  Order'
BY DEF Order

(* A call that is taking down what it made may be anywhere between.        *)
LEMMA RollingBackInOrder ==
  ASSUME Base, op # Idle, RollBack, UNCHANGED up
  PROVE  Order'
<1>1. op'.kind = "rollback" /\ op'.at = "detach"
  BY RollsBack DEF Base, TypeOK
<1> QED
  BY <1>1 DEF Base, Order

LEMMA VlanOrder ==
  ASSUME Base, Allocate \/ Save \/ SaveFails \/ Release
  PROVE  Order'
<1> USE DEF Base, Order
<1>1. op # Idle /\ OpOK
  BY UnderWay DEF Allocate, Save, SaveFails, Release, Places, TypeOK
<1>2. op.p \in Pods /\ vlans \in [Pods -> Vlans \cup {NoVlan}]
  BY <1>1, CallTyped DEF TypeOK
<1>3. CASE Allocate
  <2>1. op.kind = "apply" /\ up' /\ UNCHANGED ctr
    BY <1>1, <1>3 DEF Allocate, Step
  <2>2. CASE KeepVlan
    <3>1. op'.at = "clear" /\ op'.todo = Listed(op.p) /\ op'.kind = op.kind /\ op'.p = op.p
      BY <1>1, <2>2, GoesTo DEF KeepVlan, Places
    <3> QED
      BY <2>1, <2>2, <3>1 DEF KeepVlan, Listed
  <2>3. CASE NewVlan
    <3>1. op'.at = "save" /\ op'.kind = op.kind /\ op'.p = op.p
      BY <1>1, <2>3, GoesTo DEF NewVlan, Places
    <3>2. vlans'[op.p] # NoVlan
      BY <1>2, <2>3, VlansAreNumbers DEF NewVlan, Lowest, Free, Vlans, NoVlan
    <3> QED
      BY <2>1, <3>1, <3>2
  <2>4. CASE NoVlanLeft
    BY <2>4, NoCallInOrder DEF NoVlanLeft, End
  <2> QED
    BY <1>3, <2>2, <2>3, <2>4 DEF Allocate
<1>4. CASE Save
  <2>1. CASE op.kind = "apply"
    <3>1. op'.at = "clear" /\ op'.todo = Listed(op.p) /\ op'.kind = op.kind /\ op'.p = op.p
      BY <1>1, <1>4, <2>1, GoesTo DEF Save, Saved, Places
    <3> QED
      BY <1>1, <1>4, <2>1, <3>1 DEF Save, Step, Listed
  <2>2. CASE op.kind # "apply"
    BY <1>4, <2>2, NoCallInOrder DEF Save, Saved, End
  <2> QED
    BY <2>1, <2>2
<1>5. CASE SaveFails
  BY <1>5, NoCallInOrder DEF SaveFails, End
<1>6. CASE Release
  <2>1. op.kind # "apply" /\ vlans'[op.p] = NoVlan /\ up'
    BY <1>1, <1>2, <1>6 DEF Release, Step
  <2>2. CASE vlans[op.p] = NoVlan
    BY <1>6, <2>2, NoCallInOrder DEF Release, End
  <2>3. CASE vlans[op.p] # NoVlan
    <3>1. op'.at = "save" /\ op'.kind = op.kind /\ op'.p = op.p
      BY <1>1, <1>6, <2>3, GoesTo DEF Release, Places
    <3> QED
      BY <2>1, <3>1
  <2> QED
    BY <2>2, <2>3
<1> QED
  BY <1>3, <1>4, <1>5, <1>6

LEMMA ClearOrder ==
  ASSUME Base,
         \/ \E c \in Containers : Kill(c) \/ DeleteContainer(c) \/ RemoveSnapshot(c)
         \/ Cleared \/ ClearFails
         \/ RemoveCgroup \/ RemoveCgroupFails \/ Limit \/ LimitFails
  PROVE  Order'
<1> USE DEF Base, Order
<1>1. op # Idle /\ OpOK
  BY UnderWay DEF Kill, DeleteContainer, RemoveSnapshot, Cleared, ClearFails, RemoveCgroup,
                  RemoveCgroupFails, Limit, LimitFails, Places, TypeOK
<1>2. op.p \in Pods /\ ctr \in [Pods -> [Containers -> Stages]]
  BY <1>1, CallTyped DEF TypeOK
<1>3. ASSUME NEW c \in Containers, Kill(c) \/ DeleteContainer(c) PROVE Order'
  <2>1. op' = op /\ op.at = "clear" /\ UNCHANGED <<up, vlans>> /\ Listed(op.p) \subseteq op.todo
    BY <1>1, <1>3 DEF Kill, DeleteContainer, Step
  <2>2. c \in op.todo /\ \A d \in Containers \ {c} : ctr'[op.p][d] = ctr[op.p][d]
    BY <1>2, <1>3 DEF Kill, DeleteContainer
  <2>3. Listed(op.p)' \subseteq op'.todo
    BY <2>1, <2>2 DEF Listed
  <2> QED
    BY <1>1, <2>1, <2>3
<1>4. ASSUME NEW c \in Containers, RemoveSnapshot(c) PROVE Order'
  <2>1. /\ op'.at = "clear" /\ op'.todo = op.todo \ {c}
        /\ op'.kind = op.kind /\ op'.p = op.p /\ op.at = "clear"
    BY <1>1, <1>4, GoesTo DEF RemoveSnapshot, Places, Step
  <2>2. ctr'[op.p][c] = "none" /\ \A d \in Containers \ {c} : ctr'[op.p][d] = ctr[op.p][d]
    BY <1>2, <1>4 DEF RemoveSnapshot
  <2>3. Listed(op.p)' \subseteq op'.todo
    BY <1>1, <2>1, <2>2 DEF Listed
  <2> QED
    BY <1>1, <1>4, <2>1, <2>3 DEF RemoveSnapshot
<1>5. CASE Cleared
  <2>1. op'.at = "cgroup" /\ op'.kind = op.kind /\ op'.p = op.p
    BY <1>1, <1>5, GoesTo DEF Cleared, Places
  <2> QED
    BY <1>1, <1>5, <2>1 DEF Cleared, Step
<1>6. CASE ClearFails
  <2>1. CASE op.kind = "rollback"
    <3>1. op'.at = "cgroup" /\ op'.kind = op.kind
      BY <1>1, <1>6, <2>1 DEF ClearFails, GoOnAnyway, OpOK
    <3> QED
      BY <1>1, <1>6, <2>1, <3>1 DEF ClearFails
  <2>2. CASE op.kind # "rollback"
    BY <1>6, <2>2, NoCallInOrder DEF ClearFails, End
  <2> QED
    BY <2>1, <2>2
<1>7. CASE RemoveCgroup \/ RemoveCgroupFails
  <2>1. op'.at = AfterCgroup /\ op'.kind = op.kind /\ op'.p = op.p
    <3>1. AfterCgroup \in Places
      BY DEF AfterCgroup, Places
    <3> QED
      BY <1>1, <1>7, <3>1, GoesTo DEF RemoveCgroup, RemoveCgroupFails, OpOK
  <2>2. op.at = "cgroup" /\ UNCHANGED <<up, vlans>>
    BY <1>7 DEF RemoveCgroup, RemoveCgroupFails, Step
  <2> QED
    BY <1>1, <2>1, <2>2 DEF AfterCgroup
<1>8. CASE Limit
  <2>1. op'.at = "run" /\ op'.kind = op.kind /\ op'.p = op.p
    BY <1>1, <1>8, GoesTo DEF Limit, Places
  <2> QED
    BY <1>1, <1>8, <2>1 DEF Limit, Step
<1>9. CASE LimitFails
  BY <1>1, <1>9, RollingBackInOrder DEF LimitFails
<1> QED
  BY <1>3, <1>4, <1>5, <1>6, <1>7, <1>8, <1>9

LEMMA RunOrder ==
  ASSUME Base,
         \/ \E c \in Containers : Prepare(c) \/ SnapshotExists(c)
         \/ Create \/ Start \/ Attach \/ AttachRefused \/ PullFails \/ RunFails \/ Applied
  PROVE  Order'
<1> USE DEF Base, Order
<1>1. op # Idle /\ OpOK
  BY UnderWay DEF Prepare, SnapshotExists, Create, Start, Attach, AttachRefused, PullFails,
                  RunFails, Applied, Places, Step, TypeOK
<1>2. op.p \in Pods /\ ctr \in [Pods -> [Containers -> Stages]]
  BY <1>1, CallTyped DEF TypeOK
<1>3. ASSUME NEW c \in Containers, Prepare(c) PROVE Order'
  <2>1. op'.at = "create" /\ op'.kind = op.kind /\ op'.p = op.p /\ op'.cur = c
    BY <1>1, <1>3 DEF Prepare, OpOK
  <2>2. ctr'[op.p][c] = "snapshot"
    BY <1>2, <1>3 DEF Prepare
  <2> QED
    BY <1>1, <1>3, <2>1, <2>2 DEF Prepare, Step
<1>4. CASE \/ \E c \in Containers : SnapshotExists(c)
           \/ AttachRefused \/ PullFails \/ RunFails
  BY <1>1, <1>4, RollingBackInOrder DEF SnapshotExists, AttachRefused, PullFails, RunFails
<1>5. CASE Create
  <2>1. op'.at = "start" /\ op'.kind = op.kind /\ op'.p = op.p
    BY <1>1, <1>5, GoesTo DEF Create, Places
  <2> QED
    BY <1>1, <1>5, <2>1 DEF Create, Step
<1>6. CASE Start
  <2>1. op'.at = "attach" /\ op'.kind = op.kind /\ op'.p = op.p /\ op'.cur = op.cur
    BY <1>1, <1>6, GoesTo DEF Start, Places
  <2>2. op.cur \in Containers
    BY <1>1, <1>6, CallTyped DEF Start, Step
  <2>3. ctr'[op.p][op.cur] = "running"
    BY <1>2, <1>6, <2>2 DEF Start
  <2> QED
    BY <1>1, <1>6, <2>1, <2>3 DEF Start, Step
<1>7. CASE Attach
  <2>1. op'.at = "run" /\ op'.kind = op.kind /\ op'.p = op.p
    BY <1>1, <1>7, GoesTo DEF Attach, Places
  <2> QED
    BY <1>1, <1>7, <2>1 DEF Attach, Step
<1>8. CASE Applied
  BY <1>8, NoCallInOrder DEF Applied, End
<1> QED
  BY <1>3, <1>4, <1>5, <1>6, <1>7, <1>8

LEMMA OtherOrder ==
  ASSUME Base,
         \/ \E p \in Pods : \/ Delete(p)
                            \/ \E spec \in SUBSET Containers, limits \in Limits : Apply(p, spec, limits)
         \/ \E c \in Containers : Detach(c) \/ DetachFails(c)
         \/ Detached \/ Crash \/ Boot \/ CniRestarts
         \/ \E p \in Pods, c \in Containers : Collect(p, c)
         \/ UNCHANGED vars
  PROVE  Order'
<1> USE DEF Base, Order
<1>1. ASSUME NEW p \in Pods,
             \/ Delete(p)
             \/ \E spec \in SUBSET Containers, limits \in Limits : Apply(p, spec, limits)
      PROVE  Order'
  BY <1>1 DEF Delete, Apply, Call
<1>2. ASSUME NEW c \in Containers, Detach(c) \/ DetachFails(c)
      PROVE  Order'
  <2>1. op # Idle /\ OpOK /\ op.at = "detach"
    BY <1>2, UnderWay DEF Detach, DetachFails, Places, TypeOK, Step
  <2>2. op'.at = "detach" /\ op'.kind = op.kind
    <3>1. CASE Detach(c)
      BY <2>1, <3>1, GoesTo DEF Detach, Places
    <3>2. CASE DetachFails(c)
      BY <2>1, <3>2 DEF DetachFails, OpOK
    <3> QED
      BY <1>2, <3>1, <3>2
  <2> QED
    BY <1>2, <2>1, <2>2 DEF Detach, DetachFails
<1>3. CASE Detached
  <2>1. op # Idle /\ OpOK /\ op.at = "detach"
    BY <1>3, UnderWay DEF Detached, Places, TypeOK, Step
  <2>2. op'.at = "clear" /\ op'.todo = Listed(op.p) /\ op'.kind = op.kind /\ op'.p = op.p
    BY <1>3, <2>1, GoesTo DEF Detached, Places
  <2> QED
    BY <1>3, <2>1, <2>2 DEF Detached, Listed
<1>4. CASE Crash
  BY <1>4, NoCallInOrder DEF Crash
<1>5. CASE Boot
  BY <1>5, NoCallInOrder DEF Boot
<1>6. CASE CniRestarts
  BY <1>6 DEF CniRestarts, Listed
<1>7. ASSUME NEW p \in Pods, NEW c \in Containers, Collect(p, c)
      PROVE  Order'
  <2>1. op # Idle => ctr'[op.p] = ctr[op.p]
    BY <1>7, CallTyped DEF Collect, TypeOK
  <2> QED
    BY <1>7, <2>1 DEF Collect, Listed
<1>8. CASE UNCHANGED vars
  BY <1>8 DEF vars, Listed
<1> QED
  BY <1>1, <1>2, <1>3, <1>4, <1>5, <1>6, <1>7, <1>8

LEMMA OrderKept ==
  ASSUME Base, [Next]_vars
  PROVE  Order'
BY VlanOrder, ClearOrder, RunOrder, OtherOrder DEF Next, OfContainer

-----------------------------------------------------------------------------
(* The VLAN map and its file.                                              *)

(* The steps that change the map or the file.                              *)
LEMMA MapSteps ==
  ASSUME [Next]_vars, ~UNCHANGED <<vlans, file>>
  PROVE  Allocate \/ Save \/ SaveFails \/ Release \/ Crash \/ Boot
BY DEF Next, OfContainer, vars, Delete, Apply, Cleared, ClearFails, RemoveCgroup,
   RemoveCgroupFails, Limit, LimitFails, Create, Start, Attach, RunFails, AttachRefused,
   PullFails, Applied, Detached, Kill, DeleteContainer, RemoveSnapshot, Prepare,
   SnapshotExists, Detach, DetachFails, CniRestarts, Collect

LEMMA DistinctKept ==
  ASSUME Base, [Next]_vars
  PROVE  Distinct'
<1> USE DEF Base, Distinct, Injective
<1>1. CASE UNCHANGED <<vlans, file>>
  BY <1>1
<1>2. CASE Allocate
  <2>1. op.p \in Pods /\ vlans \in [Pods -> Vlans \cup {NoVlan}]
    BY <1>2, UnderWay, CallTyped DEF Allocate, Places, TypeOK
  <2> QED
    BY <1>2, <2>1 DEF Allocate, KeepVlan, NewVlan, NoVlanLeft, Lowest, Free
<1>3. CASE Save \/ SaveFails
  BY <1>3 DEF Save, SaveFails
<1>4. CASE Release
  <2>1. op.p \in Pods /\ vlans \in [Pods -> Vlans \cup {NoVlan}]
    BY <1>4, UnderWay, CallTyped DEF Release, Places, TypeOK
  <2> QED
    BY <1>4, <2>1 DEF Release
<1>5. CASE Crash
  BY <1>5 DEF Crash, NoVlans
<1>6. CASE Boot
  BY <1>6 DEF Boot
<1> QED
  BY <1>1, <1>2, <1>3, <1>4, <1>5, <1>6, MapSteps

LEMMA BaseKept ==
  ASSUME Base, [Next]_vars
  PROVE  Base'
BY TypesKept, LinksKept, OrderKept, DistinctKept DEF Base

-----------------------------------------------------------------------------
(* What the map, the file and the links say of each other.                 *)

LEMMA BotchedStays ==
  ASSUME [Next]_vars, ~botched'
  PROVE  ~botched
BY DEF Next, OfContainer, vars, Delete, Apply, Allocate, Save, SaveFails, Release, Cleared,
   ClearFails, RemoveCgroup, RemoveCgroupFails, Limit, LimitFails, Create, Start, Attach,
   RunFails, AttachRefused, PullFails, Applied, Detached, Kill, DeleteContainer,
   RemoveSnapshot, Prepare, SnapshotExists, Detach, DetachFails, Crash, Boot, CniRestarts,
   Collect

(* A save ends by itself or with the agent.                                *)
LEMMA SavingSteps ==
  ASSUME Base, [Next]_vars, op # Idle, op.at = "save"
  PROVE  UNCHANGED op \/ Save \/ SaveFails \/ Crash
BY DEF Base, Order, Next, OfContainer, vars, Step, Delete, Apply, Allocate, Release, Cleared,
   ClearFails, RemoveCgroup, RemoveCgroupFails, Limit, LimitFails, Create, Start, Attach,
   RunFails, AttachRefused, PullFails, Applied, Detached, Kill, DeleteContainer,
   RemoveSnapshot, Prepare, SnapshotExists, Detach, DetachFails, Boot, CniRestarts, Collect

LEMMA MirroredKept ==
  ASSUME Base, Mirrored, [Next]_vars, ~botched'
  PROVE  Mirrored'
<1> USE DEF Base
<1>1. op # Idle => op.p \in Pods
  BY CallTyped DEF TypeOK
<1>2. vlans \in [Pods -> Vlans \cup {NoVlan}]
  BY DEF TypeOK
<1>3. CASE Allocate
  <2>1. op # Idle /\ OpOK /\ op.at = "allocate"
    BY <1>3, UnderWay DEF Allocate, Places, Step, TypeOK
  <2>2. CASE UNCHANGED vlans
    BY <1>3, <2>1, <2>2 DEF Allocate, Mirrored, Saving
  <2>3. CASE NewVlan
    <3>1. op'.at = "save" /\ op'.p = op.p /\ op' # Idle
      BY <2>1, <2>3, GoesTo DEF NewVlan, Places, Idle
    <3>2. \A q \in Pods \ {op.p} : vlans'[q] = vlans[q]
      BY <1>2, <2>3 DEF NewVlan
    <3> QED
      BY <1>3, <2>1, <3>1, <3>2 DEF Allocate, Mirrored, Saving
  <2> QED
    BY <1>3, <2>2, <2>3 DEF Allocate, KeepVlan, NoVlanLeft
<1>4. CASE Save
  BY <1>4 DEF Save, Mirrored
<1>5. CASE SaveFails
  <2>1. op # Idle /\ op.at = "save" /\ op.kind # "apply"
    BY <1>5, UnderWay DEF SaveFails, Places, Step
  <2>2. vlans[op.p] = NoVlan
    BY <2>1 DEF Order
  <2> QED
    BY <1>5, <2>2 DEF SaveFails, Mirrored, Saving
<1>6. CASE Release
  <2>1. op # Idle /\ op.at = "release"
    BY <1>6, UnderWay DEF Release, Places, Step
  <2>2. vlans'[op.p] = NoVlan /\ \A q \in Pods \ {op.p} : vlans'[q] = vlans[q]
    BY <1>1, <1>2, <1>6, <2>1 DEF Release
  <2> QED
    BY <1>6, <2>1, <2>2 DEF Release, Mirrored, Saving
<1>7. CASE Crash
  BY <1>7 DEF Crash, NoVlans, Mirrored
<1>8. CASE Boot
  BY <1>8 DEF Boot, Mirrored
<1>9. CASE UNCHANGED <<vlans, file>> /\ ~SaveFails /\ ~Save /\ ~Crash
  <2>1. ASSUME NEW q \in Pods, Saving(q) PROVE Saving(q)'
    BY <1>9, <2>1, SavingSteps DEF Saving
  <2> QED
    BY <1>9, <2>1 DEF Mirrored
<1> QED
  BY <1>3, <1>4, <1>5, <1>6, <1>7, <1>8, <1>9, MapSteps

(* A VLAN is about to be released once remove_pod has come to its end.     *)
LEMMA EmptyingSteps ==
  ASSUME Base, [Next]_vars,
         op' # Idle, op'.kind # "apply", op'.at \in {"cgroup", "release"}
  PROVE  UNCHANGED op \/ Cleared \/ ClearFails \/ RemoveCgroup \/ RemoveCgroupFails
<1> USE DEF Base
<1>1. OpOK
  BY DEF TypeOK
<1>2. ~(Allocate \/ Save \/ SaveFails \/ Release)
  <2> SUFFICES ASSUME Allocate \/ Save \/ SaveFails \/ Release PROVE FALSE
    OBVIOUS
  <2>1. op # Idle
    BY UnderWay DEF Allocate, Save, SaveFails, Release, Places
  <2>2. \A todo : Goto("clear", todo) \/ Goto("save", todo) => op'.at \in {"clear", "save"}
    BY <1>1, <2>1, GoesTo DEF Places
  <2> QED
    BY <2>2 DEF Allocate, KeepVlan, NewVlan, NoVlanLeft, Save, Saved, SaveFails, Release, End
<1>3. ~(\E c \in Containers : RemoveSnapshot(c))
  <2> SUFFICES ASSUME NEW c \in Containers, RemoveSnapshot(c) PROVE FALSE
    OBVIOUS
  <2> QED
    BY <1>1, UnderWay, GoesTo DEF RemoveSnapshot, Places
<1>4. ~(Limit \/ LimitFails)
  BY <1>1, UnderWay, GoesTo, RollsBack DEF Limit, LimitFails, Places
<1>5. ~(\E c \in Containers : Prepare(c) \/ SnapshotExists(c))
  <2> SUFFICES ASSUME NEW c \in Containers, Prepare(c) \/ SnapshotExists(c) PROVE FALSE
    OBVIOUS
  <2>1. op # Idle
    BY UnderWay DEF Prepare, SnapshotExists, Places
  <2>2. CASE Prepare(c)
    BY <1>1, <2>1, <2>2 DEF Prepare, OpOK
  <2>3. CASE SnapshotExists(c)
    BY <1>1, <2>1, <2>3, RollsBack DEF SnapshotExists
  <2> QED
    BY <2>2, <2>3
<1>6. ~(Create \/ Start \/ Attach)
  <2> SUFFICES ASSUME Create \/ Start \/ Attach PROVE FALSE
    OBVIOUS
  <2>1. op # Idle
    BY UnderWay DEF Create, Start, Attach, Places
  <2> QED
    BY <1>1, <2>1, GoesTo DEF Create, Start, Attach, Places
<1>7. ~(AttachRefused \/ PullFails \/ RunFails \/ Applied)
  <2> SUFFICES ASSUME AttachRefused \/ PullFails \/ RunFails \/ Applied PROVE FALSE
    OBVIOUS
  <2>1. op # Idle
    BY UnderWay DEF AttachRefused, PullFails, RunFails, Applied, Places, Step
  <2> QED
    BY <1>1, <2>1, RollsBack DEF AttachRefused, PullFails, RunFails, Applied, End
<1>8. ~(Detached \/ \E c \in Containers : Detach(c) \/ DetachFails(c))
  <2> SUFFICES ASSUME Detached \/ \E c \in Containers : Detach(c) \/ DetachFails(c) PROVE FALSE
    OBVIOUS
  <2>1. op # Idle /\ op.at = "detach"
    BY UnderWay DEF Detached, Detach, DetachFails, Places, Step
  <2>2. \A todo : Goto("clear", todo) \/ Goto("detach", todo) => op'.at \in {"clear", "detach"}
    BY <1>1, <2>1, GoesTo DEF Places
  <2>3. \A c \in Containers : DetachFails(c) => op'.at = "detach"
    BY <1>1, <2>1 DEF DetachFails, OpOK
  <2> QED
    BY <2>2, <2>3 DEF Detached, Detach
<1>9. ~(\E p \in Pods : \/ Delete(p)
                        \/ \E spec \in SUBSET Containers, limits \in Limits : Apply(p, spec, limits))
  BY DEF Delete, Apply, Call
<1>10. ASSUME \/ Crash \/ Boot \/ CniRestarts
              \/ \E p \in Pods, c \in Containers : Collect(p, c)
              \/ \E c \in Containers : Kill(c) \/ DeleteContainer(c)
              \/ UNCHANGED vars
       PROVE  UNCHANGED op
  BY <1>10 DEF Crash, Boot, CniRestarts, Collect, Kill, DeleteContainer, vars
<1> QED
  BY <1>2, <1>3, <1>4, <1>5, <1>6, <1>7, <1>8, <1>9, <1>10 DEF Next, OfContainer

LEMMA EmptiedKept ==
  ASSUME Base, Emptied, [Next]_vars, ~botched'
  PROVE  Emptied'
<1> SUFFICES ASSUME op' # Idle, op'.kind # "apply", op'.at \in {"cgroup", "release"},
                    NEW c \in Containers, net'[op'.p][c].link
             PROVE  FALSE
  BY DEF Emptied, Attached
<1> USE DEF Base
<1>1. op # Idle => OpOK /\ op.p \in Pods
  BY CallTyped DEF TypeOK
<1>2. CASE UNCHANGED op
  <2>1. op # Idle /\ op.p \in Pods /\ ~Step("attach")
    BY <1>1, <1>2 DEF Step
  <2>2. net[op.p][c].link
    BY <1>2, <2>1, LinkSteps
  <2> QED
    BY <1>2, <2>1, <2>2 DEF Emptied, Attached
<1>3. CASE Cleared
  <2>1. op # Idle /\ op.at = "clear" /\ op.todo = {} /\ UNCHANGED net
    BY <1>3, UnderWay DEF Cleared, Places, Step
  <2>2. op'.p = op.p
    BY <1>1, <1>3, <2>1, GoesTo DEF Cleared, Places
  <2>3. c \in Attached(op.p) /\ Listed(op.p) = {}
    BY <2>1, <2>2 DEF Attached, Order
  <2> QED
    BY <1>1, <2>1, <2>3 DEF Links, Listed
<1>4. CASE ClearFails
  <2>1. op # Idle /\ UNCHANGED net
    BY <1>4, UnderWay DEF ClearFails, Places
  <2>2. op.kind = "rollback"
    BY <1>4 DEF ClearFails, End
  <2>3. op'.p = op.p
    BY <1>1, <1>4, <2>1, <2>2 DEF ClearFails, GoOnAnyway, OpOK
  <2> QED
    BY <1>4, <2>1, <2>2, <2>3 DEF ClearFails, Attached
<1>5. CASE RemoveCgroup \/ RemoveCgroupFails
  <2>1. op # Idle /\ op.at = "cgroup" /\ UNCHANGED net
    BY <1>5, UnderWay DEF RemoveCgroup, RemoveCgroupFails, Places, Step
  <2>2. op'.kind = op.kind /\ op'.p = op.p
    <3>1. AfterCgroup \in Places
      BY DEF AfterCgroup, Places
    <3> QED
      BY <1>1, <1>5, <2>1, <3>1, GoesTo DEF RemoveCgroup, RemoveCgroupFails, OpOK
  <2> QED
    BY <2>1, <2>2 DEF Emptied, Attached
<1> QED
  BY <1>2, <1>3, <1>4, <1>5, EmptyingSteps

LEMMA KeptKept ==
  ASSUME Base, VlanInv, VlanKept, [Next]_vars
  PROVE  VlanKept'
<1> SUFFICES ASSUME ~botched', NEW p \in Pods, NEW c \in Containers, net'[p][c].link
             PROVE  /\ up' => vlans'[p] = net'[p][c].vlan
                    /\ file' # Torn => file'[p] = net'[p][c].vlan
  BY DEF VlanKept, Attached
<1> USE DEF Base
<1>1. ~botched /\ Mirrored /\ Emptied
  BY BotchedStays DEF VlanInv
<1>2. CASE /\ Step("attach") /\ p = op.p /\ c = op.cur
           /\ net'[p][c].vlan = vlans[p]
           /\ UNCHANGED <<up, vlans, file, ctr, botched>>
  <2>1. op # Idle /\ op.at = "attach"
    BY <1>2, UnderWay DEF Places, Step
  <2>2. vlans[p] # NoVlan
    BY <1>2, <2>1 DEF Order
  <2> QED
    BY <1>1, <1>2, <2>1, <2>2 DEF Mirrored, Saving
<1>3. CASE net[p][c].link /\ net'[p][c].vlan = net[p][c].vlan
  <2> DEFINE v == net[p][c].vlan
  <2>1. /\ up => vlans[p] = v
        /\ file # Torn => file[p] = v
        /\ v # NoVlan
    BY <1>1, <1>3 DEF VlanKept, Links, Attached
  <2> HIDE DEF v
  <2>2. net'[p][c].vlan = v
    BY <1>3 DEF v
  <2>3. op # Idle => op.p \in Pods /\ up
    BY CallTyped DEF TypeOK, Order
  <2>4. vlans \in [Pods -> Vlans \cup {NoVlan}]
    BY DEF TypeOK
  <2>5. CASE Allocate
    <3>1. op # Idle
      BY <2>5, UnderWay DEF Allocate, Places
    <3>2. vlans'[p] = vlans[p] /\ UNCHANGED file
      BY <2>1, <2>3, <2>4, <2>5, <3>1 DEF Allocate, KeepVlan, NewVlan, NoVlanLeft
    <3> QED
      BY <2>1, <2>2, <2>3, <3>1, <3>2
  <2>6. CASE Save \/ SaveFails
    <3>1. op # Idle
      BY <2>6, UnderWay DEF Save, SaveFails, Places
    <3> QED
      BY <2>1, <2>2, <2>3, <2>6, <3>1 DEF Save, SaveFails
  <2>7. CASE Release
    <3>1. op # Idle /\ op.at = "release"
      BY <2>7, UnderWay DEF Release, Places, Step
    <3>2. op.p # p
      BY <1>1, <1>3, <3>1 DEF Emptied, Order, Attached
    <3> QED
      BY <2>1, <2>2, <2>3, <2>4, <2>7, <3>1, <3>2 DEF Release
  <2>8. CASE Crash
    BY <2>1, <2>2, <2>8 DEF Crash
  <2>9. CASE Boot
    BY <2>1, <2>2, <2>9 DEF Boot
  <2>10. CASE UNCHANGED <<vlans, file>>
    <3>1. UNCHANGED up \/ Crash \/ Boot
      BY DEF Next, OfContainer, vars, Delete, Apply, Allocate, Save, SaveFails, Release, Cleared,
         ClearFails, RemoveCgroup, RemoveCgroupFails, Limit, LimitFails, Create, Start, Attach,
         RunFails, AttachRefused, PullFails, Applied, Detached, Kill, DeleteContainer,
         RemoveSnapshot, Prepare, SnapshotExists, Detach, DetachFails, CniRestarts, Collect
    <3> QED
      BY <2>1, <2>2, <2>8, <2>9, <2>10, <3>1
  <2> QED
    BY <2>5, <2>6, <2>7, <2>8, <2>9, <2>10, MapSteps
<1> QED
  BY <1>2, <1>3, LinkSteps

LEMMA IsolatedKept ==
  ASSUME Base, Base', VlanKept', VlanIsolated, [Next]_vars
  PROVE  VlanIsolated'
<1> SUFFICES ASSUME ~botched', NEW p \in Pods, NEW q \in Pods, p # q,
                    NEW c \in Containers, NEW d \in Containers,
                    net'[p][c].link, net'[q][d].link
             PROVE  net'[p][c].vlan # net'[q][d].vlan
  BY DEF VlanIsolated, Attached
<1>1. CASE up'
  <2>1. vlans'[p] = net'[p][c].vlan /\ vlans'[q] = net'[q][d].vlan
    BY <1>1 DEF VlanKept, Attached
  <2>2. vlans'[p] # NoVlan
    BY <2>1 DEF Base, Links, Attached
  <2> QED
    BY <2>1, <2>2 DEF Base, Distinct, Injective
<1>2. CASE ~up'
  <2>1. ~(Step("attach") /\ UNCHANGED up)
    BY <1>2, UnderWay DEF Base, Order, Places
  <2>2. /\ net[p][c].link /\ net'[p][c].vlan = net[p][c].vlan
        /\ net[q][d].link /\ net'[q][d].vlan = net[q][d].vlan
    BY <2>1, LinkSteps DEF Base
  <2> QED
    BY <2>2, BotchedStays DEF VlanIsolated, Attached
<1> QED
  BY <1>1, <1>2

LEMMA InvKept ==
  ASSUME IInv, [Next]_vars
  PROVE  IInv'
<1>1. Base'
  BY BaseKept DEF IInv
<1>2. VlanInv'
  BY BotchedStays, MirroredKept, EmptiedKept DEF IInv, VlanInv
<1>3. VlanKept'
  BY KeptKept DEF IInv
<1>4. VlanIsolated'
  BY <1>1, <1>3, IsolatedKept DEF IInv
<1> QED
  BY <1>1, <1>2, <1>3, <1>4 DEF IInv

-----------------------------------------------------------------------------
(* At every step of a call, and after every stop and failure, the map, the *)
(* file and the links are as far apart as the code's order of steps allows *)
(* and no further (allocate_for before the first attach, remove_pod before *)
(* release).                                                               *)
THEOREM KubeletInvariant == Spec => []IInv
<1>1. Init => IInv
  <2> SUFFICES ASSUME Init PROVE IInv
    OBVIOUS
  <2>1. \A p \in Pods : Attached(p) = {}
    BY DEF Init, Attached, NoNet
  <2>2. Base
    BY <2>1, TypesInitially DEF Init, Base, Links, Order, Distinct, Injective, NoVlans
  <2>3. VlanInv /\ VlanKept /\ VlanIsolated
    BY <2>1 DEF Init, VlanInv, Mirrored, Emptied, VlanKept, VlanIsolated, NoVlans
  <2> QED
    BY <2>2, <2>3 DEF IInv
<1> QED
  BY <1>1, InvKept, PTL DEF Spec

(* The map, the file, containerd's and the CNI daemon's state and the call *)
(* in progress have their types; no VLAN out of the range is handed out.   *)
THEOREM TypeCorrect == Spec => []TypeOK
<1>1. IInv => TypeOK
  BY DEF IInv, Base
<1> QED
  BY <1>1, KubeletInvariant, PTL

(* As long as a container of a pod is attached, memory and the file have   *)
(* its VLAN: "keeps it across re-applies and restarts" (vlan.rs).          *)
THEOREM PodKeepsItsVlan == Spec => []VlanKept
<1>1. IInv => VlanKept
  BY DEF IInv
<1> QED
  BY <1>1, KubeletInvariant, PTL

(* Containers of two pods never share a VLAN, also while the agent is down *)
(* or cannot read its file.                                                *)
THEOREM PodsAreIsolated == Spec => []VlanIsolated
<1>1. IInv => VlanIsolated
  BY DEF IInv
<1> QED
  BY <1>1, KubeletInvariant, PTL

-----------------------------------------------------------------------------
(* What is there of a pod while its containers are created, and what is    *)
(* left of it while they are taken back.                                   *)

Creating == {"run", "create", "start", "attach"}

(* The containers that are done, and the one that is being created from    *)
(* its second request on, are all that containerd has of the pod.          *)
Built ==
  /\ op.todo \subseteq op.spec
  /\ Listed(op.p) = (op.spec \ op.todo) \cup (IF op.at \in {"start", "attach"} THEN {op.cur} ELSE {})
  /\ \A c \in op.spec \ op.todo : ctr[op.p][c] = "running" /\ net[op.p][c] = Network
  /\ cgroup[op.p] \in {op.limits, IF op.limits = "max" THEN "absent" ELSE op.limits}

Undone ==
  /\ op.at = "detach" => op.spec \cap Recorded(op.p) \subseteq op.todo
  /\ op.at # "detach" => op.spec \cap Recorded(op.p) = {}
  /\ op.at \in {"cgroup", "release", "save"} => Listed(op.p) = {}
  /\ op.at \in {"release", "save"} => cgroup[op.p] = "absent"

Shape ==
  op # Idle =>
    /\ op.kind = "apply" /\ op.at \in {"cgroup", "limit"} => Listed(op.p) = {}
    /\ op.kind = "apply" /\ op.at \in Creating => Built
    /\ op.kind = "rollback" /\ ~op.hurt => Undone

LEMMA Carries ==
  ASSUME OpOK, op # Idle, NEW s \in Places, NEW todo, Goto(s, todo)
  PROVE  op'.spec = op.spec /\ op'.limits = op.limits /\ op'.hurt = op.hurt
BY DEF OpOK, Goto

LEMMA NoCallHasShape ==
  ASSUME op' = Idle
  PROVE  Shape'
BY DEF Shape

LEMMA RollBackShape ==
  ASSUME OpOK, op # Idle, RollBack
  PROVE  Shape'
<1>1. op'.kind = "rollback" /\ op'.at = "detach" /\ op'.todo = op'.spec
  BY DEF RollBack, OpOK
<1> QED
  BY <1>1 DEF Shape, Undone, Recorded

LEMMA VlanShape ==
  ASSUME Base, Shape, Allocate \/ Save \/ SaveFails \/ Release
  PROVE  Shape'
<1>1. op # Idle /\ OpOK
  BY UnderWay DEF Allocate, Save, SaveFails, Release, Places, Base, TypeOK
<1>2. CASE Allocate
  <2>1. op.kind = "apply"
    BY <1>1, <1>2 DEF Allocate, Step, Base, Order
  <2>2. CASE NoVlanLeft
    BY <2>2, NoCallHasShape DEF NoVlanLeft, End
  <2>3. CASE KeepVlan \/ NewVlan
    <3>1. op'.kind = op.kind /\ op'.at \in {"clear", "save"}
      BY <1>1, <2>3, GoesTo DEF KeepVlan, NewVlan, Places
    <3> QED
      BY <2>1, <3>1 DEF Shape, Creating
  <2> QED
    BY <1>2, <2>2, <2>3 DEF Allocate
<1>3. CASE Save
  <2>1. CASE op.kind = "apply"
    <3>1. op'.kind = op.kind /\ op'.at = "clear"
      BY <1>1, <1>3, <2>1, GoesTo DEF Save, Saved, Places
    <3> QED
      BY <2>1, <3>1 DEF Shape, Creating
  <2> QED
    BY <1>3, <2>1, NoCallHasShape DEF Save, Saved, End
<1>4. CASE SaveFails
  BY <1>4, NoCallHasShape DEF SaveFails, End
<1>5. CASE Release
  <2>1. op.at = "release" /\ op.kind # "apply" /\ UNCHANGED <<ctr, net, cgroup>>
    BY <1>1, <1>5 DEF Release, Step, Base, Order
  <2>2. CASE Goto("save", {})
    <3>1. /\ op'.at = "save" /\ op'.kind = op.kind /\ op'.p = op.p
          /\ op'.spec = op.spec /\ op'.hurt = op.hurt
      BY <1>1, <2>2, GoesTo, Carries DEF Places
    <3> QED
      BY <1>1, <2>1, <3>1 DEF Shape, Undone, Recorded, Listed
  <2> QED
    BY <1>5, <2>2, NoCallHasShape DEF Release, End
<1> QED
  BY <1>2, <1>3, <1>4, <1>5

LEMMA ClearShape ==
  ASSUME Base, Shape,
         \/ \E c \in Containers : Kill(c) \/ DeleteContainer(c) \/ RemoveSnapshot(c)
         \/ Cleared \/ ClearFails
  PROVE  Shape'
<1>1. op # Idle /\ OpOK /\ op.at = "clear"
  BY UnderWay DEF Kill, DeleteContainer, RemoveSnapshot, Cleared, ClearFails, Places, Step,
                  Base, TypeOK
<1>2. op.p \in Pods /\ net \in AllNets
  BY <1>1, CallTyped, NetTypes DEF Base
<1>3. ASSUME NEW c \in Containers, Kill(c) \/ DeleteContainer(c) PROVE Shape'
  <2>1. op' = op
    BY <1>3 DEF Kill, DeleteContainer
  <2>2. \A d \in Containers : net'[op.p][d].vlan = net[op.p][d].vlan
    <3>1. \A d \in Containers : [net EXCEPT ![op.p][c].link = FALSE][op.p][d].vlan = net[op.p][d].vlan
      BY <1>2 DEF AllNets, Nets
    <3> QED
      BY <1>3, <3>1 DEF Kill, DeleteContainer
  <2> QED
    BY <1>1, <2>1, <2>2 DEF Shape, Undone, Recorded, Creating
<1>4. ASSUME NEW c \in Containers, RemoveSnapshot(c) PROVE Shape'
  <2>1. /\ op'.at = "clear" /\ op'.kind = op.kind /\ op'.p = op.p
        /\ op'.spec = op.spec /\ op'.hurt = op.hurt
    BY <1>1, <1>4, GoesTo, Carries DEF RemoveSnapshot, Places
  <2> QED
    BY <1>1, <1>4, <2>1 DEF RemoveSnapshot, Shape, Undone, Recorded, Creating
<1>5. CASE Cleared
  <2>1. /\ op'.at = "cgroup" /\ op'.kind = op.kind /\ op'.p = op.p
        /\ op'.spec = op.spec /\ op'.hurt = op.hurt
    BY <1>1, <1>5, GoesTo, Carries DEF Cleared, Places
  <2>2. Listed(op.p) = {} /\ UNCHANGED <<ctr, net>>
    BY <1>1, <1>5 DEF Cleared, Base, Order
  <2> QED
    BY <1>1, <2>1, <2>2 DEF Shape, Undone, Recorded, Listed, Creating
<1>6. CASE ClearFails
  <2>1. CASE op.kind = "rollback"
    <3>1. op'.kind = "rollback" /\ op'.hurt
      BY <1>1, <1>6, <2>1 DEF ClearFails, GoOnAnyway, OpOK
    <3> QED
      BY <3>1 DEF Shape
  <2> QED
    BY <1>6, <2>1, NoCallHasShape DEF ClearFails, End
<1> QED
  BY <1>3, <1>4, <1>5, <1>6

LEMMA CgroupShape ==
  ASSUME Base, Shape, RemoveCgroup \/ RemoveCgroupFails \/ Limit \/ LimitFails
  PROVE  Shape'
<1>1. op # Idle /\ OpOK
  BY UnderWay DEF RemoveCgroup, RemoveCgroupFails, Limit, LimitFails, Places, Base, TypeOK
<1>2. op.p \in Pods /\ cgroup \in [Pods -> Cgroups]
  BY <1>1, CallTyped DEF Base, TypeOK
<1>3. AfterCgroup \in Places
  BY DEF AfterCgroup, Places
<1>4. CASE RemoveCgroup
  <2>1. /\ op'.at = AfterCgroup /\ op'.kind = op.kind /\ op'.p = op.p
        /\ op'.spec = op.spec /\ op'.hurt = op.hurt
    BY <1>1, <1>3, <1>4, GoesTo, Carries DEF RemoveCgroup
  <2>2. op.at = "cgroup" /\ UNCHANGED <<ctr, net>>
    BY <1>4 DEF RemoveCgroup, Step
  <2>3. Listed(op.p) = {} => cgroup'[op.p] = "absent"
    BY <1>2, <1>4 DEF RemoveCgroup, Listed
  <2> QED
    BY <1>1, <2>1, <2>2, <2>3 DEF Shape, Undone, Recorded, Listed, Creating, AfterCgroup
<1>5. CASE RemoveCgroupFails
  <2>1. /\ op'.at = AfterCgroup /\ op'.kind = op.kind /\ op'.p = op.p
        /\ op'.hurt = (op.kind # "apply")
    BY <1>1, <1>5 DEF RemoveCgroupFails, OpOK
  <2>2. op.at = "cgroup" /\ UNCHANGED ctr
    BY <1>5 DEF RemoveCgroupFails, Step
  <2> QED
    BY <1>1, <2>1, <2>2 DEF Shape, Listed, Creating, AfterCgroup
<1>6. CASE Limit
  <2>1. /\ op'.at = "run" /\ op'.kind = op.kind /\ op'.p = op.p
        /\ op'.spec = op.spec /\ op'.limits = op.limits /\ op'.todo = op.spec
    BY <1>1, <1>6, GoesTo, Carries DEF Limit, Places
  <2>2. op.at = "limit" /\ op.kind = "apply" /\ UNCHANGED ctr
    BY <1>1, <1>6 DEF Limit, Step, Base, Order
  <2>3. Listed(op.p) = {}
    BY <1>1, <2>2 DEF Shape
  <2>4. cgroup'[op.p] \in {op.limits, IF op.limits = "max" THEN "absent" ELSE op.limits}
    BY <1>2, <1>6 DEF Limit, NothingToEnforce
  <2> QED
    BY <2>1, <2>2, <2>3, <2>4 DEF Shape, Built, Listed, Creating
<1>7. CASE LimitFails
  BY <1>1, <1>7, RollBackShape DEF LimitFails
<1> QED
  BY <1>4, <1>5, <1>6, <1>7

LEMMA RunShape ==
  ASSUME Base, Shape,
         \/ \E c \in Containers : Prepare(c) \/ SnapshotExists(c)
         \/ Create \/ Start \/ Attach \/ AttachRefused \/ PullFails \/ RunFails \/ Applied
  PROVE  Shape'
<1>1. op # Idle /\ OpOK
  BY UnderWay DEF Prepare, SnapshotExists, Create, Start, Attach, AttachRefused, PullFails,
                  RunFails, Applied, Places, Step, Base, TypeOK
<1>2. op.p \in Pods /\ ctr \in [Pods -> [Containers -> Stages]] /\ op.todo \subseteq Containers
  BY <1>1, CallTyped DEF Base, TypeOK
<1>3. op.at \in Creating => op.kind = "apply" /\ Built
  BY <1>1 DEF Base, Order, Shape, Creating
<1>4. op.at \in {"create", "start", "attach"} => op.cur \in op.todo /\ op.cur \in Containers
  BY <1>1, CallTyped
<1>5. ASSUME NEW c \in Containers, Prepare(c) PROVE Shape'
  <2>1. /\ op'.at = "create" /\ op'.kind = op.kind /\ op'.p = op.p /\ op'.todo = op.todo
        /\ op'.spec = op.spec /\ op'.limits = op.limits
    BY <1>1, <1>5 DEF Prepare, OpOK
  <2>2. op.at = "run" /\ c \in op.todo /\ UNCHANGED <<net, vlans, cgroup>>
    BY <1>5 DEF Prepare, Step
  <2>3. /\ ctr[op.p][c] = "none" /\ ctr'[op.p][c] = "snapshot"
        /\ \A d \in Containers \ {c} : ctr'[op.p][d] = ctr[op.p][d]
    BY <1>2, <1>5 DEF Prepare
  <2>4. Listed(op.p)' = Listed(op.p)
    BY <2>1, <2>3 DEF Listed
  <2>5. Built
    BY <1>3, <2>2 DEF Creating
  <2>6. op.spec \subseteq Containers
    BY <1>1, CallTyped
  <2>7. Built'
    <3>1. op.todo \subseteq op.spec /\ Listed(op.p) = op.spec \ op.todo
      BY <2>2, <2>5 DEF Built
    <3>2. \A d \in op.spec \ op.todo :
            d # c /\ ctr[op.p][d] = "running" /\ net[op.p][d] = Network
      BY <2>2, <2>5 DEF Built
    <3>3. \A d \in op'.spec \ op'.todo : ctr'[op'.p][d] = "running" /\ net'[op'.p][d] = Network'
      BY <2>1, <2>2, <2>3, <2>6, <3>2 DEF Network
    <3>4. Listed(op.p)' = op'.spec \ op'.todo
      BY <2>1, <2>4, <3>1
    <3> QED
      BY <2>1, <2>2, <2>5, <3>1, <3>3, <3>4 DEF Built
  <2> QED
    BY <1>3, <2>1, <2>2, <2>7 DEF Shape, Creating
<1>6. op.spec \subseteq Containers
  BY <1>1, CallTyped
<1>7. CASE Create
  <2>1. /\ op'.at = "start" /\ op'.kind = op.kind /\ op'.p = op.p /\ op'.todo = op.todo
        /\ op'.spec = op.spec /\ op'.limits = op.limits /\ op'.cur = op.cur
    BY <1>1, <1>7, GoesTo, Carries DEF Create, Places
  <2>2. op.at = "create" /\ UNCHANGED <<net, vlans, cgroup>>
    BY <1>7 DEF Create, Step
  <2>3. /\ ctr'[op.p][op.cur] = "created"
        /\ \A d \in Containers \ {op.cur} : ctr'[op.p][d] = ctr[op.p][d]
    BY <1>2, <1>4, <1>7, <2>2 DEF Create
  <2>4. Listed(op.p)' = Listed(op.p) \cup {op.cur}
    BY <1>4, <2>1, <2>2, <2>3 DEF Listed
  <2>5. Built
    BY <1>3, <2>2 DEF Creating
  <2>6. Built'
    <3>1. op.cur \in op.todo /\ op.todo \subseteq op.spec /\ Listed(op.p) = op.spec \ op.todo
      BY <1>4, <2>2, <2>5 DEF Built
    <3>2. Listed(op.p)' = (op'.spec \ op'.todo) \cup {op'.cur}
      BY <2>1, <2>4, <3>1
    <3>3. \A d \in op'.spec \ op'.todo : ctr'[op'.p][d] = "running" /\ net'[op'.p][d] = Network'
      BY <1>6, <2>1, <2>2, <2>3, <2>5, <3>1 DEF Built, Network
    <3> QED
      BY <2>1, <2>2, <2>5, <3>1, <3>2, <3>3 DEF Built
  <2> QED
    BY <1>3, <2>1, <2>2, <2>6 DEF Shape, Creating
<1>8. CASE Start
  <2>1. /\ op'.at = "attach" /\ op'.kind = op.kind /\ op'.p = op.p /\ op'.todo = op.todo
        /\ op'.spec = op.spec /\ op'.limits = op.limits /\ op'.cur = op.cur
    BY <1>1, <1>8, GoesTo, Carries DEF Start, Places
  <2>2. op.at = "start" /\ UNCHANGED <<net, vlans>>
    BY <1>8 DEF Start, Step
  <2>3. /\ ctr'[op.p][op.cur] = "running"
        /\ \A d \in Containers \ {op.cur} : ctr'[op.p][d] = ctr[op.p][d]
    BY <1>2, <1>4, <1>8, <2>2 DEF Start
  <2>4. Listed(op.p)' = Listed(op.p) \cup {op.cur}
    BY <1>4, <2>1, <2>2, <2>3 DEF Listed
  <2>5. Built
    BY <1>3, <2>2 DEF Creating
  <2>6. cgroup'[op.p] \in {op.limits, IF op.limits = "max" THEN "absent" ELSE op.limits}
    <3>1. cgroup'[op.p] = Entered
      BY <1>2, <1>8 DEF Start, Base, TypeOK
    <3> QED
      BY <1>1, <2>5, <3>1, CallTyped DEF Built, Entered, Limits
  <2>7. Built'
    <3>1. op.cur \in op.todo /\ op.todo \subseteq op.spec /\ Listed(op.p) = (op.spec \ op.todo) \cup {op.cur}
      BY <1>4, <2>2, <2>5 DEF Built
    <3>2. Listed(op.p)' = (op'.spec \ op'.todo) \cup {op'.cur}
      BY <2>1, <2>4, <3>1
    <3>3. \A d \in op'.spec \ op'.todo : ctr'[op'.p][d] = "running" /\ net'[op'.p][d] = Network'
      BY <1>6, <2>1, <2>2, <2>3, <2>5, <3>1 DEF Built, Network
    <3> QED
      BY <2>1, <2>6, <3>1, <3>2, <3>3 DEF Built
  <2> QED
    BY <1>3, <2>1, <2>2, <2>7 DEF Shape, Creating
<1>9. CASE Attach
  <2>1. /\ op'.at = "run" /\ op'.kind = op.kind /\ op'.p = op.p /\ op'.todo = op.todo \ {op.cur}
        /\ op'.spec = op.spec /\ op'.limits = op.limits
    BY <1>1, <1>9, GoesTo, Carries DEF Attach, Places
  <2>2. op.at = "attach" /\ UNCHANGED <<ctr, vlans, cgroup>> /\ ctr[op.p][op.cur] = "running"
    BY <1>1, <1>9 DEF Attach, Step, Base, Order
  <2>3. /\ net'[op.p][op.cur] = Network
        /\ \A d \in Containers \ {op.cur} : net'[op.p][d] = net[op.p][d]
    <3>1. net \in AllNets
      BY NetTypes DEF Base
    <3> QED
      BY <1>2, <1>4, <1>9, <2>2, <3>1 DEF Attach, AllNets
  <2>4. Built
    BY <1>3, <2>2 DEF Creating
  <2>5. Built'
    <3>1. /\ op.cur \in op.todo /\ op.todo \subseteq op.spec
          /\ Listed(op.p) = (op.spec \ op.todo) \cup {op.cur}
      BY <1>4, <2>2, <2>4 DEF Built
    <3>2. op'.spec \ op'.todo = (op.spec \ op.todo) \cup {op.cur}
      BY <2>1, <3>1
    <3>3. Listed(op.p)' = op'.spec \ op'.todo
      BY <2>1, <2>2, <3>1, <3>2 DEF Listed
    <3>4. \A d \in op'.spec \ op'.todo : ctr'[op'.p][d] = "running" /\ net'[op'.p][d] = Network'
      <4> SUFFICES ASSUME NEW d \in Containers, d \in (op.spec \ op.todo) \cup {op.cur}
                   PROVE  ctr'[op'.p][d] = "running" /\ net'[op'.p][d] = Network'
        BY <1>6, <2>1, <3>2
      <4>1. Network' = Network
        BY <2>1, <2>2 DEF Network
      <4>2. CASE d = op.cur
        BY <2>1, <2>2, <2>3, <4>1, <4>2
      <4>3. CASE d # op.cur
        <5>1. ctr[op.p][d] = "running" /\ net[op.p][d] = Network
          BY <2>4, <4>3 DEF Built
        <5> QED
          BY <2>1, <2>2, <2>3, <4>1, <4>3, <5>1
      <4> QED
        BY <4>2, <4>3
    <3> QED
      BY <2>1, <2>2, <2>4, <3>1, <3>3, <3>4 DEF Built
  <2> QED
    BY <1>3, <2>1, <2>2, <2>5 DEF Shape, Creating
<1>10. CASE \/ \E c \in Containers : SnapshotExists(c)
            \/ AttachRefused \/ PullFails \/ RunFails
  BY <1>1, <1>10, RollBackShape DEF SnapshotExists, AttachRefused, PullFails, RunFails
<1>11. CASE Applied
  BY <1>11, NoCallHasShape DEF Applied, End
<1> QED
  BY <1>5, <1>7, <1>8, <1>9, <1>10, <1>11

LEMMA OtherShape ==
  ASSUME Base, Shape,
         \/ \E p \in Pods : \/ Delete(p)
                            \/ \E spec \in SUBSET Containers, limits \in Limits : Apply(p, spec, limits)
         \/ \E c \in Containers : Detach(c) \/ DetachFails(c)
         \/ Detached \/ Crash \/ Boot \/ CniRestarts
         \/ \E p \in Pods, c \in Containers : Collect(p, c)
         \/ UNCHANGED vars
  PROVE  Shape'
<1>1. net \in AllNets
  BY NetTypes DEF Base
<1>2. op # Idle => OpOK /\ op.p \in Pods /\ op.spec \subseteq Containers
  BY CallTyped DEF Base, TypeOK
<1>3. ASSUME NEW p \in Pods,
             \/ Delete(p)
             \/ \E spec \in SUBSET Containers, limits \in Limits : Apply(p, spec, limits)
      PROVE  Shape'
  BY <1>3 DEF Delete, Apply, Call, Shape, Creating
<1>4. ASSUME NEW c \in Containers, Detach(c) PROVE Shape'
  <2>1. op # Idle /\ op.at = "detach" /\ op.kind # "apply"
    BY <1>4, UnderWay DEF Detach, Places, Step, Base, Order
  <2>2. /\ op'.at = "detach" /\ op'.kind = op.kind /\ op'.p = op.p
        /\ op'.todo = op.todo \ {c} /\ op'.spec = op.spec /\ op'.hurt = op.hurt
    BY <1>2, <1>4, <2>1, GoesTo, Carries DEF Detach, Places
  <2>3. /\ net'[op.p][c].vlan = NoVlan
        /\ \A d \in Containers \ {c} : net'[op.p][d] = net[op.p][d]
    BY <1>1, <1>2, <1>4, <2>1 DEF Detach, AllNets, NoNet
  <2> QED
    BY <2>1, <2>2, <2>3 DEF Shape, Undone, Recorded
<1>5. ASSUME NEW c \in Containers, DetachFails(c) PROVE Shape'
  <2>1. op # Idle /\ op.at = "detach" /\ op.kind # "apply"
    BY <1>5, UnderWay DEF DetachFails, Places, Step, Base, Order
  <2>2. op'.kind = op.kind /\ op'.hurt
    BY <1>2, <1>5, <2>1 DEF DetachFails, OpOK
  <2> QED
    BY <2>1, <2>2 DEF Shape
<1>6. CASE Detached
  <2>1. op # Idle /\ op.at = "detach" /\ op.kind # "apply" /\ op.todo = {} /\ UNCHANGED net
    BY <1>6, UnderWay DEF Detached, Places, Step, Base, Order
  <2>2. /\ op'.at = "clear" /\ op'.kind = op.kind /\ op'.p = op.p
        /\ op'.spec = op.spec /\ op'.hurt = op.hurt
    BY <1>2, <1>6, <2>1, GoesTo, Carries DEF Detached, Places
  <2> QED
    BY <2>1, <2>2 DEF Shape, Undone, Recorded
<1>7. CASE Crash \/ Boot
  BY <1>7, NoCallHasShape DEF Crash, Boot, Base, Order
<1>8. CASE CniRestarts
  <2>1. UNCHANGED <<op, ctr, cgroup, vlans>>
    BY <1>8 DEF CniRestarts
  <2>2. op # Idle => \A c \in Containers :
                       net'[op.p][c] = IF net[op.p][c].link THEN net[op.p][c] ELSE NoNet
    BY <1>2, <1>8 DEF CniRestarts
  <2>3. op # Idle => Recorded(op.p)' \subseteq Recorded(op.p)
    BY <2>1, <2>2 DEF Recorded, NoNet
  <2>4. op # Idle /\ Built => Built'
    <3> SUFFICES ASSUME op # Idle, Built PROVE Built'
      OBVIOUS
    <3>1. Listed(op.p)' = Listed(op.p) /\ Network' = Network /\ Network.link
      BY <2>1 DEF Listed, Network
    <3>2. \A c \in op.spec \ op.todo : ctr'[op.p][c] = "running" /\ net'[op.p][c] = Network'
      BY <1>2, <2>1, <2>2, <3>1 DEF Built
    <3> QED
      BY <2>1, <3>1, <3>2 DEF Built
  <2>5. op # Idle /\ Undone => Undone'
    BY <2>1, <2>3 DEF Undone, Listed
  <2> QED
    BY <2>1, <2>4, <2>5 DEF Shape, Listed
<1>9. ASSUME NEW p \in Pods, NEW c \in Containers, Collect(p, c) PROVE Shape'
  <2>1. UNCHANGED <<op, net, cgroup, vlans>>
    BY <1>9 DEF Collect
  <2>2. op # Idle => ctr'[op.p] = ctr[op.p]
    BY <1>2, <1>9 DEF Collect, Base, TypeOK
  <2>3. op # Idle => Listed(op.p)' = Listed(op.p)
    BY <2>1, <2>2 DEF Listed
  <2>4. op # Idle /\ Built => Built'
    BY <2>1, <2>2, <2>3 DEF Built, Network
  <2>5. op # Idle /\ Undone => Undone'
    BY <2>1, <2>3 DEF Undone, Recorded
  <2> QED
    BY <2>1, <2>3, <2>4, <2>5 DEF Shape
<1>10. CASE UNCHANGED vars
  BY <1>10 DEF vars, Shape, Built, Undone, Network, Listed, Recorded
<1> QED
  BY <1>3, <1>4, <1>5, <1>6, <1>7, <1>8, <1>9, <1>10

LEMMA ShapeKept ==
  ASSUME Base, Shape, [Next]_vars
  PROVE  Shape'
BY VlanShape, ClearShape, CgroupShape, RunShape, OtherShape DEF Next, OfContainer

(* The steps a call can end with while the agent is up.                    *)
LEMMA EndingSteps ==
  ASSUME Base, [Next]_vars, op # Idle, op' = Idle, up'
  PROVE  \/ op.at = "run" /\ op.todo = {}
         \/ op.at \in {"save", "release"} /\ UNCHANGED <<ctr, net, cgroup>>
            /\ (op.kind # "apply" => vlans'[op.p] = NoVlan)
         \/ op.at \in {"allocate", "clear"}
<1>1. OpOK /\ op.p \in Pods
  BY CallTyped DEF Base, TypeOK
<1>2. ~UNCHANGED op
  OBVIOUS
<1>3. vlans \in [Pods -> Vlans \cup {NoVlan}]
  BY DEF Base, TypeOK
<1>4. CASE Allocate \/ ClearFails \/ Applied
  BY <1>4 DEF Allocate, ClearFails, Applied, Step
<1>5. CASE Save \/ SaveFails
  BY <1>5 DEF Save, SaveFails, Step, Base, Order
<1>6. CASE Release
  BY <1>1, <1>3, <1>6 DEF Release, Step
<1>7. \A s \in Places, todo \in SUBSET Containers : Goto(s, todo) => op' # Idle
  BY <1>1, GoesTo DEF Idle, Places
<1>8. ~RollBack
  BY <1>1, RollsBack DEF Idle
<1>9. op.todo \in SUBSET Containers /\ op.spec \in SUBSET Containers /\ Listed(op.p) \in SUBSET Containers
  BY <1>1, CallTyped, ListedTyped
<1>10. ~(Cleared \/ RemoveCgroup \/ Limit \/ Create \/ Start \/ Attach \/ Detached)
  BY <1>7, <1>9 DEF Cleared, RemoveCgroup, Limit, Create, Start, Attach, Detached, AfterCgroup,
                    Places
<1>11. \A c \in Containers : ~(RemoveSnapshot(c) \/ Detach(c))
  BY <1>7, <1>9 DEF RemoveSnapshot, Detach, Places
<1>12. ~(LimitFails \/ AttachRefused \/ PullFails \/ RunFails) /\ \A c \in Containers : ~SnapshotExists(c)
  BY <1>8 DEF LimitFails, AttachRefused, PullFails, RunFails, SnapshotExists
<1>13. ~RemoveCgroupFails /\ \A c \in Containers : ~(Prepare(c) \/ DetachFails(c))
  <2>1. RemoveCgroupFails => op'.at = AfterCgroup
    BY <1>1 DEF RemoveCgroupFails, OpOK
  <2>2. \A c \in Containers : /\ Prepare(c) => op'.at = "create"
                              /\ DetachFails(c) => op'.at = op.at
    BY <1>1 DEF Prepare, DetachFails, OpOK
  <2>3. op.at # "idle"
    BY <1>1, CallTyped DEF Places
  <2> QED
    BY <2>1, <2>2, <2>3 DEF AfterCgroup, Idle
<1> QED
  BY <1>2, <1>4, <1>5, <1>6, <1>10, <1>11, <1>12, <1>13
     DEF Next, OfContainer, vars, Apply, Delete, Kill, DeleteContainer, Crash, Boot,
         CniRestarts, Collect

LEMMA ShapeAlways == Spec => []Shape
<1>1. Init => Shape
  BY DEF Init, Shape
<1>2. IInv /\ Shape /\ [Next]_vars => Shape'
  BY ShapeKept DEF IInv
<1> QED
  BY <1>1, <1>2, KubeletInvariant, PTL DEF Spec

(* An ApplyPod that succeeds leaves the pod with exactly its spec's        *)
(* containers, attached to its VLAN, and under exactly the limits it       *)
(* declares, whatever was there before and failed on the way               *)
(* (remove_pod, cgroup::create_pod, create_containers).                    *)
THEOREM AppliesExactly == Spec => AppliedExactly
<1> DEFINE A == Ends("apply", {"run"}) =>
                  /\ Listed(op.p) = op.spec
                  /\ \A c \in op.spec : ctr[op.p][c] = "running" /\ net[op.p][c] = Network
                  /\ cgroup[op.p] \in {op.limits, IF op.limits = "max" THEN "absent" ELSE op.limits}
<1>1. IInv /\ Shape /\ [Next]_vars => A
  <2> SUFFICES ASSUME IInv, Shape, [Next]_vars, Ends("apply", {"run"}) PROVE A
    OBVIOUS
  <2>1. op # Idle /\ op.kind = "apply" /\ op.at = "run" /\ op' = Idle /\ up'
    BY DEF Ends
  <2>2. op.todo = {}
    BY <2>1, EndingSteps DEF IInv
  <2>3. Built
    BY <2>1 DEF Shape, Creating
  <2> QED
    BY <2>1, <2>2, <2>3 DEF Built
<1>2. IInv /\ Shape /\ [Next]_vars => [A]_vars
  BY <1>1
<1> QED
  BY <1>2, KubeletInvariant, ShapeAlways, PTL DEF Spec, AppliedExactly

(* A roll back in which nothing failed leaves no container, no network of  *)
(* the spec, no cgroup and no VLAN (rollback).                             *)
THEOREM RollsBackCompletely == Spec => RollbackIsComplete
<1> DEFINE A == Ends("rollback", {"release", "save"}) /\ ~op.hurt =>
                  /\ Listed(op.p) = {}
                  /\ op.spec \cap Recorded(op.p) = {}
                  /\ cgroup[op.p] = "absent"
                  /\ vlans'[op.p] = NoVlan
<1>1. IInv /\ Shape /\ [Next]_vars => A
  <2> SUFFICES ASSUME IInv, Shape, [Next]_vars, Ends("rollback", {"release", "save"}), ~op.hurt
               PROVE  A
    OBVIOUS
  <2>1. op # Idle /\ op.kind = "rollback" /\ op.at \in {"release", "save"} /\ op' = Idle /\ up'
    BY DEF Ends
  <2>2. vlans'[op.p] = NoVlan
    BY <2>1, EndingSteps DEF IInv
  <2>3. Undone
    BY <2>1 DEF Shape
  <2> QED
    BY <2>1, <2>2, <2>3 DEF Undone
<1>2. IInv /\ Shape /\ [Next]_vars => [A]_vars
  BY <1>1
<1> QED
  BY <1>2, KubeletInvariant, ShapeAlways, PTL DEF Spec, RollbackIsComplete
=============================================================================
