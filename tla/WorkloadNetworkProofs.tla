----------------------- MODULE WorkloadNetworkProofs -----------------------
(***************************************************************************)
(* Proofs about WorkloadNetwork, for any workloads, addresses, ports and   *)
(* peers, and any number of stops and failures.                            *)
(***************************************************************************)
EXTENDS WorkloadNetwork, TLAPS

Starting == {"down", "overlay", "peers", "egress"}
Reconciling == {"records", "orphans", "gateway", "rules"}

Adding == {"link", "attach", "publish", "save", "undo rules", "undo link", "undo address"}
Removing == {"forget rules", "forget address", "forget record"}
OfARecord == Removing \cup {"refresh", "unlink"}

(* What the daemon finds when it starts is looked at once, and no call is  *)
(* served before it has been.                                              *)
Reconciled ==
  /\ phase \notin Reconciling => live = {}
  /\ \A w \in live : Recorded(w)
  /\ phase = "records" => \A w \in todo : Recorded(w) /\ w \notin live
  /\ op # Idle => phase = "up"

(* What a call knows of the stores, from the step it has come to.          *)
Known ==
  /\ op.at \in Adding => op.addr \in Addresses
  /\ op.at \in OfARecord =>
       /\ Recorded(op.w)
       /\ op.addr = records[op.w].addr
       /\ op.ports = records[op.w].ports
  /\ op.at \in Removing => ~HasLink(op.w)
  /\ op.at \in {"forget address", "forget record"} => rules \cap OpMappings = {}
  /\ op.at = "forget record" => op.addr \notin allocated

Base == TypeOK /\ Reconciled /\ Known

-----------------------------------------------------------------------------
LEMMA CallUnderWay ==
  ASSUME TypeOK, op.at # "idle"
  PROVE  /\ op \in Calls /\ op.at \in Steps /\ op.kind \in {"add", "delete"}
         /\ op.w \in Workloads /\ op.addr \in MaybeAddresses /\ op.ports \in SUBSET Ports
<1>1. op # Idle
  BY DEF Idle
<1> QED
  BY <1>1 DEF TypeOK, Calls

LEMMA CallTypes ==
  ASSUME NEW at \in Steps, NEW kind \in {"add", "delete"}, NEW w \in Workloads,
         NEW a \in MaybeAddresses, NEW ps \in SUBSET Ports
  PROVE  /\ Call(at, kind, w, a, ps) \in Calls
         /\ Call(at, kind, w, a, ps).at = at
         /\ Call(at, kind, w, a, ps).w = w
         /\ Call(at, kind, w, a, ps).addr = a
         /\ Call(at, kind, w, a, ps).ports = ps
BY DEF Call, Calls

LEMMA MappingTypes ==
  ASSUME NEW r, r.addr \in Addresses, r.ports \in SUBSET Ports
  PROVE  Mappings(r) \subseteq [addr: Addresses, port: Ports]
BY DEF Mappings

LEMMA RecordTypes ==
  ASSUME TypeOK, NEW w \in Workloads
  PROVE  /\ records[w].ports \in SUBSET Ports
         /\ records[w].addr \in MaybeAddresses
         /\ Recorded(w) => records[w].addr \in Addresses
BY DEF TypeOK, Recorded, MaybeAddresses

LEMMA OpMappingTypes ==
  ASSUME Base, op.at \in Adding \cup OfARecord
  PROVE  /\ OpMappings \subseteq [addr: Addresses, port: Ports]
         /\ op.addr \in Addresses
<1>1. op.at # "idle"
  BY DEF Adding, OfARecord, Removing
<1>2. op.ports \in SUBSET Ports /\ op.w \in Workloads
  BY <1>1, CallUnderWay DEF Base
<1>3. op.addr \in Addresses
  BY <1>2, RecordTypes DEF Base, Known
<1> QED
  BY <1>2, <1>3, MappingTypes DEF OpMappings

-----------------------------------------------------------------------------
(* Type correctness.                                                       *)

LEMMA BootTypes ==
  ASSUME Base, BootStep
  PROVE  TypeOK'
<1> USE DEF Base, TypeOK, counters, stores, host
<1>1. CASE Boot
  BY <1>1 DEF Boot
<1>2. CASE FlushPeers
  BY <1>2 DEF FlushPeers
<1>3. CASE \E n \in Peers : AppendPeer(n)
  BY <1>3 DEF AppendPeer
<1>4. CASE OverlayDone
  BY <1>4 DEF OverlayDone
<1>5. CASE \E f \in Firewall : Unhook(f)
  BY <1>5 DEF Unhook
<1>6. CASE \E f \in Firewall : Insert(f)
  BY <1>6 DEF Insert
<1>7. CASE EgressDone
  BY <1>7 DEF EgressDone
<1>8. CASE BootFails
  BY <1>8 DEF BootFails
<1>9. CASE \E w \in Workloads : Keep(w)
  BY <1>9 DEF Keep
<1>10. CASE \E w \in Workloads : DropStale(w)
  <2>1. PICK w \in Workloads : DropStale(w)
    BY <1>10
  <2>2. NoRecord \in [addr: MaybeAddresses, ports: SUBSET Ports]
    BY DEF NoRecord, MaybeAddresses
  <2>3. records' \in [Workloads -> [addr: MaybeAddresses, ports: SUBSET Ports]]
    BY <2>1, <2>2 DEF DropStale
  <2>4. rules' \in SUBSET [addr: Addresses, port: Ports]
    BY <2>1 DEF DropStale
  <2>5. todo' \in SUBSET Workloads /\ phase' = "records"
    BY <2>1 DEF DropStale
  <2>6. faults' \in Nat
    BY <2>1 DEF DropStale
  <2>7. botched' \in BOOLEAN
    BY <2>1 DEF DropStale
  <2> QED
    BY <2>1, <2>3, <2>4, <2>5, <2>6, <2>7 DEF DropStale
<1>11. CASE RebuildPool
  <2>1. {records[w].addr : w \in live} \subseteq Addresses
    BY RecordTypes DEF Reconciled
  <2> QED
    BY <1>11, <2>1 DEF RebuildPool
<1>12. CASE RemoveOrphans
  <2>1. NoLink \in [at: {"none", "made", "bridged"}, addr: MaybeAddresses]
    BY DEF NoLink, MaybeAddresses
  <2>2. link' \in [Workloads -> [at: {"none", "made", "bridged"}, addr: MaybeAddresses]]
    BY <1>12, <2>1 DEF RemoveOrphans
  <2> QED
    BY <1>12, <2>2 DEF RemoveOrphans
<1>13. CASE ReinstallGateway
  <2>1. faults' \in Nat
    BY <1>13 DEF ReinstallGateway
  <2>2. gateway' \in BOOLEAN
    BY <1>13, Zenon DEF ReinstallGateway, EnsureVlan
  <2> QED
    BY <1>13, <2>1, <2>2 DEF ReinstallGateway
<1>14. CASE ReinstallRules
  <2>1. \A w \in live : Mappings(records[w]) \subseteq [addr: Addresses, port: Ports]
    BY RecordTypes, MappingTypes DEF Reconciled
  <2>2. rules' \in SUBSET [addr: Addresses, port: Ports]
    BY <1>14, <2>1 DEF ReinstallRules
  <2> QED
    BY <1>14, <2>2 DEF ReinstallRules
<1> QED
  BY <1>1, <1>2, <1>3, <1>4, <1>5, <1>6, <1>7, <1>8, <1>9, <1>10, <1>11, <1>12, <1>13, <1>14
     DEF BootStep

(* A call that goes on stays a call, whatever the next step is.            *)
LEMMA GoingOnTypes ==
  ASSUME TypeOK, op.at # "idle", NEW s \in Steps, Goto(s)
  PROVE  /\ op' \in Calls /\ op'.at = s
         /\ op'.w = op.w /\ op'.addr = op.addr /\ op'.ports = op.ports
         /\ op'.kind = op.kind
BY CallUnderWay DEF Goto, Calls

LEMMA EndTypes ==
  ASSUME End
  PROVE  op' = Idle /\ op'.at = "idle"
BY DEF End, Idle

(* The steps of calls leave the start-up alone.                            *)
LEMMA BootUntouched ==
  ASSUME TypeOK, Succeed \/ Fail
  PROVE  /\ UNCHANGED <<phase, todo, live, firewall, peers, crashes, botched>>
         /\ faults' \in Nat
         /\ faults' = 0 => faults = 0 /\ Succeed
<1>1. CASE Succeed
  BY <1>1 DEF Succeed, boot, counters, TypeOK
<1>2. CASE Fail
  <2>1. UNCHANGED <<phase, todo, live, firewall, peers, crashes, botched>>
    BY <1>2 DEF Fail, boot
  <2>2. faults' \in Nat /\ faults' # 0
    BY <1>2 DEF Fail, TypeOK
  <2> QED
    BY <2>1, <2>2
<1> QED
  BY <1>1, <1>2

LEMMA NoLinkTypes ==
  NoLink \in [at: {"none", "made", "bridged"}, addr: MaybeAddresses]
BY DEF NoLink, MaybeAddresses

LEMMA FaultTypes ==
  ASSUME TypeOK, faults' = faults \/ faults' = faults + 1
  PROVE  faults' \in Nat
BY DEF TypeOK

LEMMA AddTypes ==
  ASSUME Base, AddStep \/ Allocate, gateway' \in BOOLEAN
  PROVE  TypeOK'
<1> DEFINE Rules == SUBSET [addr: Addresses, port: Ports]
<1> USE DEF Base
<1>1. CASE Refresh
  <2>1. OpMappings \in Rules
    BY <1>1, OpMappingTypes DEF Refresh, Step, OfARecord
  <2>2. rules' \in Rules /\ UNCHANGED <<records, allocated, link>>
    BY <1>1, <2>1 DEF Refresh, TypeOK
  <2>3. op' = Idle /\ (Succeed \/ Fail)
    BY <1>1 DEF Refresh, End
  <2> QED
    BY <2>2, <2>3, BootUntouched DEF TypeOK
<1>2. CASE Allocate
  <2>1. op.at # "idle" /\ UNCHANGED <<records, link, rules>> /\ (Succeed \/ Fail)
    BY <1>2 DEF Allocate, Step
  <2>2. allocated' \in SUBSET Addresses
    <3>1. allocated' = allocated \/ (\E a \in Addresses : allocated' = allocated \cup {a})
      BY <1>2 DEF Allocate
    <3> QED
      BY <3>1 DEF TypeOK
  <2>3. op' = Idle \/ (\E a \in Addresses : op' = [op EXCEPT !.at = "link", !.addr = a])
    BY <1>2 DEF Allocate, End
  <2>4. op' \in Calls \cup {Idle}
    BY <2>1, <2>3, CallUnderWay DEF Calls, Steps, MaybeAddresses
  <2> QED
    BY <2>1, <2>2, <2>4, BootUntouched DEF TypeOK
<1>3. CASE LinkAdd
  <2>1. op.at # "idle" /\ UNCHANGED <<records, allocated, rules>> /\ (Succeed \/ Fail)
        /\ (Goto("attach") \/ Goto("undo link"))
    BY <1>3 DEF LinkAdd, Step
  <2>2. op' \in Calls
    BY <2>1, GoingOnTypes DEF Steps
  <2>3. op.w \in Workloads /\ op.addr \in MaybeAddresses
    BY <2>1, CallUnderWay
  <2>4. link' \in [Workloads -> [at: {"none", "made", "bridged"}, addr: MaybeAddresses]]
    <3>1. [at |-> "made", addr |-> op.addr] \in [at: {"none", "made", "bridged"}, addr: MaybeAddresses]
      BY <2>3
    <3>2. link' = link \/ link' = [link EXCEPT ![op.w] = [at |-> "made", addr |-> op.addr]]
      BY <1>3 DEF LinkAdd
    <3> QED
      BY <3>1, <3>2 DEF TypeOK
  <2> QED
    BY <2>1, <2>2, <2>4, BootUntouched DEF TypeOK
<1>4. CASE Attach
  <2>1. op.at # "idle" /\ UNCHANGED <<records, allocated, rules>> /\ Succeed
        /\ (Goto("publish") \/ Goto("undo link"))
    BY <1>4 DEF Attach, Step
  <2>2. op' \in Calls
    BY <2>1, GoingOnTypes DEF Steps
  <2>3. op.w \in Workloads
    BY <2>1, CallUnderWay
  <2>4. link' \in [Workloads -> [at: {"none", "made", "bridged"}, addr: MaybeAddresses]]
    <3>1. [link[op.w] EXCEPT !.at = "bridged"] \in [at: {"none", "made", "bridged"}, addr: MaybeAddresses]
      BY <2>3 DEF TypeOK
    <3>2. link' = link \/ link' = [link EXCEPT ![op.w] = [link[op.w] EXCEPT !.at = "bridged"]]
      BY <1>4 DEF Attach
    <3> QED
      BY <3>1, <3>2 DEF TypeOK
  <2> QED
    BY <2>1, <2>2, <2>4, BootUntouched DEF TypeOK
<1>5. CASE Publish
  <2>1. op.at = "publish" /\ UNCHANGED <<records, allocated, link>> /\ (Succeed \/ Fail)
    BY <1>5 DEF Publish, Step
  <2>2. OpMappings \in Rules /\ op.addr \in Addresses
    BY <2>1, OpMappingTypes DEF Adding
  <2>3. op.ports \in SUBSET Ports
    BY <2>1, CallUnderWay
  <2>4. CASE rules' = rules \cup OpMappings /\ Goto("save")
    <3>1. op' \in Calls
      BY <2>1, <2>4, GoingOnTypes DEF Steps
    <3> QED
      BY <2>1, <2>2, <2>4, <3>1, BootUntouched DEF TypeOK
  <2>5. ASSUME NEW passed \in SUBSET op.ports,
               rules' = rules \cup [addr: {op.addr}, port: passed],
               op' = [op EXCEPT !.at = "undo rules", !.ports = passed]
        PROVE  TypeOK'
    <3>1. op' \in Calls
      BY <2>1, <2>3, <2>5, CallUnderWay DEF Calls, Steps
    <3>2. rules' \in Rules
      BY <2>2, <2>3, <2>5 DEF TypeOK
    <3> QED
      BY <2>1, <3>1, <3>2, BootUntouched DEF TypeOK
  <2> QED
    BY <1>5, <2>4, <2>5 DEF Publish
<1>6. CASE Save
  <2>1. op.at = "save" /\ UNCHANGED <<allocated, link, rules, boot, crashes>>
        /\ (Goto("undo rules") \/ End)
    BY <1>6 DEF Save, Step
  <2>2. op' \in Calls \cup {Idle}
    BY <2>1, GoingOnTypes DEF Steps, End
  <2>3. op.w \in Workloads /\ op.addr \in MaybeAddresses /\ op.ports \in SUBSET Ports
    BY <2>1, CallUnderWay
  <2>4. OpSaved \in [Workloads -> [addr: MaybeAddresses, ports: SUBSET Ports]]
    BY <2>3 DEF OpSaved, TypeOK
  <2>5. records' \in [Workloads -> [addr: MaybeAddresses, ports: SUBSET Ports]]
    BY <1>6, <2>4 DEF Save, TypeOK
  <2>6. faults' \in Nat
    BY <1>6, FaultTypes DEF Save
  <2>7. botched' \in BOOLEAN
    BY <1>6 DEF Save, TypeOK
  <2> QED
    BY <2>1, <2>2, <2>5, <2>6, <2>7 DEF TypeOK, boot
<1>7. CASE UndoRules
  <2>1. op.at = "undo rules" /\ UNCHANGED <<records, allocated, link>> /\ (Succeed \/ Fail)
        /\ Goto("undo link") /\ rules' \subseteq rules
    BY <1>7 DEF UndoRules, Step
  <2>2. op' \in Calls
    BY <2>1, GoingOnTypes DEF Steps
  <2> QED
    BY <2>1, <2>2, BootUntouched DEF TypeOK
<1>8. CASE UndoLink
  <2>1. op.at = "undo link" /\ UNCHANGED <<records, allocated, rules>> /\ (Succeed \/ Fail)
        /\ Goto("undo address")
    BY <1>8 DEF UndoLink, Step
  <2>2. op' \in Calls
    BY <2>1, GoingOnTypes DEF Steps
  <2>3. op.w \in Workloads
    BY <2>1, CallUnderWay
  <2>4. link' \in [Workloads -> [at: {"none", "made", "bridged"}, addr: MaybeAddresses]]
    BY <1>8, NoLinkTypes DEF UndoLink, TypeOK
  <2> QED
    BY <2>1, <2>2, <2>4, BootUntouched DEF TypeOK
<1>9. CASE UndoAddress
  <2>1. UNCHANGED <<records, link, rules>> /\ (Succeed \/ Fail) /\ op' = Idle
        /\ allocated' \subseteq allocated
    BY <1>9 DEF UndoAddress, End
  <2> QED
    BY <2>1, BootUntouched DEF TypeOK
<1> QED
  BY <1>1, <1>2, <1>3, <1>4, <1>5, <1>6, <1>7, <1>8, <1>9 DEF AddStep

LEMMA DeleteTypes ==
  ASSUME Base, DeleteStep, gateway' \in BOOLEAN
  PROVE  TypeOK'
<1> USE DEF Base
<1>1. CASE Unlink
  <2>1. op.at = "unlink" /\ UNCHANGED <<records, allocated, rules>> /\ (Succeed \/ Fail)
        /\ (Goto("forget rules") \/ End)
    BY <1>1 DEF Unlink, Step
  <2>2. op' \in Calls \cup {Idle}
    BY <2>1, GoingOnTypes DEF Steps, End
  <2>3. op.w \in Workloads
    BY <2>1, CallUnderWay
  <2>4. link' \in [Workloads -> [at: {"none", "made", "bridged"}, addr: MaybeAddresses]]
    BY <1>1, NoLinkTypes DEF Unlink, TypeOK
  <2> QED
    BY <2>1, <2>2, <2>4, BootUntouched DEF TypeOK
<1>2. CASE ForgetRules
  <2>1. op.at = "forget rules" /\ UNCHANGED <<records, allocated, link>> /\ (Succeed \/ Fail)
        /\ (Goto("forget address") \/ End) /\ rules' \subseteq rules
    BY <1>2 DEF ForgetRules, Step
  <2>2. op' \in Calls \cup {Idle}
    BY <2>1, GoingOnTypes DEF Steps, End
  <2> QED
    BY <2>1, <2>2, BootUntouched DEF TypeOK
<1>3. CASE ForgetAddress
  <2>1. op.at = "forget address" /\ UNCHANGED <<records, link, rules, boot, crashes>>
        /\ (Goto("forget record") \/ End) /\ allocated' \subseteq allocated
    BY <1>3 DEF ForgetAddress, Step
  <2>2. op' \in Calls \cup {Idle}
    BY <2>1, GoingOnTypes DEF Steps, End
  <2>3. faults' \in Nat
    BY <1>3, FaultTypes DEF ForgetAddress
  <2>4. botched' \in BOOLEAN
    BY <1>3 DEF ForgetAddress, TypeOK
  <2> QED
    BY <2>1, <2>2, <2>3, <2>4 DEF TypeOK, boot
<1>4. CASE ForgetRecord
  <2>1. op.at = "forget record" /\ UNCHANGED <<allocated, link, rules, boot, crashes>>
    BY <1>4 DEF ForgetRecord, Step
  <2>2. op.w \in Workloads /\ op.ports \in SUBSET Ports
    BY <2>1, CallUnderWay
  <2>3. op' \in Calls \cup {Idle}
    <3>1. "allocate" \in Steps /\ NoAddress \in MaybeAddresses
      BY DEF Steps, MaybeAddresses
    <3>2. Call("allocate", "add", op.w, NoAddress, op.ports) \in Calls
      BY <2>2, <3>1, CallTypes
    <3> QED
      BY <1>4, <3>2 DEF ForgetRecord, End
  <2>4. NoRecord \in [addr: MaybeAddresses, ports: SUBSET Ports]
    BY DEF NoRecord, MaybeAddresses
  <2>5. records' \in [Workloads -> [addr: MaybeAddresses, ports: SUBSET Ports]]
    BY <1>4, <2>4 DEF ForgetRecord, TypeOK
  <2>6. faults' \in Nat
    BY <1>4, FaultTypes DEF ForgetRecord
  <2>7. botched' \in BOOLEAN
    BY <1>4 DEF ForgetRecord, TypeOK
  <2> QED
    BY <2>1, <2>3, <2>5, <2>6, <2>7 DEF TypeOK, boot
<1> QED
  BY <1>1, <1>2, <1>3, <1>4 DEF DeleteStep

(* A request, its first look at the records included.                      *)
LEMMA RequestTypes ==
  ASSUME Base, NEW w \in Workloads, NEW ps \in SUBSET Ports,
         Add(w, ps) \/ Delete(w), UNCHANGED gateway
  PROVE  TypeOK'
<1>1. UNCHANGED <<records, allocated, link, rules>> /\ Succeed
  BY DEF Add, Delete
<1>2. records[w].addr \in MaybeAddresses /\ records[w].ports \in SUBSET Ports
  BY RecordTypes DEF Base
<1>3. op' \in Calls
  <2>1. CASE Delete(w)
    <3>1. op' = Call("unlink", "delete", w, records[w].addr, records[w].ports)
      BY <2>1 DEF Delete
    <3>2. "unlink" \in Steps
      BY DEF Steps
    <3> QED
      BY <1>2, <3>1, <3>2, CallTypes
  <2>2. CASE Add(w, ps)
    <3>1. \/ op' = Call("allocate", "add", w, NoAddress, ps)
          \/ op' = Call("refresh", "add", w, records[w].addr, ps)
          \/ op' = Call("forget rules", "add", w, records[w].addr, ps)
      BY <2>2 DEF Add
    <3>2. NoAddress \in MaybeAddresses /\ {"allocate", "refresh", "forget rules"} \subseteq Steps
      BY DEF MaybeAddresses, Steps
    <3>3. \A at \in {"allocate", "refresh", "forget rules"}, a \in MaybeAddresses :
            Call(at, "add", w, a, ps) \in Calls
      BY <3>2, CallTypes
    <3> QED
      BY <1>2, <3>1, <3>2, <3>3
  <2> QED
    BY <2>1, <2>2
<1> QED
  BY <1>1, <1>3, BootUntouched DEF Base, TypeOK

LEMMA WorldTypes ==
  ASSUME Base, (\E w \in Workloads : ContainerEnds(w)) \/ Crash \/ Reboot
  PROVE  TypeOK'
<1> USE DEF Base, TypeOK, counters, host
<1>1. NoLink \in [at: {"none", "made", "bridged"}, addr: MaybeAddresses]
  BY DEF NoLink, MaybeAddresses
<1>2. CASE \E w \in Workloads : ContainerEnds(w)
  BY <1>1, <1>2 DEF ContainerEnds, boot
<1>3. CASE Crash
  BY <1>3 DEF Crash, Halt
<1>4. CASE Reboot
  <2>1. link' \in [Workloads -> [at: {"none", "made", "bridged"}, addr: MaybeAddresses]]
    BY <1>1, <1>4 DEF Reboot
  <2>2. gateway' \in BOOLEAN
    BY <1>4 DEF Reboot
  <2>3. rules' = {} /\ firewall' = {} /\ peers' = {}
    BY <1>4 DEF Reboot
  <2> QED
    BY <1>4, <2>1, <2>2, <2>3 DEF Reboot, Halt
<1> QED
  BY <1>2, <1>3, <1>4

LEMMA TypesKept ==
  ASSUME Base, [Next]_vars
  PROVE  TypeOK'
<1>1. CASE UNCHANGED vars
  BY <1>1 DEF vars, boot, counters, Base, TypeOK
<1>2. CASE Allocate
  <2>1. gateway' \in BOOLEAN
    BY <1>2 DEF Allocate, EnsureVlan, Base, TypeOK
  <2> QED
    BY <1>2, <2>1, AddTypes
<1>3. CASE (AddStep \/ DeleteStep) /\ UNCHANGED gateway
  <2>1. gateway' \in BOOLEAN
    BY <1>3 DEF Base, TypeOK
  <2> QED
    BY <1>3, <2>1, AddTypes, DeleteTypes
<1>4. CASE BootStep
  BY <1>4, BootTypes
<1>5. CASE (\E w \in Workloads : ContainerEnds(w)) \/ Crash \/ Reboot
  BY <1>5, WorldTypes
<1>6. CASE \E w \in Workloads :
             (Delete(w) \/ \E ps \in SUBSET Ports : Add(w, ps)) /\ UNCHANGED gateway
  BY <1>6, RequestTypes
<1> QED
  BY <1>1, <1>2, <1>3, <1>4, <1>5, <1>6 DEF Next

-----------------------------------------------------------------------------
(* How far the start-up is, and what a call knows.                         *)

LEMMA CallsInTheirPhase ==
  ASSUME Base, op.at # "idle"
  PROVE  phase = "up" /\ live = {}
<1>1. op # Idle
  BY DEF Idle
<1> QED
  BY <1>1 DEF Base, Reconciled, Reconciling

LEMMA ReconciledKept ==
  ASSUME Base, [Next]_vars
  PROVE  Reconciled'
<1> USE DEF Base, Reconciled, Reconciling
<1>1. CASE UNCHANGED vars
  BY <1>1 DEF vars, boot, Recorded
<1>2. CASE Allocate \/ AddStep \/ DeleteStep
  <2>1. op.at # "idle"
    BY <1>2 DEF Allocate, AddStep, DeleteStep, Refresh, LinkAdd, Attach, Publish, Save, UndoRules,
                UndoLink, UndoAddress, Unlink, ForgetRules, ForgetAddress, ForgetRecord, Step
  <2>2. phase = "up" /\ live = {}
    BY <2>1, CallsInTheirPhase
  <2>3. Succeed \/ Fail \/ UNCHANGED boot
    BY <1>2 DEF Allocate, AddStep, DeleteStep, Refresh, LinkAdd, Attach, Publish, Save, UndoRules,
                UndoLink, UndoAddress, Unlink, ForgetRules, ForgetAddress, ForgetRecord
  <2>4. UNCHANGED <<phase, live>>
    BY <2>3 DEF Succeed, Fail, boot
  <2> QED
    BY <2>2, <2>4
<1>3. CASE \E w \in Workloads : Delete(w) \/ \E ps \in SUBSET Ports : Add(w, ps)
  <2>1. phase = "up" /\ UNCHANGED <<phase, live>>
    BY <1>3 DEF Add, Delete, Succeed, boot
  <2> QED
    BY <2>1
<1>4. CASE BootStep
  <2>1. CASE \/ Boot \/ FlushPeers \/ OverlayDone \/ BootFails \/ \E n \in Peers : AppendPeer(n)
             \/ \E f \in Firewall : Unhook(f) \/ Insert(f)
    BY <2>1 DEF Boot, FlushPeers, OverlayDone, BootFails, AppendPeer, Unhook, Insert
  <2>2. CASE EgressDone
    BY <2>2 DEF EgressDone, stores, Recorded
  <2>3. CASE \E w \in Workloads : Keep(w)
    BY <2>3 DEF Keep, Recorded
  <2>4. CASE \E w \in Workloads : DropStale(w)
    <3>1. PICK w \in Workloads : DropStale(w)
      BY <2>4
    <3>2. /\ w \in todo /\ todo' = todo \ {w}
          /\ phase = "records" /\ phase' = "records" /\ op' = op /\ live' = live
          /\ records' = records \/ records' = [records EXCEPT ![w] = NoRecord]
      BY <3>1 DEF DropStale
    <3>3. \A v \in Workloads \ {w} : records'[v] = records[v]
      BY <3>2 DEF TypeOK
    <3> QED
      BY <3>2, <3>3 DEF Recorded, TypeOK
  <2>5. CASE RebuildPool \/ RemoveOrphans \/ ReinstallGateway \/ ReinstallRules
    <3>1. UNCHANGED <<records, op>>
      BY <2>5 DEF RebuildPool, RemoveOrphans, ReinstallGateway, ReinstallRules, stores
    <3>2. phase' \in {"orphans", "gateway", "rules", "up"} /\ phase # "up"
      BY <2>5 DEF RebuildPool, RemoveOrphans, ReinstallGateway, ReinstallRules
    <3>3. live' = live \/ live' = {}
      BY <2>5 DEF RebuildPool, RemoveOrphans, ReinstallGateway, ReinstallRules
    <3>4. phase' = "up" => live' = {}
      BY <2>5 DEF RebuildPool, RemoveOrphans, ReinstallGateway, ReinstallRules
    <3> QED
      BY <3>1, <3>2, <3>3, <3>4 DEF Recorded
  <2> QED
    BY <1>4, <2>1, <2>2, <2>3, <2>4, <2>5 DEF BootStep
<1>5. CASE (\E w \in Workloads : ContainerEnds(w)) \/ Crash \/ Reboot
  BY <1>5 DEF ContainerEnds, Crash, Reboot, Halt, boot, Recorded
<1> QED
  BY <1>1, <1>2, <1>3, <1>4, <1>5 DEF Next

LEMMA KnownOfNone ==
  ASSUME op'.at \in {"idle", "allocate"}
  PROVE  Known'
BY DEF Known, Adding, OfARecord, Removing

(* While a call is under way, Known speaks of its workload only.           *)
LEMMA KnownKept ==
  ASSUME Base, [Next]_vars
  PROVE  Known'
<1> USE DEF Base
<1>1. CASE UNCHANGED vars
  BY <1>1 DEF vars, boot, Known, Recorded, HasLink, OpMappings
<1>2. CASE Allocate
  <2>1. op.at = "allocate" /\ op \in Calls
    BY <1>2, CallUnderWay DEF Allocate, Step
  <2>2. op' = Idle \/ (\E a \in Addresses : op' = [op EXCEPT !.at = "link", !.addr = a])
    BY <1>2 DEF Allocate, End
  <2>3. CASE op' = Idle
    BY <2>3, KnownOfNone DEF Idle
  <2>4. ASSUME NEW a \in Addresses, op' = [op EXCEPT !.at = "link", !.addr = a]
        PROVE  Known'
    <3>1. op'.at = "link" /\ op'.addr = a
      BY <2>1, <2>4 DEF Calls
    <3> QED
      BY <3>1 DEF Known, Adding, OfARecord, Removing
  <2> QED
    BY <2>2, <2>3, <2>4
<1>3. CASE AddStep
  <2>1. op.at \in Adding \cup {"refresh"}
    BY <1>3 DEF AddStep, Refresh, LinkAdd, Attach, Publish, Save, UndoRules, UndoLink,
                UndoAddress, Step, Adding
  <2>2. op.at # "idle" /\ op \in Calls
    BY <2>1, CallUnderWay DEF Adding
  <2>3. CASE op'.at = "idle"
    BY <2>3, KnownOfNone
  <2>4. CASE op'.at \in Adding /\ op'.addr = op.addr /\ op.at \in Adding
    BY <2>4 DEF Known, Adding, OfARecord, Removing
  <2>5. op' = Idle \/ op.at \in Adding
    BY <1>3, <2>1 DEF AddStep, Refresh, LinkAdd, Attach, Publish, Save, UndoRules, UndoLink,
                UndoAddress, Step, End
  <2>6. \/ op' = Idle
        \/ \E s \in Adding : op' = [op EXCEPT !.at = s]
        \/ \E passed : op' = [op EXCEPT !.at = "undo rules", !.ports = passed]
    BY <1>3 DEF AddStep, Refresh, LinkAdd, Attach, Publish, Save, UndoRules, UndoLink,
                UndoAddress, Goto, End, Adding
  <2>7. op'.at = "idle" \/ (op'.at \in Adding /\ op'.addr = op.addr)
    <3>1. CASE op' = Idle
      BY <3>1 DEF Idle
    <3>2. CASE \E s \in Adding : op' = [op EXCEPT !.at = s]
      BY <2>2, <3>2 DEF Calls
    <3>3. CASE \E passed : op' = [op EXCEPT !.at = "undo rules", !.ports = passed]
      <4>1. op'.at = "undo rules" /\ op'.addr = op.addr
        BY <2>2, <3>3 DEF Calls
      <4> QED
        BY <4>1 DEF Adding
    <3> QED
      BY <2>6, <3>1, <3>2, <3>3
  <2> QED
    BY <2>3, <2>4, <2>5, <2>7 DEF Idle
<1>4. CASE DeleteStep
  <2>1. op.at \in Removing \cup {"unlink"}
    BY <1>4 DEF DeleteStep, Unlink, ForgetRules, ForgetAddress, ForgetRecord, Step, Removing
  <2>2. op.at # "idle" /\ op \in Calls /\ op.w \in Workloads
    BY <2>1, CallUnderWay DEF Removing
  <2>3. /\ Recorded(op.w) /\ op.addr = records[op.w].addr /\ op.ports = records[op.w].ports
    BY <2>1 DEF Known, OfARecord
  <2>4. CASE Unlink /\ Goto("forget rules") /\ link' = [link EXCEPT ![op.w] = NoLink]
    <3>1. op'.at = "forget rules" /\ op'.w = op.w /\ op'.addr = op.addr /\ op'.ports = op.ports
      BY <2>2, <2>4, GoingOnTypes DEF Steps
    <3>2. records' = records /\ ~HasLink(op.w)'
      <4>1. link'[op.w].at = "none"
        BY <2>2, <2>4 DEF NoLink, TypeOK
      <4> QED
        BY <2>4, <3>1, <4>1 DEF Unlink, HasLink
    <3> QED
      BY <2>3, <3>1, <3>2 DEF Known, Adding, Removing, OfARecord, Recorded, HasLink
  <2>5. CASE ForgetRules /\ Goto("forget address") /\ rules' = rules \ OpMappings
    <3>1. op'.at = "forget address" /\ op'.w = op.w /\ op'.addr = op.addr /\ op'.ports = op.ports
      BY <2>2, <2>5, GoingOnTypes DEF Steps
    <3>2. records' = records /\ link' = link /\ ~HasLink(op.w)
      BY <2>5 DEF ForgetRules, Known, Step, Removing
    <3>3. OpMappings' = OpMappings
      BY <3>1 DEF OpMappings, Mappings
    <3> QED
      BY <2>3, <2>5, <3>1, <3>2, <3>3 DEF Known, Adding, Removing, OfARecord, Recorded, HasLink
  <2>6. CASE ForgetAddress /\ Goto("forget record") /\ allocated' = allocated \ {op.addr}
    <3>1. op'.at = "forget record" /\ op'.w = op.w /\ op'.addr = op.addr /\ op'.ports = op.ports
      BY <2>2, <2>6, GoingOnTypes DEF Steps
    <3>2. /\ records' = records /\ link' = link /\ rules' = rules
          /\ ~HasLink(op.w) /\ rules \cap OpMappings = {}
      BY <2>6 DEF ForgetAddress, Known, Step, Removing
    <3>3. OpMappings' = OpMappings
      BY <3>1 DEF OpMappings, Mappings
    <3> QED
      BY <2>3, <2>6, <3>1, <3>2, <3>3 DEF Known, Adding, Removing, OfARecord, Recorded, HasLink
  <2>7. CASE ForgetRecord \/ End
    <3>1. op' = Idle \/ op' = Call("allocate", "add", op.w, NoAddress, op.ports)
      BY <2>7 DEF ForgetRecord, End
    <3> QED
      BY <3>1, KnownOfNone DEF Idle, Call
  <2> QED
    BY <1>4, <2>4, <2>5, <2>6, <2>7 DEF DeleteStep, Unlink, ForgetRules, ForgetAddress
<1>5. CASE \E w \in Workloads : Delete(w) \/ \E ps \in SUBSET Ports : Add(w, ps)
  <2>1. PICK w \in Workloads : Delete(w) \/ \E ps \in SUBSET Ports : Add(w, ps)
    BY <1>5
  <2>2. CASE Delete(w)
    BY <2>2 DEF Delete, Call, Known, Adding, Removing, OfARecord, Recorded
  <2>3. CASE \E ps \in SUBSET Ports : Add(w, ps)
    <3>1. PICK ps \in SUBSET Ports : Add(w, ps)
      BY <2>3
    <3>2. CASE op' = Call("allocate", "add", w, NoAddress, ps)
      BY <3>2, KnownOfNone DEF Call
    <3>3. CASE /\ Recorded(w) /\ records[w].ports = ps
               /\ op' = Call(IF HasLink(w) THEN "refresh" ELSE "forget rules",
                             "add", w, records[w].addr, ps)
      BY <3>1, <3>3 DEF Add, Call, Known, Adding, Removing, OfARecord, Recorded, HasLink
    <3> QED
      BY <3>1, <3>2, <3>3 DEF Add
  <2> QED
    BY <2>1, <2>2, <2>3
<1>6. CASE BootStep
  <2>1. op = Idle /\ op' = op
    BY <1>6 DEF BootStep, Boot, FlushPeers, AppendPeer, OverlayDone, Unhook, Insert, EgressDone,
                BootFails, Keep, DropStale, RebuildPool, RemoveOrphans, ReinstallGateway,
                ReinstallRules, Reconciled
  <2> QED
    BY <2>1, KnownOfNone DEF Idle
<1>7. CASE \E w \in Workloads : ContainerEnds(w)
  <2>1. PICK w \in Workloads : ContainerEnds(w)
    BY <1>7
  <2>2. UNCHANGED <<records, allocated, rules, op>> /\ link' = [link EXCEPT ![w] = NoLink]
    BY <2>1 DEF ContainerEnds
  <2>3. \A v \in Workloads : HasLink(v)' => HasLink(v)
    BY <2>2 DEF HasLink, NoLink, TypeOK
  <2>4. op.at \in Removing => op.w \in Workloads
    BY CallUnderWay DEF Removing
  <2> QED
    BY <2>2, <2>3, <2>4 DEF Known, Recorded, OpMappings
<1>8. CASE Crash \/ Reboot
  BY <1>8, KnownOfNone DEF Crash, Reboot, Halt, Idle
<1> QED
  BY <1>1, <1>2, <1>3, <1>4, <1>5, <1>6, <1>7, <1>8 DEF Next

LEMMA BaseInitially ==
  ASSUME Init
  PROVE  Base
<1>1. TypeOK
  BY DEF Init, TypeOK, NoRecord, NoLink, MaybeAddresses
<1>2. Reconciled
  BY DEF Init, Reconciled, Reconciling
<1>3. Known
  BY DEF Init, Known, Idle, Adding, Removing, OfARecord
<1> QED
  BY <1>1, <1>2, <1>3 DEF Base

LEMMA BaseKept ==
  ASSUME Base, [Next]_vars
  PROVE  Base'
BY TypesKept, ReconciledKept, KnownKept DEF Base

(* Whatever fails and wherever the daemon or the machine stops, the stores *)
(* are well formed, a call and the start-up never overlap, and a call      *)
(* knows of its workload what it has looked at.                            *)
THEOREM BaseInvariant == Spec => []Base
<1> QED
  BY BaseInitially, BaseKept, PTL DEF Spec

(* The stores, the start-up and the calls have their types.                *)
THEOREM Types == Spec => []TypeOK
<1>1. Base => TypeOK
  BY DEF Base
<1> QED
  BY <1>1, BaseInvariant, PTL

-----------------------------------------------------------------------------
(* The firewall and the overlay.                                           *)

(* What ensure_egress has been over is there.                              *)
HostInv ==
  /\ phase = "egress" => peers = Peers /\ Firewall \ todo \subseteq firewall
  /\ phase \notin Starting => peers = Peers /\ Firewall \subseteq firewall

LEMMA HostKept ==
  ASSUME Base, HostInv, [Next]_vars
  PROVE  HostInv'
<1> USE DEF HostInv, Starting
<1>1. CASE UNCHANGED vars
  BY <1>1 DEF vars, boot
<1>2. CASE Allocate \/ AddStep \/ DeleteStep
  <2>1. Succeed \/ Fail \/ UNCHANGED boot
    BY <1>2 DEF Allocate, AddStep, DeleteStep, Refresh, LinkAdd, Attach, Publish, Save, UndoRules,
                UndoLink, UndoAddress, Unlink, ForgetRules, ForgetAddress, ForgetRecord
  <2> QED
    BY <2>1 DEF Succeed, Fail, boot
<1>3. CASE \E w \in Workloads : Delete(w) \/ \E ps \in SUBSET Ports : Add(w, ps)
  BY <1>3 DEF Add, Delete, Succeed, boot
<1>4. CASE BootStep
  <2>1. CASE Boot \/ FlushPeers \/ BootFails \/ \E n \in Peers : AppendPeer(n)
    BY <2>1 DEF Boot, FlushPeers, BootFails, AppendPeer
  <2>2. CASE OverlayDone
    BY <2>2 DEF OverlayDone, host
  <2>3. CASE \E f \in Firewall : Unhook(f) \/ Insert(f)
    BY <2>3 DEF Unhook, Insert
  <2>4. CASE EgressDone
    BY <2>4 DEF EgressDone, host
  <2>5. CASE RebuildPool \/ RemoveOrphans \/ ReinstallGateway \/ ReinstallRules
             \/ \E w \in Workloads : Keep(w) \/ DropStale(w)
    <3>1. UNCHANGED <<firewall, peers>>
      BY <2>5 DEF RebuildPool, RemoveOrphans, ReinstallGateway, ReinstallRules, Keep, DropStale, host
    <3>2. phase \in Reconciling /\ phase' \in Reconciling \cup {"up"}
      BY <2>5 DEF RebuildPool, RemoveOrphans, ReinstallGateway, ReinstallRules, Keep, DropStale,
                  Reconciling
    <3> QED
      BY <3>1, <3>2 DEF Reconciling
  <2> QED
    BY <1>4, <2>1, <2>2, <2>3, <2>4, <2>5 DEF BootStep
<1>5. CASE (\E w \in Workloads : ContainerEnds(w)) \/ Crash \/ Reboot
  BY <1>5 DEF ContainerEnds, Crash, Reboot, Halt, boot
<1> QED
  BY <1>1, <1>2, <1>3, <1>4, <1>5 DEF Next

(* The rules that keep tenants apart are hooked, and the overlay reaches   *)
(* every peer, before the daemon looks at its records or serves a call:    *)
(* ensure_overlay and ensure_egress, however often they were cut off.      *)
THEOREM HostReady == Spec => []HostIsReady
<1>1. Init => HostInv
  BY DEF Init, HostInv, Starting
<1>2. Base /\ HostInv /\ [Next]_vars => HostInv'
  BY HostKept
<1>3. HostInv => HostIsReady
  BY DEF HostInv, HostIsReady, Starting, Firewall, Jumps
<1> QED
  BY <1>1, <1>2, <1>3, BaseInvariant, PTL DEF Spec

-----------------------------------------------------------------------------
(* What a call may forget.                                                 *)

LEMMA SavedIsRecorded ==
  ASSUME Base, op.at = "save"
  PROVE  /\ OpSaved[op.w].addr # NoAddress
         /\ \A w \in Workloads \ {op.w} : OpSaved[w] = records[w]
<1>1. op.w \in Workloads /\ op.addr \in Addresses
  BY CallUnderWay, OpMappingTypes DEF Adding, Base
<1> QED
  BY <1>1, NoAddressIsNone DEF OpSaved, Base, TypeOK

LEMMA OneIsForgotten ==
  ASSUME Base, Next, phase = "up", NEW w \in Workloads, Recorded(w), ~Recorded(w)'
  PROVE  ForgetRecord /\ w = op.w
<1>1. records' # records
  BY DEF Recorded
<1>2. CASE Save
  <2>1. op.at = "save" /\ records' = OpSaved
    BY <1>1, <1>2 DEF Save, Step
  <2> QED
    BY <2>1, SavedIsRecorded DEF Recorded
<1>3. CASE ForgetRecord
  <2>1. op.at = "forget record" /\ records' = [records EXCEPT ![op.w] = NoRecord]
    BY <1>1, <1>3 DEF ForgetRecord, Step
  <2>2. w # op.w => records'[w] = records[w]
    BY <2>1 DEF Base, TypeOK
  <2> QED
    BY <1>3, <2>2 DEF Recorded
<1>4. CASE BootStep
  BY <1>1, <1>4 DEF BootStep, Boot, FlushPeers, AppendPeer, OverlayDone, Unhook, Insert, EgressDone,
                BootFails, Keep, DropStale, RebuildPool, RemoveOrphans, ReinstallGateway,
                ReinstallRules, stores
<1>5. \/ BootStep \/ Save \/ ForgetRecord \/ UNCHANGED records
  BY DEF Next, Allocate, AddStep, DeleteStep, Refresh, LinkAdd, Attach, Publish, UndoRules,
         UndoLink, UndoAddress, Unlink, ForgetRules, ForgetAddress, Add, Delete,
         ContainerEnds, Crash, Reboot, Halt
<1> QED
  BY <1>1, <1>2, <1>3, <1>4, <1>5

LEMMA ForgettingIsLast ==
  ASSUME Base, ForgetRecord, NEW w, w = op.w
  PROVE  /\ ~HasLink(w)'
         /\ Mappings(records[w]) \cap rules' = {}
         /\ records[w].addr \notin allocated'
<1>1. op.at = "forget record" /\ UNCHANGED <<allocated, link, rules>>
  BY DEF ForgetRecord, Step
<1>2. /\ op.addr = records[w].addr /\ op.ports = records[w].ports
      /\ ~HasLink(w) /\ rules \cap OpMappings = {} /\ op.addr \notin allocated
  BY <1>1 DEF Base, Known, Removing, OfARecord
<1>3. Mappings(records[w]) = OpMappings
  BY <1>2 DEF OpMappings, Mappings
<1> QED
  BY <1>1, <1>2, <1>3 DEF HasLink

(* A call gives up a record only when nothing is left to give back,        *)
(* whatever failed before (forget_workload removes the record last).       *)
THEOREM ForgottenLast == Spec => ForgottenEntirely
<1> DEFINE Gone(w) == /\ ~HasLink(w)'
                      /\ Mappings(records[w]) \cap rules' = {}
                      /\ records[w].addr \notin allocated'
           A == phase = "up" => \A w \in Workloads : Recorded(w) /\ ~Recorded(w)' => Gone(w)
<1>1. ASSUME Base, [Next]_vars PROVE [A]_vars
  <2>1. CASE UNCHANGED vars
    BY <2>1
  <2>2. ASSUME Next, phase = "up", NEW w \in Workloads, Recorded(w), ~Recorded(w)'
        PROVE  Gone(w)
    BY <1>1, <2>2, OneIsForgotten, ForgettingIsLast
  <2> QED
    BY <1>1, <2>1, <2>2
<1> QED
  BY <1>1, BaseInvariant, PTL DEF Spec, ForgottenEntirely

-----------------------------------------------------------------------------
(* Addresses.                                                              *)

Releasing(w) == op.at = "forget record" /\ op.w = w

(* Unless a file operation went wrong half-way, a record and its address   *)
(* are parted only by a call that is about to forget the record, or was    *)
(* when the daemon stopped; the link is gone by then, and a start-up that  *)
(* finds no link does not count the record as live.                        *)
Held ==
  /\ \A v, w \in Workloads :
       Recorded(v) /\ Recorded(w) /\ records[v].addr = records[w].addr => v = w
  /\ \A w \in Workloads :
       Recorded(w) /\ records[w].addr \notin allocated =>
         ~HasLink(w) /\ (phase # "up" \/ Releasing(w))

(* The address of an addition is nobody else's.                            *)
Fresh ==
  /\ op.at = "allocate" => ~Recorded(op.w)
  /\ op.at \in Adding =>
       /\ op.addr \in allocated
       /\ ~Recorded(op.w)
       /\ \A v \in Workloads : records[v].addr # op.addr

Sorted ==
  /\ phase = "records" => \A w \in Workloads : Recorded(w) => w \in todo \cup live
  /\ phase \in {"orphans", "gateway", "rules"} => \A w \in Workloads : Recorded(w) => w \in live
  /\ \A w \in live : records[w].addr \in allocated

Addressed == Held /\ Fresh /\ Sorted
AddressInv == ~botched => Addressed

(* Steps that leave records and pool alone and make no link for a record.  *)
StoresStay ==
  /\ UNCHANGED <<records, allocated>>
  /\ \A w \in Workloads : HasLink(w)' => HasLink(w) \/ ~Recorded(w)

LEMMA HeldBeforeServing ==
  ASSUME Base, Held, StoresStay, phase' # "up", op'.at = "idle"
  PROVE  Held' /\ Fresh'
<1>1. Fresh'
  BY DEF Fresh, Adding
<1>2. Held'
  BY DEF Held, StoresStay, Recorded, HasLink
<1> QED
  BY <1>1, <1>2

LEMMA CallGoesOn ==
  ASSUME Base, Addressed, StoresStay, UNCHANGED <<phase, todo, live>>,
         op.at # "forget record",
         \/ op'.at \notin Adding \cup {"allocate"}
         \/ op'.at = "allocate" /\ ~Recorded(op'.w)
         \/ op'.at \in Adding /\ op.at \in Adding /\ op'.addr = op.addr /\ op'.w = op.w
  PROVE  Addressed'
<1> USE DEF Addressed, StoresStay
<1>1. Held'
  BY DEF Held, Releasing, Recorded, HasLink
<1>2. Fresh'
  <2>1. CASE op'.at \notin Adding \cup {"allocate"}
    BY <2>1 DEF Fresh
  <2>2. CASE op'.at = "allocate" /\ ~Recorded(op'.w)
    BY <2>2 DEF Fresh, Adding, Recorded
  <2>3. CASE op'.at \in Adding /\ op.at \in Adding /\ op'.addr = op.addr /\ op'.w = op.w
    BY <2>3 DEF Fresh, Adding, Recorded
  <2> QED
    BY <2>1, <2>2, <2>3
<1>3. Sorted'
  BY DEF Sorted, Recorded
<1> QED
  BY <1>1, <1>2, <1>3

(* An addition ends or goes on with the same workload and address.         *)
LEMMA AdditionGoesOn ==
  ASSUME Base, AddStep
  PROVE  /\ op \in Calls /\ op.w \in Workloads /\ op.at \in Adding \cup {"refresh"}
         /\ UNCHANGED <<phase, todo, live>> /\ phase = "up" /\ live = {}
         /\ \/ op' = Idle /\ op'.at = "idle"
            \/ op'.at \in Adding /\ op.at \in Adding /\ op'.addr = op.addr /\ op'.w = op.w
<1> USE DEF Base
<1> DEFINE Onwards == \/ op' = Idle
                      \/ \E s \in Adding : op.at \in Adding /\ op' = [op EXCEPT !.at = s]
                      \/ \E ps : op.at \in Adding /\ op' = [op EXCEPT !.at = "undo rules", !.ports = ps]
<1>1. op.at \in Adding \cup {"refresh"}
  BY DEF AddStep, Refresh, LinkAdd, Attach, Publish, Save, UndoRules, UndoLink,
         UndoAddress, Step, Adding
<1>2. op \in Calls /\ op.w \in Workloads /\ op.at # "idle" /\ op.at # "forget record"
  BY <1>1, CallUnderWay DEF Adding
<1>3. UNCHANGED <<phase, todo, live>> /\ phase = "up" /\ live = {}
  <2>1. Succeed \/ Fail \/ UNCHANGED boot
    BY DEF AddStep, Refresh, LinkAdd, Attach, Publish, Save, UndoRules, UndoLink, UndoAddress
  <2> QED
    BY <2>1, <1>2, CallsInTheirPhase DEF Succeed, Fail, boot
<1>4. Onwards
  <2>1. CASE Refresh \/ UndoAddress
    BY <2>1 DEF Refresh, UndoAddress, End
  <2>2. CASE LinkAdd \/ Attach \/ Save \/ UndoRules \/ UndoLink
    <3>1. op.at \in Adding
      BY <2>2 DEF LinkAdd, Attach, Save, UndoRules, UndoLink, Step, Adding
    <3>2. op' = Idle \/ (\E s \in {"attach", "publish", "undo rules", "undo link", "undo address"} : Goto(s))
      BY <2>2 DEF LinkAdd, Attach, Save, UndoRules, UndoLink, End
    <3>3. {"attach", "publish", "undo rules", "undo link", "undo address"} \subseteq Adding
      BY DEF Adding
    <3> QED
      BY <3>1, <3>2, <3>3 DEF Goto
  <2>3. CASE Publish
    <3>1. op.at \in Adding /\ "save" \in Adding
      BY <2>3 DEF Publish, Step, Adding
    <3>2. Goto("save") \/ (\E ps : op' = [op EXCEPT !.at = "undo rules", !.ports = ps])
      BY <2>3 DEF Publish
    <3> QED
      BY <3>1, <3>2 DEF Goto
  <2> QED
    BY <2>1, <2>2, <2>3 DEF AddStep
<1>5. \/ op' = Idle /\ op'.at = "idle"
      \/ op'.at \in Adding /\ op.at \in Adding /\ op'.addr = op.addr /\ op'.w = op.w
  <2>1. CASE op' = Idle
    BY <2>1 DEF Idle
  <2>2. CASE \E s \in Adding : op.at \in Adding /\ op' = [op EXCEPT !.at = s]
    BY <1>2, <2>2 DEF Calls
  <2>3. CASE \E ps : op.at \in Adding /\ op' = [op EXCEPT !.at = "undo rules", !.ports = ps]
    <3>1. op.at \in Adding /\ op'.at = "undo rules" /\ op'.addr = op.addr /\ op'.w = op.w
      BY <1>2, <2>3 DEF Calls
    <3> QED
      BY <3>1 DEF Adding
  <2> QED
    BY <1>4, <2>1, <2>2, <2>3
<1> QED
  BY <1>1, <1>2, <1>3, <1>5

LEMMA AdditionAddressed ==
  ASSUME Base, Addressed, AddStep, ~botched'
  PROVE  Addressed'
<1> USE DEF Base
<1>1. op.at \in Adding \cup {"refresh"} /\ op \in Calls /\ op.w \in Workloads
  BY AdditionGoesOn
<1>2. op.at # "idle" /\ op.at # "forget record"
  BY <1>1 DEF Adding
<1>3. UNCHANGED <<phase, todo, live>> /\ phase = "up" /\ live = {}
  BY AdditionGoesOn
<1>4. \/ op'.at = "idle"
      \/ op'.at \in Adding /\ op.at \in Adding /\ op'.addr = op.addr /\ op'.w = op.w
  BY AdditionGoesOn
<1>5. ASSUME StoresStay PROVE Addressed'
  <2>1. \/ op'.at \notin Adding \cup {"allocate"}
        \/ op'.at \in Adding /\ op.at \in Adding /\ op'.addr = op.addr /\ op'.w = op.w
    BY <1>4 DEF Adding
  <2> QED
    BY <1>2, <1>3, <1>5, <2>1, CallGoesOn
<1>6. CASE Refresh \/ Publish \/ UndoRules
  BY <1>5, <1>6 DEF Refresh, Publish, UndoRules, StoresStay, HasLink
<1>7. CASE LinkAdd \/ Attach \/ UndoLink
  <2>1. UNCHANGED <<records, allocated>> /\ op.at \in Adding
    BY <1>7 DEF LinkAdd, Attach, UndoLink, Step, Adding
  <2>2. ~Recorded(op.w)
    BY <2>1 DEF Addressed, Fresh
  <2>3. \A w \in Workloads \ {op.w} : link'[w] = link[w]
    BY <1>7, <1>1 DEF LinkAdd, Attach, UndoLink, TypeOK
  <2>4. StoresStay
    BY <2>1, <2>2, <2>3 DEF StoresStay, HasLink
  <2> QED
    BY <1>5, <2>4
<1>8. CASE Save
  <2>1. CASE UNCHANGED records
    BY <1>5, <1>8, <2>1 DEF Save, StoresStay, HasLink
  <2>2. CASE records' = OpSaved /\ End
    <3>1. op.at = "save" /\ UNCHANGED <<allocated, link>> /\ op' = Idle /\ op'.at = "idle"
      BY <1>8, <2>2 DEF Save, Step, End, Idle
    <3>2. /\ op.addr \in allocated /\ ~Recorded(op.w)
          /\ \A v \in Workloads : records[v].addr # op.addr
      BY <3>1 DEF Addressed, Fresh, Adding
    <3>3. /\ records'[op.w].addr = op.addr
          /\ \A v \in Workloads \ {op.w} : records'[v] = records[v]
      BY <1>1, <2>2 DEF OpSaved, TypeOK
    <3>4. Held'
      BY <1>3, <3>1, <3>2, <3>3 DEF Addressed, Held, Releasing, Recorded, HasLink
    <3>5. Fresh'
      BY <3>1 DEF Fresh, Adding
    <3>6. Sorted'
      BY <1>3 DEF Sorted
    <3> QED
      BY <3>4, <3>5, <3>6 DEF Addressed
  <2> QED
    BY <1>8, <2>1, <2>2 DEF Save
<1>9. CASE UndoAddress
  <2>1. /\ UNCHANGED <<records, link>> /\ op' = Idle /\ op'.at = "idle" /\ op.at = "undo address"
        /\ allocated' = allocated \/ allocated' = allocated \ {op.addr}
    BY <1>9 DEF UndoAddress, End, Step, Idle
  <2>2. \A v \in Workloads : records[v].addr # op.addr
    BY <2>1 DEF Addressed, Fresh, Adding
  <2>3. Held'
    BY <1>3, <2>1, <2>2 DEF Addressed, Held, Releasing, Recorded, HasLink
  <2>4. Fresh'
    BY <2>1 DEF Fresh, Adding
  <2>5. Sorted'
    BY <1>3 DEF Sorted
  <2> QED
    BY <2>3, <2>4, <2>5 DEF Addressed
<1> QED
  BY <1>6, <1>7, <1>8, <1>9 DEF AddStep

LEMMA AllocationAddressed ==
  ASSUME Base, Addressed, Allocate
  PROVE  Addressed'
<1> USE DEF Base
<1>1. op.at = "allocate" /\ op \in Calls /\ op.w \in Workloads /\ UNCHANGED <<records, link>>
  BY CallUnderWay DEF Allocate, Step
<1>2. UNCHANGED <<phase, todo, live>> /\ phase = "up" /\ live = {}
  BY <1>1, BootUntouched, CallsInTheirPhase DEF Allocate
<1>3. ~Recorded(op.w) /\ \A w \in Workloads : Recorded(w) => records[w].addr \in allocated
  BY <1>1, <1>2 DEF Addressed, Held, Fresh, Releasing
<1>4. \/ op' = Idle /\ allocated \subseteq allocated'
      \/ \E a \in Addresses \ allocated :
           allocated' = allocated \cup {a} /\ op' = [op EXCEPT !.at = "link", !.addr = a]
  BY DEF Allocate, End
<1>5. Held'
  BY <1>1, <1>3, <1>4 DEF Addressed, Held, Recorded, HasLink
<1>6. Fresh'
  <2>1. CASE op' = Idle
    BY <2>1 DEF Fresh, Idle, Adding
  <2>2. ASSUME NEW a \in Addresses \ allocated,
               allocated' = allocated \cup {a}, op' = [op EXCEPT !.at = "link", !.addr = a]
        PROVE  Fresh'
    <3>1. op'.at = "link" /\ op'.addr = a /\ op'.w = op.w
      BY <1>1, <2>2 DEF Calls
    <3>2. \A w \in Workloads : records[w].addr # a
      BY <1>3, <2>2, NoAddressIsNone DEF Recorded
    <3> QED
      BY <1>1, <1>3, <2>2, <3>1, <3>2 DEF Fresh, Recorded
  <2> QED
    BY <1>4, <2>1, <2>2
<1>7. Sorted'
  BY <1>2 DEF Sorted
<1> QED
  BY <1>5, <1>6, <1>7 DEF Addressed

LEMMA RemovalAddressed ==
  ASSUME Base, Addressed, DeleteStep, ~botched'
  PROVE  Addressed'
<1> USE DEF Base
<1>1. op.at \in Removing \cup {"unlink"}
  BY DEF DeleteStep, Unlink, ForgetRules, ForgetAddress, ForgetRecord, Step, Removing
<1>2. /\ op.at # "idle" /\ op \in Calls /\ op.w \in Workloads
      /\ Recorded(op.w) /\ op.addr = records[op.w].addr
  BY <1>1, CallUnderWay DEF Known, OfARecord, Removing
<1>3. UNCHANGED <<phase, todo, live>> /\ phase = "up" /\ live = {}
  <2>1. Succeed \/ Fail \/ UNCHANGED boot
    BY DEF DeleteStep, Unlink, ForgetRules, ForgetAddress, ForgetRecord
  <2> QED
    BY <2>1, <1>2, CallsInTheirPhase DEF Succeed, Fail, boot
<1>4. CASE Unlink \/ ForgetRules
  <2>1. op' = Idle \/ Goto("forget rules") \/ Goto("forget address")
    BY <1>4 DEF Unlink, ForgetRules, End
  <2>2. op'.at \in {"idle", "forget rules", "forget address"}
    <3>1. CASE op' = Idle
      BY <3>1 DEF Idle
    <3>2. CASE Goto("forget rules")
      BY <1>2, <3>2, GoingOnTypes DEF Steps
    <3>3. CASE Goto("forget address")
      BY <1>2, <3>3, GoingOnTypes DEF Steps
    <3> QED
      BY <2>1, <3>1, <3>2, <3>3
  <2>3. UNCHANGED <<records, allocated>> /\ op.at # "forget record"
    BY <1>4 DEF Unlink, ForgetRules, Step
  <2>4. \A w \in Workloads : HasLink(w)' => HasLink(w)
    <3>1. link' = link \/ link' = [link EXCEPT ![op.w] = NoLink]
      BY <1>4 DEF Unlink, ForgetRules
    <3> QED
      BY <1>2, <3>1 DEF HasLink, NoLink, TypeOK
  <2> QED
    BY <1>3, <2>2, <2>3, <2>4, CallGoesOn DEF StoresStay, Adding
<1>5. CASE ForgetAddress
  <2>1. /\ UNCHANGED <<records, link>> /\ op.at = "forget address"
        /\ \/ allocated' = allocated \ {op.addr} /\ Goto("forget record")
           \/ allocated' = allocated /\ op' = Idle
    BY <1>5 DEF ForgetAddress, Step, End
  <2>2. CASE allocated' = allocated \ {op.addr} /\ Goto("forget record")
    <3>1. op'.at = "forget record" /\ op'.w = op.w
      BY <1>2, <2>2, GoingOnTypes DEF Steps
    <3>2. ~HasLink(op.w)
      BY <2>1 DEF Known, Removing
    <3>3. Held'
      BY <1>2, <1>3, <2>1, <2>2, <3>1, <3>2
         DEF Addressed, Held, Releasing, Recorded, HasLink
    <3>4. Fresh'
      BY <3>1 DEF Fresh, Adding
    <3>5. Sorted'
      BY <1>3 DEF Sorted
    <3> QED
      BY <3>3, <3>4, <3>5 DEF Addressed
  <2>3. CASE allocated' = allocated /\ op' = Idle
    <3>1. op'.at = "idle"
      BY <2>3 DEF Idle
    <3>2. StoresStay
      BY <2>1, <2>3 DEF StoresStay, HasLink
    <3> QED
      BY <1>3, <2>1, <3>1, <3>2, CallGoesOn DEF Adding
  <2> QED
    BY <2>1, <2>2, <2>3
<1>6. CASE ForgetRecord
  <2>1. /\ UNCHANGED <<allocated, link>>
        /\ records' = [records EXCEPT ![op.w] = NoRecord]
        /\ \/ op' = Idle
           \/ op' = Call("allocate", "add", op.w, NoAddress, op.ports)
    BY <1>6 DEF ForgetRecord, End
  <2>2. op'.at \in {"idle", "allocate"} /\ (op'.at = "allocate" => op'.w = op.w)
    BY <2>1 DEF Idle, Call
  <2>3. /\ records'[op.w].addr = NoAddress
        /\ \A w \in Workloads \ {op.w} : records'[w] = records[w]
    BY <1>2, <2>1 DEF NoRecord, TypeOK
  <2>4. \A w \in Workloads \ {op.w} : Recorded(w) => records[w].addr \in allocated
    BY <1>3 DEF Addressed, Held, Releasing
  <2>5. \A w \in Workloads : Recorded(w)' => w # op.w /\ Recorded(w)
    BY <2>3 DEF Recorded
  <2>6. Held'
    BY <2>1, <2>3, <2>4, <2>5 DEF Addressed, Held
  <2>7. Fresh'
    BY <2>2, <2>3 DEF Fresh, Adding, Recorded
  <2>8. Sorted'
    BY <1>3 DEF Sorted
  <2> QED
    BY <2>6, <2>7, <2>8 DEF Addressed
<1> QED
  BY <1>4, <1>5, <1>6 DEF DeleteStep

LEMMA RequestAddressed ==
  ASSUME Base, Addressed, NEW w \in Workloads, NEW ps \in SUBSET Ports,
         Add(w, ps) \/ Delete(w)
  PROVE  Addressed'
<1>1. op = Idle /\ Succeed /\ UNCHANGED <<records, allocated, link, rules>>
  BY DEF Add, Delete
<1>2. op.at # "forget record" /\ StoresStay /\ UNCHANGED <<phase, todo, live>>
  BY <1>1 DEF Idle, StoresStay, HasLink, Succeed, boot
<1>3. op'.at \in OfARecord \/ (op'.at = "allocate" /\ ~Recorded(op'.w))
  <2>1. CASE Delete(w)
    BY <2>1 DEF Delete, Call, OfARecord
  <2>2. CASE Add(w, ps)
    <3>1. \/ ~Recorded(w) /\ op' = Call("allocate", "add", w, NoAddress, ps)
          \/ op' = Call("refresh", "add", w, records[w].addr, ps)
          \/ op' = Call("forget rules", "add", w, records[w].addr, ps)
      BY <2>2 DEF Add
    <3>2. CASE ~Recorded(w) /\ op' = Call("allocate", "add", w, NoAddress, ps)
      BY <3>2 DEF Call
    <3>3. CASE op' = Call("refresh", "add", w, records[w].addr, ps)
      BY <3>3 DEF Call, OfARecord
    <3>4. CASE op' = Call("forget rules", "add", w, records[w].addr, ps)
      BY <3>4 DEF Call, OfARecord, Removing
    <3> QED
      BY <3>1, <3>2, <3>3, <3>4
  <2> QED
    BY <2>1, <2>2
<1> QED
  BY <1>2, <1>3, CallGoesOn DEF OfARecord, Removing, Adding

LEMMA StartAddressed ==
  ASSUME Base, Addressed, BootStep, ~botched'
  PROVE  Addressed'
<1> USE DEF Base
<1>1. op = Idle /\ op' = Idle /\ op.at = "idle" /\ op'.at = "idle"
  BY DEF BootStep, Boot, FlushPeers, AppendPeer, OverlayDone, Unhook, Insert, EgressDone,
         BootFails, Keep, DropStale, RebuildPool, RemoveOrphans, ReinstallGateway,
         ReinstallRules, Reconciled, Idle
<1>2. Fresh'
  BY <1>1 DEF Fresh, Adding
<1>3. CASE \/ Boot \/ FlushPeers \/ OverlayDone \/ BootFails
           \/ \E n \in Peers : AppendPeer(n)
           \/ \E f \in Firewall : Unhook(f) \/ Insert(f)
  <2>1. UNCHANGED <<records, allocated, link, live>>
    BY <1>3 DEF Boot, FlushPeers, OverlayDone, BootFails, AppendPeer, Unhook, Insert, stores
  <2>2. phase' \in Starting /\ live = {}
    BY <1>3 DEF Boot, FlushPeers, OverlayDone, BootFails, AppendPeer, Unhook, Insert, Starting,
                Reconciled, Reconciling
  <2>3. Held'
    BY <1>1, <2>1, <2>2, HeldBeforeServing DEF Addressed, StoresStay, HasLink, Starting
  <2>4. Sorted'
    BY <2>1, <2>2 DEF Sorted, Starting
  <2> QED
    BY <1>2, <2>3, <2>4 DEF Addressed
<1>4. CASE EgressDone
  <2>1. /\ UNCHANGED <<records, allocated, link, live>> /\ phase' = "records" /\ live = {}
        /\ todo' = {w \in Workloads : Recorded(w)}
    BY <1>4 DEF EgressDone, stores, Reconciled, Reconciling
  <2>2. Held'
    BY <1>1, <2>1, HeldBeforeServing DEF Addressed, StoresStay, HasLink
  <2>3. Sorted'
    BY <2>1 DEF Sorted, Recorded
  <2> QED
    BY <1>2, <2>2, <2>3 DEF Addressed
<1>5. CASE \E w \in Workloads : Keep(w)
  <2>1. PICK w \in Workloads : Keep(w)
    BY <1>5
  <2>2. /\ UNCHANGED <<records, allocated, link>> /\ phase = "records" /\ phase' = "records"
        /\ w \in todo /\ HasLink(w) /\ todo' = todo \ {w} /\ live' = live \cup {w}
    BY <2>1 DEF Keep
  <2>3. Held'
    BY <1>1, <2>2, HeldBeforeServing DEF Addressed, StoresStay, HasLink
  <2>4. records[w].addr \in allocated
    BY <2>2 DEF Addressed, Held, Reconciled
  <2>5. Sorted'
    BY <2>2, <2>4 DEF Addressed, Sorted, Recorded
  <2> QED
    BY <1>2, <2>3, <2>5 DEF Addressed
<1>6. CASE \E w \in Workloads : DropStale(w)
  <2>1. PICK w \in Workloads : DropStale(w)
    BY <1>6
  <2>2. /\ UNCHANGED <<allocated, link, live>> /\ phase = "records" /\ phase' = "records"
        /\ w \in todo /\ todo' = todo \ {w}
        /\ records' = [records EXCEPT ![w] = NoRecord]
    BY <2>1 DEF DropStale
  <2>3. /\ records'[w].addr = NoAddress /\ w \notin live
        /\ \A v \in Workloads \ {w} : records'[v] = records[v]
    BY <2>2 DEF NoRecord, TypeOK, Reconciled
  <2>4. Held'
    BY <2>2, <2>3 DEF Addressed, Held, Recorded, HasLink
  <2>5. Sorted'
    BY <2>2, <2>3 DEF Addressed, Sorted, Recorded, TypeOK
  <2> QED
    BY <1>2, <2>4, <2>5 DEF Addressed
<1>7. CASE RebuildPool
  <2>1. /\ UNCHANGED <<records, link, live>> /\ phase = "records" /\ phase' = "orphans" /\ todo = {}
        /\ allocated' = allocated \/ allocated' = {records[w].addr : w \in live}
    BY <1>7 DEF RebuildPool
  <2>2. \A w \in Workloads : Recorded(w) => w \in live
    BY <2>1 DEF Addressed, Sorted
  <2>3. \A w \in live : records[w].addr \in allocated'
    BY <2>1 DEF Addressed, Sorted
  <2>4. Held'
    BY <2>1, <2>2, <2>3 DEF Addressed, Held, Recorded, HasLink
  <2>5. Sorted'
    BY <2>1, <2>2, <2>3 DEF Sorted, Recorded
  <2> QED
    BY <1>2, <2>4, <2>5 DEF Addressed
<1>8. CASE RemoveOrphans \/ ReinstallGateway \/ ReinstallRules
  <2>1. UNCHANGED <<records, allocated>>
    BY <1>8 DEF RemoveOrphans, ReinstallGateway, ReinstallRules, stores
  <2>2. \A w \in Workloads : HasLink(w)' => HasLink(w)
    <3>1. CASE ReinstallGateway \/ ReinstallRules
      BY <3>1 DEF ReinstallGateway, ReinstallRules, stores, HasLink
    <3>2. CASE RemoveOrphans
      <4>1. \A w \in Workloads : link'[w] = link[w] \/ link'[w] = NoLink
        BY <3>2 DEF RemoveOrphans
      <4> QED
        BY <4>1 DEF HasLink, NoLink
    <3> QED
      BY <1>8, <3>1, <3>2
  <2>3. phase \in {"orphans", "gateway", "rules"} /\ phase' \in {"gateway", "rules", "up"}
    BY <1>8 DEF RemoveOrphans, ReinstallGateway, ReinstallRules
  <2>4. live' = live \/ (phase' = "up" /\ live' = {})
    BY <1>8 DEF RemoveOrphans, ReinstallGateway, ReinstallRules
  <2>5. \A w \in Workloads : Recorded(w) => w \in live /\ records[w].addr \in allocated
    BY <2>3 DEF Addressed, Sorted
  <2>6. Held'
    BY <2>1, <2>2, <2>5 DEF Addressed, Held, Recorded, HasLink
  <2>7. Sorted'
    BY <2>1, <2>3, <2>4, <2>5 DEF Addressed, Sorted, Recorded
  <2> QED
    BY <1>2, <2>6, <2>7 DEF Addressed
<1> QED
  BY <1>3, <1>4, <1>5, <1>6, <1>7, <1>8 DEF BootStep

LEMMA WorldAddressed ==
  ASSUME Base, Addressed, (\E w \in Workloads : ContainerEnds(w)) \/ Crash \/ Reboot
  PROVE  Addressed'
<1>1. UNCHANGED <<records, allocated>>
  BY DEF ContainerEnds, Crash, Reboot, Halt
<1>2. \A w \in Workloads : HasLink(w)' => HasLink(w)
  BY DEF ContainerEnds, Crash, Reboot, HasLink, NoLink, Base, TypeOK
<1>3. CASE \E w \in Workloads : ContainerEnds(w)
  <2>1. UNCHANGED <<phase, todo, live, op>>
    BY <1>3 DEF ContainerEnds, boot
  <2> QED
    BY <1>1, <1>2, <2>1 DEF Addressed, Held, Fresh, Sorted, Releasing, Recorded
<1>4. CASE Crash \/ Reboot
  <2>1. phase' = "down" /\ live' = {} /\ op'.at = "idle"
    BY <1>4 DEF Crash, Reboot, Halt, Idle
  <2>2. Held' /\ Fresh'
    BY <1>1, <1>2, <2>1, HeldBeforeServing DEF Addressed, StoresStay
  <2>3. Sorted'
    BY <2>1 DEF Sorted
  <2> QED
    BY <2>2, <2>3 DEF Addressed
<1> QED
  BY <1>3, <1>4

LEMMA BotchedForGood ==
  ASSUME Base, [Next]_vars, ~botched'
  PROVE  ~botched
BY DEF Next, vars, counters, Allocate, AddStep, DeleteStep, BootStep, Refresh, LinkAdd, Attach,
       Publish, Save, UndoRules, UndoLink, UndoAddress, Unlink, ForgetRules, ForgetAddress,
       ForgetRecord, Boot, FlushPeers, AppendPeer, OverlayDone, Unhook, Insert, EgressDone,
       BootFails, Keep, DropStale, RebuildPool, RemoveOrphans, ReinstallGateway,
       ReinstallRules, Add, Delete, ContainerEnds, Crash, Reboot, Halt, Succeed, Fail, Base, TypeOK

LEMMA AddressesKept ==
  ASSUME Base, AddressInv, [Next]_vars
  PROVE  AddressInv'
<1> SUFFICES ASSUME ~botched' PROVE Addressed'
  BY DEF AddressInv
<1>1. Addressed
  BY BotchedForGood DEF AddressInv
<1>2. CASE UNCHANGED vars
  BY <1>1, <1>2 DEF vars, boot, Addressed, Held, Fresh, Sorted, Releasing, Recorded, HasLink
<1>3. CASE \E w \in Workloads : Delete(w) \/ \E ps \in SUBSET Ports : Add(w, ps)
  BY <1>1, <1>3, RequestAddressed
<1> QED
  BY <1>1, <1>2, <1>3, AllocationAddressed, AdditionAddressed, RemovalAddressed, StartAddressed,
     WorldAddressed DEF Next

LEMMA AddressedInitially ==
  ASSUME Init
  PROVE  AddressInv
BY DEF Init, AddressInv, Addressed, Held, Fresh, Sorted, Recorded, NoRecord, Idle, Adding

(* The ports of an addition were found unused when it began, and nothing   *)
(* is recorded until it ends.                                              *)
Carrying == {"link", "attach", "publish", "save"}
PortsFree(ports) == \A v \in Workloads : ports \cap records[v].ports = {}
PortInv ==
  /\ \A v, w \in Workloads : v # w => records[v].ports \cap records[w].ports = {}
  /\ op.at \in Carrying => PortsFree(op.ports)

LEMMA NotCarrying ==
  ASSUME op \in Calls, NEW s \in Steps, s \notin Carrying, End \/ Goto(s)
  PROVE  op'.at \notin Carrying
<1>1. CASE End
  BY <1>1 DEF End, Idle, Carrying
<1>2. CASE Goto(s)
  <2>1. op'.at = s
    BY <1>2 DEF Goto, Calls
  <2> QED
    BY <2>1
<1> QED
  BY <1>1, <1>2

LEMMA SavingRecords ==
  ASSUME Base, AddStep
  PROVE  \/ records' = records
         \/ op.at = "save" /\ op'.at \notin Carrying /\ records' = OpSaved
<1>1. CASE Save
  <2>1. op.at = "save" /\ op \in Calls
    BY <1>1, CallUnderWay DEF Save, Step, Base
  <2>2. End \/ Goto("undo rules")
    BY <1>1 DEF Save
  <2>3. op'.at \notin Carrying
    BY <2>1, <2>2, NotCarrying DEF Steps, Carrying
  <2>4. records' = records \/ records' = OpSaved
    BY <1>1 DEF Save
  <2> QED
    BY <2>1, <2>3, <2>4
<1>2. CASE Refresh \/ LinkAdd \/ Attach \/ Publish \/ UndoRules \/ UndoLink \/ UndoAddress
  BY <1>2 DEF Refresh, LinkAdd, Attach, Publish, UndoRules, UndoLink, UndoAddress
<1> QED
  BY <1>1, <1>2 DEF AddStep

LEMMA CarryingOn ==
  ASSUME Base, AddStep, op'.at \in Carrying
  PROVE  op.at \in Carrying /\ op'.ports = op.ports
<1>1. op.at # "idle" /\ op \in Calls
  BY AdditionGoesOn DEF Carrying, Idle, Adding
<1>2. ~Refresh /\ ~Save /\ ~UndoRules /\ ~UndoLink /\ ~UndoAddress
  <2>1. Refresh \/ Save \/ UndoRules \/ UndoLink \/ UndoAddress =>
          End \/ Goto("undo rules") \/ Goto("undo link") \/ Goto("undo address")
    BY DEF Refresh, Save, UndoRules, UndoLink, UndoAddress
  <2> QED
    BY <1>1, <2>1, NotCarrying DEF Steps, Carrying
<1>3. CASE LinkAdd \/ Attach
  <2>1. op.at \in Carrying
    BY <1>3 DEF LinkAdd, Attach, Step, Carrying
  <2>2. \E s : op' = [op EXCEPT !.at = s]
    BY <1>3 DEF LinkAdd, Attach, Goto
  <2> QED
    BY <1>1, <2>1, <2>2 DEF Calls
<1>4. CASE Publish
  <2>1. op.at \in Carrying
    BY <1>4 DEF Publish, Step, Carrying
  <2>2. Goto("save") \/ \E passed : op' = [op EXCEPT !.at = "undo rules", !.ports = passed]
    BY <1>4 DEF Publish
  <2>3. Goto("save")
    BY <1>1, <2>2 DEF Carrying, Calls
  <2> QED
    BY <1>1, <2>1, <2>3 DEF Goto, Calls
<1> QED
  BY <1>2, <1>3, <1>4 DEF AddStep

(* A record that goes takes its ports along.                               *)
LEMMA FewerPorts ==
  ASSUME Base, NEW x \in Workloads, records' = [records EXCEPT ![x] = NoRecord]
  PROVE  \A v \in Workloads : records'[v].ports \subseteq records[v].ports
BY DEF Base, TypeOK, NoRecord

LEMMA PortsKept ==
  ASSUME Base, PortInv, [Next]_vars
  PROVE  PortInv'
<1>1. ASSUME \A v \in Workloads : records'[v].ports \subseteq records[v].ports,
             op'.at \in Carrying => op.at \in Carrying /\ op'.ports = op.ports
      PROVE  PortInv'
  BY <1>1 DEF PortInv, PortsFree
<1>2. CASE UNCHANGED vars
  BY <1>2 DEF vars, PortInv, PortsFree
<1>3. CASE Allocate
  <2>1. op.at = "allocate" /\ op \in Calls /\ records' = records
    BY <1>3, CallUnderWay DEF Allocate, Step, Base
  <2>2. CASE op' = Idle
    BY <1>1, <2>1, <2>2 DEF Idle, Carrying
  <2>3. CASE op' # Idle
    <3>1. PortsFree(op.ports) /\ \E a : op' = [op EXCEPT !.at = "link", !.addr = a]
      BY <1>3, <2>3 DEF Allocate, End, PortUsed, PortsFree
    <3>2. op'.ports = op.ports
      BY <2>1, <3>1 DEF Calls
    <3> QED
      BY <2>1, <3>1, <3>2 DEF PortInv, PortsFree
  <2> QED
    BY <2>2, <2>3
<1>4. CASE AddStep
  <2>1. op'.at \in Carrying => op.at \in Carrying /\ op'.ports = op.ports
    BY <1>4, CarryingOn
  <2>2. CASE records' = records
    BY <1>1, <2>1, <2>2
  <2>3. CASE op.at = "save" /\ op'.at \notin Carrying /\ records' = OpSaved
    <3>1. PortsFree(op.ports) /\ op.w \in Workloads
      BY <2>3, CallUnderWay DEF PortInv, Carrying, Base
    <3>2. /\ records'[op.w].ports = op.ports
          /\ \A v \in Workloads : v # op.w => records'[v] = records[v]
      BY <2>3, <3>1 DEF OpSaved, Base, TypeOK
    <3>3. \A v, w \in Workloads : v # w => records'[v].ports \cap records'[w].ports = {}
      <4> SUFFICES ASSUME NEW v \in Workloads, NEW w \in Workloads, v # w
                   PROVE  records'[v].ports \cap records'[w].ports = {}
        OBVIOUS
      <4>1. CASE v = op.w
        BY <3>1, <3>2, <4>1 DEF PortsFree
      <4>2. CASE w = op.w
        BY <3>1, <3>2, <4>2 DEF PortsFree
      <4>3. CASE v # op.w /\ w # op.w
        BY <3>2, <4>3 DEF PortInv
      <4> QED
        BY <4>1, <4>2, <4>3
    <3> QED
      BY <2>3, <3>3 DEF PortInv
  <2> QED
    BY <1>4, <2>2, <2>3, SavingRecords
<1>5. CASE DeleteStep
  <2>1. op.at \in OfARecord /\ op \in Calls
    BY <1>5, CallUnderWay DEF DeleteStep, Unlink, ForgetRules, ForgetAddress, ForgetRecord, Step,
                              OfARecord, Removing, Base
  <2>2. op'.at \notin Carrying
    <3>1. \/ End \/ Goto("forget rules") \/ Goto("forget address") \/ Goto("forget record")
          \/ op' = Idle \/ op' = Call("allocate", "add", op.w, NoAddress, op.ports)
      BY <1>5 DEF DeleteStep, Unlink, ForgetRules, ForgetAddress, ForgetRecord
    <3>2. Call("allocate", "add", op.w, NoAddress, op.ports).at = "allocate"
      BY DEF Call
    <3>3. CASE End \/ Goto("forget rules") \/ Goto("forget address") \/ Goto("forget record")
      BY <2>1, <3>3, NotCarrying DEF Steps, Carrying
    <3>4. CASE op' = Idle
      BY <3>4 DEF Idle, Carrying
    <3>5. CASE op' = Call("allocate", "add", op.w, NoAddress, op.ports)
      <4>1. op'.at = "allocate"
        BY <3>2, <3>5
      <4> QED
        BY <4>1 DEF Carrying
    <3> QED
      BY <3>1, <3>3, <3>4, <3>5
  <2>3. records' = records \/ (op.w \in Workloads /\ records' = [records EXCEPT ![op.w] = NoRecord])
    BY <1>5, <2>1 DEF DeleteStep, Unlink, ForgetRules, ForgetAddress, ForgetRecord, Calls
  <2> QED
    BY <1>1, <2>2, <2>3, FewerPorts
<1>6. CASE \E w \in Workloads : Delete(w) \/ \E s \in SUBSET Ports : Add(w, s)
  <2>1. PICK w \in Workloads, s \in SUBSET Ports : Delete(w) \/ Add(w, s)
    BY <1>6
  <2>2. /\ records' = records
        /\ \E at \in {"unlink", "allocate", "refresh", "forget rules"} :
             \E kind, a, ps : op' = Call(at, kind, w, a, ps)
    BY <2>1 DEF Delete, Add
  <2>3. op'.at \in {"unlink", "allocate", "refresh", "forget rules"}
    <3>1. PICK at \in {"unlink", "allocate", "refresh", "forget rules"} :
            \E kind, a, ps : op' = Call(at, kind, w, a, ps)
      BY <2>2
    <3>2. PICK kind, a, ps : op' = Call(at, kind, w, a, ps)
      BY <3>1
    <3>3. op'.at = at
      BY <3>2 DEF Call
    <3> QED
      BY <3>3
  <2>4. op'.at \notin Carrying
    BY <2>3 DEF Carrying
  <2> QED
    BY <1>1, <2>2, <2>4
<1>7. CASE BootStep
  <2>1. op' = op
    BY <1>7 DEF BootStep, Boot, FlushPeers, AppendPeer, OverlayDone, Unhook, Insert, EgressDone, BootFails,
                Keep, DropStale, RebuildPool, RemoveOrphans, ReinstallGateway, ReinstallRules
  <2>2. records' = records \/ \E w \in Workloads : records' = [records EXCEPT ![w] = NoRecord]
    BY <1>7 DEF BootStep, Boot, FlushPeers, AppendPeer, OverlayDone, Unhook, Insert, EgressDone, BootFails,
                Keep, DropStale, RebuildPool, RemoveOrphans, ReinstallGateway, ReinstallRules, stores
  <2> QED
    BY <1>1, <2>1, <2>2, FewerPorts
<1>8. CASE (\E w \in Workloads : ContainerEnds(w)) \/ Crash \/ Reboot
  <2>1. records' = records /\ (op' = op \/ op' = Idle)
    BY <1>8 DEF ContainerEnds, Crash, Reboot, Halt
  <2> QED
    BY <1>1, <2>1 DEF Idle, Carrying
<1> QED
  BY <1>2, <1>3, <1>4, <1>5, <1>6, <1>7, <1>8 DEF Next

(* No two records name one host port or one address, and while a workload  *)
(* is attached, or no call is under way, the pool keeps its address from   *)
(* everybody else: through any number of stops, reboots and failing        *)
(* commands.                                                               *)
THEOREM AllocationsKeptApart == Spec => []AllocationsHeld
<1>1. Init => AddressInv /\ PortInv
  <2>1. Init => \A v \in Workloads : records[v].ports = {}
    BY DEF Init, NoRecord
  <2>2. Init => op.at \notin Carrying
    BY DEF Init, Idle, Carrying
  <2> QED
    BY <2>1, <2>2, AddressedInitially DEF PortInv
<1>2. Base /\ AddressInv /\ [Next]_vars => AddressInv'
  BY AddressesKept
<1>3. Base /\ PortInv /\ [Next]_vars => PortInv'
  BY PortsKept
<1>4. AddressInv /\ PortInv => AllocationsHeld
  <2>1. Quiet => phase = "up" /\ op.at = "idle"
    BY DEF Quiet, Idle
  <2> QED
    BY <2>1 DEF AddressInv, Addressed, Held, AllocationsHeld, Releasing, PortInv
<1> QED
  BY <1>1, <1>2, <1>3, <1>4, BaseInvariant, PTL DEF Spec

-----------------------------------------------------------------------------
(* While nothing fails: what stops of the daemon and of the machine alone  *)
(* can do to links, addresses and rules.                                   *)

(* The steps of an addition at which its workload can have a link of its.  *)
Linked == {"attach", "publish", "save", "undo rules", "undo link"}

(* What is allocated is on record, or about to be.                         *)
NoLeak ==
  phase \in {"orphans", "gateway", "rules", "up"} =>
    \A a \in allocated : \/ \E w \in Workloads : Recorded(w) /\ records[w].addr = a
                         \/ op.at \in Adding /\ op.addr = a

(* Links on the bridge have the addresses of their records, or of the call *)
(* that is making them, once the start-up has removed the orphans.         *)
Endpoints ==
  /\ \A v, w \in Workloads : Bridged(v) /\ Bridged(w) /\ link[v].addr = link[w].addr => v = w
  /\ \A w \in Workloads : Bridged(w) /\ Recorded(w) => link[w].addr = records[w].addr
  /\ phase \in {"gateway", "rules", "up"} =>
       \A w \in Workloads : Bridged(w) => Recorded(w) \/ (op.at \in Linked /\ op.w = w)
  /\ op.at \in Linked /\ Bridged(op.w) => link[op.w].addr = op.addr
  /\ op.at = "attach" /\ HasLink(op.w) => link[op.w].addr = op.addr

(* Who is attached is served, and what a call has done so far is there.    *)
Forwarded ==
  /\ phase = "up" =>
       /\ \A w \in Workloads :
            Recorded(w) /\ HasLink(w) => gateway /\ Mappings(records[w]) \subseteq rules
       /\ op.at \in Adding => gateway
       /\ op.at = "save" => OpMappings \subseteq rules
  /\ phase = "rules" /\ live # {} => gateway

(* Before a first stop every rule belongs to a record or to the call.      *)
NothingElse ==
  crashes = 0 =>
    \A m \in rules : \/ \E w \in Workloads : Recorded(w) /\ m \in Mappings(records[w])
                     \/ op.at \in {"save", "undo rules"} /\ m \in OpMappings

CrashInv == faults = 0 => ~botched /\ NoLeak /\ Endpoints /\ Forwarded /\ NothingElse

(* What is known before a step that does not fail.                         *)
Sound == Base /\ Addressed /\ HostInv

-----------------------------------------------------------------------------
LEMMA NoFailure ==
  ASSUME TypeOK, faults' = 0
  PROVE  ~Fail /\ faults' # faults + 1
BY DEF TypeOK, Fail

LEMMA StartIdle ==
  ASSUME Base, BootStep
  PROVE  op' = op /\ op.at = "idle" /\ phase # "up"
<1>1. op' = op /\ phase # "up"
  BY DEF BootStep, Boot, FlushPeers, AppendPeer, OverlayDone, Unhook, Insert, EgressDone,
         BootFails, Keep, DropStale, RebuildPool, RemoveOrphans, ReinstallGateway,
         ReinstallRules
<1>2. op = Idle
  BY <1>1 DEF Base, Reconciled
<1> QED
  BY <1>1, <1>2 DEF Idle

LEMMA NeverFailed ==
  ASSUME Base, [Next]_vars, faults' = 0
  PROVE  faults = 0
<1>1. faults' = faults \/ faults' = faults + 1
  BY DEF Next, vars, counters, Allocate, AddStep, DeleteStep, BootStep, Refresh, LinkAdd, Attach,
         Publish, Save, UndoRules, UndoLink, UndoAddress, Unlink, ForgetRules, ForgetAddress,
         ForgetRecord, Boot, FlushPeers, AppendPeer, OverlayDone, Unhook, Insert, EgressDone,
         BootFails, Keep, DropStale, RebuildPool, RemoveOrphans, ReinstallGateway,
         ReinstallRules, Add, Delete, ContainerEnds, Crash, Reboot, Halt, Succeed, Fail
<1> QED
  BY <1>1 DEF Base, TypeOK

LEMMA NeverBotched ==
  ASSUME Base, ~botched, [Next]_vars, faults' = 0
  PROVE  ~botched'
<1>1. faults' # faults + 1
  BY NoFailure DEF Base
<1> QED
  BY <1>1, Zenon DEF Next, vars, counters, Allocate, AddStep, DeleteStep, BootStep, Refresh, LinkAdd,
     Attach, Publish, Save, UndoRules, UndoLink, UndoAddress, Unlink, ForgetRules, ForgetAddress,
     ForgetRecord, Boot, FlushPeers, AppendPeer, OverlayDone, Unhook, Insert, EgressDone,
     BootFails, Keep, DropStale, RebuildPool, RemoveOrphans, ReinstallGateway,
     ReinstallRules, Add, Delete, ContainerEnds, Crash, Reboot, Halt, Succeed, Fail

-----------------------------------------------------------------------------
(* Addresses do not leak.                                                  *)

LEMMA CallsDoNotLeak ==
  ASSUME Sound, NoLeak, faults' = 0, Allocate \/ AddStep \/ DeleteStep
  PROVE  NoLeak'
<1> USE DEF Sound, Base
<1>0. ~Fail /\ faults' # faults + 1
  BY NoFailure
<1>1. CASE Allocate
  <2>1. op.at = "allocate" /\ op \in Calls /\ UNCHANGED records
    BY <1>1, CallUnderWay DEF Allocate, Step
  <2>2. phase = "up" /\ phase' = "up"
    BY <2>1, <1>1, CallsInTheirPhase, BootUntouched DEF Allocate
  <2>3. \A a \in allocated : \E w \in Workloads : Recorded(w) /\ records[w].addr = a
    BY <2>1, <2>2 DEF NoLeak, Adding
  <2>4. \/ UNCHANGED allocated
        \/ \E a \in Addresses : /\ allocated' = allocated \cup {a}
                                /\ op' = [op EXCEPT !.at = "link", !.addr = a]
    BY <1>0, <1>1 DEF Allocate
  <2>5. CASE UNCHANGED allocated
    BY <2>1, <2>3, <2>5 DEF NoLeak, Recorded
  <2>6. ASSUME NEW a \in Addresses, allocated' = allocated \cup {a},
               op' = [op EXCEPT !.at = "link", !.addr = a]
        PROVE  NoLeak'
    <3>1. op'.at \in Adding /\ op'.addr = a
      BY <2>1, <2>6 DEF Calls, Adding
    <3> QED
      BY <2>1, <2>3, <2>6, <3>1 DEF NoLeak, Recorded
  <2> QED
    BY <2>4, <2>5, <2>6
<1>2. CASE AddStep
  <2>1. phase = "up" /\ phase' = "up"
    BY <1>2, AdditionGoesOn
  <2>2. CASE Refresh
    <3>1. op.at \notin Adding /\ UNCHANGED <<records, allocated>>
      BY <2>2 DEF Refresh, Step, Adding
    <3> QED
      BY <2>1, <3>1 DEF NoLeak, Recorded
  <2>3. CASE LinkAdd \/ Attach \/ Publish \/ UndoRules \/ UndoLink
    <3>1. UNCHANGED <<records, allocated>>
      BY <2>3 DEF LinkAdd, Attach, Publish, UndoRules, UndoLink
    <3>2. op'.at # "idle"
      <4>1. \E s \in Adding : Goto(s)
        BY <1>0, <2>3 DEF LinkAdd, Attach, Publish, UndoRules, UndoLink, Adding
      <4>2. op \in Calls
        BY <1>2, AdditionGoesOn
      <4> QED
        BY <4>1, <4>2 DEF Goto, Calls, Adding
    <3> QED
      BY <2>1, <3>1, <3>2, <1>2, AdditionGoesOn DEF NoLeak, Recorded
  <2>4. CASE Save
    <3>1. op.at = "save" /\ records' = OpSaved /\ UNCHANGED allocated
      BY <1>0, <2>4 DEF Save, Step
    <3>2. /\ op.w \in Workloads /\ records'[op.w].addr = op.addr /\ op.addr # NoAddress
          /\ \A w \in Workloads \ {op.w} : records'[w] = records[w]
      BY <3>1, <1>2, AdditionGoesOn, SavedIsRecorded DEF OpSaved, TypeOK
    <3>3. ~Recorded(op.w)
      BY <3>1 DEF Addressed, Fresh, Adding
    <3>4. \A w \in Workloads : Recorded(w) => Recorded(w)' /\ records'[w] = records[w]
      BY <3>2, <3>3 DEF Recorded
    <3>5. ASSUME NEW a \in allocated
          PROVE  \E w \in Workloads : records'[w].addr # NoAddress /\ records'[w].addr = a
      <4>1. (\E w \in Workloads : Recorded(w) /\ records[w].addr = a) \/ op.addr = a
        BY <2>1 DEF NoLeak
      <4> QED
        BY <4>1, <3>2, <3>4 DEF Recorded
    <3> QED
      BY <3>1, <3>5 DEF NoLeak, Recorded
  <2>5. CASE UndoAddress
    <3>1. UNCHANGED records /\ allocated' = allocated \ {op.addr}
      BY <1>0, <2>5 DEF UndoAddress
    <3> QED
      BY <2>1, <3>1 DEF NoLeak, Recorded
  <2> QED
    BY <1>2, <2>2, <2>3, <2>4, <2>5 DEF AddStep
<1>3. CASE DeleteStep
  <2>1. op.at \in Removing \cup {"unlink"}
    BY <1>3 DEF DeleteStep, Unlink, ForgetRules, ForgetAddress, ForgetRecord, Step, Removing
  <2>2. /\ op.at \notin Adding /\ op.at # "idle" /\ op.w \in Workloads
        /\ op.addr = records[op.w].addr
    BY <2>1, CallUnderWay DEF Known, OfARecord, Removing, Adding
  <2>3. phase = "up"
    BY <2>2, CallsInTheirPhase
  <2>4. CASE Unlink \/ ForgetRules \/ ForgetAddress
    <3>1. UNCHANGED records /\ allocated' \subseteq allocated
      BY <2>4 DEF Unlink, ForgetRules, ForgetAddress
    <3> QED
      BY <2>2, <2>3, <3>1 DEF NoLeak, Recorded
  <2>5. CASE ForgetRecord
    <3>1. op.at = "forget record" /\ UNCHANGED allocated
          /\ records' = [records EXCEPT ![op.w] = NoRecord]
      BY <1>0, <2>5 DEF ForgetRecord, Step
    <3>2. op.addr \notin allocated
      BY <3>1 DEF Known
    <3>3. \A w \in Workloads \ {op.w} : records'[w] = records[w]
      BY <3>1 DEF TypeOK
    <3>4. \A a \in allocated : \E w \in Workloads \ {op.w} : Recorded(w) /\ records[w].addr = a
      BY <2>2, <2>3, <3>2 DEF NoLeak
    <3>5. \A a \in allocated' : \E w \in Workloads : Recorded(w)' /\ records'[w].addr = a
      BY <3>1, <3>3, <3>4 DEF Recorded
    <3> QED
      BY <3>5 DEF NoLeak
  <2> QED
    BY <1>3, <2>4, <2>5 DEF DeleteStep
<1> QED
  BY <1>1, <1>2, <1>3

LEMMA NothingLeaks ==
  ASSUME Sound, NoLeak, faults' = 0, [Next]_vars
  PROVE  NoLeak'
<1> USE DEF Sound, Base
<1>0. faults' # faults + 1
  BY NoFailure
<1>1. CASE UNCHANGED vars
  BY <1>1 DEF vars, boot, NoLeak, Recorded
<1>2. CASE \E w \in Workloads : Delete(w) \/ \E ps \in SUBSET Ports : Add(w, ps)
  <2>1. op = Idle /\ UNCHANGED <<records, allocated, phase>>
    BY <1>2 DEF Add, Delete, Succeed, boot
  <2>2. op.at \notin Adding
    BY <2>1 DEF Idle, Adding
  <2> QED
    BY <2>1, <2>2 DEF NoLeak, Recorded
<1>3. CASE BootStep
  <2>0. op.at \notin Adding
    BY <1>3, StartIdle DEF Adding
  <2>1. CASE \/ Boot \/ FlushPeers \/ OverlayDone \/ BootFails \/ EgressDone
             \/ \E n \in Peers : AppendPeer(n)
             \/ \E f \in Firewall : Unhook(f) \/ Insert(f)
             \/ \E w \in Workloads : Keep(w) \/ DropStale(w)
    BY <2>1 DEF Boot, FlushPeers, OverlayDone, BootFails, EgressDone, AppendPeer, Unhook, Insert,
                Keep, DropStale, NoLeak
  <2>2. CASE RebuildPool
    BY <1>0, <2>2 DEF RebuildPool, NoLeak, Recorded, Reconciled, TypeOK
  <2>3. CASE RemoveOrphans \/ ReinstallGateway \/ ReinstallRules
    <3>1. UNCHANGED <<records, allocated>> /\ phase \in {"orphans", "gateway", "rules"}
      BY <2>3 DEF RemoveOrphans, ReinstallGateway, ReinstallRules, stores
    <3> QED
      BY <2>0, <3>1 DEF NoLeak, Recorded
  <2> QED
    BY <1>3, <2>1, <2>2, <2>3 DEF BootStep
<1>4. CASE \E w \in Workloads : ContainerEnds(w)
  BY <1>4 DEF ContainerEnds, NoLeak, Recorded, boot
<1>5. CASE Crash \/ Reboot
  BY <1>5 DEF Crash, Reboot, Halt, NoLeak
<1> QED
  BY <1>1, <1>2, <1>3, <1>4, <1>5, CallsDoNotLeak DEF Next

-----------------------------------------------------------------------------
(* Nobody shares an address on the bridge.                                 *)

(* Steps that are not an addition's only take links away.                  *)
FewerLinks == \A w \in Workloads : link'[w] = link[w] \/ link'[w].at = "none"

LEMMA FewerEndpoints ==
  ASSUME Endpoints, FewerLinks, op'.at \notin Linked,
         \A w \in Workloads : Recorded(w)' => records'[w] = records[w],
         phase' \in {"gateway", "rules", "up"} =>
           \A w \in Workloads : Bridged(w)' => Recorded(w)'
  PROVE  Endpoints'
<1>1. \A w \in Workloads : Bridged(w)' => Bridged(w) /\ link'[w] = link[w]
  BY DEF FewerLinks, Bridged
<1>2. \A w \in Workloads : Recorded(w)' => Recorded(w)
  BY DEF Recorded
<1>3. op'.at # "attach"
  BY DEF Linked
<1> QED
  BY <1>1, <1>2, <1>3 DEF Endpoints

(* An addition that does not fail: what becomes of its link.               *)
LEMMA AdditionsLink ==
  ASSUME Sound, Endpoints, faults' = 0, AddStep
  PROVE  Endpoints'
<1> USE DEF Sound, Base
<1>0. ~Fail /\ faults' # faults + 1
  BY NoFailure
<1>1. /\ op \in Calls /\ op.w \in Workloads /\ phase = "up" /\ phase' = "up"
      /\ \/ op' = Idle /\ op'.at = "idle"
         \/ op'.at \in Adding /\ op.at \in Adding /\ op'.addr = op.addr /\ op'.w = op.w
  BY AdditionGoesOn
<1>2. op.at \in Adding => ~Recorded(op.w) /\ \A v \in Workloads : records[v].addr # op.addr
  BY DEF Addressed, Fresh
<1>3. CASE Refresh
  <2>1. UNCHANGED <<records, link>> /\ op' = Idle /\ op.at = "refresh"
    BY <1>3 DEF Refresh, End, Step
  <2> QED
    BY <1>1, <2>1 DEF Endpoints, Linked, Idle, Recorded, HasLink, Bridged
<1>4. CASE LinkAdd
  <2>1. op.at = "link" /\ UNCHANGED records /\ ~Bridged(op.w)
    BY <1>1, <1>2, <1>4 DEF LinkAdd, Step, Endpoints, Adding, Linked
  <2>2. CASE link' = [link EXCEPT ![op.w] = [at |-> "made", addr |-> op.addr]] /\ Goto("attach")
    <3>1. op'.at = "attach" /\ op'.w = op.w /\ op'.addr = op.addr
      BY <1>1, <2>2 DEF Goto, Calls
    <3>2. /\ link'[op.w].at = "made" /\ link'[op.w].addr = op.addr
          /\ \A w \in Workloads \ {op.w} : link'[w] = link[w]
      BY <1>1, <2>2 DEF TypeOK
    <3>3. \A w \in Workloads : Bridged(w)' => Bridged(w) /\ w # op.w /\ link'[w] = link[w]
      BY <3>2 DEF Bridged
    <3> QED
      BY <1>1, <2>1, <3>1, <3>2, <3>3 DEF Endpoints, Linked, Recorded, HasLink, Bridged
  <2>3. CASE UNCHANGED link /\ Goto("undo link")
    <3>1. op'.at = "undo link" /\ op'.w = op.w /\ op'.addr = op.addr
      BY <1>1, <2>3 DEF Goto, Calls
    <3> QED
      BY <1>1, <2>1, <2>3, <3>1 DEF Endpoints, Linked, Recorded, HasLink, Bridged
  <2> QED
    BY <1>0, <1>4, <2>2, <2>3 DEF LinkAdd
<1>5. CASE Attach
  <2>1. op.at = "attach" /\ UNCHANGED records /\ (Goto("publish") \/ Goto("undo link"))
    BY <1>5 DEF Attach, Step
  <2>2. op'.at \in {"publish", "undo link"} /\ op'.w = op.w /\ op'.addr = op.addr
    BY <1>1, <2>1 DEF Goto, Calls
  <2>3. CASE HasLink(op.w) /\ link' = [link EXCEPT ![op.w].at = "bridged"]
    <3>1. /\ link'[op.w].at = "bridged" /\ link'[op.w].addr = op.addr
          /\ \A w \in Workloads \ {op.w} : link'[w] = link[w]
      BY <1>1, <2>1, <2>3 DEF TypeOK, Endpoints
    <3>2. \A w \in Workloads \ {op.w} :
            Bridged(w) => Recorded(w) /\ link[w].addr = records[w].addr /\ link[w].addr # op.addr
      BY <1>1, <1>2, <2>1 DEF Endpoints, Adding
    <3>3. \A w \in Workloads \ {op.w} :
            Bridged(w)' => Bridged(w) /\ Recorded(w)' /\ link'[w] = link[w]
      BY <2>1, <3>1, <3>2 DEF Bridged, Recorded
    <3>4. records'[op.w] = records[op.w] /\ ~(records[op.w].addr # NoAddress)
      BY <1>2, <2>1 DEF Adding, Recorded
    <3>5. \A v, w \in Workloads :
            Bridged(v)' /\ Bridged(w)' /\ link'[v].addr = link'[w].addr => v = w
      BY <3>1, <3>2, <3>3 DEF Endpoints
    <3>6. \A w \in Workloads : Bridged(w)' /\ Recorded(w)' => link'[w].addr = records'[w].addr
      BY <2>1, <3>2, <3>3, <3>4 DEF Recorded
    <3> QED
      BY <2>2, <3>1, <3>3, <3>5, <3>6 DEF Endpoints, Linked
  <2>4. CASE UNCHANGED link
    BY <1>1, <2>1, <2>2, <2>4 DEF Endpoints, Linked, Recorded, HasLink, Bridged
  <2> QED
    BY <1>5, <2>3, <2>4 DEF Attach
<1>6. CASE Publish \/ UndoRules
  <2>1. op.at \in {"publish", "undo rules"} /\ UNCHANGED <<records, link>>
        /\ (Goto("save") \/ Goto("undo link"))
    BY <1>0, <1>6 DEF Publish, UndoRules, Step
  <2>2. op'.at \in {"save", "undo link"} /\ op'.w = op.w /\ op'.addr = op.addr
    BY <1>1, <2>1 DEF Goto, Calls
  <2> QED
    BY <1>1, <2>1, <2>2 DEF Endpoints, Linked, Recorded, HasLink, Bridged
<1>7. CASE Save
  <2>1. op.at = "save" /\ UNCHANGED link /\ op' = Idle /\ records' = OpSaved
    BY <1>0, <1>7 DEF Save, End, Step
  <2>2. /\ records'[op.w].addr = op.addr /\ op.addr # NoAddress
        /\ \A w \in Workloads \ {op.w} : records'[w] = records[w]
    BY <1>1, <2>1, SavedIsRecorded DEF OpSaved, TypeOK
  <2>3. op'.at = "idle"
    BY <2>1 DEF Idle
  <2> QED
    BY <1>1, <2>1, <2>2, <2>3 DEF Endpoints, Linked, Recorded, HasLink, Bridged
<1>8. CASE UndoLink
  <2>1. op.at = "undo link" /\ UNCHANGED records /\ Goto("undo address")
        /\ link' = [link EXCEPT ![op.w] = NoLink]
    BY <1>0, <1>8 DEF UndoLink, Step
  <2>2. op'.at = "undo address"
    BY <1>1, <2>1 DEF Goto, Calls
  <2>3. /\ link'[op.w].at = "none"
        /\ \A w \in Workloads \ {op.w} : link'[w] = link[w]
    BY <1>1, <2>1 DEF TypeOK, NoLink
  <2>4. \A w \in Workloads : Bridged(w)' => Bridged(w) /\ w # op.w /\ link'[w] = link[w]
    BY <2>3 DEF Bridged
  <2>5. \A w \in Workloads : Bridged(w)' => Recorded(w)'
    BY <1>1, <2>1, <2>4 DEF Endpoints, Recorded
  <2>6. FewerLinks
    BY <2>3 DEF FewerLinks
  <2> QED
    BY <2>1, <2>2, <2>5, <2>6, FewerEndpoints DEF Linked, Recorded
<1>9. CASE UndoAddress
  <2>1. UNCHANGED <<records, link>> /\ op' = Idle /\ op.at = "undo address"
    BY <1>9 DEF UndoAddress, End, Step
  <2> QED
    BY <1>1, <2>1 DEF Endpoints, Linked, Idle, Recorded, HasLink, Bridged
<1> QED
  BY <1>3, <1>4, <1>5, <1>6, <1>7, <1>8, <1>9 DEF AddStep

LEMMA EndpointsKept ==
  ASSUME Sound, Endpoints, faults' = 0, [Next]_vars
  PROVE  Endpoints'
<1> USE DEF Sound, Base
<1>0. ~Fail /\ faults' # faults + 1
  BY NoFailure
<1>1. CASE UNCHANGED vars
  BY <1>1 DEF vars, boot, Endpoints, Recorded, Bridged, HasLink
<1>2. CASE AddStep
  BY <1>2, AdditionsLink
<1>3. CASE \/ Allocate \/ DeleteStep
           \/ \E w \in Workloads : Delete(w) \/ \E ps \in SUBSET Ports : Add(w, ps)
  <2>1. op.at \notin Linked /\ phase = "up"
    <3>1. CASE Allocate
      BY <3>1, CallsInTheirPhase DEF Allocate, Step, Linked
    <3>2. CASE DeleteStep
      <4>1. op.at \in Removing \cup {"unlink"}
        BY <3>2 DEF DeleteStep, Unlink, ForgetRules, ForgetAddress, ForgetRecord, Step, Removing
      <4> QED
        BY <4>1, CallsInTheirPhase DEF Removing, Linked
    <3>3. CASE \E w \in Workloads : Delete(w) \/ \E ps \in SUBSET Ports : Add(w, ps)
      <4>1. op = Idle /\ phase = "up"
        BY <3>3 DEF Delete, Add
      <4> QED
        BY <4>1 DEF Idle, Linked
    <3> QED
      BY <1>3, <3>1, <3>2, <3>3
  <2>2. \A w \in Workloads : Bridged(w) => Recorded(w)
    BY <2>1 DEF Endpoints
  <2>3. op'.at \notin Linked
    <3>1. CASE Allocate
      <4>1. op \in Calls
        BY <3>1, CallUnderWay DEF Allocate, Step
      <4>2. op' = Idle \/ \E a \in Addresses : op' = [op EXCEPT !.at = "link", !.addr = a]
        BY <3>1 DEF Allocate, End
      <4>3. op' = Idle => op'.at = "idle"
        BY DEF Idle
      <4>4. op'.at \in {"idle", "link"}
        BY <4>1, <4>2, <4>3 DEF Calls
      <4> QED
        BY <4>4 DEF Linked
    <3>2. CASE DeleteStep
      <4>1. op.at \in Removing \cup {"unlink"}
        BY <3>2 DEF DeleteStep, Unlink, ForgetRules, ForgetAddress, ForgetRecord, Step, Removing
      <4>2. op \in Calls
        BY <4>1, CallUnderWay DEF Removing
      <4>3. \/ op' = Idle \/ op' = Call("allocate", "add", op.w, NoAddress, op.ports)
            \/ Goto("forget rules") \/ Goto("forget address") \/ Goto("forget record")
        BY <3>2 DEF DeleteStep, Unlink, ForgetRules, ForgetAddress, ForgetRecord, End
      <4>4. op'.at \in {"idle", "allocate", "forget rules", "forget address", "forget record"}
        <5>1. CASE op' = Idle
          BY <5>1 DEF Idle
        <5>2. CASE op' = Call("allocate", "add", op.w, NoAddress, op.ports)
          BY <5>2 DEF Call
        <5>3. CASE Goto("forget rules") \/ Goto("forget address") \/ Goto("forget record")
          BY <4>2, <5>3 DEF Goto, Calls
        <5> QED
          BY <4>3, <5>1, <5>2, <5>3
      <4> QED
        BY <4>4 DEF Linked
    <3>3. CASE \E w \in Workloads : Delete(w) \/ \E ps \in SUBSET Ports : Add(w, ps)
      <4>1. PICK w \in Workloads : Delete(w) \/ \E ps \in SUBSET Ports : Add(w, ps)
        BY <3>3
      <4>2. CASE op' = Call("unlink", "delete", w, records[w].addr, records[w].ports)
        BY <4>2 DEF Call, Linked
      <4>3. ASSUME NEW at \in {"allocate", "refresh", "forget rules"}, NEW a, NEW ps,
                   op' = Call(at, "add", w, a, ps)
            PROVE  op'.at \notin Linked
        BY <4>3 DEF Call, Linked
      <4> QED
        BY <4>1, <4>2, <4>3 DEF Delete, Add
    <3> QED
      BY <1>3, <3>1, <3>2, <3>3
  <2>4. CASE UNCHANGED <<records, link>>
    BY <2>2, <2>3, <2>4, FewerEndpoints DEF FewerLinks, Recorded, Bridged
  <2>5. CASE Unlink
    <3>1. UNCHANGED records /\ op.w \in Workloads
          /\ (link' = link \/ link' = [link EXCEPT ![op.w] = NoLink])
      BY <2>5, CallUnderWay DEF Unlink, Step
    <3>2. FewerLinks
      BY <3>1 DEF FewerLinks, NoLink, TypeOK
    <3> QED
      BY <2>2, <2>3, <3>1, <3>2, FewerEndpoints DEF FewerLinks, Recorded, Bridged
  <2>6. CASE ForgetRecord
    <3>1. op.at = "forget record" /\ UNCHANGED link /\ op.w \in Workloads
          /\ records' = [records EXCEPT ![op.w] = NoRecord]
      BY <1>0, <2>6, CallUnderWay DEF ForgetRecord, Step
    <3>2. ~HasLink(op.w)
      BY <3>1 DEF Known, Removing
    <3>3. \A w \in Workloads : w # op.w => records'[w] = records[w]
      BY <3>1 DEF TypeOK
    <3>4. records'[op.w].addr = NoAddress
      BY <3>1 DEF TypeOK, NoRecord
    <3>5. \A w \in Workloads : Bridged(w)' => Bridged(w) /\ w # op.w
      BY <3>1, <3>2 DEF Bridged, HasLink
    <3>6. \A w \in Workloads : Recorded(w)' => records'[w] = records[w]
      BY <3>3, <3>4 DEF Recorded
    <3>7. \A w \in Workloads : Bridged(w)' => Recorded(w)'
      BY <2>2, <3>3, <3>5 DEF Recorded
    <3> QED
      BY <2>3, <3>1, <3>6, <3>7, FewerEndpoints DEF FewerLinks
  <2> QED
    BY <1>3, <2>4, <2>5, <2>6 DEF Allocate, DeleteStep, ForgetRules, ForgetAddress, Add, Delete
<1>4. CASE BootStep
  <2>1. op'.at \notin Linked
    BY <1>4, StartIdle DEF Linked
  <2>2. CASE \/ Boot \/ FlushPeers \/ OverlayDone \/ BootFails \/ EgressDone \/ RebuildPool
             \/ \E n \in Peers : AppendPeer(n)
             \/ \E f \in Firewall : Unhook(f) \/ Insert(f)
             \/ \E w \in Workloads : Keep(w)
    <3>1. UNCHANGED <<records, link>> /\ phase' \notin {"gateway", "rules", "up"}
      BY <2>2 DEF Boot, FlushPeers, OverlayDone, BootFails, EgressDone, RebuildPool, AppendPeer,
                  Unhook, Insert, Keep, stores
    <3> QED
      BY <2>1, <3>1, FewerEndpoints DEF FewerLinks
  <2>3. CASE \E w \in Workloads : DropStale(w)
    <3>1. PICK w \in Workloads : DropStale(w)
      BY <2>3
    <3>2. UNCHANGED link /\ phase' = "records" /\ records' = [records EXCEPT ![w] = NoRecord]
      BY <1>0, <3>1 DEF DropStale
    <3>3. \A v \in Workloads : Recorded(v)' => records'[v] = records[v]
      BY <3>2 DEF Recorded, NoRecord, TypeOK
    <3> QED
      BY <2>1, <3>2, <3>3, FewerEndpoints DEF FewerLinks
  <2>4. CASE RemoveOrphans
    <3>1. /\ UNCHANGED <<records, live>> /\ phase = "orphans"
          /\ link' = [w \in Workloads |-> IF Bridged(w) /\ w \notin live THEN NoLink ELSE link[w]]
      BY <1>0, <2>4 DEF RemoveOrphans
    <3>2. FewerLinks
      BY <3>1 DEF FewerLinks, NoLink
    <3>3. \A w \in Workloads : Bridged(w)' => w \in live
      BY <3>1 DEF Bridged, NoLink
    <3> QED
      BY <2>1, <3>1, <3>2, <3>3, FewerEndpoints DEF Reconciled, Recorded
  <2>5. CASE ReinstallGateway \/ ReinstallRules
    <3>1. UNCHANGED <<records, link>> /\ phase \in {"gateway", "rules"}
      BY <2>5 DEF ReinstallGateway, ReinstallRules, stores
    <3>2. op.at = "idle"
      BY <1>4, StartIdle
    <3>3. \A w \in Workloads : Bridged(w) => Recorded(w)
      BY <3>1, <3>2 DEF Endpoints, Linked
    <3> QED
      BY <2>1, <3>1, <3>3, FewerEndpoints DEF FewerLinks, Bridged, Recorded
  <2> QED
    BY <1>4, <2>2, <2>3, <2>4, <2>5 DEF BootStep
<1>5. CASE \E w \in Workloads : ContainerEnds(w)
  <2>1. PICK w \in Workloads : ContainerEnds(w)
    BY <1>5
  <2>2. /\ UNCHANGED <<records, op, phase>>
        /\ link'[w].at = "none" /\ \A v \in Workloads \ {w} : link'[v] = link[v]
    BY <2>1 DEF ContainerEnds, boot, NoLink, TypeOK
  <2>3. \A v \in Workloads : /\ Bridged(v)' => Bridged(v) /\ link'[v] = link[v]
                             /\ HasLink(v)' => HasLink(v) /\ link'[v] = link[v]
    BY <2>2 DEF Bridged, HasLink
  <2>4. op.at \in Linked => op.w \in Workloads
    BY CallUnderWay DEF Linked
  <2>5. "attach" \in Linked
    BY DEF Linked
  <2> QED
    BY <2>2, <2>3, <2>4, <2>5 DEF Endpoints, Recorded
<1>6. CASE Crash \/ Reboot
  <2>1. op'.at = "idle" /\ UNCHANGED records /\ phase' = "down"
    BY <1>6 DEF Crash, Reboot, Halt, Idle
  <2>2. FewerLinks
    BY <1>6 DEF Crash, Reboot, FewerLinks, NoLink
  <2> QED
    BY <2>1, <2>2, FewerEndpoints DEF Linked
<1> QED
  BY <1>1, <1>2, <1>3, <1>4, <1>5, <1>6 DEF Next

-----------------------------------------------------------------------------
(* Attached workloads are served, and nobody else.                         *)

Served(w) == gateway /\ Mappings(records[w]) \subseteq rules

LEMMA OpMappingsOfARecord ==
  ASSUME Base, op.at \in OfARecord
  PROVE  /\ OpMappings = Mappings(records[op.w])
         /\ Recorded(op.w)
BY DEF Base, Known, OpMappings, Mappings

(* The rules a call takes back are its own workload's.                     *)
LEMMA RulesOfOthers ==
  ASSUME Sound, op.at \in OfARecord \cup Adding, NEW w \in Workloads, w # op.w, Recorded(w)
  PROVE  Mappings(records[w]) \cap OpMappings = {}
<1>1. op.w \in Workloads
  BY CallUnderWay DEF Sound, Base, OfARecord, Removing, Adding
<1>2. records[w].addr # op.addr
  BY <1>1 DEF Sound, Base, Known, Addressed, Held, Fresh
<1> QED
  BY <1>2 DEF Mappings, OpMappings

LEMMA AdditionForwards ==
  ASSUME Sound, Forwarded, faults' = 0, AddStep, UNCHANGED gateway
  PROVE  Forwarded'
<1> USE DEF Sound, Base
<1>0. ~Fail /\ faults' # faults + 1
  BY NoFailure
<1>1. /\ op \in Calls /\ op.w \in Workloads /\ phase = "up" /\ phase' = "up"
      /\ op.at \in Adding \cup {"refresh"}
      /\ \/ op' = Idle /\ op'.at = "idle"
         \/ op'.at \in Adding /\ op.at \in Adding /\ op'.addr = op.addr /\ op'.w = op.w
  BY AdditionGoesOn
<1>2. op.at \in Adding => ~Recorded(op.w) /\ gateway
  BY <1>1 DEF Addressed, Fresh, Forwarded
<1>3. op'.at \in Adding => gateway'
  BY <1>1, <1>2 DEF Adding
<1>4. ASSUME op'.at # "save",
             \A w \in Workloads : Recorded(w)' /\ HasLink(w)' => Served(w)'
      PROVE  Forwarded'
  BY <1>1, <1>3, <1>4 DEF Forwarded, Served
<1>5. CASE Refresh
  <2>1. UNCHANGED <<records, link>> /\ op' = Idle /\ rules' = rules \cup OpMappings
    BY <1>0, <1>5 DEF Refresh, End
  <2> QED
    BY <1>1, <1>4, <2>1 DEF Forwarded, Served, Idle, Recorded, HasLink
<1>6. CASE LinkAdd \/ Attach \/ UndoLink
  <2>1. /\ UNCHANGED <<records, rules>> /\ op.at \in Adding
        /\ (Goto("attach") \/ Goto("publish") \/ Goto("undo link") \/ Goto("undo address"))
    BY <1>6 DEF LinkAdd, Attach, UndoLink, Step, Adding
  <2>2. op'.at # "save"
    BY <1>1, <2>1 DEF Goto, Calls
  <2>3. \A w \in Workloads \ {op.w} : link'[w] = link[w]
    BY <1>6, <1>1 DEF LinkAdd, Attach, UndoLink, TypeOK
  <2> QED
    BY <1>1, <1>2, <1>4, <2>1, <2>2, <2>3 DEF Forwarded, Served, Recorded, HasLink
<1>7. CASE Publish
  <2>1. UNCHANGED <<records, link>> /\ Goto("save") /\ rules' = rules \cup OpMappings
    BY <1>0, <1>7 DEF Publish
  <2>2. OpMappings' = OpMappings
    BY <1>1, <2>1 DEF Goto, Calls, OpMappings, Mappings
  <2>3. \A w \in Workloads : Recorded(w)' /\ HasLink(w)' => Served(w)'
    BY <1>1, <2>1 DEF Forwarded, Served, Recorded, HasLink
  <2> QED
    BY <1>1, <1>3, <2>1, <2>2, <2>3 DEF Forwarded, Served
<1>8. CASE Save
  <2>1. op.at = "save" /\ UNCHANGED <<link, rules>> /\ op' = Idle /\ records' = OpSaved
    BY <1>0, <1>8 DEF Save, End, Step
  <2>2. /\ records'[op.w] = [addr |-> op.addr, ports |-> op.ports]
        /\ \A w \in Workloads \ {op.w} : records'[w] = records[w]
    BY <1>1, <2>1 DEF OpSaved, TypeOK
  <2>3. Mappings(records'[op.w]) = OpMappings
    <3>1. records'[op.w].addr = op.addr /\ records'[op.w].ports = op.ports
      BY <2>2
    <3> QED
      BY <3>1 DEF Mappings, OpMappings
  <2>4. OpMappings \subseteq rules /\ gateway
    BY <1>1, <1>2, <2>1 DEF Forwarded, Adding
  <2>5. \A w \in Workloads \ {op.w} : Recorded(w)' /\ HasLink(w)' => Served(w)'
    BY <1>1, <2>1, <2>2 DEF Forwarded, Served, Recorded, HasLink
  <2>6. gateway' /\ Mappings(records'[op.w]) \subseteq rules'
    BY <2>1, <2>3, <2>4
  <2>7. \A w \in Workloads : Recorded(w)' /\ HasLink(w)' => Served(w)'
    BY <1>1, <2>5, <2>6 DEF Served
  <2> QED
    BY <1>4, <2>1, <2>7 DEF Idle
<1>9. CASE UndoRules
  <2>1. UNCHANGED <<records, link>> /\ Goto("undo link") /\ rules' = rules \ OpMappings
        /\ op.at = "undo rules"
    BY <1>0, <1>9 DEF UndoRules, Step
  <2>2. op'.at # "save"
    BY <1>1, <2>1 DEF Goto, Calls
  <2>3. \A w \in Workloads : Recorded(w) /\ HasLink(w) => Served(w) /\ w # op.w
    BY <1>1, <1>2, <2>1 DEF Forwarded, Served, Adding
  <2>4. \A w \in Workloads : Recorded(w) /\ HasLink(w) => Mappings(records[w]) \cap OpMappings = {}
    BY <2>1, <2>3, RulesOfOthers DEF Adding
  <2> QED
    BY <1>4, <2>1, <2>2, <2>3, <2>4 DEF Served, Recorded, HasLink
<1>10. CASE UndoAddress
  <2>1. UNCHANGED <<records, link, rules>> /\ op' = Idle
    BY <1>10 DEF UndoAddress, End
  <2> QED
    BY <1>1, <1>4, <2>1 DEF Forwarded, Served, Idle, Recorded, HasLink
<1> QED
  BY <1>5, <1>6, <1>7, <1>8, <1>9, <1>10 DEF AddStep

LEMMA RemovalForwards ==
  ASSUME Sound, Forwarded, faults' = 0, DeleteStep, UNCHANGED gateway
  PROVE  Forwarded'
<1> USE DEF Sound, Base
<1>0. ~Fail /\ faults' # faults + 1
  BY NoFailure
<1>1. op.at \in Removing \cup {"unlink"}
  BY DEF DeleteStep, Unlink, ForgetRules, ForgetAddress, ForgetRecord, Step, Removing
<1>2. op.at # "idle" /\ op \in Calls /\ op.w \in Workloads /\ op.at \in OfARecord
  BY <1>1, CallUnderWay DEF Removing, OfARecord
<1>3. phase = "up"
  BY <1>2, CallsInTheirPhase
<1>4. phase' = "up"
  <2>1. Succeed \/ Fail \/ UNCHANGED boot
    BY DEF DeleteStep, Unlink, ForgetRules, ForgetAddress, ForgetRecord
  <2> QED
    BY <1>3, <2>1 DEF Succeed, Fail, boot
<1>5. op'.at \notin Adding
  <2>1. \/ op' = Idle \/ op' = Call("allocate", "add", op.w, NoAddress, op.ports)
        \/ Goto("forget rules") \/ Goto("forget address") \/ Goto("forget record")
    BY DEF DeleteStep, Unlink, ForgetRules, ForgetAddress, ForgetRecord, End
  <2>2. CASE op' = Idle
    BY <2>2 DEF Idle, Adding
  <2>3. CASE op' = Call("allocate", "add", op.w, NoAddress, op.ports)
    BY <2>3 DEF Call, Adding
  <2>4. CASE Goto("forget rules") \/ Goto("forget address") \/ Goto("forget record")
    BY <1>2, <2>4 DEF Goto, Calls, Adding
  <2> QED
    BY <2>1, <2>2, <2>3, <2>4
<1>6. \A w \in Workloads : Recorded(w) /\ HasLink(w) => Served(w)
  BY <1>3 DEF Forwarded, Served
<1>7. ASSUME \A w \in Workloads : Recorded(w)' /\ HasLink(w)' => Served(w)'
      PROVE  Forwarded'
  <2>1. op'.at # "save"
    BY <1>5 DEF Adding
  <2> QED
    BY <1>4, <1>5, <1>7, <2>1 DEF Forwarded, Served
<1>8. CASE Unlink
  <2>1. UNCHANGED <<records, rules>> /\ (link' = link \/ link' = [link EXCEPT ![op.w] = NoLink])
    BY <1>8 DEF Unlink
  <2>2. \A w \in Workloads : HasLink(w)' => HasLink(w)
    <3>1. CASE link' = [link EXCEPT ![op.w] = NoLink]
      <4>1. \A w \in Workloads : link'[w] = NoLink \/ link'[w] = link[w]
        BY <3>1 DEF TypeOK
      <4> QED
        BY <4>1 DEF HasLink, NoLink
    <3> QED
      BY <2>1, <3>1 DEF HasLink
  <2> QED
    BY <1>6, <1>7, <2>1, <2>2 DEF Served, Recorded
<1>9. CASE ForgetRules
  <2>1. UNCHANGED <<records, link>> /\ op.at = "forget rules" /\ rules' = rules \ OpMappings
    BY <1>0, <1>9 DEF ForgetRules, Step
  <2>2. ~HasLink(op.w)
    BY <2>1 DEF Known, Removing
  <2>3. \A w \in Workloads : Recorded(w) /\ HasLink(w) => Mappings(records[w]) \cap OpMappings = {}
    BY <1>2, <2>2, RulesOfOthers
  <2> QED
    BY <1>6, <1>7, <2>1, <2>3 DEF Served, Recorded, HasLink
<1>10. CASE ForgetAddress
  <2>1. UNCHANGED <<records, link, rules>>
    BY <1>10 DEF ForgetAddress
  <2> QED
    BY <1>6, <1>7, <2>1 DEF Served, Recorded, HasLink
<1>11. CASE ForgetRecord
  <2>1. UNCHANGED <<link, rules>> /\ records' = [records EXCEPT ![op.w] = NoRecord]
    BY <1>0, <1>11 DEF ForgetRecord
  <2>2. /\ records'[op.w].addr = NoAddress
        /\ \A w \in Workloads \ {op.w} : records'[w] = records[w]
    BY <1>2, <2>1 DEF NoRecord, TypeOK
  <2> QED
    BY <1>6, <1>7, <2>1, <2>2 DEF Served, Recorded, HasLink
<1> QED
  BY <1>8, <1>9, <1>10, <1>11 DEF DeleteStep

LEMMA ForwardedKept ==
  ASSUME Sound, Forwarded, faults' = 0, [Next]_vars
  PROVE  Forwarded'
<1> USE DEF Sound, Base
<1>0. ~Fail /\ faults' # faults + 1
  BY NoFailure
<1>1. CASE UNCHANGED vars
  BY <1>1 DEF vars, boot, Forwarded, Recorded, HasLink, OpMappings
<1>2. CASE Allocate
  <2>1. op.at = "allocate" /\ op \in Calls /\ UNCHANGED <<records, link, rules>>
    BY <1>2, CallUnderWay DEF Allocate, Step
  <2>2. phase = "up" /\ phase' = "up"
    BY <2>1, <1>2, CallsInTheirPhase, BootUntouched DEF Allocate
  <2>3. gateway => gateway'
    BY <1>2, Zenon DEF Allocate, EnsureVlan
  <2>4. \/ op' = Idle
        \/ gateway' /\ \E a \in Addresses : op' = [op EXCEPT !.at = "link", !.addr = a]
    BY <1>2, Zenon DEF Allocate, EnsureVlan, End
  <2>5. op'.at \in Adding => gateway' /\ op'.at = "link"
    <3>1. op' = Idle => op'.at = "idle"
      BY DEF Idle
    <3>2. ASSUME NEW a \in Addresses, op' = [op EXCEPT !.at = "link", !.addr = a]
          PROVE  op'.at = "link"
      BY <2>1, <3>2 DEF Calls
    <3>3. "idle" \notin Adding
      BY DEF Adding
    <3> QED
      BY <2>4, <3>1, <3>2, <3>3
  <2>6. op'.at # "save"
    BY <2>5 DEF Adding
  <2>7. \A w \in Workloads : Recorded(w)' /\ HasLink(w)' => Served(w)'
    BY <2>1, <2>2, <2>3 DEF Forwarded, Served, Recorded, HasLink
  <2> QED
    BY <2>2, <2>5, <2>6, <2>7 DEF Forwarded, Served
<1>3. CASE AddStep /\ UNCHANGED gateway
  BY <1>3, AdditionForwards
<1>4. CASE DeleteStep /\ UNCHANGED gateway
  BY <1>4, RemovalForwards
<1>5. CASE \E w \in Workloads :
             (Delete(w) \/ \E ps \in SUBSET Ports : Add(w, ps)) /\ UNCHANGED gateway
  <2>1. phase = "up" /\ phase' = "up" /\ UNCHANGED <<records, link, rules, gateway>>
    BY <1>5 DEF Add, Delete, Succeed, boot
  <2>2. op'.at \notin Adding
    <3>1. PICK w \in Workloads : Delete(w) \/ \E ps \in SUBSET Ports : Add(w, ps)
      BY <1>5
    <3>2. CASE op' = Call("unlink", "delete", w, records[w].addr, records[w].ports)
      BY <3>2 DEF Call, Adding
    <3>3. ASSUME NEW at \in {"allocate", "refresh", "forget rules"}, NEW a, NEW ps,
                 op' = Call(at, "add", w, a, ps)
          PROVE  op'.at \notin Adding
      BY <3>3 DEF Call, Adding
    <3> QED
      BY <3>1, <3>2, <3>3 DEF Delete, Add
  <2>3. op'.at # "save"
    BY <2>2 DEF Adding
  <2> QED
    BY <2>1, <2>2, <2>3 DEF Forwarded, Recorded, HasLink
<1>6. CASE BootStep
  <2>1. op'.at = "idle" /\ op'.at \notin Adding
    BY <1>6, StartIdle DEF Adding
  <2>2. CASE \/ Boot \/ FlushPeers \/ OverlayDone \/ BootFails \/ EgressDone \/ RebuildPool
             \/ RemoveOrphans
             \/ \E n \in Peers : AppendPeer(n)
             \/ \E f \in Firewall : Unhook(f) \/ Insert(f)
             \/ \E w \in Workloads : Keep(w) \/ DropStale(w)
    <3>1. phase' \notin {"rules", "up"}
      BY <2>2 DEF Boot, FlushPeers, OverlayDone, BootFails, EgressDone, RebuildPool, RemoveOrphans,
                  AppendPeer, Unhook, Insert, Keep, DropStale
    <3> QED
      BY <3>1 DEF Forwarded
  <2>3. CASE ReinstallGateway
    <3>1. phase' = "rules" /\ live' = live
      BY <2>3 DEF ReinstallGateway
    <3>2. live # {} => gateway'
      BY <1>0, <2>3, Zenon DEF ReinstallGateway, EnsureVlan
    <3> QED
      BY <3>1, <3>2 DEF Forwarded
  <2>4. CASE ReinstallRules
    <3>1. /\ phase = "rules" /\ phase' = "up" /\ UNCHANGED <<records, link, gateway>>
          /\ rules' = rules \cup UNION {Mappings(records[w]) : w \in live}
      BY <1>0, <2>4 DEF ReinstallRules, host
    <3>2. \A w \in Workloads : Recorded(w) => w \in live
      BY <3>1 DEF Addressed, Sorted
    <3>3. \A w \in live : gateway' /\ Mappings(records[w]) \subseteq rules'
      BY <3>1 DEF Forwarded
    <3>4. \A w \in Workloads : Recorded(w)' => Served(w)'
      BY <3>1, <3>2, <3>3 DEF Served, Recorded
    <3> QED
      BY <2>1, <3>1, <3>4 DEF Forwarded, Served
  <2> QED
    BY <1>6, <2>2, <2>3, <2>4 DEF BootStep
<1>7. CASE \E w \in Workloads : ContainerEnds(w)
  <2>1. UNCHANGED <<records, rules, phase, live, gateway, op>>
    BY <1>7 DEF ContainerEnds, boot
  <2>2. \A w \in Workloads : HasLink(w)' => HasLink(w)
    BY <1>7 DEF ContainerEnds, HasLink, NoLink, TypeOK
  <2>3. OpMappings' = OpMappings
    BY <2>1 DEF OpMappings
  <2> QED
    BY <2>1, <2>2, <2>3 DEF Forwarded, Recorded
<1>8. CASE Crash \/ Reboot
  BY <1>8 DEF Crash, Reboot, Halt, Forwarded
<1> QED
  BY <1>1, <1>2, <1>3, <1>4, <1>5, <1>6, <1>7, <1>8 DEF Next

-----------------------------------------------------------------------------
(* Until a first stop.                                                     *)

OfSomeRecord(m) == \E w \in Workloads : Recorded(w) /\ m \in Mappings(records[w])

LEMMA FirstLife ==
  ASSUME Base, [Next]_vars, crashes' = 0
  PROVE  crashes = 0 /\ ~Crash /\ ~Reboot
<1>1. crashes' = crashes \/ (crashes' = crashes + 1 /\ crashes \in Nat)
  BY DEF Next, vars, counters, Allocate, AddStep, DeleteStep, BootStep, Refresh, LinkAdd, Attach,
         Publish, Save, UndoRules, UndoLink, UndoAddress, Unlink, ForgetRules, ForgetAddress,
         ForgetRecord, Boot, FlushPeers, AppendPeer, OverlayDone, Unhook, Insert, EgressDone,
         BootFails, Keep, DropStale, RebuildPool, RemoveOrphans, ReinstallGateway,
         ReinstallRules, Add, Delete, ContainerEnds, Crash, Reboot, Halt, Succeed, Fail,
         Base, TypeOK
<1>2. crashes' # crashes + 1
  BY DEF Base, TypeOK
<1> QED
  BY <1>1, <1>2 DEF Crash, Reboot, Halt

LEMMA NothingElseForwarded ==
  ASSUME Sound, NothingElse, faults' = 0, [Next]_vars
  PROVE  NothingElse'
<1> SUFFICES ASSUME crashes' = 0, NEW m \in rules'
             PROVE  OfSomeRecord(m)' \/ (op'.at \in {"save", "undo rules"} /\ m \in OpMappings')
  BY DEF NothingElse, OfSomeRecord
<1> USE DEF Sound, Base
<1>0. ~Fail /\ faults' # faults + 1
  BY NoFailure
<1>1. /\ ~Crash /\ ~Reboot
      /\ m \in rules => OfSomeRecord(m) \/ (op.at \in {"save", "undo rules"} /\ m \in OpMappings)
  BY FirstLife DEF NothingElse, OfSomeRecord
<1>2. CASE UNCHANGED <<records, rules>> /\ op.at \notin {"save", "undo rules"}
  BY <1>1, <1>2 DEF OfSomeRecord, Recorded
<1>3. CASE UNCHANGED vars
  BY <1>1, <1>3 DEF vars, OfSomeRecord, Recorded, OpMappings
<1>4. CASE Allocate \/ LinkAdd \/ Attach \/ UndoLink \/ UndoAddress \/ Unlink \/ ForgetAddress
           \/ \E w \in Workloads : Delete(w) \/ \E ps \in SUBSET Ports : Add(w, ps)
  <2>1. UNCHANGED <<records, rules>>
    BY <1>4 DEF Allocate, LinkAdd, Attach, UndoLink, UndoAddress, Unlink, ForgetAddress, Delete, Add
  <2>2. CASE \E w \in Workloads : Delete(w) \/ \E ps \in SUBSET Ports : Add(w, ps)
    <3>1. op = Idle
      BY <2>2 DEF Delete, Add
    <3> QED
      BY <1>2, <2>1, <3>1 DEF Idle
  <2>3. CASE Allocate \/ LinkAdd \/ Attach \/ UndoLink \/ UndoAddress \/ Unlink \/ ForgetAddress
    <3>1. op.at \notin {"save", "undo rules"}
      BY <2>3 DEF Allocate, LinkAdd, Attach, UndoLink, UndoAddress, Unlink, ForgetAddress, Step
    <3> QED
      BY <1>2, <2>1, <3>1
  <2> QED
    BY <1>4, <2>2, <2>3
<1>5. CASE \E w \in Workloads : ContainerEnds(w)
  BY <1>1, <1>5 DEF ContainerEnds, OfSomeRecord, Recorded, OpMappings
<1>6. CASE Refresh
  <2>1. UNCHANGED records /\ op.at = "refresh" /\ rules' = rules \cup OpMappings
    BY <1>0, <1>6 DEF Refresh, Step
  <2>2. OpMappings = Mappings(records[op.w]) /\ Recorded(op.w) /\ op.w \in Workloads
    BY <2>1, OpMappingsOfARecord, CallUnderWay DEF OfARecord
  <2>3. OfSomeRecord(m)
    BY <1>1, <2>1, <2>2 DEF OfSomeRecord
  <2> QED
    BY <2>1, <2>3 DEF OfSomeRecord, Recorded
<1>7. CASE Publish
  <2>1. UNCHANGED records /\ op.at = "publish" /\ Goto("save") /\ rules' = rules \cup OpMappings
    BY <1>0, <1>7 DEF Publish, Step
  <2>2. op'.at = "save" /\ op'.addr = op.addr /\ op'.ports = op.ports
    BY <2>1, CallUnderWay DEF Goto, Calls
  <2>3. OpMappings' = OpMappings
    BY <2>2 DEF OpMappings, Mappings
  <2> QED
    BY <1>1, <2>1, <2>2, <2>3 DEF OfSomeRecord, Recorded
<1>8. CASE Save
  <2>1. op.at = "save" /\ UNCHANGED rules /\ records' = OpSaved
    BY <1>0, <1>8 DEF Save, Step
  <2>2. op.w \in Workloads /\ op.addr \in Addresses /\ ~Recorded(op.w)
    BY <2>1, CallUnderWay, OpMappingTypes DEF Addressed, Fresh, Adding
  <2>3. /\ records'[op.w] = [addr |-> op.addr, ports |-> op.ports]
        /\ \A w \in Workloads \ {op.w} : records'[w] = records[w]
    BY <2>1, <2>2 DEF OpSaved, TypeOK
  <2>4. records'[op.w].addr = op.addr /\ records'[op.w].ports = op.ports
    BY <2>3
  <2>5. Mappings(records'[op.w]) = OpMappings /\ records'[op.w].addr # NoAddress
    BY <2>2, <2>4, NoAddressIsNone DEF Mappings, OpMappings
  <2>6. CASE m \in OpMappings
    BY <2>2, <2>5, <2>6 DEF OfSomeRecord, Recorded
  <2>7. CASE OfSomeRecord(m)
    BY <2>2, <2>3, <2>7 DEF OfSomeRecord, Recorded
  <2> QED
    BY <1>1, <2>1, <2>6, <2>7
<1>9. CASE UndoRules \/ ForgetRules
  <2>1. UNCHANGED records /\ rules' = rules \ OpMappings
    BY <1>0, <1>9 DEF UndoRules, ForgetRules
  <2> QED
    BY <1>1, <2>1 DEF OfSomeRecord, Recorded
<1>10. CASE ForgetRecord
  <2>1. op.at = "forget record" /\ UNCHANGED rules /\ records' = [records EXCEPT ![op.w] = NoRecord]
    BY <1>0, <1>10 DEF ForgetRecord, Step
  <2>2. m \notin Mappings(records[op.w])
    BY <2>1, OpMappingsOfARecord DEF Known, OfARecord, Removing
  <2>3. \A w \in Workloads \ {op.w} : records'[w] = records[w]
    BY <2>1 DEF TypeOK
  <2> QED
    BY <1>1, <2>1, <2>2, <2>3 DEF OfSomeRecord, Recorded
<1>11. CASE BootStep
  <2>1. op' = op /\ op.at = "idle"
    BY <1>11, StartIdle
  <2>2. CASE \E w \in Workloads : DropStale(w)
    <3>1. PICK w \in Workloads : DropStale(w)
      BY <2>2
    <3>2. /\ rules' = rules \ Mappings(records[w])
          /\ records' = [records EXCEPT ![w] = NoRecord]
      BY <1>0, <3>1 DEF DropStale
    <3>3. \A v \in Workloads \ {w} : records'[v] = records[v]
      BY <3>2 DEF TypeOK
    <3> QED
      BY <1>1, <2>1, <3>2, <3>3 DEF OfSomeRecord, Recorded
  <2>3. CASE ReinstallRules
    <3>1. UNCHANGED records /\ rules' = rules \cup UNION {Mappings(records[w]) : w \in live}
      BY <1>0, <2>3 DEF ReinstallRules
    <3>2. m \in rules \/ \E w \in live : m \in Mappings(records[w])
      BY <3>1
    <3>3. OfSomeRecord(m)
      BY <1>1, <2>1, <3>2 DEF OfSomeRecord, Reconciled, TypeOK
    <3> QED
      BY <3>1, <3>3 DEF OfSomeRecord, Recorded
  <2>4. CASE \/ Boot \/ FlushPeers \/ OverlayDone \/ BootFails \/ EgressDone \/ RebuildPool
             \/ RemoveOrphans \/ ReinstallGateway
             \/ \E n \in Peers : AppendPeer(n)
             \/ \E f \in Firewall : Unhook(f) \/ Insert(f)
             \/ \E w \in Workloads : Keep(w)
    <3>1. UNCHANGED <<records, rules>>
      BY <2>4 DEF Boot, FlushPeers, OverlayDone, BootFails, EgressDone, RebuildPool, RemoveOrphans,
                  ReinstallGateway, AppendPeer, Unhook, Insert, Keep, stores
    <3> QED
      BY <1>2, <2>1, <3>1
  <2> QED
    BY <1>11, <2>2, <2>3, <2>4 DEF BootStep
<1> QED
  BY <1>1, <1>3, <1>4, <1>5, <1>6, <1>7, <1>8, <1>9, <1>10, <1>11
     DEF Next, AddStep, DeleteStep

-----------------------------------------------------------------------------
LEMMA CrashInitially ==
  ASSUME Init
  PROVE  CrashInv
<1>1. ~botched /\ NoLeak /\ NothingElse
  BY DEF Init, NoLeak, NothingElse
<1>2. Endpoints
  BY DEF Init, Endpoints, Bridged, HasLink, NoLink, Idle, Linked
<1>3. Forwarded
  BY DEF Init, Forwarded
<1> QED
  BY <1>1, <1>2, <1>3 DEF CrashInv

LEMMA CrashKept ==
  ASSUME Base, HostInv, AddressInv, CrashInv, [Next]_vars
  PROVE  CrashInv'
<1> SUFFICES ASSUME faults' = 0
             PROVE  (~botched /\ NoLeak /\ Endpoints /\ Forwarded /\ NothingElse)'
  BY DEF CrashInv
<1>1. ~botched /\ NoLeak /\ Endpoints /\ Forwarded /\ NothingElse
  BY NeverFailed DEF CrashInv
<1>2. Sound
  BY <1>1 DEF Sound, AddressInv
<1> QED
  BY <1>1, <1>2, NeverBotched, NothingLeaks, EndpointsKept, ForwardedKept, NothingElseForwarded

(* Stops and reboots alone, however many and wherever they fall, leave the *)
(* four stores in agreement (reconcile, and the order of the steps of      *)
(* add_workload_network and delete_workload_network).                      *)
THEOREM CrashInvariant == Spec => []CrashInv
<1>1. Init => CrashInv /\ HostInv /\ AddressInv
  BY CrashInitially, AddressedInitially DEF Init, HostInv, Starting
<1>2. Base /\ CrashInv /\ HostInv /\ AddressInv /\ [Next]_vars
        => CrashInv' /\ HostInv' /\ AddressInv'
  BY CrashKept, HostKept, AddressesKept
<1> QED
  BY <1>1, <1>2, BaseInvariant, PTL DEF Spec

(* They never put two interfaces with one address on the bridge.           *)
THEOREM NoSharedEndpoints == Spec => []EndpointsDistinct
<1>1. CrashInv => EndpointsDistinct
  BY DEF CrashInv, Endpoints, EndpointsDistinct
<1> QED
  BY <1>1, CrashInvariant, PTL

(* They never leak an address: between calls the pool is what the records  *)
(* name.                                                                   *)
THEOREM PoolMatchesRecords == Spec => []NoAddressLeaks
<1>1. CrashInv /\ AddressInv => NoAddressLeaks
  <2> SUFFICES ASSUME CrashInv, AddressInv, Quiet, faults = 0
               PROVE  allocated = {records[w].addr : w \in {v \in Workloads : Recorded(v)}}
    BY DEF NoAddressLeaks
  <2>1. phase = "up" /\ op.at = "idle"
    BY DEF Quiet, Idle
  <2>2. Held /\ NoLeak
    BY DEF CrashInv, AddressInv, Addressed
  <2>3. \A a \in allocated : \E w \in Workloads : Recorded(w) /\ records[w].addr = a
    BY <2>1, <2>2 DEF NoLeak, Adding
  <2>4. \A w \in Workloads : Recorded(w) => records[w].addr \in allocated
    BY <2>1, <2>2 DEF Held, Releasing
  <2> QED
    BY <2>3, <2>4
<1>2. Init => AddressInv
  BY AddressedInitially
<1>3. Base /\ AddressInv /\ [Next]_vars => AddressInv'
  BY AddressesKept
<1> QED
  BY <1>1, <1>2, <1>3, BaseInvariant, CrashInvariant, PTL DEF Spec

(* Whoever is on record and attached has its gateway and its ports, and    *)
(* until a first stop nothing else is forwarded.                           *)
THEOREM PortsAsRecorded == Spec => []PublishedExactly
<1>1. CrashInv /\ HostInv => PublishedExactly
  <2> SUFFICES ASSUME CrashInv, HostInv, Quiet, faults = 0
               PROVE  PublishedExactly
    BY DEF PublishedExactly
  <2>1. phase = "up" /\ op.at = "idle"
    BY DEF Quiet, Idle
  <2>2. Forwarded /\ NothingElse
    BY DEF CrashInv
  <2>3. \A w \in Workloads : Recorded(w) /\ HasLink(w) => gateway /\ Mappings(records[w]) \subseteq rules
    BY <2>1, <2>2 DEF Forwarded
  <2>4. "nat jump" \in firewall
    BY <2>1 DEF HostInv, Starting, Firewall, Jumps
  <2>5. crashes = 0 => \A m \in rules : \E w \in Workloads : Recorded(w) /\ m \in Mappings(records[w])
    BY <2>1, <2>2 DEF NothingElse
  <2> QED
    BY <2>3, <2>4, <2>5 DEF PublishedExactly
<1>2. Init => HostInv
  BY DEF Init, HostInv, Starting
<1>3. Base /\ HostInv /\ [Next]_vars => HostInv'
  BY HostKept
<1> QED
  BY <1>1, <1>2, <1>3, BaseInvariant, CrashInvariant, PTL DEF Spec
=============================================================================
