--------------------------- MODULE WorkloadNetwork ---------------------------
(***************************************************************************)
(* The CNI daemon of one node: it gives a container an address, a veth     *)
(* pair on the bridge and forwarding rules for its host ports, remembers   *)
(* it in a record, and takes it all back.                                  *)
(*                                                                         *)
(* One call runs at a time (operation_lock) and changes four stores that   *)
(* know nothing of each other: the records and the address pool, files     *)
(* that survive everything; the links and the iptables rules, which        *)
(* survive the daemon but not the machine.  The daemon can stop between    *)
(* any two changes, and a change can fail.  When it starts again it first  *)
(* makes sure of what the node's workloads share, the overlay and the      *)
(* firewall's chains, and reconciles the four stores before the first call.*)
(*                                                                         *)
(* Simplifications:                                                        *)
(*  - one VLAN: pools of different VLANs have different directories and    *)
(*    ranges, and records, links, gateways and rules are handled alike;    *)
(*  - the pool hands out any free address, where the code takes the lowest;*)
(*  - the two iptables rules of a mapping are one, and so are the chains   *)
(*    they are in; the rules of the forward chain come and go as one, and  *)
(*    so do a gateway's interface, address and masquerading rule;          *)
(*  - the bridge can be made, and its settings are set without a failure;  *)
(*  - a file write that fails has changed the file or not: it is renamed  *)
(*    into place, then the directory is synced;                            *)
(*  - ip, bridge and iptables can be started, though they may fail; records*)
(*    can be read.                                                         *)
(***************************************************************************)
EXTENDS Naturals, FiniteSets

CONSTANTS
  Workloads,    \* (workload, instance, network) keys: one per container
  Addresses,    \* what the node's pool can hand out
  NoAddress,    \* the address of a workload that has none
  Ports,        \* host ports
  Peers,        \* the other nodes of the overlay
  MaxCrashes,   \* bound: how often the daemon or the machine stops
  MaxFaults     \* bound: how often a command or a file operation fails

ASSUME NoAddressIsNone == NoAddress \notin Addresses

VARIABLES
  records,     \* records[w]: the saved address and mapped ports of w
  allocated,   \* the pool's allocated addresses
  link,        \* link[w]: w's host interface, and the address behind it
  rules,       \* the forwarding rules: address and host port
  phase,       \* "down", a step of the start-up, or "up"
  todo,        \* what this step of the start-up has yet to look at
  live,        \* workloads it found to have a record and a link
  firewall,    \* what is there of the firewall's fixed part
  peers,       \* nodes that the overlay sends to
  gateway,     \* the VLAN has its gateway on this node
  op,          \* the call that is under way, and its next step
  crashes,     \* stops so far
  faults,      \* failures so far
  botched      \* history: a record outlived its address

boot == <<phase, todo, live, firewall, peers>>
counters == <<crashes, faults, botched>>
vars == <<records, allocated, link, rules, boot, gateway, op, counters>>
stores == <<records, allocated, link, rules>>
host == <<firewall, peers, gateway>>

MaybeAddresses == Addresses \cup {NoAddress}
NoRecord == [addr |-> NoAddress, ports |-> {}]
NoLink == [at |-> "none", addr |-> NoAddress]
Idle == [at |-> "idle"]

(* The jumps from the kernel's chains to the daemon's: to the chain of the *)
(* forwarding rules, and to the one whose rules keep tenants apart.        *)
Jumps == {"nat jump", "filter jump"}
Firewall == Jumps \cup {"filter rules"}

Recorded(w) == records[w].addr # NoAddress
HasLink(w) == link[w].at # "none"
Bridged(w) == link[w].at = "bridged"
Mappings(r) == [addr: {r.addr}, port: r.ports]

Init ==
  /\ records = [w \in Workloads |-> NoRecord]
  /\ allocated = {}
  /\ link = [w \in Workloads |-> NoLink]
  /\ rules = {}
  /\ phase = "down"
  /\ todo = {}
  /\ live = {}
  /\ firewall = {}
  /\ peers = {}
  /\ gateway = FALSE
  /\ op = Idle
  /\ crashes = 0
  /\ faults = 0
  /\ botched = FALSE

-----------------------------------------------------------------------------
(* How a call goes on.                                                     *)

Step(s) == op.at = s
Goto(s) == op' = [op EXCEPT !.at = s]
End == op' = Idle

Succeed == UNCHANGED <<boot, counters>>
Fail ==
  /\ faults < MaxFaults
  /\ faults' = faults + 1
  /\ UNCHANGED <<boot, crashes, botched>>

Call(at, kind, w, addr, ports) ==
  [at |-> at, kind |-> kind, w |-> w, addr |-> addr, ports |-> ports]
OpMappings == Mappings(op)

-----------------------------------------------------------------------------
(* add_workload_network.                                                   *)

(* What is on record decides.  A record with other settings is refused, as *)
(* is a port that another record uses, and nothing changes.                *)
Add(w, ports) ==
  /\ phase = "up" /\ op = Idle
  /\ \/ ~Recorded(w) /\ op' = Call("allocate", "add", w, NoAddress, ports)
     \/ /\ Recorded(w) /\ records[w].ports = ports
        /\ op' = Call(IF HasLink(w) THEN "refresh" ELSE "forget rules",
                      "add", w, records[w].addr, ports)
  /\ UNCHANGED <<records, allocated, link, rules>>
  /\ Succeed

(* Attached already: the forwarding rules are made sure of.  A failure     *)
(* takes back those that were passed, found or added.                      *)
Refresh ==
  /\ Step("refresh")
  /\ UNCHANGED <<records, allocated, link>>
  /\ \/ rules' = rules \cup OpMappings /\ End /\ Succeed
     \/ \E passed \in SUBSET OpMappings \ {OpMappings} :
          rules' = rules \ passed /\ End /\ Fail

PortUsed(port) == \E w \in Workloads : port \in records[w].ports

AllocateUnbounded ==
  /\ Step("allocate")
  /\ UNCHANGED <<records, link, rules, gateway>>
  /\ \E a \in MaybeAddresses \ allocated :
       /\ allocated' = allocated \cup {a}
       /\ op' = [op EXCEPT !.at = "link", !.addr = a]
       /\ Succeed

EnsureVlan == gateway' = TRUE

(* The VLAN is set up and an address taken.  If a port is used, the VLAN   *)
(* cannot be set up or the pool is exhausted, the call ends.               *)
Allocate ==
  /\ Step("allocate")
  /\ UNCHANGED <<records, link, rules>>
  /\ \/ /\ \E port \in op.ports : PortUsed(port)
        /\ End /\ Succeed
        /\ UNCHANGED <<allocated, gateway>>
     \/ /\ \A port \in op.ports : ~PortUsed(port)
        /\ \/ /\ \E a \in Addresses \ allocated :
                  /\ allocated' = allocated \cup {a}
                  /\ op' = [op EXCEPT !.at = "link", !.addr = a]
              /\ EnsureVlan /\ Succeed
           \/ /\ allocated = Addresses
              /\ EnsureVlan /\ End /\ Succeed
              /\ UNCHANGED allocated
           \/ /\ \/ /\ EnsureVlan
                    /\ \E a \in Addresses : allocated' \in {allocated, allocated \cup {a}}
                 \/ UNCHANGED <<allocated, gateway>>
              /\ End /\ Fail

LinkAdd ==
  /\ Step("link")
  /\ UNCHANGED <<records, allocated, rules>>
  /\ \/ /\ ~HasLink(op.w)
        /\ link' = [link EXCEPT ![op.w] = [at |-> "made", addr |-> op.addr]]
        /\ Goto("attach") /\ Succeed
     \/ HasLink(op.w) /\ Goto("undo link") /\ Succeed /\ UNCHANGED link
     \/ Goto("undo link") /\ Fail /\ UNCHANGED link

(* The pair is moved, addressed and put on the bridge; the container can   *)
(* be gone by now, or go meanwhile.                                        *)
Attach ==
  /\ Step("attach")
  /\ UNCHANGED <<records, allocated, rules>>
  /\ \/ /\ HasLink(op.w)
        /\ link' = [link EXCEPT ![op.w].at = "bridged"]
        /\ Goto("publish") \/ Goto("undo link")
     \/ Goto("undo link") /\ UNCHANGED link
  /\ Succeed

(* add_mappings takes back what it added before it fails.                  *)
Publish ==
  /\ Step("publish")
  /\ UNCHANGED <<records, allocated, link>>
  /\ \/ rules' = rules \cup OpMappings /\ Goto("save") /\ Succeed
     \/ \E passed \in SUBSET op.ports \ {op.ports} :
          /\ rules' = rules \cup [addr: {op.addr}, port: passed]
          /\ op' = [op EXCEPT !.at = "undo rules", !.ports = passed]
          /\ Fail

OpSaved == [records EXCEPT ![op.w] = [addr |-> op.addr, ports |-> op.ports]]

(* A write that fails after the record is in place leaves it there, while  *)
(* the rest is undone.                                                     *)
Save ==
  /\ Step("save")
  /\ UNCHANGED <<allocated, link, rules, boot, crashes>>
  /\ \/ records' = OpSaved /\ End /\ UNCHANGED <<faults, botched>>
     \/ /\ faults < MaxFaults
        /\ faults' = faults + 1
        /\ Goto("undo rules")
        /\ \/ UNCHANGED <<records, botched>>
           \/ records' = OpSaved /\ botched' = TRUE

(* A failed addition is undone; what cannot be undone stays.               *)
UndoRules ==
  /\ Step("undo rules")
  /\ UNCHANGED <<records, allocated, link>>
  /\ \/ rules' = rules \ OpMappings /\ Succeed
     \/ \E gone \in SUBSET OpMappings \ {OpMappings} : rules' = rules \ gone /\ Fail
  /\ Goto("undo link")

UndoLinkOnly ==
  /\ Step("undo link")
  /\ UNCHANGED <<records, allocated, rules>>
  /\ link' = [link EXCEPT ![op.w] = NoLink]
  /\ End /\ Succeed

UndoLink ==
  /\ Step("undo link")
  /\ UNCHANGED <<records, allocated, rules>>
  /\ \/ link' = [link EXCEPT ![op.w] = NoLink] /\ Succeed
     \/ HasLink(op.w) /\ UNCHANGED link /\ Fail
  /\ Goto("undo address")

UndoAddress ==
  /\ Step("undo address")
  /\ UNCHANGED <<records, link, rules>>
  /\ \/ allocated' = allocated \ {op.addr} /\ Succeed
     \/ allocated' \in {allocated, allocated \ {op.addr}} /\ Fail
  /\ End

-----------------------------------------------------------------------------
(* delete_workload_network; a workload without a record is done with.      *)
Delete(w) ==
  /\ phase = "up" /\ op = Idle
  /\ Recorded(w)
  /\ op' = Call("unlink", "delete", w, records[w].addr, records[w].ports)
  /\ UNCHANGED <<records, allocated, link, rules>>
  /\ Succeed

Unlink ==
  /\ Step("unlink")
  /\ UNCHANGED <<records, allocated, rules>>
  /\ \/ link' = [link EXCEPT ![op.w] = NoLink] /\ Goto("forget rules") /\ Succeed
     \/ HasLink(op.w) /\ End /\ Fail /\ UNCHANGED link

(* The rest is shared with an addition that finds a record whose link is   *)
(* gone.  Each step that fails ends the call and leaves the later ones to  *)
(* the next.                                                               *)
ForgetRulesOfNone ==
  Step("forget rules") /\ Goto("forget address") /\ Succeed
  /\ UNCHANGED <<records, allocated, link, rules>>

ForgetRules ==
  /\ Step("forget rules")
  /\ UNCHANGED <<records, allocated, link>>
  /\ \/ rules' = rules \ OpMappings /\ Goto("forget address") /\ Succeed
     \/ \E gone \in SUBSET OpMappings \ {OpMappings} : rules' = rules \ gone /\ End /\ Fail

ForgetAddressRegardless ==
  /\ Step("forget address")
  /\ UNCHANGED <<records, link, rules>>
  /\ \/ allocated' = allocated \ {op.addr} /\ Succeed
     \/ allocated' \in {allocated, allocated \ {op.addr}} /\ Fail
  /\ Goto("forget record")

ForgetAddress ==
  /\ Step("forget address")
  /\ UNCHANGED <<records, link, rules, boot, crashes>>
  /\ \/ /\ allocated' = allocated \ {op.addr}
        /\ Goto("forget record")
        /\ UNCHANGED <<faults, botched>>
     \/ /\ faults < MaxFaults
        /\ faults' = faults + 1
        /\ End
        /\ \/ UNCHANGED <<allocated, botched>>
           \/ allocated' = allocated \ {op.addr} /\ botched' = TRUE

ForgetRecord ==
  /\ Step("forget record")
  /\ UNCHANGED <<allocated, link, rules, boot, crashes>>
  /\ \/ /\ records' = [records EXCEPT ![op.w] = NoRecord]
        /\ op' = IF op.kind = "add" THEN Call("allocate", "add", op.w, NoAddress, op.ports)
                 ELSE Idle
        /\ UNCHANGED <<faults, botched>>
     \/ /\ faults < MaxFaults
        /\ faults' = faults + 1
        /\ End
        /\ \/ records' = [records EXCEPT ![op.w] = NoRecord] /\ UNCHANGED botched
           \/ botched' = TRUE /\ UNCHANGED records

-----------------------------------------------------------------------------
(* run: the bridge is there or made, then ensure_overlay, ensure_egress    *)
(* and reconcile.                                                          *)

Boot ==
  /\ phase = "down"
  /\ phase' = "overlay"
  /\ UNCHANGED <<stores, todo, live, host, op, counters>>

(* ensure_overlay: all destinations are removed, then each is added again; *)
(* a node without peers has nothing to do.                                 *)
FlushPeers ==
  /\ phase = "overlay"
  /\ phase' = "peers"
  /\ peers' = {}
  /\ UNCHANGED <<stores, todo, live, firewall, gateway, op, counters>>

AppendPeer(n) ==
  /\ phase = "peers"
  /\ n \in Peers \ peers
  /\ peers' = peers \cup {n}
  /\ UNCHANGED <<stores, phase, todo, live, firewall, gateway, op, counters>>

OverlayDone ==
  /\ phase = "peers" /\ peers = Peers
  /\ phase' = "egress"
  /\ todo' = Firewall
  /\ UNCHANGED <<stores, live, host, op, counters>>

(* ensure_jump: a jump that is there is deleted, to be inserted first.     *)
Unhook(f) ==
  /\ phase = "egress"
  /\ f \in todo \cap firewall \cap Jumps
  /\ firewall' = firewall \ {f}
  /\ UNCHANGED <<stores, phase, todo, live, peers, gateway, op, counters>>

(* The rules of the forward chain come last, and stay if they are there.   *)
Insert(f) ==
  /\ phase = "egress" /\ f \in todo
  /\ IF f \in Jumps THEN f \notin firewall ELSE todo = {f}
  /\ firewall' = firewall \cup {f}
  /\ todo' = todo \ {f}
  /\ UNCHANGED <<stores, phase, live, peers, gateway, op, counters>>

EgressDone ==
  /\ phase = "egress" /\ todo = {}
  /\ phase' = "records"
  /\ todo' = {w \in Workloads : Recorded(w)}
  /\ UNCHANGED <<stores, live, host, op, counters>>

GoOnWithout ==
  /\ phase \in {"overlay", "peers", "egress"}
  /\ phase' = "records"
  /\ todo' = {w \in Workloads : Recorded(w)}
  /\ faults < MaxFaults /\ faults' = faults + 1
  /\ UNCHANGED <<stores, live, host, op, crashes, botched>>

(* A command that fails ends the daemon, which is started again.           *)
BootFails ==
  /\ phase \in {"overlay", "peers", "egress"}
  /\ phase' = "down"
  /\ todo' = {}
  /\ faults < MaxFaults /\ faults' = faults + 1
  /\ UNCHANGED <<stores, live, host, op, crashes, botched>>

(* drop_stale_records: a record is kept if its link is there.              *)
Keep(w) ==
  /\ phase = "records"
  /\ w \in todo
  /\ HasLink(w)
  /\ todo' = todo \ {w}
  /\ live' = live \cup {w}
  /\ UNCHANGED <<records, allocated, link, rules, phase, host, op, counters>>

(* Otherwise its rules and the record are removed, or not: a failure is    *)
(* only logged.                                                            *)
DropStale(w) ==
  /\ phase = "records"
  /\ w \in todo
  /\ ~HasLink(w)
  /\ todo' = todo \ {w}
  /\ \/ /\ rules' = rules \ Mappings(records[w])
        /\ records' = [records EXCEPT ![w] = NoRecord]
        /\ UNCHANGED <<faults, botched>>
     \/ /\ faults < MaxFaults
        /\ faults' = faults + 1
        /\ \/ /\ \E gone \in SUBSET Mappings(records[w]) : rules' = rules \ gone
              /\ records' = [records EXCEPT ![w] = NoRecord]
              /\ UNCHANGED botched
           \/ /\ rules' = rules \ Mappings(records[w])
              /\ botched' = TRUE
              /\ UNCHANGED records
  /\ UNCHANGED <<allocated, link, phase, live, host, op, crashes>>

RebuildPoolEmpty ==
  /\ phase = "records" /\ todo = {}
  /\ phase' = "orphans"
  /\ allocated' = {}
  /\ UNCHANGED <<records, link, rules, todo, live, host, op, counters>>

(* rebuild_ip_pools: only what a live record names stays allocated.        *)
RebuildPool ==
  /\ phase = "records" /\ todo = {}
  /\ phase' = "orphans"
  /\ \/ allocated' = {records[w].addr : w \in live} /\ UNCHANGED faults
     \/ UNCHANGED allocated /\ faults < MaxFaults /\ faults' = faults + 1
  /\ UNCHANGED <<records, link, rules, todo, live, host, op, crashes, botched>>

LeaveOrphans ==
  /\ phase = "orphans"
  /\ phase' = "gateway"
  /\ UNCHANGED <<records, allocated, link, rules, todo, live, host, op, counters>>

(* remove_orphan_interfaces: links on the bridge that no live record names. *)
RemoveOrphans ==
  /\ phase = "orphans"
  /\ phase' = "gateway"
  /\ LET orphans == {w \in Workloads : Bridged(w) /\ w \notin live}
     IN  \/ /\ link' = [w \in Workloads |-> IF w \in orphans THEN NoLink ELSE link[w]]
            /\ UNCHANGED faults
         \/ \E left \in SUBSET orphans \ {{}} :
              /\ link' = [w \in Workloads |-> IF w \in orphans \ left THEN NoLink ELSE link[w]]
              /\ faults < MaxFaults /\ faults' = faults + 1
  /\ UNCHANGED <<records, allocated, rules, todo, live, host, op, crashes, botched>>

(* reinstall_vlan_networking, for the VLANs of live records; a failure is  *)
(* only logged.                                                            *)
ReinstallGateway ==
  /\ phase = "gateway"
  /\ phase' = "rules"
  /\ \/ live # {} /\ EnsureVlan /\ UNCHANGED faults
     \/ live = {} /\ UNCHANGED <<gateway, faults>>
     \/ live # {} /\ UNCHANGED gateway /\ faults < MaxFaults /\ faults' = faults + 1
  /\ UNCHANGED <<stores, todo, live, firewall, peers, op, crashes, botched>>

(* reinstall_port_mappings; then the socket is bound.                      *)
ReinstallRules ==
  /\ phase = "rules"
  /\ phase' = "up"
  /\ LET wanted == UNION {Mappings(records[w]) : w \in live}
     IN  \/ rules' = rules \cup wanted /\ UNCHANGED faults
         \/ \E missed \in SUBSET wanted \ {{}} :
              /\ rules' = (rules \cup wanted) \ missed
              /\ faults < MaxFaults /\ faults' = faults + 1
  /\ todo' = {}
  /\ live' = {}
  /\ UNCHANGED <<records, allocated, link, host, op, crashes, botched>>

-----------------------------------------------------------------------------
(* The world around the daemon.                                            *)

(* A container ends and its namespace takes the pair along.                *)
ContainerEnds(w) ==
  /\ HasLink(w)
  /\ link' = [link EXCEPT ![w] = NoLink]
  /\ UNCHANGED <<records, allocated, rules, boot, gateway, op, counters>>

Halt ==
  /\ phase # "down"
  /\ crashes < MaxCrashes
  /\ crashes' = crashes + 1
  /\ phase' = "down"
  /\ todo' = {}
  /\ live' = {}
  /\ op' = Idle
  /\ UNCHANGED <<records, allocated, faults, botched>>

Crash == Halt /\ UNCHANGED <<link, rules, host>>

Reboot ==
  /\ Halt
  /\ link' = [w \in Workloads |-> NoLink]
  /\ rules' = {}
  /\ firewall' = {} /\ peers' = {} /\ gateway' = FALSE

-----------------------------------------------------------------------------
AddStep ==
  \/ Refresh
  \/ LinkAdd
  \/ Attach
  \/ Publish
  \/ Save
  \/ UndoRules
  \/ UndoLink
  \/ UndoAddress

DeleteStep == Unlink \/ ForgetRules \/ ForgetAddress \/ ForgetRecord

BootStep ==
  \/ Boot
  \/ FlushPeers
  \/ \E n \in Peers : AppendPeer(n)
  \/ OverlayDone
  \/ \E f \in Firewall : Unhook(f) \/ Insert(f)
  \/ EgressDone
  \/ BootFails
  \/ \E w \in Workloads : Keep(w) \/ DropStale(w)
  \/ RebuildPool
  \/ RemoveOrphans
  \/ ReinstallGateway
  \/ ReinstallRules

Next ==
  \/ Allocate
  \/ (AddStep \/ DeleteStep) /\ UNCHANGED gateway
  \/ BootStep
  \/ \E w \in Workloads : ContainerEnds(w)
  \/ \E w \in Workloads :
       (Delete(w) \/ \E s \in SUBSET Ports : Add(w, s)) /\ UNCHANGED gateway
  \/ Crash
  \/ Reboot

Spec == Init /\ [][Next]_vars

-----------------------------------------------------------------------------
Steps == {"refresh", "allocate", "link", "attach", "publish", "save", "undo rules",
          "undo link", "undo address", "unlink", "forget rules", "forget address",
          "forget record"}
Calls == [at: Steps, kind: {"add", "delete"}, w: Workloads, addr: MaybeAddresses,
          ports: SUBSET Ports]

TypeOK ==
  /\ records \in [Workloads -> [addr: MaybeAddresses, ports: SUBSET Ports]]
  /\ allocated \in SUBSET Addresses
  /\ link \in [Workloads -> [at: {"none", "made", "bridged"}, addr: MaybeAddresses]]
  /\ rules \in SUBSET [addr: Addresses, port: Ports]
  /\ phase \in {"down", "overlay", "peers", "egress", "records", "orphans", "gateway",
                "rules", "up"}
  /\ todo \in SUBSET IF phase = "egress" THEN Firewall ELSE Workloads
  /\ firewall \in SUBSET Firewall /\ peers \in SUBSET Peers /\ gateway \in BOOLEAN
  /\ live \in SUBSET Workloads
  /\ op \in Calls \cup {Idle}
  /\ crashes \in Nat
  /\ faults \in Nat
  /\ botched \in BOOLEAN

Quiet == phase = "up" /\ op = Idle

(* Through crashes, failing commands and retries: no two records name one  *)
(* host port, though the port is checked when the call starts and recorded *)
(* when it ends (port_is_used), nor one address, and the address of a      *)
(* workload that is attached is allocated, as is every recorded one        *)
(* between calls, so that nobody else is given it.  Excepted, of the       *)
(* addresses, is a record that outlives its own, because a file operation  *)
(* failed: the record could not be removed, the address was released       *)
(* although the release failed, or a failed addition was saved.            *)
AllocationsHeld ==
  /\ \A v, w \in Workloads : v # w => records[v].ports \cap records[w].ports = {}
  /\ ~botched =>
    /\ \A v, w \in Workloads :
         Recorded(v) /\ Recorded(w) /\ records[v].addr = records[w].addr => v = w
    /\ \A w \in Workloads :
         Recorded(w) /\ (HasLink(w) \/ Quiet) => records[w].addr \in allocated

(* Crashes alone never put two interfaces with one address on the bridge:  *)
(* the orphan of an interrupted addition is gone before its address is     *)
(* handed out again (rebuild_ip_pools, remove_orphan_interfaces).          *)
EndpointsDistinct ==
  faults = 0 =>
    \A v, w \in Workloads : Bridged(v) /\ Bridged(w) /\ link[v].addr = link[w].addr => v = w

(* Nor do they leak an address: between calls the pool holds what the      *)
(* records name and no more, whatever call was refused, undone or cut off. *)
NoAddressLeaks ==
  Quiet /\ faults = 0 => allocated = {records[w].addr : w \in {v \in Workloads : Recorded(v)}}

(* A workload that is on record and attached has its gateway, and its ports*)
(* are forwarded by rules the kernel comes to, however often and wherever  *)
(* the daemon was stopped or the machine rebooted.  Until a first crash    *)
(* nothing else is forwarded, so that a port that is free again leads      *)
(* nowhere.                                                                *)
PublishedExactly ==
  LET wanted(W) == UNION {Mappings(records[w]) : w \in W}
  IN  Quiet /\ faults = 0 =>
        /\ wanted({w \in Workloads : Recorded(w) /\ HasLink(w)}) \subseteq rules
        /\ "nat jump" \in firewall
        /\ (\E w \in Workloads : Recorded(w) /\ HasLink(w)) => gateway
        /\ crashes = 0 => rules \subseteq wanted({w \in Workloads : Recorded(w)})

(* "Routed traffic between tenant VLAN interfaces must never be allowed":   *)
(* whatever failed and wherever a start-up was cut off, once the daemon    *)
(* looks at its records it has hooked the rules that keep tenants apart,   *)
(* and the overlay reaches every peer.  (While ensure_egress is at work,   *)
(* and after one that was cut off until the next, the jump can be missing.)*)
HostIsReady ==
  phase \notin {"down", "overlay", "peers", "egress"} =>
    {"filter jump", "filter rules"} \subseteq firewall /\ peers = Peers

(* A call gives up a record only when nothing is left to give back: its    *)
(* link is gone, its ports are closed and its address is free, whatever    *)
(* failed in the calls before ("Keep the record if IPAM release fails so a *)
(* retry can recover it").                                                 *)
ForgottenEntirely ==
  [][phase = "up" => \A w \in Workloads :
       Recorded(w) /\ ~Recorded(w)' =>
         /\ ~HasLink(w)'
         /\ Mappings(records[w]) \cap rules' = {}
         /\ records[w].addr \notin allocated']_vars
=============================================================================
