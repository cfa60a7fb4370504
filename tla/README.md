# Barenetes in TLA+

TLA+ specifications of the Barenetes cluster (API server, scheduler, node agent,
CNI daemon, and the certificates they trust each other by), the TLC
configurations that check them on small instances, and theorems about them that
TLAPS checks for every value of the constants.

Definitions keep the names of the source where TLA+ allows it; `PROJECT.json`
maps each of them to its lines and lists the runs, the mutants (a plausible bug
for every checked property, which the property finds), the hazards and the
theorems.

    tlc -config PodStore.cfg MCPodStore.tla       # model-check one instance
    tlapm PodStoreProofs.tla                      # check one module's proofs

## The system

| Component | State | Operations | Talks to |
|---|---|---|---|
| **API server: pods** (`api/src/store.rs`, `handlers/*`) | pod records, in etcd or in a map behind a lock | CreatePod, DeletePod, AssignPod, UpdatePodStatus, reads | pod feed (broadcast channel) to schedulers; desired-state channel per node to agents |
| **API server: nodes** (`store.rs`, `service.rs`) | node records, `node_watchers` counts, `node_op_lock` | register, a stream opens, a stream is dropped (teardown in a spawned task), boot reset | node feed to schedulers |
| **API server: desired-state streams** (`store.rs`, `handlers/agent.rs`, `service.rs`) | one bounded broadcast channel per watched node | snapshot, subscribe, publish RUN/STOP, lag, disconnect | agents |
| **Scheduler** (`scheduler/src/main.rs`, `schedulers/basic.rs`) | node view, placements, claims and ports per node, `pending`; all of it in memory | `watch_nodes`, `watch_pods`, retry sweeps, rescheduling of orphans; a restart when a watch ends, then a snapshot per watch | AssignPod; both feeds |
| **Agent: desired-state loop** (`agent/src/desired_state.rs`) | the stream | register, watch, apply RUN and STOP one at a time, report | API server, its own Kubelet |
| **Agent: Kubelet** (`agent/src/kubelet.rs`, `vlan.rs`, `cni.rs`, `cgroup.rs`, `containerd.rs`) | pod→VLAN map in memory and in `vlans.json`; a cgroup per pod; containers and snapshots in containerd | ApplyPod, DeletePod, roll back | containerd, CNI daemon |
| **CNI daemon** (`cni/src`) | workload records and IP pools (files), veth links, iptables rules, overlay peers, gateway; `operation_lock` | set up overlay, chains and gateways, reconcile at start; add, get, delete a workload network | kernel |
| **TLS identities and role checks** (`proto/src/tls*.rs`) | what each process has loaded | identity and role of a peer, role of an RPC; no TLS at all if no file is named | every server and client |
| **Certificates** (`pki`, `barectl-config`, `deploy/*.sh`) | CA and issued pairs on the control plane, copies on the workers, `agent.env`, the user's config file | init-ca, issue, barectl-config, install, purge; services load their files when they start | the file system, systemd |
| barectl (`barectl/src`) | its config file | `config set`; otherwise one RPC per command | API server |

What makes the system hard, and what correctness means for each part:

* **Pods.** With etcd every call is several round trips. Reads, transactions and
  deletes of concurrent calls interleave, and a call can be cancelled between
  them. No update may be lost, no removed pod may come back, and the events must
  agree with what is stored.
* **Nodes.** READY must mean "has an open stream", although statuses live in
  etcd and streams in memory, the teardown of a stream runs late, writes are
  interrupted and the server restarts.
* **Streams.** Snapshot, subscription and publication are separate steps; a
  channel overflows; streams break. An agent must nevertheless be told what is
  assigned to its node.
* **Scheduler.** Two loops share one state whose lock is released across every
  RPC; a sweep runs one task per pod. No pod may run twice, no node may be
  overbooked, no claim may leak, and the loops must not chase their own writes.
  What it knows it loses with every restart, while its last requests may still
  be on their way.
* **Kubelet.** An apply is a dozen requests to two daemons, any of which can
  fail, and the agent can stop anywhere, also in the middle of writing its file.
  A pod keeps its VLAN, no two pods share one, and an apply leaves exactly its
  containers under exactly its limits, or nothing.
* **CNI daemon.** Four stores that know nothing of each other must agree after
  failing commands, failing undos, crashes and reboots: no address is given to
  two workloads, none leaks, ports are forwarded exactly while they are held, and
  nobody is served before the rules that keep tenants apart are in place.
* **Certificates.** A caller without TLS passes every role check, and TLS is off
  when no file is named: an identity must never be lost on the way from the CA
  to a running process, half-written pairs must not be used, and a certificate
  must entitle its holder to its own role and node only.

## The modules

| Module | Models | Correspondence |
|---|---|---|
| `NodeLiveness` | node registry and liveness | `status`: node record; `watchers`: `node_watchers`; `rpc[n][k]`: where a stream of `n` is, from request to teardown; `owed`/`published`: node events. Each action is one stretch of a handler between two points at which others run. |
| `PodRegistry` | *abstract*: the first pod of each name, every call one step | the promise `PodStore` is shown to keep |
| `PodStore` | pod store, both backends | `calls[c]`: request, phase and the record that was read; `pods[p].version`: etcd's version, `.life`: its create revision, which the code never reads; `feed`: the last event of each pod |
| `DesiredState` | `PodStore`, streams and agents together | `watch`, `opening`, `channel`, `lagged`: a stream; `outcome`, `reporting`: the agent's loop. `missed` and `dropped` record what fell between snapshot and subscription, and whose handler ended early. |
| `Scheduler` | both loops, retry tasks, `BasicScheduler` | `view`, `book` (`placed`, `claimed`, `ports`), `pending`, `todo`; `loop[l]`: where a watch loop is; `job[l][p]`: the task of pod `p` in a sweep of loop `l`; the API server is `assigned`, `status` and the two feeds |
| `Placement` | *abstract*: where pods are stored to be, and which of them fit on one node | the promise of `SchedulerRestart`; `node` is `assigned` of the pods that are stored, `Fitting` the groups of pods that leave a node some room and share no host port |
| `SchedulerRestart` | `Scheduler` with the life cycle of its process and watches | `stream[l]`, `listed[l]`: a watch and the snapshot it has read; `late`: AssignPods of dead processes; `blemish`: what has gone wrong that this process cannot know of, and, for ever, whether a request of a dead process has arrived (`crossed`) |
| `Kubelet` | ApplyPod, DeletePod, roll back, cgroup, VLAN file | `op`: the call and its next request; `vlans`/`file`; `ctr`: containerd's stage of a container; `net`: the CNI record and link of a container; `cgroup`: the limits a pod's cgroup enforces |
| `WorkloadNetwork` | the CNI daemon | `records`, `allocated`, `link`, `rules`: the four stores; `op`: the call under `operation_lock`; `phase`, `todo`, `live`: start-up and reconciliation; `firewall`, `peers`, `gateway`: what the node's workloads share |
| `Tls` | identities, roles, who may call what (operators only) | `TlsMode`, `Serves`, `RoleOf`, barectl's `Resolve`, over certificates as records (name, role, key, signing key) |
| `Credentials` | `Tls` applied to disks and processes | `ca`, `issued`, `host`, `env`, `config`: files; `running`: what a service has loaded; `tool[o]`, `todo[o]`: the command an operator is in the middle of, and those still to run |
| `NodeLivenessProofs`, `PodStoreProofs`, `SchedulerProofs`, `SchedulerRestartProofs`, `DesiredStateProofs`, `CredentialsProofs`, `WorkloadNetworkProofs`, `KubeletProofs` | theorems | each extends the module it is about, `SchedulerRestartProofs` and `DesiredStateProofs` also the proofs of the module which theirs extends |
| `MC*` | instances for TLC | symmetry sets, the host ports of the scheduler's pods, bounds that are constraints |

`DesiredState` extends `PodStore`, so its runs have the store's own
interleavings. `Scheduler` sees the API server as one step per AssignPod, with
a not-found answer for a record that changed meanwhile (what `PodStore`'s lost
transactions look like from outside). `SchedulerRestart` extends `Scheduler`: all
of its steps, under the condition that the loop's stream is open. Its properties
speak of the scheduler's books; `Placement` speaks of the store alone. `Credentials`
extends `Tls`. `Kubelet` sees a CNI call succeed, fail,
or fail after it was carried out; `WorkloadNetwork` has the steps. In
`DesiredState` an apply succeeds or fails as a whole; `Kubelet` has the steps.

Every module's header lists its simplifications. Names that end in `Regardless`,
`Blindly`, `Keeping...` and the like, and that no action uses, are the mutants.

## The runs

| Run | Instance | Shows |
|---|---|---|
| `NodeLiveness` | 2 nodes, 2 streams each, both backends, unlimited failures | `CountMatchesStreams`, `WatchedNodeIsReady`, `ReadyNodeHasStream`, `ReconnectKeepsReady`, `StreamEventsAreCurrent`, and that a lost agent is noticed |
| `PodStore` | 1 name with 3 lives of 3 puts, 2 calls of any kind at a time, both backends | the store implements `PodRegistry`; nothing comes back (`NoResurrection`, `AnnouncedRemovalIsFinal`) |
| `DesiredState` | 2 pods, 1 node, 1 call at a time, a channel of 1 event | `AssignedIsTold`, `AssignedIsRun`, except for the two recorded gaps and names used before |
| `SchedulerRestart` | up to 3 pods, two of which want the same host port, up to 2 nodes, 1 lost node, 1 failed AssignPod, 1 restart, both backends | claims are exact (`ClaimsMatchPlacements`), also of placements an earlier process made (`StoredPlacementsAreCounted`); nodes are not overbooked (`SharedThroughRestarts`); no pod is on two nodes (`PlacedOnce`), left behind (`UnplacedIsRetried`) or remembered after its removal (`RemovedThroughRestarts`); what is stored implements `Placement` |
| `SchedulerLoss` | 1 pod, 2 nodes lost twice, 1 failed AssignPod | the loops come to rest (`ComesToRest`) |
| `WorkloadNetwork` | 3 workloads, 2 addresses, 2 ports, 2 peers, 2 crashes or reboots, 2 failures | addresses, ports, links, rules and records stay together; the host is ready before it serves (`HostIsReady`) |
| `Kubelet` | up to 3 pods × 2 containers, 2 VLANs, 1 stop, 2 failures | `VlanKept`, `VlanIsolated`, `AppliedExactly` (containers and limits), `RollbackIsComplete` |
| `Credentials` | 1 node, 2 operators, 4 key pairs, 1 interruption, 1 purge | only entitled callers are served (`Entitled`), pairs fit (`PairsFit`), nobody falls back to plaintext (`TlsIsKept`), what was installed works (`WiredToWork`) |
| `PodStoreSpec` ✗ | 1 name, 2 lives, 2 calls | an update that read a pod before it was deleted and created again writes the old spec into the new pod: etcd's version starts again at one (`store.rs` compares it) |
| `DesiredStateGap` ✗ | 1 pod, 2 calls | a placement between snapshot and subscription is never told, contrary to the comment in `handlers/agent.rs` |
| `SchedulerDouble` ✗ | 1 pod, 3 nodes, 1 loss | a late pod event makes `watch_pods` place a pod again that was moved already: two nodes run it |
| `SchedulerPending` ✗ | 2 pods, 1 node, no failure | two outcomes arrive in the other order than they were decided: a pod without a node that no sweep retries |

✗ marks runs that are expected to violate their one property, a sentence of the
code's own comments; `PROJECT.json` quotes it under `findings`.

**Why these bounds.** The races are between two parties: two calls on one
record, two streams of one node, two sweeps on one pod. Names do not share state
in `PodStore`, so one is enough there; a second life of the name is what makes
a stale version match, a third shows that it goes on. Three pods are the fewest
with which one is retried by both loops while two contend for a port. In
`WorkloadNetwork` three workloads for two addresses make exhaustion and re-use
happen; the second crash interrupts the recovery from the first, and the second
failure the undoing of the first. In `Kubelet` a removal that fails twice, once
in the CNI daemon and once in containerd, is what could give a VLAN in use to
another pod, hence two failures; three pods for two VLANs run out of them; the
daemon's VLAN range (`CniLastVlan`) is that of the allocator, so a refusal there
always comes from a record with another VLAN. In `Credentials` two operators
are what it takes to tear a pair that neither would have torn alone, and four
key pairs are a CA and a certificate, twice. Bounds are constants of
the modules (`MaxLives`, `MaxVersion`, `MaxLosses`, `MaxRestarts`, `MaxCrashes`,
`MaxFaults`, `MaxStops`) and guards of the actions they limit. Three instances
are also cut off by a constraint, `Bounded` in their MC module, each stated
there:

* `MCSchedulerRestart`: all three pods on one node, or two on two, until the
  restart; two pods on one node, or one on two, through it; losses and failed
  RPCs with one pod. Not continued is an opening that lost an event in etcd's
  gap, which the properties except.
* `MCKubelet`: one pod with limits and without; two without limits and with one
  failure; or three of one container and with both failures.
* `MCCredentials`: `MaxKeys`, `MaxPurges`.

**Deadlock** is checked in `NodeLiveness`, `PodStore`, `DesiredState`,
`WorkloadNetwork` and `Credentials`. It is not in the scheduler's runs, where users
and nodes have nothing left to do when the bounds are reached, nor in `Kubelet`,
where an agent that finds a truncated `vlans.json` stops for good.

**Fairness.** `NodeLiveness`: the spawned teardown and the call that holds the
lock go on; the teardown gets strong fairness because tokio's mutex is granted
first come, first served, so a waiting task is not overtaken forever.
`DesiredState`: a call that was accepted ends (by finishing or by being
abandoned), a stream that was listed is subscribed, the agent takes its next
event and gets over its report. `Scheduler`: the loops take their events and
RPCs are answered, with an error if need be. Users, agents, disconnections,
crashes and failures owe nothing in any module.

## What is proved

Every invariant and every action property that a passing run checks is proved,
for every set of nodes, pods, calls, workloads, addresses, operators and every
bound. The assumptions are the modules' named `ASSUME`s: finite sets of streams,
of pods and of nodes; `NoNode` is no node and `NoAddress` no address; every
pod has a set of host ports; names differ; no pod is called like one of `blemish`'s
marks; agents run on nodes, a channel has room for an event, and bounds, VLANs
and a node's room are numbers.

* `NodeLivenessProofs`: `TypeOK`, `CountMatchesStreams`, `WatchedNodeIsReady`,
  `ReadyNodeHasStream`, `ReconnectKeepsReady`, `StreamEventsAreCurrent`. They are
  one inductive invariant: what a teardown does to the status is decided by the
  count, so the status is right only because the count is exact, and a stream
  that is being announced needs to be known to hold the lock
  (`StartingIsReady`).
* `PodStoreProofs`: `TypeOK`, `NoResurrection`, `AnnouncedRemovalIsFinal` and the
  refinement `Spec => Registry!Spec`. The invariant says what a read is worth:
  a version identifies a record only together with the life it was read in
  (`ReadsArePinned`). In the first life of a name version and life coincide,
  which is why the refinement holds of it, and `PodStoreSpec` shows where it
  stops.
* `DesiredStateProofs`, on top of it: `DSTypeOK`, `AssignedIsTold`, and that the
  refinement and the finality of removals survive the streams, the agents and the
  server's restarts. The invariant `DInv` follows a placement from the transaction
  to the agent: what is assigned to a watching node was told, or is in the
  opening snapshot, in the channel or in the hands of the handler that stored it,
  or fell into a recorded gap (`AssignedIsCovered`). That what was told is not taken back
  needs `StopsAreLate`: a STOP, wherever it has got to, is of a pod whose first
  life is over. For a name used again nothing of the kind holds, since the
  STOP of the earlier pod may still be unpublished.
* `SchedulerProofs`: `TypeOK` and `ClaimsMatchPlacements`, again together: that a
  claim never becomes negative follows from what it counts. The
  bookkeeping operators have lemmas of their own (`ReleaseExact`, `ClaimExact`,
  `RecordExact`, `EvictedExact`).
* `SchedulerRestartProofs`: all eight properties of the run, in four layers, each
  an invariant relative to those before it. What a step does to one pod is
  stated first, as lemmas on its effect (`Unmoved`: nothing), so that most of each
  proof is about the one pod a step is about.
  1. `RIInv`: `RTypeOK` and `ClaimsMatchPlacements` through any number of restarts. A
     restart empties the books and the claims together; an event that a snapshot
     put at the head of a stream is recorded like any other, so the lemmas of
     `SchedulerProofs` carry over.
  2. `NewsInv`: `StoredPlacementsAreCounted` and `RemovedThroughRestarts`. Whatever
     goes wrong, nothing is known of pods that were never created and nothing new
     comes of pods that are gone (`Ground`). As long as the pod stream has no gap,
     the last event to come about a pod tells what is stored (`Following`), so what
     the books hold of it is right or about to be corrected (`Tracking`,
     `Forgetting`); at rest no event is to come.
  3. `RetryInv`: `UnplacedIsRetried`. Without lost nodes no orphans arise
     (`NodesGood`), and a pod without a node is pending, announced, being tried or
     being placed, and only one of these where two could undo each other
     (`Retrying`).
  4. `SharingInv`: `SharedThroughRestarts` and `PlacedOnce`. A pod holds room on at
     most one node, counting the books, the store and the news between them, and
     none while somebody may still place it (`Owning`); the books count every
     holder, or nothing has been placed yet and the event that says so comes
     before the pod's other events (`Counting`), which is where the snapshot's
     order matters; so what fits by the books fits (`Sharing`), and in the first process
     only the node in the books is told to run a pod (`Telling`).

  From the last layer follows the refinement `RSpec => Placement!Spec`. Between
  the decision and the AssignPod that stores it the lock is released, so the
  step that stores a pod on a node has to find the room that was seen earlier:
  a pod being assigned is booked there (`Exclusive`), every pod that is stored
  there holds room there (`Held`), and the holders fit (`Fits`). That a pod is never
  stored on a second node is `Unique`. Pods, nodes and room are arbitrary; once a
  node is lost or a request has crossed a restart `Placement` allows any move of a
  pod that exists, and the theorem says no more than that.
* `CredentialsProofs`: two layers. `IInv` (`CredTypeOK`, `Entitled`) says, of every
  disk, process and command, that what it holds is bounded by what was generated
  and granted: keys are numbers that were generated (`Counted`), files hold granted
  certificates or none (`Files`), a service has loaded a pair that fits (`Loaded`),
  so does a command that writes one (`Hands`), and what is left of a command is a
  command (`Scripts`). That a served caller is entitled then follows from what
  `Serves` compares; without the history `granted` it could not be stated. `JInv`
  (`PairsFit`, `TlsIsKept`, `WiredToWork`) says of everything that nobody tore that
  it belongs together: a command is alone with its name (`Alone`), its purpose
  fits what it has done (`Purposes`), certificates lie under their own name
  (`Owned`), and the CA, the issued pairs, the workers' copies, the users' files
  and what services have loaded are complete, absent, or being written by that
  command (`CaWhole`, `Signed`, `PairsWhole`, `Copies`, `Packages`, `Wired`).
* `WorkloadNetworkProofs`: `TypeOK`, `HostIsReady`, `ForgottenEntirely`,
  `AllocationsHeld`, `EndpointsDistinct`, `NoAddressLeaks` and `PublishedExactly`. The
  invariant has three layers. `Base`, which nothing can disturb:
  types, what reconciliation may assume of the workloads it found live
  (`Reconciled`), and what a call knows of its record and address (`Known`).
  `Addressed`, until a file operation fails half-way (`botched`): recorded addresses are
  held (`Held`), what is being added has one that nobody else has (`Fresh`), and a
  removal gives back link, rules, address and record in this order (`Sorted`).
  `PortInv`, whatever fails: ports are looked up when an addition begins and
  recorded when it ends, so it says that what an addition carries is still free.
  `CrashInv`, under `faults = 0`, bounds, for every step a call or the start-up can
  be stopped at, what it has left behind: addresses beyond the records (`NoLeak`),
  links beyond the pool (`Endpoints`), rules that are owed (`Forwarded`) and rules
  nobody owns (`NothingElse`, until a first crash).
* `KubeletProofs`: `TypeOK`, `VlanKept`, `VlanIsolated`, `AppliedExactly` and
  `RollbackIsComplete`. A VLAN is in memory, in
  the file and on links; the invariant says which of the three may be behind at
  each step of a call (`Order`, `Mirrored`, `Emptied`): the file has a new VLAN
  before the first link does, and the last link is gone before the map forgets it.
  `Shape` adds what an apply has built (`Built`) and a roll back has taken back
  (`Undone`) at each of its steps.

Only model-checked: liveness (`LostAgentNoticed`, `AssignedIsRun`,
`ComesToRest`) and whatever involves ENABLED, which the prover does not handle.
Induction over data is out of its reach too, so the modules that are proved
about have no recursive operator. The four violations are counterexamples of TLC's.

## What the properties except, and why

Some properties are weaker than one would like, because the code does not keep
the stronger form. The exceptions are explicit:

* `ReadyNodeHasStream` (`tainted`): an etcd status write can take effect although
  its call failed; nobody corrects it until the next stream or restart.
* `AssignedIsTold` (`missed`, `dropped`): see `DesiredStateGap`; and a handler
  that is cancelled between storing and publishing tells nobody. A name that was
  used before is excepted too: two handlers publish in either order, so the STOP
  of the earlier pod can follow the RUN of the later, and nobody repeats the RUN.
* `VlanIsolated`, `VlanKept` (`botched`): a new VLAN whose save failed lives in
  memory only, and the next apply of the pod succeeds with it; a roll back
  releases the VLAN even if it could remove nothing.
* `AllocationsHeld` (`botched`): the address pool and the record are two files. If
  a file operation fails between them the record outlives its address. Host ports
  are stored in the record alone, and are excepted from nothing.
* `PublishedExactly`: forwarding rules are installed before the record is saved;
  after a crash between the two no record names them, so "nothing else is
  forwarded" is stated until a first crash only.
* `HostIsReady`: `ensure_jump` deletes a jump before it inserts it again, so a
  start-up takes the rules away for a moment, and one that is stopped there
  leaves them missing until the next. The property starts after `ensure_egress`.
* The scheduler's properties, through `blemish`. *A pod's name*
  (`BookedTooLate`): deleted while it was being rescheduled, after its DELETED was
  handled, it keeps its room until the next restart; so does a pod two of whose
  AssignPods are under way at once, which can arrive in either order. With lost
  nodes there is one way more (a `SCHEDULED` event recorded after its node was
  evicted strands the pod), hence `losses = 0` in `UnplacedIsRetried`. *`fault`*: a failed AssignPod that was to orphan a pod
  leaves it with the lost node in the store but uncounted and pending here.
  *`gap`*: with etcd the snapshot is older than the subscription, and what falls
  in between is never told. *`outlived`*: a request of a dead process arrives
  after its successor has decided otherwise, and a pod runs on two nodes.
  *`crossed`*: the same, for ever; a pod that two processes placed can overbook
  either node long after the second has died as well. `NodesAreShared` itself
  allows a node with no pods however little room it has.
* The comment at `store.rs:651` says that the opening snapshot holds the pods
  without a node only; the code returns all of them, those with a node first, and
  `List` models the code: `StoredPlacementsAreCounted` depends on it.
* `Credentials` (`torn`): every pair is two files. An interrupted `init-ca` leaves a
  `ca.pem` without its key, and every later `issue` fails until a purge; a
  certificate without its key is skipped by the installer (it looks for the `.pem`
  only); `issue` does not compare the CA's certificate with its key; two commands
  at once mix their halves; a config file is assembled from three files one by
  one; a re-installation rewrites `agent.env` without TLS before it copies a
  worker's certificates. Names hit in one of these ways are excepted until they
  are issued or installed again.

## Not modelled

* barectl's commands other than `config set`: parsing, one RPC, formatting. Their
  requests are the calls of `PodStore`.
* Of certificates: subject alternative names, validity periods, key formats.
* Of the installer: downloads, users, etcd's unit, and the role `all`, which runs
  both installations on one host. CI.
* Of the scheduler: resource quantities (a pod asks for one unit), so also
  the `i32` sums in `basic.rs`; capacity changes of a node.
* containerd images, OCI specs and the numbers a limit is written as; the
  settings of the CNI daemon's bridge and the arithmetic of its address ranges.
  Containerd itself is seen through the requests the agent makes; that it collects
  snapshots nobody uses is `Collect` in `Kubelet`.

## Plan

What would come next, in this order:

1. **Scheduler × NodeLiveness**: the stale event of a registration
   (`StreamEventsAreCurrent` says that only a registration's can be) and what the
   scheduler does with it; the creation event that follows the removal's.
2. **BasicScheduler's arithmetic**: `i32` sums over unequal requests and limits
   against a reference definition over integers.
3. **DesiredState × Kubelet**: removed pods are stopped; a STOP that fails or
   that a late RUN follows.
4. **Proofs**: type correctness and the inductive invariants of whatever the items
   above add.
5. **Further runs** for what the hazards list as not covered: a removal that was
   never announced, a not-found answer about a pod that exists, a report stored
   after its pod was orphaned, a placement on a lost node.
