---------------------------- MODULE NodeLiveness ----------------------------
(***************************************************************************)
(* Node liveness in the API server: a node is advertised READY exactly     *)
(* while its agent holds a desired-state stream open.                      *)
(*                                                                         *)
(* The store keeps one status per node (in etcd, or in memory), a count of *)
(* open streams per node, and announces every change on the node feed that *)
(* the scheduler watches.  Agents register, open streams and lose them;    *)
(* the bookkeeping of a lost stream runs later, as a spawned task; etcd    *)
(* writes fail or are cancelled half way; the server restarts.             *)
(*                                                                         *)
(* Simplifications:                                                        *)
(*  - a get and the put that follows it under node_op_lock are one step:   *)
(*    every writer of a node record takes that lock;                       *)
(*  - CORDON stands for CORDON and DRAIN, which nothing here tells apart;  *)
(*  - an interrupted etcd write takes effect at once or never;             *)
(*  - at most one registration per node is between its write and its event.*)
(***************************************************************************)
EXTENDS Naturals, FiniteSets

CONSTANTS
  Nodes,   \* names of the nodes
  Slots    \* the desired-state streams one node can have at a time

ASSUME SlotsFinite == IsFiniteSet(Slots)

VARIABLES
  backend,    \* where the store keeps nodes; fixed when the server is started
  up,         \* the API server is serving
  status,     \* status[n]: the stored status of n, ABSENT when it has no record
  watchers,   \* watchers[n]: open streams counted for n, 0 when it has no entry
  rpc,        \* rpc[n][k]: how far the k-th WatchDesiredState call of n has come
  owed,       \* owed[n]: status a registration has stored and not yet announced
  published,  \* published[n]: status in the last event about n on the node feed
  tainted     \* history: the last status write of n was interrupted and left READY

store == <<backend, up, status, watchers, tainted>>
vars == <<backend, up, status, watchers, rpc, owed, published, tainted>>

Backends == {"etcd", "memory"}
Statuses == {"ABSENT", "NOT_READY", "READY", "CORDON"}
NoEvent == "NONE"
Phases == {"idle", "admitted", "starting", "open", "dropped", "ending"}

(* The streams of n that the count stands for: opened, and not yet torn    *)
(* down by the task their Drop spawned.                                    *)
Counted(n) == {k \in Slots : rpc[n][k] \in {"open", "dropped"}}

(* node_watchers is held across a status write and its announcement.       *)
WatchersFree == \A n \in Nodes, k \in Slots : rpc[n][k] \notin {"starting", "ending"}

Init ==
  /\ backend \in Backends
  /\ up = FALSE
  /\ status \in [Nodes -> Statuses]
  /\ backend = "memory" => status = [n \in Nodes |-> "ABSENT"]
  /\ watchers = [n \in Nodes |-> 0]
  /\ rpc = [n \in Nodes |-> [k \in Slots |-> "idle"]]
  /\ owed = [n \in Nodes |-> NoEvent]
  /\ published = [n \in Nodes |-> NoEvent]
  /\ tainted = [n \in Nodes |-> FALSE]

-----------------------------------------------------------------------------
(* The server's own life: main, reset_node_liveness.                       *)

Demote(s) == IF s = "READY" THEN "NOT_READY" ELSE s

BootWithoutReset ==
  /\ ~up
  /\ up' = TRUE
  /\ UNCHANGED <<backend, status, watchers, rpc, owed, published, tainted>>

(* Only what was persisted is reset, before the first call is served.      *)
Boot ==
  /\ ~up
  /\ up' = TRUE
  /\ status' = [n \in Nodes |-> Demote(status[n])]
  /\ tainted' = [n \in Nodes |-> FALSE]
  /\ UNCHANGED <<backend, watchers, rpc, owed, published>>

(* The reset is one put per node and aborts the boot at the first failure. *)
BootFails(S) ==
  /\ ~up
  /\ backend = "etcd"
  /\ \E n \in S : status[n] = "READY"
  /\ status' = [n \in Nodes |-> IF n \in S THEN Demote(status[n]) ELSE status[n]]
  /\ UNCHANGED <<backend, up, watchers, rpc, owed, published, tainted>>

Crash ==
  /\ up
  /\ up' = FALSE
  /\ status' = IF backend = "etcd" THEN status ELSE [n \in Nodes |-> "ABSENT"]
  /\ watchers' = [n \in Nodes |-> 0]
  /\ rpc' = [n \in Nodes |-> [k \in Slots |-> "idle"]]
  /\ owed' = [n \in Nodes |-> NoEvent]
  /\ published' = [n \in Nodes |-> NoEvent]
  /\ UNCHANGED <<backend, tainted>>

-----------------------------------------------------------------------------
(* UpdateNodeStatus: register_node.                                        *)

RegisteredStatus(n) == IF status[n] = "ABSENT" THEN "NOT_READY" ELSE status[n]

RegisterTrustingReport(n) ==
  /\ up
  /\ owed[n] = NoEvent
  /\ \E reported \in {"READY", "NOT_READY"} :
       /\ status' = [status EXCEPT ![n] = reported]
       /\ owed' = [owed EXCEPT ![n] = reported]
  /\ UNCHANGED <<backend, up, watchers, rpc, published, tainted>>

Register(n) ==
  /\ up
  /\ owed[n] = NoEvent
  /\ status' = [status EXCEPT ![n] = RegisteredStatus(n)]
  /\ owed' = [owed EXCEPT ![n] = RegisteredStatus(n)]
  /\ UNCHANGED <<backend, up, watchers, rpc, published, tainted>>

(* The event goes out after node_op_lock is released.                      *)
AnnounceRegistration(n) ==
  /\ owed[n] # NoEvent
  /\ published' = [published EXCEPT ![n] = owed[n]]
  /\ owed' = [owed EXCEPT ![n] = NoEvent]
  /\ UNCHANGED <<store, rpc>>

(* The put went through but its call did not return: no event follows.     *)
RegisterInterrupted(n) ==
  /\ up
  /\ backend = "etcd"
  /\ status[n] = "ABSENT"
  /\ status' = [status EXCEPT ![n] = "NOT_READY"]
  /\ UNCHANGED <<backend, up, watchers, rpc, owed, published, tainted>>

-----------------------------------------------------------------------------
(* WatchDesiredState opens: watch_desired_state_impl, node_watch_started.  *)

(* The node is known: the call goes on to the snapshot and the subscription *)
WatchRequest(n, k) ==
  /\ up
  /\ rpc[n][k] = "idle"
  /\ status[n] # "ABSENT"
  /\ rpc' = [rpc EXCEPT ![n][k] = "admitted"]
  /\ UNCHANGED <<store, owed, published>>

(* The client leaves before its stream is counted.                         *)
WatchCancelled(n, k) ==
  /\ rpc[n][k] = "admitted"
  /\ rpc' = [rpc EXCEPT ![n][k] = "idle"]
  /\ UNCHANGED <<store, owed, published>>

(* A stream of the node is counted already, or its status says READY.      *)
WatchCounted(n, k) ==
  /\ rpc[n][k] = "admitted"
  /\ WatchersFree
  /\ watchers[n] > 0 \/ status[n] = "READY"
  /\ watchers' = [watchers EXCEPT ![n] = @ + 1]
  /\ rpc' = [rpc EXCEPT ![n][k] = "open"]
  /\ UNCHANGED <<backend, up, status, owed, published, tainted>>

MarkReadyUnlocked(n, k) ==
  /\ rpc[n][k] = "admitted"
  /\ watchers[n] = 0
  /\ status[n] # "READY"
  /\ status' = [status EXCEPT ![n] = "READY"]
  /\ tainted' = [tainted EXCEPT ![n] = FALSE]
  /\ rpc' = [rpc EXCEPT ![n][k] = "starting"]
  /\ UNCHANGED <<backend, up, watchers, owed, published>>

(* The first stream of the node marks it READY ...                         *)
MarkReady(n, k) ==
  /\ rpc[n][k] = "admitted"
  /\ WatchersFree
  /\ watchers[n] = 0
  /\ status[n] # "READY"
  /\ status' = [status EXCEPT ![n] = "READY"]
  /\ tainted' = [tainted EXCEPT ![n] = FALSE]
  /\ rpc' = [rpc EXCEPT ![n][k] = "starting"]
  /\ UNCHANGED <<backend, up, watchers, owed, published>>

AnnounceReadySettingCount(n, k) ==
  /\ rpc[n][k] = "starting"
  /\ published' = [published EXCEPT ![n] = "READY"]
  /\ rpc' = [rpc EXCEPT ![n][k] = "open"]
  /\ UNCHANGED <<backend, up, status, watchers, owed, tainted>>

(* ... announces it, and only then is counted.                             *)
AnnounceReady(n, k) ==
  /\ rpc[n][k] = "starting"
  /\ published' = [published EXCEPT ![n] = "READY"]
  /\ watchers' = [watchers EXCEPT ![n] = @ + 1]
  /\ rpc' = [rpc EXCEPT ![n][k] = "open"]
  /\ UNCHANGED <<backend, up, status, owed, tainted>>

(* The status write fails, or its caller goes away while it is under way:  *)
(* the call ends uncounted, with the write applied or not.                 *)
MarkReadyInterrupted(n, k) ==
  /\ backend = "etcd"
  /\ rpc[n][k] = "admitted"
  /\ WatchersFree
  /\ watchers[n] = 0
  /\ status[n] # "READY"
  /\ rpc' = [rpc EXCEPT ![n][k] = "idle"]
  /\ \/ UNCHANGED <<status, tainted>>
     \/ /\ status' = [status EXCEPT ![n] = "READY"]
        /\ tainted' = [tainted EXCEPT ![n] = TRUE]
  /\ UNCHANGED <<backend, up, watchers, owed, published>>

-----------------------------------------------------------------------------
(* The stream ends: NodeLivenessGuard::drop spawns node_watch_ended.       *)

Drop(n, k) ==
  /\ rpc[n][k] = "open"
  /\ rpc' = [rpc EXCEPT ![n][k] = "dropped"]
  /\ UNCHANGED <<store, owed, published>>

UncountOffByOne(n, k) ==
  /\ rpc[n][k] = "dropped"
  /\ WatchersFree
  /\ watchers[n] >= 1
  /\ watchers' = [watchers EXCEPT ![n] = @ - 1]
  /\ rpc' = [rpc EXCEPT ![n][k] = "idle"]
  /\ UNCHANGED <<backend, up, status, owed, published, tainted>>

(* Another stream is still counted: the status does not move.              *)
Uncount(n, k) ==
  /\ rpc[n][k] = "dropped"
  /\ WatchersFree
  /\ watchers[n] > 1
  /\ watchers' = [watchers EXCEPT ![n] = @ - 1]
  /\ rpc' = [rpc EXCEPT ![n][k] = "idle"]
  /\ UNCHANGED <<backend, up, status, owed, published, tainted>>

MarkNotReadyOnAnyEnd(n, k) ==
  /\ rpc[n][k] = "dropped"
  /\ WatchersFree
  /\ watchers' = [watchers EXCEPT ![n] = @ - 1]
  /\ status' = [status EXCEPT ![n] = "NOT_READY"]
  /\ tainted' = [tainted EXCEPT ![n] = FALSE]
  /\ rpc' = [rpc EXCEPT ![n][k] = "ending"]
  /\ UNCHANGED <<backend, up, owed, published>>

(* The last stream: its entry goes and the node is marked NOT_READY ...    *)
MarkNotReady(n, k) ==
  /\ rpc[n][k] = "dropped"
  /\ WatchersFree
  /\ watchers[n] <= 1
  /\ watchers' = [watchers EXCEPT ![n] = 0]
  /\ status' = [status EXCEPT ![n] = "NOT_READY"]
  /\ tainted' = [tainted EXCEPT ![n] = FALSE]
  /\ rpc' = [rpc EXCEPT ![n][k] = "ending"]
  /\ UNCHANGED <<backend, up, owed, published>>

(* ... which is announced before the lock is released.                     *)
AnnounceNotReady(n, k) ==
  /\ rpc[n][k] = "ending"
  /\ published' = [published EXCEPT ![n] = "NOT_READY"]
  /\ rpc' = [rpc EXCEPT ![n][k] = "idle"]
  /\ UNCHANGED <<store, owed>>

MarkNotReadyKeepingEntry(n, k) ==
  /\ backend = "etcd"
  /\ rpc[n][k] = "dropped"
  /\ WatchersFree
  /\ watchers[n] <= 1
  /\ rpc' = [rpc EXCEPT ![n][k] = "idle"]
  /\ UNCHANGED <<backend, up, status, watchers, owed, published, tainted>>

(* The write fails: the error is logged, nothing retries it, and the entry *)
(* is gone already.                                                        *)
MarkNotReadyInterrupted(n, k) ==
  /\ backend = "etcd"
  /\ rpc[n][k] = "dropped"
  /\ WatchersFree
  /\ watchers[n] <= 1
  /\ watchers' = [watchers EXCEPT ![n] = 0]
  /\ rpc' = [rpc EXCEPT ![n][k] = "idle"]
  /\ \/ /\ tainted' = [tainted EXCEPT ![n] = TRUE]
        /\ UNCHANGED status
     \/ /\ status' = [status EXCEPT ![n] = "NOT_READY"]
        /\ tainted' = [tainted EXCEPT ![n] = FALSE]
  /\ UNCHANGED <<backend, up, owed, published>>

-----------------------------------------------------------------------------
StreamStep(n, k) ==
  \/ WatchRequest(n, k)
  \/ WatchCancelled(n, k)
  \/ WatchCounted(n, k)
  \/ MarkReady(n, k)
  \/ AnnounceReady(n, k)
  \/ MarkReadyInterrupted(n, k)
  \/ Drop(n, k)
  \/ Uncount(n, k)
  \/ MarkNotReady(n, k)
  \/ AnnounceNotReady(n, k)
  \/ MarkNotReadyInterrupted(n, k)

NodeStep(n) ==
  \/ Register(n)
  \/ AnnounceRegistration(n)
  \/ RegisterInterrupted(n)

Next ==
  \/ Boot
  \/ Crash
  \/ \E S \in SUBSET Nodes : BootFails(S)
  \/ \E n \in Nodes : NodeStep(n)
  \/ \E n \in Nodes, k \in Slots : StreamStep(n, k)

Spec == Init /\ [][Next]_vars

(* The spawned teardown and the call that holds the lock always go on; the *)
(* lock is granted first come, first served, hence strong fairness for the *)
(* task that waits for it.  Clients, failures and restarts owe nothing.    *)
Teardown(n, k) == Uncount(n, k) \/ MarkNotReady(n, k) \/ MarkNotReadyInterrupted(n, k)

Fairness ==
  \A n \in Nodes, k \in Slots :
    /\ WF_vars(AnnounceReady(n, k))
    /\ WF_vars(AnnounceNotReady(n, k))
    /\ SF_vars(Teardown(n, k))

FairSpec == Spec /\ Fairness

-----------------------------------------------------------------------------
TypeOK ==
  /\ backend \in Backends
  /\ up \in BOOLEAN
  /\ status \in [Nodes -> Statuses]
  /\ watchers \in [Nodes -> 0 .. Cardinality(Slots)]
  /\ rpc \in [Nodes -> [Slots -> Phases]]
  /\ owed \in [Nodes -> Statuses \cup {NoEvent}]
  /\ published \in [Nodes -> Statuses \cup {NoEvent}]
  /\ tainted \in [Nodes -> BOOLEAN]

(* The count of a node is the number of its streams that were opened and   *)
(* are not torn down yet, through reconnects, cancelled calls, failed      *)
(* writes and restarts: an entry never leaks and is never freed twice      *)
(* (node_watch_started, node_watch_ended).                                 *)
CountMatchesStreams == \A n \in Nodes : watchers[n] = Cardinality(Counted(n))

(* "A node is READY while this is above zero": an agent whose stream is    *)
(* open is never advertised as gone, whatever failed before.               *)
WatchedNodeIsReady == \A n \in Nodes : Counted(n) # {} => status[n] = "READY"

(* While the server serves, a node advertised READY has a stream, or is    *)
(* the node whose last status write was interrupted; a restart leaves no   *)
(* such node (reset_node_liveness).                                        *)
ReadyNodeHasStream ==
  up => \A n \in Nodes :
          \/ status[n] # "READY"
          \/ Counted(n) # {}
          \/ \E k \in Slots : rpc[n][k] = "starting"
          \/ tainted[n]

(* Reconnecting is safe: the late teardown of an old stream never takes    *)
(* READY away from a node that has another stream open, and registering    *)
(* again never does.                                                       *)
ReconnectKeepsReady ==
  [][\A n \in Nodes :
       up /\ up' /\ status[n] = "READY" /\ status'[n] # "READY"
         => \A k \in Slots : rpc[n][k] # "open"]_vars

(* The events that opening and closing streams send come in the order of   *)
(* the status writes: each tells what is stored when it goes out.  Only a  *)
(* registration can announce a status that is not stored any more, because *)
(* it announces without the lock (set_node_status under node_watchers).    *)
StreamEventsAreCurrent ==
  [][\A n \in Nodes :
       published'[n] \in {published[n], owed[n], NoEvent, status'[n]}]_vars

Unwatched(n) == \A k \in Slots : rpc[n][k] \in {"idle", "dropped", "ending"}

(* An agent that goes away is noticed: a node left without a stream stops  *)
(* being READY, unless an agent comes back, the server stops or the status *)
(* write is interrupted.                                                   *)
LostAgentNoticed ==
  \A n \in Nodes :
    (up /\ Unwatched(n)) ~> (~up \/ ~Unwatched(n) \/ status[n] # "READY" \/ tainted[n])
=============================================================================
