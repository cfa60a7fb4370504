---------------------------- MODULE DesiredState ----------------------------
(***************************************************************************)
(* The desired state on its way from the API server to the agents.  An     *)
(* agent's stream opens with the pods assigned to its node, then carries   *)
(* RUN for each placement and STOP for each removal; the agent applies one *)
(* event at a time and reports the outcome of every RUN.                   *)
(*                                                                         *)
(* The store's calls (PodStore) run interleaved with the streams: an event *)
(* is published after the change it tells of is stored, by a handler that  *)
(* may not get that far, into a channel that exists only while somebody is *)
(* subscribed and that drops its oldest event when it is full.             *)
(*                                                                         *)
(* Simplifications: a node has one stream at a time; the RPCs between the  *)
(* agent and its Kubelet succeed or fail as a whole; the SYNCED marker,    *)
(* which the agent only logs, is left out; an API server that keeps its    *)
(* pods in memory is not restarted.                                        *)
(***************************************************************************)
EXTENDS PodStore, Sequences

CONSTANTS
  Agents,    \* the nodes whose agent runs
  Capacity   \* events a desired-state channel holds

ASSUME AgentsAreNodes == Agents \subseteq Nodes
ASSUME CapacityIsPositive == Capacity \in Nat \ {0}

VARIABLES
  watch,      \* watch[n]: "off", "listed" (snapshot taken) or "open" (subscribed)
  opening,    \* opening[n]: pods of the snapshot that n has yet to be told to run
  channel,    \* channel[n]: events published to n and not yet delivered
  lagged,     \* lagged[n]: the channel has dropped events n had not seen
  outcome,    \* outcome[n][p]: what became of the last event about p at n
  reporting,  \* reporting[n]: the status n has yet to report, {} when none
  missed,     \* history: missed[n]: pods whose RUN was published between the
              \* snapshot and the subscription of the stream that n has
  dropped     \* history: dropped[n]: pods placed on n since that snapshot by a
              \* call that ended before its RUN was published

streamVars == <<watch, opening, channel, lagged, missed>>
agentVars == <<outcome, reporting>>
dsVars == <<storeVars, streamVars, agentVars, dropped>>

Outcomes == {"none", "running", "stopped", "failed"}
Watches == {"off", "listed", "open"}
Notices == [action: {"RUN", "STOP"}, pod: Pods]

AssignedTo(n) == {p \in Pods : Exists(p) /\ pods[p].node = n}

DSInit ==
  /\ Init
  /\ watch = [n \in Agents |-> "off"]
  /\ opening = [n \in Agents |-> {}]
  /\ channel = [n \in Agents |-> <<>>]
  /\ lagged = [n \in Agents |-> FALSE]
  /\ outcome = [n \in Agents |-> [p \in Pods |-> "none"]]
  /\ reporting = [n \in Agents |-> {}]
  /\ missed = [n \in Agents |-> {}]
  /\ dropped = [n \in Agents |-> {}]

-----------------------------------------------------------------------------
(* The server's side of a stream: watch_desired_state_impl,                *)
(* subscribe_desired_state_with_snapshot.                                  *)

AgentFree(n) ==
  /\ reporting[n] = {}
  /\ \A c \in Calls :
       ~IsIdle(c) => calls[c].req.op # "report" \/ calls[c].req.node # n

SnapshotOfNothing(n) ==
  /\ watch[n] = "off"
  /\ AgentFree(n)
  /\ watch' = [watch EXCEPT ![n] = "listed"]
  /\ missed' = [missed EXCEPT ![n] = {}]
  /\ dropped' = [dropped EXCEPT ![n] = {}]
  /\ UNCHANGED <<storeVars, opening, channel, lagged, agentVars>>

(* The agent is back and the snapshot is read.  In memory the lock on the  *)
(* pods is released here, before the subscription.                         *)
Snapshot(n) ==
  /\ watch[n] = "off"
  /\ AgentFree(n)
  /\ watch' = [watch EXCEPT ![n] = "listed"]
  /\ opening' = [opening EXCEPT ![n] = AssignedTo(n)]
  /\ missed' = [missed EXCEPT ![n] = {}]
  /\ dropped' = [dropped EXCEPT ![n] = {}]
  /\ UNCHANGED <<storeVars, channel, lagged, agentVars>>

Subscribe(n) ==
  /\ watch[n] = "listed"
  /\ watch' = [watch EXCEPT ![n] = "open"]
  /\ UNCHANGED <<storeVars, opening, channel, lagged, missed, agentVars, dropped>>

End(n) ==
  /\ watch' = [watch EXCEPT ![n] = "off"]
  /\ opening' = [opening EXCEPT ![n] = {}]
  /\ channel' = [channel EXCEPT ![n] = <<>>]
  /\ lagged' = [lagged EXCEPT ![n] = FALSE]

Disconnect(n) ==
  /\ watch[n] # "off"
  /\ End(n)
  /\ UNCHANGED <<storeVars, missed, agentVars, dropped>>

(* The API server restarts: calls and streams are gone, etcd is not.       *)
Restart ==
  /\ backend = "etcd"
  /\ \E c \in Calls : ~IsIdle(c)
  /\ calls' = [c \in Calls |-> Idle]
  /\ watch' = [n \in Agents |-> "off"]
  /\ opening' = [n \in Agents |-> {}]
  /\ channel' = [n \in Agents |-> <<>>]
  /\ lagged' = [n \in Agents |-> FALSE]
  /\ UNCHANGED <<backend, pods, lives, feed, missed, agentVars, dropped>>

-----------------------------------------------------------------------------
(* publish_desired_state_event, at the end of AssignPod and DeletePod.     *)

SendUnbounded(n, notice) ==
  /\ channel' = [channel EXCEPT ![n] = Append(@, notice)]
  /\ UNCHANGED lagged

Send(n, notice) ==
  IF Len(channel[n]) < Capacity
    THEN /\ channel' = [channel EXCEPT ![n] = Append(@, notice)]
         /\ UNCHANGED lagged
    ELSE /\ channel' = [channel EXCEPT ![n] = Append(Tail(@), notice)]
         /\ lagged' = [lagged EXCEPT ![n] = TRUE]

(* A placement is told to the node it names; a removal to the node in the  *)
(* record that was read.                                                   *)
Addressee(c) == IF calls[c].req.op = "place" THEN calls[c].req.node ELSE calls[c].rec.node
Notice(c) ==
  [action |-> IF calls[c].req.op = "place" THEN "RUN" ELSE "STOP", pod |-> calls[c].pod]

Publish(c) ==
  LET n == Addressee(c)
  IN  /\ calls[c].phase = "done"
      /\ n \in Agents
      /\ Return(c)
      /\ IF watch[n] = "open"
           THEN Send(n, Notice(c)) /\ UNCHANGED missed
           ELSE /\ missed' = IF watch[n] = "listed" /\ Notice(c).action = "RUN"
                               THEN [missed EXCEPT ![n] = @ \cup {calls[c].pod}] ELSE missed
                /\ UNCHANGED <<channel, lagged>>
      /\ UNCHANGED <<watch, opening, agentVars, dropped>>

(* A call that was refused, or has nobody to tell, ends.                   *)
Finish(c) ==
  /\ calls[c].phase = "done" => Addressee(c) \notin Agents
  /\ Return(c)
  /\ UNCHANGED <<streamVars, agentVars, dropped>>

(* The client goes away, or etcd fails: whatever was stored stays, and     *)
(* nobody is told.                                                         *)
GiveUp(c) ==
  /\ Abandon(c) \/ (calls[c].phase = "done" /\ Return(c))
  /\ dropped' = IF /\ calls[c].phase \in {"committed", "done"}
                   /\ calls[c].req.op = "place" /\ calls[c].req.node \in Agents
                  THEN [dropped EXCEPT ![calls[c].req.node] = @ \cup {calls[c].pod}]
                  ELSE dropped
  /\ UNCHANGED <<streamVars, agentVars>>

-----------------------------------------------------------------------------
(* The agent: register_and_watch, report_pod_status.                       *)

(* ApplyPod brings the pod up, or fails; either is reported.               *)
Run(n, p) ==
  \E s \in {"RUNNING", "FAILED"} :
    /\ outcome' = [outcome EXCEPT ![n][p] = IF s = "RUNNING" THEN "running" ELSE "failed"]
    /\ reporting' = [reporting EXCEPT ![n] = {[pod |-> p, status |-> s]}]

(* DeletePod's failure is only logged.                                     *)
Stop(n, p) ==
  /\ \E o \in {"stopped", "failed"} : outcome' = [outcome EXCEPT ![n][p] = o]
  /\ UNCHANGED reporting

RunListed(n, p) ==
  /\ watch[n] = "open"
  /\ AgentFree(n)
  /\ p \in opening[n]
  /\ Run(n, p)
  /\ opening' = [opening EXCEPT ![n] = @ \ {p}]
  /\ UNCHANGED <<storeVars, watch, channel, lagged, missed, dropped>>

LaggedIgnored(n) ==
  /\ watch[n] = "open"
  /\ AgentFree(n)
  /\ opening[n] = {}
  /\ lagged[n]
  /\ lagged' = [lagged EXCEPT ![n] = FALSE]
  /\ UNCHANGED <<storeVars, watch, opening, channel, missed, agentVars, dropped>>

(* The opening comes first; a lagged receiver then yields an error, which  *)
(* ends the stream.                                                        *)
Lagged(n) ==
  /\ watch[n] = "open"
  /\ AgentFree(n)
  /\ opening[n] = {}
  /\ lagged[n]
  /\ End(n)
  /\ UNCHANGED <<storeVars, missed, agentVars, dropped>>

Handle(n) ==
  /\ watch[n] = "open"
  /\ AgentFree(n)
  /\ opening[n] = {}
  /\ ~lagged[n]
  /\ channel[n] # <<>>
  /\ LET e == Head(channel[n]) IN IF e.action = "RUN" THEN Run(n, e.pod) ELSE Stop(n, e.pod)
  /\ channel' = [channel EXCEPT ![n] = Tail(@)]
  /\ UNCHANGED <<storeVars, watch, opening, lagged, missed, dropped>>

Report(n, c) ==
  \E r \in reporting[n] :
    /\ CheckReport(c, r.pod, [op |-> "report", node |-> n, status |-> r.status])
    /\ reporting' = [reporting EXCEPT ![n] = {}]
    /\ UNCHANGED <<streamVars, outcome, dropped>>

(* The pod is unknown, or owned by another node, or the server is not      *)
(* there: the failure is only logged.                                      *)
ReportFails(n) ==
  /\ reporting[n] # {}
  /\ reporting' = [reporting EXCEPT ![n] = {}]
  /\ UNCHANGED <<storeVars, streamVars, outcome, dropped>>

-----------------------------------------------------------------------------
Silent == UNCHANGED <<streamVars, agentVars, dropped>>

StoreRequest(c, p) ==
  \/ Create(c, p)
  \/ ReadForRemoval(c, p)
  \/ RemoveInMemory(c, p)
  \/ RemoveNothing(c, p)
  \/ \E req \in Assignments : ReadForAssign(c, p, req) \/ AssignInMemory(c, p, req)

StoreProgress(c) ==
  \/ ReportGone(c)
  \/ ReadForReport(c)
  \/ ReportInMemory(c)
  \/ Commit(c)
  \/ Delete(c)
  \/ Announce(c)

Advance(c) == (StoreProgress(c) /\ Silent) \/ Publish(c) \/ Finish(c) \/ GiveUp(c)
Receive(n) == Lagged(n) \/ Handle(n) \/ \E p \in Pods : RunListed(n, p)

DSNext ==
  \/ \E c \in Calls : Advance(c) \/ \E p \in Pods : StoreRequest(c, p) /\ Silent
  \/ \E n \in Agents : Snapshot(n) \/ Subscribe(n) \/ Disconnect(n) \/ Receive(n) \/ ReportFails(n)
  \/ \E n \in Agents, c \in Calls : Report(n, c)
  \/ Restart

DSSpec == DSInit /\ [][DSNext]_dsVars

(* A call that was accepted ends, one way or another; a stream that was    *)
(* listed is subscribed; an agent takes the next event and gets over its   *)
(* report.  Clients, disconnections and restarts owe nothing.              *)
DSFairness ==
  /\ \A c \in Calls : WF_dsVars(Advance(c))
  /\ \A n \in Agents : /\ WF_dsVars(Subscribe(n))
                       /\ WF_dsVars(Receive(n))
                       /\ WF_dsVars(ReportFails(n) \/ \E c \in Calls : Report(n, c))

DSFairSpec == DSSpec /\ DSFairness

-----------------------------------------------------------------------------
DSTypeOK ==
  /\ TypeOK
  /\ watch \in [Agents -> Watches]
  /\ opening \in [Agents -> SUBSET Pods]
  /\ \A n \in Agents : channel[n] \in Seq(Notices) /\ Len(channel[n]) <= Capacity
  /\ lagged \in [Agents -> BOOLEAN]
  /\ outcome \in [Agents -> [Pods -> Outcomes]]
  /\ reporting \in [Agents -> SUBSET [pod: Pods, status: {"RUNNING", "FAILED"}]]
  /\ missed \in [Agents -> SUBSET Pods]
  /\ dropped \in [Agents -> SUBSET Pods]

(* Nothing about p is on its way to n.                                     *)
Settled(n, p) ==
  /\ watch[n] = "open" /\ ~lagged[n]
  /\ p \notin opening[n]
  /\ \A i \in 1 .. Len(channel[n]) : channel[n][i].pod # p
  /\ \A c \in Calls : ~IsIdle(c) => calls[c].pod # p \/ calls[c].req.op = "report"

Told(n, p) == outcome[n][p] \in {"running", "failed"}

(* An agent that watches has been told to run every pod assigned to it,    *)
(* through reconnections, restarts and overflowing channels, except for a  *)
(* placement that fell between snapshot and subscription, one whose        *)
(* handler did not live to publish it, and a pod whose name was used       *)
(* before: the STOP of the earlier pod can be published after its RUN.     *)
AssignedIsTold ==
  \A n \in Agents, p \in Pods :
    /\ Settled(n, p)
    /\ p \in AssignedTo(n) \ (missed[n] \cup dropped[n])
    /\ pods[p].life = 1
    => Told(n, p)

(* And it gets there: a pod assigned to a node whose agent keeps its       *)
(* stream is eventually run, or failed to run, unless it is moved or       *)
(* removed, under the same exceptions.                                     *)
AssignedIsRun ==
  \A n \in Agents, p \in Pods :
    (watch[n] # "off" /\ p \in AssignedTo(n)) ~>
      \/ Told(n, p) \/ watch[n] = "off" \/ p \notin AssignedTo(n)
      \/ p \in missed[n] \cup dropped[n]

-----------------------------------------------------------------------------
(* "The snapshot and the subscription share one guard, so nothing is lost  *)
(* between them": the same, without the exception for what is published    *)
(* between the two.                                                        *)
NothingLostOnConnect ==
  \A n \in Agents, p \in Pods :
    Settled(n, p) /\ p \in AssignedTo(n) \ dropped[n] => Told(n, p)
=============================================================================
