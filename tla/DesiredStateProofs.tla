------------------------- MODULE DesiredStateProofs -------------------------
(***************************************************************************)
(* Proofs about DesiredState, for any pods, nodes, agents, calls, channel  *)
(* capacity and bounds: an agent that watches has been told to run every   *)
(* pod assigned to it, except for the recorded gaps (AssignedIsTold).      *)
(*                                                                         *)
(* Two facts carry the proof.  Whatever is assigned to a watching node is  *)
(* on its way to it, or was told (AssignedIsCovered).  And in the first    *)
(* life of a name nobody stops what is still there (StopsAreLate), so what *)
(* was told is not taken back.                                             *)
(***************************************************************************)
EXTENDS DesiredState, PodStoreProofs

(* DSTypeOK without the store's part, and with the channels' lengths apart *)
(* from their contents.                                                    *)
StreamsOK ==
  /\ watch \in [Agents -> Watches]
  /\ opening \in [Agents -> SUBSET Pods]
  /\ channel \in [Agents -> Seq(Notices)]
  /\ \A n \in Agents : Len(channel[n]) <= Capacity
  /\ lagged \in [Agents -> BOOLEAN]
  /\ missed \in [Agents -> SUBSET Pods]
Statuses == [pod: Pods, status: {"RUNNING", "FAILED"}]
AgentsOK ==
  /\ outcome \in [Agents -> [Pods -> Outcomes]]
  /\ reporting \in [Agents -> SUBSET Statuses]
  /\ dropped \in [Agents -> SUBSET Pods]
TInv == IInv /\ StreamsOK /\ AgentsOK

(* A STOP is of a pod whose first life is over, wherever it has got to.    *)
Overs == {p \in Pods : Over(1, p)}
Late(s, gone) == \A i \in DOMAIN s : s[i].action = "STOP" => s[i].pod \in gone
Stopping(call) ==
  \/ call.phase = "committed" /\ call.req.op = "remove"
  \/ call.phase = "done" /\ call.req.op # "place"
StopsAreLate ==
  /\ \A c \in Calls : Stopping(calls[c]) => Over(1, calls[c].pod)
  /\ \A n \in Agents : Late(channel[n], Overs)
  /\ \A n \in Agents, p \in Pods : outcome[n][p] = "stopped" => p \in Overs

(* p is on its way to n, or n was told, or n is one of the exceptions.     *)
Telling(call, n, p) ==
  /\ call.phase \in {"committed", "done"}
  /\ call.req.op = "place" /\ call.req.node = n /\ call.pod = p
Carries(s, p) == \E i \in DOMAIN s : s[i].action = "RUN" /\ s[i].pod = p
OnStream(n, p) ==
  \/ watch[n] = "off" \/ lagged[n]
  \/ p \in opening[n] \/ Carries(channel[n], p)
  \/ p \in missed[n] \cup dropped[n]
Announced(n, p) == \E c \in Calls : Telling(calls[c], n, p)
Covered(n, p) == Told(n, p) \/ OnStream(n, p) \/ Announced(n, p)

FirstAssigned(n, p) == pods[p].life = 1 /\ pods[p].node = n
AssignedIsCovered ==
  \A n \in Agents, p \in Pods : FirstAssigned(n, p) => Covered(n, p)

DInv == TInv /\ StopsAreLate /\ AssignedIsCovered

-----------------------------------------------------------------------------
(* The store's side: each step is a step of PodStore, except a restart,    *)
(* which only ends the calls.                                              *)
LEMMA StoreStep ==
  ASSUME TInv, DSNext
  PROVE  \/ Next \/ UNCHANGED storeVars
         \/ Restart /\ UNCHANGED <<backend, pods, lives, feed>>
<1>1. ASSUME NEW c \in Calls, Advance(c) PROVE Next
  <2>1. StoreProgress(c) \/ Return(c) \/ Abandon(c)
    BY <1>1 DEF Advance, Publish, Finish, GiveUp
  <2> QED
    BY <2>1 DEF StoreProgress, Next, Progress
<1>2. ASSUME NEW c \in Calls, NEW p \in Pods, StoreRequest(c, p) PROVE Next
  BY <1>2 DEF StoreRequest, Next, Request
<1>3. ASSUME NEW n \in Agents, NEW c \in Calls, Report(n, c) PROVE Next
  <2>1. PICK r \in reporting[n] :
          CheckReport(c, r.pod, [op |-> "report", node |-> n, status |-> r.status])
    BY <1>3 DEF Report
  <2>2. r.pod \in Pods /\ r.status \in {"RUNNING", "FAILED"} /\ n \in Nodes
    BY AgentsAreNodes DEF TInv, AgentsOK, Statuses
  <2>3. [op |-> "report", node |-> n, status |-> r.status] \in Reports
    BY <2>2 DEF Reports
  <2> QED
    BY <2>1, <2>2, <2>3 DEF Next, Request
<1>4. ASSUME NEW n \in Agents,
             Snapshot(n) \/ Subscribe(n) \/ Disconnect(n) \/ Receive(n) \/ ReportFails(n)
      PROVE  UNCHANGED storeVars
  BY <1>4 DEF Snapshot, Subscribe, Disconnect, Receive, Lagged, Handle, RunListed, ReportFails
<1>5. CASE Restart
  BY <1>5 DEF Restart
<1> QED
  BY <1>1, <1>2, <1>3, <1>4, <1>5 DEF DSNext

LEMMA StoreInv ==
  ASSUME TInv, DSNext
  PROVE  IInv'
<1>1. CASE Next \/ UNCHANGED storeVars
  BY <1>1, NextInv DEF TInv
<1>2. CASE Restart /\ UNCHANGED <<backend, pods, lives, feed>>
  <2>1. calls' = [c \in Calls |-> Idle]
    BY <1>2 DEF Restart
  <2>2. TypeOK' /\ LivesCounted'
    BY <1>2, <2>1 DEF TInv, IInv, TypeOK, LivesCounted, Exists
  <2>3. ReadsArePinned' /\ RemovalsAreFinal'
    BY <1>2, <2>1 DEF TInv, IInv, ReadsArePinned, RemovalsAreFinal, Over, IsAt, Idle
  <2> QED
    BY <2>2, <2>3 DEF IInv
<1> QED
  BY <1>1, <1>2, StoreStep

-----------------------------------------------------------------------------
(* Types of the streams.                                                   *)
LEMMA NoticeOfCall ==
  ASSUME TInv, NEW c \in Calls, calls[c].phase # "idle"
  PROVE  Notice(c) \in Notices
<1>1. calls[c].pod \in Pods
  BY BusyCall DEF TInv, IInv, CallStates
<1> QED
  BY <1>1 DEF Notice, Notices

LEMMA SendTypes ==
  ASSUME TInv, NEW n \in Agents, NEW e \in Notices, Send(n, e)
  PROVE  /\ channel' \in [Agents -> Seq(Notices)]
         /\ \A m \in Agents : Len(channel'[m]) <= Capacity
         /\ lagged' \in [Agents -> BOOLEAN]
<1>1. channel[n] \in Seq(Notices) /\ Len(channel[n]) <= Capacity /\ Len(channel[n]) \in Nat
  BY DEF TInv, StreamsOK
<1>2. CASE Len(channel[n]) < Capacity
  <2>1. /\ channel' = [channel EXCEPT ![n] = Append(channel[n], e)] /\ UNCHANGED lagged
    BY <1>2 DEF Send
  <2>2. Append(channel[n], e) \in Seq(Notices) /\ Len(Append(channel[n], e)) <= Capacity
    BY <1>1, <1>2, CapacityIsPositive
  <2> QED
    BY <2>1, <2>2 DEF TInv, StreamsOK
<1>3. CASE ~(Len(channel[n]) < Capacity)
  <2>1. /\ channel' = [channel EXCEPT ![n] = Append(Tail(channel[n]), e)]
        /\ lagged' = [lagged EXCEPT ![n] = TRUE]
    BY <1>3 DEF Send
  <2>2. channel[n] # <<>>
    BY <1>1, <1>3, CapacityIsPositive
  <2>3. Append(Tail(channel[n]), e) \in Seq(Notices) /\ Len(Append(Tail(channel[n]), e)) <= Capacity
    BY <1>1, <2>2, CapacityIsPositive
  <2> QED
    BY <2>1, <2>3 DEF TInv, StreamsOK
<1> QED
  BY <1>2, <1>3

LEMMA RunTypes ==
  ASSUME TInv, NEW n \in Agents, NEW p \in Pods, Run(n, p) \/ Stop(n, p)
  PROVE  outcome' \in [Agents -> [Pods -> Outcomes]] /\ reporting' \in [Agents -> SUBSET Statuses]
<1>1. ASSUME NEW o \in Outcomes, outcome' = [outcome EXCEPT ![n][p] = o]
      PROVE  outcome' \in [Agents -> [Pods -> Outcomes]]
  BY <1>1 DEF TInv, AgentsOK
<1>2. CASE Run(n, p)
  <2>1. PICK s \in {"RUNNING", "FAILED"} :
          /\ outcome' = [outcome EXCEPT ![n][p] = IF s = "RUNNING" THEN "running" ELSE "failed"]
          /\ reporting' = [reporting EXCEPT ![n] = {[pod |-> p, status |-> s]}]
    BY <1>2 DEF Run
  <2>2. {[pod |-> p, status |-> s]} \in SUBSET Statuses
    BY DEF Statuses
  <2>3. reporting' \in [Agents -> SUBSET Statuses]
    BY <2>1, <2>2 DEF TInv, AgentsOK
  <2> QED
    BY <1>1, <2>1, <2>3 DEF Outcomes
<1>3. CASE Stop(n, p)
  <2>1. PICK o \in {"stopped", "failed"} : outcome' = [outcome EXCEPT ![n][p] = o]
    BY <1>3 DEF Stop
  <2>2. reporting' = reporting
    BY <1>3 DEF Stop
  <2> QED
    BY <1>1, <2>1, <2>2 DEF Outcomes, TInv, AgentsOK
<1> QED
  BY <1>2, <1>3

LEMMA EndTypes ==
  ASSUME TInv, NEW n \in Agents, End(n), UNCHANGED missed
  PROVE  StreamsOK'
<1>1. <<>> \in Seq(Notices) /\ Len(<<>>) <= Capacity
  BY CapacityIsPositive
<1> QED
  BY <1>1 DEF End, TInv, StreamsOK, Watches

LEMMA ReceiveTypes ==
  ASSUME TInv, NEW n \in Agents, Receive(n)
  PROVE  StreamsOK' /\ AgentsOK'
<1>1. CASE Lagged(n)
  <2>1. End(n) /\ UNCHANGED missed
    BY <1>1 DEF Lagged
  <2> QED
    BY <1>1, <2>1, EndTypes DEF Lagged, TInv, AgentsOK, agentVars
<1>2. CASE Handle(n)
  <2>1. channel[n] \in Seq(Notices) /\ channel[n] # <<>> /\ Len(channel[n]) <= Capacity
    BY <1>2 DEF Handle, TInv, StreamsOK
  <2>2. /\ Head(channel[n]) \in Notices /\ Tail(channel[n]) \in Seq(Notices)
        /\ Len(Tail(channel[n])) <= Capacity
    BY <2>1, CapacityIsPositive
  <2>3. Head(channel[n]).pod \in Pods
    BY <2>2 DEF Notices
  <2>4. Run(n, Head(channel[n]).pod) \/ Stop(n, Head(channel[n]).pod)
    BY <1>2 DEF Handle
  <2>5. outcome' \in [Agents -> [Pods -> Outcomes]] /\ reporting' \in [Agents -> SUBSET Statuses]
    BY <2>3, <2>4, RunTypes
  <2>6. channel' = [channel EXCEPT ![n] = Tail(channel[n])]
    BY <1>2 DEF Handle
  <2>7. UNCHANGED <<watch, opening, lagged, missed, dropped>>
    BY <1>2 DEF Handle
  <2> QED
    BY <2>2, <2>5, <2>6, <2>7 DEF TInv, StreamsOK, AgentsOK
<1>3. ASSUME NEW p \in Pods, RunListed(n, p) PROVE StreamsOK' /\ AgentsOK'
  <2>1. outcome' \in [Agents -> [Pods -> Outcomes]] /\ reporting' \in [Agents -> SUBSET Statuses]
    BY <1>3, RunTypes DEF RunListed
  <2>2. /\ opening' = [opening EXCEPT ![n] = opening[n] \ {p}]
        /\ UNCHANGED <<watch, channel, lagged, missed, dropped>>
    BY <1>3 DEF RunListed
  <2> QED
    BY <2>1, <2>2 DEF TInv, StreamsOK, AgentsOK
<1> QED
  BY <1>1, <1>2, <1>3 DEF Receive

LEMMA AdvanceTypes ==
  ASSUME TInv, NEW c \in Calls, Advance(c)
  PROVE  StreamsOK' /\ AgentsOK'
<1>1. CASE Publish(c)
  <2> DEFINE n == Addressee(c)
  <2>1. n \in Agents /\ calls[c].phase = "done" /\ UNCHANGED <<watch, opening, agentVars, dropped>>
    BY <1>1 DEF Publish
  <2>2. calls[c].pod \in Pods /\ Notice(c) \in Notices
    BY <2>1, BusyCall, NoticeOfCall DEF TInv, IInv, CallStates
  <2>3. CASE watch[n] = "open"
    <3>1. Send(n, Notice(c)) /\ UNCHANGED missed
      BY <1>1, <2>3 DEF Publish
    <3> HIDE DEF n
    <3> QED
      BY <2>1, <2>2, <3>1, SendTypes DEF TInv, StreamsOK, AgentsOK, agentVars
  <2>4. CASE watch[n] # "open"
    <3>1. /\ missed' = missed \/ missed' = [missed EXCEPT ![n] = missed[n] \cup {calls[c].pod}]
          /\ UNCHANGED <<channel, lagged>>
      BY <1>1, <2>4 DEF Publish
    <3> HIDE DEF n
    <3>2. missed' \in [Agents -> SUBSET Pods]
      BY <2>1, <2>2, <3>1 DEF TInv, StreamsOK
    <3> QED
      BY <2>1, <3>1, <3>2 DEF TInv, StreamsOK, AgentsOK, agentVars
  <2> QED
    BY <2>3, <2>4
<1>2. CASE GiveUp(c)
  <2>1. UNCHANGED streamVars /\ UNCHANGED agentVars
    BY <1>2 DEF GiveUp
  <2>2. StreamsOK'
    BY <2>1 DEF streamVars, TInv, StreamsOK
  <2>3. dropped' \in [Agents -> SUBSET Pods]
    <3>1. CASE UNCHANGED dropped
      BY <3>1 DEF TInv, AgentsOK
    <3>2. CASE ~UNCHANGED dropped
      <4>1. /\ calls[c].phase \in {"committed", "done"} /\ calls[c].req.node \in Agents
            /\ dropped' = [dropped EXCEPT ![calls[c].req.node] = @ \cup {calls[c].pod}]
        BY <1>2, <3>2 DEF GiveUp
      <4>2. calls[c].pod \in Pods
        BY <4>1, BusyCall DEF TInv, IInv, CallStates
      <4> QED
        BY <4>1, <4>2 DEF TInv, AgentsOK
    <3> QED
      BY <3>1, <3>2
  <2> QED
    BY <2>1, <2>2, <2>3 DEF TInv, AgentsOK, agentVars
<1>3. CASE (StoreProgress(c) /\ Silent) \/ Finish(c)
  BY <1>3 DEF Silent, Finish, streamVars, agentVars, TInv, StreamsOK, AgentsOK
<1> QED
  BY <1>1, <1>2, <1>3 DEF Advance

LEMMA WatchTypes ==
  ASSUME TInv, NEW n \in Agents,
         Snapshot(n) \/ Subscribe(n) \/ Disconnect(n) \/ ReportFails(n) \/ \E c \in Calls : Report(n, c)
  PROVE  StreamsOK' /\ AgentsOK'
<1>1. CASE Snapshot(n)
  <2>1. AssignedTo(n) \subseteq Pods
    BY DEF AssignedTo
  <2> QED
    BY <1>1, <2>1 DEF Snapshot, TInv, StreamsOK, AgentsOK, Watches, agentVars
<1>2. CASE Subscribe(n)
  BY <1>2 DEF Subscribe, TInv, StreamsOK, AgentsOK, Watches, agentVars
<1>3. CASE Disconnect(n)
  BY <1>3, EndTypes DEF Disconnect, TInv, AgentsOK, agentVars
<1>4. CASE ReportFails(n) \/ \E c \in Calls : Report(n, c)
  BY <1>4 DEF ReportFails, Report, streamVars, TInv, StreamsOK, AgentsOK
<1> QED
  BY <1>1, <1>2, <1>3, <1>4

LEMMA TypesStep ==
  ASSUME TInv, DSNext
  PROVE  TInv'
<1>1. CASE Restart
  <2>1. <<>> \in Seq(Notices) /\ Len(<<>>) <= Capacity
    BY CapacityIsPositive
  <2>2. StreamsOK' /\ AgentsOK'
    BY <1>1, <2>1 DEF Restart, TInv, StreamsOK, AgentsOK, Watches, agentVars
  <2> QED
    BY <2>2, StoreInv DEF TInv
<1>2. ASSUME NEW c \in Calls, NEW p \in Pods, StoreRequest(c, p) /\ Silent
      PROVE  StreamsOK' /\ AgentsOK'
  BY <1>2 DEF Silent, streamVars, agentVars, TInv, StreamsOK, AgentsOK
<1> QED
  BY <1>1, <1>2, StoreInv, ReceiveTypes, AdvanceTypes, WatchTypes DEF DSNext, TInv

LEMMA TypesStutter ==
  ASSUME TInv, UNCHANGED dsVars
  PROVE  TInv'
<1>1. IInv'
  BY NextInv DEF dsVars, TInv
<1> QED
  BY <1>1 DEF dsVars, streamVars, agentVars, TInv, StreamsOK, AgentsOK

LEMMA TypesInit == DSInit => TInv
<1>1. <<>> \in Seq(Notices) /\ Len(<<>>) <= Capacity
  BY CapacityIsPositive
<1> QED
  BY <1>1, InitInv DEF DSInit, TInv, StreamsOK, AgentsOK, Watches, Outcomes

(* Streams and agents are well typed, and no channel holds more events     *)
(* than its capacity.                                                      *)
THEOREM StreamTypes == DSSpec => []DSTypeOK
<1>1. TInv => DSTypeOK
  BY DEF TInv, IInv, StreamsOK, AgentsOK, Statuses, DSTypeOK
<1>2. TInv /\ [DSNext]_dsVars => TInv'
  BY TypesStep, TypesStutter
<1> QED
  BY <1>1, <1>2, TypesInit, PTL DEF DSSpec

-----------------------------------------------------------------------------
(* A first life that is over stays over.                                   *)
LEMMA OverStays ==
  ASSUME TInv, DSNext, NEW p \in Pods, Over(1, p)
  PROVE  Over(1, p)'
<1>1. CASE UNCHANGED <<pods, lives>>
  BY <1>1 DEF Over
<1>2. CASE Next
  <2>1. ASSUME NEW q \in Pods, Created(q) PROVE Over(1, p)'
    BY <2>1 DEF Created, Over, TInv, IInv, TypeOK
  <2>2. ASSUME NEW q \in Pods, Updated(q) PROVE Over(1, p)'
    BY <2>2 DEF Updated, Over, TInv, IInv, TypeOK
  <2>3. ASSUME NEW q \in Pods, Removed(q) PROVE Over(1, p)'
    BY <2>3 DEF Removed, Over, TInv, IInv, TypeOK, NoPod
  <2> QED
    BY <1>1, <1>2, <2>1, <2>2, <2>3, StepEffect DEF TInv
<1> QED
  BY <1>1, <1>2, StoreStep DEF storeVars

(* A removal of a pod that existed ends a life of its name.                *)
LEMMA RemovedIsOver ==
  ASSUME IInv, NEW p \in Pods, pods' = [pods EXCEPT ![p] = NoPod], UNCHANGED lives, lives[p] >= 1
  PROVE  Over(1, p)'
BY DEF Over, IInv, TypeOK, NoPod

LEMMA Turned ==
  ASSUME IInv, NEW c \in Calls, NEW d \in Calls, NEW v, Turn(d, v)
  PROVE  calls'[c] = IF c = d THEN v ELSE calls[c]
BY DEF IInv, TypeOK, Turn

LEMMA EndedCall ==
  ASSUME NEW req, NEW p, NEW rec
  PROVE  /\ Stopping(Call("done", req, p, rec)) <=> req.op # "place"
         /\ Call("done", req, p, rec).pod = p
         /\ ~Stopping(Idle)
         /\ ~Stopping(Call("checked", req, p, rec))
         /\ ~Stopping(Call("read", req, p, rec))
         /\ ~Stopping(Call("refused", req, p, rec))
         /\ Stopping(Call("committed", req, p, rec)) <=> req.op = "remove"
         /\ Call("committed", req, p, rec).pod = p
BY DEF Stopping, Call, Idle

(* What becomes of the calls: one is about to stop a pod only if it was,   *)
(* or has just removed it.                                                 *)
Fresh(c) == Stopping(calls[c])' =>
  \/ Stopping(calls[c]) /\ calls'[c].pod = calls[c].pod
  \/ (calls[c].pod \in Pods)' /\ Over(1, calls[c].pod)'

LEMMA ProgressIsFresh ==
  ASSUME IInv, NEW c \in Calls, NEW d \in Calls, Progress(d)
  PROVE  Fresh(c)
<1>0. CASE c # d
  <2>1. PICK v : Turn(d, v)
    BY DEF Progress, ReportGone, ReadForReport, ReportInMemory, Commit, Delete, Announce, Return, Abandon,
           Become, Begin, Put, Ended
  <2> QED
    BY <1>0, <2>1, Turned DEF Fresh
<1> SUFFICES ASSUME c = d PROVE Fresh(c)
  BY <1>0
<1>1. calls[c] \in CallStates
  BY BusyCall DEF Progress, ReportGone, ReadForReport, ReportInMemory, Commit, Delete, Announce, Return,
                  Abandon, IsAt, IInv
<1>2. calls[c].pod \in Pods
  BY <1>1 DEF CallStates
<1>3. CASE ReportGone(c) \/ ReadForReport(c)
  BY <1>3, Turned, EndedCall DEF ReportGone, ReadForReport, Become, Begin, Fresh
<1>4. CASE ReportInMemory(c)
  <2>1. /\ Ended(c, calls[c].req, calls[c].pod, Mutated(calls[c].pod, calls[c].req))
        /\ calls[c].req.op = "report"
    BY <1>4 DEF ReportInMemory, IsAt
  <2>2. Turn(c, Idle)
    BY <2>1 DEF Ended
  <2> QED
    BY <2>2, Turned, EndedCall DEF Fresh
<1>5. CASE Commit(c)
  <2>1. calls[c].req.op # "remove"
    BY <1>5 DEF Commit, IsAt, Updates
  <2>2. PICK rec : Turn(c, Call("committed", calls[c].req, calls[c].pod, rec))
                   \/ Turn(c, Call("refused", calls[c].req, calls[c].pod, rec))
    BY <1>5 DEF Commit, Put, Become, Begin
  <2> QED
    BY <2>1, <2>2, Turned, EndedCall DEF Fresh
<1>6. CASE Delete(c)
  <2>1. /\ pods' = [pods EXCEPT ![calls[c].pod] = NoPod] /\ UNCHANGED lives
        /\ calls[c].phase = "read" /\ calls[c].req.op = "remove"
    BY <1>6 DEF Delete, IsAt
  <2>2. CASE calls[c].rec = NoPod
    <3>1. Turn(c, Call("refused", calls[c].req, calls[c].pod, calls[c].rec))
      BY <1>6, <2>2 DEF Delete, Become, Begin
    <3> QED
      BY <3>1, Turned, EndedCall DEF Fresh
  <2>3. CASE calls[c].rec # NoPod
    <3>1. Turn(c, Call("committed", calls[c].req, calls[c].pod, calls[c].rec))
      BY <1>6, <2>3 DEF Delete, Become, Begin
    <3>2. Pinned(calls[c].rec, calls[c].pod) /\ calls[c].rec \in Records
      BY <1>1, <2>1, <2>3 DEF IInv, ReadsArePinned, CallStates
    <3>3. lives[calls[c].pod] >= 1
      BY <1>2, <3>2 DEF Pinned, Records, IInv, TypeOK
    <3>4. Over(1, calls[c].pod)'
      <4>1. PICK p \in Pods : p = calls[c].pod
        BY <1>2
      <4>2. Over(1, p)'
        BY <2>1, <3>3, <4>1, RemovedIsOver
      <4>3. calls'[c].pod = p
        BY <3>1, <4>1, Turned, EndedCall
      <4> QED
        BY <4>2, <4>3 DEF Over
    <3>5. calls'[c].pod = calls[c].pod
      BY <3>1, Turned, EndedCall
    <3> QED
      BY <1>2, <3>4, <3>5 DEF Fresh, Over
  <2> QED
    BY <2>2, <2>3
<1>7. CASE Announce(c)
  <2>1. Ended(c, calls[c].req, calls[c].pod, calls[c].rec) /\ calls[c].phase = "committed"
    BY <1>7 DEF Announce
  <2>2. CASE calls[c].req.op \in {"place", "remove"}
    <3>1. Turn(c, Call("done", calls[c].req, calls[c].pod, calls[c].rec))
      BY <2>1, <2>2 DEF Ended
    <3> QED
      BY <2>1, <2>2, <3>1, Turned, EndedCall DEF Fresh, Stopping
  <2>3. CASE calls[c].req.op \notin {"place", "remove"}
    <3>1. Turn(c, Idle)
      BY <2>1, <2>3 DEF Ended
    <3> QED
      BY <3>1, Turned, EndedCall DEF Fresh
  <2> QED
    BY <2>2, <2>3
<1>8. CASE Return(c) \/ Abandon(c)
  BY <1>8, Turned, EndedCall DEF Return, Abandon, Fresh
<1> QED
  BY <1>3, <1>4, <1>5, <1>6, <1>7, <1>8 DEF Progress

LEMMA RequestIsFresh ==
  ASSUME IInv, NEW c \in Calls, NEW d \in Calls, NEW p \in Pods, Request(d, p)
  PROVE  Fresh(c)
<1>1. CASE Create(d, p)
  <2>1. PICK rec : Turn(d, Call("committed", Creation, p, rec))
    BY <1>1 DEF Create, Begin
  <2>2. Creation.op = "create"
    BY DEF Creation
  <2> QED
    BY <2>1, <2>2, Turned, EndedCall DEF Fresh
<1>2. CASE ReadForRemoval(d, p)
  BY <1>2, Turned, EndedCall DEF ReadForRemoval, Begin, Fresh
<1>3. CASE RemoveNothing(d, p)
  BY <1>3, Turned, EndedCall DEF RemoveNothing, Begin, Fresh
<1>4. CASE RemoveInMemory(d, p)
  <2>1. /\ pods' = [pods EXCEPT ![p] = NoPod] /\ UNCHANGED lives /\ Exists(p)
    BY <1>4 DEF RemoveInMemory, ChangeInMemory
  <2>2. Over(1, p)'
    BY <2>1, RemovedIsOver DEF IInv, LivesCounted
  <2>3. Turn(d, Call("done", Removal, p, pods[p]))
    BY <1>4 DEF RemoveInMemory, Ended, Removal
  <2>4. CASE c = d
    <3>1. calls'[c].pod = p
      BY <2>3, <2>4, Turned, EndedCall
    <3> QED
      BY <2>2, <3>1 DEF Fresh, Over
  <2>5. CASE c # d
    BY <2>3, <2>5, Turned DEF Fresh
  <2> QED
    BY <2>4, <2>5
<1>5. ASSUME NEW req \in Assignments, ReadForAssign(d, p, req) PROVE Fresh(c)
  BY <1>5, Turned, EndedCall DEF ReadForAssign, Begin, Fresh
<1>6. ASSUME NEW req \in Assignments, AssignInMemory(d, p, req) PROVE Fresh(c)
  <2>1. Ended(d, req, p, Mutated(p, req)) /\ req.op \in {"place", "unplace"}
    BY <1>6 DEF AssignInMemory, Assignments
  <2>2. PICK v : Turn(d, v) /\ ~Stopping(v)
    BY <2>1, EndedCall DEF Ended
  <2> QED
    BY <2>2, Turned DEF Fresh
<1>7. ASSUME NEW req \in Reports, CheckReport(d, p, req) PROVE Fresh(c)
  BY <1>7, Turned, EndedCall DEF CheckReport, Begin, Fresh
<1> QED
  BY <1>1, <1>2, <1>3, <1>4, <1>5, <1>6, <1>7 DEF Request

LEMMA StoppingIsLate ==
  ASSUME TInv, StopsAreLate, DSNext, NEW c \in Calls, Stopping(calls[c])'
  PROVE  Over(1, calls[c].pod)'
<1>1. CASE Next
  <2>1. Fresh(c)
    BY <1>1, ProgressIsFresh, RequestIsFresh DEF Next, TInv
  <2>2. CASE (calls[c].pod \in Pods)' /\ Over(1, calls[c].pod)'
    BY <2>2
  <2>3. CASE Stopping(calls[c]) /\ calls'[c].pod = calls[c].pod
    <3>1. calls[c].pod \in Pods
      BY <2>3, BusyCall DEF TInv, IInv, CallStates, Stopping
    <3>2. Over(1, calls[c].pod)
      BY <2>3 DEF StopsAreLate
    <3>3. PICK p \in Pods : p = calls[c].pod
      BY <3>1
    <3>4. Over(1, p)'
      BY <3>2, <3>3, OverStays
    <3> QED
      BY <2>3, <3>3, <3>4
  <2> QED
    BY <2>1, <2>2, <2>3 DEF Fresh
<1>2. CASE UNCHANGED storeVars
  BY <1>2 DEF storeVars, Stopping, StopsAreLate, Over
<1>3. CASE Restart
  BY <1>3 DEF Restart, Stopping, Idle
<1> QED
  BY <1>1, <1>2, <1>3, StoreStep
-----------------------------------------------------------------------------
(* Channels: what appending and taking an event does to them.              *)
LEMMA LateSeqs ==
  ASSUME NEW s \in Seq(Notices), NEW gone, NEW more, gone \subseteq more, Late(s, gone)
  PROVE  /\ Late(s, more) /\ Late(<<>>, more)
         /\ s # <<>> => Late(Tail(s), more)
         /\ \A e \in Notices : (e.action = "STOP" => e.pod \in more) => Late(Append(s, e), more)
<1>1. s # <<>> => Late(Tail(s), more)
  <2> SUFFICES ASSUME s # <<>>, NEW i \in DOMAIN Tail(s), Tail(s)[i].action = "STOP"
               PROVE  Tail(s)[i].pod \in more
    BY DEF Late
  <2>1. i + 1 \in DOMAIN s /\ Tail(s)[i] = s[i + 1]
    OBVIOUS
  <2> QED
    BY <2>1 DEF Late
<1>2. ASSUME NEW e \in Notices, e.action = "STOP" => e.pod \in more
      PROVE  Late(Append(s, e), more)
  <2> SUFFICES ASSUME NEW i \in DOMAIN Append(s, e), Append(s, e)[i].action = "STOP"
               PROVE  Append(s, e)[i].pod \in more
    BY DEF Late
  <2>1. (i \in DOMAIN s /\ Append(s, e)[i] = s[i]) \/ Append(s, e)[i] = e
    OBVIOUS
  <2> QED
    BY <1>2, <2>1 DEF Late
<1> QED
  BY <1>1, <1>2 DEF Late

LEMMA CarriesSeqs ==
  ASSUME NEW s \in Seq(Notices), NEW p
  PROVE  /\ \A e \in Notices : e.action = "RUN" /\ e.pod = p => Carries(Append(s, e), p)
         /\ \A e \in Notices : Carries(s, p) => Carries(Append(s, e), p)
         /\ Carries(s, p) =>
              \/ Head(s).action = "RUN" /\ Head(s).pod = p
              \/ Carries(Tail(s), p)
<1>1. ASSUME NEW e \in Notices
      PROVE  /\ e.action = "RUN" /\ e.pod = p => Carries(Append(s, e), p)
             /\ Carries(s, p) => Carries(Append(s, e), p)
  <2>1. Len(s) + 1 \in DOMAIN Append(s, e) /\ Append(s, e)[Len(s) + 1] = e
    OBVIOUS
  <2>2. \A i \in DOMAIN s : i \in DOMAIN Append(s, e) /\ Append(s, e)[i] = s[i]
    OBVIOUS
  <2> QED
    BY <2>1, <2>2 DEF Carries
<1>2. ASSUME Carries(s, p), ~(Head(s).action = "RUN" /\ Head(s).pod = p)
      PROVE  Carries(Tail(s), p)
  <2>1. PICK i \in DOMAIN s : s[i].action = "RUN" /\ s[i].pod = p
    BY <1>2 DEF Carries
  <2>2. s # <<>> /\ i # 1 /\ i \in 1 .. Len(s)
    BY <1>2, <2>1
  <2>3. i - 1 \in DOMAIN Tail(s) /\ Tail(s)[i - 1] = s[i]
    BY <2>2
  <2> QED
    BY <2>1, <2>3 DEF Carries
<1> QED
  BY <1>1, <1>2

LEMMA OversGrow ==
  ASSUME TInv, DSNext
  PROVE  Overs \subseteq Overs'
BY OverStays DEF Overs

(* What a step can do to a channel, and to what has become of an event.    *)
Deliverable(e) == e \in Notices /\ (e.action = "STOP" => e.pod \in Overs)
Moved(n, s) ==
  \/ s = channel[n] \/ s = <<>>
  \/ channel[n] # <<>> /\ s = Tail(channel[n])
  \/ \E e : Deliverable(e) /\ s = Append(channel[n], e)
  \/ \E e : Deliverable(e) /\ channel[n] # <<>> /\ s = Append(Tail(channel[n]), e)
Became(n, p, o) ==
  \/ o = outcome[n][p] \/ o \in {"running", "failed"}
  \/ channel[n] # <<>> /\ Head(channel[n]).action = "STOP" /\ Head(channel[n]).pod = p

LEMMA PublishMoves ==
  ASSUME TInv, StopsAreLate, NEW c \in Calls, Publish(c), NEW n \in Agents
  PROVE  Moved(n, channel'[n])
<1> DEFINE m == Addressee(c)
<1>1. calls[c].phase = "done" /\ m \in Agents
  BY DEF Publish
<1>2. Notice(c) \in Notices
  BY <1>1, NoticeOfCall
<1>3. Notice(c).action = "STOP" => Notice(c).pod \in Overs
  <2>1. calls[c].pod \in Pods
    BY <1>1, BusyCall DEF TInv, IInv, CallStates
  <2>2. Notice(c).action = "STOP" => Over(1, calls[c].pod)
    BY <1>1 DEF Notice, StopsAreLate, Stopping
  <2> QED
    BY <2>1, <2>2 DEF Notice, Overs
<1>4. Deliverable(Notice(c))
  BY <1>2, <1>3 DEF Deliverable
<1>5. CASE watch[m] = "open"
  <2>1. Send(m, Notice(c))
    BY <1>5 DEF Publish
  <2>2. CASE Len(channel[m]) < Capacity
    <3>1. channel' = [channel EXCEPT ![m] = Append(channel[m], Notice(c))]
      BY <2>1, <2>2 DEF Send
    <3> QED
      BY <1>1, <1>4, <3>1 DEF Moved, TInv, StreamsOK
  <2>3. CASE ~(Len(channel[m]) < Capacity)
    <3>1. channel' = [channel EXCEPT ![m] = Append(Tail(channel[m]), Notice(c))]
      BY <2>1, <2>3 DEF Send
    <3>2. channel[m] # <<>>
      BY <1>1, <2>3, CapacityIsPositive DEF TInv, StreamsOK
    <3> QED
      BY <1>1, <1>4, <3>1, <3>2 DEF Moved, TInv, StreamsOK
  <2> QED
    BY <2>2, <2>3
<1>6. CASE watch[m] # "open"
  BY <1>6 DEF Publish, Moved
<1> QED
  BY <1>5, <1>6

LEMMA ReceiveMoves ==
  ASSUME TInv, NEW m \in Agents, Receive(m), NEW n \in Agents, NEW p \in Pods
  PROVE  Moved(n, channel'[n]) /\ Became(n, p, outcome'[n][p])
<1>1. CASE Lagged(m)
  BY <1>1 DEF Lagged, End, agentVars, Moved, Became, TInv, StreamsOK
<1>2. ASSUME NEW q \in Pods, Run(m, q) PROVE Became(n, p, outcome'[n][p])
  <2>1. PICK o \in {"running", "failed"} : outcome' = [outcome EXCEPT ![m][q] = o]
    BY <1>2 DEF Run
  <2>2. outcome'[n][p] = outcome[n][p] \/ outcome'[n][p] = o
    BY <2>1 DEF TInv, AgentsOK
  <2> QED
    BY <2>2 DEF Became
<1>3. CASE Handle(m)
  <2>1. /\ channel[m] # <<>> /\ channel[m] \in Seq(Notices)
        /\ channel' = [channel EXCEPT ![m] = Tail(channel[m])]
    BY <1>3 DEF Handle, TInv, StreamsOK
  <2>2. Moved(n, channel'[n])
    BY <2>1 DEF Moved, TInv, StreamsOK
  <2>3. PICK q \in Pods : q = Head(channel[m]).pod
    <3>1. Head(channel[m]) \in Notices
      BY <2>1
    <3> QED
      BY <3>1 DEF Notices
  <2>4. CASE Head(channel[m]).action = "RUN"
    BY <1>2, <1>3, <2>2, <2>3, <2>4 DEF Handle
  <2>5. CASE Head(channel[m]).action # "RUN"
    <3>0. Head(channel[m]) \in Notices
      BY <2>1
    <3>1. Head(channel[m]).action = "STOP"
      BY <2>5, <3>0 DEF Notices
    <3>2. Stop(m, q)
      BY <1>3, <2>3, <2>5 DEF Handle
    <3>3. PICK o : outcome' = [outcome EXCEPT ![m][q] = o]
      BY <3>2 DEF Stop
    <3>4. outcome'[n][p] = outcome[n][p] \/ (m = n /\ p = q)
      BY <3>3 DEF TInv, AgentsOK
    <3>5. Became(n, p, outcome'[n][p])
      BY <2>1, <2>3, <3>1, <3>4 DEF Became
    <3> QED
      BY <2>2, <3>5
  <2> QED
    BY <2>4, <2>5
<1>4. ASSUME NEW q \in Pods, RunListed(m, q)
      PROVE  Moved(n, channel'[n]) /\ Became(n, p, outcome'[n][p])
  BY <1>2, <1>4 DEF RunListed, Moved
<1> QED
  BY <1>1, <1>3, <1>4 DEF Receive

LEMMA StepMoves ==
  ASSUME TInv, StopsAreLate, DSNext, NEW n \in Agents, NEW p \in Pods
  PROVE  Moved(n, channel'[n]) /\ Became(n, p, outcome'[n][p])
<1>1. ASSUME NEW c \in Calls, Advance(c) PROVE Moved(n, channel'[n]) /\ Became(n, p, outcome'[n][p])
  <2>1. CASE Publish(c)
    BY <2>1, PublishMoves DEF Publish, agentVars, Became
  <2>2. CASE ~Publish(c)
    BY <1>1, <2>2 DEF Advance, Silent, Finish, GiveUp, streamVars, agentVars, Moved, Became
  <2> QED
    BY <2>1, <2>2
<1>2. ASSUME NEW m \in Agents,
             Snapshot(m) \/ Subscribe(m) \/ ReportFails(m) \/ \E c \in Calls : Report(m, c)
      PROVE  UNCHANGED <<channel, outcome>>
  BY <1>2 DEF Snapshot, Subscribe, ReportFails, Report, streamVars, agentVars
<1>3. ASSUME NEW m \in Agents, Disconnect(m)
      PROVE  Moved(n, channel'[n]) /\ Became(n, p, outcome'[n][p])
  BY <1>3 DEF Disconnect, End, agentVars, Moved, Became, TInv, StreamsOK
<1>4. CASE Restart
  BY <1>4 DEF Restart, agentVars, Moved, Became
<1>5. CASE UNCHANGED <<channel, outcome>>
  BY <1>5 DEF Moved, Became
<1>6. CASE Silent
  BY <1>5, <1>6 DEF Silent, streamVars, agentVars
<1> QED
  BY <1>1, <1>2, <1>3, <1>4, <1>5, <1>6, ReceiveMoves DEF DSNext

LEMMA StopsStep ==
  ASSUME TInv, StopsAreLate, DSNext
  PROVE  StopsAreLate'
<1>1. Overs \subseteq Overs'
  BY OversGrow
<1>2. \A c \in Calls : Stopping(calls[c])' => Over(1, calls[c].pod)'
  BY StoppingIsLate
<1>3. ASSUME NEW n \in Agents PROVE Late(channel'[n], Overs')
  <2>1. PICK s \in Seq(Notices) : s = channel[n]
    BY DEF TInv, StreamsOK
  <2>2. Late(s, Overs)
    BY <2>1 DEF StopsAreLate
  <2>3. CASE Pods = {}
    <3>1. Notices = {}
      BY <2>3 DEF Notices
    <3>2. channel'[n] \in Seq(Notices)
      BY TypesStep DEF TInv, StreamsOK
    <3>3. DOMAIN channel'[n] = {}
      BY <3>1, <3>2
    <3> QED
      BY <3>3 DEF Late
  <2>4. CASE Pods # {}
    <3>1. Moved(n, channel'[n])
      BY <2>4, StepMoves
    <3>2. CASE channel'[n] = s \/ channel'[n] = <<>> \/ (s # <<>> /\ channel'[n] = Tail(s))
      BY <1>1, <2>2, <3>2, LateSeqs
    <3>3. ASSUME NEW e, Deliverable(e),
                 channel'[n] = Append(s, e) \/ (s # <<>> /\ channel'[n] = Append(Tail(s), e))
          PROVE  Late(channel'[n], Overs')
      <4>1. e \in Notices /\ (e.action = "STOP" => e.pod \in Overs')
        BY <1>1, <3>3 DEF Deliverable
      <4>2. CASE channel'[n] = Append(s, e)
        BY <1>1, <2>2, <4>1, <4>2, LateSeqs
      <4>3. CASE s # <<>> /\ channel'[n] = Append(Tail(s), e)
        <5>1. Tail(s) \in Seq(Notices) /\ Late(Tail(s), Overs)
          BY <2>2, <4>3, LateSeqs
        <5> QED
          BY <1>1, <4>1, <4>3, <5>1, LateSeqs
      <4> QED
        BY <3>3, <4>2, <4>3
    <3> QED
      BY <2>1, <3>1, <3>2, <3>3 DEF Moved
  <2> QED
    BY <2>3, <2>4
<1>4. ASSUME NEW n \in Agents, NEW p \in Pods, outcome'[n][p] = "stopped"
      PROVE  p \in Overs'
  <2>1. Became(n, p, outcome'[n][p])
    BY StepMoves
  <2>2. CASE outcome[n][p] = "stopped"
    BY <1>1, <2>2 DEF StopsAreLate
  <2>3. CASE channel[n] # <<>> /\ Head(channel[n]).action = "STOP" /\ Head(channel[n]).pod = p
    <3>1. 1 \in DOMAIN channel[n] /\ Head(channel[n]) = channel[n][1]
      BY <2>3 DEF TInv, StreamsOK
    <3> QED
      BY <1>1, <2>3, <3>1 DEF StopsAreLate, Late
  <2> QED
    BY <1>4, <2>1, <2>2, <2>3 DEF Became
<1> QED
  BY <1>2, <1>3, <1>4 DEF StopsAreLate
-----------------------------------------------------------------------------
(* A pod in its first life that is assigned to a node was so before, or is *)
(* being placed there by a call that has yet to tell it.                   *)
LEMMA TellingCall ==
  ASSUME NEW req, NEW p, NEW rec
  PROVE  /\ req.op = "place" => Telling(Call("committed", req, p, rec), req.node, p)
         /\ req.op = "place" => Telling(Call("done", req, p, rec), req.node, p)
BY DEF Telling, Call

LEMMA AssignmentIsPlaced ==
  ASSUME TInv, Next, NEW n \in Agents, NEW p \in Pods, FirstAssigned(n, p)'
  PROVE  FirstAssigned(n, p) \/ \E c \in Calls : Telling(calls'[c], n, p)
<1> USE DEF FirstAssigned
<1>0. n \in Nodes /\ n # NoNode
  BY AgentsAreNodes, NoNodeIsNoNode
<1>1. CASE pods'[p] = pods[p]
  BY <1>1
<1>2. ASSUME NEW c \in Calls, NEW q \in Pods, Create(c, q) PROVE FirstAssigned(n, p)
  BY <1>0, <1>2 DEF Create, TInv, IInv, TypeOK, NoPod
<1>3. ASSUME NEW q \in Pods, pods' = [pods EXCEPT ![q] = NoPod] PROVE FirstAssigned(n, p)
  BY <1>3 DEF TInv, IInv, TypeOK, NoPod
<1>4. ASSUME NEW q \in Pods, NEW req \in Requests, NEW rec \in Records, NEW old \in Records,
             pods' = [pods EXCEPT ![q] = rec], q = p, Exists(p),
             old.version = pods[p].version, Pinned(old, p),
             rec.life = pods[p].life,
             rec.node = IF req.op = "report" THEN old.node ELSE req.node
      PROVE  FirstAssigned(n, p) \/ (req.op = "place" /\ req.node = n)
  <2>1. pods'[p] = rec /\ pods[p].life = 1 /\ lives[p] = 1
    BY <1>4 DEF TInv, IInv, TypeOK, LivesCounted
  <2>2. CASE req.op = "report"
    <3>1. old = pods[p]
      BY <1>4, <2>1 DEF Pinned, Records
    <3> QED
      BY <1>4, <2>1, <2>2, <3>1
  <2>3. CASE req.op # "report"
    <3>1. req.node = n
      BY <1>4, <2>1, <2>3
    <3>2. req.op = "place"
      BY <1>0, <2>3, <3>1 DEF Requests, Assignments, Reports, Creation, Removal
    <3> QED
      BY <3>1, <3>2
  <2> QED
    BY <2>2, <2>3
<1>5. ASSUME NEW c \in Calls, Commit(c), pods'[p] # pods[p]
      PROVE  FirstAssigned(n, p) \/ \E d \in Calls : Telling(calls'[d], n, p)
  <2>1. calls[c] \in CallStates /\ calls[c].phase = "read" /\ calls[c].req.op \in Updates
    BY <1>5, BusyCall DEF Commit, IsAt, TInv, IInv
  <2>2. calls[c].pod \in Pods /\ calls[c].rec \in Records /\ calls[c].req \in Requests
    BY <2>1 DEF CallStates
  <2>3. pods[calls[c].pod].version = calls[c].rec.version /\ Put(c)
    BY <1>5 DEF Commit
  <2>4. PICK rec : /\ rec = PutRecord(calls[c].rec, calls[c].req, calls[c].pod)
                   /\ pods' = [pods EXCEPT ![calls[c].pod] = rec]
                   /\ Turn(c, Call("committed", calls[c].req, calls[c].pod, rec))
    BY <2>3 DEF Put, Become, Begin, PutRecord
  <2>5. /\ rec \in Records /\ rec.life = pods[calls[c].pod].life
        /\ rec.node = IF calls[c].req.op = "report" THEN calls[c].rec.node ELSE calls[c].req.node
    BY <2>2, <2>4, PutFields DEF TInv, IInv
  <2>6. p = calls[c].pod
    BY <1>5, <2>4 DEF TInv, IInv, TypeOK
  <2>7. Pinned(calls[c].rec, p)
    BY <2>1, <2>6 DEF TInv, IInv, ReadsArePinned, Updates
  <2>8. Exists(p)
    BY <2>2, <2>3, <2>6, <2>7 DEF Pinned, Exists, Records
  <2>9. FirstAssigned(n, p) \/ (calls[c].req.op = "place" /\ calls[c].req.node = n)
    BY <1>4, <2>2, <2>3, <2>4, <2>5, <2>6, <2>7, <2>8
  <2>10. CASE calls[c].req.op = "place" /\ calls[c].req.node = n
    <3>1. calls'[c] = Call("committed", calls[c].req, p, rec)
      BY <2>4, <2>6, Turned DEF TInv
    <3> QED
      BY <2>10, <3>1, TellingCall
  <2> QED
    BY <2>9, <2>10
<1>6. ASSUME NEW c \in Calls, NEW q \in Pods, NEW req \in Assignments \cup Reports,
             ChangeInMemory(q, req, Mutated(q, req)), Ended(c, req, q, Mutated(q, req)),
             pods'[p] # pods[p]
      PROVE  FirstAssigned(n, p) \/ \E d \in Calls : Telling(calls'[d], n, p)
  <2>1. req \in Requests
    BY DEF Requests
  <2>2. PICK rec : rec = Mutated(q, req)
    OBVIOUS
  <2>3. /\ rec \in Records /\ rec.life = pods[q].life
        /\ rec.node = IF req.op = "report" THEN pods[q].node ELSE req.node
    BY <2>1, <2>2, MutatedFields DEF TInv, IInv
  <2>4. pods' = [pods EXCEPT ![q] = rec] /\ Exists(q)
    BY <1>6, <2>2 DEF ChangeInMemory
  <2>5. p = q
    BY <1>6, <2>4 DEF TInv, IInv, TypeOK
  <2>6. pods[p] \in Records /\ Pinned(pods[p], p)
    BY <2>4, <2>5, ReadPinned DEF TInv, IInv, TypeOK
  <2>7. FirstAssigned(n, p) \/ (req.op = "place" /\ req.node = n)
    BY <1>4, <2>1, <2>3, <2>4, <2>5, <2>6
  <2>8. CASE req.op = "place" /\ req.node = n
    <3>1. Turn(c, Call("done", req, p, rec))
      BY <1>6, <2>2, <2>5, <2>8 DEF Ended
    <3>2. calls'[c] = Call("done", req, p, rec)
      BY <3>1, Turned DEF TInv
    <3> QED
      BY <2>8, <3>2, TellingCall
  <2> QED
    BY <2>7, <2>8
<1>7. ASSUME NEW c \in Calls, Progress(c), pods'[p] # pods[p]
      PROVE  FirstAssigned(n, p) \/ \E d \in Calls : Telling(calls'[d], n, p)
  <2>1. CASE Delete(c)
    <3>1. calls[c].pod \in Pods
      BY <2>1, BusyCall DEF Delete, IsAt, TInv, IInv, CallStates
    <3> QED
      BY <1>3, <2>1, <3>1 DEF Delete
  <2>2. CASE ReportInMemory(c)
    <3>1. calls[c] \in CallStates /\ calls[c].req.op = "report"
      BY <2>2, BusyCall DEF ReportInMemory, IsAt, TInv, IInv
    <3>2. calls[c].pod \in Pods /\ calls[c].req \in Assignments \cup Reports
      BY <3>1 DEF CallStates, Requests, Creation, Removal
    <3> QED
      BY <1>6, <1>7, <2>2, <3>2 DEF ReportInMemory
  <2> QED
    BY <1>5, <1>7, <2>1, <2>2
       DEF Progress, ReportGone, ReadForReport, Announce, Return, Abandon
<1>8. ASSUME NEW c \in Calls, NEW q \in Pods, Request(c, q), pods'[p] # pods[p]
      PROVE  FirstAssigned(n, p) \/ \E d \in Calls : Telling(calls'[d], n, p)
  <2>1. CASE RemoveInMemory(c, q)
    BY <1>3, <2>1 DEF RemoveInMemory, ChangeInMemory
  <2>2. ASSUME NEW req \in Assignments, AssignInMemory(c, q, req)
        PROVE  FirstAssigned(n, p) \/ \E d \in Calls : Telling(calls'[d], n, p)
    BY <1>6, <1>8, <2>2 DEF AssignInMemory
  <2> QED
    BY <1>2, <1>8, <2>1, <2>2 DEF Request, ReadForRemoval, RemoveNothing, ReadForAssign, CheckReport
<1> QED
  BY <1>1, <1>7, <1>8 DEF Next
-----------------------------------------------------------------------------
(* What is on its way stays on its way until it arrives, is excepted or    *)
(* the stream ends.                                                        *)
LEMMA FirstIsNotOver ==
  ASSUME NEW n, NEW p, FirstAssigned(n, p)
  PROVE  p \notin Overs
BY DEF FirstAssigned, Overs, Over

LEMMA ToldStays ==
  ASSUME TInv, StopsAreLate, DSNext, NEW n \in Agents, NEW p \in Pods, Told(n, p), p \notin Overs
  PROVE  Told(n, p)'
<1>1. Became(n, p, outcome'[n][p])
  BY StepMoves
<1>2. CASE channel[n] # <<>> /\ Head(channel[n]).action = "STOP" /\ Head(channel[n]).pod = p
  <2>1. 1 \in DOMAIN channel[n] /\ Head(channel[n]) = channel[n][1]
    BY <1>2 DEF TInv, StreamsOK
  <2> QED
    BY <1>2, <2>1 DEF StopsAreLate, Late
<1> QED
  BY <1>1, <1>2 DEF Became, Told

LEMMA TellingStays ==
  ASSUME IInv, NEW c \in Calls, NEW n, NEW p, Telling(calls[c], n, p), NEW d \in Calls,
         StoreProgress(d) \/ \E q \in Pods : StoreRequest(d, q)
  PROVE  Telling(calls'[c], n, p)
<1>1. CASE c # d
  <2>1. PICK v : Turn(d, v)
    BY DEF StoreProgress, ReportGone, ReadForReport, ReportInMemory, Commit, Delete, Announce,
           Become, Begin, Put, Ended, StoreRequest, Create, ReadForRemoval, RemoveInMemory,
           RemoveNothing, ReadForAssign, AssignInMemory
  <2> QED
    BY <1>1, <2>1, Turned
<1>2. CASE c = d
  <2>1. calls[c].phase \in {"committed", "done"} /\ calls[c].req.op = "place"
        /\ calls[c].req.node = n /\ calls[c].pod = p
    BY DEF Telling
  <2>2. Announce(c)
    BY <1>2, <2>1 DEF StoreProgress, ReportGone, ReadForReport, ReportInMemory, Commit, Delete, IsAt,
                      StoreRequest, Create, ReadForRemoval, RemoveInMemory, RemoveNothing,
                      ReadForAssign, AssignInMemory, IsIdle
  <2>3. Turn(c, Call("done", calls[c].req, p, calls[c].rec))
    BY <2>1, <2>2 DEF Announce, Ended
  <2>4. calls'[c] = Call("done", calls[c].req, p, calls[c].rec)
    BY <2>3, Turned
  <2> QED
    BY <2>1, <2>4, TellingCall
<1> QED
  BY <1>1, <1>2

LEMMA StoreCovers ==
  ASSUME TInv, NEW n \in Agents, NEW p \in Pods, OnStream(n, p) \/ Announced(n, p),
         NEW d \in Calls, Silent,
         StoreProgress(d) \/ \E q \in Pods : StoreRequest(d, q)
  PROVE  OnStream(n, p)' \/ Announced(n, p)'
<1>1. CASE OnStream(n, p)
  BY <1>1 DEF OnStream, Silent, streamVars
<1>2. ASSUME NEW c \in Calls, Telling(calls[c], n, p) PROVE Announced(n, p)'
  <2>1. Telling(calls'[c], n, p)
    BY <1>2, TellingStays DEF TInv
  <2> QED
    BY <2>1 DEF Announced
<1> QED
  BY <1>1, <1>2 DEF Announced

LEMMA SendCovers ==
  ASSUME TInv, NEW m \in Agents, NEW e \in Notices, Send(m, e),
         NEW n \in Agents, NEW p \in Pods
  PROVE  /\ lagged[n] \/ Carries(channel[n], p) => lagged'[n] \/ Carries(channel'[n], p)
         /\ m = n /\ e.action = "RUN" /\ e.pod = p => lagged'[n] \/ Carries(channel'[n], p)
<1>1. PICK s \in Seq(Notices) : s = channel[m]
  BY DEF TInv, StreamsOK
<1>2. CASE Len(channel[m]) < Capacity
  <2>1. channel' = [channel EXCEPT ![m] = Append(s, e)] /\ lagged' = lagged
    BY <1>1, <1>2 DEF Send
  <2>2. channel'[m] = Append(s, e) /\ (n # m => channel'[n] = channel[n])
    BY <2>1 DEF TInv, StreamsOK
  <2> QED
    BY <1>1, <2>1, <2>2, CarriesSeqs
<1>3. CASE ~(Len(channel[m]) < Capacity)
  <2>1. /\ channel' = [channel EXCEPT ![m] = Append(Tail(channel[m]), e)]
        /\ lagged' = [lagged EXCEPT ![m] = TRUE]
    BY <1>3 DEF Send
  <2>2. lagged'[m] /\ (n # m => channel'[n] = channel[n] /\ lagged'[n] = lagged[n])
    BY <2>1 DEF TInv, StreamsOK
  <2> QED
    BY <2>2
<1> QED
  BY <1>2, <1>3

LEMMA PublishCovers ==
  ASSUME TInv, NEW n \in Agents, NEW p \in Pods, OnStream(n, p) \/ Announced(n, p),
         NEW d \in Calls, Publish(d)
  PROVE  OnStream(n, p)' \/ Announced(n, p)'
<1>1. /\ Addressee(d) \in Agents /\ calls[d].phase = "done" /\ Turn(d, Idle)
      /\ UNCHANGED <<watch, opening, dropped>>
  BY DEF Publish, Return
<1>2. Notice(d) \in Notices /\ calls[d].pod \in Pods
  BY <1>1, NoticeOfCall, BusyCall DEF TInv, IInv, CallStates
<1>3. PICK m \in Agents : m = Addressee(d)
  BY <1>1
<1>4. CASE watch[m] = "open"
  <2>1. Send(m, Notice(d)) /\ UNCHANGED missed
    BY <1>3, <1>4 DEF Publish
  <2>2. CASE OnStream(n, p)
    BY <1>1, <1>2, <2>1, <2>2, SendCovers DEF OnStream
  <2>3. ASSUME NEW c \in Calls, Telling(calls[c], n, p) PROVE OnStream(n, p)' \/ Announced(n, p)'
    <3>1. CASE c = d
      <4>1. m = n /\ Notice(d).action = "RUN" /\ Notice(d).pod = p
        BY <1>3, <2>3, <3>1 DEF Telling, Addressee, Notice
      <4> QED
        BY <1>2, <2>1, <4>1, SendCovers DEF OnStream
    <3>2. CASE c # d
      <4>1. calls'[c] = calls[c]
        BY <1>1, <3>2, Turned DEF TInv
      <4> QED
        BY <2>3, <4>1 DEF Announced
    <3> QED
      BY <3>1, <3>2
  <2> QED
    BY <2>2, <2>3 DEF Announced
<1>5. CASE watch[m] # "open"
  <2>1. UNCHANGED <<channel, lagged>>
    BY <1>3, <1>5 DEF Publish
  <2>2. \/ missed' = missed
        \/ missed' = [missed EXCEPT ![m] = missed[m] \cup {calls[d].pod}]
    BY <1>3, <1>5 DEF Publish
  <2>3. missed[n] \subseteq missed'[n]
    BY <1>3, <2>2 DEF TInv, StreamsOK
  <2>4. CASE OnStream(n, p)
    BY <1>1, <2>1, <2>3, <2>4 DEF OnStream
  <2>5. ASSUME NEW c \in Calls, Telling(calls[c], n, p) PROVE OnStream(n, p)' \/ Announced(n, p)'
    <3>1. CASE c = d
      <4>1. m = n /\ Notice(d).action = "RUN" /\ calls[d].pod = p
        BY <1>3, <2>5, <3>1 DEF Telling, Addressee, Notice
      <4>2. CASE watch[n] = "off"
        BY <1>1, <4>2 DEF OnStream
      <4>3. CASE watch[n] = "listed"
        <5>1. missed' = [missed EXCEPT ![m] = missed[m] \cup {calls[d].pod}]
          BY <1>3, <1>5, <4>1, <4>3 DEF Publish
        <5>2. p \in missed'[n]
          BY <4>1, <5>1 DEF TInv, StreamsOK
        <5> QED
          BY <5>2 DEF OnStream
      <4> QED
        BY <1>5, <4>1, <4>2, <4>3 DEF TInv, StreamsOK, Watches
    <3>2. CASE c # d
      <4>1. calls'[c] = calls[c]
        BY <1>1, <3>2, Turned DEF TInv
      <4> QED
        BY <2>5, <4>1 DEF Announced
    <3> QED
      BY <3>1, <3>2
  <2> QED
    BY <2>4, <2>5 DEF Announced
<1> QED
  BY <1>4, <1>5

LEMMA EndingCovers ==
  ASSUME TInv, NEW n \in Agents, NEW p \in Pods, OnStream(n, p) \/ Announced(n, p),
         NEW d \in Calls, Finish(d) \/ GiveUp(d)
  PROVE  OnStream(n, p)' \/ Announced(n, p)'
<1>1. Turn(d, Idle) /\ UNCHANGED streamVars
  BY DEF Finish, GiveUp, Return, Abandon
<1>2. \/ dropped' = dropped
      \/ dropped' = [dropped EXCEPT ![calls[d].req.node] = dropped[calls[d].req.node] \cup {calls[d].pod}]
  BY DEF Finish, GiveUp
<1>3. dropped[n] \subseteq dropped'[n]
  BY <1>2 DEF TInv, AgentsOK
<1>4. CASE OnStream(n, p)
  BY <1>1, <1>3, <1>4 DEF OnStream, streamVars
<1>5. ASSUME NEW c \in Calls, Telling(calls[c], n, p) PROVE OnStream(n, p)' \/ Announced(n, p)'
  <2>1. CASE c = d
    <3>1. /\ calls[d].phase \in {"committed", "done"} /\ calls[d].req.op = "place"
          /\ calls[d].req.node = n /\ calls[d].pod = p
      BY <1>5, <2>1 DEF Telling
    <3>2. ~Finish(d)
      BY <3>1 DEF Finish, Addressee, Return
    <3>3. dropped' = [dropped EXCEPT ![n] = dropped[n] \cup {p}]
      BY <3>1, <3>2 DEF GiveUp
    <3>4. p \in dropped'[n]
      BY <3>3 DEF TInv, AgentsOK
    <3> QED
      BY <3>4 DEF OnStream
  <2>2. CASE c # d
    <3>1. calls'[c] = calls[c]
      BY <1>1, <2>2, Turned DEF TInv
    <3> QED
      BY <1>5, <3>1 DEF Announced
  <2> QED
    BY <2>1, <2>2
<1> QED
  BY <1>4, <1>5 DEF Announced
(* The steps of the streams and of the agents.                             *)
LEMMA CallsKeepAnnounced ==
  ASSUME NEW n, NEW p, UNCHANGED calls, Announced(n, p)
  PROVE  Announced(n, p)'
BY DEF Announced

LEMMA WatchCovers ==
  ASSUME TInv, NEW n \in Agents, NEW p \in Pods, FirstAssigned(n, p),
         OnStream(n, p) \/ Announced(n, p), NEW m \in Agents,
         Snapshot(m) \/ Subscribe(m) \/ Disconnect(m) \/ ReportFails(m)
  PROVE  OnStream(n, p)' \/ Announced(n, p)'
<1>0. UNCHANGED calls
  BY DEF Snapshot, Subscribe, Disconnect, ReportFails, storeVars
<1>1. CASE Announced(n, p)
  BY <1>0, <1>1, CallsKeepAnnounced
<1>2. CASE OnStream(n, p) /\ Snapshot(m)
  <2>1. CASE m = n
    <3>1. p \in AssignedTo(n)
      BY DEF FirstAssigned, AssignedTo, Exists, TInv, IInv, TypeOK, Records, LivesCounted, NoPod
    <3>2. p \in opening'[n]
      BY <1>2, <2>1, <3>1 DEF Snapshot, TInv, StreamsOK
    <3> QED
      BY <3>2 DEF OnStream
  <2>2. CASE m # n
    BY <1>2, <2>2 DEF Snapshot, OnStream, TInv, StreamsOK, AgentsOK
  <2> QED
    BY <2>1, <2>2
<1>3. CASE OnStream(n, p) /\ Subscribe(m)
  <2>1. /\ watch[m] = "listed" /\ watch' = [watch EXCEPT ![m] = "open"]
        /\ UNCHANGED <<opening, channel, lagged, missed, dropped>>
    BY <1>3 DEF Subscribe
  <2>2. watch[n] = "off" => watch'[n] = "off"
    BY <2>1 DEF TInv, StreamsOK
  <2> QED
    BY <1>3, <2>1, <2>2 DEF OnStream
<1>4. CASE OnStream(n, p) /\ Disconnect(m)
  BY <1>4 DEF Disconnect, End, OnStream, TInv, StreamsOK
<1>5. CASE OnStream(n, p) /\ ReportFails(m)
  BY <1>5 DEF ReportFails, streamVars, OnStream
<1> QED
  BY <1>1, <1>2, <1>3, <1>4, <1>5

LEMMA ReportCovers ==
  ASSUME TInv, NEW n \in Agents, NEW p \in Pods, OnStream(n, p) \/ Announced(n, p),
         NEW m \in Agents, NEW d \in Calls, Report(m, d)
  PROVE  OnStream(n, p)' \/ Announced(n, p)'
<1>1. CASE OnStream(n, p)
  BY <1>1 DEF Report, streamVars, OnStream
<1>2. ASSUME NEW c \in Calls, Telling(calls[c], n, p) PROVE Announced(n, p)'
  <2>1. PICK v : IsIdle(d) /\ Turn(d, v)
    BY DEF Report, CheckReport, Begin
  <2>2. c # d
    BY <1>2, <2>1 DEF IsIdle, Telling
  <2>3. calls'[c] = calls[c]
    BY <2>1, <2>2, Turned DEF TInv
  <2> QED
    BY <1>2, <2>3 DEF Announced
<1> QED
  BY <1>1, <1>2 DEF Announced

LEMMA RunTells ==
  ASSUME TInv, NEW n \in Agents, NEW p \in Pods, Run(n, p)
  PROVE  Told(n, p)'
<1>1. PICK o \in {"running", "failed"} : outcome' = [outcome EXCEPT ![n][p] = o]
  BY DEF Run
<1>2. outcome'[n][p] = o
  BY <1>1 DEF TInv, AgentsOK
<1> QED
  BY <1>2 DEF Told

LEMMA ReceiveCovers ==
  ASSUME TInv, NEW n \in Agents, NEW p \in Pods, OnStream(n, p) \/ Announced(n, p),
         NEW m \in Agents, Receive(m)
  PROVE  Covered(n, p)'
<1>0. UNCHANGED calls
  BY DEF Receive, Lagged, Handle, RunListed, storeVars
<1>1. CASE Announced(n, p)
  BY <1>0, <1>1, CallsKeepAnnounced DEF Covered
<1>2. CASE OnStream(n, p) /\ Lagged(m)
  <2>1. OnStream(n, p)'
    BY <1>2 DEF Lagged, End, OnStream, TInv, StreamsOK
  <2> QED
    BY <2>1 DEF Covered
<1>3. CASE OnStream(n, p) /\ Handle(m)
  <2>1. /\ channel' = [channel EXCEPT ![m] = Tail(channel[m])] /\ channel[m] # <<>>
        /\ ~lagged[m]
        /\ UNCHANGED <<watch, opening, lagged, missed, dropped>>
    BY <1>3 DEF Handle
  <2>2. CASE ~Carries(channel[n], p)
    BY <1>3, <2>1, <2>2 DEF OnStream, Covered
  <2>3. CASE m # n
    BY <1>3, <2>1, <2>3 DEF OnStream, Covered, TInv, StreamsOK
  <2>4. CASE m = n /\ Carries(channel[n], p)
    <3>1. PICK s \in Seq(Notices) : s = channel[n]
      BY DEF TInv, StreamsOK
    <3>2. CASE Head(s).action = "RUN" /\ Head(s).pod = p
      <4>1. Run(n, p)
        BY <1>3, <2>4, <3>1, <3>2 DEF Handle
      <4> QED
        BY <4>1, RunTells DEF Covered
    <3>3. CASE Carries(Tail(s), p)
      <4>1. channel'[n] = Tail(s)
        BY <2>1, <2>4, <3>1 DEF TInv, StreamsOK
      <4> QED
        BY <3>3, <4>1 DEF Covered, OnStream
    <3> QED
      BY <2>4, <3>1, <3>2, <3>3, CarriesSeqs
  <2> QED
    BY <2>2, <2>3, <2>4
<1>4. ASSUME NEW q \in Pods, OnStream(n, p), RunListed(m, q) PROVE Covered(n, p)'
  <2>1. CASE m = n /\ p = q
    BY <1>4, <2>1, RunTells DEF RunListed, Covered
  <2>2. CASE ~(m = n /\ p = q)
    <3>1. /\ opening' = [opening EXCEPT ![m] = opening[m] \ {q}]
          /\ UNCHANGED <<watch, channel, lagged, missed, dropped>>
      BY <1>4 DEF RunListed
    <3>2. p \in opening[n] => p \in opening'[n]
      BY <2>2, <3>1 DEF TInv, StreamsOK
    <3> QED
      BY <1>4, <3>1, <3>2 DEF OnStream, Covered
  <2> QED
    BY <2>1, <2>2
<1> QED
  BY <1>1, <1>2, <1>3, <1>4 DEF Receive

LEMMA CoveredStays ==
  ASSUME TInv, StopsAreLate, DSNext, NEW n \in Agents, NEW p \in Pods,
         FirstAssigned(n, p), Covered(n, p)
  PROVE  Covered(n, p)'
<1>1. CASE Told(n, p)
  BY <1>1, ToldStays, FirstIsNotOver DEF Covered
<1>2. CASE OnStream(n, p) \/ Announced(n, p)
  <2>1. CASE Restart
    <3>1. OnStream(n, p)'
      BY <2>1 DEF Restart, OnStream
    <3> QED
      BY <3>1 DEF Covered
  <2>2. ASSUME NEW c \in Calls, Advance(c) PROVE Covered(n, p)'
    BY <1>2, <2>2, StoreCovers, PublishCovers, EndingCovers DEF Advance, Covered
  <2>3. ASSUME NEW c \in Calls, NEW q \in Pods, StoreRequest(c, q) /\ Silent
        PROVE  Covered(n, p)'
    BY <1>2, <2>3, StoreCovers DEF Covered
  <2>4. ASSUME NEW m \in Agents,
               Snapshot(m) \/ Subscribe(m) \/ Disconnect(m) \/ ReportFails(m)
        PROVE  Covered(n, p)'
    BY <1>2, <2>4, WatchCovers DEF Covered
  <2>5. ASSUME NEW m \in Agents, NEW c \in Calls, Report(m, c) PROVE Covered(n, p)'
    BY <1>2, <2>5, ReportCovers DEF Covered
  <2>6. ASSUME NEW m \in Agents, Receive(m) PROVE Covered(n, p)'
    BY <1>2, <2>6, ReceiveCovers
  <2> QED
    BY <2>1, <2>2, <2>3, <2>4, <2>5, <2>6 DEF DSNext
<1> QED
  BY <1>1, <1>2 DEF Covered

LEMMA CoveredStep ==
  ASSUME DInv, DSNext
  PROVE  AssignedIsCovered'
<1> SUFFICES ASSUME NEW n \in Agents, NEW p \in Pods, FirstAssigned(n, p)'
             PROVE  Covered(n, p)'
  BY DEF AssignedIsCovered
<1>1. CASE FirstAssigned(n, p)
  BY <1>1, CoveredStays DEF DInv, AssignedIsCovered
<1>2. CASE ~FirstAssigned(n, p)
  <2>1. pods' # pods
    BY <1>2 DEF FirstAssigned
  <2>2. Next
    BY <2>1, StoreStep DEF DInv, storeVars
  <2>3. PICK c \in Calls : Telling(calls'[c], n, p)
    BY <1>2, <2>2, AssignmentIsPlaced DEF DInv
  <2> QED
    BY <2>3 DEF Covered, Announced
<1> QED
  BY <1>1, <1>2

(* The whole invariant.                                                    *)
LEMMA DInit == DSInit => DInv
<1>1. DSInit => TInv
  BY TypesInit
<1>2. ASSUME DSInit PROVE StopsAreLate
  BY <1>2 DEF DSInit, Init, StopsAreLate, Stopping, Idle, Late
<1>3. ASSUME DSInit PROVE AssignedIsCovered
  BY <1>3 DEF DSInit, Init, AssignedIsCovered, FirstAssigned, NoPod
<1> QED
  BY <1>1, <1>2, <1>3 DEF DInv

LEMMA DStep == DInv /\ [DSNext]_dsVars => DInv'
<1>1. ASSUME DInv, DSNext PROVE DInv'
  BY <1>1, TypesStep, StopsStep, CoveredStep DEF DInv
<1>2. ASSUME DInv, UNCHANGED dsVars PROVE DInv'
  <2>1. TInv'
    BY <1>2, TypesStutter DEF DInv
  <2>2. StopsAreLate'
    BY <1>2 DEF DInv, dsVars, storeVars, streamVars, agentVars, StopsAreLate, Stopping, Overs, Over, Late
  <2>3. AssignedIsCovered'
    BY <1>2 DEF DInv, dsVars, storeVars, streamVars, agentVars, AssignedIsCovered, FirstAssigned,
                Covered, Told, OnStream, Announced, Carries, Telling
  <2> QED
    BY <2>1, <2>2, <2>3 DEF DInv
<1> QED
  BY <1>1, <1>2

(* Whatever the store and the streams do, a pod in its first life that is  *)
(* assigned to an agent's node is on its way to it or was told, or is one  *)
(* of the recorded exceptions; and no first life is stopped before it      *)
(* ends.                                                                   *)
THEOREM EveryPlacementIsOnItsWay == DSSpec => []DInv
BY DInit, DStep, PTL DEF DSSpec

(* An agent that watches, with nothing about a pod under way, has been     *)
(* told to run it if it is assigned to its node, through reconnections,    *)
(* restarts of the server and overflowing channels.                        *)
THEOREM AssignedPodsAreTold == DSSpec => []AssignedIsTold
<1>1. DInv => AssignedIsTold
  <2> SUFFICES ASSUME DInv, NEW n \in Agents, NEW p \in Pods, Settled(n, p),
                      p \in AssignedTo(n) \ (missed[n] \cup dropped[n]), pods[p].life = 1
               PROVE  Told(n, p)
    BY DEF AssignedIsTold
  <2>1. Covered(n, p)
    BY DEF DInv, AssignedIsCovered, FirstAssigned, AssignedTo
  <2>2. ~Announced(n, p)
    BY DEF Announced, Telling, Settled, IsIdle
  <2>3. ~Carries(channel[n], p)
    <3>1. channel[n] \in Seq(Notices)
      BY DEF DInv, TInv, StreamsOK
    <3>2. DOMAIN channel[n] = 1 .. Len(channel[n])
      BY <3>1
    <3> QED
      BY <3>2 DEF Carries, Settled
  <2>4. ~OnStream(n, p)
    BY <2>3 DEF OnStream, Settled
  <2> QED
    BY <2>1, <2>2, <2>4 DEF Covered
<1> QED
  BY <1>1, EveryPlacementIsOnItsWay, PTL
-----------------------------------------------------------------------------
(* With streams, agents, lost callers and restarts of the server around    *)
(* it, the store still is the registry in which every call is one step,    *)
(* until a name is used again (create_pod, remove_pod, the two updates).   *)
THEOREM RegistryWithStreams == DSSpec => ImplementsRegistry
<1>1. DSInit => Registry!Init
  BY DEF DSInit, Init, Registry!Init, Registry!Absent, Seen, NoPod
<1>2. TInv /\ [DSNext]_dsVars => [Registry!Next]_<<RegPods, RegUsed>>
  <2> SUFFICES ASSUME TInv, [DSNext]_dsVars
               PROVE  Registry!Next \/ UNCHANGED <<RegPods, RegUsed>>
    OBVIOUS
  <2>1. CASE Next
    BY <2>1, RegistryStep DEF TInv
  <2>2. CASE UNCHANGED <<pods, lives>>
    BY <2>2 DEF RegPods, RegUsed
  <2> QED
    BY <2>1, <2>2, StoreStep DEF dsVars, storeVars
<1>3. TInv /\ [DSNext]_dsVars => TInv'
  BY TypesStep, TypesStutter
<1> QED
  BY <1>1, <1>2, <1>3, TypesInit, PTL
     DEF DSSpec, ImplementsRegistry, Registry!Spec, RegPods, RegUsed

(* And an announced removal is final, whatever is cut short.               *)
THEOREM RemovalIsFinalWithStreams == DSSpec => []AnnouncedRemovalIsFinal
<1>1. TInv => AnnouncedRemovalIsFinal
  BY DEF TInv, IInv, RemovalsAreFinal, Over, AnnouncedRemovalIsFinal
<1>2. TInv /\ [DSNext]_dsVars => TInv'
  BY TypesStep, TypesStutter
<1> QED
  BY <1>1, <1>2, TypesInit, PTL DEF DSSpec
=============================================================================
