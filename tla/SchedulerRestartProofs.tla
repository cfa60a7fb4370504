----------------------- MODULE SchedulerRestartProofs ----------------------
(***************************************************************************)
(* Proofs about SchedulerRestart, for any pods, nodes, room, host ports    *)
(* and bounds.  In this order:                                             *)
(*  - types and exact claims (RIInv): a step of Scheduler keeps them by    *)
(*    SchedulerProofs, what is left are the snapshots and the restarts;    *)
(*  - what each step does to one pod, as lemmas on its effect: its record, *)
(*    what the scheduler holds of it, and the news about it (Unmoved when  *)
(*    nothing happens to it);                                              *)
(*  - what holds whatever goes wrong (Ground), and what the last news      *)
(*    about a pod tell (Following, Tracking, Forgetting): at rest nothing  *)
(*    stored is forgotten and nothing removed is kept;                     *)
(*  - what is known of the nodes as long as none is lost (NodesGood), and  *)
(*    that a pod without a node is sought by somebody (Retrying);          *)
(*  - who holds room (Owning, Counting, Sharing) and who is told to run    *)
(*    what (Telling): nodes are shared, and a pod has one place.           *)
(*  - what is stored is a placement (Placement).                           *)
(***************************************************************************)
EXTENDS SchedulerRestart, SchedulerProofs

Links ==
  /\ stream \in [Loops -> {"closed", "listed", "open"}]
  /\ listed["pods"] \in Seq(PodEvents) /\ listed["nodes"] \in Seq(NodeEvents)
  /\ DOMAIN listed = Loops
  /\ late \in SUBSET Requests
  /\ restarts \in Nat
  /\ blemish \in SUBSET Blemishes

RIInv == IInv /\ Links

-----------------------------------------------------------------------------
(* A sequence of the elements of S.                                        *)
LEMMA SequencesOfASet ==
  ASSUME NEW S, IsFiniteSet(S), NEW s \in SetToSeqs(S)
  PROVE  s \in Seq(S)
<1>1. Cardinality(S) \in Nat
  BY FS_CardinalityType
<1>2. s \in [1 .. Cardinality(S) -> S]
  BY DEF SetToSeqs
<1> QED
  BY <1>1, <1>2

LEMMA AddedEventsAreEvents ==
  ASSUME TypeOK, NEW order \in Seq(Pods)
  PROVE  AddedEvents(order) \in Seq(PodEvents)
<1>1. \A i \in DOMAIN order : order[i] \in Pods
  OBVIOUS
<1>2. \A i \in DOMAIN order : PodEvent("ADDED", order[i], assigned[order[i]]) \in PodEvents
  BY <1>1, EventTypes DEF TypeOK
<1>3. DOMAIN order = 1 .. Len(order) /\ Len(order) \in Nat
  OBVIOUS
<1> QED
  BY <1>2, <1>3 DEF AddedEvents

LEMMA PodSnapshotsAreFeeds ==
  ASSUME TypeOK, NEW s \in PodSnapshots
  PROVE  s \in Seq(PodEvents)
<1>1. PICK a \in SetToSeqs(WithNode), b \in SetToSeqs(Live \ WithNode) : s = AddedEvents(a \o b)
  BY DEF PodSnapshots
<1>2. WithNode \subseteq Pods /\ Live \ WithNode \subseteq Pods
  BY DEF WithNode, Live
<1>3. IsFiniteSet(WithNode) /\ IsFiniteSet(Live \ WithNode)
  BY <1>2, PodsFinite, FS_Subset
<1>4. a \in Seq(WithNode) /\ b \in Seq(Live \ WithNode)
  BY <1>3, SequencesOfASet
<1>5. a \in Seq(Pods) /\ b \in Seq(Pods)
  BY <1>2, <1>4
<1>6. a \o b \in Seq(Pods)
  BY <1>5
<1> QED
  BY <1>1, <1>6, AddedEventsAreEvents

LEMMA NodeSnapshotsAreFeeds ==
  ASSUME TypeOK, NEW s \in NodeSnapshots
  PROVE  s \in Seq(NodeEvents)
<1> DEFINE seen == {n \in Nodes : status[n] # "UNSEEN"}
<1>1. PICK o \in SetToSeqs(seen) : s = [i \in DOMAIN o |-> NodeEvent(o[i], status[o[i]])]
  BY DEF NodeSnapshots
<1>2. IsFiniteSet(seen)
  BY NodesFinite, FS_Subset
<1>3. o \in Seq(seen)
  BY <1>2, SequencesOfASet
<1>4. \A i \in DOMAIN o : o[i] \in Nodes /\ status[o[i]] \in {"NOT_READY", "READY"}
  BY <1>3 DEF TypeOK, Statuses
<1>5. \A i \in DOMAIN o : NodeEvent(o[i], status[o[i]]) \in NodeEvents
  BY <1>4, EventTypes
<1>6. DOMAIN o = 1 .. Len(o) /\ Len(o) \in Nat
  BY <1>3
<1> QED
  BY <1>1, <1>5, <1>6

-----------------------------------------------------------------------------
(* What the steps of the scheduler, its users and its agents leave alone.  *)
LEMMA LinksKept ==
  ASSUME Links, UNCHANGED linkVars, blemish' \in SUBSET Blemishes
  PROVE  Links'
BY DEF Links, linkVars, Requests

LEMMA RequestTypes ==
  ASSUME TypeOK
  PROVE  Outstanding \subseteq Requests
<1> SUFFICES ASSUME NEW l \in Loops, NEW p \in Pods PROVE RequestsOf(l, p) \subseteq Requests
  BY DEF Outstanding
<1>1. job[l][p] \in JobStates
  BY DEF TypeOK
<1>2. CASE job[l][p].at = "assign"
  <2>1. job[l][p].node \in MaybeNodes
    BY <1>1, <1>2 DEF JobStates
  <2> QED
    BY <1>2, <2>1 DEF RequestsOf, Requests
<1>3. CASE job[l][p].at = "orphan"
  BY <1>3 DEF RequestsOf, Requests, MaybeNodes
<1>4. CASE job[l][p].at \notin {"assign", "orphan"}
  BY <1>4 DEF RequestsOf
<1> QED
  BY <1>2, <1>3, <1>4

LEMMA RInitInv == RInit => RIInv
<1> SUFFICES ASSUME RInit PROVE RIInv
  OBVIOUS
<1>1. IInv
  BY InitInv DEF RInit
<1>2. <<>> \in Seq(PodEvents) /\ <<>> \in Seq(NodeEvents)
  OBVIOUS
<1>3. Links
  BY <1>2 DEF RInit, Links, Loops
<1> QED
  BY <1>1, <1>3 DEF RIInv

(* A scheduler that starts with nothing claims nothing.                    *)
LEMMA RestartInv ==
  ASSUME RIInv, Restart
  PROVE  RIInv'
<1>1. book' \in Books
  BY DEF Restart, Books, MaybeNodes
<1>2. Exact(book)'
  <2>1. \A n \in Nodes : PlacedOn(book', n) = {} /\ book'.claimed[n] = 0
    BY NoNodeIsNoNode DEF Restart, PlacedOn
  <2> QED
    BY <2>1, FS_EmptySet DEF Exact
<1>3. <<>> \in Seq(PodEvents) /\ <<>> \in Seq(NodeEvents)
  OBVIOUS
<1>4. TypeOK'
  BY <1>1, <1>3, TaskTypes DEF Restart, RIInv, IInv, TypeOK, Statuses
<1>5. late' \in SUBSET Requests
  BY RequestTypes DEF Restart, RIInv, IInv, Links
<1>6. Links'
  BY <1>3, <1>5 DEF Restart, RIInv, Links, Loops
<1> QED
  BY <1>2, <1>4, <1>6 DEF RIInv, IInv

(* What the feeds become when one of them is replaced.                     *)
LEMMA DeliverInv ==
  ASSUME IInv, NEW l \in Loops, NEW events, Deliver(l, events), StoreUntouched,
         l = "pods" => events \in Seq(PodEvents),
         l = "nodes" => events \in Seq(NodeEvents)
  PROVE  IInv'
<1> USE DEF StoreUntouched, stateVars, taskVars
<1>1. podFeed' \in Seq(PodEvents) /\ nodeFeed' \in Seq(NodeEvents)
  BY DEF Deliver, Loops, IInv, TypeOK
<1> QED
  BY <1>1, BookUnchanged DEF IInv, TypeOK

LEMMA ListInv ==
  ASSUME RIInv, NEW l \in Loops, List(l)
  PROVE  RIInv'
<1>1. PICK s \in Snapshots(l) : listed' = [listed EXCEPT ![l] = s]
  BY DEF List
<1>2. IInv'
  <2>1. IInv /\ Deliver(l, <<>>) /\ StoreUntouched
    BY DEF List, RIInv
  <2>2. <<>> \in Seq(PodEvents) /\ <<>> \in Seq(NodeEvents)
    OBVIOUS
  <2> QED
    BY <2>1, <2>2, DeliverInv
<1>3. CASE l = "pods"
  <2>1. s \in Seq(PodEvents)
    BY <1>1, <1>3, PodSnapshotsAreFeeds DEF Snapshots, RIInv, IInv
  <2>2. Links'
    BY <1>1, <1>3, <2>1 DEF List, RIInv, Links, Loops
  <2> QED
    BY <1>2, <2>2 DEF RIInv
<1>4. CASE l = "nodes"
  <2>1. s \in Seq(NodeEvents)
    BY <1>1, <1>4, NodeSnapshotsAreFeeds DEF Snapshots, RIInv, IInv
  <2>2. Links'
    BY <1>1, <1>4, <2>1 DEF List, RIInv, Links, Loops
  <2> QED
    BY <1>2, <2>2 DEF RIInv
<1> QED
  BY <1>3, <1>4 DEF Loops

LEMMA SubscribeInv ==
  ASSUME RIInv, NEW l \in Loops, Subscribe(l)
  PROVE  RIInv'
<1>1. IInv'
  <2>1. IInv /\ Deliver(l, listed[l]) /\ StoreUntouched
    BY DEF Subscribe, RIInv
  <2>2. listed["pods"] \in Seq(PodEvents) /\ listed["nodes"] \in Seq(NodeEvents)
    BY DEF RIInv, Links
  <2> QED
    BY <2>1, <2>2, DeliverInv
<1>2. blemish' \in SUBSET Blemishes
  BY DEF Subscribe, RIInv, Links, Blemishes
<1>3. Links'
  BY <1>2 DEF Subscribe, RIInv, Links, Loops
<1> QED
  BY <1>1, <1>3 DEF RIInv

LEMMA LateAssignInv ==
  ASSUME RIInv, LateAssign
  PROVE  RIInv'
<1> USE DEF stateVars, taskVars
<1>1. PICK r \in late :
        /\ late' = late \ {r}
        /\ assigned' = [assigned EXCEPT ![r.pod] = r.node]
        /\ podFeed' = Append(podFeed,
             PodEvent(IF r.node = NoNode THEN "MODIFIED" ELSE "SCHEDULED", r.pod, r.node))
        /\ told' = IF r.node \in Nodes /\ status[r.node] = "READY"
                     THEN [told EXCEPT ![r.pod] = @ \cup {r.node}] ELSE told
        /\ blemish' = blemish \cup {"outlived", "crossed"}
        /\ UNCHANGED <<life, status, nodeFeed, losses, faults, stateVars, taskVars>>
        /\ UNCHANGED <<stream, listed, restarts>>
  BY DEF LateAssign
<1>2. r.pod \in Pods /\ r.node \in MaybeNodes
  BY DEF RIInv, Links, Requests
<1>3. assigned' \in [Pods -> MaybeNodes]
  BY <1>1, <1>2 DEF RIInv, IInv, TypeOK
<1>4. podFeed' \in Seq(PodEvents)
  BY <1>1, <1>2, EventTypes, FeedSteps DEF RIInv, IInv
<1>5. told' \in [Pods -> SUBSET Nodes]
  BY <1>1, <1>2 DEF RIInv, IInv, TypeOK
<1>6. IInv'
  BY <1>1, <1>3, <1>4, <1>5, BookUnchanged DEF RIInv, IInv, TypeOK
<1>7. Links'
  BY <1>1 DEF RIInv, Links, Requests, Blemishes
<1> QED
  BY <1>6, <1>7 DEF RIInv

(* The steps of Scheduler, with what they add to the blemishes.            *)
LEMMA SchedulerStepInv ==
  ASSUME RIInv, \/ REnvironment
                \/ RNodesStep
                \/ RPodsStep
                \/ \E l \in Loops, p \in Pods : RJobStep(l, p)
  PROVE  RIInv'
<1>1. CASE REnvironment
  BY <1>1, EnvironmentInv, LinksKept DEF REnvironment, RIInv, Links
<1>2. CASE RNodesStep
  BY <1>2, NodesStepInv, LinksKept DEF RNodesStep, RIInv, Links
<1>3. CASE RPodsStep
  BY <1>3, PodsStepInv, LinksKept DEF RPodsStep, RIInv, Links
<1>4. ASSUME NEW l \in Loops, NEW p \in Pods, RJobStep(l, p) PROVE RIInv'
  <2>1. blemish' \in SUBSET Blemishes
    BY <1>4 DEF RJobStep, RIInv, Links, Blemishes
  <2> QED
    BY <1>4, <2>1, JobStepInv, LinksKept DEF RJobStep, RIInv
<1> QED
  BY <1>1, <1>2, <1>3, <1>4

-----------------------------------------------------------------------------
(* The types and the exact claims are inductive through restarts, late     *)
(* requests and snapshots too.                                             *)
THEOREM RestartInvariant == RSpec => []RIInv
<1>1. RIInv /\ [RNext]_allVars => RIInv'
  <2> SUFFICES ASSUME RIInv, [RNext]_allVars PROVE RIInv'
    OBVIOUS
  <2>1. CASE UNCHANGED allVars
    <3>1. IInv'
      BY <2>1, BookUnchanged
      DEF allVars, vars, apiVars, stateVars, taskVars, RIInv, IInv, TypeOK
    <3>2. Links'
      BY <2>1, LinksKept DEF allVars, RIInv, Links
    <3> QED
      BY <3>1, <3>2 DEF RIInv
  <2> QED
    BY <2>1, SchedulerStepInv, RestartInv, ListInv, SubscribeInv, LateAssignInv
    DEF RNext, Reconnect
<1> QED
  BY <1>1, RInitInv, PTL DEF RSpec

(* Types of the streams, the snapshots and the requests of dead processes, *)
(* with those of Scheduler.                                                *)
THEOREM RestartTypes == RSpec => []RTypeOK
<1>1. RIInv => RTypeOK
  BY DEF RIInv, IInv, Links, RTypeOK
<1> QED
  BY <1>1, RestartInvariant, PTL

(* However often the scheduler is restarted, with whatever snapshot and    *)
(* whatever arrives late, what it claims of a node is exactly what the     *)
(* pods it has placed there ask for.                                       *)
THEOREM ClaimsThroughRestarts == RSpec => []ClaimsMatchPlacements
<1>1. RIInv => ClaimsMatchPlacements
  BY DEF RIInv, IInv, Exact, ClaimsMatchPlacements
<1> QED
  BY <1>1, RestartInvariant, PTL

-----------------------------------------------------------------------------

(* About(s, p): an event of s is about p; Fresh: it is the one that has p  *)
(* scheduled; Mentions: it tells of p on n; Leading: it does, and whatever *)
(* is delivered before it only tells of placements too.                    *)
About(s, p) == \E i \in DOMAIN s : s[i].pod = p
FreshEvent(e, p) == e.kind = "ADDED" /\ e.pod = p /\ e.node = NoNode
Fresh(s, p) == \E i \in DOMAIN s : FreshEvent(s[i], p)
Mention(e, p, n) == e.kind # "DELETED" /\ e.pod = p /\ e.node = n
Mentions(s, p, n) == \E i \in DOMAIN s : Mention(s[i], p, n)
Leading(s, p, n) ==
  \E i \in DOMAIN s : /\ Mention(s[i], p, n)
                      /\ \A j \in 1 .. i : s[j].kind = "ADDED" /\ s[j].node # NoNode

(* The last event about p, if there is one, tells what is stored of it.    *)
Says(e, n, gone) == IF gone THEN e.kind = "DELETED" ELSE e.kind # "DELETED" /\ e.node = n
Ends(s, p, n, gone) ==
  \A i \in DOMAIN s :
    s[i].pod = p => Says(s[i], n, gone) \/ \E j \in DOMAIN s : j > i /\ s[j].pod = p

(* A removal is the last event about its pod; a pod is added once.         *)
DeletedLast(s) ==
  \A i, j \in DOMAIN s : s[i].kind = "DELETED" /\ j > i => s[j].pod # s[i].pod
AddedOnce(s) ==
  \A i, j \in DOMAIN s : s[i].kind = "ADDED" /\ s[j].kind = "ADDED" /\ s[i].pod = s[j].pod => i = j
Deletes(s, p) == \E i \in DOMAIN s : s[i].kind = "DELETED" /\ s[i].pod = p

LEMMA AppendIndex ==
  ASSUME NEW s \in Seq(PodEvents), NEW e \in PodEvents
  PROVE  /\ DOMAIN Append(s, e) = 1 .. Len(s) + 1 /\ DOMAIN s = 1 .. Len(s) /\ Len(s) \in Nat
         /\ \A i \in DOMAIN s : Append(s, e)[i] = s[i] /\ s[i] \in PodEvents
         /\ Append(s, e)[Len(s) + 1] = e
OBVIOUS

LEMMA TailIndex ==
  ASSUME NEW s \in Seq(PodEvents), s # <<>>
  PROVE  /\ Tail(s) \in Seq(PodEvents) /\ Head(s) \in PodEvents /\ Head(s) = s[1]
         /\ DOMAIN s = 1 .. Len(s) /\ DOMAIN Tail(s) = 1 .. Len(s) - 1 /\ Len(s) \in Nat \ {0}
         /\ \A i \in DOMAIN Tail(s) : Tail(s)[i] = s[i + 1]
         /\ \A i \in DOMAIN s : i > 1 => i - 1 \in DOMAIN Tail(s) /\ s[i] = Tail(s)[i - 1]
OBVIOUS

LEMMA NoEvents ==
  ASSUME NEW s, DOMAIN s = {}
  PROVE  /\ \A p : ~About(s, p) /\ ~Fresh(s, p) /\ ~Deletes(s, p)
         /\ \A p, n : ~Mentions(s, p, n) /\ ~Leading(s, p, n)
         /\ \A p, n, g : Ends(s, p, n, g)
         /\ DeletedLast(s) /\ AddedOnce(s)
<1>1. \A p : ~About(s, p) /\ ~Fresh(s, p) /\ ~Deletes(s, p)
  BY DEF About, Fresh, Deletes
<1>2. \A p, n : ~Mentions(s, p, n) /\ ~Leading(s, p, n)
  BY DEF Mentions, Leading
<1>3. \A p, n, g : Ends(s, p, n, g)
  BY DEF Ends
<1>4. DeletedLast(s) /\ AddedOnce(s)
  BY DEF DeletedLast, AddedOnce
<1> QED
  BY <1>1, <1>2, <1>3, <1>4

LEMMA AppendAbout ==
  ASSUME NEW s \in Seq(PodEvents), NEW e \in PodEvents, NEW p
  PROVE  /\ About(Append(s, e), p) <=> About(s, p) \/ e.pod = p
         /\ Fresh(Append(s, e), p) <=> Fresh(s, p) \/ FreshEvent(e, p)
         /\ Deletes(Append(s, e), p) <=> Deletes(s, p) \/ (e.kind = "DELETED" /\ e.pod = p)
BY AppendIndex DEF About, Fresh, Deletes

LEMMA AppendMentions ==
  ASSUME NEW s \in Seq(PodEvents), NEW e \in PodEvents, NEW p, NEW n
  PROVE  /\ Mentions(Append(s, e), p, n) <=> Mentions(s, p, n) \/ Mention(e, p, n)
         /\ Leading(s, p, n) => Leading(Append(s, e), p, n)
<1>1. Mentions(Append(s, e), p, n) <=> Mentions(s, p, n) \/ Mention(e, p, n)
  BY AppendIndex DEF Mentions
<1>2. ASSUME Leading(s, p, n) PROVE Leading(Append(s, e), p, n)
  <2>1. PICK i \in DOMAIN s : /\ Mention(s[i], p, n)
                              /\ \A j \in 1 .. i : s[j].kind = "ADDED" /\ s[j].node # NoNode
    BY <1>2 DEF Leading
  <2>2. i \in DOMAIN Append(s, e) /\ Append(s, e)[i] = s[i]
    BY AppendIndex
  <2>3. \A j \in 1 .. i : j \in DOMAIN s /\ Append(s, e)[j] = s[j]
    BY AppendIndex
  <2> QED
    BY <2>1, <2>2, <2>3 DEF Leading
<1> QED
  BY <1>1, <1>2

LEMMA AppendEnds ==
  ASSUME NEW s \in Seq(PodEvents), NEW e \in PodEvents, NEW p, NEW n, NEW g
  PROVE  /\ e.pod # p /\ Ends(s, p, n, g) => Ends(Append(s, e), p, n, g)
         /\ e.pod = p /\ Says(e, n, g) => Ends(Append(s, e), p, n, g)
<1>1. ASSUME e.pod # p, Ends(s, p, n, g), NEW i \in DOMAIN Append(s, e), Append(s, e)[i].pod = p
      PROVE  \/ Says(Append(s, e)[i], n, g)
             \/ \E j \in DOMAIN Append(s, e) : j > i /\ Append(s, e)[j].pod = p
  <2>1. i \in DOMAIN s /\ s[i].pod = p /\ Append(s, e)[i] = s[i]
    BY <1>1, AppendIndex
  <2>2. \A j \in DOMAIN s : j \in DOMAIN Append(s, e) /\ Append(s, e)[j] = s[j]
    BY AppendIndex
  <2> QED
    BY <1>1, <2>1, <2>2 DEF Ends
<1>2. ASSUME e.pod = p, Says(e, n, g), NEW i \in DOMAIN Append(s, e), Append(s, e)[i].pod = p
      PROVE  \/ Says(Append(s, e)[i], n, g)
             \/ \E j \in DOMAIN Append(s, e) : j > i /\ Append(s, e)[j].pod = p
  <2>1. CASE i = Len(s) + 1
    BY <1>2, <2>1, AppendIndex
  <2>2. CASE i # Len(s) + 1
    BY <1>2, <2>2, AppendIndex
  <2> QED
    BY <2>1, <2>2
<1> QED
  BY <1>1, <1>2 DEF Ends

LEMMA AppendOrder ==
  ASSUME NEW s \in Seq(PodEvents), NEW e \in PodEvents
  PROVE  /\ DeletedLast(s) /\ ~Deletes(s, e.pod) => DeletedLast(Append(s, e))
         /\ AddedOnce(s) /\ (e.kind = "ADDED" => ~About(s, e.pod)) => AddedOnce(Append(s, e))
<1>1. ASSUME DeletedLast(s), ~Deletes(s, e.pod) PROVE DeletedLast(Append(s, e))
  BY <1>1, AppendIndex DEF DeletedLast, Deletes
<1>2. ASSUME AddedOnce(s), e.kind = "ADDED" => ~About(s, e.pod) PROVE AddedOnce(Append(s, e))
  BY <1>2, AppendIndex DEF AddedOnce, About
<1> QED
  BY <1>1, <1>2

LEMMA TailAbout ==
  ASSUME NEW s \in Seq(PodEvents), s # <<>>, NEW p
  PROVE  /\ About(s, p) <=> Head(s).pod = p \/ About(Tail(s), p)
         /\ Fresh(s, p) <=> FreshEvent(Head(s), p) \/ Fresh(Tail(s), p)
         /\ Deletes(s, p) <=> (Head(s).kind = "DELETED" /\ Head(s).pod = p) \/ Deletes(Tail(s), p)
<1>1. 1 \in DOMAIN s /\ \A i \in DOMAIN Tail(s) : i + 1 \in DOMAIN s
  BY TailIndex
<1>2. \A i \in DOMAIN s : i = 1 \/ i > 1
  BY TailIndex
<1>3. About(s, p) <=> Head(s).pod = p \/ About(Tail(s), p)
  BY <1>1, <1>2, TailIndex DEF About
<1>4. Fresh(s, p) <=> FreshEvent(Head(s), p) \/ Fresh(Tail(s), p)
  BY <1>1, <1>2, TailIndex DEF Fresh
<1>5. Deletes(s, p) <=> (Head(s).kind = "DELETED" /\ Head(s).pod = p) \/ Deletes(Tail(s), p)
  BY <1>1, <1>2, TailIndex DEF Deletes
<1> QED
  BY <1>3, <1>4, <1>5

LEMMA TailMentions ==
  ASSUME NEW s \in Seq(PodEvents), s # <<>>, NEW p, NEW n
  PROVE  /\ Mentions(s, p, n) <=> Mention(Head(s), p, n) \/ Mentions(Tail(s), p, n)
         /\ Leading(s, p, n) => /\ Head(s).kind = "ADDED" /\ Head(s).node # NoNode
                                /\ Mention(Head(s), p, n) \/ Leading(Tail(s), p, n)
<1>1. 1 \in DOMAIN s /\ \A i \in DOMAIN Tail(s) : i + 1 \in DOMAIN s
  BY TailIndex
<1>2. \A i \in DOMAIN s : i = 1 \/ i > 1
  BY TailIndex
<1>3. Mentions(s, p, n) <=> Mention(Head(s), p, n) \/ Mentions(Tail(s), p, n)
  BY <1>1, <1>2, TailIndex DEF Mentions
<1>4. ASSUME Leading(s, p, n)
      PROVE  /\ Head(s).kind = "ADDED" /\ Head(s).node # NoNode
             /\ Mention(Head(s), p, n) \/ Leading(Tail(s), p, n)
  <2>1. PICK i \in DOMAIN s : /\ Mention(s[i], p, n)
                              /\ \A j \in 1 .. i : s[j].kind = "ADDED" /\ s[j].node # NoNode
    BY <1>4 DEF Leading
  <2>2. 1 \in 1 .. i
    BY TailIndex
  <2>3. ASSUME i > 1 PROVE Leading(Tail(s), p, n)
    <3>1. i - 1 \in DOMAIN Tail(s) /\ Tail(s)[i - 1] = s[i]
      BY <2>3, TailIndex
    <3>2. \A j \in 1 .. i - 1 : j + 1 \in 1 .. i /\ Tail(s)[j] = s[j + 1]
      BY TailIndex
    <3> QED
      BY <2>1, <3>1, <3>2 DEF Leading
  <2> QED
    BY <1>2, <2>1, <2>2, <2>3, TailIndex
<1> QED
  BY <1>3, <1>4

LEMMA TailEnds ==
  ASSUME NEW s \in Seq(PodEvents), s # <<>>, NEW p, NEW n, NEW g, Ends(s, p, n, g)
  PROVE  /\ Ends(Tail(s), p, n, g)
         /\ Head(s).pod = p => Says(Head(s), n, g) \/ About(Tail(s), p)
<1>1. ASSUME NEW i \in DOMAIN Tail(s), Tail(s)[i].pod = p
      PROVE  \/ Says(Tail(s)[i], n, g)
             \/ \E j \in DOMAIN Tail(s) : j > i /\ Tail(s)[j].pod = p
  <2>1. i + 1 \in DOMAIN s /\ s[i + 1] = Tail(s)[i] /\ i \in Nat
    BY TailIndex
  <2>2. CASE Says(s[i + 1], n, g)
    BY <2>1, <2>2
  <2>3. ASSUME NEW j \in DOMAIN s, j > i + 1, s[j].pod = p
        PROVE  \E k \in DOMAIN Tail(s) : k > i /\ Tail(s)[k].pod = p
    <3>1. j - 1 \in DOMAIN Tail(s) /\ Tail(s)[j - 1] = s[j] /\ j - 1 > i
      BY <2>1, <2>3, TailIndex
    <3> QED
      BY <2>3, <3>1
  <2> QED
    BY <1>1, <2>1, <2>2, <2>3 DEF Ends
<1>2. ASSUME Head(s).pod = p PROVE Says(Head(s), n, g) \/ About(Tail(s), p)
  <2>1. 1 \in DOMAIN s /\ s[1] = Head(s)
    BY TailIndex
  <2>2. CASE \E j \in DOMAIN s : j > 1 /\ s[j].pod = p
    <3>1. PICK j \in DOMAIN s : j > 1 /\ s[j].pod = p
      BY <2>2
    <3>2. j - 1 \in DOMAIN Tail(s) /\ Tail(s)[j - 1] = s[j]
      BY <3>1, TailIndex
    <3> QED
      BY <3>1, <3>2 DEF About
  <2> QED
    BY <1>2, <2>1, <2>2 DEF Ends
<1> QED
  BY <1>1, <1>2 DEF Ends

LEMMA TailOrder ==
  ASSUME NEW s \in Seq(PodEvents), s # <<>>
  PROVE  /\ DeletedLast(s) => DeletedLast(Tail(s)) /\ (Head(s).kind = "DELETED" => ~About(Tail(s), Head(s).pod))
         /\ AddedOnce(s) => AddedOnce(Tail(s)) /\ (Head(s).kind = "ADDED" => ~Fresh(Tail(s), Head(s).pod))
<1>1. 1 \in DOMAIN s /\ s[1] = Head(s)
      /\ \A i \in DOMAIN Tail(s) : i + 1 \in DOMAIN s /\ s[i + 1] = Tail(s)[i] /\ i \in Nat /\ i + 1 > 1
  BY TailIndex
<1>2. ASSUME DeletedLast(s) PROVE DeletedLast(Tail(s))
  <2> SUFFICES ASSUME NEW i \in DOMAIN Tail(s), NEW j \in DOMAIN Tail(s),
                      Tail(s)[i].kind = "DELETED", j > i
               PROVE  Tail(s)[j].pod # Tail(s)[i].pod
    BY DEF DeletedLast
  <2>1. i + 1 \in DOMAIN s /\ j + 1 \in DOMAIN s /\ j + 1 > i + 1
    BY <1>1
  <2> QED
    BY <1>1, <1>2, <2>1 DEF DeletedLast
<1>3. ASSUME DeletedLast(s), Head(s).kind = "DELETED" PROVE ~About(Tail(s), Head(s).pod)
  BY <1>1, <1>3 DEF DeletedLast, About
<1>4. ASSUME AddedOnce(s) PROVE AddedOnce(Tail(s))
  <2> SUFFICES ASSUME NEW i \in DOMAIN Tail(s), NEW j \in DOMAIN Tail(s),
                      Tail(s)[i].kind = "ADDED", Tail(s)[j].kind = "ADDED", Tail(s)[i].pod = Tail(s)[j].pod
               PROVE  i = j
    BY DEF AddedOnce
  <2>1. i + 1 = j + 1
    BY <1>1, <1>4 DEF AddedOnce
  <2> QED
    BY <1>1, <2>1
<1>5. ASSUME AddedOnce(s), Head(s).kind = "ADDED" PROVE ~Fresh(Tail(s), Head(s).pod)
  <2> SUFFICES ASSUME NEW i \in DOMAIN Tail(s), FreshEvent(Tail(s)[i], Head(s).pod) PROVE FALSE
    BY DEF Fresh
  <2>1. i + 1 = 1
    BY <1>1, <1>5 DEF AddedOnce, FreshEvent
  <2> QED
    BY <1>1, <2>1
<1> QED
  BY <1>2, <1>3, <1>4, <1>5
-----------------------------------------------------------------------------

LEMMA SetToSeqsIsInjective ==
  ASSUME NEW S, IsFiniteSet(S), NEW s \in SetToSeqs(S)
  PROVE  /\ s \in Seq(S) /\ Len(s) \in Nat /\ DOMAIN s = 1 .. Len(s)
         /\ \A i, j \in DOMAIN s : s[i] = s[j] => i = j
         /\ \A x \in S : \E i \in DOMAIN s : s[i] = x
<1> DEFINE D == 1 .. Cardinality(S)
<1>1. Cardinality(S) \in Nat
  BY FS_CardinalityType
<1>2. s \in [D -> S] /\ \A i, j \in D : i # j => s[i] # s[j]
  BY DEF SetToSeqs
<1>3. DOMAIN s = D
  BY <1>2
<1>4. s \in Seq(S)
  BY SequencesOfASet
<1>5. s \in Injection(D, S)
  BY <1>2 DEF Injection, IsInjective
<1>6. Cardinality(D) = Cardinality(S)
  BY <1>1, FS_Interval
<1>7. s \in Surjection(D, S)
  BY <1>5, <1>6, FS_Injection
<1>8. \A x \in S : \E i \in D : s[i] = x
  BY <1>7 DEF Surjection
<1>9. Len(s) \in Nat /\ DOMAIN s = 1 .. Len(s)
  BY <1>4
<1> QED
  BY <1>2, <1>3, <1>4, <1>8, <1>9

(* A snapshot of the pods: one event about each that lives, placed first.  *)
LEMMA SnapshotShape ==
  ASSUME TypeOK, NEW s \in PodSnapshots
  PROVE  /\ s \in Seq(PodEvents)
         /\ \A i \in DOMAIN s : s[i].pod \in Live /\ s[i] = PodEvent("ADDED", s[i].pod, assigned[s[i].pod])
         /\ \A i, j \in DOMAIN s : s[i].pod = s[j].pod => i = j
         /\ \A p \in Live : \E i \in DOMAIN s : s[i].pod = p
         /\ \A i \in DOMAIN s : s[i].pod \in WithNode => \A j \in 1 .. i : s[j].pod \in WithNode /\ j \in DOMAIN s
<1>1. PICK a \in SetToSeqs(WithNode), b \in SetToSeqs(Live \ WithNode) : s = AddedEvents(a \o b)
  BY DEF PodSnapshots
<1>2. WithNode \subseteq Live /\ Live \subseteq Pods
  BY DEF WithNode, Live
<1>3. IsFiniteSet(WithNode) /\ IsFiniteSet(Live \ WithNode)
  BY <1>2, PodsFinite, FS_Subset
<1>4. /\ a \in Seq(WithNode) /\ Len(a) \in Nat /\ DOMAIN a = 1 .. Len(a)
      /\ \A i, j \in DOMAIN a : a[i] = a[j] => i = j
      /\ \A x \in WithNode : \E i \in DOMAIN a : a[i] = x
  BY <1>3, SetToSeqsIsInjective
<1>5. /\ b \in Seq(Live \ WithNode) /\ Len(b) \in Nat /\ DOMAIN b = 1 .. Len(b)
      /\ \A i, j \in DOMAIN b : b[i] = b[j] => i = j
      /\ \A x \in Live \ WithNode : \E i \in DOMAIN b : b[i] = x
  BY <1>3, SetToSeqsIsInjective
<1>6. PICK c : c = a \o b
  OBVIOUS
<1>7. a \in Seq(Live) /\ b \in Seq(Live)
  BY <1>2, <1>4, <1>5
<1>8. /\ c \in Seq(Live) /\ DOMAIN c = 1 .. Len(a) + Len(b)
      /\ \A i \in DOMAIN a : i \in DOMAIN c /\ c[i] = a[i]
      /\ \A i \in DOMAIN b : i + Len(a) \in DOMAIN c /\ c[i + Len(a)] = b[i]
      /\ \A i \in DOMAIN c : i > Len(a) => i - Len(a) \in DOMAIN b /\ c[i] = b[i - Len(a)]
  <2>1. c \in Seq(Live) /\ DOMAIN c = 1 .. Len(a) + Len(b)
    BY <1>6, <1>7
  <2>2. \A i \in 1 .. Len(a) + Len(b) : c[i] = IF i <= Len(a) THEN a[i] ELSE b[i - Len(a)]
    BY <1>6, <1>7
  <2>3. \A i \in DOMAIN a : i \in DOMAIN c /\ c[i] = a[i]
    BY <1>4, <1>5, <2>1, <2>2
  <2>4. \A i \in DOMAIN b : i + Len(a) \in DOMAIN c /\ c[i + Len(a)] = b[i]
    BY <1>4, <1>5, <2>1, <2>2
  <2>5. \A i \in DOMAIN c : i > Len(a) => i - Len(a) \in DOMAIN b /\ c[i] = b[i - Len(a)]
    BY <1>4, <1>5, <2>1, <2>2
  <2> QED
    BY <2>1, <2>3, <2>4, <2>5
<1>9. \A i \in DOMAIN c : /\ i <= Len(a) => c[i] \in WithNode
                          /\ i > Len(a) => c[i] \notin WithNode
  BY <1>4, <1>5, <1>8
<1>10. \A i, j \in DOMAIN c : c[i] = c[j] => i = j
  <2> SUFFICES ASSUME NEW i \in DOMAIN c, NEW j \in DOMAIN c, c[i] = c[j] PROVE i = j
    OBVIOUS
  <2>1. CASE i <= Len(a)
    <3>1. j <= Len(a)
      BY <1>4, <1>8, <1>9, <2>1
    <3>2. i \in DOMAIN a /\ j \in DOMAIN a
      BY <1>4, <1>8, <2>1, <3>1
    <3> QED
      BY <1>4, <1>8, <3>2
  <2>2. CASE i > Len(a)
    <3>1. j > Len(a)
      BY <1>4, <1>8, <1>9, <2>2
    <3>2. i - Len(a) = j - Len(a)
      BY <1>5, <1>8, <2>2, <3>1
    <3> QED
      BY <1>4, <1>8, <3>2
  <2> QED
    BY <1>4, <1>8, <2>1, <2>2
<1>11. \A p \in Live : \E i \in DOMAIN c : c[i] = p
  BY <1>4, <1>5, <1>8
<1>12. DOMAIN s = DOMAIN c /\ \A i \in DOMAIN c : s[i] = PodEvent("ADDED", c[i], assigned[c[i]]) /\ c[i] \in Live
  BY <1>1, <1>6, <1>8 DEF AddedEvents
<1>13. \A i \in DOMAIN c : s[i].pod = c[i]
  BY <1>12 DEF PodEvent
<1>14. s \in Seq(PodEvents)
  BY PodSnapshotsAreFeeds
<1>15. \A i \in DOMAIN c : c[i] \in WithNode => \A j \in 1 .. i : j \in DOMAIN c /\ c[j] \in WithNode
  <2> SUFFICES ASSUME NEW i \in DOMAIN c, c[i] \in WithNode, NEW j \in 1 .. i
               PROVE  j \in DOMAIN c /\ c[j] \in WithNode
    OBVIOUS
  <2>1. i \in Nat /\ i <= Len(a)
    BY <1>4, <1>5, <1>8, <1>9
  <2>2. j \in DOMAIN a /\ j <= Len(a)
    BY <1>4, <2>1
  <2>3. j \in DOMAIN c
    BY <1>8, <2>2
  <2> QED
    BY <1>9, <2>2, <2>3
<1> QED
  BY <1>10, <1>11, <1>12, <1>13, <1>14, <1>15

(* What a snapshot tells of each pod.                                      *)
LEMMA SnapshotTells ==
  ASSUME TypeOK, NEW s \in PodSnapshots
  PROVE  /\ \A p : (About(s, p) <=> p \in Live) /\ ~Deletes(s, p)
                   /\ (Fresh(s, p) <=> p \in Live /\ assigned[p] = NoNode)
         /\ \A p, n : /\ Mentions(s, p, n) <=> p \in Live /\ assigned[p] = n
                      /\ n # NoNode /\ Mentions(s, p, n) => Leading(s, p, n)
         /\ \A p \in Pods : Ends(s, p, assigned[p], FALSE)
         /\ DeletedLast(s) /\ AddedOnce(s)
<1>1. \A i \in DOMAIN s : /\ s[i].pod \in Live /\ s[i].kind = "ADDED" /\ s[i].node = assigned[s[i].pod]
  BY SnapshotShape DEF PodEvent
<1>2. \A p \in Live : \E i \in DOMAIN s : s[i].pod = p
  BY SnapshotShape
<1>3. \A p : About(s, p) <=> p \in Live
  BY <1>1, <1>2 DEF About
<1>4. \A p : ~Deletes(s, p) /\ (Fresh(s, p) <=> p \in Live /\ assigned[p] = NoNode)
  BY <1>1, <1>2 DEF Deletes, Fresh, FreshEvent
<1>5. \A p, n : Mentions(s, p, n) <=> p \in Live /\ assigned[p] = n
  BY <1>1, <1>2 DEF Mentions, Mention
<1>6. ASSUME NEW p, NEW n, n # NoNode, Mentions(s, p, n) PROVE Leading(s, p, n)
  <2>1. PICK i \in DOMAIN s : Mention(s[i], p, n)
    BY <1>6 DEF Mentions
  <2>2. s[i].pod \in WithNode
    BY <1>1, <1>6, <2>1 DEF Mention, WithNode
  <2>3. \A j \in 1 .. i : j \in DOMAIN s /\ s[j].pod \in WithNode
    BY <2>2, SnapshotShape
  <2>4. \A j \in 1 .. i : s[j].kind = "ADDED" /\ s[j].node # NoNode
    BY <1>1, <2>3 DEF WithNode
  <2> QED
    BY <2>1, <2>4 DEF Leading
<1>7. \A p \in Pods : Ends(s, p, assigned[p], FALSE)
  BY <1>1 DEF Ends, Says
<1>8. DeletedLast(s) /\ AddedOnce(s)
  BY <1>1, SnapshotShape DEF DeletedLast, AddedOnce
<1> QED
  BY <1>3, <1>4, <1>5, <1>6, <1>7, <1>8
-----------------------------------------------------------------------------

(* What the pod watch has still to deliver.                                *)
Coming == IF stream["pods"] = "open" THEN podFeed ELSE listed["pods"]

Recording(p, n) == loop["pods"] = [at |-> "record", pod |-> p, node |-> n]
At(p, places) == \E l \in Loops : job[l][p].at \in places
Assigning(p, n) == \E l \in Loops : job[l][p] = [at |-> "assign", node |-> n]
NoWork == pending = {} /\ \A l \in Loops, p \in Pods : job[l][p] = NoJob

(* Until its watch of the pods opens a scheduler does nothing.             *)
Blank ==
  /\ stream["pods"] # "open" =>
       /\ NoWork /\ todo = {} /\ loop["pods"] = IdleLoop
       /\ \A p \in Pods : book.placed[p] = NoNode
  /\ \A l \in Loops : stream[l] # "listed" => listed[l] = <<>>

(* A loop that has something to do has no job under way.                   *)
BusyLoops ==
  /\ \A l \in Loops : loop[l] # IdleLoop => NoJobs(l)
  /\ loop["nodes"] # IdleLoop => todo = {}

-----------------------------------------------------------------------------
(* What a step leaves as it is of a pod: its record, what the scheduler    *)
(* holds of it, and what is on its way about it.                           *)
StoreKept(q) == life'[q] = life[q] /\ assigned'[q] = assigned[q]
MindKept(q) ==
  /\ book'.placed[q] = book.placed[q]
  /\ q \in pending' <=> q \in pending
  /\ q \in todo' <=> q \in todo
  /\ \A l \in Loops : job'[l][q] = job[l][q]
  /\ \A n \in Nodes : Recording(q, n)' <=> Recording(q, n)
SameNews(s, t, q) ==
  /\ About(t, q) <=> About(s, q)
  /\ Fresh(t, q) <=> Fresh(s, q)
  /\ Deletes(t, q) <=> Deletes(s, q)
  /\ \A n : Mentions(t, q, n) <=> Mentions(s, q, n)
  /\ \A n, g : Ends(s, q, n, g) => Ends(t, q, n, g)
NewsKept(q) == SameNews(Coming, Coming', q)
Unmoved(q) == StoreKept(q) /\ MindKept(q) /\ NewsKept(q)

(* The store publishes e: a stream that is not open misses it.             *)
Posted(e) ==
  /\ stream' = stream /\ listed' = listed /\ podFeed' = Append(podFeed, e)
  /\ stream["pods"] = "open" => Coming' = Append(Coming, e)
  /\ stream["pods"] # "open" => Coming' = Coming /\ podFeed' # <<>>

LEMMA ComingType ==
  ASSUME RIInv
  PROVE  Coming \in Seq(PodEvents) /\ podFeed \in Seq(PodEvents) /\ listed["pods"] \in Seq(PodEvents)
BY DEF RIInv, IInv, TypeOK, Links, Coming

LEMMA PostedEffect ==
  ASSUME RIInv, NEW e \in PodEvents, podFeed' = Append(podFeed, e), UNCHANGED <<stream, listed>>
  PROVE  Posted(e) /\ \A q : q # e.pod => NewsKept(q)
<1>1. Posted(e)
  <2>1. podFeed' # <<>>
    BY ComingType
  <2> QED
    BY <2>1 DEF Posted, Coming
<1>2. ASSUME NEW q, q # e.pod PROVE NewsKept(q)
  <2>1. CASE stream["pods"] = "open"
    <3>1. Coming' = Append(Coming, e) /\ Coming \in Seq(PodEvents)
      BY <1>1, <2>1, ComingType DEF Posted
    <3>2. ~FreshEvent(e, q) /\ \A n : ~Mention(e, q, n)
      BY <1>2 DEF FreshEvent, Mention
    <3>3. SameNews(Coming, Append(Coming, e), q)
      BY <1>2, <3>1, <3>2, AppendAbout, AppendMentions, AppendEnds DEF SameNews
    <3> QED
      BY <3>1, <3>3 DEF NewsKept
  <2>2. CASE stream["pods"] # "open"
    <3>1. Coming' = Coming
      BY <1>1, <2>2 DEF Posted
    <3> QED
      BY <3>1 DEF NewsKept, SameNews
  <2> QED
    BY <2>1, <2>2
<1> QED
  BY <1>1, <1>2

(* The pods' watch delivers the next event.                                *)
LEMMA TakenEffect ==
  ASSUME RIInv, stream["pods"] = "open", podFeed # <<>>, podFeed' = Tail(podFeed),
         UNCHANGED <<stream, listed>>
  PROVE  /\ Coming = podFeed /\ Coming' = Tail(Coming) /\ Coming \in Seq(PodEvents) /\ Coming # <<>>
         /\ Head(Coming) \in PodEvents
         /\ \A q : q # Head(Coming).pod => NewsKept(q)
<1>1. /\ Coming = podFeed /\ Coming' = Tail(Coming) /\ Coming \in Seq(PodEvents) /\ Coming # <<>>
  BY ComingType DEF Coming
<1>2. Head(Coming) \in PodEvents
  BY <1>1
<1>3. ASSUME NEW q, q # Head(Coming).pod PROVE NewsKept(q)
  <2>1. ~FreshEvent(Head(Coming), q) /\ \A n : ~Mention(Head(Coming), q, n)
    BY <1>3 DEF FreshEvent, Mention
  <2>2. SameNews(Coming, Tail(Coming), q)
    BY <1>1, <1>3, <2>1, TailAbout, TailMentions, TailEnds DEF SameNews
  <2> QED
    BY <1>1, <2>2 DEF NewsKept
<1> QED
  BY <1>1, <1>2, <1>3

LEMMA ComingKept ==
  ASSUME UNCHANGED <<stream, listed, podFeed>>
  PROVE  Coming' = Coming /\ \A q : NewsKept(q)
<1>1. Coming' = Coming
  BY DEF Coming
<1> QED
  BY <1>1 DEF NewsKept, SameNews

LEMMA StartJob ==
  ASSUME RIInv, NEW l \in Loops, NEW p \in Pods, NEW s, Start(l, p, s)
  PROVE  /\ job'[l][p] = s
         /\ \A m \in Loops : m # l => job'[m][p] = job[m][p]
         /\ \A m \in Loops, q \in Pods : q # p => job'[m][q] = job[m][q]
BY DEF Start, RIInv, IInv, TypeOK

LEMMA GotoLoop ==
  ASSUME RIInv, NEW l \in Loops, NEW s, Goto(l, s)
  PROVE  loop'[l] = s /\ \A m \in Loops : m # l => loop'[m] = loop[m]
BY DEF Goto, RIInv, IInv, TypeOK

LEMMA NotRecording ==
  ASSUME NEW p, NEW n
  PROVE  /\ loop["pods"] = IdleLoop \/ loop["pods"] = [at |-> "sweep"] => ~Recording(p, n)
         /\ loop'["pods"] = IdleLoop \/ loop'["pods"] = [at |-> "sweep"] => ~Recording(p, n)'
<1>1. [at |-> "record", pod |-> p, node |-> n] # IdleLoop
      /\ [at |-> "record", pod |-> p, node |-> n] # [at |-> "sweep"]
  BY DEF IdleLoop
<1> QED
  BY <1>1 DEF Recording

LEMMA OpenAtWork ==
  ASSUME Blank
  PROVE  /\ \A l \in Loops, p \in Pods : job[l][p] # NoJob => stream["pods"] = "open"
         /\ \A p \in Pods : p \in todo \/ p \in pending \/ book.placed[p] # NoNode => stream["pods"] = "open"
         /\ loop["pods"] # IdleLoop => stream["pods"] = "open"
BY DEF Blank, NoWork
-----------------------------------------------------------------------------

LEMMA MindUntouched ==
  ASSUME UNCHANGED <<stateVars, taskVars>>
  PROVE  \A q : MindKept(q)
BY DEF MindKept, stateVars, taskVars, Recording

LEMMA CreateEffect ==
  ASSUME RIInv, NEW p \in Pods, CreatePod(p), UNCHANGED linkVars
  PROVE  /\ life[p] = "new" /\ life'[p] = "live" /\ assigned'[p] = assigned[p]
         /\ Posted(PodEvent("ADDED", p, NoNode))
         /\ \A q : MindKept(q)
         /\ \A q \in Pods : q # p => Unmoved(q)
<1>1. PICK e : e = PodEvent("ADDED", p, NoNode)
  OBVIOUS
<1>2. e \in PodEvents /\ e.pod = p
  BY <1>1, EventTypes DEF MaybeNodes, PodEvent
<1>3. Posted(e) /\ \A q : q # p => NewsKept(q)
  BY <1>1, <1>2, PostedEffect DEF CreatePod, linkVars
<1>4. life[p] = "new" /\ life'[p] = "live" /\ assigned'[p] = assigned[p]
  BY DEF CreatePod, RIInv, IInv, TypeOK
<1>5. \A q \in Pods : q # p => StoreKept(q)
  BY DEF CreatePod, StoreKept, RIInv, IInv, TypeOK
<1>6. \A q : MindKept(q)
  BY MindUntouched DEF CreatePod
<1> QED
  BY <1>1, <1>3, <1>4, <1>5, <1>6 DEF Unmoved

LEMMA DeleteEffect ==
  ASSUME RIInv, NEW p \in Pods, DeletePod(p), UNCHANGED linkVars
  PROVE  /\ life[p] = "live" /\ life'[p] = "gone" /\ assigned'[p] = assigned[p]
         /\ PodEvent("DELETED", p, assigned[p]) \in PodEvents
         /\ Posted(PodEvent("DELETED", p, assigned[p]))
         /\ \A q : MindKept(q)
         /\ \A q \in Pods : q # p => Unmoved(q)
<1>1. PICK e : e = PodEvent("DELETED", p, assigned[p])
  OBVIOUS
<1>2. e \in PodEvents /\ e.pod = p
  BY <1>1, EventTypes DEF PodEvent, RIInv, IInv, TypeOK
<1>3. Posted(e) /\ \A q : q # p => NewsKept(q)
  BY <1>1, <1>2, PostedEffect DEF DeletePod, linkVars
<1>4. life[p] = "live" /\ life'[p] = "gone" /\ assigned'[p] = assigned[p]
  BY DEF DeletePod, RIInv, IInv, TypeOK
<1>5. \A q \in Pods : q # p => StoreKept(q)
  BY DEF DeletePod, StoreKept, RIInv, IInv, TypeOK
<1>6. \A q : MindKept(q)
  BY MindUntouched DEF DeletePod
<1> QED
  BY <1>1, <1>2, <1>3, <1>4, <1>5, <1>6 DEF Unmoved

(* News of nodes change nothing about a pod.                               *)
LEMMA NodeEffect ==
  ASSUME RIInv, UNCHANGED linkVars,
         \/ \E n \in Nodes : NodeRegisters(n) \/ NodeConnects(n) \/ NodeIsLost(n)
         \/ TakeNodeEvent
  PROVE  /\ UNCHANGED <<life, assigned, podFeed, book, pending, todo, job>> /\ loop'["pods"] = loop["pods"]
         /\ Coming' = Coming /\ \A q : Unmoved(q)
<1>1. UNCHANGED <<life, assigned, podFeed, book, pending, todo, job>>
  BY DEF NodeRegisters, NodeConnects, NodeIsLost, TakeNodeEvent, stateVars, taskVars
<1>2. loop'["pods"] = loop["pods"]
  <2>1. CASE TakeNodeEvent
    <3>1. PICK s : Goto("nodes", s)
      BY <2>1 DEF TakeNodeEvent
    <3> QED
      BY <3>1, GotoLoop DEF Loops
  <2> QED
    BY <2>1 DEF NodeRegisters, NodeConnects, NodeIsLost, taskVars
<1>3. \A q : MindKept(q) /\ StoreKept(q)
  BY <1>1, <1>2 DEF MindKept, StoreKept, Recording
<1>4. Coming' = Coming /\ \A q : NewsKept(q)
  BY <1>1, ComingKept DEF linkVars
<1> QED
  BY <1>1, <1>2, <1>3, <1>4 DEF Unmoved

LEMMA EvictEffect ==
  ASSUME RIInv, Evict, UNCHANGED linkVars
  PROVE  /\ loop["nodes"].at = "evict" /\ loop["nodes"] # IdleLoop
         /\ todo' = PlacedOn(book, loop["nodes"].node)
         /\ UNCHANGED <<life, assigned, pending, job>>
         /\ loop'["pods"] = loop["pods"] /\ loop'["nodes"] = IdleLoop
         /\ \A q : StoreKept(q) /\ NewsKept(q)
         /\ Coming' = Coming
         /\ \A q \in Pods : book'.placed[q] = IF q \in todo' THEN NoNode ELSE book.placed[q]
<1>1. loop["nodes"].at = "evict" /\ loop["nodes"] # IdleLoop
  BY DEF Evict, IdleLoop
<1>2. loop'["pods"] = loop["pods"] /\ loop'["nodes"] = IdleLoop
  BY GotoLoop DEF Evict, Loops
<1>3. todo' = PlacedOn(book, loop["nodes"].node) /\ book' = Evicted(book, loop["nodes"].node)
  BY DEF Evict
<1>4. UNCHANGED <<life, assigned, podFeed, pending, job>>
  BY DEF Evict, apiVars
<1>5. \A q \in Pods : book'.placed[q] = IF q \in todo' THEN NoNode ELSE book.placed[q]
  BY <1>3 DEF Evicted, PlacedOn
<1>6. Coming' = Coming /\ \A q : NewsKept(q)
  BY <1>4, ComingKept DEF linkVars
<1> QED
  BY <1>1, <1>2, <1>3, <1>4, <1>5, <1>6 DEF StoreKept

LEMMA NextOrphanEffect ==
  ASSUME RIInv, NEW p \in Pods, NextOrphan(p), UNCHANGED linkVars
  PROVE  /\ p \in todo /\ NoJobs("nodes") /\ todo' = todo \ {p}
         /\ job'["nodes"][p] = [at |-> "orphan"] /\ job'["pods"][p] = job["pods"][p]
         /\ UNCHANGED <<life, assigned, book, pending, loop>>
         /\ Coming' = Coming /\ \A q : StoreKept(q) /\ NewsKept(q)
         /\ \A q \in Pods : q # p => Unmoved(q)
<1>1. p \in todo /\ NoJobs("nodes") /\ todo' = todo \ {p} /\ Start("nodes", p, [at |-> "orphan"])
      /\ UNCHANGED <<life, assigned, podFeed, book, pending, loop>>
  BY DEF NextOrphan, apiVars, stateVars
<1>2. /\ job'["nodes"][p] = [at |-> "orphan"] /\ job'["pods"][p] = job["pods"][p]
      /\ \A m \in Loops, q \in Pods : q # p => job'[m][q] = job[m][q]
  BY <1>1, StartJob DEF Loops
<1>3. Coming' = Coming /\ \A q : NewsKept(q)
  BY <1>1, ComingKept DEF linkVars
<1>4. \A q \in Pods : q # p => MindKept(q)
  BY <1>1, <1>2 DEF MindKept, Recording
<1> QED
  BY <1>1, <1>2, <1>3, <1>4 DEF StoreKept, Unmoved

LEMMA SweepEffect ==
  ASSUME RIInv, NEW l \in Loops, Sweep(l), UNCHANGED linkVars
  PROVE  /\ loop[l] = [at |-> "sweep"] /\ loop'[l] = IdleLoop
         /\ \A m \in Loops : m # l => loop'[m] = loop[m]
         /\ UNCHANGED <<life, assigned, book, pending, todo>>
         /\ \A q \in Pods : job'[l][q] = IF q \in pending THEN [at |-> "retry"] ELSE NoJob
         /\ \A m \in Loops, q \in Pods : m # l => job'[m][q] = job[m][q]
         /\ Coming' = Coming /\ \A q : StoreKept(q) /\ NewsKept(q)
         /\ \A q, n : Recording(q, n)' <=> Recording(q, n)
<1>1. loop[l].at = "sweep" /\ UNCHANGED <<life, assigned, podFeed, book, pending, todo>> /\ Goto(l, IdleLoop)
  BY DEF Sweep, apiVars, stateVars
<1>2. loop[l] \in LoopStates
  BY DEF RIInv, IInv, TypeOK
<1>3. loop[l] = [at |-> "sweep"]
  BY <1>1, <1>2 DEF LoopStates, IdleLoop
<1>4. loop'[l] = IdleLoop /\ \A m \in Loops : m # l => loop'[m] = loop[m]
  BY <1>1, GotoLoop
<1>5. /\ \A q \in Pods : job'[l][q] = IF q \in pending THEN [at |-> "retry"] ELSE NoJob
      /\ \A m \in Loops, q \in Pods : m # l => job'[m][q] = job[m][q]
  BY DEF Sweep, RIInv, IInv, TypeOK
<1>6. Coming' = Coming /\ \A q : NewsKept(q)
  BY <1>1, ComingKept DEF linkVars
<1>7. \A q, n : Recording(q, n)' <=> Recording(q, n)
  <2>1. CASE l = "pods"
    BY <2>1, <1>3, <1>4, NotRecording
  <2>2. CASE l = "nodes"
    BY <2>2, <1>4 DEF Recording, Loops
  <2> QED
    BY <2>1, <2>2 DEF Loops
<1> QED
  BY <1>1, <1>3, <1>4, <1>5, <1>6, <1>7 DEF StoreKept
-----------------------------------------------------------------------------

LEMMA ReleasePlaced ==
  ASSUME NEW b \in Books, NEW p \in Pods
  PROVE  \A q \in Pods : Release(b, p).placed[q] = IF q = p THEN NoNode ELSE b.placed[q]
BY DEF Release, Books

LEMMA RecordPlaced ==
  ASSUME NEW b \in Books, Exact(b), NEW p \in Pods, NEW n \in Nodes
  PROVE  \A q \in Pods : Record(b, p, n).placed[q] = IF q = p THEN n ELSE b.placed[q]
<1>1. CASE b.placed[p] = n
  BY <1>1 DEF Record
<1>2. CASE b.placed[p] # n
  <2>1. PICK r : r = Release(b, p)
    OBVIOUS
  <2>2. r \in Books /\ \A q \in Pods : r.placed[q] = IF q = p THEN NoNode ELSE b.placed[q]
    BY <2>1, ReleaseExact, ReleasePlaced
  <2>3. Record(b, p, n) = Claim(r, p, n)
    BY <1>2, <2>1 DEF Record
  <2>4. \A q \in Pods : Claim(r, p, n).placed[q] = IF q = p THEN n ELSE r.placed[q]
    BY <2>2 DEF Claim, Books
  <2> QED
    BY <2>2, <2>3, <2>4
<1> QED
  BY <1>1, <1>2

LEMMA RemovalEffect ==
  ASSUME RIInv, TakeRemoval, stream["pods"] = "open", UNCHANGED linkVars
  PROVE  LET e == Head(Coming)
         IN  /\ Coming \in Seq(PodEvents) /\ Coming # <<>> /\ Coming' = Tail(Coming)
             /\ e \in PodEvents /\ e.kind = "DELETED"
             /\ loop["pods"] = IdleLoop /\ NoJobs("pods")
             /\ loop'["pods"] \in {IdleLoop, [at |-> "sweep"]} /\ loop'["nodes"] = loop["nodes"]
             /\ UNCHANGED <<life, assigned, todo, job>>
             /\ pending' = pending \ {e.pod}
             /\ book'.placed[e.pod] = NoNode
             /\ \A q, n : ~Recording(q, n) /\ ~Recording(q, n)'
             /\ \A q \in Pods : q # e.pod => Unmoved(q)
<1>1. podFeed # <<>> /\ podFeed' = Tail(podFeed) /\ UNCHANGED <<stream, listed>>
  BY DEF TakeRemoval, linkVars
<1>2. Coming = podFeed
  BY DEF Coming
<1>3. PICK e : e = Head(Coming)
  OBVIOUS
<1>4. /\ Coming' = Tail(Coming) /\ Coming \in Seq(PodEvents) /\ Coming # <<>>
      /\ e \in PodEvents /\ \A q : q # e.pod => NewsKept(q)
  BY <1>1, <1>3, TakenEffect
<1>5. /\ e.kind = "DELETED" /\ pending' = pending \ {e.pod} /\ book' = Release(book, e.pod)
      /\ Goto("pods", IF Placed(e.pod) THEN [at |-> "sweep"] ELSE IdleLoop)
      /\ UNCHANGED <<life, assigned, todo, job>>
      /\ loop["pods"] = IdleLoop /\ NoJobs("pods")
  BY <1>2, <1>3 DEF TakeRemoval, Free
<1>6. loop'["pods"] \in {IdleLoop, [at |-> "sweep"]} /\ loop'["nodes"] = loop["nodes"]
  BY <1>5, GotoLoop DEF Loops
<1>7. \A q, n : ~Recording(q, n) /\ ~Recording(q, n)'
  BY <1>5, <1>6, NotRecording
<1>8. e.pod \in Pods /\ book \in Books
  BY <1>4 DEF PodEvents, RIInv, IInv, TypeOK
<1>9. \A q \in Pods : book'.placed[q] = IF q = e.pod THEN NoNode ELSE book.placed[q]
  BY <1>5, <1>8, ReleasePlaced
<1>10. \A q \in Pods : q # e.pod => MindKept(q) /\ StoreKept(q)
  BY <1>5, <1>7, <1>9 DEF MindKept, StoreKept
<1> QED
  BY <1>3, <1>4, <1>5, <1>6, <1>7, <1>8, <1>9, <1>10 DEF Unmoved

LEMMA PlacementEffect ==
  ASSUME RIInv, TakePlacement, stream["pods"] = "open", UNCHANGED linkVars
  PROVE  LET e == Head(Coming)
         IN  /\ Coming \in Seq(PodEvents) /\ Coming # <<>> /\ Coming' = Tail(Coming)
             /\ e \in PodEvents /\ e.kind # "DELETED" /\ e.node \in Nodes
             /\ loop["pods"] = IdleLoop /\ NoJobs("pods") /\ loop'["nodes"] = loop["nodes"]
             /\ UNCHANGED <<life, assigned, todo, book, pending>>
             /\ \A q, n : ~Recording(q, n)
             /\ job'["nodes"][e.pod] = job["nodes"][e.pod]
             /\ \/ /\ view[e.node] = "NOT_READY" /\ loop' = loop
                   /\ job'["pods"][e.pod] = [at |-> "orphan"]
                   /\ \A q, n : ~Recording(q, n)'
                \/ /\ view[e.node] # "NOT_READY" /\ job' = job
                   /\ loop'["pods"] = [at |-> "record", pod |-> e.pod, node |-> e.node]
                   /\ \A q, n : Recording(q, n)' <=> q = e.pod /\ n = e.node
             /\ \A q \in Pods : q # e.pod => Unmoved(q)
<1>1. podFeed # <<>> /\ podFeed' = Tail(podFeed) /\ UNCHANGED <<stream, listed>>
  BY DEF TakePlacement, linkVars
<1>2. Coming = podFeed
  BY DEF Coming
<1>3. PICK e : e = Head(Coming)
  OBVIOUS
<1>4. /\ Coming' = Tail(Coming) /\ Coming \in Seq(PodEvents) /\ Coming # <<>>
      /\ e \in PodEvents /\ \A q : q # e.pod => NewsKept(q)
  BY <1>1, <1>3, TakenEffect
<1>5. /\ e.kind # "DELETED" /\ e.node # NoNode
      /\ UNCHANGED <<life, assigned, todo, book, pending>>
      /\ loop["pods"] = IdleLoop /\ NoJobs("pods")
  BY <1>2, <1>3 DEF TakePlacement, Free, stateVars
<1>6. e.pod \in Pods /\ e.node \in Nodes
  BY <1>4, <1>5 DEF PodEvents, MaybeNodes
<1>7. \A q, n : ~Recording(q, n)
  BY <1>5, NotRecording
<1>8. CASE view[e.node] = "NOT_READY"
  <2>1. Start("pods", e.pod, [at |-> "orphan"]) /\ loop' = loop
    BY <1>2, <1>3, <1>8 DEF TakePlacement
  <2>2. /\ job'["pods"][e.pod] = [at |-> "orphan"] /\ job'["nodes"][e.pod] = job["nodes"][e.pod]
        /\ \A m \in Loops, q \in Pods : q # e.pod => job'[m][q] = job[m][q]
    BY <1>6, <2>1, StartJob DEF Loops
  <2>3. \A q, n : ~Recording(q, n)'
    BY <1>5, <2>1, NotRecording
  <2>4. \A q \in Pods : q # e.pod => MindKept(q) /\ StoreKept(q)
    BY <1>5, <1>7, <2>2, <2>3 DEF MindKept, StoreKept
  <2> QED
    BY <1>3, <1>4, <1>5, <1>6, <1>7, <1>8, <2>1, <2>2, <2>3, <2>4 DEF Unmoved
<1>9. CASE view[e.node] # "NOT_READY"
  <2>1. Goto("pods", [at |-> "record", pod |-> e.pod, node |-> e.node]) /\ job' = job
    BY <1>2, <1>3, <1>9 DEF TakePlacement
  <2>2. loop'["pods"] = [at |-> "record", pod |-> e.pod, node |-> e.node] /\ loop'["nodes"] = loop["nodes"]
    BY <2>1, GotoLoop DEF Loops
  <2>3. \A q, n : Recording(q, n)' <=> q = e.pod /\ n = e.node
    <3>1. PICK f : f = loop'["pods"]
      OBVIOUS
    <3>2. f = [at |-> "record", pod |-> e.pod, node |-> e.node]
      BY <2>2, <3>1
    <3>3. \A q, n : f = [at |-> "record", pod |-> q, node |-> n] <=> q = e.pod /\ n = e.node
      BY <3>2
    <3> QED
      BY <3>1, <3>3 DEF Recording
  <2>4. \A q \in Pods : q # e.pod => MindKept(q) /\ StoreKept(q)
    BY <1>5, <1>7, <2>1, <2>3 DEF MindKept, StoreKept
  <2> QED
    BY <1>3, <1>4, <1>5, <1>6, <1>7, <1>9, <2>1, <2>2, <2>3, <2>4 DEF Unmoved
<1> QED
  BY <1>8, <1>9

LEMMA RecordEffect ==
  ASSUME RIInv, RecordPlacement, UNCHANGED linkVars
  PROVE  \E p \in Pods, n \in Nodes :
           /\ Recording(p, n) /\ loop["pods"] # IdleLoop
           /\ \A q, m : Recording(q, m) => q = p /\ m = n
           /\ \A q, m : ~Recording(q, m)'
           /\ loop'["pods"] = IdleLoop /\ loop'["nodes"] = loop["nodes"]
           /\ UNCHANGED <<life, assigned, todo, job>> /\ Coming' = Coming
           /\ pending' = pending \ {p}
           /\ book' = Record(book, p, n) /\ book'.placed[p] = n
           /\ \A q \in Pods : q # p => Unmoved(q)
           /\ StoreKept(p) /\ NewsKept(p)
<1>1. loop["pods"].at = "record" /\ loop["pods"] \in LoopStates
  BY DEF RecordPlacement, RIInv, IInv, TypeOK, Loops
<1>2. PICK p \in Pods, n \in Nodes : loop["pods"] = [at |-> "record", pod |-> p, node |-> n]
  BY <1>1 DEF LoopStates, IdleLoop
<1>3. loop["pods"].pod = p /\ loop["pods"].node = n /\ loop["pods"] # IdleLoop
  BY <1>2 DEF IdleLoop
<1>4. /\ pending' = pending \ {p} /\ book' = Record(book, p, n) /\ Goto("pods", IdleLoop)
      /\ UNCHANGED <<life, assigned, podFeed, todo, job>>
  BY <1>3 DEF RecordPlacement, apiVars
<1>5. loop'["pods"] = IdleLoop /\ loop'["nodes"] = loop["nodes"]
  BY <1>4, GotoLoop DEF Loops
<1>6. \A q, m : Recording(q, m) => q = p /\ m = n
  <2>1. PICK f : f = loop["pods"]
    OBVIOUS
  <2>2. \A q, m : f = [at |-> "record", pod |-> q, node |-> m] => q = p /\ m = n
    BY <1>2, <2>1
  <2> QED
    BY <2>1, <2>2 DEF Recording
<1>7. \A q, m : ~Recording(q, m)'
  BY <1>5, NotRecording
<1>8. \A q \in Pods : book'.placed[q] = IF q = p THEN n ELSE book.placed[q]
  BY <1>4, RecordPlaced DEF RIInv, IInv, TypeOK
<1>9. Coming' = Coming /\ \A q : NewsKept(q)
  BY <1>4, ComingKept DEF linkVars
<1>10. \A q \in Pods : q # p => MindKept(q)
  BY <1>4, <1>6, <1>7, <1>8 DEF MindKept
<1>11. \A q : StoreKept(q)
  BY <1>4 DEF StoreKept
<1>12. Recording(p, n)
  BY <1>2 DEF Recording
<1> QED
  BY <1>3, <1>4, <1>5, <1>6, <1>7, <1>8, <1>9, <1>10, <1>11, <1>12 DEF Unmoved

LEMMA UnplacedEffect ==
  ASSUME RIInv, TakeUnplaced, stream["pods"] = "open", UNCHANGED linkVars
  PROVE  LET e == Head(Coming)
         IN  /\ Coming \in Seq(PodEvents) /\ Coming # <<>> /\ Coming' = Tail(Coming)
             /\ e \in PodEvents /\ e.kind # "DELETED" /\ e.node = NoNode
             /\ loop["pods"] = IdleLoop /\ NoJobs("pods")
             /\ UNCHANGED <<life, assigned, todo, book, pending, loop>>
             /\ \A q, n : ~Recording(q, n) /\ ~Recording(q, n)'
             /\ job'["nodes"][e.pod] = job["nodes"][e.pod]
             /\ job'["pods"][e.pod] = IF e.kind = "ADDED" THEN [at |-> "try"] ELSE NoJob
             /\ \A q \in Pods : q # e.pod => Unmoved(q)
<1>1. podFeed # <<>> /\ podFeed' = Tail(podFeed) /\ UNCHANGED <<stream, listed>>
  BY DEF TakeUnplaced, linkVars
<1>2. Coming = podFeed
  BY DEF Coming
<1>3. PICK e : e = Head(Coming)
  OBVIOUS
<1>4. /\ Coming' = Tail(Coming) /\ Coming \in Seq(PodEvents) /\ Coming # <<>>
      /\ e \in PodEvents /\ \A q : q # e.pod => NewsKept(q)
  BY <1>1, <1>3, TakenEffect
<1>5. /\ e.kind # "DELETED" /\ e.node = NoNode
      /\ IF e.kind = "ADDED" THEN Start("pods", e.pod, [at |-> "try"]) ELSE UNCHANGED job
      /\ UNCHANGED <<life, assigned, todo, book, pending, loop>>
      /\ loop["pods"] = IdleLoop /\ NoJobs("pods")
  BY <1>2, <1>3 DEF TakeUnplaced, Free, stateVars
<1>6. e.pod \in Pods
  BY <1>4 DEF PodEvents
<1>7. \A q, n : ~Recording(q, n) /\ ~Recording(q, n)'
  BY <1>5, NotRecording
<1>8. /\ job'["pods"][e.pod] = IF e.kind = "ADDED" THEN [at |-> "try"] ELSE NoJob
      /\ job'["nodes"][e.pod] = job["nodes"][e.pod]
      /\ \A m \in Loops, q \in Pods : q # e.pod => job'[m][q] = job[m][q]
  <2>1. CASE e.kind = "ADDED"
    BY <1>5, <1>6, <2>1, StartJob DEF Loops
  <2>2. CASE e.kind # "ADDED"
    BY <1>5, <1>6, <2>2 DEF NoJobs
  <2> QED
    BY <2>1, <2>2
<1>9. \A q \in Pods : q # e.pod => MindKept(q) /\ StoreKept(q)
  BY <1>5, <1>7, <1>8 DEF MindKept, StoreKept
<1> QED
  BY <1>3, <1>4, <1>5, <1>6, <1>7, <1>8, <1>9 DEF Unmoved
-----------------------------------------------------------------------------

(* A job of p leaves the other pods alone, and its loop too.               *)
JobKeeps(l, p) ==
  /\ \A q \in Pods : q # p => Unmoved(q)
  /\ \A m \in Loops : m # l => job'[m][p] = job[m][p]
  /\ life' = life /\ todo' = todo /\ loop' = loop

LEMMA LoopKept ==
  ASSUME loop' = loop
  PROVE  \A q, n : Recording(q, n)' <=> Recording(q, n)
BY DEF Recording

LEMMA OrphanEffect ==
  ASSUME RIInv, NEW l \in Loops, NEW p \in Pods, Orphan(l, p), UNCHANGED linkVars
  PROVE  /\ JobKeeps(l, p) /\ job[l][p].at = "orphan" /\ job'[l][p] = [at |-> "try"]
         /\ life[p] = "live" /\ assigned'[p] = NoNode
         /\ Posted(PodEvent("MODIFIED", p, NoNode))
         /\ UNCHANGED <<pending, book>>
<1>1. PICK e : e = PodEvent("MODIFIED", p, NoNode)
  OBVIOUS
<1>2. e \in PodEvents /\ e.pod = p
  BY <1>1, EventTypes DEF MaybeNodes, PodEvent
<1>3. Posted(e) /\ \A q : q # p => NewsKept(q)
  BY <1>1, <1>2, PostedEffect DEF Orphan, linkVars
<1>4. /\ job[l][p].at = "orphan" /\ life[p] = "live" /\ Start(l, p, [at |-> "try"])
      /\ UNCHANGED <<life, pending, book, todo, loop>>
  BY DEF Orphan, stateVars
<1>5. assigned'[p] = NoNode /\ \A q \in Pods : q # p => StoreKept(q)
  BY DEF Orphan, StoreKept, RIInv, IInv, TypeOK
<1>6. /\ job'[l][p] = [at |-> "try"]
      /\ \A m \in Loops : m # l => job'[m][p] = job[m][p]
      /\ \A m \in Loops, q \in Pods : q # p => job'[m][q] = job[m][q]
  BY <1>4, StartJob
<1>7. \A q \in Pods : q # p => MindKept(q)
  BY <1>4, <1>6, LoopKept DEF MindKept
<1> QED
  BY <1>1, <1>3, <1>4, <1>5, <1>6, <1>7 DEF JobKeeps, Unmoved

(* A step of a job that says nothing to the store.                         *)
LEMMA SilentJob ==
  ASSUME RIInv, NEW l \in Loops, NEW p \in Pods, NEW s, Start(l, p, s),
         UNCHANGED <<life, assigned, podFeed, book, todo, loop>>, UNCHANGED linkVars,
         \A q \in Pods : q # p => (q \in pending' <=> q \in pending)
  PROVE  /\ JobKeeps(l, p) /\ job'[l][p] = s
         /\ Coming' = Coming /\ \A q : StoreKept(q) /\ NewsKept(q)
<1>1. /\ job'[l][p] = s
      /\ \A m \in Loops : m # l => job'[m][p] = job[m][p]
      /\ \A m \in Loops, q \in Pods : q # p => job'[m][q] = job[m][q]
  BY StartJob
<1>2. Coming' = Coming /\ \A q : NewsKept(q)
  BY ComingKept DEF linkVars
<1>3. \A q : StoreKept(q)
  BY DEF StoreKept
<1>4. \A q \in Pods : q # p => MindKept(q)
  BY <1>1, LoopKept DEF MindKept
<1> QED
  BY <1>1, <1>2, <1>3, <1>4 DEF JobKeeps, Unmoved

LEMMA OrphanGoneEffect ==
  ASSUME RIInv, NEW l \in Loops, NEW p \in Pods, OrphanGone(l, p), UNCHANGED linkVars
  PROVE  /\ JobKeeps(l, p) /\ job[l][p].at = "orphan" /\ job'[l][p] = NoJob
         /\ life[p] # "live" /\ UNCHANGED <<pending, book>>
         /\ Coming' = Coming /\ \A q : StoreKept(q) /\ NewsKept(q)
<1>1. /\ job[l][p].at = "orphan" /\ life[p] # "live" /\ Start(l, p, NoJob)
      /\ UNCHANGED <<life, assigned, podFeed, book, pending, todo, loop>>
  BY DEF OrphanGone, Done, apiVars, stateVars
<1> QED
  BY <1>1, SilentJob

LEMMA OrphanFailsEffect ==
  ASSUME RIInv, NEW l \in Loops, NEW p \in Pods, OrphanFails(l, p), UNCHANGED linkVars
  PROVE  /\ JobKeeps(l, p) /\ job[l][p].at = "orphan" /\ job'[l][p] = NoJob
         /\ pending' \in {pending, pending \cup {p}} /\ book' = book /\ faults' # faults
         /\ Coming' = Coming /\ \A q : StoreKept(q) /\ NewsKept(q)
<1>1. /\ job[l][p].at = "orphan" /\ Start(l, p, NoJob) /\ faults' = faults + 1
      /\ pending' \in {pending, pending \cup {p}}
      /\ UNCHANGED <<life, assigned, podFeed, book, todo, loop>>
  BY DEF OrphanFails, Done
<1>2. faults' # faults
  BY <1>1 DEF RIInv, IInv, TypeOK
<1> QED
  BY <1>1, <1>2, SilentJob

(* A pod is decided about under the lock: it is left pending or placed.    *)
Parked(l, p) ==
  /\ Candidates(p) = {} /\ pending' = pending \cup {p} /\ book' = book
  /\ job'[l][p] = [at |-> "assign", node |-> NoNode]
PlacedAt(l, p, n) ==
  /\ n \in Elected(p) /\ n \in Nodes /\ n # NoNode /\ pending' = pending \ {p} /\ book' = Record(book, p, n)
  /\ book'.placed[p] = n
  /\ job'[l][p] = [at |-> "assign", node |-> n]

LEMMA PlaceEffect ==
  ASSUME RIInv, NEW l \in Loops, NEW p \in Pods, Place(l, p),
         UNCHANGED <<life, assigned, podFeed, todo, loop>>, UNCHANGED linkVars
  PROVE  /\ JobKeeps(l, p) /\ Coming' = Coming /\ \A q : StoreKept(q) /\ NewsKept(q)
         /\ Parked(l, p) \/ \E n \in Nodes : PlacedAt(l, p, n)
<1>1. CASE /\ Candidates(p) = {}
           /\ pending' = pending \cup {p}
           /\ Start(l, p, [at |-> "assign", node |-> NoNode])
           /\ UNCHANGED book
  <2>1. /\ JobKeeps(l, p) /\ Coming' = Coming /\ \A q : StoreKept(q) /\ NewsKept(q)
        /\ job'[l][p] = [at |-> "assign", node |-> NoNode]
    BY <1>1, SilentJob
  <2> QED
    BY <1>1, <2>1 DEF Parked
<1>2. ASSUME NEW n \in Elected(p), pending' = pending \ {p}, book' = Record(book, p, n),
             Start(l, p, [at |-> "assign", node |-> n])
      PROVE  /\ JobKeeps(l, p) /\ Coming' = Coming /\ \A q : StoreKept(q) /\ NewsKept(q)
             /\ PlacedAt(l, p, n) /\ n \in Nodes
  <2>1. n \in Nodes /\ n # NoNode
    BY NoNodeIsNoNode DEF Elected, Candidates
  <2>2. /\ job'[l][p] = [at |-> "assign", node |-> n]
        /\ \A m \in Loops : m # l => job'[m][p] = job[m][p]
        /\ \A m \in Loops, q \in Pods : q # p => job'[m][q] = job[m][q]
    BY <1>2, StartJob
  <2>3. \A q \in Pods : book'.placed[q] = IF q = p THEN n ELSE book.placed[q]
    BY <1>2, <2>1, RecordPlaced DEF RIInv, IInv, TypeOK
  <2>4. Coming' = Coming /\ \A q : NewsKept(q)
    BY ComingKept DEF linkVars
  <2>5. \A q : StoreKept(q)
    BY DEF StoreKept
  <2>6. \A q \in Pods : q # p => MindKept(q)
    BY <1>2, <2>2, <2>3, LoopKept DEF MindKept
  <2> QED
    BY <1>2, <2>1, <2>2, <2>3, <2>4, <2>5, <2>6 DEF JobKeeps, Unmoved, PlacedAt
<1> QED
  BY <1>1, <1>2 DEF Place

(* A pending pod that somebody else has resolved is left alone.            *)
LEMMA TryEffect ==
  ASSUME RIInv, NEW l \in Loops, NEW p \in Pods, Try(l, p) \/ Retry(l, p), UNCHANGED linkVars
  PROVE  /\ JobKeeps(l, p) /\ Coming' = Coming /\ \A q : StoreKept(q) /\ NewsKept(q)
         /\ \/ job[l][p].at = "try"
            \/ job[l][p].at = "retry"
         /\ \/ /\ job[l][p].at = "retry" => p \in pending
               /\ Parked(l, p) \/ \E n \in Nodes : PlacedAt(l, p, n)
            \/ /\ job[l][p].at = "retry" /\ p \notin pending
               /\ job'[l][p] = NoJob /\ UNCHANGED <<pending, book>>
<1>1. UNCHANGED <<life, assigned, podFeed, todo, loop>>
  BY DEF Try, Retry, apiVars
<1>2. CASE Place(l, p) /\ (Try(l, p) \/ p \in pending)
  <2>1. \/ job[l][p].at = "try"
        \/ job[l][p].at = "retry" /\ p \in pending
    BY <1>2 DEF Try, Retry
  <2> QED
    BY <1>1, <1>2, <2>1, PlaceEffect
<1>3. CASE Retry(l, p) /\ p \notin pending
  <2>1. job[l][p].at = "retry" /\ Start(l, p, NoJob) /\ UNCHANGED <<pending, book>>
    BY <1>3 DEF Retry, Done
  <2> QED
    BY <1>1, <1>3, <2>1, SilentJob
<1> QED
  BY <1>2, <1>3 DEF Try, Retry

LEMMA JobNode ==
  ASSUME RIInv, NEW l \in Loops, NEW p \in Pods, job[l][p].at = "assign"
  PROVE  job[l][p].node \in MaybeNodes /\ job[l][p] = [at |-> "assign", node |-> job[l][p].node]
<1>1. job[l][p] \in JobStates
  BY DEF RIInv, IInv, TypeOK
<1> QED
  BY <1>1 DEF JobStates

AssignedEvent(p, n) == PodEvent(IF n = NoNode THEN "MODIFIED" ELSE "SCHEDULED", p, n)

LEMMA AssignEffect ==
  ASSUME RIInv, NEW l \in Loops, NEW p \in Pods, Assign(l, p), UNCHANGED linkVars
  PROVE  \E n \in MaybeNodes :
           /\ JobKeeps(l, p) /\ job[l][p] = [at |-> "assign", node |-> n] /\ job'[l][p] = NoJob
           /\ life[p] = "live" /\ assigned'[p] = n
           /\ AssignedEvent(p, n) \in PodEvents /\ Posted(AssignedEvent(p, n))
           /\ UNCHANGED <<pending, book>>
           /\ told' = IF n \in Nodes /\ status[n] = "READY"
                        THEN [told EXCEPT ![p] = @ \cup {n}] ELSE told
<1>1. PICK n : n = job[l][p].node
  OBVIOUS
<1>2. n \in MaybeNodes /\ job[l][p] = [at |-> "assign", node |-> n]
  BY <1>1, JobNode DEF Assign
<1>3. PICK e : e = AssignedEvent(p, n)
  OBVIOUS
<1>4. e \in PodEvents /\ e.pod = p
  BY <1>2, <1>3, EventTypes DEF PodEvent, AssignedEvent
<1>5. podFeed' = Append(podFeed, e)
  BY <1>1, <1>3 DEF Assign, AssignedEvent
<1>6. Posted(e) /\ \A q : q # p => NewsKept(q)
  BY <1>4, <1>5, PostedEffect DEF linkVars
<1>7. /\ life[p] = "live" /\ Start(l, p, NoJob)
      /\ UNCHANGED <<life, pending, book, todo, loop>>
  BY DEF Assign, stateVars, Done
<1>8. assigned'[p] = n /\ \A q \in Pods : q # p => StoreKept(q)
  BY <1>1 DEF Assign, StoreKept, RIInv, IInv, TypeOK
<1>9. /\ job'[l][p] = NoJob
      /\ \A m \in Loops : m # l => job'[m][p] = job[m][p]
      /\ \A m \in Loops, q \in Pods : q # p => job'[m][q] = job[m][q]
  BY <1>7, StartJob
<1>10. \A q \in Pods : q # p => MindKept(q)
  BY <1>7, <1>9, LoopKept DEF MindKept
<1>11. told' = IF n \in Nodes /\ status[n] = "READY"
                 THEN [told EXCEPT ![p] = @ \cup {n}] ELSE told
  BY <1>1 DEF Assign
<1> QED
  BY <1>2, <1>3, <1>4, <1>6, <1>7, <1>8, <1>9, <1>10, <1>11 DEF JobKeeps, Unmoved

LEMMA NotFoundEffect ==
  ASSUME RIInv, NEW l \in Loops, NEW p \in Pods, NotFound(l, p), UNCHANGED linkVars
  PROVE  /\ JobKeeps(l, p) /\ job[l][p].at = "assign" /\ job'[l][p] = [at |-> "drop"]
         /\ life[p] = "live" => faults' # faults
         /\ UNCHANGED <<pending, book>>
         /\ Coming' = Coming /\ \A q : StoreKept(q) /\ NewsKept(q)
<1>1. /\ job[l][p].at = "assign" /\ Start(l, p, [at |-> "drop"])
      /\ UNCHANGED <<life, assigned, podFeed, book, pending, todo, loop>>
  BY DEF NotFound, stateVars
<1>2. life[p] = "live" => faults' # faults
  BY DEF NotFound, RIInv, IInv, TypeOK
<1> QED
  BY <1>1, <1>2, SilentJob

LEMMA DropEffect ==
  ASSUME RIInv, NEW l \in Loops, NEW p \in Pods, DropPending(l, p), UNCHANGED linkVars
  PROVE  /\ JobKeeps(l, p) /\ job[l][p].at = "drop" /\ job'[l][p] = NoJob
         /\ pending' = pending \ {p} /\ book' = book
         /\ Coming' = Coming /\ \A q : StoreKept(q) /\ NewsKept(q)
<1>1. /\ job[l][p].at = "drop" /\ Start(l, p, NoJob) /\ pending' = pending \ {p}
      /\ UNCHANGED <<life, assigned, podFeed, book, todo, loop>>
  BY DEF DropPending, Done, apiVars
<1> QED
  BY <1>1, SilentJob

LEMMA AssignFailsEffect ==
  ASSUME RIInv, NEW l \in Loops, NEW p \in Pods, AssignFails(l, p), UNCHANGED linkVars
  PROVE  /\ JobKeeps(l, p) /\ job[l][p].at = "assign" /\ job'[l][p] = NoJob /\ faults' # faults
         /\ UNCHANGED <<pending, book>>
         /\ Coming' = Coming /\ \A q : StoreKept(q) /\ NewsKept(q)
<1>1. /\ job[l][p].at = "assign" /\ Start(l, p, NoJob) /\ faults' = faults + 1
      /\ UNCHANGED <<life, assigned, podFeed, book, pending, todo, loop>>
  BY DEF AssignFails, Done, stateVars
<1>2. faults' # faults
  BY <1>1 DEF RIInv, IInv, TypeOK
<1> QED
  BY <1>1, <1>2, SilentJob
-----------------------------------------------------------------------------

LEMMA RestartEffect ==
  ASSUME RIInv, Restart
  PROVE  /\ Coming' = <<>> /\ podFeed' = <<>>
         /\ \A l \in Loops : stream'[l] = "closed" /\ listed'[l] = <<>> /\ loop'[l] = IdleLoop
         /\ \A l \in Loops, q \in Pods : job'[l][q] = NoJob
         /\ pending' = {} /\ todo' = {} /\ \A q \in Pods : book'.placed[q] = NoNode
         /\ \A q, n : ~Recording(q, n)'
         /\ UNCHANGED <<life, assigned, told, status, losses>>
         /\ late' = late \cup Outstanding /\ blemish' = blemish \cap {"crossed"}
<1>1. \A l \in Loops : stream'[l] = "closed" /\ listed'[l] = <<>> /\ loop'[l] = IdleLoop
  BY DEF Restart
<1>2. /\ podFeed' = <<>> /\ pending' = {} /\ todo' = {} /\ UNCHANGED <<life, assigned, told, status, losses>>
      /\ late' = late \cup Outstanding /\ blemish' = blemish \cap {"crossed"}
      /\ \A l \in Loops, q \in Pods : job'[l][q] = NoJob
      /\ \A q \in Pods : book'.placed[q] = NoNode
  BY DEF Restart
<1>3. Coming' = <<>>
  BY <1>1 DEF Coming, Loops
<1>4. \A q, n : ~Recording(q, n)'
  BY <1>1, NotRecording DEF Loops
<1> QED
  BY <1>1, <1>2, <1>3, <1>4

LEMMA ListPodsEffect ==
  ASSUME RIInv, Blank, List("pods")
  PROVE  /\ stream["pods"] = "closed" /\ stream'["pods"] = "listed" /\ stream'["nodes"] = stream["nodes"]
         /\ listed'["pods"] \in PodSnapshots /\ Coming' \in PodSnapshots
         /\ listed'["nodes"] = listed["nodes"] /\ nodeFeed' = nodeFeed
         /\ Coming = <<>> /\ podFeed' = <<>> /\ StoreUntouched
         /\ UNCHANGED <<late, restarts, blemish>>
         /\ \A q : StoreKept(q) /\ MindKept(q)
<1>1. /\ stream["pods"] = "closed" /\ stream' = [stream EXCEPT !["pods"] = "listed"]
      /\ Deliver("pods", <<>>) /\ StoreUntouched /\ UNCHANGED <<late, restarts, blemish>>
  BY DEF List
<1>2. PICK s \in PodSnapshots : listed' = [listed EXCEPT !["pods"] = s]
  BY DEF List, Snapshots
<1>3. DOMAIN stream = Loops /\ DOMAIN listed = Loops
  BY DEF RIInv, Links
<1>4. /\ stream'["pods"] = "listed" /\ stream'["nodes"] = stream["nodes"]
      /\ listed'["pods"] = s /\ listed'["nodes"] = listed["nodes"]
  BY <1>1, <1>2, <1>3 DEF Loops
<1>5. podFeed' = <<>> /\ nodeFeed' = nodeFeed
  BY <1>1 DEF Deliver
<1>6. Coming' = s
  BY <1>4 DEF Coming
<1>7. Coming = <<>>
  BY <1>1 DEF Coming, Blank, Loops
<1>8. \A q : StoreKept(q) /\ MindKept(q)
  BY <1>1, MindUntouched DEF StoreUntouched, StoreKept
<1> QED
  BY <1>1, <1>2, <1>4, <1>5, <1>6, <1>7, <1>8

(* The other steps of the connection change nothing about a pod.           *)
LEMMA LinkEffect ==
  ASSUME RIInv, Blank, List("nodes") \/ \E l \in Loops : Subscribe(l)
  PROVE  /\ StoreUntouched /\ UNCHANGED <<late, restarts>> /\ Coming' = Coming
         /\ \A q : Unmoved(q)
         /\ blemish \subseteq blemish' /\ blemish' \subseteq blemish \cup {"gap"}
         /\ \/ /\ stream'["pods"] = stream["pods"] /\ listed'["pods"] = listed["pods"] /\ podFeed' = podFeed
            \/ /\ stream["pods"] = "listed" /\ stream'["pods"] = "open" /\ listed'["pods"] = <<>>
               /\ stream'["nodes"] = stream["nodes"] /\ listed'["nodes"] = listed["nodes"]
               /\ podFeed # <<>> => "gap" \in blemish'
               /\ nodeFeed' = nodeFeed
<1>0. DOMAIN stream = Loops /\ DOMAIN listed = Loops
  BY DEF RIInv, Links
<1>1. CASE List("nodes")
  <2>1. /\ stream' = [stream EXCEPT !["nodes"] = "listed"] /\ Deliver("nodes", <<>>)
        /\ StoreUntouched /\ UNCHANGED <<late, restarts, blemish>>
    BY <1>1 DEF List
  <2>2. PICK s : listed' = [listed EXCEPT !["nodes"] = s]
    BY <1>1 DEF List
  <2>3. stream'["pods"] = stream["pods"] /\ listed'["pods"] = listed["pods"] /\ podFeed' = podFeed
    BY <1>0, <2>1, <2>2 DEF Deliver, Loops
  <2>4. Coming' = Coming
    BY <2>3 DEF Coming
  <2>5. \A q : Unmoved(q)
    BY <2>1, <2>4, MindUntouched DEF StoreUntouched, StoreKept, NewsKept, SameNews, Unmoved
  <2> QED
    BY <2>1, <2>3, <2>4, <2>5
<1>2. CASE Subscribe("nodes")
  <2>1. /\ stream' = [stream EXCEPT !["nodes"] = "open"] /\ Deliver("nodes", listed["nodes"])
        /\ listed' = [listed EXCEPT !["nodes"] = <<>>]
        /\ StoreUntouched /\ UNCHANGED <<late, restarts>>
        /\ blemish' = IF Feed("nodes") = <<>> THEN blemish ELSE blemish \cup {"gap"}
    BY <1>2 DEF Subscribe
  <2>2. stream'["pods"] = stream["pods"] /\ listed'["pods"] = listed["pods"] /\ podFeed' = podFeed
    BY <1>0, <2>1 DEF Deliver, Loops
  <2>3. Coming' = Coming
    BY <2>2 DEF Coming
  <2>4. \A q : Unmoved(q)
    BY <2>1, <2>3, MindUntouched DEF StoreUntouched, StoreKept, NewsKept, SameNews, Unmoved
  <2>5. blemish \subseteq blemish' /\ blemish' \subseteq blemish \cup {"gap"}
    BY <2>1
  <2> QED
    BY <2>1, <2>2, <2>3, <2>4, <2>5
<1>3. CASE Subscribe("pods")
  <2>1. /\ stream["pods"] = "listed" /\ stream' = [stream EXCEPT !["pods"] = "open"]
        /\ Deliver("pods", listed["pods"]) /\ listed' = [listed EXCEPT !["pods"] = <<>>]
        /\ StoreUntouched /\ UNCHANGED <<late, restarts>>
        /\ blemish' = IF Feed("pods") = <<>> THEN blemish ELSE blemish \cup {"gap"}
    BY <1>3 DEF Subscribe
  <2>2. /\ stream'["pods"] = "open" /\ listed'["pods"] = <<>> /\ podFeed' = listed["pods"]
        /\ stream'["nodes"] = stream["nodes"] /\ listed'["nodes"] = listed["nodes"] /\ nodeFeed' = nodeFeed
    BY <1>0, <2>1 DEF Deliver, Loops
  <2>3. Coming' = Coming
    BY <2>1, <2>2 DEF Coming
  <2>4. \A q : Unmoved(q)
    BY <2>1, <2>3, MindUntouched DEF StoreUntouched, StoreKept, NewsKept, SameNews, Unmoved
  <2>5. blemish \subseteq blemish' /\ blemish' \subseteq blemish \cup {"gap"}
    BY <2>1
  <2>6. podFeed # <<>> => "gap" \in blemish'
    BY <2>1 DEF Feed
  <2> QED
    BY <2>1, <2>2, <2>3, <2>4, <2>5, <2>6
<1> QED
  BY <1>1, <1>2, <1>3 DEF Loops

LEMMA LateEffect ==
  ASSUME RIInv, LateAssign
  PROVE  \E p \in Pods, n \in MaybeNodes :
           /\ [pod |-> p, node |-> n] \in late /\ late' = late \ {[pod |-> p, node |-> n]}
           /\ life[p] = "live" /\ life' = life /\ assigned'[p] = n
           /\ AssignedEvent(p, n) \in PodEvents /\ Posted(AssignedEvent(p, n))
           /\ \A q : MindKept(q)
           /\ \A q \in Pods : q # p => Unmoved(q)
           /\ blemish' = blemish \cup {"outlived", "crossed"}
           /\ UNCHANGED <<status, nodeFeed, losses, faults, stateVars, taskVars, stream, listed, restarts>>
<1>1. PICK r \in late :
        /\ life[r.pod] = "live" /\ late' = late \ {r}
        /\ assigned' = [assigned EXCEPT ![r.pod] = r.node]
        /\ podFeed' = Append(podFeed,
             PodEvent(IF r.node = NoNode THEN "MODIFIED" ELSE "SCHEDULED", r.pod, r.node))
        /\ blemish' = blemish \cup {"outlived", "crossed"}
        /\ UNCHANGED <<life, status, nodeFeed, losses, faults, stateVars, taskVars>>
        /\ UNCHANGED <<stream, listed, restarts>>
  BY DEF LateAssign
<1>2. PICK p, n : p = r.pod /\ n = r.node
  OBVIOUS
<1>3. p \in Pods /\ n \in MaybeNodes /\ r = [pod |-> p, node |-> n]
  BY <1>2 DEF RIInv, Links, Requests
<1>4. PICK e : e = AssignedEvent(p, n)
  OBVIOUS
<1>5. e \in PodEvents /\ e.pod = p
  BY <1>3, <1>4, EventTypes DEF PodEvent, AssignedEvent
<1>6. podFeed' = Append(podFeed, e)
  BY <1>1, <1>2, <1>4 DEF AssignedEvent
<1>7. Posted(e) /\ \A q : q # p => NewsKept(q)
  BY <1>1, <1>5, <1>6, PostedEffect
<1>8. assigned'[p] = n /\ \A q \in Pods : q # p => StoreKept(q)
  BY <1>1, <1>2, <1>3 DEF StoreKept, RIInv, IInv, TypeOK
<1>9. \A q : MindKept(q)
  BY <1>1, MindUntouched
<1>10. life[p] = "live"
  BY <1>1, <1>2
<1>11. [pod |-> p, node |-> n] \in late /\ late' = late \ {[pod |-> p, node |-> n]}
  BY <1>1, <1>3
<1>12. UNCHANGED <<status, nodeFeed, losses, faults, stateVars, taskVars, stream, listed, restarts>>
  BY <1>1
<1>13. life' = life /\ blemish' = blemish \cup {"outlived", "crossed"}
  BY <1>1
<1>14. AssignedEvent(p, n) \in PodEvents /\ Posted(AssignedEvent(p, n))
  BY <1>4, <1>5, <1>7
<1>15. \A q \in Pods : q # p => Unmoved(q)
  BY <1>7, <1>8, <1>9 DEF Unmoved
<1> QED
  BY <1>3, <1>8, <1>9, <1>10, <1>11, <1>12, <1>13, <1>14, <1>15
-----------------------------------------------------------------------------

(* The steps, one by one.                                                  *)
Within == UNCHANGED <<linkVars, blemish>>
PodCreated == \E p \in Pods : CreatePod(p) /\ Within
PodDeleted == \E p \in Pods : DeletePod(p) /\ Within
NodeNews ==
  /\ \/ \E n \in Nodes : NodeRegisters(n) \/ NodeConnects(n) \/ NodeIsLost(n)
     \/ stream["nodes"] = "open" /\ TakeNodeEvent
  /\ Within
Swept == \E l \in Loops : Sweep(l) /\ Within
OrphanTaken == \E p \in Pods : NextOrphan(p) /\ Within
Taken(A) == stream["pods"] = "open" /\ A /\ Within
Worked == \E l \in Loops, p \in Pods : RJobStep(l, p)
Linked == List("nodes") \/ \E l \in Loops : Subscribe(l)

LEMMA NextCases ==
  ASSUME RNext
  PROVE  \/ PodCreated \/ PodDeleted \/ NodeNews
         \/ (Evict /\ Within) \/ Swept \/ OrphanTaken
         \/ Taken(TakeRemoval) \/ Taken(TakePlacement) \/ Taken(RecordPlacement) \/ Taken(TakeUnplaced)
         \/ Worked \/ List("pods") \/ Linked \/ Restart \/ LateAssign
<1>1. CASE REnvironment
  BY <1>1 DEF REnvironment, Environment, PodCreated, PodDeleted, NodeNews, Within
<1>2. CASE RNodesStep
  BY <1>2 DEF RNodesStep, NodesStep, NodeNews, Swept, OrphanTaken, Within, Loops
<1>3. CASE RPodsStep
  BY <1>3 DEF RPodsStep, PodsStep, Swept, Taken, Within, Loops
<1>4. CASE \E l \in Loops : Reconnect(l)
  BY <1>4 DEF Reconnect, Linked, Loops
<1> QED
  BY <1>1, <1>2, <1>3, <1>4 DEF RNext, Worked

(* What only the steps of a job do.                                        *)
LEMMA WorkCases ==
  ASSUME Worked
  PROVE  \E l \in Loops, p \in Pods :
           /\ \/ Orphan(l, p) \/ OrphanGone(l, p) \/ OrphanFails(l, p)
              \/ (Try(l, p) \/ Retry(l, p))
              \/ Assign(l, p) \/ NotFound(l, p) \/ DropPending(l, p) \/ AssignFails(l, p)
           /\ UNCHANGED linkVars /\ blemish \subseteq blemish'
           /\ faults' # faults => "fault" \in blemish'
           /\ RequestsOf(l, p) # {} /\ RequestsOf(Other(l), p) # {} => p \in blemish'
           /\ BookedTooLate(p) => p \in blemish'
<1>1. PICK l \in Loops, p \in Pods : RJobStep(l, p)
  BY DEF Worked
<1>2. UNCHANGED linkVars /\ blemish \subseteq blemish'
      /\ (faults' # faults => "fault" \in blemish')
      /\ (RequestsOf(l, p) # {} /\ RequestsOf(Other(l), p) # {} => p \in blemish')
      /\ (BookedTooLate(p) => p \in blemish')
  BY <1>1 DEF RJobStep
<1>3. \/ Orphan(l, p) \/ OrphanGone(l, p) \/ OrphanFails(l, p)
      \/ (Try(l, p) \/ Retry(l, p))
      \/ Assign(l, p) \/ NotFound(l, p) \/ DropPending(l, p) \/ AssignFails(l, p)
  BY <1>1 DEF RJobStep, JobStep
<1> QED
  BY <1>2, <1>3

LEMMA JobKept ==
  ASSUME RIInv, NEW l \in Loops, NEW p \in Pods,
         \/ Orphan(l, p) \/ OrphanGone(l, p) \/ OrphanFails(l, p)
         \/ (Try(l, p) \/ Retry(l, p))
         \/ Assign(l, p) \/ NotFound(l, p) \/ DropPending(l, p) \/ AssignFails(l, p),
         UNCHANGED linkVars
  PROVE  JobKeeps(l, p) /\ job[l][p] # NoJob
<1>1. JobKeeps(l, p)
  BY OrphanEffect, OrphanGoneEffect, OrphanFailsEffect, TryEffect, AssignEffect, NotFoundEffect,
     DropEffect, AssignFailsEffect
<1>2. job[l][p].at \in {"orphan", "try", "retry", "assign", "drop"}
  BY DEF Orphan, OrphanGone, OrphanFails, Try, Retry, Assign, NotFound, DropPending, AssignFails
<1>3. job[l][p] # NoJob
  BY <1>2 DEF NoJob
<1> QED
  BY <1>1, <1>3

-----------------------------------------------------------------------------
LEMMA BusyLoopsStep ==
  ASSUME RIInv, Blank, BusyLoops, RNext
  PROVE  BusyLoops'
<1>1. CASE PodCreated \/ PodDeleted \/ LateAssign
  <2>1. UNCHANGED taskVars
    BY <1>1 DEF PodCreated, PodDeleted, CreatePod, DeletePod, LateAssign
  <2> QED
    BY <2>1 DEF BusyLoops, NoJobs, taskVars
<1>2. CASE NodeNews
  <2>1. CASE TakeNodeEvent
    <3>1. NoJobs("nodes") /\ todo = {} /\ todo' = todo /\ job' = job
      BY <2>1 DEF TakeNodeEvent, Free
    <3>2. loop'["pods"] = loop["pods"]
      BY <1>2, NodeEffect DEF NodeNews, Within
    <3> QED
      BY <3>1, <3>2 DEF BusyLoops, NoJobs, Loops
  <2>2. CASE ~TakeNodeEvent
    <3>1. UNCHANGED taskVars
      BY <1>2, <2>2 DEF NodeNews, NodeRegisters, NodeConnects, NodeIsLost
    <3> QED
      BY <3>1 DEF BusyLoops, NoJobs, taskVars
  <2> QED
    BY <2>1, <2>2
<1>3. CASE Evict /\ Within
  BY <1>3, EvictEffect DEF Within, BusyLoops, NoJobs, Loops
<1>4. CASE Swept
  <2>1. PICK l \in Loops : Sweep(l) /\ UNCHANGED linkVars
    BY <1>4 DEF Swept, Within
  <2>2. /\ loop'[l] = IdleLoop /\ todo' = todo
        /\ \A m \in Loops : m # l => loop'[m] = loop[m] /\ \A q \in Pods : job'[m][q] = job[m][q]
    BY <2>1, SweepEffect
  <2> QED
    BY <2>2 DEF BusyLoops, NoJobs, Loops
<1>5. CASE OrphanTaken
  <2>1. PICK p \in Pods : NextOrphan(p) /\ UNCHANGED linkVars
    BY <1>5 DEF OrphanTaken, Within
  <2>2. /\ p \in todo /\ loop' = loop /\ job'["pods"][p] = job["pods"][p]
        /\ \A q \in Pods : q # p => Unmoved(q)
    BY <2>1, NextOrphanEffect
  <2>3. loop["nodes"] = IdleLoop
    BY <2>2 DEF BusyLoops
  <2>4. \A q \in Pods : job'["pods"][q] = job["pods"][q]
    BY <2>2 DEF Unmoved, MindKept, Loops
  <2> QED
    BY <2>2, <2>3, <2>4 DEF BusyLoops, NoJobs, Loops
<1>6. CASE Taken(TakeRemoval)
  <2>1. /\ NoJobs("pods") /\ loop'["nodes"] = loop["nodes"] /\ UNCHANGED <<todo, job>>
    BY <1>6, RemovalEffect DEF Taken, Within
  <2> QED
    BY <2>1 DEF BusyLoops, NoJobs, Loops
<1>7. CASE Taken(TakePlacement)
  <2>1. PICK e : e = Head(Coming)
    OBVIOUS
  <2>2. /\ loop["pods"] = IdleLoop /\ NoJobs("pods") /\ loop'["nodes"] = loop["nodes"] /\ todo' = todo
        /\ job'["nodes"][e.pod] = job["nodes"][e.pod]
        /\ loop' = loop \/ job' = job
        /\ \A q \in Pods : q # e.pod => Unmoved(q)
    BY <1>7, <2>1, PlacementEffect DEF Taken, Within
  <2>3. \A q \in Pods : job'["nodes"][q] = job["nodes"][q]
    BY <2>2 DEF Unmoved, MindKept, Loops
  <2> QED
    BY <2>2, <2>3 DEF BusyLoops, NoJobs, Loops
<1>8. CASE Taken(RecordPlacement)
  <2>1. loop'["pods"] = IdleLoop /\ loop'["nodes"] = loop["nodes"] /\ UNCHANGED <<todo, job>>
    BY <1>8, RecordEffect DEF Taken, Within
  <2> QED
    BY <2>1 DEF BusyLoops, NoJobs, Loops
<1>9. CASE Taken(TakeUnplaced)
  <2>1. PICK e : e = Head(Coming)
    OBVIOUS
  <2>2. /\ loop["pods"] = IdleLoop /\ NoJobs("pods") /\ loop' = loop /\ todo' = todo
        /\ job'["nodes"][e.pod] = job["nodes"][e.pod]
        /\ \A q \in Pods : q # e.pod => Unmoved(q)
    BY <1>9, <2>1, UnplacedEffect DEF Taken, Within
  <2>3. \A q \in Pods : job'["nodes"][q] = job["nodes"][q]
    BY <2>2 DEF Unmoved, MindKept, Loops
  <2> QED
    BY <2>2, <2>3 DEF BusyLoops, NoJobs, Loops
<1>10. CASE Worked
  <2>1. PICK l \in Loops, p \in Pods : JobKeeps(l, p) /\ job[l][p] # NoJob
    BY <1>10, WorkCases, JobKept
  <2>2. loop[l] = IdleLoop
    BY <2>1 DEF BusyLoops, NoJobs
  <2>3. \A m \in Loops, q \in Pods : m # l => job'[m][q] = job[m][q]
    BY <2>1 DEF JobKeeps, Unmoved, MindKept
  <2> QED
    BY <2>1, <2>2, <2>3 DEF BusyLoops, NoJobs, JobKeeps
<1>11. CASE List("pods") \/ Linked
  <2>1. UNCHANGED taskVars
    BY <1>11 DEF Linked, List, Subscribe, StoreUntouched
  <2> QED
    BY <2>1 DEF BusyLoops, NoJobs, taskVars
<1>12. CASE Restart
  BY <1>12, RestartEffect DEF BusyLoops, NoJobs, Loops
<1> QED
  BY <1>1, <1>2, <1>3, <1>4, <1>5, <1>6, <1>7, <1>8, <1>9, <1>10, <1>11, <1>12, NextCases
-----------------------------------------------------------------------------

LEMMA BlankStep ==
  ASSUME RIInv, Blank, BusyLoops, RNext
  PROVE  Blank'
<1> DEFINE Idle == /\ NoWork /\ todo = {} /\ loop["pods"] = IdleLoop
                   /\ \A p \in Pods : book.placed[p] = NoNode
           Lists == \A l \in Loops : stream[l] # "listed" => listed[l] = <<>>
<1>0. Blank <=> (stream["pods"] # "open" => Idle) /\ Lists
  BY DEF Blank
<1>a. Blank' <=> (stream'["pods"] # "open" => Idle') /\ Lists'
  BY DEF Blank
<1> HIDE DEF Idle, Lists
<1>b. Idle => /\ NoWork /\ todo = {} /\ loop["pods"] = IdleLoop
              /\ \A p \in Pods : book.placed[p] = NoNode
  BY DEF Idle
<1>c. /\ NoWork' /\ todo' = {} /\ loop'["pods"] = IdleLoop
      /\ \A p \in Pods : book'.placed[p] = NoNode
      => Idle'
  BY DEF Idle
<1>d. UNCHANGED <<pending, todo, book, job>> /\ loop'["pods"] = loop["pods"] /\ Idle => Idle'
  BY DEF Idle, NoWork
<1>e. UNCHANGED <<stream, listed>> => (Lists => Lists') /\ stream'["pods"] = stream["pods"]
  BY DEF Lists
<1>f. UNCHANGED <<stream, listed>> /\ stream["pods"] = "open" => Blank'
  BY <1>0, <1>a, <1>e
<1>1. CASE PodCreated \/ PodDeleted \/ LateAssign
  <2>1. UNCHANGED <<taskVars, stateVars, stream, listed>>
    BY <1>1 DEF PodCreated, PodDeleted, CreatePod, DeletePod, LateAssign, Within, linkVars
  <2> QED
    BY <1>0, <1>a, <1>d, <1>e, <2>1 DEF taskVars, stateVars
<1>2. CASE NodeNews
  <2>1. UNCHANGED <<pending, todo, book, job, stream, listed>> /\ loop'["pods"] = loop["pods"]
    BY <1>2, NodeEffect DEF NodeNews, Within, linkVars
  <2> QED
    BY <1>0, <1>a, <1>d, <1>e, <2>1
<1>3. CASE Evict /\ Within
  <2>1. /\ UNCHANGED <<pending, job, stream, listed>> /\ loop'["pods"] = loop["pods"]
        /\ loop["nodes"].at = "evict" /\ todo' = PlacedOn(book, loop["nodes"].node)
        /\ \A q \in Pods : book'.placed[q] = IF q \in todo' THEN NoNode ELSE book.placed[q]
    BY <1>3, EvictEffect DEF Within, linkVars
  <2>2. ASSUME Idle PROVE Idle'
    <3>1. loop["nodes"] \in LoopStates
      BY DEF RIInv, IInv, TypeOK, Loops
    <3>2. loop["nodes"].node \in Nodes
      BY <2>1, <3>1 DEF LoopStates, IdleLoop
    <3>3. todo' = {}
      BY <1>b, <2>1, <2>2, <3>2, NoNodeIsNoNode DEF PlacedOn
    <3>4. NoWork'
      BY <1>b, <2>1, <2>2 DEF NoWork
    <3> QED
      BY <1>b, <1>c, <2>1, <2>2, <3>3, <3>4
  <2> QED
    BY <1>0, <1>a, <1>e, <2>1, <2>2
<1>4. CASE Swept
  <2>1. PICK l \in Loops : Sweep(l) /\ UNCHANGED linkVars
    BY <1>4 DEF Swept, Within
  <2>2. /\ loop'[l] = IdleLoop /\ \A m \in Loops : m # l => loop'[m] = loop[m]
        /\ UNCHANGED <<book, pending, todo, stream, listed>>
        /\ \A q \in Pods : job'[l][q] = IF q \in pending THEN [at |-> "retry"] ELSE NoJob
        /\ \A m \in Loops, q \in Pods : m # l => job'[m][q] = job[m][q]
    BY <2>1, SweepEffect DEF linkVars
  <2>3. ASSUME Idle PROVE Idle'
    <3>1. \A m \in Loops, q \in Pods : job'[m][q] = NoJob
      BY <1>b, <2>2, <2>3 DEF NoWork
    <3>2. NoWork'
      BY <1>b, <2>2, <2>3, <3>1 DEF NoWork
    <3> QED
      BY <1>b, <1>c, <2>2, <2>3, <3>2 DEF Loops
  <2> QED
    BY <1>0, <1>a, <1>e, <2>2, <2>3
<1>5. CASE OrphanTaken
  <2>1. PICK p \in Pods : NextOrphan(p) /\ UNCHANGED linkVars
    BY <1>5 DEF OrphanTaken, Within
  <2>2. p \in todo /\ UNCHANGED <<stream, listed>>
    BY <2>1, NextOrphanEffect DEF linkVars
  <2>3. stream["pods"] = "open"
    BY <2>2, OpenAtWork
  <2> QED
    BY <1>f, <2>2, <2>3
<1>6. CASE Taken(TakeRemoval) \/ Taken(TakePlacement) \/ Taken(RecordPlacement) \/ Taken(TakeUnplaced)
  <2>1. stream["pods"] = "open" /\ UNCHANGED <<stream, listed>>
    BY <1>6 DEF Taken, Within, linkVars
  <2> QED
    BY <1>f, <2>1
<1>7. CASE Worked
  <2>1. PICK l \in Loops, p \in Pods : job[l][p] # NoJob /\ UNCHANGED <<stream, listed>>
    BY <1>7, WorkCases, JobKept DEF linkVars
  <2>2. stream["pods"] = "open"
    BY <2>1, OpenAtWork
  <2> QED
    BY <1>f, <2>1, <2>2
<1>8. CASE List("pods")
  <2>1. /\ stream["pods"] = "closed" /\ stream'["pods"] = "listed" /\ stream'["nodes"] = stream["nodes"]
        /\ listed'["nodes"] = listed["nodes"] /\ UNCHANGED <<pending, todo, book, job, loop>>
    BY <1>8, ListPodsEffect DEF StoreUntouched, stateVars, taskVars
  <2>2. Idle => Idle'
    BY <1>d, <2>1
  <2>3. Lists => Lists'
    BY <2>1 DEF Lists, Loops
  <2> QED
    BY <1>0, <1>a, <2>1, <2>2, <2>3
<1>9. CASE Linked
  <2>1. UNCHANGED <<pending, todo, book, job, loop>>
    BY <1>9, LinkEffect DEF Linked, StoreUntouched, stateVars, taskVars
  <2>2. Idle => Idle'
    BY <1>d, <2>1
  <2>3. \E l \in Loops : List(l) \/ Subscribe(l)
    BY <1>9 DEF Linked, Loops
  <2>4. DOMAIN stream = Loops /\ DOMAIN listed = Loops
    BY DEF RIInv, Links
  <2>5. Lists => Lists'
    BY <2>3, <2>4 DEF List, Subscribe, Lists, Loops
  <2>6. stream'["pods"] = stream["pods"] \/ stream'["pods"] = "open"
    BY <1>9, LinkEffect DEF Linked
  <2> QED
    BY <1>0, <1>a, <2>2, <2>5, <2>6
<1>10. CASE Restart
  <2>1. Lists'
    BY <1>10, RestartEffect DEF Lists
  <2>2. Idle'
    BY <1>10, <1>c, RestartEffect DEF NoWork, Loops
  <2> QED
    BY <1>a, <2>1, <2>2
<1> QED
  BY <1>1, <1>2, <1>3, <1>4, <1>5, <1>6, <1>7, <1>8, <1>9, <1>10, NextCases
-----------------------------------------------------------------------------

(* Nothing is known of a pod before it is created.                         *)
Quiet(p) ==
  /\ assigned[p] = NoNode /\ book.placed[p] = NoNode
  /\ p \notin pending /\ p \notin todo /\ (\A l \in Loops : job[l][p] = NoJob)
  /\ ~About(Coming, p) /\ \A n \in Nodes : ~Recording(p, n)
Unborn == \A p \in Pods : life[p] = "new" => Quiet(p)

LEMMA UnmovedQuiet ==
  ASSUME NEW q, Unmoved(q), Quiet(q)
  PROVE  Quiet(q)'
BY DEF Unmoved, StoreKept, MindKept, NewsKept, SameNews, Quiet

LEMMA HeadIsAbout ==
  ASSUME RIInv, Coming # <<>>
  PROVE  Head(Coming).pod \in Pods /\ About(Coming, Head(Coming).pod)
<1>1. Coming \in Seq(PodEvents)
  BY ComingType
<1>2. Head(Coming) \in PodEvents
  BY <1>1
<1> QED
  BY <1>1, <1>2, TailAbout DEF PodEvents

LEMMA UnbornStep ==
  ASSUME RIInv, Blank, Unborn, RNext
  PROVE  Unborn'
<1> SUFFICES ASSUME NEW q \in Pods, life'[q] = "new" PROVE Quiet(q)'
  BY DEF Unborn
<1>a. life[q] = "new" /\ Unmoved(q) => Quiet(q)'
  BY UnmovedQuiet DEF Unborn
<1>b. Unmoved(q) => Quiet(q)'
  BY <1>a DEF Unmoved, StoreKept
<1>c. life' = life => life[q] = "new" /\ Quiet(q)
  BY DEF Unborn
<1>1. CASE PodCreated
  BY <1>1, <1>b, CreateEffect DEF PodCreated, Within
<1>2. CASE PodDeleted
  BY <1>2, <1>b, DeleteEffect DEF PodDeleted, Within
<1>3. CASE NodeNews
  BY <1>3, <1>b, NodeEffect DEF NodeNews, Within
<1>4. CASE Evict /\ Within
  <2>1. /\ life' = life /\ UNCHANGED <<assigned, pending, job>> /\ Coming' = Coming /\ loop'["pods"] = loop["pods"]
        /\ todo' = PlacedOn(book, loop["nodes"].node) /\ loop["nodes"].at = "evict"
        /\ book'.placed[q] = IF q \in todo' THEN NoNode ELSE book.placed[q]
    BY <1>4, EvictEffect DEF Within
  <2>2. loop["nodes"] \in LoopStates
    BY DEF RIInv, IInv, TypeOK, Loops
  <2>3. loop["nodes"].node \in Nodes
    BY <2>1, <2>2 DEF LoopStates, IdleLoop
  <2>4. Quiet(q)
    BY <1>c, <2>1
  <2>5. q \notin todo'
    BY <2>1, <2>3, <2>4, NoNodeIsNoNode DEF PlacedOn, Quiet
  <2> QED
    BY <2>1, <2>4, <2>5 DEF Quiet, Recording
<1>5. CASE Swept
  <2>1. PICK l \in Loops : Sweep(l) /\ UNCHANGED linkVars
    BY <1>5 DEF Swept, Within
  <2>2. /\ UNCHANGED <<life, assigned, book, pending, todo>>
        /\ job'[l][q] = IF q \in pending THEN [at |-> "retry"] ELSE NoJob
        /\ \A m \in Loops : m # l => job'[m][q] = job[m][q]
        /\ Coming' = Coming
        /\ \A n : Recording(q, n)' <=> Recording(q, n)
    BY <2>1, SweepEffect
  <2> QED
    BY <1>c, <2>2 DEF Quiet
<1>6. CASE OrphanTaken
  <2>1. PICK p \in Pods : NextOrphan(p) /\ UNCHANGED linkVars
    BY <1>6 DEF OrphanTaken, Within
  <2>2. p \in todo /\ life' = life /\ (q # p => Unmoved(q))
    BY <2>1, NextOrphanEffect
  <2> QED
    BY <1>b, <1>c, <2>2 DEF Quiet
<1>7. CASE Taken(TakeRemoval) \/ Taken(TakePlacement) \/ Taken(TakeUnplaced)
  <2>1. Coming # <<>> /\ life' = life /\ (q # Head(Coming).pod => Unmoved(q))
    BY <1>7, RemovalEffect, PlacementEffect, UnplacedEffect DEF Taken, Within
  <2> QED
    BY <1>b, <1>c, <2>1, HeadIsAbout DEF Quiet
<1>8. CASE Taken(RecordPlacement)
  <2>1. PICK p \in Pods, n \in Nodes :
           Recording(p, n) /\ life' = life /\ \A r \in Pods : r # p => Unmoved(r)
    BY <1>8, RecordEffect DEF Taken, Within
  <2> QED
    BY <1>b, <1>c, <2>1 DEF Quiet
<1>9. CASE Worked
  <2>1. PICK l \in Loops, p \in Pods : JobKeeps(l, p) /\ job[l][p] # NoJob
    BY <1>9, WorkCases, JobKept
  <2> QED
    BY <1>b, <1>c, <2>1 DEF Quiet, JobKeeps
<1>10. CASE List("pods")
  <2>1. /\ life' = life /\ StoreKept(q) /\ MindKept(q) /\ Coming' \in PodSnapshots
    BY <1>10, ListPodsEffect DEF StoreUntouched
  <2>2. life[q] = "new" /\ Quiet(q)
    BY <1>c, <2>1
  <2>3. ~About(Coming', q)
    <3>1. PICK s \in PodSnapshots : Coming' = s
      BY <2>1
    <3>2. q \notin Live
      BY <2>2 DEF Live
    <3> QED
      BY <3>1, <3>2, SnapshotTells DEF RIInv, IInv
  <2> QED
    BY <2>1, <2>2, <2>3 DEF StoreKept, MindKept, Quiet
<1>11. CASE Linked
  BY <1>11, <1>b, LinkEffect DEF Linked
<1>12. CASE Restart
  <2>1. ~About(Coming', q)
    <3>1. DOMAIN Coming' = {}
      BY <1>12, RestartEffect
    <3> QED
      BY <3>1, NoEvents
  <2>2. UNCHANGED <<life, assigned>> /\ book'.placed[q] = NoNode /\ pending' = {} /\ todo' = {}
        /\ (\A l \in Loops : job'[l][q] = NoJob) /\ \A n : ~Recording(q, n)'
    BY <1>12, RestartEffect
  <2> QED
    BY <1>c, <2>1, <2>2 DEF Quiet
<1>13. CASE LateAssign
  BY <1>13, <1>b, <1>c, LateEffect
<1> QED
  BY <1>1, <1>2, <1>3, <1>4, <1>5, <1>6, <1>7, <1>8, <1>9, <1>10, <1>11, <1>12, <1>13, NextCases

(* A removal is the last word about a pod.                                 *)
Buried ==
  /\ \A p \in Pods : Deletes(Coming, p) => life[p] = "gone"
  /\ DeletedLast(Coming)

LEMMA PostedBuried ==
  ASSUME RIInv, Buried, NEW e \in PodEvents, Posted(e),
         \A q \in Pods : q # e.pod => life'[q] = life[q],
         life[e.pod] # "gone", e.kind = "DELETED" => life'[e.pod] = "gone"
  PROVE  Buried'
<1>0. e.pod \in Pods
  BY DEF PodEvents
<1>1. ~Deletes(Coming, e.pod)
  BY <1>0 DEF Buried
<1>2. CASE stream["pods"] = "open"
  <2>1. Coming' = Append(Coming, e) /\ Coming \in Seq(PodEvents)
    BY <1>2, ComingType DEF Posted
  <2>2. DeletedLast(Append(Coming, e))
    BY <1>1, <2>1, AppendOrder DEF Buried
  <2>3. \A q : Deletes(Append(Coming, e), q) <=> Deletes(Coming, q) \/ (e.kind = "DELETED" /\ e.pod = q)
    BY <2>1, AppendAbout
  <2>4. ASSUME NEW q \in Pods, Deletes(Coming', q) PROVE life'[q] = "gone"
    BY <1>1, <2>1, <2>3, <2>4 DEF Buried
  <2> QED
    BY <2>1, <2>2, <2>4 DEF Buried
<1>3. CASE stream["pods"] # "open"
  <2>1. Coming' = Coming
    BY <1>3 DEF Posted
  <2> QED
    BY <1>1, <2>1 DEF Buried
<1> QED
  BY <1>2, <1>3

LEMMA BuriedStep ==
  ASSUME RIInv, Blank, Buried, RNext
  PROVE  Buried'
<1>a. life' = life /\ Coming' = Coming => Buried'
  BY DEF Buried
<1>1. CASE PodCreated
  <2>1. PICK p \in Pods : CreatePod(p) /\ UNCHANGED linkVars
    BY <1>1 DEF PodCreated, Within
  <2>2. PICK e : e = PodEvent("ADDED", p, NoNode)
    OBVIOUS
  <2>3. e \in PodEvents /\ e.pod = p /\ e.kind = "ADDED"
    BY <2>2, EventTypes DEF MaybeNodes, PodEvent
  <2>4. Posted(e) /\ life[p] = "new" /\ \A q \in Pods : q # p => life'[q] = life[q]
    BY <2>1, <2>2, CreateEffect DEF Unmoved, StoreKept
  <2> QED
    BY <2>3, <2>4, PostedBuried
<1>2. CASE PodDeleted
  <2>1. PICK p \in Pods : DeletePod(p) /\ UNCHANGED linkVars
    BY <1>2 DEF PodDeleted, Within
  <2>2. PICK e : e = PodEvent("DELETED", p, assigned[p])
    OBVIOUS
  <2>3. e \in PodEvents /\ e.pod = p /\ Posted(e)
    BY <2>1, <2>2, DeleteEffect DEF PodEvent
  <2>4. life[p] = "live" /\ life'[p] = "gone" /\ \A q \in Pods : q # p => life'[q] = life[q]
    BY <2>1, DeleteEffect DEF Unmoved, StoreKept
  <2> QED
    BY <2>3, <2>4, PostedBuried
<1>3. CASE NodeNews \/ (Evict /\ Within) \/ Swept \/ OrphanTaken \/ Taken(RecordPlacement)
  <2>1. life' = life /\ Coming' = Coming
    BY <1>3, NodeEffect, EvictEffect, SweepEffect, NextOrphanEffect, RecordEffect
    DEF NodeNews, Swept, OrphanTaken, Taken, Within
  <2> QED
    BY <1>a, <2>1
<1>4. CASE Taken(TakeRemoval) \/ Taken(TakePlacement) \/ Taken(TakeUnplaced)
  <2>1. life' = life /\ Coming' = Tail(Coming) /\ Coming \in Seq(PodEvents) /\ Coming # <<>>
    BY <1>4, RemovalEffect, PlacementEffect, UnplacedEffect DEF Taken, Within
  <2>2. DeletedLast(Tail(Coming)) /\ \A q : Deletes(Tail(Coming), q) => Deletes(Coming, q)
    BY <2>1, TailOrder, TailAbout DEF Buried
  <2> QED
    BY <2>1, <2>2 DEF Buried
<1>5. CASE Worked
  <2>1. PICK l \in Loops, p \in Pods :
           /\ \/ Orphan(l, p) \/ OrphanGone(l, p) \/ OrphanFails(l, p)
              \/ (Try(l, p) \/ Retry(l, p))
              \/ Assign(l, p) \/ NotFound(l, p) \/ DropPending(l, p) \/ AssignFails(l, p)
           /\ UNCHANGED linkVars
    BY <1>5, WorkCases
  <2>2. CASE Orphan(l, p)
    <3>1. PICK e : e = PodEvent("MODIFIED", p, NoNode)
      OBVIOUS
    <3>2. e \in PodEvents /\ e.pod = p /\ e.kind = "MODIFIED"
      BY <3>1, EventTypes DEF MaybeNodes, PodEvent
    <3>3. Posted(e) /\ life[p] = "live" /\ life' = life
      BY <2>1, <2>2, <3>1, OrphanEffect DEF JobKeeps
    <3> QED
      BY <3>2, <3>3, PostedBuried
  <2>3. CASE Assign(l, p)
    <3>1. PICK n \in MaybeNodes : /\ AssignedEvent(p, n) \in PodEvents /\ Posted(AssignedEvent(p, n))
                                  /\ life[p] = "live" /\ life' = life
      BY <2>1, <2>3, AssignEffect DEF JobKeeps
    <3>2. AssignedEvent(p, n).pod = p /\ AssignedEvent(p, n).kind # "DELETED"
      BY DEF AssignedEvent, PodEvent
    <3> QED
      BY <3>1, <3>2, PostedBuried
  <2>4. CASE ~Orphan(l, p) /\ ~Assign(l, p)
    <3>1. life' = life /\ Coming' = Coming
      BY <2>1, <2>4, OrphanGoneEffect, OrphanFailsEffect, TryEffect, NotFoundEffect,
         DropEffect, AssignFailsEffect DEF JobKeeps
    <3> QED
      BY <1>a, <3>1
  <2> QED
    BY <2>2, <2>3, <2>4
<1>6. CASE List("pods")
  <2>1. PICK s \in PodSnapshots : Coming' = s
    BY <1>6, ListPodsEffect
  <2>2. DeletedLast(s) /\ \A q : ~Deletes(s, q)
    BY SnapshotTells DEF RIInv, IInv
  <2> QED
    BY <2>1, <2>2 DEF Buried
<1>7. CASE Linked
  BY <1>7, <1>a, LinkEffect DEF Linked, StoreUntouched
<1>8. CASE Restart
  <2>1. DOMAIN Coming' = {}
    BY <1>8, RestartEffect
  <2>2. DeletedLast(Coming') /\ \A q : ~Deletes(Coming', q)
    BY <2>1, NoEvents
  <2> QED
    BY <2>2 DEF Buried
<1>9. CASE LateAssign
  <2>1. PICK p \in Pods, n \in MaybeNodes : /\ AssignedEvent(p, n) \in PodEvents /\ Posted(AssignedEvent(p, n))
                                            /\ life[p] = "live" /\ life' = life
    BY <1>9, LateEffect
  <2>2. AssignedEvent(p, n).pod = p /\ AssignedEvent(p, n).kind # "DELETED"
    BY DEF AssignedEvent, PodEvent
  <2> QED
    BY <2>1, <2>2, PostedBuried
<1> QED
  BY <1>1, <1>2, <1>3, <1>4, <1>5, <1>6, <1>7, <1>8, <1>9, NextCases
-----------------------------------------------------------------------------

LEMMA PostedOnce ==
  ASSUME RIInv, AddedOnce(Coming), NEW e \in PodEvents, Posted(e),
         e.kind = "ADDED" => ~About(Coming, e.pod)
  PROVE  AddedOnce(Coming')
<1>1. CASE stream["pods"] = "open"
  <2>1. Coming' = Append(Coming, e) /\ Coming \in Seq(PodEvents)
    BY <1>1, ComingType DEF Posted
  <2>2. AddedOnce(Append(Coming, e))
    BY <2>1, AppendOrder
  <2> QED
    BY <2>1, <2>2
<1>2. CASE stream["pods"] # "open"
  BY <1>2 DEF Posted
<1> QED
  BY <1>1, <1>2

LEMMA AddedOnceStep ==
  ASSUME RIInv, Blank, Unborn, AddedOnce(Coming), RNext
  PROVE  AddedOnce(Coming')
<1>a. Coming' = Coming => AddedOnce(Coming')
  OBVIOUS
<1>1. CASE PodCreated
  <2>1. PICK p \in Pods : CreatePod(p) /\ UNCHANGED linkVars
    BY <1>1 DEF PodCreated, Within
  <2>2. PICK e : e = PodEvent("ADDED", p, NoNode)
    OBVIOUS
  <2>3. e \in PodEvents /\ e.pod = p
    BY <2>2, EventTypes DEF MaybeNodes, PodEvent
  <2>4. Posted(e) /\ life[p] = "new"
    BY <2>1, <2>2, CreateEffect
  <2>5. ~About(Coming, p)
    BY <2>4 DEF Unborn, Quiet
  <2> QED
    BY <2>3, <2>4, <2>5, PostedOnce
<1>2. CASE PodDeleted
  <2>1. PICK p \in Pods : DeletePod(p) /\ UNCHANGED linkVars
    BY <1>2 DEF PodDeleted, Within
  <2>2. PICK e : e = PodEvent("DELETED", p, assigned[p])
    OBVIOUS
  <2>3. e \in PodEvents /\ e.kind # "ADDED" /\ Posted(e)
    BY <2>1, <2>2, DeleteEffect DEF PodEvent
  <2> QED
    BY <2>3, PostedOnce
<1>3. CASE NodeNews \/ (Evict /\ Within) \/ Swept \/ OrphanTaken \/ Taken(RecordPlacement)
  <2>1. Coming' = Coming
    BY <1>3, NodeEffect, EvictEffect, SweepEffect, NextOrphanEffect, RecordEffect
    DEF NodeNews, Swept, OrphanTaken, Taken, Within
  <2> QED
    BY <1>a, <2>1
<1>4. CASE Taken(TakeRemoval) \/ Taken(TakePlacement) \/ Taken(TakeUnplaced)
  <2>1. Coming' = Tail(Coming) /\ Coming \in Seq(PodEvents) /\ Coming # <<>>
    BY <1>4, RemovalEffect, PlacementEffect, UnplacedEffect DEF Taken, Within
  <2>2. AddedOnce(Tail(Coming))
    BY <2>1, TailOrder
  <2> QED
    BY <2>1, <2>2
<1>5. CASE Worked
  <2>1. PICK l \in Loops, p \in Pods :
           /\ \/ Orphan(l, p) \/ OrphanGone(l, p) \/ OrphanFails(l, p)
              \/ (Try(l, p) \/ Retry(l, p))
              \/ Assign(l, p) \/ NotFound(l, p) \/ DropPending(l, p) \/ AssignFails(l, p)
           /\ UNCHANGED linkVars
    BY <1>5, WorkCases
  <2>2. CASE Orphan(l, p)
    <3>1. PICK e : e = PodEvent("MODIFIED", p, NoNode)
      OBVIOUS
    <3>2. e \in PodEvents /\ e.kind # "ADDED"
      BY <3>1, EventTypes DEF MaybeNodes, PodEvent
    <3>3. Posted(e)
      BY <2>1, <2>2, <3>1, OrphanEffect
    <3> QED
      BY <3>2, <3>3, PostedOnce
  <2>3. CASE Assign(l, p)
    <3>1. PICK n \in MaybeNodes : AssignedEvent(p, n) \in PodEvents /\ Posted(AssignedEvent(p, n))
      BY <2>1, <2>3, AssignEffect
    <3>2. AssignedEvent(p, n).kind # "ADDED"
      BY DEF AssignedEvent, PodEvent
    <3> QED
      BY <3>1, <3>2, PostedOnce
  <2>4. CASE ~Orphan(l, p) /\ ~Assign(l, p)
    <3>1. Coming' = Coming
      BY <2>1, <2>4, OrphanGoneEffect, OrphanFailsEffect, TryEffect, NotFoundEffect,
         DropEffect, AssignFailsEffect
    <3> QED
      BY <1>a, <3>1
  <2> QED
    BY <2>2, <2>3, <2>4
<1>6. CASE List("pods")
  <2>1. PICK s \in PodSnapshots : Coming' = s
    BY <1>6, ListPodsEffect
  <2>2. AddedOnce(s)
    BY SnapshotTells DEF RIInv, IInv
  <2> QED
    BY <2>1, <2>2
<1>7. CASE Linked
  BY <1>7, <1>a, LinkEffect DEF Linked
<1>8. CASE Restart
  <2>1. DOMAIN Coming' = {}
    BY <1>8, RestartEffect
  <2> QED
    BY <2>1, NoEvents
<1>9. CASE LateAssign
  <2>1. PICK p \in Pods, n \in MaybeNodes : AssignedEvent(p, n) \in PodEvents /\ Posted(AssignedEvent(p, n))
    BY <1>9, LateEffect
  <2>2. AssignedEvent(p, n).kind # "ADDED"
    BY DEF AssignedEvent, PodEvent
  <2> QED
    BY <2>1, <2>2, PostedOnce
<1> QED
  BY <1>1, <1>2, <1>3, <1>4, <1>5, <1>6, <1>7, <1>8, <1>9, NextCases

(* What holds whatever goes wrong.                                         *)
Ground == Blank /\ BusyLoops /\ Unborn /\ Buried /\ AddedOnce(Coming)

LEMMA GroundStep ==
  ASSUME RIInv, Ground, RNext
  PROVE  Ground'
BY BlankStep, BusyLoopsStep, UnbornStep, BuriedStep, AddedOnceStep DEF Ground

-----------------------------------------------------------------------------
(* The scheduler's news are complete: it has missed nothing between a      *)
(* snapshot and its subscription.                                          *)
Synced ==
  /\ "gap" \notin blemish
  /\ stream["pods"] = "open" \/ (stream["pods"] = "listed" /\ podFeed = <<>>)

LEMMA PostedSynced ==
  ASSUME NEW e, Posted(e), blemish \subseteq blemish', Synced'
  PROVE  Synced /\ stream["pods"] = "open" /\ Coming' = Append(Coming, e)
BY DEF Posted, Synced

LEMMA SyncedBefore ==
  ASSUME RIInv, Blank, RNext, Synced', ~List("pods")
  PROVE  Synced /\ ~Restart /\ blemish \subseteq blemish'
<1>1. CASE PodCreated \/ PodDeleted
  <2>1. blemish' = blemish
    BY <1>1 DEF PodCreated, PodDeleted, Within
  <2>2. \E e : Posted(e)
    BY <1>1, CreateEffect, DeleteEffect DEF PodCreated, PodDeleted, Within
  <2>3. ~Restart
    BY <1>1 DEF PodCreated, PodDeleted, Within, Restart, linkVars, RIInv, Links
  <2> QED
    BY <2>1, <2>2, <2>3, PostedSynced
<1>2. CASE NodeNews \/ (Evict /\ Within) \/ Swept \/ OrphanTaken \/ Taken(RecordPlacement)
           \/ Taken(TakeRemoval) \/ Taken(TakePlacement) \/ Taken(TakeUnplaced)
  <2>1. UNCHANGED <<blemish, stream, restarts>>
    BY <1>2 DEF NodeNews, Swept, OrphanTaken, Taken, Within, linkVars
  <2>2. stream["pods"] = "open" \/ podFeed' = podFeed
    BY <1>2 DEF NodeNews, Swept, OrphanTaken, Taken, Within, NodeRegisters, NodeConnects, NodeIsLost,
                TakeNodeEvent, Evict, Sweep, NextOrphan, apiVars
  <2>3. ~Restart
    BY <2>1 DEF Restart, RIInv, Links
  <2> QED
    BY <2>1, <2>2, <2>3 DEF Synced
<1>3. CASE Worked
  <2>1. PICK l \in Loops, p \in Pods :
           job[l][p] # NoJob /\ UNCHANGED <<stream, restarts>> /\ blemish \subseteq blemish'
    BY <1>3, WorkCases, JobKept DEF linkVars
  <2>2. stream["pods"] = "open"
    BY <2>1, OpenAtWork
  <2>3. ~Restart
    BY <2>1 DEF Restart, RIInv, Links
  <2> QED
    BY <2>1, <2>2, <2>3 DEF Synced
<1>4. CASE Linked
  <2>1. restarts' = restarts /\ blemish \subseteq blemish'
        /\ \/ stream'["pods"] = stream["pods"] /\ podFeed' = podFeed
           \/ stream["pods"] = "listed" /\ (podFeed # <<>> => "gap" \in blemish')
    BY <1>4, LinkEffect DEF Linked
  <2>2. ~Restart
    BY <2>1 DEF Restart, RIInv, Links
  <2> QED
    BY <2>1, <2>2 DEF Synced
<1>5. CASE Restart
  BY <1>5, RestartEffect DEF Synced, Loops
<1>6. CASE LateAssign
  <2>1. blemish \subseteq blemish' /\ (\E e : Posted(e)) /\ restarts' = restarts
    BY <1>6, LateEffect
  <2>2. ~Restart
    BY <2>1 DEF Restart, RIInv, Links
  <2> QED
    BY <2>1, <2>2, PostedSynced
<1> QED
  BY <1>1, <1>2, <1>3, <1>4, <1>5, <1>6, NextCases
-----------------------------------------------------------------------------

(* The last event that is coming about a pod tells what is stored of it;   *)
(* a placement about to be recorded does too, or more news are coming.     *)
Follows(p) ==
  /\ Ends(Coming, p, assigned[p], life[p] = "gone")
  /\ \A n \in Nodes : Recording(p, n) => About(Coming, p) \/ (life[p] = "live" /\ n = assigned[p])
Following == Synced => \A p \in Pods : life[p] # "new" => Follows(p)

LEMMA UnmovedFollows ==
  ASSUME NEW q, Unmoved(q), Follows(q)
  PROVE  Follows(q)'
<1>1. Ends(Coming', q, assigned[q], life[q] = "gone")
  BY DEF Unmoved, NewsKept, SameNews, Follows
<1>2. assigned'[q] = assigned[q] /\ life'[q] = life[q]
  BY DEF Unmoved, StoreKept
<1>3. Ends(Coming', q, assigned'[q], life'[q] = "gone")
  BY <1>1, <1>2
<1>4. (\A n \in Nodes : Recording(q, n)' <=> Recording(q, n)) /\ (About(Coming', q) <=> About(Coming, q))
  BY DEF Unmoved, MindKept, NewsKept, SameNews
<1> QED
  BY <1>2, <1>3, <1>4 DEF Follows

(* A new event says what is stored from now on.                            *)
LEMMA PostedFollows ==
  ASSUME RIInv, NEW e \in PodEvents, Coming' = Append(Coming, e), NEW q, e.pod = q,
         Says(e, assigned'[q], life'[q] = "gone")
  PROVE  Follows(q)'
<1>1. Coming \in Seq(PodEvents)
  BY ComingType
<1>2. Ends(Append(Coming, e), q, assigned'[q], life'[q] = "gone")
  BY <1>1, AppendEnds
<1>3. About(Append(Coming, e), q)
  BY <1>1, AppendAbout
<1>4. Ends(Coming', q, assigned'[q], life'[q] = "gone") /\ About(Coming', q)
  BY <1>2, <1>3
<1> QED
  BY <1>4 DEF Follows

(* An event taken is the last about its pod, or says what is stored.       *)
LEMMA TakenFollows ==
  ASSUME RIInv, Coming # <<>>, NEW q, Follows(q), Head(Coming).pod = q, life' = life, assigned' = assigned,
         Coming' = Tail(Coming)
  PROVE  /\ Ends(Coming', q, assigned'[q], life'[q] = "gone")
         /\ About(Coming', q) \/ Says(Head(Coming), assigned[q], life[q] = "gone")
<1>1. Coming \in Seq(PodEvents)
  BY ComingType
<1>2. Ends(Coming, q, assigned[q], life[q] = "gone")
  BY DEF Follows
<1>3. /\ Ends(Tail(Coming), q, assigned[q], life[q] = "gone")
      /\ About(Tail(Coming), q) \/ Says(Head(Coming), assigned[q], life[q] = "gone")
  BY <1>1, <1>2, TailEnds
<1> QED
  BY <1>3

LEMMA StoreAndNews ==
  ASSUME NEW q, Follows(q), StoreKept(q), NewsKept(q),
         \A n \in Nodes : Recording(q, n)' => Recording(q, n)
  PROVE  Follows(q)'
<1>1. Ends(Coming', q, assigned[q], life[q] = "gone")
  BY DEF NewsKept, SameNews, Follows
<1>2. assigned'[q] = assigned[q] /\ life'[q] = life[q]
  BY DEF StoreKept
<1>3. Ends(Coming', q, assigned'[q], life'[q] = "gone")
  BY <1>1, <1>2
<1>4. About(Coming', q) <=> About(Coming, q)
  BY DEF NewsKept, SameNews
<1> QED
  BY <1>2, <1>3, <1>4 DEF Follows

LEMMA FollowingStep ==
  ASSUME RIInv, Ground, Following, RNext
  PROVE  Following'
<1> SUFFICES ASSUME Synced', NEW q \in Pods, life'[q] # "new" PROVE Follows(q)'
  BY DEF Following
<1> USE DEF Ground
<1>0. CASE List("pods")
  <2>1. /\ StoreKept(q) /\ stream["pods"] = "closed" /\ loop' = loop
        /\ UNCHANGED <<life, assigned>>
    BY <1>0, ListPodsEffect DEF StoreUntouched, taskVars
  <2>2. PICK s \in PodSnapshots : Coming' = s
    BY <1>0, ListPodsEffect
  <2>3. loop'["pods"] = IdleLoop
    BY <2>1 DEF Blank
  <2>4. \A n : ~Recording(q, n)'
    BY <2>3, NotRecording
  <2>5. Ends(s, q, assigned[q], life[q] = "gone")
    <3>1. CASE life[q] = "gone"
      <4>1. ~About(s, q)
        BY <3>1, SnapshotTells DEF Live, RIInv, IInv
      <4> QED
        BY <4>1 DEF About, Ends
    <3>2. CASE life[q] # "gone"
      <4>1. Ends(s, q, assigned[q], FALSE)
        BY SnapshotTells DEF RIInv, IInv
      <4>2. (life[q] = "gone") = FALSE
        BY <3>2
      <4> QED
        BY <4>1, <4>2
    <3> QED
      BY <3>1, <3>2
  <2> QED
    BY <2>1, <2>2, <2>4, <2>5 DEF Follows
<1> SUFFICES ASSUME ~List("pods") PROVE Follows(q)'
  BY <1>0
<1>a. Synced /\ ~Restart /\ blemish \subseteq blemish'
  BY SyncedBefore
<1>b. life[q] # "new" => Follows(q)
  BY <1>a DEF Following
<1>c. Unmoved(q) => Follows(q)'
  BY <1>b, UnmovedFollows DEF Unmoved, StoreKept
<1>1. CASE PodCreated
  <2>1. PICK p \in Pods : CreatePod(p) /\ UNCHANGED linkVars
    BY <1>1 DEF PodCreated, Within
  <2>2. CASE p = q
    <3>1. PICK e : e = PodEvent("ADDED", p, NoNode)
      OBVIOUS
    <3>2. e \in PodEvents /\ e.pod = p /\ e.kind = "ADDED" /\ e.node = NoNode
      BY <3>1, EventTypes DEF MaybeNodes, PodEvent
    <3>3. Posted(e) /\ life[q] = "new" /\ life'[q] = "live" /\ assigned'[q] = assigned[q]
      BY <2>1, <2>2, <3>1, CreateEffect
    <3>4. assigned[q] = NoNode
      BY <3>3 DEF Unborn, Quiet
    <3>5. Coming' = Append(Coming, e)
      BY <1>a, <3>3, PostedSynced
    <3>6. Says(e, assigned'[q], life'[q] = "gone")
      BY <3>2, <3>3, <3>4 DEF Says
    <3> QED
      BY <2>2, <3>2, <3>5, <3>6, PostedFollows
  <2> QED
    BY <1>c, <2>1, <2>2, CreateEffect
<1>2. CASE PodDeleted
  <2>1. PICK p \in Pods : DeletePod(p) /\ UNCHANGED linkVars
    BY <1>2 DEF PodDeleted, Within
  <2>2. CASE p = q
    <3>1. PICK e : e = PodEvent("DELETED", p, assigned[p])
      OBVIOUS
    <3>2. e \in PodEvents /\ e.pod = p /\ e.kind = "DELETED" /\ Posted(e) /\ life'[q] = "gone"
      BY <2>1, <2>2, <3>1, DeleteEffect DEF PodEvent
    <3>3. Coming' = Append(Coming, e)
      BY <1>a, <3>2, PostedSynced
    <3>4. Says(e, assigned'[q], life'[q] = "gone")
      BY <3>2 DEF Says
    <3> QED
      BY <2>2, <3>2, <3>3, <3>4, PostedFollows
  <2> QED
    BY <1>c, <2>1, <2>2, DeleteEffect
<1>3. CASE NodeNews
  BY <1>3, <1>c, NodeEffect DEF NodeNews, Within
<1>4. CASE Evict /\ Within
  <2>1. StoreKept(q) /\ NewsKept(q) /\ loop'["pods"] = loop["pods"]
    BY <1>4, EvictEffect DEF Within
  <2> QED
    BY <1>b, <2>1, StoreAndNews DEF StoreKept, Recording
<1>5. CASE Swept
  <2>1. PICK l \in Loops : Sweep(l) /\ UNCHANGED linkVars
    BY <1>5 DEF Swept, Within
  <2>2. StoreKept(q) /\ NewsKept(q) /\ \A n : Recording(q, n)' <=> Recording(q, n)
    BY <2>1, SweepEffect
  <2> QED
    BY <1>b, <2>2, StoreAndNews DEF StoreKept
<1>6. CASE OrphanTaken
  <2>1. PICK p \in Pods : NextOrphan(p) /\ UNCHANGED linkVars
    BY <1>6 DEF OrphanTaken, Within
  <2>2. StoreKept(q) /\ NewsKept(q) /\ loop' = loop
    BY <2>1, NextOrphanEffect
  <2> QED
    BY <1>b, <2>2, StoreAndNews DEF StoreKept, Recording
<1>7. CASE Taken(TakeRemoval) \/ Taken(TakeUnplaced)
  <2>1. /\ Coming # <<>> /\ life' = life /\ assigned' = assigned /\ Coming' = Tail(Coming)
        /\ \A n : ~Recording(q, n)'
        /\ q # Head(Coming).pod => Unmoved(q)
    BY <1>7, RemovalEffect, UnplacedEffect DEF Taken, Within
  <2>2. CASE q = Head(Coming).pod
    <3>1. Ends(Coming', q, assigned'[q], life'[q] = "gone")
      BY <1>b, <2>1, <2>2, TakenFollows
    <3> QED
      BY <2>1, <3>1 DEF Follows
  <2> QED
    BY <1>c, <2>1, <2>2
<1>8. CASE Taken(TakePlacement)
  <2>1. PICK e : e = Head(Coming)
    OBVIOUS
  <2>2. /\ Coming # <<>> /\ life' = life /\ assigned' = assigned /\ Coming' = Tail(Coming)
        /\ \A n : Recording(q, n)' => n = e.node
        /\ e.kind # "DELETED"
        /\ q # e.pod => Unmoved(q)
    BY <1>8, <2>1, PlacementEffect DEF Taken, Within
  <2>3. CASE q = e.pod
    <3>1. /\ Ends(Coming', q, assigned'[q], life'[q] = "gone")
          /\ About(Coming', q) \/ Says(e, assigned[q], life[q] = "gone")
      BY <1>b, <2>1, <2>2, <2>3, TakenFollows
    <3>2. ASSUME NEW n \in Nodes, Recording(q, n)', ~About(Coming', q)
          PROVE  life'[q] = "live" /\ n = assigned'[q]
      <4>1. n = e.node /\ e.kind # "DELETED" /\ Says(e, assigned[q], life[q] = "gone")
        BY <2>2, <3>1, <3>2
      <4>2. life[q] # "gone" /\ e.node = assigned[q]
        BY <4>1 DEF Says
      <4>3. life[q] \in {"new", "live", "gone"}
        BY DEF RIInv, IInv, TypeOK
      <4> QED
        BY <2>2, <4>1, <4>2, <4>3
    <3> QED
      BY <3>1, <3>2 DEF Follows
  <2> QED
    BY <1>c, <2>2, <2>3
<1>9. CASE Taken(RecordPlacement)
  <2>1. PICK p \in Pods, n \in Nodes :
           /\ StoreKept(p) /\ NewsKept(p) /\ (\A r, m : ~Recording(r, m)')
           /\ \A r \in Pods : r # p => Unmoved(r)
    BY <1>9, RecordEffect DEF Taken, Within
  <2>2. CASE p = q
    BY <1>b, <2>1, <2>2, StoreAndNews DEF StoreKept
  <2> QED
    BY <1>c, <2>1, <2>2
<1>10. CASE Worked
  <2>1. PICK l \in Loops, p \in Pods :
           /\ \/ Orphan(l, p) \/ OrphanGone(l, p) \/ OrphanFails(l, p)
              \/ (Try(l, p) \/ Retry(l, p))
              \/ Assign(l, p) \/ NotFound(l, p) \/ DropPending(l, p) \/ AssignFails(l, p)
           /\ UNCHANGED linkVars
    BY <1>10, WorkCases
  <2>2. JobKeeps(l, p)
    BY <2>1, JobKept
  <2>3. CASE p # q
    BY <1>c, <2>2, <2>3 DEF JobKeeps
  <2>4. CASE p = q
    <3>1. CASE Orphan(l, p)
      <4>1. PICK e : e = PodEvent("MODIFIED", p, NoNode)
        OBVIOUS
      <4>2. e \in PodEvents /\ e.pod = q /\ e.kind = "MODIFIED" /\ e.node = NoNode
        BY <2>4, <4>1, EventTypes DEF MaybeNodes, PodEvent
      <4>3. Posted(e) /\ life[q] = "live" /\ life' = life /\ assigned'[q] = NoNode
        BY <2>1, <2>4, <3>1, <4>1, OrphanEffect DEF JobKeeps
      <4>4. Coming' = Append(Coming, e)
        BY <1>a, <4>3, PostedSynced
      <4>5. Says(e, assigned'[q], life'[q] = "gone")
        BY <4>2, <4>3 DEF Says
      <4> QED
        BY <4>2, <4>4, <4>5, PostedFollows
    <3>2. CASE Assign(l, p)
      <4>1. PICK n \in MaybeNodes : /\ AssignedEvent(p, n) \in PodEvents /\ Posted(AssignedEvent(p, n))
                                    /\ life[p] = "live" /\ life' = life /\ assigned'[p] = n
        BY <2>1, <3>2, AssignEffect DEF JobKeeps
      <4>2. PICK e : e = AssignedEvent(p, n)
        OBVIOUS
      <4>3. e \in PodEvents /\ e.pod = q /\ e.kind # "DELETED" /\ e.node = n
        BY <2>4, <4>1, <4>2 DEF AssignedEvent, PodEvent
      <4>4. Coming' = Append(Coming, e)
        BY <1>a, <4>1, <4>2, PostedSynced
      <4>5. Says(e, assigned'[q], life'[q] = "gone")
        BY <2>4, <4>1, <4>3 DEF Says
      <4> QED
        BY <4>3, <4>4, <4>5, PostedFollows
    <3>3. CASE ~Orphan(l, p) /\ ~Assign(l, p)
      <4>1. StoreKept(q) /\ NewsKept(q)
        BY <2>1, <3>3, OrphanGoneEffect, OrphanFailsEffect, TryEffect, NotFoundEffect,
           DropEffect, AssignFailsEffect
      <4>2. loop' = loop
        BY <2>2 DEF JobKeeps
      <4> QED
        BY <1>b, <4>1, <4>2, StoreAndNews DEF StoreKept, Recording
    <3> QED
      BY <3>1, <3>2, <3>3
  <2> QED
    BY <2>3, <2>4
<1>11. CASE Linked
  BY <1>11, <1>c, LinkEffect DEF Linked
<1>12. CASE LateAssign
  <2>1. PICK p \in Pods, n \in MaybeNodes :
           /\ AssignedEvent(p, n) \in PodEvents /\ Posted(AssignedEvent(p, n))
           /\ life[p] = "live" /\ life' = life /\ assigned'[p] = n
           /\ \A r \in Pods : r # p => Unmoved(r)
    BY <1>12, LateEffect
  <2>2. CASE p = q
    <3>1. PICK e : e = AssignedEvent(p, n)
      OBVIOUS
    <3>2. e \in PodEvents /\ e.pod = q /\ e.kind # "DELETED" /\ e.node = n
      BY <2>1, <2>2, <3>1 DEF AssignedEvent, PodEvent
    <3>3. Coming' = Append(Coming, e)
      BY <1>a, <2>1, <3>1, PostedSynced
    <3>4. Says(e, assigned'[q], life'[q] = "gone")
      BY <2>1, <2>2, <3>2 DEF Says
    <3> QED
      BY <3>2, <3>3, <3>4, PostedFollows
  <2> QED
    BY <1>c, <2>1, <2>2
<1> QED
  BY <1>a, <1>1, <1>2, <1>3, <1>4, <1>5, <1>6, <1>7, <1>8, <1>9, <1>10, <1>11, <1>12, NextCases
-----------------------------------------------------------------------------

(* In the present process no RPC has failed and no news were missed.       *)
Tame == Synced /\ "fault" \notin blemish

(* A stored placement is in the book, or on its way there.                 *)
Tracked(p) ==
  \/ About(Coming, p)
  \/ book.placed[p] = assigned[p] \/ Recording(p, assigned[p])
  \/ p \in todo \/ At(p, {"orphan", "assign"})
Tracking == Tame => \A p \in WithNode : Tracked(p)

LEMMA UnmovedTracked ==
  ASSUME NEW q, assigned[q] \in Nodes, Unmoved(q), Tracked(q)
  PROVE  Tracked(q)'
<1>1. PICK a \in Nodes : a = assigned[q]
  OBVIOUS
<1>2. assigned'[q] = a
  BY <1>1 DEF Unmoved, StoreKept
<1>3. Recording(q, assigned[q]) <=> Recording(q, a)
  BY <1>1
<1>4. Recording(q, assigned[q])' <=> Recording(q, a)'
  BY <1>2 DEF Recording
<1>5. Recording(q, a)' <=> Recording(q, a)
  BY DEF Unmoved, MindKept
<1>6. About(Coming', q) <=> About(Coming, q)
  BY DEF Unmoved, NewsKept, SameNews
<1>7. At(q, {"orphan", "assign"})' <=> At(q, {"orphan", "assign"})
  BY DEF Unmoved, MindKept, At
<1>8. book'.placed[q] = book.placed[q] /\ (q \in todo' <=> q \in todo)
  BY DEF Unmoved, MindKept
<1> QED
  BY <1>1, <1>2, <1>3, <1>4, <1>5, <1>6, <1>7, <1>8 DEF Tracked

(* The job of the other loop is not concerned.                             *)
LEMMA OtherJobKept ==
  ASSUME NEW l \in Loops, NEW q, NEW places, \A m \in Loops : m # l => job'[m][q] = job[m][q],
         job[l][q].at \notin places, At(q, places)
  PROVE  At(q, places)'
BY DEF At

LEMMA TameBefore ==
  ASSUME RIInv, Blank, RNext, Tame', ~List("pods")
  PROVE  Tame /\ Synced /\ Synced' /\ ~Restart /\ blemish \subseteq blemish' /\ "fault" \notin blemish'
BY SyncedBefore DEF Tame

LEMMA TrackingStep ==
  ASSUME RIInv, Ground, Following, Tracking, RNext
  PROVE  Tracking'
<1> SUFFICES ASSUME Tame', NEW q \in Pods, life'[q] = "live", assigned'[q] # NoNode PROVE Tracked(q)'
  BY DEF Tracking, WithNode, Live
<1> USE DEF Ground
<1>0. CASE List("pods")
  <2>1. life' = life
    BY <1>0, ListPodsEffect DEF StoreUntouched
  <2>2. PICK s \in PodSnapshots : Coming' = s
    BY <1>0, ListPodsEffect
  <2>3. About(s, q)
    BY <2>1, SnapshotTells DEF Live, RIInv, IInv
  <2>4. About(Coming', q)
    BY <2>2, <2>3
  <2> QED
    BY <2>4 DEF Tracked
<1> SUFFICES ASSUME ~List("pods") PROVE Tracked(q)'
  BY <1>0
<1>a. Tame /\ Synced /\ Synced' /\ ~Restart /\ blemish \subseteq blemish' /\ "fault" \notin blemish'
  BY TameBefore
<1>b. life[q] = "live" /\ assigned[q] # NoNode => Tracked(q) /\ assigned[q] \in Nodes /\ Follows(q)
  BY <1>a DEF Tracking, WithNode, Live, Following, RIInv, IInv, TypeOK, MaybeNodes
<1>c. Unmoved(q) => Tracked(q)'
  BY <1>b, UnmovedTracked DEF Unmoved, StoreKept
<1>d. life' = life /\ assigned' = assigned => life[q] = "live" /\ assigned[q] # NoNode
  OBVIOUS
<1>e. About(Coming', q) => Tracked(q)'
  BY DEF Tracked
<1>1. CASE PodCreated
  <2>1. PICK p \in Pods : CreatePod(p) /\ UNCHANGED linkVars
    BY <1>1 DEF PodCreated, Within
  <2>2. CASE p = q
    <3>1. life[q] = "new" /\ assigned'[q] = assigned[q]
      BY <2>1, <2>2, CreateEffect
    <3> QED
      BY <3>1 DEF Unborn, Quiet
  <2> QED
    BY <1>c, <2>1, <2>2, CreateEffect
<1>2. CASE PodDeleted
  <2>1. PICK p \in Pods : DeletePod(p) /\ UNCHANGED linkVars
    BY <1>2 DEF PodDeleted, Within
  <2> QED
    BY <1>c, <2>1, DeleteEffect
<1>3. CASE NodeNews
  BY <1>3, <1>c, NodeEffect DEF NodeNews, Within
<1>4. CASE Evict /\ Within
  <2>1. /\ UNCHANGED <<life, assigned, job>> /\ loop'["pods"] = loop["pods"] /\ Coming' = Coming
        /\ loop["nodes"] # IdleLoop
        /\ book'.placed[q] = IF q \in todo' THEN NoNode ELSE book.placed[q]
    BY <1>4, EvictEffect DEF Within
  <2>2. todo = {}
    BY <2>1 DEF BusyLoops
  <2>3. Tracked(q)
    BY <1>b, <1>d, <2>1
  <2> QED
    BY <2>1, <2>2, <2>3 DEF Tracked, Recording, At
<1>5. CASE Swept
  <2>1. PICK l \in Loops : Sweep(l) /\ UNCHANGED linkVars
    BY <1>5 DEF Swept, Within
  <2>2. /\ loop[l] = [at |-> "sweep"]
        /\ UNCHANGED <<life, assigned, book, pending, todo>>
        /\ \A m \in Loops : m # l => job'[m][q] = job[m][q]
        /\ Coming' = Coming /\ \A n : Recording(q, n)' <=> Recording(q, n)
    BY <2>1, SweepEffect
  <2>3. job[l][q] = NoJob
    BY <2>2 DEF BusyLoops, NoJobs, IdleLoop
  <2>4. Tracked(q)
    BY <1>b, <1>d, <2>2
  <2>5. job[l][q].at \notin {"orphan", "assign"}
    BY <2>3 DEF NoJob
  <2>6. At(q, {"orphan", "assign"}) => At(q, {"orphan", "assign"})'
    BY <2>2, <2>5, OtherJobKept
  <2>7. Recording(q, assigned[q])' <=> Recording(q, assigned[q])
    <3>1. PICK a : a = assigned[q]
      OBVIOUS
    <3>2. assigned'[q] = a
      BY <2>2, <3>1
    <3>3. Recording(q, a)' <=> Recording(q, a)
      BY <2>2
    <3> QED
      BY <3>1, <3>2, <3>3 DEF Recording
  <2> QED
    BY <2>2, <2>4, <2>6, <2>7 DEF Tracked
<1>6. CASE OrphanTaken
  <2>1. PICK p \in Pods : NextOrphan(p) /\ UNCHANGED linkVars
    BY <1>6 DEF OrphanTaken, Within
  <2>2. CASE p = q
    <3>1. job'["nodes"][q] = [at |-> "orphan"]
      BY <2>1, <2>2, NextOrphanEffect
    <3> QED
      BY <3>1 DEF Tracked, At, Loops
  <2> QED
    BY <1>c, <2>1, <2>2, NextOrphanEffect
<1>7. CASE Taken(TakeRemoval)
  <2>1. PICK e : e = Head(Coming)
    OBVIOUS
  <2>2. /\ Coming \in Seq(PodEvents) /\ Coming # <<>> /\ e.kind = "DELETED" /\ life' = life
        /\ q # e.pod => Unmoved(q)
    BY <1>7, <2>1, RemovalEffect DEF Taken, Within
  <2>3. Deletes(Coming, e.pod)
    BY <2>1, <2>2, TailAbout
  <2> QED
    BY <1>c, <2>2, <2>3 DEF Buried
<1>8. CASE Taken(TakePlacement)
  <2>1. PICK e : e = Head(Coming)
    OBVIOUS
  <2>2. /\ Coming # <<>> /\ life' = life /\ assigned' = assigned /\ Coming' = Tail(Coming) /\ e.kind # "DELETED"
        /\ \/ job'["pods"][e.pod] = [at |-> "orphan"]
           \/ \A r, n : Recording(r, n)' <=> r = e.pod /\ n = e.node
        /\ q # e.pod => Unmoved(q)
    BY <1>8, <2>1, PlacementEffect DEF Taken, Within
  <2>3. CASE q = e.pod
    <3>1. About(Coming', q) \/ Says(e, assigned[q], life[q] = "gone")
      BY <1>b, <1>d, <2>1, <2>2, <2>3, TakenFollows
    <3>2. Says(e, assigned[q], life[q] = "gone") => e.node = assigned'[q]
      BY <2>2 DEF Says
    <3>3. job'["pods"][e.pod] = [at |-> "orphan"] => Tracked(q)'
      BY <2>3 DEF Tracked, At, Loops
    <3> QED
      BY <1>e, <2>2, <2>3, <3>1, <3>2, <3>3 DEF Tracked
  <2> QED
    BY <1>c, <2>2, <2>3
<1>9. CASE Taken(RecordPlacement)
  <2>1. PICK p \in Pods, n \in Nodes :
           /\ Recording(p, n) /\ UNCHANGED <<life, assigned>> /\ Coming' = Coming /\ book'.placed[p] = n
           /\ \A r \in Pods : r # p => Unmoved(r)
    BY <1>9, RecordEffect DEF Taken, Within
  <2>2. CASE p = q
    <3>1. About(Coming, q) \/ n = assigned[q]
      BY <1>b, <1>d, <2>1, <2>2 DEF Follows
    <3> QED
      BY <2>1, <2>2, <3>1 DEF Tracked
  <2> QED
    BY <1>c, <2>1, <2>2
<1>10. CASE Taken(TakeUnplaced)
  <2>1. PICK e : e = Head(Coming)
    OBVIOUS
  <2>2. /\ Coming # <<>> /\ life' = life /\ assigned' = assigned /\ Coming' = Tail(Coming)
        /\ e.kind # "DELETED" /\ e.node = NoNode
        /\ q # e.pod => Unmoved(q)
    BY <1>10, <2>1, UnplacedEffect DEF Taken, Within
  <2>3. CASE q = e.pod
    <3>1. About(Coming', q) \/ Says(e, assigned[q], life[q] = "gone")
      BY <1>b, <1>d, <2>1, <2>2, <2>3, TakenFollows
    <3>2. ~Says(e, assigned[q], life[q] = "gone")
      BY <1>d, <2>2 DEF Says
    <3> QED
      BY <1>e, <3>1, <3>2
  <2> QED
    BY <1>c, <2>2, <2>3
<1>11. CASE Worked
  <2>1. PICK l \in Loops, p \in Pods :
           /\ \/ Orphan(l, p) \/ OrphanGone(l, p) \/ OrphanFails(l, p)
              \/ (Try(l, p) \/ Retry(l, p))
              \/ Assign(l, p) \/ NotFound(l, p) \/ DropPending(l, p) \/ AssignFails(l, p)
           /\ UNCHANGED linkVars /\ (faults' # faults => "fault" \in blemish')
    BY <1>11, WorkCases
  <2>2. JobKeeps(l, p)
    BY <2>1, JobKept
  <2>3. CASE p # q
    <3>1. Unmoved(q)
      BY <2>2, <2>3 DEF JobKeeps
    <3> QED
      BY <1>c, <3>1
  <2>4. CASE p = q
    <3>0. faults' = faults /\ life[q] = "live" /\ (\A m \in Loops : m # l => job'[m][q] = job[m][q])
          /\ todo' = todo /\ loop' = loop
      BY <1>a, <2>1, <2>2, <2>4 DEF JobKeeps
    <3>1. CASE Orphan(l, p)
      BY <2>1, <2>4, <3>1, OrphanEffect
    <3>2. CASE OrphanGone(l, p)
      BY <2>1, <2>4, <3>0, <3>2, OrphanGoneEffect
    <3>3. CASE OrphanFails(l, p) \/ NotFound(l, p) \/ AssignFails(l, p)
      BY <2>1, <2>4, <3>0, <3>3, OrphanFailsEffect, NotFoundEffect, AssignFailsEffect
    <3>4. CASE Try(l, p) \/ Retry(l, p)
      <4>1. /\ StoreKept(q) /\ Coming' = Coming
            /\ \/ job'[l][q].at = "assign"
               \/ job[l][q].at = "retry" /\ book' = book
        <5>1. /\ StoreKept(p) /\ Coming' = Coming
              /\ \/ Parked(l, p) \/ \E n \in Nodes : PlacedAt(l, p, n)
                 \/ job[l][p].at = "retry" /\ book' = book
          BY <2>1, <3>4, TryEffect
        <5>2. Parked(l, p) => job'[l][p].at = "assign"
          BY DEF Parked
        <5>3. \A n : PlacedAt(l, p, n) => job'[l][p].at = "assign"
          BY DEF PlacedAt
        <5> QED
          BY <2>4, <5>1, <5>2, <5>3
      <4>2. CASE job'[l][q].at = "assign"
        BY <4>2 DEF Tracked, At
      <4>3. CASE job[l][q].at = "retry" /\ book' = book
        <5>1. Tracked(q) /\ assigned'[q] = assigned[q]
          BY <1>b, <3>0, <4>1 DEF StoreKept
        <5>2. At(q, {"orphan", "assign"}) => At(q, {"orphan", "assign"})'
          BY <3>0, <4>3, OtherJobKept
        <5> QED
          BY <3>0, <4>1, <4>3, <5>1, <5>2 DEF Tracked, Recording
      <4> QED
        BY <4>1, <4>2, <4>3
    <3>5. CASE Assign(l, p)
      <4>1. PICK n \in MaybeNodes : AssignedEvent(p, n) \in PodEvents /\ Posted(AssignedEvent(p, n))
        BY <2>1, <3>5, AssignEffect
      <4>2. Coming' = Append(Coming, AssignedEvent(p, n)) /\ Coming \in Seq(PodEvents)
        BY <1>a, <4>1, PostedSynced, ComingType
      <4>3. AssignedEvent(p, n).pod = q
        BY <2>4 DEF AssignedEvent, PodEvent
      <4>4. About(Append(Coming, AssignedEvent(p, n)), q)
        BY <4>1, <4>2, <4>3, AppendAbout
      <4> QED
        BY <1>e, <4>2, <4>4
    <3>6. CASE DropPending(l, p)
      <4>1. StoreKept(q) /\ Coming' = Coming /\ job[l][q].at = "drop" /\ book' = book
        BY <2>1, <2>4, <3>6, DropEffect
      <4>2. Tracked(q) /\ assigned'[q] = assigned[q]
        BY <1>b, <3>0, <4>1 DEF StoreKept
      <4>3. At(q, {"orphan", "assign"}) => At(q, {"orphan", "assign"})'
        BY <3>0, <4>1, OtherJobKept
      <4> QED
        BY <3>0, <4>1, <4>2, <4>3 DEF Tracked, Recording
    <3> QED
      BY <2>1, <3>1, <3>2, <3>3, <3>4, <3>5, <3>6
  <2> QED
    BY <2>3, <2>4
<1>12. CASE Linked
  BY <1>12, <1>c, LinkEffect DEF Linked
<1>13. CASE LateAssign
  <2>1. PICK p \in Pods, n \in MaybeNodes :
           /\ AssignedEvent(p, n) \in PodEvents /\ Posted(AssignedEvent(p, n))
           /\ \A r \in Pods : r # p => Unmoved(r)
    BY <1>13, LateEffect
  <2>2. CASE p = q
    <3>1. Coming' = Append(Coming, AssignedEvent(p, n)) /\ Coming \in Seq(PodEvents)
      BY <1>a, <2>1, PostedSynced, ComingType
    <3>2. AssignedEvent(p, n).pod = q
      BY <2>2 DEF AssignedEvent, PodEvent
    <3>3. About(Append(Coming, AssignedEvent(p, n)), q)
      BY <2>1, <3>1, <3>2, AppendAbout
    <3> QED
      BY <1>e, <3>1, <3>3
  <2> QED
    BY <1>c, <2>1, <2>2
<1> QED
  BY <1>a, <1>1, <1>2, <1>3, <1>4, <1>5, <1>6, <1>7, <1>8, <1>9, <1>10, <1>11, <1>12, <1>13, NextCases
-----------------------------------------------------------------------------

(* What is still held of a removed pod goes: the removal is coming, or an  *)
(* answer that says not found.                                             *)
Forgotten(p) ==
  /\ Placed(p) => About(Coming, p)
  /\ p \in pending => About(Coming, p) \/ At(p, {"assign", "drop"})
Forgetting == Tame => \A p \in Pods \ blemish : life[p] = "gone" => Forgotten(p)

LEMMA UnmovedForgotten ==
  ASSUME NEW q, Unmoved(q), Forgotten(q)
  PROVE  Forgotten(q)'
<1>1. About(Coming', q) <=> About(Coming, q)
  BY DEF Unmoved, NewsKept, SameNews
<1>2. At(q, {"assign", "drop"})' <=> At(q, {"assign", "drop"})
  BY DEF Unmoved, MindKept, At
<1>3. book'.placed[q] = book.placed[q] /\ (q \in pending' <=> q \in pending)
  BY DEF Unmoved, MindKept
<1> QED
  BY <1>1, <1>2, <1>3 DEF Forgotten, Placed

LEMMA ForgettingStep ==
  ASSUME RIInv, Ground, Following, Forgetting, RNext
  PROVE  Forgetting'
<1> SUFFICES ASSUME Tame', NEW q \in Pods, q \notin blemish', life'[q] = "gone" PROVE Forgotten(q)'
  BY DEF Forgetting
<1> USE DEF Ground
<1>0. CASE List("pods")
  <2>1. /\ UNCHANGED <<book, pending>> /\ stream["pods"] = "closed"
    BY <1>0, ListPodsEffect DEF StoreUntouched, stateVars
  <2>2. book.placed[q] = NoNode /\ pending = {}
    BY <2>1 DEF Blank, NoWork
  <2> QED
    BY <2>1, <2>2 DEF Forgotten, Placed
<1> SUFFICES ASSUME ~List("pods") PROVE Forgotten(q)'
  BY <1>0
<1>a. Tame /\ Synced /\ Synced' /\ ~Restart /\ blemish \subseteq blemish' /\ "fault" \notin blemish'
  BY TameBefore
<1>b. life[q] = "gone" => Forgotten(q) /\ Follows(q)
  BY <1>a DEF Forgetting, Following
<1>c. Unmoved(q) => Forgotten(q)'
  BY <1>b, UnmovedForgotten DEF Unmoved, StoreKept
<1>d. About(Coming', q) => Forgotten(q)'
  BY DEF Forgotten
<1>1. CASE PodCreated
  <2>1. PICK p \in Pods : CreatePod(p) /\ UNCHANGED linkVars
    BY <1>1 DEF PodCreated, Within
  <2> QED
    BY <1>c, <2>1, CreateEffect
<1>2. CASE PodDeleted
  <2>1. PICK p \in Pods : DeletePod(p) /\ UNCHANGED linkVars
    BY <1>2 DEF PodDeleted, Within
  <2>2. CASE p = q
    <3>1. PICK e : e = PodEvent("DELETED", p, assigned[p])
      OBVIOUS
    <3>2. e \in PodEvents /\ e.pod = q /\ Posted(e)
      BY <2>1, <2>2, <3>1, DeleteEffect DEF PodEvent
    <3>3. Coming' = Append(Coming, e) /\ Coming \in Seq(PodEvents)
      BY <1>a, <3>2, PostedSynced, ComingType
    <3>4. About(Append(Coming, e), q)
      BY <3>2, <3>3, AppendAbout
    <3> QED
      BY <1>d, <3>3, <3>4
  <2> QED
    BY <1>c, <2>1, <2>2, DeleteEffect
<1>3. CASE NodeNews
  BY <1>3, <1>c, NodeEffect DEF NodeNews, Within
<1>4. CASE Evict /\ Within
  <2>1. /\ UNCHANGED <<life, pending, job>> /\ Coming' = Coming
        /\ book'.placed[q] = IF q \in todo' THEN NoNode ELSE book.placed[q]
    BY <1>4, EvictEffect DEF Within
  <2> QED
    BY <1>b, <2>1 DEF Forgotten, Placed, At
<1>5. CASE Swept
  <2>1. PICK l \in Loops : Sweep(l) /\ UNCHANGED linkVars
    BY <1>5 DEF Swept, Within
  <2>2. /\ loop[l] = [at |-> "sweep"]
        /\ UNCHANGED <<life, book, pending>>
        /\ \A m \in Loops : m # l => job'[m][q] = job[m][q]
        /\ Coming' = Coming
    BY <2>1, SweepEffect
  <2>3. job[l][q].at \notin {"assign", "drop"}
    BY <2>2 DEF BusyLoops, NoJobs, IdleLoop, NoJob
  <2>4. At(q, {"assign", "drop"}) => At(q, {"assign", "drop"})'
    BY <2>2, <2>3, OtherJobKept
  <2> QED
    BY <1>b, <2>2, <2>4 DEF Forgotten, Placed
<1>6. CASE OrphanTaken
  <2>1. PICK p \in Pods : NextOrphan(p) /\ UNCHANGED linkVars
    BY <1>6 DEF OrphanTaken, Within
  <2>2. CASE p = q
    <3>1. /\ NoJobs("nodes") /\ job'["pods"][q] = job["pods"][q] /\ UNCHANGED <<life, book, pending>>
          /\ Coming' = Coming
      BY <2>1, <2>2, NextOrphanEffect
    <3>2. job["nodes"][q].at \notin {"assign", "drop"}
      BY <3>1 DEF NoJobs, NoJob
    <3>3. At(q, {"assign", "drop"}) => At(q, {"assign", "drop"})'
      BY <3>1, <3>2 DEF At, Loops
    <3> QED
      BY <1>b, <3>1, <3>3 DEF Forgotten, Placed
  <2> QED
    BY <1>c, <2>1, <2>2, NextOrphanEffect
<1>7. CASE Taken(TakeRemoval)
  <2>1. PICK e : e = Head(Coming)
    OBVIOUS
  <2>2. /\ pending' = pending \ {e.pod} /\ book'.placed[e.pod] = NoNode
        /\ q # e.pod => Unmoved(q)
    BY <1>7, <2>1, RemovalEffect DEF Taken, Within
  <2>3. CASE q = e.pod
    BY <2>2, <2>3 DEF Forgotten, Placed
  <2> QED
    BY <1>c, <2>2, <2>3
<1>8. CASE Taken(TakePlacement) \/ Taken(TakeUnplaced)
  <2>1. PICK e : e = Head(Coming)
    OBVIOUS
  <2>2. /\ Coming # <<>> /\ life' = life /\ assigned' = assigned /\ Coming' = Tail(Coming)
        /\ e.kind # "DELETED" /\ (q # e.pod => Unmoved(q))
    BY <1>8, <2>1, PlacementEffect, UnplacedEffect DEF Taken, Within
  <2>3. CASE q = e.pod
    <3>1. About(Coming', q) \/ Says(e, assigned[q], life[q] = "gone")
      BY <1>b, <2>1, <2>2, <2>3, TakenFollows
    <3>2. ~Says(e, assigned[q], life[q] = "gone")
      BY <2>2 DEF Says
    <3> QED
      BY <1>d, <3>1, <3>2
  <2> QED
    BY <1>c, <2>2, <2>3
<1>9. CASE Taken(RecordPlacement)
  <2>1. PICK p \in Pods, n \in Nodes :
           /\ Recording(p, n) /\ UNCHANGED <<life, assigned>> /\ Coming' = Coming
           /\ \A r \in Pods : r # p => Unmoved(r)
    BY <1>9, RecordEffect DEF Taken, Within
  <2>2. CASE p = q
    <3>1. About(Coming, q)
      BY <1>b, <2>1, <2>2 DEF Follows
    <3> QED
      BY <1>d, <2>1, <3>1
  <2> QED
    BY <1>c, <2>1, <2>2
<1>10. CASE Worked
  <2>1. PICK l \in Loops, p \in Pods :
           /\ \/ Orphan(l, p) \/ OrphanGone(l, p) \/ OrphanFails(l, p)
              \/ (Try(l, p) \/ Retry(l, p))
              \/ Assign(l, p) \/ NotFound(l, p) \/ DropPending(l, p) \/ AssignFails(l, p)
           /\ UNCHANGED linkVars /\ (faults' # faults => "fault" \in blemish')
           /\ BookedTooLate(p) => p \in blemish'
    BY <1>10, WorkCases
  <2>2. JobKeeps(l, p) /\ job[l][p] # NoJob
    BY <2>1, JobKept
  <2>3. CASE p # q
    <3>1. Unmoved(q)
      BY <2>2, <2>3 DEF JobKeeps
    <3> QED
      BY <1>c, <3>1
  <2>4. CASE p = q
    <3>0. faults' = faults /\ life[q] = "gone" /\ (\A m \in Loops : m # l => job'[m][q] = job[m][q])
          /\ ~BookedTooLate(q) /\ Forgotten(q)
      BY <1>a, <1>b, <2>1, <2>2, <2>4 DEF JobKeeps
    <3>1. CASE Orphan(l, p) \/ Assign(l, p)
      BY <2>4, <3>0, <3>1 DEF Orphan, Assign
    <3>2. CASE OrphanGone(l, p)
      <4>1. job[l][q].at = "orphan" /\ UNCHANGED <<pending, book>> /\ Coming' = Coming
        BY <2>1, <2>4, <3>2, OrphanGoneEffect
      <4>2. At(q, {"assign", "drop"}) => At(q, {"assign", "drop"})'
        BY <3>0, <4>1, OtherJobKept
      <4> QED
        BY <3>0, <4>1, <4>2 DEF Forgotten, Placed
    <3>3. CASE OrphanFails(l, p) \/ AssignFails(l, p)
      BY <2>1, <2>4, <3>0, <3>3, OrphanFailsEffect, AssignFailsEffect
    <3>4. CASE Try(l, p) \/ Retry(l, p)
      <4>1. /\ Coming' = Coming /\ job[l][q].at \in {"try", "retry"}
            /\ \/ Parked(l, q) \/ \E n \in Nodes : PlacedAt(l, q, n)
               \/ UNCHANGED <<pending, book>>
        BY <2>1, <2>4, <3>4, TryEffect
      <4>2. CASE Parked(l, q)
        <5>1. At(q, {"assign", "drop"})' /\ book' = book
          BY <4>2 DEF Parked, At
        <5> QED
          BY <3>0, <4>1, <5>1 DEF Forgotten, Placed
      <4>3. ASSUME NEW n \in Nodes, PlacedAt(l, q, n) PROVE Forgotten(q)'
        <5>1. pending' = pending \ {q} /\ book'.placed[q] # NoNode
          BY <4>3 DEF PlacedAt
        <5>2. stream["pods"] = "open"
          BY <2>2, OpenAtWork
        <5>3. Coming = podFeed
          BY <5>2 DEF Coming
        <5>4. About(Coming, q)
          <6>1. CASE book' = book
            BY <3>0, <5>1, <6>1 DEF Forgotten, Placed
          <6>2. CASE book' # book
            BY <3>0, <5>1, <5>3, <6>2 DEF BookedTooLate, About
          <6> QED
            BY <6>1, <6>2
        <5> QED
          BY <1>d, <4>1, <5>4
      <4>4. CASE UNCHANGED <<pending, book>>
        <5>1. At(q, {"assign", "drop"}) => At(q, {"assign", "drop"})'
          BY <3>0, <4>1, OtherJobKept
        <5> QED
          BY <3>0, <4>1, <4>4, <5>1 DEF Forgotten, Placed
      <4> QED
        BY <4>1, <4>2, <4>3, <4>4
    <3>5. CASE NotFound(l, p)
      <4>1. job'[l][q] = [at |-> "drop"] /\ UNCHANGED <<pending, book>> /\ Coming' = Coming
        BY <2>1, <2>4, <3>5, NotFoundEffect
      <4>2. At(q, {"assign", "drop"})'
        BY <4>1 DEF At
      <4> QED
        BY <3>0, <4>1, <4>2 DEF Forgotten, Placed
    <3>6. CASE DropPending(l, p)
      <4>1. Coming' = Coming /\ pending' = pending \ {q} /\ book' = book
        BY <2>1, <2>4, <3>6, DropEffect
      <4> QED
        BY <3>0, <4>1 DEF Forgotten, Placed
    <3> QED
      BY <2>1, <3>1, <3>2, <3>3, <3>4, <3>5, <3>6
  <2> QED
    BY <2>3, <2>4
<1>11. CASE Linked
  BY <1>11, <1>c, LinkEffect DEF Linked
<1>12. CASE LateAssign
  <2>1. PICK p \in Pods :
           /\ life[p] = "live" /\ life' = life
           /\ \A r \in Pods : r # p => Unmoved(r)
    BY <1>12, LateEffect
  <2> QED
    BY <1>c, <2>1
<1> QED
  BY <1>a, <1>1, <1>2, <1>3, <1>4, <1>5, <1>6, <1>7, <1>8, <1>9, <1>10, <1>11, <1>12, NextCases

-----------------------------------------------------------------------------
(* The invariant of the reconnections.                                     *)
NewsInv == RIInv /\ Ground /\ Following /\ Tracking /\ Forgetting

LEMMA RIStep ==
  ASSUME RIInv, [RNext]_allVars
  PROVE  RIInv'
<1>1. CASE UNCHANGED allVars
  <2>1. IInv'
    BY <1>1, BookUnchanged
    DEF allVars, vars, apiVars, stateVars, taskVars, RIInv, IInv, TypeOK
  <2>2. Links'
    BY <1>1, LinksKept DEF allVars, RIInv, Links
  <2> QED
    BY <2>1, <2>2 DEF RIInv
<1> QED
  BY <1>1, SchedulerStepInv, RestartInv, ListInv, SubscribeInv, LateAssignInv
  DEF RNext, Reconnect

LEMMA NewsInit == RInit => NewsInv
<1> SUFFICES ASSUME RInit PROVE NewsInv
  OBVIOUS
<1>1. RIInv
  BY RInitInv
<1>2. Coming = <<>> /\ stream["pods"] = "open" /\ \A l \in Loops : listed[l] = <<>>
  BY DEF RInit, Init, Coming, Loops
<1>3. DOMAIN Coming = {}
  BY <1>2
<1>4. (\A p : ~About(Coming, p) /\ ~Deletes(Coming, p)) /\ DeletedLast(Coming) /\ AddedOnce(Coming)
  BY <1>3, NoEvents
<1>5. /\ \A p \in Pods : life[p] = "new" /\ assigned[p] = NoNode /\ book.placed[p] = NoNode
      /\ pending = {} /\ todo = {} /\ \A l \in Loops, p \in Pods : job[l][p] = NoJob
      /\ \A l \in Loops : loop[l] = IdleLoop
  BY DEF RInit, Init
<1>6. \A p, n : ~Recording(p, n)
  BY <1>5, NotRecording DEF Loops
<1>7. Blank /\ BusyLoops
  BY <1>2, <1>5 DEF Blank, BusyLoops, NoJobs
<1>8. Unborn
  BY <1>4, <1>5, <1>6 DEF Unborn, Quiet
<1>9. Buried
  BY <1>4 DEF Buried
<1>10. Following /\ Tracking /\ Forgetting
  BY <1>5 DEF Following, Tracking, Forgetting, WithNode, Live
<1> QED
  BY <1>1, <1>4, <1>7, <1>8, <1>9, <1>10 DEF NewsInv, Ground

LEMMA NewsStutter ==
  ASSUME NewsInv, UNCHANGED allVars
  PROVE  NewsInv'
<1> USE DEF allVars, vars, apiVars, stateVars, taskVars, linkVars
<1>1. RIInv'
  BY RIStep DEF NewsInv
<1>2. Coming' = Coming
  BY DEF Coming
<1>3. Ground'
  BY <1>2 DEF NewsInv, Ground, Blank, NoWork, BusyLoops, NoJobs, Unborn, Quiet, Recording, Buried
<1>4. (Synced' <=> Synced) /\ (Tame' <=> Tame)
  BY DEF Synced, Tame
<1>5. \A p \in Pods : Follows(p) => Follows(p)'
  BY <1>2 DEF Follows, Recording
<1>6. Following'
  BY <1>4, <1>5 DEF NewsInv, Following
<1>7. Tracking'
  BY <1>2, <1>4 DEF NewsInv, Tracking, Tracked, WithNode, Live, Recording, At
<1>8. Forgetting'
  BY <1>2, <1>4 DEF NewsInv, Forgetting, Forgotten, Placed, At
<1> QED
  BY <1>1, <1>3, <1>6, <1>7, <1>8 DEF NewsInv

(* The scheduler's news lead from what it holds of a pod to what is stored *)
(* of it, through restarts, snapshots and late requests.                   *)
THEOREM NewsInvariant == RSpec => []NewsInv
<1>1. NewsInv /\ [RNext]_allVars => NewsInv'
  BY RIStep, GroundStep, FollowingStep, TrackingStep, ForgettingStep, NewsStutter DEF NewsInv
<1> QED
  BY <1>1, NewsInit, PTL DEF RSpec

LEMMA AtRestNothingMoves ==
  ASSUME RAtRest, "gap" \notin blemish
  PROVE  /\ Synced /\ Coming = <<>> /\ todo = {} /\ \A p : ~About(Coming, p)
         /\ \A p \in Pods : \A places : "none" \notin places => ~At(p, places)
         /\ \A p, n : ~Recording(p, n)
<1>1. /\ stream["pods"] = "open" /\ podFeed = <<>> /\ todo = {} /\ loop["pods"] = IdleLoop
      /\ \A l \in Loops, p \in Pods : job[l][p] = NoJob
  BY DEF RAtRest, AtRest, Connected, Free, NoJobs, Loops
<1>2. Coming = <<>> /\ DOMAIN Coming = {}
  BY <1>1 DEF Coming
<1>3. \A p : ~About(Coming, p)
  BY <1>2, NoEvents
<1>4. \A p, n : ~Recording(p, n)
  BY <1>1, NotRecording
<1>5. \A p \in Pods : \A places : "none" \notin places => ~At(p, places)
  BY <1>1 DEF At, NoJob
<1> QED
  BY <1>1, <1>2, <1>3, <1>4, <1>5 DEF Synced

(* Every stored placement is counted once the scheduler is at rest, through *)
(* restarts, snapshots and requests that arrive late.                      *)
THEOREM StoredAreCounted == RSpec => []StoredPlacementsAreCounted
<1>1. NewsInv => StoredPlacementsAreCounted
  <2> SUFFICES ASSUME NewsInv, RAtRest, "gap" \notin blemish, "fault" \notin blemish, NEW p \in WithNode
               PROVE  book.placed[p] = assigned[p]
    BY DEF StoredPlacementsAreCounted
  <2>1. Tracked(p) /\ p \in Pods
    BY AtRestNothingMoves DEF NewsInv, Tracking, Tame, WithNode, Live
  <2> QED
    BY <2>1, AtRestNothingMoves DEF Tracked
<1> QED
  BY <1>1, NewsInvariant, PTL

(* Nothing is held at rest of a pod that was removed meanwhile.            *)
THEOREM RemovedAreForgotten == RSpec => []RemovedThroughRestarts
<1>1. NewsInv => RemovedThroughRestarts
  <2> SUFFICES ASSUME NewsInv, RAtRest, "gap" \notin blemish, "fault" \notin blemish,
                      NEW p \in Pods, life[p] = "gone", p \notin blemish
               PROVE  ~Placed(p) /\ p \notin pending
    BY DEF RemovedThroughRestarts
  <2>1. Forgotten(p)
    BY AtRestNothingMoves DEF NewsInv, Forgetting, Tame
  <2> QED
    BY <2>1, AtRestNothingMoves DEF Forgotten
<1> QED
  BY <1>1, NewsInvariant, PTL
-----------------------------------------------------------------------------

(* What the watch of the nodes has still to deliver.                       *)
ComingNodes == IF stream["nodes"] = "open" THEN nodeFeed ELSE listed["nodes"]

Warned(s, n) == \E i \in DOMAIN s : s[i].node = n /\ s[i].status = "NOT_READY"
(* A node is unusable, or the scheduler has heard so or is about to.       *)
Bad(n) ==
  \/ status[n] # "READY" \/ view[n] = "NOT_READY"
  \/ Warned(ComingNodes, n)
  \/ loop["nodes"] = [at |-> "evict", node |-> n]

(* News that a node is ready are true and not taken back.                  *)
ReadyNews(s, st) ==
  \A i \in DOMAIN s : s[i].status = "READY" =>
    /\ st[s[i].node] = "READY"
    /\ \A j \in DOMAIN s : j > i /\ s[j].node = s[i].node => s[j].status = "READY"

Uses(p, n) ==
  \/ book.placed[p] = n \/ assigned[p] = n \/ Recording(p, n) \/ Assigning(p, n)
  \/ [pod |-> p, node |-> n] \in late \/ Mentions(Coming, p, n)
Used(n) == \E p \in Pods : Uses(p, n)

NodesGood ==
  losses = 0 =>
    /\ ReadyNews(ComingNodes, status)
    /\ \A n \in Nodes : view[n] = "READY" \/ Used(n) => ~Bad(n)
    /\ todo = {} /\ \A p \in Pods : ~At(p, {"orphan"})

LEMMA ComingNodesType ==
  ASSUME RIInv
  PROVE  ComingNodes \in Seq(NodeEvents) /\ nodeFeed \in Seq(NodeEvents) /\ listed["nodes"] \in Seq(NodeEvents)
BY DEF RIInv, IInv, TypeOK, Links, ComingNodes

LEMMA AppendNodeIndex ==
  ASSUME NEW s \in Seq(NodeEvents), NEW e \in NodeEvents
  PROVE  /\ DOMAIN Append(s, e) = 1 .. Len(s) + 1 /\ DOMAIN s = 1 .. Len(s) /\ Len(s) \in Nat
         /\ \A i \in DOMAIN s : Append(s, e)[i] = s[i] /\ s[i] \in NodeEvents
         /\ Append(s, e)[Len(s) + 1] = e
OBVIOUS

LEMMA TailNodeIndex ==
  ASSUME NEW s \in Seq(NodeEvents), s # <<>>
  PROVE  /\ Tail(s) \in Seq(NodeEvents) /\ Head(s) \in NodeEvents /\ Head(s) = s[1]
         /\ DOMAIN s = 1 .. Len(s) /\ DOMAIN Tail(s) = 1 .. Len(s) - 1 /\ Len(s) \in Nat \ {0}
         /\ \A i \in DOMAIN Tail(s) : i + 1 \in DOMAIN s /\ s[i + 1] = Tail(s)[i] /\ i \in Nat /\ i + 1 > 1
         /\ \A i \in DOMAIN s : i > 1 => i - 1 \in DOMAIN Tail(s) /\ s[i] = Tail(s)[i - 1]
OBVIOUS

LEMMA AppendNews ==
  ASSUME NEW s \in Seq(NodeEvents), NEW e \in NodeEvents, NEW st, NEW tt, ReadyNews(s, st),
         \A n \in Nodes : st[n] = "READY" => tt[n] = "READY",
         e.status = "READY" => tt[e.node] = "READY",
         e.status # "READY" => st[e.node] # "READY"
  PROVE  /\ ReadyNews(Append(s, e), tt)
         /\ \A n : Warned(Append(s, e), n) => Warned(s, n) \/ (e.node = n /\ e.status = "NOT_READY")
<1> DEFINE t == Append(s, e)
<1>1. /\ DOMAIN t = 1 .. Len(s) + 1 /\ DOMAIN s = 1 .. Len(s) /\ Len(s) \in Nat
      /\ \A i \in DOMAIN s : t[i] = s[i] /\ s[i] \in NodeEvents
      /\ t[Len(s) + 1] = e
  BY AppendNodeIndex
<1> HIDE DEF t
<1>2. ASSUME NEW i \in DOMAIN t, t[i].status = "READY"
      PROVE  /\ tt[t[i].node] = "READY"
             /\ \A j \in DOMAIN t : j > i /\ t[j].node = t[i].node => t[j].status = "READY"
  <2>1. CASE i \in DOMAIN s
    <3>1. s[i].status = "READY" /\ t[i] = s[i] /\ s[i].node \in Nodes
      BY <1>1, <1>2, <2>1 DEF NodeEvents
    <3>2. st[s[i].node] = "READY" /\ \A j \in DOMAIN s : j > i /\ s[j].node = s[i].node => s[j].status = "READY"
      BY <2>1, <3>1 DEF ReadyNews
    <3>3. e.node = s[i].node => e.status = "READY"
      BY <3>2
    <3>4. \A j \in DOMAIN t : j \in DOMAIN s \/ j = Len(s) + 1
      BY <1>1
    <3> QED
      BY <1>1, <3>1, <3>2, <3>3, <3>4
  <2>2. CASE i \notin DOMAIN s
    <3>1. i = Len(s) + 1 /\ \A j \in DOMAIN t : ~(j > i)
      BY <1>1, <2>2
    <3> QED
      BY <1>1, <1>2, <3>1
  <2> QED
    BY <2>1, <2>2
<1>3. \A n : Warned(t, n) => Warned(s, n) \/ (e.node = n /\ e.status = "NOT_READY")
  BY <1>1 DEF Warned
<1>4. ReadyNews(t, tt)
  BY <1>2 DEF ReadyNews
<1> QED
  BY <1>3, <1>4 DEF t

LEMMA TailNews ==
  ASSUME NEW s \in Seq(NodeEvents), s # <<>>, NEW st, ReadyNews(s, st)
  PROVE  /\ ReadyNews(Tail(s), st)
         /\ \A n : Warned(Tail(s), n) => Warned(s, n)
         /\ Head(s).status = "NOT_READY" => Warned(s, Head(s).node)
         /\ Head(s).status = "READY" => st[Head(s).node] = "READY" /\ ~Warned(Tail(s), Head(s).node)
<1>1. 1 \in DOMAIN s /\ s[1] = Head(s)
      /\ \A i \in DOMAIN Tail(s) : i + 1 \in DOMAIN s /\ s[i + 1] = Tail(s)[i] /\ i \in Nat /\ i + 1 > 1
  BY TailNodeIndex
<1>2. ReadyNews(Tail(s), st)
  <2> SUFFICES ASSUME NEW i \in DOMAIN Tail(s), Tail(s)[i].status = "READY"
               PROVE  /\ st[Tail(s)[i].node] = "READY"
                      /\ \A j \in DOMAIN Tail(s) : j > i /\ Tail(s)[j].node = Tail(s)[i].node => Tail(s)[j].status = "READY"
    BY DEF ReadyNews
  <2>1. st[s[i + 1].node] = "READY"
    BY <1>1 DEF ReadyNews
  <2>2. \A k \in DOMAIN s : k > i + 1 /\ s[k].node = s[i + 1].node => s[k].status = "READY"
    BY <1>1 DEF ReadyNews
  <2>3. ASSUME NEW j \in DOMAIN Tail(s), j > i, Tail(s)[j].node = Tail(s)[i].node
        PROVE  Tail(s)[j].status = "READY"
    <3>1. j + 1 \in DOMAIN s /\ j + 1 > i + 1
      BY <1>1, <2>3
    <3> QED
      BY <1>1, <2>2, <2>3, <3>1
  <2> QED
    BY <1>1, <2>1, <2>3
<1>3. \A n : Warned(Tail(s), n) => Warned(s, n)
  BY <1>1 DEF Warned
<1>4. Head(s).status = "NOT_READY" => Warned(s, Head(s).node)
  BY <1>1 DEF Warned
<1>5. ASSUME Head(s).status = "READY" PROVE st[Head(s).node] = "READY" /\ ~Warned(Tail(s), Head(s).node)
  <2>1. st[s[1].node] = "READY" /\ \A j \in DOMAIN s : j > 1 /\ s[j].node = s[1].node => s[j].status = "READY"
    BY <1>1, <1>5 DEF ReadyNews
  <2>2. ASSUME NEW i \in DOMAIN Tail(s), Tail(s)[i].node = Head(s).node PROVE Tail(s)[i].status = "READY"
    BY <1>1, <2>1, <2>2
  <2> QED
    BY <1>1, <2>1, <2>2 DEF Warned
<1> QED
  BY <1>2, <1>3, <1>4, <1>5

LEMMA NodeSnapshotTells ==
  ASSUME RIInv, NEW s \in NodeSnapshots
  PROVE  /\ ReadyNews(s, status)
         /\ \A n : Warned(s, n) => status[n] = "NOT_READY"
<1> DEFINE seen == {n \in Nodes : status[n] # "UNSEEN"}
<1>1. PICK o \in SetToSeqs(seen) : s = [i \in DOMAIN o |-> NodeEvent(o[i], status[o[i]])]
  BY DEF NodeSnapshots
<1>2. IsFiniteSet(seen)
  BY NodesFinite, FS_Subset
<1>3. o \in Seq(seen) /\ \A i, j \in DOMAIN o : o[i] = o[j] => i = j
  BY <1>2, SetToSeqsIsInjective
<1>4. DOMAIN s = DOMAIN o /\ \A i \in DOMAIN o : s[i].node = o[i] /\ s[i].status = status[o[i]]
  BY <1>1 DEF NodeEvent
<1>5. DOMAIN o = 1 .. Len(o) /\ Len(o) \in Nat
  BY <1>3
<1>6. \A i, j \in DOMAIN s : j > i => s[j].node # s[i].node
  BY <1>3, <1>4, <1>5
<1>7. ReadyNews(s, status)
  BY <1>4, <1>6 DEF ReadyNews
<1>8. \A n : Warned(s, n) => status[n] = "NOT_READY"
  BY <1>4 DEF Warned
<1> QED
  BY <1>7, <1>8

LEMMA NoNodeNews ==
  ASSUME NEW s, DOMAIN s = {}, NEW st
  PROVE  ReadyNews(s, st) /\ \A n : ~Warned(s, n)
BY DEF ReadyNews, Warned
-----------------------------------------------------------------------------

(* What a step leaves of the nodes: what is told of them and known of them. *)
NodesUntouched ==
  /\ losses' = losses /\ status' = status /\ view' = view /\ ComingNodes' = ComingNodes
  /\ loop'["nodes"] \in {loop["nodes"], IdleLoop}

LEMMA UntouchedIsGood ==
  ASSUME RIInv, NodesUntouched
  PROVE  /\ ReadyNews(ComingNodes, status) => ReadyNews(ComingNodes', status')
         /\ \A n \in Nodes : Bad(n)' => Bad(n)
<1>1. \A n : IdleLoop # [at |-> "evict", node |-> n]
  BY DEF IdleLoop
<1>2. \A n : Warned(ComingNodes, n)' <=> Warned(ComingNodes, n)
  BY DEF NodesUntouched, Warned
<1>3. \A n \in Nodes : Bad(n)' => Bad(n)
  BY <1>1, <1>2 DEF NodesUntouched, Bad
<1> QED
  BY <1>3 DEF NodesUntouched

LEMMA StepsLeaveNodes ==
  ASSUME RIInv, Blank,
         \/ PodCreated \/ PodDeleted \/ (Evict /\ Within) \/ Swept \/ OrphanTaken
         \/ Taken(TakeRemoval) \/ Taken(TakePlacement) \/ Taken(RecordPlacement) \/ Taken(TakeUnplaced)
         \/ Worked \/ List("pods") \/ Subscribe("pods") \/ LateAssign
  PROVE  NodesUntouched
<1>1. CASE PodCreated \/ PodDeleted \/ LateAssign
  <2>1. UNCHANGED <<losses, status, view, nodeFeed, loop, stream, listed>>
    BY <1>1 DEF PodCreated, PodDeleted, CreatePod, DeletePod, LateAssign, Within, linkVars, stateVars, taskVars
  <2> QED
    BY <2>1 DEF NodesUntouched, ComingNodes
<1>2. CASE Evict /\ Within
  <2>1. UNCHANGED <<losses, status, view, nodeFeed, stream, listed>>
    BY <1>2 DEF Evict, Within, linkVars, apiVars
  <2>2. loop'["nodes"] = IdleLoop
    BY <1>2, EvictEffect DEF Within
  <2> QED
    BY <2>1, <2>2 DEF NodesUntouched, ComingNodes
<1>3. CASE Swept
  <2>1. PICK l \in Loops : Sweep(l) /\ UNCHANGED linkVars
    BY <1>3 DEF Swept, Within
  <2>2. UNCHANGED <<losses, status, view, nodeFeed, stream, listed>>
    BY <2>1 DEF Sweep, linkVars, apiVars, stateVars
  <2>3. loop'["nodes"] \in {loop["nodes"], IdleLoop}
    BY <2>1, SweepEffect DEF Loops
  <2> QED
    BY <2>2, <2>3 DEF NodesUntouched, ComingNodes
<1>4. CASE OrphanTaken
  BY <1>4 DEF OrphanTaken, NextOrphan, Within, linkVars, apiVars, stateVars, NodesUntouched, ComingNodes
<1>5. CASE Taken(TakeRemoval) \/ Taken(TakePlacement) \/ Taken(RecordPlacement) \/ Taken(TakeUnplaced)
  <2>1. UNCHANGED <<losses, status, view, nodeFeed, stream, listed>>
    BY <1>5 DEF Taken, TakeRemoval, TakePlacement, RecordPlacement, TakeUnplaced, Within, linkVars, apiVars, stateVars
  <2>2. loop'["nodes"] = loop["nodes"]
    <3>1. CASE Taken(TakeRemoval)
      BY <3>1, RemovalEffect DEF Taken, Within
    <3>2. CASE Taken(TakePlacement)
      BY <3>2, PlacementEffect DEF Taken, Within
    <3>3. CASE Taken(RecordPlacement)
      BY <3>3, RecordEffect DEF Taken, Within
    <3>4. CASE Taken(TakeUnplaced)
      BY <3>4, UnplacedEffect DEF Taken, Within
    <3> QED
      BY <1>5, <3>1, <3>2, <3>3, <3>4
  <2> QED
    BY <2>1, <2>2 DEF NodesUntouched, ComingNodes
<1>6. CASE Worked
  <2>1. PICK l \in Loops, p \in Pods : JobStep(l, p) /\ UNCHANGED linkVars
    BY <1>6 DEF Worked, RJobStep
  <2>2. UNCHANGED <<losses, status, view, nodeFeed, loop>>
    BY <2>1 DEF JobStep, Orphan, OrphanGone, OrphanFails, Try, Retry, Assign, NotFound, DropPending, AssignFails,
                apiVars, stateVars
  <2> QED
    BY <2>1, <2>2 DEF NodesUntouched, ComingNodes, linkVars
<1>7. CASE List("pods")
  <2>1. StoreUntouched /\ stream'["nodes"] = stream["nodes"] /\ listed'["nodes"] = listed["nodes"] /\ nodeFeed' = nodeFeed
    BY <1>7, ListPodsEffect
  <2> QED
    BY <2>1 DEF StoreUntouched, stateVars, taskVars, NodesUntouched, ComingNodes
<1>8. CASE Subscribe("pods")
  <2>1. DOMAIN stream = Loops /\ DOMAIN listed = Loops
    BY DEF RIInv, Links
  <2>2. /\ StoreUntouched /\ Deliver("pods", listed["pods"])
        /\ stream' = [stream EXCEPT !["pods"] = "open"] /\ listed' = [listed EXCEPT !["pods"] = <<>>]
    BY <1>8 DEF Subscribe
  <2>3. stream'["nodes"] = stream["nodes"] /\ listed'["nodes"] = listed["nodes"] /\ nodeFeed' = nodeFeed
    BY <2>1, <2>2 DEF Deliver, Loops
  <2> QED
    BY <2>2, <2>3 DEF StoreUntouched, stateVars, taskVars, NodesUntouched, ComingNodes
<1> QED
  BY <1>1, <1>2, <1>3, <1>4, <1>5, <1>6, <1>7, <1>8

-----------------------------------------------------------------------------
(* Only a decision to place a pod uses a node that was not used.           *)
LEMMA UnmovedUses ==
  ASSUME NEW q \in Pods, Unmoved(q), late' = late, NEW n \in Nodes, Uses(q, n)'
  PROVE  Uses(q, n)
<1>1. Mentions(Coming', q, n) <=> Mentions(Coming, q, n)
  BY DEF Unmoved, NewsKept, SameNews
<1>2. Assigning(q, n)' <=> Assigning(q, n)
  BY DEF Unmoved, MindKept, Assigning
<1>3. Recording(q, n)' <=> Recording(q, n)
  BY DEF Unmoved, MindKept
<1>4. book'.placed[q] = book.placed[q] /\ assigned'[q] = assigned[q]
  BY DEF Unmoved, MindKept, StoreKept
<1> QED
  BY <1>1, <1>2, <1>3, <1>4 DEF Uses

LEMMA UsesBy ==
  ASSUME NEW p \in Pods, late' = late, \A q \in Pods : q # p => Unmoved(q),
         NEW n \in Nodes, Uses(p, n)' => Uses(p, n), Used(n)'
  PROVE  Used(n)
BY UnmovedUses DEF Used
-----------------------------------------------------------------------------

LEMMA PostedMentions ==
  ASSUME RIInv, NEW e \in PodEvents, Posted(e), NEW q, NEW n, Mentions(Coming', q, n)
  PROVE  Mentions(Coming, q, n) \/ Mention(e, q, n)
<1>1. CASE stream["pods"] = "open"
  <2>1. Coming' = Append(Coming, e) /\ Coming \in Seq(PodEvents)
    BY <1>1, ComingType DEF Posted
  <2> QED
    BY <2>1, AppendMentions
<1>2. CASE stream["pods"] # "open"
  BY <1>2 DEF Posted
<1> QED
  BY <1>1, <1>2

(* What loop m asks for is what some loop asks for.                        *)
LEMMA JobKeepsAssigning ==
  ASSUME NEW l \in Loops, NEW p \in Pods, JobKeeps(l, p), NEW n
  PROVE  Assigning(p, n)' => Assigning(p, n) \/ job'[l][p] = [at |-> "assign", node |-> n]
<1>1. \A m \in Loops : m # l => job'[m][p] = job[m][p]
  BY DEF JobKeeps
<1> QED
  BY <1>1 DEF Assigning

LEMMA WorkedUses ==
  ASSUME RIInv, Ground, Worked, NEW n \in Nodes, Used(n)'
  PROVE  Used(n) \/ view[n] = "READY"
<1>1. PICK l \in Loops, p \in Pods :
         /\ \/ Orphan(l, p) \/ OrphanGone(l, p) \/ OrphanFails(l, p)
            \/ (Try(l, p) \/ Retry(l, p))
            \/ Assign(l, p) \/ NotFound(l, p) \/ DropPending(l, p) \/ AssignFails(l, p)
         /\ UNCHANGED linkVars
  BY WorkCases
<1>2. JobKeeps(l, p) /\ late' = late
  BY <1>1, JobKept DEF linkVars
<1>3. \A q \in Pods : q # p => Unmoved(q)
  BY <1>2 DEF JobKeeps
<1>4. Recording(p, n)' <=> Recording(p, n)
  BY <1>2, LoopKept DEF JobKeeps
<1>5. Assigning(p, n)' => Assigning(p, n) \/ job'[l][p] = [at |-> "assign", node |-> n]
  BY <1>2, JobKeepsAssigning
<1>6. (Uses(p, n)' => Uses(p, n) \/ view[n] = "READY") => Used(n) \/ view[n] = "READY"
  BY <1>2, <1>3, UsesBy
<1>7. n # NoNode
  BY NoNodeIsNoNode
<1>8. ASSUME Uses(p, n)' PROVE Uses(p, n) \/ view[n] = "READY"
  <2>0. \A s : s.at # "assign" => s # [at |-> "assign", node |-> n]
    OBVIOUS
  <2>1. CASE Orphan(l, p)
    <3>1. PICK e : e = PodEvent("MODIFIED", p, NoNode)
      OBVIOUS
    <3>2. e \in PodEvents /\ ~Mention(e, p, n)
      BY <1>7, <3>1, EventTypes DEF MaybeNodes, PodEvent, Mention
    <3>3. Posted(e) /\ assigned'[p] = NoNode /\ book' = book /\ job'[l][p].at # "assign"
      BY <1>1, <2>1, <3>1, OrphanEffect
    <3>4. Mentions(Coming', p, n) => Mentions(Coming, p, n)
      BY <3>2, <3>3, PostedMentions
    <3> QED
      BY <1>2, <1>4, <1>5, <1>7, <1>8, <2>0, <3>3, <3>4 DEF Uses
  <2>2. CASE OrphanGone(l, p) \/ OrphanFails(l, p) \/ NotFound(l, p) \/ AssignFails(l, p) \/ DropPending(l, p)
    <3>1. StoreKept(p) /\ book' = book /\ Coming' = Coming /\ job'[l][p].at # "assign"
      BY <1>1, <2>2, OrphanGoneEffect, OrphanFailsEffect, NotFoundEffect, AssignFailsEffect, DropEffect DEF NoJob
    <3> QED
      BY <1>2, <1>4, <1>5, <1>8, <2>0, <3>1 DEF Uses, StoreKept
  <2>3. CASE Try(l, p) \/ Retry(l, p)
    <3>1. /\ StoreKept(p) /\ Coming' = Coming
          /\ \/ Parked(l, p) \/ \E m \in Nodes : PlacedAt(l, p, m)
             \/ job'[l][p] = NoJob /\ book' = book
      BY <1>1, <2>3, TryEffect
    <3>2. CASE Parked(l, p)
      <4>1. book' = book /\ job'[l][p] = [at |-> "assign", node |-> NoNode]
        BY <3>2 DEF Parked
      <4>2. job'[l][p] # [at |-> "assign", node |-> n]
        BY <1>7, <4>1
      <4> QED
        BY <1>2, <1>4, <1>5, <1>8, <3>1, <4>1, <4>2 DEF Uses, StoreKept
    <3>3. ASSUME NEW m \in Nodes, PlacedAt(l, p, m) PROVE Uses(p, n) \/ view[n] = "READY"
      <4>1. view[m] = "READY" /\ book'.placed[p] = m /\ job'[l][p] = [at |-> "assign", node |-> m]
        BY <3>3 DEF PlacedAt, Elected, Candidates
      <4>2. m # n => job'[l][p] # [at |-> "assign", node |-> n]
        BY <4>1
      <4> QED
        BY <1>2, <1>4, <1>5, <1>8, <3>1, <4>1, <4>2 DEF Uses, StoreKept
    <3>4. CASE job'[l][p] = NoJob /\ book' = book
      <4>1. job'[l][p] # [at |-> "assign", node |-> n]
        BY <3>4 DEF NoJob
      <4> QED
        BY <1>2, <1>4, <1>5, <1>8, <3>1, <3>4, <4>1 DEF Uses, StoreKept
    <3> QED
      BY <3>1, <3>2, <3>3, <3>4
  <2>4. CASE Assign(l, p)
    <3>1. PICK m \in MaybeNodes :
             /\ job[l][p] = [at |-> "assign", node |-> m] /\ job'[l][p] = NoJob
             /\ assigned'[p] = m /\ book' = book
             /\ AssignedEvent(p, m) \in PodEvents /\ Posted(AssignedEvent(p, m))
      BY <1>1, <2>4, AssignEffect
    <3>2. Mentions(Coming', p, n) => Mentions(Coming, p, n) \/ m = n
      BY <3>1, PostedMentions DEF Mention, AssignedEvent, PodEvent
    <3>3. Assigning(p, m) /\ job'[l][p] # [at |-> "assign", node |-> n]
      BY <3>1 DEF Assigning, NoJob
    <3> QED
      BY <1>2, <1>4, <1>5, <1>8, <3>1, <3>2, <3>3 DEF Uses
  <2> QED
    BY <1>1, <2>1, <2>2, <2>3, <2>4
<1> QED
  BY <1>6, <1>8
-----------------------------------------------------------------------------

(* The steps that are not of a job use no node they did not use before.    *)
LEMMA OtherUses ==
  ASSUME RIInv, Ground, RNext, ~Worked,
         NEW n \in Nodes, Used(n)'
  PROVE  Used(n)
<1> USE DEF Ground
<1>0. n # NoNode
  BY NoNodeIsNoNode
<1>1. CASE PodCreated
  <2>1. PICK p \in Pods : CreatePod(p) /\ UNCHANGED linkVars
    BY <1>1 DEF PodCreated, Within
  <2>2. PICK e : e = PodEvent("ADDED", p, NoNode)
    OBVIOUS
  <2>3. e \in PodEvents /\ ~Mention(e, p, n)
    BY <1>0, <2>2, EventTypes DEF MaybeNodes, PodEvent, Mention
  <2>4. Posted(e) /\ assigned'[p] = assigned[p] /\ MindKept(p) /\ late' = late
        /\ \A q \in Pods : q # p => Unmoved(q)
    BY <2>1, <2>2, CreateEffect DEF linkVars
  <2>5. Mentions(Coming', p, n) => Mentions(Coming, p, n)
    BY <2>3, <2>4, PostedMentions
  <2>6. Assigning(p, n)' <=> Assigning(p, n)
    BY <2>4 DEF MindKept, Assigning
  <2>7. Uses(p, n)' => Uses(p, n)
    BY <2>4, <2>5, <2>6 DEF Uses, MindKept
  <2> QED
    BY <2>4, <2>7, UsesBy
<1>2. CASE PodDeleted
  <2>1. PICK p \in Pods : DeletePod(p) /\ UNCHANGED linkVars
    BY <1>2 DEF PodDeleted, Within
  <2>2. PICK e : e = PodEvent("DELETED", p, assigned[p])
    OBVIOUS
  <2>3. e \in PodEvents /\ ~Mention(e, p, n)
    BY <2>1, <2>2, DeleteEffect DEF PodEvent, Mention
  <2>4. Posted(e) /\ assigned'[p] = assigned[p] /\ MindKept(p) /\ late' = late
        /\ \A q \in Pods : q # p => Unmoved(q)
    BY <2>1, <2>2, DeleteEffect DEF linkVars
  <2>5. Mentions(Coming', p, n) => Mentions(Coming, p, n)
    BY <2>3, <2>4, PostedMentions
  <2>6. Assigning(p, n)' <=> Assigning(p, n)
    BY <2>4 DEF MindKept, Assigning
  <2>7. Uses(p, n)' => Uses(p, n)
    BY <2>4, <2>5, <2>6 DEF Uses, MindKept
  <2> QED
    BY <2>4, <2>7, UsesBy
<1>3. CASE NodeNews \/ Linked
  <2>1. late' = late /\ \A q \in Pods : Unmoved(q)
    BY <1>3, NodeEffect, LinkEffect DEF NodeNews, Within, Linked, linkVars
  <2> QED
    BY <2>1, UnmovedUses DEF Used
<1>4. CASE Evict /\ Within
  <2>1. /\ UNCHANGED <<assigned, job>> /\ late' = late
        /\ loop'["pods"] = loop["pods"] /\ Coming' = Coming
        /\ \A q \in Pods : book'.placed[q] = IF q \in todo' THEN NoNode ELSE book.placed[q]
    BY <1>4, EvictEffect DEF Within, linkVars
  <2>2. \A q \in Pods : Uses(q, n)' => Uses(q, n)
    BY <1>0, <2>1 DEF Uses, Recording, Assigning
  <2> QED
    BY <2>2 DEF Used
<1>5. CASE Swept
  <2>1. PICK l \in Loops : Sweep(l) /\ UNCHANGED linkVars
    BY <1>5 DEF Swept, Within
  <2>2. /\ UNCHANGED <<assigned, book, late>>
        /\ \A q \in Pods : job'[l][q] = IF q \in pending THEN [at |-> "retry"] ELSE NoJob
        /\ \A m \in Loops, q \in Pods : m # l => job'[m][q] = job[m][q]
        /\ Coming' = Coming
        /\ \A q : Recording(q, n)' <=> Recording(q, n)
    BY <2>1, SweepEffect DEF linkVars
  <2>3. \A q \in Pods : job'[l][q] # [at |-> "assign", node |-> n]
    BY <2>2 DEF NoJob
  <2>4. \A q \in Pods : Assigning(q, n)' => Assigning(q, n)
    BY <2>2, <2>3 DEF Assigning
  <2>5. \A q \in Pods : Uses(q, n)' => Uses(q, n)
    BY <2>2, <2>4 DEF Uses
  <2> QED
    BY <2>5 DEF Used
<1>6. CASE OrphanTaken
  <2>1. PICK p \in Pods : NextOrphan(p) /\ UNCHANGED linkVars
    BY <1>6 DEF OrphanTaken, Within
  <2>2. /\ UNCHANGED <<assigned, book, loop, late>> /\ Coming' = Coming
        /\ job'["nodes"][p] = [at |-> "orphan"] /\ job'["pods"][p] = job["pods"][p]
        /\ \A q \in Pods : q # p => Unmoved(q)
    BY <2>1, NextOrphanEffect DEF linkVars
  <2>3. Assigning(p, n)' => Assigning(p, n)
    BY <2>2 DEF Assigning, Loops
  <2>4. Uses(p, n)' => Uses(p, n)
    BY <2>2, <2>3 DEF Uses, Recording
  <2> QED
    BY <2>2, <2>4, UsesBy
<1>7. CASE Taken(TakeRemoval)
  <2>1. PICK e : e = Head(Coming)
    OBVIOUS
  <2>2. /\ Coming \in Seq(PodEvents) /\ Coming # <<>> /\ Coming' = Tail(Coming) /\ e \in PodEvents
        /\ UNCHANGED <<assigned, job>> /\ late' = late /\ book'.placed[e.pod] = NoNode
        /\ ~Recording(e.pod, n)'
        /\ \A q \in Pods : q # e.pod => Unmoved(q)
    BY <1>7, <2>1, RemovalEffect DEF Taken, Within, linkVars
  <2>3. Mentions(Coming', e.pod, n) => Mentions(Coming, e.pod, n)
    BY <2>2, TailMentions
  <2>4. Uses(e.pod, n)' => Uses(e.pod, n)
    BY <1>0, <2>2, <2>3 DEF Uses, Assigning
  <2>5. e.pod \in Pods
    BY <2>2 DEF PodEvents
  <2> QED
    BY <2>2, <2>4, <2>5, UsesBy
<1>8. CASE Taken(TakePlacement)
  <2>1. PICK e : e = Head(Coming)
    OBVIOUS
  <2>2. /\ Coming \in Seq(PodEvents) /\ Coming # <<>> /\ Coming' = Tail(Coming) /\ e \in PodEvents
        /\ e.kind # "DELETED"
        /\ UNCHANGED <<assigned, book>> /\ late' = late
        /\ job'["nodes"][e.pod] = job["nodes"][e.pod]
        /\ job'["pods"][e.pod] = [at |-> "orphan"] \/ job' = job
        /\ Recording(e.pod, n)' => n = e.node
        /\ \A q \in Pods : q # e.pod => Unmoved(q)
    BY <1>8, <2>1, PlacementEffect DEF Taken, Within, linkVars
  <2>3. (Mentions(Coming', e.pod, n) => Mentions(Coming, e.pod, n))
        /\ (n = e.node => Mentions(Coming, e.pod, n))
    BY <2>1, <2>2, TailMentions DEF Mention
  <2>4. Assigning(e.pod, n)' => Assigning(e.pod, n)
    BY <2>2 DEF Assigning, Loops
  <2>5. Uses(e.pod, n)' => Uses(e.pod, n)
    BY <2>2, <2>3, <2>4 DEF Uses
  <2>6. e.pod \in Pods
    BY <2>2 DEF PodEvents
  <2> QED
    BY <2>2, <2>5, <2>6, UsesBy
<1>9. CASE Taken(RecordPlacement)
  <2>1. PICK p \in Pods, m \in Nodes :
           /\ Recording(p, m) /\ ~Recording(p, n)' /\ UNCHANGED <<assigned, job>> /\ late' = late
           /\ Coming' = Coming /\ book'.placed[p] = m
           /\ \A r \in Pods : r # p => Unmoved(r)
    BY <1>9, RecordEffect DEF Taken, Within, linkVars
  <2>2. Uses(p, n)' => Uses(p, n)
    BY <2>1 DEF Uses, Assigning
  <2> QED
    BY <2>1, <2>2, UsesBy
<1>10. CASE Taken(TakeUnplaced)
  <2>1. PICK e : e = Head(Coming)
    OBVIOUS
  <2>2. /\ Coming \in Seq(PodEvents) /\ Coming # <<>> /\ Coming' = Tail(Coming) /\ e \in PodEvents
        /\ UNCHANGED <<assigned, book>> /\ late' = late /\ ~Recording(e.pod, n)'
        /\ job'["nodes"][e.pod] = job["nodes"][e.pod]
        /\ job'["pods"][e.pod] = IF e.kind = "ADDED" THEN [at |-> "try"] ELSE NoJob
        /\ \A q \in Pods : q # e.pod => Unmoved(q)
    BY <1>10, <2>1, UnplacedEffect DEF Taken, Within, linkVars
  <2>3. Mentions(Coming', e.pod, n) => Mentions(Coming, e.pod, n)
    BY <2>2, TailMentions
  <2>4. Assigning(e.pod, n)' => Assigning(e.pod, n)
    BY <2>2 DEF Assigning, Loops, NoJob
  <2>5. Uses(e.pod, n)' => Uses(e.pod, n)
    BY <2>2, <2>3, <2>4 DEF Uses
  <2>6. e.pod \in Pods
    BY <2>2 DEF PodEvents
  <2> QED
    BY <2>2, <2>5, <2>6, UsesBy
<1>11. CASE List("pods")
  <2>1. PICK s \in PodSnapshots : Coming' = s
    BY <1>11, ListPodsEffect
  <2>2. (\A q \in Pods : StoreKept(q) /\ MindKept(q)) /\ late' = late /\ assigned' = assigned
    BY <1>11, ListPodsEffect DEF StoreUntouched
  <2>3. \A q \in Pods : Mentions(Coming', q, n) => assigned[q] = n
    BY <2>1, SnapshotTells DEF RIInv, IInv
  <2>4. \A q \in Pods : Assigning(q, n)' <=> Assigning(q, n)
    BY <2>2 DEF MindKept, Assigning
  <2>5. \A q \in Pods : Uses(q, n)' => Uses(q, n)
    BY <2>2, <2>3, <2>4 DEF Uses, MindKept
  <2> QED
    BY <2>5 DEF Used
<1>12. CASE Restart
  <2>1. /\ Coming' = <<>> /\ assigned' = assigned
        /\ \A l \in Loops, q \in Pods : job'[l][q] = NoJob
        /\ \A q \in Pods : book'.placed[q] = NoNode
        /\ \A q : ~Recording(q, n)'
        /\ late' = late \cup Outstanding
    BY <1>12, RestartEffect
  <2>2. \A q : ~Mentions(Coming', q, n)
    <3>1. DOMAIN Coming' = {}
      BY <2>1
    <3> QED
      BY <3>1, NoEvents
  <2>3. \A q \in Pods : ~Assigning(q, n)'
    BY <2>1 DEF Assigning, NoJob
  <2>4. ASSUME NEW q \in Pods, [pod |-> q, node |-> n] \in Outstanding PROVE Assigning(q, n)
    <3>1. PICK l \in Loops, p \in Pods : [pod |-> q, node |-> n] \in RequestsOf(l, p)
      BY <2>4 DEF Outstanding
    <3>2. CASE job[l][p].at = "assign"
      <4>1. [pod |-> q, node |-> n] = [pod |-> p, node |-> job[l][p].node]
        BY <3>1, <3>2 DEF RequestsOf
      <4>2. job[l][q] = [at |-> "assign", node |-> n]
        BY <3>2, <4>1, JobNode
      <4> QED
        BY <4>2 DEF Assigning
    <3>3. CASE job[l][p].at # "assign"
      <4>1. [pod |-> q, node |-> n] = [pod |-> p, node |-> NoNode]
        BY <3>1, <3>3 DEF RequestsOf
      <4> QED
        BY <1>0, <4>1
    <3> QED
      BY <3>2, <3>3
  <2>5. \A q \in Pods : Uses(q, n)' => Uses(q, n)
    BY <1>0, <2>1, <2>2, <2>3, <2>4 DEF Uses
  <2> QED
    BY <2>5 DEF Used
<1>13. CASE LateAssign
  <2>1. PICK p \in Pods, m \in MaybeNodes :
           /\ [pod |-> p, node |-> m] \in late /\ late' \subseteq late
           /\ assigned'[p] = m
           /\ AssignedEvent(p, m) \in PodEvents /\ Posted(AssignedEvent(p, m))
           /\ MindKept(p)
           /\ \A q \in Pods : q # p => Unmoved(q)
    BY <1>13, LateEffect
  <2>2. Mentions(Coming', p, n) => Mentions(Coming, p, n) \/ m = n
    BY <2>1, PostedMentions DEF Mention, AssignedEvent, PodEvent
  <2>3. Assigning(p, n)' <=> Assigning(p, n)
    BY <2>1 DEF MindKept, Assigning
  <2>4. Uses(p, n)' => Uses(p, n)
    BY <2>1, <2>2, <2>3 DEF Uses, MindKept
  <2>5. ASSUME NEW q \in Pods, q # p, Uses(q, n)' PROVE Uses(q, n)
    <3>1. Unmoved(q)
      BY <2>1, <2>5
    <3>2. Mentions(Coming', q, n) <=> Mentions(Coming, q, n)
      BY <3>1 DEF Unmoved, NewsKept, SameNews
    <3>3. Assigning(q, n)' <=> Assigning(q, n)
      BY <3>1 DEF Unmoved, MindKept, Assigning
    <3> QED
      BY <2>1, <2>5, <3>1, <3>2, <3>3 DEF Uses, Unmoved, MindKept, StoreKept
  <2> QED
    BY <2>4, <2>5 DEF Used
<1> QED
  BY <1>1, <1>2, <1>3, <1>4, <1>5, <1>6, <1>7, <1>8, <1>9, <1>10, <1>11, <1>12, <1>13, NextCases
-----------------------------------------------------------------------------

LEMMA NoLossBefore ==
  ASSUME RIInv, Blank, RNext, losses' = 0
  PROVE  losses = 0
BY NextCases, StepsLeaveNodes
DEF NodesUntouched, PodCreated, PodDeleted, NodeNews, NodeRegisters, NodeConnects, NodeIsLost, TakeNodeEvent,
    Linked, List, Subscribe, StoreUntouched, Restart, RIInv, IInv, TypeOK

(* What the scheduler has heard of the nodes, step by step.                *)
NodesBetter ==
  /\ ReadyNews(ComingNodes', status')
  /\ \A n \in Nodes : Bad(n)' => Bad(n)
  /\ \A n \in Nodes : view'[n] = "READY" => view[n] = "READY" \/ ~Bad(n)'

LEMMA EventEffect ==
  ASSUME RIInv, Ground, ReadyNews(ComingNodes, status), stream["nodes"] = "open", TakeNodeEvent, Within
  PROVE  NodesBetter
<1>1. ComingNodes = nodeFeed /\ ComingNodes' = Tail(nodeFeed) /\ nodeFeed # <<>> /\ status' = status
  BY DEF TakeNodeEvent, Within, linkVars, ComingNodes
<1>2. PICK s : s = nodeFeed
  OBVIOUS
<1>3. PICK e : e = Head(nodeFeed)
  OBVIOUS
<1>4. s \in Seq(NodeEvents) /\ e \in NodeEvents
  BY <1>1, <1>2, <1>3, ComingNodesType
<1>5. e.node \in Nodes /\ e.status \in {"NOT_READY", "READY"}
  BY <1>4 DEF NodeEvents
<1>6. /\ ReadyNews(Tail(s), status)
      /\ \A n : Warned(Tail(s), n) => Warned(s, n)
      /\ e.status = "NOT_READY" => Warned(s, e.node)
      /\ e.status = "READY" => status[e.node] = "READY" /\ ~Warned(Tail(s), e.node)
  BY <1>1, <1>2, <1>3, <1>4, TailNews
<1>7. \A n \in Nodes : view'[n] = IF n = e.node THEN e.status ELSE view[n]
  BY <1>3, <1>5 DEF TakeNodeEvent, RIInv, IInv, TypeOK
<1>8. PICK g : Goto("nodes", g) /\ (e.status = "NOT_READY" => g = [at |-> "evict", node |-> e.node])
                                /\ (e.status = "READY" => g = [at |-> "sweep"] \/ g = IdleLoop)
  <2>1. CASE e.status = "NOT_READY"
    BY <1>3, <2>1, Zenon DEF TakeNodeEvent
  <2>2. CASE e.status = "READY"
    <3>1. Goto("nodes", IF ShouldRetry(e) THEN [at |-> "sweep"] ELSE IdleLoop)
      BY <1>3, <2>2 DEF TakeNodeEvent
    <3> QED
      BY <2>2, <3>1
  <2> QED
    BY <1>5, <2>1, <2>2
<1>9. loop'["nodes"] = g
  BY <1>8, GotoLoop DEF Loops
<1>10. \A n : loop'["nodes"] = [at |-> "evict", node |-> n] => n = e.node /\ e.status = "NOT_READY"
  BY <1>5, <1>8, <1>9 DEF IdleLoop
<1>11. \A n : Warned(ComingNodes, n)' <=> Warned(Tail(s), n)
  BY <1>1, <1>2 DEF Warned
<1>12. \A n : Warned(ComingNodes, n) <=> Warned(s, n)
  BY <1>1, <1>2
<1>13. \A n \in Nodes : Bad(n)' => Bad(n)
  BY <1>1, <1>5, <1>6, <1>7, <1>10, <1>11, <1>12 DEF Bad
<1>14. \A n \in Nodes : view'[n] = "READY" => view[n] = "READY" \/ ~Bad(n)'
  <2> SUFFICES ASSUME NEW n \in Nodes, view'[n] = "READY", view[n] # "READY" PROVE ~Bad(n)'
    OBVIOUS
  <2>1. n = e.node /\ e.status = "READY"
    BY <1>7
  <2> QED
    BY <1>1, <1>6, <1>10, <1>11, <2>1 DEF Bad
<1> QED
  BY <1>1, <1>2, <1>6, <1>13, <1>14 DEF NodesBetter

LEMMA NodeUpEffect ==
  ASSUME RIInv, Ground, ReadyNews(ComingNodes, status), NEW n \in Nodes, Within,
         NodeRegisters(n) \/ NodeConnects(n)
  PROVE  NodesBetter
<1>1. PICK e : e = NodeEvent(n, status'[n])
  OBVIOUS
<1>2. /\ status[n] # "READY" /\ status'[n] \in {"NOT_READY", "READY"} /\ view' = view /\ loop' = loop
      /\ status'[n] = "NOT_READY" => status[n] = "UNSEEN"
      /\ \A m \in Nodes : m # n => status'[m] = status[m]
      /\ nodeFeed' = Append(nodeFeed, NodeEvent(n, status'[n])) /\ stream' = stream /\ listed' = listed
  BY DEF NodeRegisters, NodeConnects, Within, linkVars, stateVars, taskVars, RIInv, IInv, TypeOK
<1>3. e \in NodeEvents /\ e.node = n /\ e.status = status'[n]
  BY <1>1, <1>2 DEF NodeEvent, NodeEvents
<1>4. Bad(n) /\ \A m \in Nodes : status[m] = "READY" => status'[m] = "READY"
  BY <1>2 DEF Bad
<1>5. CASE stream["nodes"] = "open"
  <2>1. ComingNodes' = Append(ComingNodes, e) /\ ComingNodes \in Seq(NodeEvents)
    BY <1>1, <1>2, <1>5, ComingNodesType DEF ComingNodes
  <2>2. PICK s : s = ComingNodes
    OBVIOUS
  <2>3. PICK t : t = status'
    OBVIOUS
  <2>4. /\ ReadyNews(Append(s, e), t)
        /\ \A m : Warned(Append(s, e), m) => Warned(s, m) \/ (e.node = m /\ e.status = "NOT_READY")
    BY <1>2, <1>3, <1>4, <2>1, <2>2, <2>3, AppendNews
  <2>5. ReadyNews(ComingNodes', status')
    BY <2>1, <2>2, <2>3, <2>4
  <2>6. \A m : Warned(ComingNodes, m)' => Warned(ComingNodes, m) \/ m = n
    <3>1. \A m : Warned(ComingNodes, m)' <=> Warned(Append(s, e), m)
      BY <2>1, <2>2 DEF Warned
    <3> QED
      BY <1>3, <2>2, <2>4, <3>1
  <2>7. \A m \in Nodes : Bad(m)' => Bad(m)
    BY <1>2, <1>4, <2>6 DEF Bad
  <2> QED
    BY <1>2, <2>5, <2>7 DEF NodesBetter
<1>6. CASE stream["nodes"] # "open"
  <2>1. ComingNodes' = ComingNodes
    BY <1>2, <1>6 DEF ComingNodes
  <2>2. ReadyNews(ComingNodes', status')
    <3>1. ComingNodes \in Seq(NodeEvents)
      BY ComingNodesType
    <3>2. \A i \in DOMAIN ComingNodes : ComingNodes[i].node \in Nodes
      <4>1. \A i \in DOMAIN ComingNodes : ComingNodes[i] \in NodeEvents
        BY <3>1
      <4> QED
        BY <4>1 DEF NodeEvents
    <3> QED
      BY <1>4, <2>1, <3>2 DEF ReadyNews
  <2>3. \A m : Warned(ComingNodes, m)' <=> Warned(ComingNodes, m)
    BY <2>1 DEF Warned
  <2>4. \A m \in Nodes : Bad(m)' => Bad(m)
    BY <1>2, <1>4, <2>3 DEF Bad
  <2> QED
    BY <1>2, <2>2, <2>4 DEF NodesBetter
<1> QED
  BY <1>5, <1>6

LEMMA NodesLinkEffect ==
  ASSUME RIInv, Ground, ReadyNews(ComingNodes, status), List("nodes") \/ Subscribe("nodes")
  PROVE  NodesBetter
<1>0. DOMAIN stream = Loops /\ DOMAIN listed = Loops
  BY DEF RIInv, Links
<1>1. status' = status /\ view' = view /\ loop' = loop
  BY DEF List, Subscribe, StoreUntouched, stateVars, taskVars
<1>2. CASE List("nodes")
  <2>1. PICK s \in NodeSnapshots : listed' = [listed EXCEPT !["nodes"] = s]
    BY <1>2 DEF List, Snapshots
  <2>2. stream'["nodes"] = "listed" /\ ComingNodes' = s
    BY <1>0, <1>2, <2>1 DEF List, Loops, ComingNodes
  <2>3. ReadyNews(s, status) /\ \A n : Warned(s, n) => status[n] = "NOT_READY"
    BY NodeSnapshotTells
  <2>4. \A n : Warned(ComingNodes, n)' => status[n] = "NOT_READY"
    BY <2>2, <2>3 DEF Warned
  <2>5. \A n \in Nodes : Bad(n)' => Bad(n)
    BY <1>1, <2>4 DEF Bad
  <2> QED
    BY <1>1, <2>2, <2>3, <2>5 DEF NodesBetter
<1>3. CASE Subscribe("nodes")
  <2>1. stream["nodes"] = "listed" /\ stream'["nodes"] = "open" /\ nodeFeed' = listed["nodes"]
    BY <1>0, <1>3 DEF Subscribe, Deliver, Loops
  <2>2. ComingNodes' = ComingNodes
    BY <2>1 DEF ComingNodes
  <2>3. \A n : Warned(ComingNodes, n)' <=> Warned(ComingNodes, n)
    BY <2>2 DEF Warned
  <2>4. \A n \in Nodes : Bad(n)' => Bad(n)
    BY <1>1, <2>3 DEF Bad
  <2> QED
    BY <1>1, <2>2, <2>4 DEF NodesBetter
<1> QED
  BY <1>2, <1>3

LEMMA NodesStepBetter ==
  ASSUME RIInv, Ground, ReadyNews(ComingNodes, status), RNext, losses' = losses
  PROVE  NodesBetter
<1> USE DEF Ground
<1>1. CASE NodeNews
  <2>1. \A n \in Nodes : ~NodeIsLost(n)
    BY DEF NodeIsLost, RIInv, IInv, TypeOK
  <2> QED
    BY <1>1, <2>1, EventEffect, NodeUpEffect DEF NodeNews
<1>2. CASE NodesUntouched
  <2>1. view' = view
    BY <1>2 DEF NodesUntouched
  <2> QED
    BY <1>2, <2>1, UntouchedIsGood DEF NodesBetter
<1>3. CASE List("nodes") \/ Subscribe("nodes")
  BY <1>3, NodesLinkEffect
<1>4. CASE Restart
  <2>1. /\ status' = status /\ \A n \in Nodes : view'[n] = "UNSEEN"
        /\ stream'["nodes"] = "closed" /\ listed'["nodes"] = <<>> /\ loop'["nodes"] = IdleLoop
    BY <1>4 DEF Restart, Loops
  <2>2. ComingNodes' = <<>> /\ DOMAIN ComingNodes' = {}
    BY <2>1 DEF ComingNodes
  <2>3. ReadyNews(ComingNodes', status') /\ \A n : ~Warned(ComingNodes', n)
    BY <2>2, NoNodeNews
  <2>4. \A n \in Nodes : Bad(n)' => Bad(n)
    BY <2>1, <2>3 DEF Bad, IdleLoop
  <2> QED
    BY <2>1, <2>3, <2>4 DEF NodesBetter
<1> QED
  BY <1>1, <1>2, <1>3, <1>4, NextCases, StepsLeaveNodes DEF Linked, Loops
-----------------------------------------------------------------------------

NoOrphans == todo = {} /\ \A p \in Pods : ~At(p, {"orphan"})

LEMMA NoOrphansStep ==
  ASSUME RIInv, Ground, NodesGood, RNext, losses = 0
  PROVE  NoOrphans'
<1> USE DEF Ground
<1>0. /\ todo = {} /\ \A l \in Loops, p \in Pods : job[l][p].at # "orphan"
      /\ \A n \in Nodes : Used(n) => ~Bad(n)
  BY DEF NodesGood, At
<1> SUFFICES todo' = {} /\ \A l \in Loops, p \in Pods : job'[l][p].at # "orphan"
  BY DEF NoOrphans, At
<1>1. CASE UNCHANGED <<todo, job>>
  BY <1>0, <1>1
<1>2. CASE PodCreated \/ PodDeleted \/ NodeNews \/ List("pods") \/ Linked \/ LateAssign
  <2>1. UNCHANGED <<todo, job>>
    BY <1>2 DEF PodCreated, CreatePod, PodDeleted, DeletePod, NodeNews, NodeRegisters, NodeConnects, NodeIsLost,
                TakeNodeEvent, List, Linked, Subscribe, StoreUntouched, LateAssign, taskVars
  <2> QED
    BY <1>1, <2>1
<1>3. CASE Evict /\ Within
  <2>1. /\ loop["nodes"].at = "evict" /\ loop["nodes"] # IdleLoop /\ job' = job
        /\ todo' = PlacedOn(book, loop["nodes"].node)
    BY <1>3, EvictEffect DEF Within
  <2>2. PICK n \in Nodes : loop["nodes"] = [at |-> "evict", node |-> n]
    BY <2>1 DEF RIInv, IInv, TypeOK, LoopStates, Loops
  <2>3. Bad(n)
    BY <2>2 DEF Bad
  <2>4. ~Used(n)
    BY <1>0, <2>3
  <2>5. PlacedOn(book, n) = {}
    BY <2>4 DEF Used, Uses, PlacedOn
  <2> QED
    BY <1>0, <2>1, <2>2, <2>5
<1>4. CASE Swept
  <2>1. PICK l \in Loops : Sweep(l) /\ UNCHANGED linkVars
    BY <1>4 DEF Swept, Within
  <2>2. /\ todo' = todo
        /\ \A q \in Pods : job'[l][q] = IF q \in pending THEN [at |-> "retry"] ELSE NoJob
        /\ \A m \in Loops, q \in Pods : m # l => job'[m][q] = job[m][q]
    BY <2>1, SweepEffect
  <2>3. \A q \in Pods : job'[l][q].at # "orphan"
    BY <2>2 DEF NoJob
  <2> QED
    BY <1>0, <2>2, <2>3
<1>5. CASE OrphanTaken
  <2>1. PICK p \in Pods : NextOrphan(p)
    BY <1>5 DEF OrphanTaken
  <2> QED
    BY <1>0, <2>1 DEF NextOrphan
<1>6. CASE Taken(TakeRemoval)
  BY <1>1, <1>6, RemovalEffect DEF Taken, Within
<1>7. CASE Taken(TakePlacement)
  <2>1. PICK e : e = Head(Coming)
    OBVIOUS
  <2>2. /\ Coming \in Seq(PodEvents) /\ Coming # <<>> /\ e \in PodEvents /\ e.kind # "DELETED" /\ e.node \in Nodes
        /\ todo' = todo /\ (view[e.node] = "NOT_READY" \/ job' = job)
    BY <1>7, <2>1, PlacementEffect DEF Taken, Within
  <2>3. todo' = todo
    BY <1>7, PlacementEffect DEF Taken, Within
  <2>4. Mentions(Coming, e.pod, e.node)
    BY <2>1, <2>2, TailMentions DEF Mention
  <2>5. e.pod \in Pods
    BY <2>2 DEF PodEvents
  <2>6. Used(e.node)
    BY <2>4, <2>5 DEF Used, Uses
  <2>7. view[e.node] # "NOT_READY"
    BY <1>0, <2>2, <2>6 DEF Bad
  <2> QED
    BY <1>1, <2>2, <2>3, <2>7
<1>8. CASE Taken(RecordPlacement)
  BY <1>1, <1>8, RecordEffect DEF Taken, Within
<1>9. CASE Taken(TakeUnplaced)
  <2>1. PICK e : e = Head(Coming)
    OBVIOUS
  <2>2. /\ e.pod \in Pods /\ todo' = todo
        /\ job'["nodes"][e.pod] = job["nodes"][e.pod]
        /\ job'["pods"][e.pod] = IF e.kind = "ADDED" THEN [at |-> "try"] ELSE NoJob
        /\ \A q \in Pods : q # e.pod => Unmoved(q)
    BY <1>9, <2>1, UnplacedEffect DEF Taken, Within, PodEvents
  <2>3. job'["pods"][e.pod].at # "orphan"
    BY <2>2 DEF NoJob
  <2>4. \A q \in Pods, l \in Loops : q # e.pod => job'[l][q] = job[l][q]
    BY <2>2 DEF Unmoved, MindKept
  <2> QED
    BY <1>0, <2>2, <2>3, <2>4 DEF Loops
<1>10. CASE Worked
  <2>1. PICK l \in Loops, p \in Pods :
           /\ \/ Orphan(l, p) \/ OrphanGone(l, p) \/ OrphanFails(l, p)
              \/ (Try(l, p) \/ Retry(l, p))
              \/ Assign(l, p) \/ NotFound(l, p) \/ DropPending(l, p) \/ AssignFails(l, p)
           /\ UNCHANGED linkVars
    BY <1>10, WorkCases
  <2>2. JobKeeps(l, p)
    BY <2>1, JobKept
  <2>3. job'[l][p].at # "orphan"
    <3>1. ~Orphan(l, p)
      BY <1>0 DEF Orphan
    <3>2. CASE OrphanGone(l, p) \/ OrphanFails(l, p) \/ NotFound(l, p) \/ AssignFails(l, p) \/ DropPending(l, p)
      BY <2>1, <3>2, OrphanGoneEffect, OrphanFailsEffect, NotFoundEffect, AssignFailsEffect, DropEffect DEF NoJob
    <3>3. CASE Try(l, p) \/ Retry(l, p)
      <4>1. Parked(l, p) \/ (\E n \in Nodes : PlacedAt(l, p, n)) \/ job'[l][p] = NoJob
        BY <2>1, <3>3, TryEffect
      <4>2. ASSUME NEW n, job'[l][p] = [at |-> "assign", node |-> n] PROVE job'[l][p].at = "assign"
        BY <4>2
      <4>3. \A n : job'[l][p] = [at |-> "assign", node |-> n] => job'[l][p].at = "assign"
        BY <4>2
      <4>4. job'[l][p] = NoJob \/ \E n : job'[l][p] = [at |-> "assign", node |-> n]
        BY <4>1, Zenon DEF Parked, PlacedAt
      <4>5. job'[l][p] = NoJob \/ job'[l][p].at = "assign"
        BY <4>3, <4>4, Zenon
      <4> QED
        BY <4>5 DEF NoJob
    <3>4. CASE Assign(l, p)
      <4>1. job'[l][p] = NoJob
        BY <2>1, <3>4, AssignEffect
      <4> QED
        BY <4>1 DEF NoJob
    <3> QED
      BY <2>1, <3>1, <3>2, <3>3, <3>4
  <2>4. \A q \in Pods, m \in Loops : q # p => job'[m][q] = job[m][q]
    BY <2>2 DEF JobKeeps, Unmoved, MindKept
  <2>5. todo' = todo /\ \A m \in Loops : m # l => job'[m][p] = job[m][p]
    BY <2>2 DEF JobKeeps
  <2> QED
    BY <1>0, <2>3, <2>4, <2>5
<1>11. CASE Restart
  BY <1>11, RestartEffect DEF NoJob
<1> QED
  BY <1>2, <1>3, <1>4, <1>5, <1>6, <1>7, <1>8, <1>9, <1>10, <1>11, NextCases

LEMMA NodesGoodStep ==
  ASSUME RIInv, Ground, NodesGood, RNext
  PROVE  NodesGood'
<1> SUFFICES ASSUME losses' = 0 PROVE NodesGood'
  BY DEF NodesGood
<1>1. losses = 0
  BY NoLossBefore DEF Ground
<1>2. ReadyNews(ComingNodes, status) /\ \A n \in Nodes : view[n] = "READY" \/ Used(n) => ~Bad(n)
  BY <1>1 DEF NodesGood
<1>3. NodesBetter
  BY <1>1, <1>2, NodesStepBetter
<1>4. NoOrphans'
  BY <1>1, NoOrphansStep
<1>5. ASSUME NEW n \in Nodes, view'[n] = "READY" \/ Used(n)' PROVE ~Bad(n)'
  <2>1. CASE view'[n] = "READY"
    BY <1>2, <1>3, <2>1 DEF NodesBetter
  <2>2. CASE Used(n)'
    <3>1. Used(n) \/ view[n] = "READY"
      BY <2>2, WorkedUses, OtherUses
    <3> QED
      BY <1>2, <1>3, <3>1 DEF NodesBetter
  <2> QED
    BY <1>5, <2>1, <2>2
<1>6. ReadyNews(ComingNodes, status)'
  BY <1>3 DEF NodesBetter, ReadyNews
<1> QED
  BY <1>4, <1>5, <1>6 DEF NodesGood, NoOrphans
-----------------------------------------------------------------------------

(* The present process has missed nothing, and no earlier one interferes.  *)
Kept == Tame /\ losses = 0 /\ "outlived" \notin blemish

(* A pod without a node is going to be tried, or waits to be; one with a   *)
(* node is left alone.                                                     *)
Sought(p) ==
  /\ assigned[p] = NoNode =>
       p \in pending \/ Fresh(Coming, p) \/ At(p, {"try"}) \/ \E n \in Nodes : Assigning(p, n)
  /\ assigned[p] # NoNode => p \notin pending /\ ~Fresh(Coming, p) /\ ~At(p, {"try", "assign"})
Consistent(p) ==
  /\ ~At(p, {"drop"})
  /\ \A n \in Nodes : Mentions(Coming, p, n) \/ Recording(p, n) => assigned[p] = n
  /\ Fresh(Coming, p) => p \notin pending /\ \A l \in Loops : job[l][p] = NoJob
  /\ \A l \in Loops : job[l][p].at = "try" => l = "pods" /\ p \notin pending /\ job["nodes"][p] = NoJob
  /\ \A n \in Nodes : Assigning(p, n) => p \notin pending
  /\ \A l \in Loops : job[l][p] = [at |-> "assign", node |-> NoNode] =>
       p \in pending \/ job[Other(l)][p].at = "assign"
Settled(p) == Sought(p) /\ Consistent(p)
Retrying == Kept => \A p \in Live \ blemish : Settled(p)

LEMMA UnmovedSettled ==
  ASSUME NEW q, Unmoved(q), Settled(q)
  PROVE  Settled(q)'
<1>1. /\ Fresh(Coming', q) <=> Fresh(Coming, q)
      /\ \A n : Mentions(Coming', q, n) <=> Mentions(Coming, q, n)
  BY DEF Unmoved, NewsKept, SameNews
<1>2. /\ \A l \in Loops : job'[l][q] = job[l][q]
      /\ q \in pending' <=> q \in pending
      /\ \A n \in Nodes : Recording(q, n)' <=> Recording(q, n)
      /\ assigned'[q] = assigned[q]
  BY DEF Unmoved, MindKept, StoreKept
<1>3. /\ \A places : At(q, places)' <=> At(q, places)
      /\ \A n : Assigning(q, n)' <=> Assigning(q, n)
  BY <1>2 DEF At, Assigning
<1>4. Sought(q)'
  BY <1>1, <1>2, <1>3 DEF Settled, Sought
<1>5. \A l \in Loops : Other(l) \in Loops
  BY DEF Other, Loops
<1>6. "nodes" \in Loops
  BY DEF Loops
<1>7. Consistent(q)'
  BY <1>1, <1>2, <1>3, <1>5, <1>6 DEF Settled, Consistent
<1> QED
  BY <1>4, <1>7 DEF Settled

(* The jobs of a pod, of loop l and of the other one.                      *)
LEMMA TwoLoops ==
  ASSUME NEW l \in Loops, NEW p
  PROVE  /\ Other(l) \in Loops /\ Other(l) # l /\ Other(Other(l)) = l
         /\ \A m \in Loops : m = l \/ m = Other(l)
         /\ \A places : At(p, places) <=> job[l][p].at \in places \/ job[Other(l)][p].at \in places
         /\ \A n : Assigning(p, n) <=> \/ job[l][p] = [at |-> "assign", node |-> n]
                                       \/ job[Other(l)][p] = [at |-> "assign", node |-> n]
<1>1. Other(l) \in Loops /\ Other(l) # l /\ Other(Other(l)) = l /\ \A m \in Loops : m = l \/ m = Other(l)
  BY DEF Loops, Other
<1> QED
  BY <1>1 DEF At, Assigning

(* A pod is decided about only if it has no node.                          *)
LEMMA DecidedHasNone ==
  ASSUME NEW l \in Loops, NEW p, Settled(p),
         job[l][p].at = "try" \/ (job[l][p].at = "retry" /\ p \in pending) \/ job[l][p].at = "assign"
  PROVE  /\ assigned[p] = NoNode /\ ~Fresh(Coming, p)
         /\ job[Other(l)][p].at # "try"
         /\ \A n \in Nodes : ~Mentions(Coming, p, n) /\ ~Recording(p, n)
<1>1. assigned[p] = NoNode
  BY DEF Settled, Sought, At
<1>2. ~Fresh(Coming, p)
  BY DEF Settled, Consistent, NoJob
<1>3. job[Other(l)][p].at # "try"
  <2> SUFFICES ASSUME job[Other(l)][p].at = "try" PROVE FALSE
    OBVIOUS
  <2>1. Other(l) = "pods" /\ p \notin pending /\ job["nodes"][p] = NoJob
    BY TwoLoops DEF Settled, Consistent
  <2>2. l = "nodes"
    BY <2>1 DEF Other, Loops
  <2> QED
    BY <2>1, <2>2 DEF NoJob
<1>4. \A n \in Nodes : ~Mentions(Coming, p, n) /\ ~Recording(p, n)
  BY <1>1, NoNodeIsNoNode DEF Settled, Consistent
<1> QED
  BY <1>1, <1>2, <1>3, <1>4

LEMMA DecidedSettled ==
  ASSUME RIInv, NEW l \in Loops, NEW p \in Pods, Settled(p), JobKeeps(l, p), Coming' = Coming, StoreKept(p),
         job[l][p].at = "try" \/ (job[l][p].at = "retry" /\ p \in pending),
         Parked(l, p) \/ \E n \in Nodes : PlacedAt(l, p, n)
  PROVE  Settled(p)'
<1>1. PICK m : m = Other(l)
  OBVIOUS
<1>2. m \in Loops /\ m # l /\ Other(m) = l /\ \A k \in Loops : k = l \/ k = m
  BY <1>1, TwoLoops
<1>3. /\ assigned[p] = NoNode /\ ~Fresh(Coming, p) /\ job[m][p].at # "try"
      /\ \A n \in Nodes : ~Mentions(Coming, p, n) /\ ~Recording(p, n)
  BY <1>1, DecidedHasNone
<1>4. /\ assigned'[p] = NoNode /\ ~Fresh(Coming', p)
      /\ \A n \in Nodes : ~Mentions(Coming', p, n)
  BY <1>3 DEF StoreKept
<1>5. \A n \in Nodes : ~Recording(p, n)'
  BY <1>3, LoopKept DEF JobKeeps
<1>6. job'[m][p] = job[m][p]
  BY <1>2 DEF JobKeeps
<1>7. job[m][p].at # "drop"
  BY <1>2 DEF Settled, Consistent, At
<1>8. \A n \in Nodes : job[m][p] = [at |-> "assign", node |-> n] => p \notin pending /\ job[l][p].at # "try"
  <2> SUFFICES ASSUME NEW n \in Nodes, job[m][p] = [at |-> "assign", node |-> n]
               PROVE  p \notin pending /\ job[l][p].at # "try"
    OBVIOUS
  <2>1. p \notin pending
    BY <1>2 DEF Settled, Consistent, Assigning
  <2>2. job[l][p].at # "try"
    <3> SUFFICES ASSUME job[l][p].at = "try" PROVE FALSE
      OBVIOUS
    <3>1. l = "pods" /\ job["nodes"][p] = NoJob
      BY DEF Settled, Consistent
    <3>2. m = "nodes"
      BY <1>2, <3>1 DEF Loops
    <3> QED
      BY <3>1, <3>2 DEF NoJob
  <2> QED
    BY <2>1, <2>2
<1>9. CASE Parked(l, p)
  <2>1. job'[l][p] = [at |-> "assign", node |-> NoNode] /\ p \in pending'
    BY <1>9 DEF Parked
  <2>2. Sought(p)'
    BY <1>4, <2>1 DEF Sought
  <2>3. \A n \in Nodes : ~Assigning(p, n)'
    <3>1. \A n \in Nodes : job'[l][p] # [at |-> "assign", node |-> n]
      BY <2>1, NoNodeIsNoNode
    <3>2. \A n \in Nodes : job'[m][p] # [at |-> "assign", node |-> n]
      BY <1>6, <1>8
    <3> QED
      BY <1>2, <3>1, <3>2 DEF Assigning
  <2>4. ~At(p, {"drop"})'
    BY <1>2, <1>6, <1>7, <2>1 DEF At
  <2>5. \A k \in Loops : job'[k][p].at # "try"
    BY <1>2, <1>3, <1>6, <2>1
  <2>6. Consistent(p)'
    BY <1>4, <1>5, <2>1, <2>3, <2>4, <2>5 DEF Consistent
  <2> QED
    BY <2>2, <2>6 DEF Settled
<1>10. ASSUME NEW n \in Nodes, PlacedAt(l, p, n) PROVE Settled(p)'
  <2>1. job'[l][p] = [at |-> "assign", node |-> n] /\ p \notin pending' /\ n # NoNode
    BY <1>10 DEF PlacedAt
  <2>2. Assigning(p, n)'
    BY <2>1 DEF Assigning
  <2>3. Sought(p)'
    BY <1>4, <2>2 DEF Sought
  <2>4. ~At(p, {"drop"})'
    BY <1>2, <1>6, <1>7, <2>1 DEF At
  <2>5. \A k \in Loops : job'[k][p].at # "try"
    BY <1>2, <1>3, <1>6, <2>1
  <2>6. job'[l][p].at = "assign" /\ job'[l][p] # [at |-> "assign", node |-> NoNode]
    BY <2>1
  <2>7. \A k \in Loops : job'[k][p] = [at |-> "assign", node |-> NoNode] => job'[Other(k)][p].at = "assign"
    BY <1>2, <2>6
  <2>8. Consistent(p)'
    BY <1>4, <1>5, <2>1, <2>4, <2>5, <2>7 DEF Consistent
  <2> QED
    BY <2>3, <2>8 DEF Settled
<1> QED
  BY <1>9, <1>10

(* A pod that somebody else has resolved is left alone.                    *)
LEMMA SkippedSettled ==
  ASSUME RIInv, NEW l \in Loops, NEW p \in Pods, Settled(p), JobKeeps(l, p), Coming' = Coming, StoreKept(p),
         job[l][p].at = "retry", job'[l][p] = NoJob, pending' = pending
  PROVE  Settled(p)'
<1>1. PICK m : m = Other(l)
  OBVIOUS
<1>2. m \in Loops /\ m # l /\ Other(m) = l /\ Other(l) = m /\ \A k \in Loops : k = l \/ k = m
  BY <1>1, TwoLoops
<1>3. job'[m][p] = job[m][p] /\ \A n \in Nodes : Recording(p, n)' <=> Recording(p, n)
  BY <1>2, LoopKept DEF JobKeeps
<1>4. /\ job'[l][p].at \notin {"try", "assign", "drop"} /\ \A n : job'[l][p] # [at |-> "assign", node |-> n]
      /\ \A n : job[l][p] # [at |-> "assign", node |-> n]
  BY DEF NoJob
<1>5. (\A n : Assigning(p, n)' <=> Assigning(p, n))
      /\ (At(p, {"try"})' <=> At(p, {"try"}))
      /\ (At(p, {"try", "assign"})' <=> At(p, {"try", "assign"}))
      /\ (At(p, {"drop"})' <=> At(p, {"drop"}))
  BY <1>2, <1>3, <1>4 DEF Assigning, At
<1>6. Sought(p)'
  BY <1>5 DEF Settled, Sought, StoreKept
<1>7. Fresh(Coming', p) => \A k \in Loops : job'[k][p] = NoJob
  BY <1>2, <1>3 DEF Settled, Consistent
<1>8. ASSUME NEW k \in Loops, job'[k][p].at = "try"
      PROVE  k = "pods" /\ p \notin pending' /\ job'["nodes"][p] = NoJob
  <2>1. k = m /\ job[k][p].at = "try"
    BY <1>2, <1>3, <1>4, <1>8
  <2>2. k = "pods" /\ p \notin pending /\ job["nodes"][p] = NoJob
    BY <2>1 DEF Settled, Consistent
  <2>3. l = "nodes"
    BY <1>2, <2>1, <2>2 DEF Loops
  <2> QED
    BY <2>2, <2>3
<1>9. ASSUME NEW k \in Loops, job'[k][p] = [at |-> "assign", node |-> NoNode]
      PROVE  p \in pending' \/ job'[Other(k)][p].at = "assign"
  <2>1. k = m /\ job[m][p] = [at |-> "assign", node |-> NoNode]
    BY <1>2, <1>3, <1>4, <1>9
  <2>2. p \in pending \/ job[l][p].at = "assign"
    BY <1>2, <2>1 DEF Settled, Consistent
  <2> QED
    BY <2>2
<1>10. Consistent(p)'
  <2>1. ~At(p, {"drop"})' /\ (\A n \in Nodes : Mentions(Coming, p, n)' \/ Recording(p, n)' => assigned'[p] = n)
    BY <1>3, <1>5 DEF Settled, Consistent, StoreKept
  <2>2. (Fresh(Coming, p)' => p \notin pending') /\ \A n \in Nodes : Assigning(p, n)' => p \notin pending'
    BY <1>5 DEF Settled, Consistent
  <2> QED
    BY <1>7, <1>8, <1>9, <2>1, <2>2 DEF Consistent
<1> QED
  BY <1>6, <1>10 DEF Settled
-----------------------------------------------------------------------------

(* The answer to the only request about a pod.                             *)
LEMMA AssignedSettled ==
  ASSUME RIInv, NEW l \in Loops, NEW p \in Pods, Settled(p), JobKeeps(l, p),
         NEW n \in MaybeNodes, job[l][p] = [at |-> "assign", node |-> n], job'[l][p] = NoJob,
         job[Other(l)][p].at # "assign",
         assigned'[p] = n, pending' = pending,
         AssignedEvent(p, n) \in PodEvents, Coming \in Seq(PodEvents),
         Coming' = Append(Coming, AssignedEvent(p, n))
  PROVE  Settled(p)'
<1>1. PICK m : m = Other(l)
  OBVIOUS
<1>2. m \in Loops /\ m # l /\ Other(m) = l /\ Other(l) = m /\ \A k \in Loops : k = l \/ k = m
  BY <1>1, TwoLoops
<1>3. job[l][p].at = "assign"
  OBVIOUS
<1>4. /\ assigned[p] = NoNode /\ ~Fresh(Coming, p) /\ job[m][p].at # "try"
      /\ \A k \in Nodes : ~Mentions(Coming, p, k) /\ ~Recording(p, k)
  BY <1>1, <1>3, DecidedHasNone
<1>5. job'[m][p] = job[m][p] /\ job[m][p].at \notin {"assign", "try", "drop"}
  BY <1>1, <1>2, <1>4 DEF JobKeeps, Settled, Consistent, At
<1>6. \A k \in Loops : job'[k][p].at \notin {"assign", "try", "drop"}
  BY <1>2, <1>5 DEF NoJob
<1>7. ~Fresh(Coming', p)
  BY <1>4, AppendAbout DEF FreshEvent, AssignedEvent, PodEvent
<1>8. \A k \in Nodes : Mentions(Coming', p, k) => k = n
  BY <1>4, AppendMentions DEF Mention, AssignedEvent, PodEvent
<1>9. \A k \in Nodes : ~Recording(p, k)'
  BY <1>4, LoopKept DEF JobKeeps
<1>10. \A k \in Loops : \A s : job'[k][p] # [at |-> "assign", node |-> s]
  BY <1>6
<1>11. Sought(p)'
  <2>1. CASE n = NoNode
    <3>1. p \in pending
      BY <1>1, <2>1 DEF Settled, Consistent
    <3> QED
      BY <2>1, <3>1 DEF Sought
  <2>2. CASE n \in Nodes
    <3>1. p \notin pending
      BY <2>2 DEF Settled, Consistent, Assigning
    <3>2. n # NoNode
      BY <2>2, NoNodeIsNoNode
    <3> QED
      BY <1>6, <1>7, <3>1, <3>2 DEF Sought, At
  <2> QED
    BY <2>1, <2>2 DEF MaybeNodes
<1>12. Consistent(p)'
  <2>1. ~At(p, {"drop"})' /\ \A k \in Nodes : ~Assigning(p, k)'
    BY <1>6, <1>10 DEF At, Assigning
  <2> QED
    BY <1>6, <1>7, <1>8, <1>9, <1>10, <2>1 DEF Consistent
<1> QED
  BY <1>11, <1>12 DEF Settled

(* A sweep has a task for every pod that is pending.                       *)
LEMMA SweptSettled ==
  ASSUME RIInv, BusyLoops, NEW l \in Loops, Sweep(l), UNCHANGED linkVars, NEW q \in Pods, Settled(q)
  PROVE  Settled(q)'
<1>1. PICK m : m = Other(l)
  OBVIOUS
<1>2. m \in Loops /\ m # l /\ Other(m) = l /\ Other(l) = m /\ \A k \in Loops : k = l \/ k = m
  BY <1>1, TwoLoops
<1>3. /\ loop[l] = [at |-> "sweep"] /\ UNCHANGED <<assigned, pending>> /\ Coming' = Coming
      /\ job'[l][q] = IF q \in pending THEN [at |-> "retry"] ELSE NoJob
      /\ job'[m][q] = job[m][q]
      /\ \A n : Recording(q, n)' <=> Recording(q, n)
  BY <1>2, SweepEffect
<1>4. job[l][q] = NoJob
  BY <1>3 DEF BusyLoops, NoJobs, IdleLoop
<1>5. /\ job[l][q].at \notin {"try", "assign", "drop"} /\ \A s : job[l][q] # [at |-> "assign", node |-> s]
      /\ job'[l][q].at \notin {"try", "assign", "drop"} /\ \A s : job'[l][q] # [at |-> "assign", node |-> s]
  BY <1>3, <1>4 DEF NoJob
<1>6. (\A n : Assigning(q, n)' <=> Assigning(q, n))
      /\ (At(q, {"try"})' <=> At(q, {"try"}))
      /\ (At(q, {"try", "assign"})' <=> At(q, {"try", "assign"}))
      /\ (At(q, {"drop"})' <=> At(q, {"drop"}))
  BY <1>2, <1>3, <1>5 DEF Assigning, At
<1>7. Sought(q)'
  BY <1>3, <1>6 DEF Settled, Sought
<1>8. Fresh(Coming', q) => \A k \in Loops : job'[k][q] = NoJob
  BY <1>2, <1>3 DEF Settled, Consistent
<1>9. ASSUME NEW k \in Loops, job'[k][q].at = "try"
      PROVE  k = "pods" /\ q \notin pending' /\ job'["nodes"][q] = NoJob
  <2>1. k = m /\ job[k][q].at = "try"
    BY <1>2, <1>3, <1>5, <1>9
  <2>2. k = "pods" /\ q \notin pending /\ job["nodes"][q] = NoJob
    BY <2>1 DEF Settled, Consistent
  <2>3. l = "nodes"
    BY <1>2, <2>1, <2>2 DEF Loops
  <2> QED
    BY <1>3, <2>2, <2>3
<1>10. ASSUME NEW k \in Loops, job'[k][q] = [at |-> "assign", node |-> NoNode]
       PROVE  q \in pending' \/ job'[Other(k)][q].at = "assign"
  <2>1. k = m /\ job[m][q] = [at |-> "assign", node |-> NoNode]
    BY <1>2, <1>3, <1>5, <1>10
  <2>2. q \in pending \/ job[l][q].at = "assign"
    BY <1>2, <2>1 DEF Settled, Consistent
  <2> QED
    BY <1>3, <1>5, <2>2
<1>11. Consistent(q)'
  <2>1. ~At(q, {"drop"})' /\ (\A n \in Nodes : Mentions(Coming, q, n)' \/ Recording(q, n)' => assigned'[q] = n)
    BY <1>3, <1>6 DEF Settled, Consistent
  <2>2. (Fresh(Coming, q)' => q \notin pending') /\ \A n \in Nodes : Assigning(q, n)' => q \notin pending'
    BY <1>3, <1>6 DEF Settled, Consistent
  <2> QED
    BY <1>3, <1>8, <1>9, <1>10, <2>1, <2>2 DEF Consistent
<1> QED
  BY <1>7, <1>11 DEF Settled

(* A pod that is new to the scheduler.                                     *)
LEMMA BlankSettled ==
  ASSUME NEW q \in Pods, q \notin pending', \A l \in Loops : job'[l][q] = NoJob,
         \A n \in Nodes : ~Recording(q, n)',
         assigned'[q] = NoNode <=> Fresh(Coming', q),
         \A n \in Nodes : Mentions(Coming', q, n) => assigned'[q] = n
  PROVE  Settled(q)'
<1>1. \A l \in Loops : job'[l][q].at \notin {"try", "assign", "drop"} /\ \A s : job'[l][q] # [at |-> "assign", node |-> s]
  BY DEF NoJob
<1>2. ~At(q, {"try"})' /\ ~At(q, {"try", "assign"})' /\ ~At(q, {"drop"})' /\ \A n : ~Assigning(q, n)'
  BY <1>1 DEF At, Assigning
<1>3. Sought(q)'
  BY <1>2 DEF Sought
<1>4. Consistent(q)'
  BY <1>1, <1>2 DEF Consistent
<1> QED
  BY <1>3, <1>4 DEF Settled
-----------------------------------------------------------------------------

LEMMA KeptBefore ==
  ASSUME RIInv, Ground, RNext, Kept', ~List("pods")
  PROVE  /\ Kept /\ Tame /\ Synced /\ Synced' /\ ~Restart /\ ~LateAssign
         /\ blemish \subseteq blemish' /\ "fault" \notin blemish' /\ losses = 0
<1>1. Tame /\ Synced /\ Synced' /\ ~Restart /\ blemish \subseteq blemish' /\ "fault" \notin blemish'
  BY TameBefore DEF Kept, Ground
<1>2. losses = 0
  BY NoLossBefore DEF Kept, Ground
<1>3. ~LateAssign
  BY LateEffect DEF Kept
<1> QED
  BY <1>1, <1>2, <1>3 DEF Kept

(* The watch of the pods delivers an event about a pod.                    *)
LEMMA PlacementSettled ==
  ASSUME RIInv, Ground, Taken(TakePlacement), losses = 0, NodesGood,
         NEW q \in Pods, q = Head(Coming).pod, Settled(q)
  PROVE  Settled(q)'
<1>1. PICK e : e = Head(Coming)
  OBVIOUS
<1>2. q = e.pod
  BY <1>1
<1>3. /\ Coming \in Seq(PodEvents) /\ Coming # <<>> /\ Coming' = Tail(Coming)
      /\ e.kind # "DELETED" /\ e.node \in Nodes
      /\ UNCHANGED <<assigned, book, pending>>
      /\ \/ view[e.node] = "NOT_READY"
         \/ job' = job /\ \A r, n : Recording(r, n)' <=> r = e.pod /\ n = e.node
  BY <1>1, PlacementEffect DEF Taken, Within
<1>4. Mentions(Coming, q, e.node)
  BY <1>1, <1>2, <1>3, TailMentions DEF Mention
<1>5. view[e.node] # "NOT_READY"
  BY <1>3, <1>4 DEF NodesGood, Used, Uses, Bad
<1>6. job' = job /\ \A n : Recording(q, n)' <=> n = e.node
  BY <1>2, <1>3, <1>5
<1>7. /\ Fresh(Coming', q) <=> Fresh(Coming, q)
      /\ \A n : Mentions(Coming', q, n) => Mentions(Coming, q, n)
  <2>1. ~FreshEvent(e, q)
    BY <1>3, NoNodeIsNoNode DEF FreshEvent
  <2> QED
    BY <1>1, <1>3, <2>1, TailAbout, TailMentions
<1>8. (\A n : Assigning(q, n)' <=> Assigning(q, n)) /\ \A places : At(q, places)' <=> At(q, places)
  BY <1>6 DEF Assigning, At
<1>10. Sought(q)'
  BY <1>3, <1>7, <1>8 DEF Settled, Sought
<1>11. \A n \in Nodes : Mentions(Coming', q, n) \/ Recording(q, n)' => assigned'[q] = n
  BY <1>3, <1>4, <1>6, <1>7 DEF Settled, Consistent
<1>12. Consistent(q)'
  BY <1>3, <1>6, <1>7, <1>8, <1>11 DEF Settled, Consistent
<1> QED
  BY <1>10, <1>12 DEF Settled

LEMMA UnplacedSettled ==
  ASSUME RIInv, Ground, Taken(TakeUnplaced), NEW q \in Pods, q = Head(Coming).pod, Settled(q)
  PROVE  Settled(q)'
<1>1. PICK e : e = Head(Coming)
  OBVIOUS
<1>2. /\ Coming \in Seq(PodEvents) /\ Coming # <<>> /\ Coming' = Tail(Coming)
      /\ e.kind # "DELETED" /\ e.node = NoNode /\ e.pod = q
      /\ UNCHANGED <<assigned, book, pending>>
      /\ NoJobs("pods")
      /\ \A r, n : ~Recording(r, n)'
      /\ job'["nodes"][q] = job["nodes"][q]
      /\ job'["pods"][q] = IF e.kind = "ADDED" THEN [at |-> "try"] ELSE NoJob
  BY <1>1, UnplacedEffect DEF Taken, Within
<1>3. \A n \in Nodes : Mentions(Coming', q, n) => assigned'[q] = n
  BY <1>2, TailMentions DEF Settled, Consistent
<1>4. job["pods"][q] = NoJob
  BY <1>2 DEF NoJobs
<1>5. CASE e.kind = "ADDED"
  <2>1. Fresh(Coming, q)
    BY <1>1, <1>2, <1>5, TailAbout DEF FreshEvent
  <2>2. assigned[q] = NoNode /\ q \notin pending /\ job["nodes"][q] = NoJob
    BY <2>1 DEF Settled, Sought, Consistent, Loops
  <2>3. ~Fresh(Coming', q)
    BY <1>1, <1>2, <1>5, TailOrder DEF Ground
  <2>4. job'["pods"][q] = [at |-> "try"] /\ job'["nodes"][q] = NoJob
    BY <1>2, <1>5, <2>2
  <2>5. /\ \A l \in Loops : job'[l][q].at \notin {"assign", "drop"}
        /\ \A l \in Loops : \A s : job'[l][q] # [at |-> "assign", node |-> s]
        /\ job'["nodes"][q].at # "try" /\ job'["pods"][q].at = "try"
    BY <2>4 DEF Loops, NoJob
  <2>6. At(q, {"try"})' /\ ~At(q, {"drop"})' /\ \A n : ~Assigning(q, n)'
    BY <2>5 DEF At, Assigning, Loops
  <2>7. Sought(q)'
    BY <1>2, <2>2, <2>6 DEF Sought
  <2>8. \A l \in Loops : job'[l][q].at = "try" => l = "pods" /\ q \notin pending' /\ job'["nodes"][q] = NoJob
    BY <1>2, <2>2, <2>4, <2>5 DEF Loops
  <2>9. Consistent(q)'
    BY <1>2, <1>3, <2>3, <2>5, <2>6, <2>8 DEF Consistent
  <2> QED
    BY <2>7, <2>9 DEF Settled
<1>6. CASE e.kind # "ADDED"
  <2>1. job'["pods"][q] = job["pods"][q]
    BY <1>2, <1>4, <1>6
  <2>2. \A l \in Loops : job'[l][q] = job[l][q]
    BY <1>2, <2>1 DEF Loops
  <2>3. (\A n : Assigning(q, n)' <=> Assigning(q, n)) /\ \A places : At(q, places)' <=> At(q, places)
    BY <2>2 DEF Assigning, At
  <2>4. Fresh(Coming', q) <=> Fresh(Coming, q)
    BY <1>1, <1>2, <1>6, TailAbout DEF FreshEvent
  <2>5. Sought(q)'
    BY <1>2, <2>3, <2>4 DEF Settled, Sought
  <2>6. \A l \in Loops : Other(l) \in Loops
    BY DEF Other, Loops
  <2>7. "nodes" \in Loops
    BY DEF Loops
  <2>8. Consistent(q)'
    BY <1>2, <1>3, <2>2, <2>3, <2>4, <2>6, <2>7 DEF Settled, Consistent
  <2> QED
    BY <2>5, <2>8 DEF Settled
<1> QED
  BY <1>5, <1>6

LEMMA WorkedSettled ==
  ASSUME RIInv, Ground, NodesGood, Worked, "fault" \notin blemish', losses = 0,
         NEW q \in Pods, life[q] = "live", q \notin blemish', Settled(q)
  PROVE  Settled(q)'
<1>1. PICK l \in Loops, p \in Pods :
         /\ \/ Orphan(l, p) \/ OrphanGone(l, p) \/ OrphanFails(l, p)
            \/ (Try(l, p) \/ Retry(l, p))
            \/ Assign(l, p) \/ NotFound(l, p) \/ DropPending(l, p) \/ AssignFails(l, p)
         /\ UNCHANGED linkVars
         /\ faults' # faults => "fault" \in blemish'
         /\ RequestsOf(l, p) # {} /\ RequestsOf(Other(l), p) # {} => p \in blemish'
  BY WorkCases
<1>2. JobKeeps(l, p) /\ faults' = faults
  BY <1>1, JobKept
<1>3. CASE p # q
  BY <1>2, <1>3, UnmovedSettled DEF JobKeeps
<1>4. CASE p = q
  <2>1. job[l][p].at # "orphan"
    BY DEF NodesGood, At
  <2>2. ~Orphan(l, p) /\ ~OrphanGone(l, p) /\ ~OrphanFails(l, p)
    BY <2>1 DEF Orphan, OrphanGone, OrphanFails
  <2>3. ~NotFound(l, p) /\ ~AssignFails(l, p)
    BY <1>1, <1>2, <1>4, NotFoundEffect, AssignFailsEffect
  <2>4. ~DropPending(l, p)
    BY <1>4 DEF DropPending, Settled, Consistent, At
  <2>5. CASE Try(l, p) \/ Retry(l, p)
    <3>1. /\ Coming' = Coming /\ StoreKept(p)
          /\ \/ job[l][p].at = "try"
             \/ job[l][p].at = "retry"
          /\ \/ /\ job[l][p].at = "retry" => p \in pending
                /\ Parked(l, p) \/ \E n \in Nodes : PlacedAt(l, p, n)
             \/ /\ job[l][p].at = "retry" /\ p \notin pending
                /\ job'[l][p] = NoJob /\ UNCHANGED <<pending, book>>
      BY <1>1, <2>5, TryEffect
    <3>2. CASE (job[l][p].at = "retry" => p \in pending) /\ (Parked(l, p) \/ \E n \in Nodes : PlacedAt(l, p, n))
      BY <1>2, <1>4, <3>1, <3>2, DecidedSettled
    <3>3. CASE job[l][p].at = "retry" /\ p \notin pending /\ job'[l][p] = NoJob /\ UNCHANGED <<pending, book>>
      BY <1>2, <1>4, <3>1, <3>3, SkippedSettled
    <3> QED
      BY <3>1, <3>2, <3>3
  <2>6. CASE Assign(l, p)
    <3>1. PICK n \in MaybeNodes :
             /\ job[l][p] = [at |-> "assign", node |-> n] /\ job'[l][p] = NoJob
             /\ assigned'[p] = n /\ pending' = pending
             /\ AssignedEvent(p, n) \in PodEvents /\ Posted(AssignedEvent(p, n))
      BY <1>1, <2>6, AssignEffect
    <3>2. Coming' = Append(Coming, AssignedEvent(p, n)) /\ Coming \in Seq(PodEvents)
      <4>1. stream["pods"] = "open"
        BY <1>1, JobKept, OpenAtWork DEF Ground
      <4> QED
        BY <3>1, <4>1, ComingType DEF Posted
    <3>3. job[Other(l)][p].at # "assign"
      <4>0. job[l][p].at = "assign"
        BY <3>1
      <4>1. RequestsOf(l, p) # {}
        BY <4>0 DEF RequestsOf
      <4>2. job[Other(l)][p].at = "assign" => RequestsOf(Other(l), p) # {}
        BY DEF RequestsOf
      <4> QED
        BY <1>1, <1>4, <4>1, <4>2
    <3> QED
      BY <1>2, <1>4, <3>1, <3>2, <3>3, AssignedSettled
  <2> QED
    BY <1>1, <2>2, <2>3, <2>4, <2>5, <2>6
<1> QED
  BY <1>3, <1>4
-----------------------------------------------------------------------------

LEMMA RetryingStep ==
  ASSUME RIInv, Ground, NodesGood, Retrying, RNext
  PROVE  Retrying'
<1> SUFFICES ASSUME Kept', NEW q \in Pods, life'[q] = "live", q \notin blemish' PROVE Settled(q)'
  BY DEF Retrying, Live
<1> USE DEF Ground
<1>0. CASE List("pods")
  <2>1. PICK s \in PodSnapshots : Coming' = s
    BY <1>0, ListPodsEffect
  <2>2. life' = life /\ assigned' = assigned /\ stream["pods"] = "closed"
    BY <1>0, ListPodsEffect DEF StoreUntouched
  <2>3. MindKept(q)
    BY <1>0, ListPodsEffect
  <2>4. q \notin pending /\ (\A l \in Loops : job[l][q] = NoJob) /\ loop["pods"] = IdleLoop
    BY <2>2 DEF Blank, NoWork
  <2>5. q \notin pending' /\ \A l \in Loops : job'[l][q] = NoJob
    BY <2>3, <2>4 DEF MindKept
  <2>6. \A n \in Nodes : ~Recording(q, n)'
    BY <2>3, <2>4, NotRecording DEF MindKept
  <2>7. (Fresh(s, q) <=> q \in Live /\ assigned[q] = NoNode) /\ \A n : Mentions(s, q, n) => assigned[q] = n
    BY SnapshotTells DEF RIInv, IInv
  <2>8. assigned'[q] = NoNode <=> Fresh(Coming', q)
    BY <2>1, <2>2, <2>7 DEF Live
  <2>9. \A n \in Nodes : Mentions(Coming', q, n) => assigned'[q] = n
    BY <2>1, <2>2, <2>7
  <2> QED
    BY <2>5, <2>6, <2>8, <2>9, BlankSettled
<1> SUFFICES ASSUME ~List("pods") PROVE Settled(q)'
  BY <1>0
<1>a. /\ Kept /\ Tame /\ Synced /\ Synced' /\ ~Restart /\ ~LateAssign
      /\ blemish \subseteq blemish' /\ "fault" \notin blemish' /\ losses = 0
  BY KeptBefore
<1>b. life[q] = "live" => Settled(q)
  BY <1>a DEF Retrying, Live
<1>c. Unmoved(q) => Settled(q)'
  BY <1>b, UnmovedSettled DEF Unmoved, StoreKept
<1>1. CASE PodCreated
  <2>1. PICK p \in Pods : CreatePod(p) /\ UNCHANGED linkVars
    BY <1>1 DEF PodCreated, Within
  <2>2. CASE p = q
    <3>1. PICK e : e = PodEvent("ADDED", p, NoNode)
      OBVIOUS
    <3>2. e \in PodEvents /\ FreshEvent(e, q) /\ \A n \in Nodes : ~Mention(e, q, n)
      BY <2>2, <3>1, EventTypes, NoNodeIsNoNode DEF MaybeNodes, PodEvent, FreshEvent, Mention
    <3>3. life[q] = "new" /\ assigned'[q] = assigned[q] /\ Posted(e) /\ MindKept(q)
      BY <2>1, <2>2, <3>1, CreateEffect
    <3>4. Coming' = Append(Coming, e) /\ Coming \in Seq(PodEvents)
      BY <1>a, <3>3, PostedSynced, ComingType
    <3>5. Quiet(q)
      BY <3>3 DEF Unborn
    <3>6. q \notin pending' /\ (\A l \in Loops : job'[l][q] = NoJob) /\ \A n \in Nodes : ~Recording(q, n)'
      BY <3>3, <3>5 DEF Quiet, MindKept
    <3>7. \A n \in Nodes : ~Mentions(Coming', q, n)
      <4>1. \A n \in Nodes : ~Mentions(Coming, q, n)
        BY <3>5 DEF Quiet, About, Mentions, Mention
      <4> QED
        BY <3>2, <3>4, <4>1, AppendMentions
    <3>8. Fresh(Coming', q)
      BY <3>2, <3>4, AppendAbout
    <3>9. assigned'[q] = NoNode
      BY <3>3, <3>5 DEF Quiet
    <3> QED
      BY <3>6, <3>7, <3>8, <3>9, BlankSettled
  <2> QED
    BY <1>c, <2>1, <2>2, CreateEffect
<1>2. CASE PodDeleted
  <2>1. PICK p \in Pods : DeletePod(p) /\ UNCHANGED linkVars
    BY <1>2 DEF PodDeleted, Within
  <2> QED
    BY <1>c, <2>1, DeleteEffect
<1>3. CASE NodeNews
  BY <1>3, <1>c, NodeEffect DEF NodeNews, Within
<1>4. CASE Evict /\ Within
  <2>1. /\ UNCHANGED <<life, assigned, pending, job>> /\ loop'["pods"] = loop["pods"] /\ Coming' = Coming
    BY <1>4, EvictEffect DEF Within
  <2>2. Settled(q)
    BY <1>b, <2>1
  <2> QED
    BY <2>1, <2>2 DEF Settled, Sought, Consistent, At, Assigning, Recording
<1>5. CASE Swept
  <2>1. PICK l \in Loops : Sweep(l) /\ UNCHANGED linkVars
    BY <1>5 DEF Swept, Within
  <2>2. life' = life
    BY <2>1, SweepEffect
  <2> QED
    BY <1>b, <2>1, <2>2, SweptSettled
<1>6. CASE OrphanTaken
  BY <1>6, <1>a DEF OrphanTaken, NextOrphan, NodesGood
<1>7. CASE Taken(TakeRemoval)
  <2>1. PICK e : e = Head(Coming)
    OBVIOUS
  <2>2. /\ Coming \in Seq(PodEvents) /\ Coming # <<>> /\ e.kind = "DELETED" /\ life' = life
        /\ q # e.pod => Unmoved(q)
    BY <1>7, <2>1, RemovalEffect DEF Taken, Within
  <2>3. Deletes(Coming, e.pod)
    BY <2>1, <2>2, TailAbout
  <2> QED
    BY <1>c, <2>2, <2>3 DEF Buried
<1>8. CASE Taken(TakePlacement)
  <2>1. life' = life /\ (q # Head(Coming).pod => Unmoved(q))
    BY <1>8, PlacementEffect DEF Taken, Within
  <2> QED
    BY <1>8, <1>a, <1>b, <1>c, <2>1, PlacementSettled
<1>9. CASE Taken(RecordPlacement)
  <2>1. PICK p \in Pods, n \in Nodes :
           /\ Recording(p, n) /\ UNCHANGED <<life, assigned, job>> /\ Coming' = Coming
           /\ pending' = pending \ {p} /\ \A m : ~Recording(p, m)'
           /\ \A r \in Pods : r # p => Unmoved(r)
    BY <1>9, RecordEffect DEF Taken, Within
  <2>2. CASE p = q
    <3>1. Settled(q)
      BY <1>b, <2>1
    <3>2. assigned[q] = n /\ n # NoNode
      BY <2>1, <2>2, <3>1, NoNodeIsNoNode DEF Settled, Consistent
    <3>3. q \notin pending
      BY <3>1, <3>2 DEF Settled, Sought
    <3>4. q \notin pending'
      BY <2>1, <3>3
    <3> QED
      BY <2>1, <2>2, <3>1, <3>3, <3>4 DEF Settled, Sought, Consistent, At, Assigning
  <2> QED
    BY <1>c, <2>1, <2>2
<1>10. CASE Taken(TakeUnplaced)
  <2>1. life' = life /\ (q # Head(Coming).pod => Unmoved(q))
    BY <1>10, UnplacedEffect DEF Taken, Within
  <2> QED
    BY <1>10, <1>b, <1>c, <2>1, UnplacedSettled
<1>11. CASE Worked
  <2>1. life' = life
    BY <1>11, WorkCases, JobKept DEF JobKeeps
  <2> QED
    BY <1>11, <1>a, <1>b, <2>1, WorkedSettled
<1>12. CASE Linked
  BY <1>12, <1>c, LinkEffect DEF Linked
<1> QED
  BY <1>a, <1>1, <1>2, <1>3, <1>4, <1>5, <1>6, <1>7, <1>8, <1>9, <1>10, <1>11, <1>12, NextCases

-----------------------------------------------------------------------------
RetryInv == NewsInv /\ NodesGood /\ Retrying

LEMMA RetryInit == RInit => NodesGood /\ Retrying
<1> SUFFICES ASSUME RInit PROVE NodesGood /\ Retrying
  OBVIOUS
<1>1. /\ \A p \in Pods : life[p] = "new" /\ assigned[p] = NoNode /\ book.placed[p] = NoNode
      /\ \A n \in Nodes : view[n] = "UNSEEN"
      /\ todo = {} /\ late = {} /\ Coming = <<>> /\ ComingNodes = <<>>
      /\ (\A l \in Loops, p \in Pods : job[l][p] = NoJob) /\ loop["pods"] = IdleLoop
  BY DEF RInit, Init, Coming, ComingNodes, Loops
<1>2. (\A p, n : ~Recording(p, n)) /\ (\A p, n : ~Mentions(Coming, p, n))
  <2>1. DOMAIN Coming = {}
    BY <1>1
  <2> QED
    BY <1>1, <2>1, NotRecording, NoEvents
<1>3. \A p \in Pods : \A n : ~Assigning(p, n) /\ ~At(p, {"orphan"})
  BY <1>1 DEF Assigning, At, NoJob
<1>4. \A n \in Nodes : ~Used(n)
  BY <1>1, <1>2, <1>3, NoNodeIsNoNode DEF Used, Uses
<1>5. ReadyNews(ComingNodes, status)
  <2>1. DOMAIN ComingNodes = {}
    BY <1>1
  <2> QED
    BY <2>1, NoNodeNews
<1>6. NodesGood
  BY <1>1, <1>3, <1>4, <1>5 DEF NodesGood
<1>7. Retrying
  BY <1>1 DEF Retrying, Live
<1> QED
  BY <1>6, <1>7

LEMMA RetryStutter ==
  ASSUME NodesGood, Retrying, UNCHANGED allVars
  PROVE  NodesGood' /\ Retrying'
<1> USE DEF allVars, vars, apiVars, stateVars, taskVars, linkVars
<1>1. Coming' = Coming /\ ComingNodes' = ComingNodes
  BY DEF Coming, ComingNodes
<1>2. /\ \A p, n : Assigning(p, n)' <=> Assigning(p, n)
      /\ \A p, n : Recording(p, n)' <=> Recording(p, n)
      /\ \A p, places : At(p, places)' <=> At(p, places)
  BY DEF Assigning, Recording, At
<1>3. \A n : Used(n)' <=> Used(n)
  BY <1>1, <1>2 DEF Used, Uses
<1>4. \A n : Bad(n)' <=> Bad(n)
  BY <1>1 DEF Bad, Warned
<1>5. NodesGood'
  BY <1>1, <1>2, <1>3, <1>4 DEF NodesGood, ReadyNews
<1>6. Kept' <=> Kept
  BY DEF Kept, Tame, Synced
<1>7. \A p : Settled(p) => Settled(p)'
  BY <1>1, <1>2 DEF Settled, Sought, Consistent
<1>8. Retrying'
  BY <1>6, <1>7 DEF Retrying, Live
<1> QED
  BY <1>5, <1>8

(* As long as no node is lost, a node that anything is placed on is ready  *)
(* and known to be, and every pod without a node is being tried or waits   *)
(* to be.                                                                  *)
THEOREM RetryInvariant == RSpec => []RetryInv
<1>1. RInit => RetryInv
  BY NewsInit, RetryInit DEF RetryInv
<1>2. RetryInv /\ [RNext]_allVars => RetryInv'
  BY RIStep, GroundStep, FollowingStep, TrackingStep, ForgettingStep, NewsStutter,
     NodesGoodStep, RetryingStep, RetryStutter DEF RetryInv, NewsInv
<1> QED
  BY <1>1, <1>2, PTL DEF RSpec

(* At rest every pod without a node is pending, through restarts.          *)
THEOREM UnplacedAreRetried == RSpec => []UnplacedIsRetried
<1>1. RetryInv => UnplacedIsRetried
  <2> SUFFICES ASSUME RetryInv, RAtRest, losses = 0, "gap" \notin blemish, "outlived" \notin blemish,
                      "fault" \notin blemish, NEW p \in Live \ WithNode, p \notin blemish
               PROVE  p \in pending
    BY DEF UnplacedIsRetried
  <2>1. Settled(p) /\ assigned[p] = NoNode /\ p \in Pods
    BY AtRestNothingMoves DEF RetryInv, Retrying, Kept, Tame, WithNode, Live
  <2>2. ~At(p, {"try"}) /\ ~At(p, {"assign"}) /\ DOMAIN Coming = {}
    BY <2>1, AtRestNothingMoves
  <2>3. ~Fresh(Coming, p)
    BY <2>2, NoEvents
  <2>4. \A n \in Nodes : ~Assigning(p, n)
    BY <2>2 DEF At, Assigning
  <2> QED
    BY <2>1, <2>2, <2>3, <2>4 DEF Settled, Sought
<1> QED
  BY <1>1, RetryInvariant, PTL
-----------------------------------------------------------------------------

(* No node was lost, and no process has interfered with a later one.       *)
Clean == losses = 0 /\ "crossed" \notin blemish

(* A pod has its room on n: in the book or in the store, or in the news    *)
(* that lead from the one to the other.                                    *)
Held(p, n) ==
  \/ book.placed[p] = n \/ (life[p] = "live" /\ assigned[p] = n)
  \/ Mentions(Coming, p, n) \/ Recording(p, n)

(* Whoever sees one of these may place the pod.                            *)
Token(p) == Fresh(Coming, p) \/ At(p, {"try"}) \/ p \in pending

Exclusive(p) ==
  /\ Token(p) => \A n \in Nodes : ~Held(p, n) /\ ~Assigning(p, n)
  /\ Fresh(Coming, p) => p \notin pending /\ \A l \in Loops : job[l][p] = NoJob
  /\ \A l \in Loops : job[l][p].at = "try" => l = "pods" /\ p \notin pending /\ job["nodes"][p] = NoJob
  /\ \A n \in Nodes : Assigning(p, n) /\ life[p] = "live" => book.placed[p] = n
Unique(p) == \A n, m \in Nodes : Held(p, n) /\ Held(p, m) => n = m
Owned(p) == Exclusive(p) /\ Unique(p)
Owning == Clean => \A p \in Pods : Owned(p)

LEMMA CleanBefore ==
  ASSUME RIInv, Ground, RNext, Clean'
  PROVE  Clean /\ ~LateAssign
<1>1. losses = 0
  BY NoLossBefore DEF Clean, Ground
<1>2. ~LateAssign
  BY LateEffect DEF Clean
<1>3. CASE Restart
  BY <1>1, <1>2, <1>3, RestartEffect DEF Clean
<1>4. CASE Worked
  BY <1>1, <1>2, <1>4, WorkCases DEF Clean
<1>5. CASE Linked
  BY <1>1, <1>2, <1>5, LinkEffect DEF Clean, Linked, Ground
<1>6. CASE List("pods")
  BY <1>1, <1>2, <1>6, ListPodsEffect DEF Clean, Ground
<1>7. CASE ~Restart /\ ~Worked /\ ~Linked /\ ~List("pods")
  <2>1. blemish' = blemish
    BY <1>2, <1>7, NextCases DEF PodCreated, PodDeleted, NodeNews, Swept, OrphanTaken, Taken, Within
  <2> QED
    BY <1>1, <1>2, <2>1 DEF Clean
<1> QED
  BY <1>3, <1>4, <1>5, <1>6, <1>7

(* A step that takes away more than it gives.                              *)
LEMMA LessOwned ==
  ASSUME NEW q, Owned(q),
         \A n \in Nodes : (Held(q, n)' => Held(q, n)) /\ (Assigning(q, n)' => Assigning(q, n)),
         Fresh(Coming', q) => Fresh(Coming, q), At(q, {"try"})' => At(q, {"try"}), q \in pending' => q \in pending,
         Fresh(Coming', q) => \A l \in Loops : job'[l][q] = NoJob,
         \A l \in Loops : job'[l][q].at = "try" => l = "pods" /\ job'["nodes"][q] = NoJob,
         \A l \in Loops : job'[l][q].at = "try" => job[l][q].at = "try",
         \A n \in Nodes : Assigning(q, n)' /\ life'[q] = "live" => book'.placed[q] = n
  PROVE  Owned(q)'
<1>1. Token(q)' => Token(q)
  BY DEF Token
<1>2. Unique(q)'
  BY DEF Owned, Unique
<1>3. Exclusive(q)'
  BY <1>1 DEF Owned, Exclusive
<1> QED
  BY <1>2, <1>3 DEF Owned

LEMMA UnmovedHeld ==
  ASSUME NEW q, Unmoved(q)
  PROVE  /\ \A n \in Nodes : Held(q, n)' <=> Held(q, n)
         /\ \A n : Assigning(q, n)' <=> Assigning(q, n)
         /\ Fresh(Coming', q) <=> Fresh(Coming, q)
         /\ \A places : At(q, places)' <=> At(q, places)
<1>1. /\ Fresh(Coming', q) <=> Fresh(Coming, q)
      /\ \A n : Mentions(Coming', q, n) <=> Mentions(Coming, q, n)
  BY DEF Unmoved, NewsKept, SameNews
<1>2. /\ \A l \in Loops : job'[l][q] = job[l][q]
      /\ \A n \in Nodes : Recording(q, n)' <=> Recording(q, n)
      /\ assigned'[q] = assigned[q] /\ life'[q] = life[q] /\ book'.placed[q] = book.placed[q]
  BY DEF Unmoved, MindKept, StoreKept
<1>3. /\ \A places : At(q, places)' <=> At(q, places)
      /\ \A n : Assigning(q, n)' <=> Assigning(q, n)
  BY <1>2 DEF At, Assigning
<1>4. \A n \in Nodes : Held(q, n)' <=> Held(q, n)
  BY <1>1, <1>2 DEF Held
<1> QED
  BY <1>1, <1>3, <1>4

LEMMA UnmovedOwned ==
  ASSUME NEW q, Unmoved(q), Owned(q)
  PROVE  Owned(q)'
<1>1. /\ \A l \in Loops : job'[l][q] = job[l][q]
      /\ q \in pending' <=> q \in pending
      /\ life'[q] = life[q] /\ book'.placed[q] = book.placed[q]
  BY DEF Unmoved, MindKept, StoreKept
<1>2. "nodes" \in Loops
  BY DEF Loops
<1>3. /\ Fresh(Coming, q) => \A l \in Loops : job[l][q] = NoJob
      /\ \A l \in Loops : job[l][q].at = "try" => l = "pods" /\ job["nodes"][q] = NoJob
      /\ \A n \in Nodes : Assigning(q, n) /\ life[q] = "live" => book.placed[q] = n
  BY DEF Owned, Exclusive
<1> QED
  BY <1>1, <1>2, <1>3, UnmovedHeld, LessOwned

(* A pod the scheduler does nothing about.                                 *)
LEMMA BlankOwned ==
  ASSUME NEW q, q \notin pending', \A l \in Loops : job'[l][q] = NoJob,
         \A n \in Nodes : Held(q, n)' => ~Fresh(Coming', q) /\ assigned'[q] = n
  PROVE  Owned(q)'
<1>1. \A l \in Loops : job'[l][q].at # "try" /\ \A s : job'[l][q] # [at |-> "assign", node |-> s]
  BY DEF NoJob
<1>2. ~At(q, {"try"})' /\ \A n : ~Assigning(q, n)'
  BY <1>1 DEF At, Assigning
<1>3. Unique(q)'
  BY DEF Unique
<1>4. Exclusive(q)'
  BY <1>1, <1>2 DEF Exclusive, Token
<1> QED
  BY <1>3, <1>4 DEF Owned

(* A pod is decided about by one loop, and nobody holds it.                *)
LEMMA DecidedIsFree ==
  ASSUME NEW l \in Loops, NEW p, Owned(p), job[l][p].at = "try" \/ (job[l][p].at = "retry" /\ p \in pending)
  PROVE  /\ \A n \in Nodes : ~Held(p, n) /\ ~Assigning(p, n)
         /\ ~Fresh(Coming, p) /\ job[Other(l)][p].at # "try"
<1>1. Token(p)
  BY DEF Token, At
<1>2. ~Fresh(Coming, p)
  BY DEF Owned, Exclusive, NoJob
<1>3. job[Other(l)][p].at # "try"
  <2> SUFFICES ASSUME job[Other(l)][p].at = "try" PROVE FALSE
    OBVIOUS
  <2>1. Other(l) = "pods" /\ p \notin pending /\ job["nodes"][p] = NoJob
    BY TwoLoops DEF Owned, Exclusive
  <2>2. l = "nodes"
    BY <2>1 DEF Other, Loops
  <2> QED
    BY <2>1, <2>2 DEF NoJob
<1> QED
  BY <1>1, <1>2, <1>3 DEF Owned, Exclusive
-----------------------------------------------------------------------------

(* Room is given only by a decision.                                       *)
NoGain(q) == \A n \in Nodes : Held(q, n)' => Held(q, n)

LEMMA UnmovedGain ==
  ASSUME NEW q, Unmoved(q)
  PROVE  NoGain(q)
BY UnmovedHeld DEF NoGain

LEMMA SameJobsOwned ==
  ASSUME NEW q, Owned(q), NoGain(q), \A l \in Loops : job'[l][q] = job[l][q],
         Fresh(Coming', q) => Fresh(Coming, q), q \in pending' => q \in pending,
         \A n \in Nodes : Assigning(q, n) /\ life'[q] = "live" => book'.placed[q] = n
  PROVE  Owned(q)'
<1>1. (\A n : Assigning(q, n)' <=> Assigning(q, n)) /\ \A places : At(q, places)' <=> At(q, places)
  BY DEF Assigning, At
<1>2. "nodes" \in Loops
  BY DEF Loops
<1>3. /\ Fresh(Coming, q) => \A l \in Loops : job[l][q] = NoJob
      /\ \A l \in Loops : job[l][q].at = "try" => l = "pods" /\ job["nodes"][q] = NoJob
  BY DEF Owned, Exclusive
<1> QED
  BY <1>1, <1>2, <1>3, LessOwned DEF NoGain

LEMMA CreatedOwned ==
  ASSUME RIInv, Ground, NEW p \in Pods, CreatePod(p), Within
  PROVE  Owned(p)' /\ NoGain(p)
<1>1. PICK e : e = PodEvent("ADDED", p, NoNode)
  OBVIOUS
<1>2. e \in PodEvents /\ \A n \in Nodes : ~Mention(e, p, n)
  BY <1>1, EventTypes, NoNodeIsNoNode DEF MaybeNodes, PodEvent, Mention
<1>3. Posted(e) /\ assigned'[p] = assigned[p] /\ MindKept(p) /\ Quiet(p)
  BY <1>1, CreateEffect DEF Within, Ground, Unborn
<1>4. \A n : ~Mentions(Coming, p, n)
  BY <1>3 DEF Quiet, About, Mentions, Mention
<1>5. \A n \in Nodes : ~Mentions(Coming', p, n)
  BY <1>2, <1>3, <1>4, PostedMentions
<1>6. p \notin pending' /\ book'.placed[p] = NoNode /\ assigned'[p] = NoNode
  BY <1>3 DEF MindKept, Quiet
<1>7. \A l \in Loops : job'[l][p] = NoJob
  BY <1>3 DEF MindKept, Quiet
<1>8. \A n \in Nodes : ~Recording(p, n)'
  BY <1>3 DEF MindKept, Quiet
<1>9. \A n \in Nodes : ~Held(p, n)'
  BY <1>5, <1>6, <1>8, NoNodeIsNoNode DEF Held
<1> QED
  BY <1>6, <1>7, <1>9, BlankOwned DEF NoGain

LEMMA DeletedOwned ==
  ASSUME RIInv, Ground, NEW p \in Pods, DeletePod(p), Within, Owned(p)
  PROVE  Owned(p)' /\ NoGain(p)
<1>1. PICK e : e = PodEvent("DELETED", p, assigned[p])
  OBVIOUS
<1>2. e \in PodEvents /\ \A n \in Nodes : ~Mention(e, p, n)
  BY <1>1, DeleteEffect DEF PodEvent, Mention, Within
<1>3. Posted(e) /\ life'[p] = "gone" /\ MindKept(p)
  BY <1>1, DeleteEffect DEF Within
<1>4. \A n \in Nodes : Mentions(Coming', p, n) => Mentions(Coming, p, n)
  BY <1>2, <1>3, PostedMentions
<1>5. Fresh(Coming', p) => Fresh(Coming, p)
  <2>1. ~FreshEvent(e, p)
    BY <1>1 DEF FreshEvent, PodEvent
  <2>2. Coming \in Seq(PodEvents)
    BY ComingType
  <2>3. Fresh(Append(Coming, e), p) <=> Fresh(Coming, p)
    BY <1>2, <2>1, <2>2, AppendAbout
  <2> QED
    BY <1>3, <2>3 DEF Posted
<1>6. NoGain(p)
  BY <1>3, <1>4 DEF NoGain, Held, MindKept
<1>7. \A l \in Loops : job'[l][p] = job[l][p]
  BY <1>3 DEF MindKept
<1> QED
  BY <1>3, <1>5, <1>6, <1>7, SameJobsOwned DEF MindKept

LEMMA SweptOwned ==
  ASSUME RIInv, Ground, NEW l \in Loops, Sweep(l), Within, NEW q \in Pods, Owned(q)
  PROVE  Owned(q)' /\ NoGain(q)
<1>1. /\ UNCHANGED <<life, assigned, book, pending>>
      /\ job'[l][q] = IF q \in pending THEN [at |-> "retry"] ELSE NoJob
      /\ \A m \in Loops : m # l => job'[m][q] = job[m][q]
      /\ Coming' = Coming
      /\ \A n : Recording(q, n)' <=> Recording(q, n)
  BY SweepEffect DEF Within
<1>2. job'[l][q].at # "try" /\ \A s : job'[l][q] # [at |-> "assign", node |-> s]
  BY <1>1 DEF NoJob
<1>3. (\A n : Assigning(q, n)' => Assigning(q, n)) /\ (At(q, {"try"})' => At(q, {"try"}))
  BY <1>1, <1>2 DEF Assigning, At
<1>4. NoGain(q)
  BY <1>1 DEF NoGain, Held
<1>5. /\ Fresh(Coming, q) => q \notin pending /\ \A m \in Loops : job[m][q] = NoJob
      /\ \A m \in Loops : job[m][q].at = "try" => m = "pods" /\ q \notin pending /\ job["nodes"][q] = NoJob
      /\ \A n \in Nodes : Assigning(q, n) /\ life[q] = "live" => book.placed[q] = n
  BY DEF Owned, Exclusive
<1>6. Fresh(Coming', q) => \A m \in Loops : job'[m][q] = NoJob
  BY <1>1, <1>5
<1>7. \A m \in Loops : job'[m][q].at = "try" => job[m][q].at = "try"
  BY <1>1, <1>2
<1>8. \A m \in Loops : job'[m][q].at = "try" => m = "pods" /\ job'["nodes"][q] = NoJob
  <2> SUFFICES ASSUME NEW m \in Loops, job'[m][q].at = "try" PROVE m = "pods" /\ job'["nodes"][q] = NoJob
    OBVIOUS
  <2>1. m = "pods" /\ q \notin pending /\ job["nodes"][q] = NoJob
    BY <1>5, <1>7
  <2>2. job'["nodes"][q] = NoJob
    BY <1>1, <2>1 DEF Loops
  <2> QED
    BY <2>1, <2>2
<1>9. \A n \in Nodes : Assigning(q, n)' /\ life'[q] = "live" => book'.placed[q] = n
  BY <1>1, <1>3, <1>5
<1>10. Fresh(Coming', q) => Fresh(Coming, q)
  BY <1>1
<1> QED
  BY <1>1, <1>3, <1>4, <1>6, <1>7, <1>8, <1>9, <1>10, LessOwned DEF NoGain

LEMMA EvictedOwned ==
  ASSUME RIInv, Ground, NodesGood, losses = 0, RNext, Evict, Within, NEW q \in Pods, Owned(q)
  PROVE  Owned(q)' /\ NoGain(q)
<1>1. todo' = {}
  BY NoOrphansStep DEF NoOrphans
<1>2. todo = {}
  BY DEF NodesGood
<1>3. /\ UNCHANGED <<pending, job>> /\ loop'["pods"] = loop["pods"] /\ StoreKept(q) /\ NewsKept(q)
      /\ book'.placed[q] = book.placed[q]
  BY <1>1, EvictEffect DEF Within
<1>4. MindKept(q)
  BY <1>1, <1>2, <1>3 DEF MindKept, Recording
<1> QED
  BY <1>3, <1>4, UnmovedOwned, UnmovedGain DEF Unmoved
-----------------------------------------------------------------------------

LEMMA RemovalOwned ==
  ASSUME RIInv, Ground, Taken(TakeRemoval), NEW q \in Pods, q = Head(Coming).pod, Owned(q)
  PROVE  Owned(q)' /\ \A n \in Nodes : ~Held(q, n)'
<1>1. PICK e : e = Head(Coming)
  OBVIOUS
<1>2. /\ Coming \in Seq(PodEvents) /\ Coming # <<>> /\ Coming' = Tail(Coming)
      /\ e.kind = "DELETED" /\ e.pod = q
      /\ UNCHANGED <<life, assigned, job>>
      /\ pending' = pending \ {q}
      /\ book'.placed[q] = NoNode
      /\ \A n : ~Recording(q, n)'
  BY <1>1, RemovalEffect DEF Taken, Within
<1>3. life[q] = "gone"
  <2>1. Deletes(Coming, q)
    BY <1>1, <1>2, TailAbout
  <2> QED
    BY <2>1 DEF Ground, Buried
<1>4. ~About(Coming', q)
  BY <1>1, <1>2, TailOrder DEF Ground, Buried
<1>5. ~Fresh(Coming', q) /\ \A n : ~Mentions(Coming', q, n)
  BY <1>4 DEF About, Fresh, FreshEvent, Mentions, Mention
<1>6. \A n \in Nodes : ~Held(q, n)'
  BY <1>2, <1>3, <1>5, NoNodeIsNoNode DEF Held
<1>7. NoGain(q)
  BY <1>6 DEF NoGain
<1>8. \A l \in Loops : job'[l][q] = job[l][q]
  BY <1>2
<1>9. life'[q] # "live" /\ (q \in pending' => q \in pending)
  BY <1>2, <1>3
<1>10. Owned(q)'
  BY <1>5, <1>7, <1>8, <1>9, SameJobsOwned
<1> QED
  BY <1>6, <1>10

LEMMA PlacementOwned ==
  ASSUME RIInv, Ground, NodesGood, losses = 0, Taken(TakePlacement), NEW q \in Pods, q = Head(Coming).pod, Owned(q)
  PROVE  Owned(q)' /\ NoGain(q) /\ job' = job /\ \A n : Recording(q, n)' <=> n = Head(Coming).node
<1>1. PICK e : e = Head(Coming)
  OBVIOUS
<1>2. q = e.pod
  BY <1>1
<1>3. /\ Coming \in Seq(PodEvents) /\ Coming # <<>> /\ Coming' = Tail(Coming)
      /\ e.kind # "DELETED" /\ e.node \in Nodes
      /\ UNCHANGED <<life, assigned, book, pending>>
      /\ \/ view[e.node] = "NOT_READY"
         \/ job' = job /\ \A r, n : Recording(r, n)' <=> r = e.pod /\ n = e.node
  BY <1>1, PlacementEffect DEF Taken, Within
<1>4. Mentions(Coming, q, e.node)
  BY <1>1, <1>2, <1>3, TailMentions DEF Mention
<1>5. view[e.node] # "NOT_READY"
  BY <1>3, <1>4 DEF NodesGood, Used, Uses, Bad
<1>6. job' = job /\ \A n : Recording(q, n)' <=> n = e.node
  BY <1>2, <1>3, <1>5
<1>7. /\ Fresh(Coming', q) => Fresh(Coming, q)
      /\ \A n : Mentions(Coming', q, n) => Mentions(Coming, q, n)
  BY <1>3, TailAbout, TailMentions
<1>8. NoGain(q)
  BY <1>3, <1>4, <1>6, <1>7 DEF NoGain, Held
<1>9. \A n \in Nodes : Assigning(q, n) /\ life'[q] = "live" => book'.placed[q] = n
  BY <1>3 DEF Owned, Exclusive
<1>10. Owned(q)'
  BY <1>3, <1>6, <1>7, <1>8, <1>9, SameJobsOwned
<1> QED
  BY <1>1, <1>6, <1>8, <1>10

LEMMA RecordedOwned ==
  ASSUME RIInv, Ground, Taken(RecordPlacement), NEW q \in Pods, Owned(q)
  PROVE  Owned(q)' /\ NoGain(q)
<1>1. PICK p \in Pods, n \in Nodes :
         /\ Recording(p, n)
         /\ \A r, m : ~Recording(r, m)'
         /\ UNCHANGED <<life, assigned, job>> /\ Coming' = Coming
         /\ pending' = pending \ {p}
         /\ book'.placed[p] = n
         /\ \A r \in Pods : r # p => Unmoved(r)
  BY RecordEffect DEF Taken, Within
<1>2. CASE q # p
  BY <1>1, <1>2, UnmovedOwned, UnmovedGain
<1>3. CASE q = p
  <2>1. NoGain(q)
    BY <1>1, <1>3 DEF NoGain, Held
  <2>2. Held(q, n)
    BY <1>1, <1>3 DEF Held
  <2>3. ASSUME NEW m \in Nodes, Assigning(q, m), life'[q] = "live" PROVE book'.placed[q] = m
    <3>1. book.placed[q] = m
      BY <1>1, <2>3 DEF Owned, Exclusive
    <3>2. Held(q, m)
      BY <3>1 DEF Held
    <3> QED
      BY <1>1, <1>3, <2>2, <3>2 DEF Owned, Unique
  <2>4. Owned(q)'
    BY <1>1, <1>3, <2>1, <2>3, SameJobsOwned
  <2> QED
    BY <2>1, <2>4
<1> QED
  BY <1>2, <1>3

LEMMA UnplacedOwned ==
  ASSUME RIInv, Ground, Taken(TakeUnplaced), NEW q \in Pods, q = Head(Coming).pod, Owned(q)
  PROVE  Owned(q)' /\ NoGain(q)
<1>1. PICK e : e = Head(Coming)
  OBVIOUS
<1>2. /\ Coming \in Seq(PodEvents) /\ Coming # <<>> /\ Coming' = Tail(Coming)
      /\ e.kind # "DELETED" /\ e.node = NoNode /\ e.pod = q
      /\ UNCHANGED <<life, assigned, book, pending>>
      /\ NoJobs("pods")
      /\ \A r, n : ~Recording(r, n)'
      /\ job'["nodes"][q] = job["nodes"][q]
      /\ job'["pods"][q] = IF e.kind = "ADDED" THEN [at |-> "try"] ELSE NoJob
  BY <1>1, UnplacedEffect DEF Taken, Within
<1>3. /\ Fresh(Coming', q) => Fresh(Coming, q)
      /\ \A n : Mentions(Coming', q, n) => Mentions(Coming, q, n)
  BY <1>2, TailAbout, TailMentions
<1>4. NoGain(q)
  BY <1>2, <1>3 DEF NoGain, Held
<1>5. job["pods"][q] = NoJob
  BY <1>2 DEF NoJobs
<1>6. CASE e.kind = "ADDED"
  <2>1. Fresh(Coming, q)
    BY <1>1, <1>2, <1>6, TailAbout DEF FreshEvent
  <2>2. q \notin pending /\ job["nodes"][q] = NoJob /\ \A n \in Nodes : ~Held(q, n)
    BY <2>1 DEF Owned, Exclusive, Token, Loops
  <2>3. ~Fresh(Coming', q)
    BY <1>1, <1>2, <1>6, TailOrder DEF Ground
  <2>4. job'["pods"][q] = [at |-> "try"] /\ job'["nodes"][q] = NoJob
    BY <1>2, <1>6, <2>2
  <2>5. /\ \A l \in Loops : \A s : job'[l][q] # [at |-> "assign", node |-> s]
        /\ \A l \in Loops : job'[l][q].at = "try" => l = "pods"
    BY <2>4 DEF Loops, NoJob
  <2>6. (\A n : ~Assigning(q, n)') /\ \A n \in Nodes : ~Held(q, n)'
    BY <1>4, <2>2, <2>5 DEF Assigning, NoGain
  <2>7. Exclusive(q)'
    BY <1>2, <2>2, <2>3, <2>4, <2>5, <2>6 DEF Exclusive
  <2>8. Unique(q)'
    BY <2>6 DEF Unique
  <2> QED
    BY <1>4, <2>7, <2>8 DEF Owned
<1>7. CASE e.kind # "ADDED"
  <2>1. job'["pods"][q] = job["pods"][q]
    BY <1>2, <1>5, <1>7
  <2>2. \A l \in Loops : job'[l][q] = job[l][q]
    BY <1>2, <2>1 DEF Loops
  <2>3. \A n \in Nodes : Assigning(q, n) /\ life'[q] = "live" => book'.placed[q] = n
    BY <1>2 DEF Owned, Exclusive
  <2>4. Owned(q)'
    BY <1>2, <1>3, <1>4, <2>2, <2>3, SameJobsOwned
  <2> QED
    BY <1>4, <2>4
<1> QED
  BY <1>6, <1>7

LEMMA ListedOwned ==
  ASSUME RIInv, Ground, List("pods"), NEW q \in Pods
  PROVE  Owned(q)' /\ NoGain(q)
<1>1. PICK s \in PodSnapshots : Coming' = s
  BY ListPodsEffect DEF Ground
<1>2. (\A r : StoreKept(r) /\ MindKept(r)) /\ stream["pods"] = "closed" /\ UNCHANGED <<assigned, life>>
  BY ListPodsEffect DEF Ground, StoreUntouched
<1>3. NoWork /\ loop["pods"] = IdleLoop /\ book.placed[q] = NoNode
  BY <1>2 DEF Ground, Blank
<1>4. q \notin pending' /\ book'.placed[q] = NoNode /\ \A n \in Nodes : ~Recording(q, n)'
  BY <1>2, <1>3, NotRecording DEF MindKept, NoWork
<1>5. \A l \in Loops : job'[l][q] = NoJob
  BY <1>2, <1>3 DEF MindKept, NoWork
<1>6. /\ Fresh(Coming', q) => assigned[q] = NoNode
      /\ \A n : Mentions(Coming', q, n) => life[q] = "live" /\ assigned[q] = n
  BY <1>1, SnapshotTells DEF RIInv, IInv, Live
<1>7. \A n \in Nodes : Held(q, n)' => life[q] = "live" /\ assigned[q] = n
  BY <1>2, <1>4, <1>6, NoNodeIsNoNode DEF Held
<1>8. NoGain(q)
  BY <1>7 DEF NoGain, Held
<1>9. \A n \in Nodes : Held(q, n)' => ~Fresh(Coming', q) /\ assigned'[q] = n
  BY <1>2, <1>6, <1>7, NoNodeIsNoNode
<1> QED
  BY <1>4, <1>5, <1>8, <1>9, BlankOwned

LEMMA RestartedOwned ==
  ASSUME RIInv, Restart, NEW q \in Pods
  PROVE  Owned(q)' /\ NoGain(q)
<1>1. /\ Coming' = <<>> /\ UNCHANGED <<life, assigned>>
      /\ q \notin pending' /\ book'.placed[q] = NoNode /\ \A n : ~Recording(q, n)'
  BY RestartEffect
<1>2. \A l \in Loops : job'[l][q] = NoJob
  BY RestartEffect
<1>3. ~Fresh(Coming', q) /\ \A n : ~Mentions(Coming', q, n)
  <2>1. DOMAIN Coming' = {}
    BY <1>1
  <2> QED
    BY <2>1, NoEvents
<1>4. \A n \in Nodes : Held(q, n)' => life[q] = "live" /\ assigned[q] = n
  BY <1>1, <1>3, NoNodeIsNoNode DEF Held
<1>5. NoGain(q)
  BY <1>4 DEF NoGain, Held
<1>6. \A n \in Nodes : Held(q, n)' => ~Fresh(Coming', q) /\ assigned'[q] = n
  BY <1>1, <1>3, <1>4
<1> QED
  BY <1>1, <1>2, <1>5, <1>6, BlankOwned
-----------------------------------------------------------------------------

(* Who decides about a pod: a try, or a retry of one that is pending.      *)
Deciding(l, p) == job[l][p].at = "try" \/ (job[l][p].at = "retry" /\ p \in pending)
Gains(p, n) == \E l \in Loops : Deciding(l, p) /\ PlacedAt(l, p, n) /\ JobKeeps(l, p) /\ Coming' = Coming
GainsOnly(q) == \A n \in Nodes : Held(q, n)' => Held(q, n) \/ Gains(q, n)

LEMMA ParkedOwned ==
  ASSUME RIInv, NEW l \in Loops, NEW p \in Pods, Owned(p), Deciding(l, p), Parked(l, p), JobKeeps(l, p),
         Coming' = Coming, StoreKept(p)
  PROVE  Owned(p)' /\ NoGain(p)
<1>1. /\ \A n \in Nodes : ~Held(p, n) /\ ~Assigning(p, n)
      /\ ~Fresh(Coming, p) /\ job[Other(l)][p].at # "try"
  BY DecidedIsFree DEF Deciding
<1>2. /\ \A n : Recording(p, n)' <=> Recording(p, n)
      /\ book' = book /\ job'[l][p] = [at |-> "assign", node |-> NoNode]
      /\ job'[Other(l)][p] = job[Other(l)][p]
  BY LoopKept, TwoLoops DEF JobKeeps, Parked
<1>3. NoGain(p)
  BY <1>2 DEF NoGain, Held, StoreKept
<1>4. \A n \in Nodes : ~Held(p, n)'
  BY <1>1, <1>3 DEF NoGain
<1>5. \A n \in Nodes : ~Assigning(p, n)'
  <2> SUFFICES ASSUME NEW n \in Nodes, Assigning(p, n)' PROVE FALSE
    OBVIOUS
  <2>1. job'[l][p] # [at |-> "assign", node |-> n]
    BY <1>2, NoNodeIsNoNode
  <2> QED
    BY <1>1, <2>1, JobKeepsAssigning
<1>6. \A m \in Loops : job'[m][p].at # "try"
  BY <1>1, <1>2, TwoLoops
<1>7. Exclusive(p)'
  BY <1>1, <1>4, <1>5, <1>6 DEF Exclusive
<1>8. Unique(p)'
  BY <1>4 DEF Unique
<1> QED
  BY <1>3, <1>7, <1>8 DEF Owned

LEMMA PlacedOwned ==
  ASSUME RIInv, NEW l \in Loops, NEW p \in Pods, Owned(p), Deciding(l, p), NEW n \in Nodes, PlacedAt(l, p, n),
         JobKeeps(l, p), Coming' = Coming, StoreKept(p)
  PROVE  Owned(p)' /\ \A m \in Nodes : Held(p, m)' => m = n
<1>1. /\ \A m \in Nodes : ~Held(p, m) /\ ~Assigning(p, m)
      /\ ~Fresh(Coming, p) /\ job[Other(l)][p].at # "try"
  BY DecidedIsFree DEF Deciding
<1>2. /\ \A m : Recording(p, m)' <=> Recording(p, m)
      /\ book'.placed[p] = n /\ job'[l][p] = [at |-> "assign", node |-> n] /\ pending' = pending \ {p}
      /\ job'[Other(l)][p] = job[Other(l)][p]
  BY LoopKept, TwoLoops DEF JobKeeps, PlacedAt
<1>3. \A m \in Nodes : Held(p, m)' => m = n
  BY <1>1, <1>2 DEF Held, StoreKept
<1>4. \A m \in Nodes : Assigning(p, m)' => m = n
  <2> SUFFICES ASSUME NEW m \in Nodes, Assigning(p, m)' PROVE m = n
    OBVIOUS
  <2>1. job'[l][p] = [at |-> "assign", node |-> m]
    BY <1>1, JobKeepsAssigning
  <2> QED
    BY <1>2, <2>1
<1>5. \A m \in Loops : job'[m][p].at # "try"
  BY <1>1, <1>2, TwoLoops
<1>6. ~Fresh(Coming', p) /\ ~At(p, {"try"})' /\ p \notin pending'
  BY <1>1, <1>2, <1>5 DEF At
<1>7. Exclusive(p)'
  BY <1>2, <1>4, <1>5, <1>6 DEF Exclusive, Token
<1>8. Unique(p)'
  BY <1>3 DEF Unique
<1> QED
  BY <1>3, <1>7, <1>8 DEF Owned

(* A job that ends, or goes on to something harmless.                      *)
LEMMA EndedOwned ==
  ASSUME RIInv, NEW l \in Loops, NEW p \in Pods, Owned(p), JobKeeps(l, p), book' = book, p \in pending' => p \in pending,
         job[l][p] # NoJob, job'[l][p] \in {NoJob, [at |-> "drop"]}, NoGain(p), Fresh(Coming', p) => Fresh(Coming, p)
  PROVE  Owned(p)'
<1>1. job'[l][p].at # "try" /\ \A s : job'[l][p] # [at |-> "assign", node |-> s]
  BY DEF NoJob
<1>2. \A m \in Loops : m # l => job'[m][p] = job[m][p]
  BY DEF JobKeeps
<1>3. (\A n : Assigning(p, n)' => Assigning(p, n)) /\ \A m \in Loops : job'[m][p].at = "try" => job[m][p].at = "try"
  BY <1>1, <1>2 DEF Assigning
<1>4. At(p, {"try"})' => At(p, {"try"})
  BY <1>3 DEF At
<1>5. ~Fresh(Coming', p)
  BY DEF Owned, Exclusive
<1>6. \A m \in Loops : job'[m][p].at = "try" => m = "pods" /\ job'["nodes"][p] = NoJob
  <2> SUFFICES ASSUME NEW m \in Loops, job'[m][p].at = "try" PROVE m = "pods" /\ job'["nodes"][p] = NoJob
    OBVIOUS
  <2>1. m = "pods" /\ job["nodes"][p] = NoJob /\ m # l
    BY <1>1, <1>3 DEF Owned, Exclusive
  <2>2. l = "nodes"
    BY <2>1 DEF Loops
  <2> QED
    BY <2>1, <2>2
<1>7. life' = life
  BY DEF JobKeeps
<1>8. \A n \in Nodes : Assigning(p, n)' /\ life'[p] = "live" => book'.placed[p] = n
  BY <1>3, <1>7 DEF Owned, Exclusive
<1> QED
  BY <1>3, <1>4, <1>5, <1>6, <1>8, LessOwned DEF NoGain

LEMMA AssignedOwned ==
  ASSUME RIInv, Ground, NEW l \in Loops, NEW p \in Pods, Owned(p), Assign(l, p), UNCHANGED linkVars
  PROVE  Owned(p)' /\ NoGain(p)
<1>1. PICK n \in MaybeNodes :
         /\ JobKeeps(l, p) /\ job[l][p] = [at |-> "assign", node |-> n] /\ job'[l][p] = NoJob
         /\ life[p] = "live" /\ assigned'[p] = n
         /\ AssignedEvent(p, n) \in PodEvents /\ Posted(AssignedEvent(p, n))
         /\ UNCHANGED <<pending, book>>
  BY AssignEffect
<1>2. n \in Nodes => Held(p, n)
  <2>1. Assigning(p, n)
    BY <1>1 DEF Assigning
  <2> QED
    BY <1>1, <2>1 DEF Owned, Exclusive, Held
<1>3. \A m : Mentions(Coming', p, m) => Mentions(Coming, p, m) \/ m = n
  BY <1>1, PostedMentions DEF Mention, AssignedEvent, PodEvent
<1>4. life' = life /\ \A m : Recording(p, m)' <=> Recording(p, m)
  BY <1>1, LoopKept DEF JobKeeps
<1>5. NoGain(p)
  BY <1>1, <1>2, <1>3, <1>4 DEF NoGain, Held
<1>6. Fresh(Coming', p) => Fresh(Coming, p)
  <2>1. ~FreshEvent(AssignedEvent(p, n), p)
    BY DEF FreshEvent, AssignedEvent, PodEvent
  <2>2. Coming' = Append(Coming, AssignedEvent(p, n)) \/ Coming' = Coming
    BY <1>1 DEF Posted
  <2>3. Coming \in Seq(PodEvents) /\ AssignedEvent(p, n) \in PodEvents
    BY <1>1, ComingType
  <2>4. Fresh(Append(Coming, AssignedEvent(p, n)), p) <=> Fresh(Coming, p) \/ FreshEvent(AssignedEvent(p, n), p)
    BY <2>3, AppendAbout
  <2> QED
    BY <2>1, <2>2, <2>4
<1>7. job[l][p] # NoJob
  BY <1>1 DEF NoJob
<1> QED
  BY <1>1, <1>5, <1>6, <1>7, EndedOwned

LEMMA WorkedOwned ==
  ASSUME RIInv, Ground, NodesGood, losses = 0, Worked, NEW q \in Pods, Owned(q)
  PROVE  Owned(q)' /\ GainsOnly(q)
<1>1. PICK l \in Loops, p \in Pods :
         /\ \/ Orphan(l, p) \/ OrphanGone(l, p) \/ OrphanFails(l, p)
            \/ (Try(l, p) \/ Retry(l, p))
            \/ Assign(l, p) \/ NotFound(l, p) \/ DropPending(l, p) \/ AssignFails(l, p)
         /\ UNCHANGED linkVars
  BY WorkCases
<1>2. JobKeeps(l, p) /\ job[l][p] # NoJob
  BY <1>1, JobKept
<1>3. CASE p # q
  BY <1>2, <1>3, UnmovedOwned, UnmovedGain DEF JobKeeps, NoGain, GainsOnly
<1>4. CASE p = q
  <2>1. job[l][p].at # "orphan"
    BY DEF NodesGood, At
  <2>2. ~Orphan(l, p) /\ ~OrphanGone(l, p) /\ ~OrphanFails(l, p)
    BY <2>1 DEF Orphan, OrphanGone, OrphanFails
  <2>3. CASE NotFound(l, p) \/ DropPending(l, p) \/ AssignFails(l, p)
    <3>1. /\ Coming' = Coming /\ StoreKept(p) /\ book' = book /\ (p \in pending' => p \in pending)
          /\ job'[l][p] \in {NoJob, [at |-> "drop"]}
      BY <1>1, <2>3, NotFoundEffect, DropEffect, AssignFailsEffect
    <3>2. \A n : Recording(p, n)' <=> Recording(p, n)
      BY <1>2, LoopKept DEF JobKeeps
    <3>3. NoGain(p)
      BY <3>1, <3>2 DEF NoGain, Held, StoreKept
    <3> QED
      BY <1>2, <1>4, <3>1, <3>3, EndedOwned DEF NoGain, GainsOnly
  <2>4. CASE Try(l, p) \/ Retry(l, p)
    <3>1. /\ Coming' = Coming /\ StoreKept(p)
          /\ \/ job[l][p].at = "try"
             \/ job[l][p].at = "retry"
          /\ \/ /\ job[l][p].at = "retry" => p \in pending
                /\ Parked(l, p) \/ \E n \in Nodes : PlacedAt(l, p, n)
             \/ /\ job[l][p].at = "retry" /\ p \notin pending
                /\ job'[l][p] = NoJob /\ UNCHANGED <<pending, book>>
      BY <1>1, <2>4, TryEffect
    <3>2. CASE (job[l][p].at = "retry" => p \in pending) /\ Parked(l, p)
      <4>1. Deciding(l, p)
        BY <3>1, <3>2 DEF Deciding
      <4> QED
        BY <1>2, <1>4, <3>1, <3>2, <4>1, ParkedOwned DEF NoGain, GainsOnly
    <3>3. ASSUME job[l][p].at = "retry" => p \in pending, NEW n \in Nodes, PlacedAt(l, p, n)
          PROVE  Owned(q)' /\ GainsOnly(q)
      <4>1. Deciding(l, p)
        BY <3>1, <3>3 DEF Deciding
      <4>2. Owned(p)' /\ \A m \in Nodes : Held(p, m)' => m = n
        BY <1>2, <1>4, <3>1, <3>3, <4>1, PlacedOwned
      <4>3. Gains(p, n)
        BY <1>2, <3>1, <3>3, <4>1 DEF Gains
      <4> QED
        BY <1>4, <4>2, <4>3 DEF GainsOnly
    <3>4. CASE job[l][p].at = "retry" /\ p \notin pending /\ job'[l][p] = NoJob /\ UNCHANGED <<pending, book>>
      <4>1. \A n : Recording(p, n)' <=> Recording(p, n)
        BY <1>2, LoopKept DEF JobKeeps
      <4>2. NoGain(p)
        BY <3>1, <3>4, <4>1 DEF NoGain, Held, StoreKept
      <4> QED
        BY <1>2, <1>4, <3>1, <3>4, <4>2, EndedOwned DEF NoGain, GainsOnly
    <3> QED
      BY <3>1, <3>2, <3>3, <3>4
  <2>5. CASE Assign(l, p)
    BY <1>1, <1>4, <2>5, AssignedOwned DEF NoGain, GainsOnly
  <2> QED
    BY <1>1, <2>2, <2>3, <2>4, <2>5
<1> QED
  BY <1>3, <1>4
-----------------------------------------------------------------------------

LEMMA OtherOwned ==
  ASSUME RIInv, Ground, NodesGood, losses = 0, RNext, ~Worked, ~LateAssign, NEW q \in Pods, Owned(q)
  PROVE  Owned(q)' /\ NoGain(q)
<1>1. CASE PodCreated
  <2>1. PICK p \in Pods : CreatePod(p) /\ Within
    BY <1>1 DEF PodCreated
  <2>2. q # p => Unmoved(q)
    BY <2>1, CreateEffect DEF Within
  <2> QED
    BY <2>1, <2>2, CreatedOwned, UnmovedOwned, UnmovedGain
<1>2. CASE PodDeleted
  <2>1. PICK p \in Pods : DeletePod(p) /\ Within
    BY <1>2 DEF PodDeleted
  <2>2. q # p => Unmoved(q)
    BY <2>1, DeleteEffect DEF Within
  <2> QED
    BY <2>1, <2>2, DeletedOwned, UnmovedOwned, UnmovedGain
<1>3. CASE NodeNews \/ Linked
  <2>1. Unmoved(q)
    BY <1>3, NodeEffect, LinkEffect DEF NodeNews, Within, Linked, Ground
  <2> QED
    BY <2>1, UnmovedOwned, UnmovedGain
<1>4. CASE Evict /\ Within
  BY <1>4, EvictedOwned
<1>5. CASE Swept
  BY <1>5, SweptOwned DEF Swept
<1>6. CASE OrphanTaken
  BY <1>6 DEF OrphanTaken, NextOrphan, NodesGood
<1>7. CASE Taken(TakeRemoval)
  <2>1. q # Head(Coming).pod => Unmoved(q)
    BY <1>7, RemovalEffect DEF Taken, Within
  <2> QED
    BY <1>7, <2>1, RemovalOwned, UnmovedOwned, UnmovedGain DEF NoGain
<1>8. CASE Taken(TakePlacement)
  <2>1. q # Head(Coming).pod => Unmoved(q)
    BY <1>8, PlacementEffect DEF Taken, Within
  <2> QED
    BY <1>8, <2>1, PlacementOwned, UnmovedOwned, UnmovedGain
<1>9. CASE Taken(RecordPlacement)
  BY <1>9, RecordedOwned
<1>10. CASE Taken(TakeUnplaced)
  <2>1. q # Head(Coming).pod => Unmoved(q)
    BY <1>10, UnplacedEffect DEF Taken, Within
  <2> QED
    BY <1>10, <2>1, UnplacedOwned, UnmovedOwned, UnmovedGain
<1>11. CASE List("pods")
  BY <1>11, ListedOwned
<1>12. CASE Restart
  BY <1>12, RestartedOwned
<1> QED
  BY <1>1, <1>2, <1>3, <1>4, <1>5, <1>6, <1>7, <1>8, <1>9, <1>10, <1>11, <1>12, NextCases

LEMMA OwningStep ==
  ASSUME RIInv, Ground, NodesGood, Owning, RNext
  PROVE  Owning'
<1> SUFFICES ASSUME Clean', NEW q \in Pods PROVE Owned(q)'
  BY DEF Owning
<1>1. Clean /\ ~LateAssign
  BY CleanBefore
<1> QED
  BY <1>1, WorkedOwned, OtherOwned DEF Owning, Clean

(* Room is gained by decisions only.                                       *)
LEMMA HeldBefore ==
  ASSUME RIInv, Ground, NodesGood, Owning, RNext, Clean', NEW q \in Pods
  PROVE  /\ GainsOnly(q) /\ Owned(q)
         /\ ~Worked => NoGain(q)
<1>1. Clean /\ ~LateAssign
  BY CleanBefore
<1> QED
  BY <1>1, WorkedOwned, OtherOwned DEF Owning, Clean, GainsOnly, NoGain

(* What the work of a job does to the book.                                *)
LEMMA WorkedBook ==
  ASSUME RIInv, NodesGood, losses = 0, Worked
  PROVE  \E l \in Loops, p \in Pods :
           /\ JobKeeps(l, p) /\ job[l][p] # NoJob
           /\ \/ book' = book
              \/ Deciding(l, p) /\ Coming' = Coming /\ \E n \in Nodes : PlacedAt(l, p, n)
<1>1. PICK l \in Loops, p \in Pods :
         /\ \/ Orphan(l, p) \/ OrphanGone(l, p) \/ OrphanFails(l, p)
            \/ (Try(l, p) \/ Retry(l, p))
            \/ Assign(l, p) \/ NotFound(l, p) \/ DropPending(l, p) \/ AssignFails(l, p)
         /\ UNCHANGED linkVars
  BY WorkCases
<1>2. JobKeeps(l, p) /\ job[l][p] # NoJob
  BY <1>1, JobKept
<1>3. CASE Try(l, p) \/ Retry(l, p)
  <2>1. /\ Coming' = Coming
        /\ \/ job[l][p].at = "try"
           \/ job[l][p].at = "retry"
        /\ \/ /\ job[l][p].at = "retry" => p \in pending
              /\ Parked(l, p) \/ \E n \in Nodes : PlacedAt(l, p, n)
           \/ UNCHANGED <<pending, book>>
    BY <1>1, <1>3, TryEffect
  <2>2. Parked(l, p) => book' = book
    BY DEF Parked
  <2>3. book' = book \/ (Deciding(l, p) /\ Coming' = Coming /\ \E n \in Nodes : PlacedAt(l, p, n))
    BY <2>1, <2>2 DEF Deciding
  <2> QED
    BY <1>2, <2>3
<1>4. CASE ~Try(l, p) /\ ~Retry(l, p)
  <2>1. book' = book
    BY <1>1, <1>4 DEF Orphan, OrphanGone, OrphanFails, Assign, NotFound, DropPending, AssignFails, stateVars
  <2> QED
    BY <1>2, <2>1
<1> QED
  BY <1>3, <1>4

-----------------------------------------------------------------------------
(* Before the scheduler has done anything it is told what holds room.      *)
Due(p, n) == Recording(p, n) \/ stream["pods"] = "closed" \/ Leading(Coming, p, n)
Counted(p, n) == book.placed[p] = n \/ (NoWork /\ Due(p, n))
Counting == Clean => \A p \in Pods, n \in Nodes : Held(p, n) => Counted(p, n)

LEMMA CountedKept ==
  ASSUME NEW q, NEW n, Counted(q, n), book'.placed[q] = book.placed[q], NoWork => NoWork',
         Due(q, n) => Due(q, n)'
  PROVE  Counted(q, n)'
BY DEF Counted

LEMMA PostedLeading ==
  ASSUME RIInv, NEW e \in PodEvents, Posted(e), NEW q, NEW n, Leading(Coming, q, n)
  PROVE  Leading(Coming', q, n)
BY ComingType, AppendMentions DEF Posted

(* Without work, what begins it is a pod that has no node.                 *)
LEMMA NoWorkStep ==
  ASSUME RIInv, Ground, NodesGood, losses = 0, RNext, NoWork, ~Taken(TakeUnplaced)
  PROVE  NoWork'
<1>1. CASE UNCHANGED <<pending, job>>
  BY <1>1 DEF NoWork
<1>2. CASE PodCreated \/ PodDeleted \/ NodeNews \/ List("pods") \/ Linked \/ LateAssign
  <2>1. UNCHANGED <<pending, job>>
    BY <1>2 DEF PodCreated, CreatePod, PodDeleted, DeletePod, NodeNews, NodeRegisters, NodeConnects, NodeIsLost,
                TakeNodeEvent, List, Linked, Subscribe, StoreUntouched, LateAssign, taskVars, stateVars
  <2> QED
    BY <1>1, <2>1
<1>3. CASE Evict /\ Within
  BY <1>1, <1>3, EvictEffect DEF Within
<1>4. CASE Swept
  <2>1. PICK l \in Loops : Sweep(l) /\ Within
    BY <1>4 DEF Swept
  <2>2. /\ pending' = pending
        /\ \A q \in Pods : job'[l][q] = IF q \in pending THEN [at |-> "retry"] ELSE NoJob
        /\ \A m \in Loops, q \in Pods : m # l => job'[m][q] = job[m][q]
    BY <2>1, SweepEffect DEF Within
  <2> QED
    BY <2>2 DEF NoWork
<1>5. CASE OrphanTaken
  BY <1>5 DEF OrphanTaken, NextOrphan, NodesGood
<1>6. CASE Taken(TakeRemoval)
  <2>1. job' = job /\ pending' \subseteq pending
    BY <1>6, RemovalEffect DEF Taken, Within
  <2> QED
    BY <2>1 DEF NoWork
<1>7. CASE Taken(TakePlacement)
  <2>1. PICK e : e = Head(Coming)
    OBVIOUS
  <2>2. /\ Coming \in Seq(PodEvents) /\ Coming # <<>> /\ e \in PodEvents /\ e.kind # "DELETED" /\ e.node \in Nodes
        /\ (view[e.node] = "NOT_READY" \/ job' = job)
    BY <1>7, <2>1, PlacementEffect DEF Taken, Within
  <2>3. Mentions(Coming, e.pod, e.node) /\ e.pod \in Pods
    BY <2>1, <2>2, TailMentions DEF Mention, PodEvents
  <2>4. view[e.node] # "NOT_READY"
    BY <2>2, <2>3 DEF NodesGood, Used, Uses, Bad
  <2>5. pending' = pending
    BY <1>7, PlacementEffect DEF Taken, Within
  <2> QED
    BY <1>1, <2>2, <2>4, <2>5
<1>8. CASE Taken(RecordPlacement)
  <2>1. job' = job /\ pending' \subseteq pending
    BY <1>8, RecordEffect DEF Taken, Within
  <2> QED
    BY <2>1 DEF NoWork
<1>9. CASE Worked
  <2>1. PICK l \in Loops, p \in Pods : job[l][p] # NoJob
    BY <1>9, WorkedBook
  <2> QED
    BY <2>1 DEF NoWork
<1>10. CASE Restart
  BY <1>10, RestartEffect DEF NoWork
<1> QED
  BY <1>2, <1>3, <1>4, <1>5, <1>6, <1>7, <1>8, <1>9, <1>10, NextCases
-----------------------------------------------------------------------------

LEMMA WorkedCounted ==
  ASSUME RIInv, Ground, NodesGood, losses = 0, Worked, Counting, Clean, NEW q \in Pods, NEW n \in Nodes,
         Owned(q), GainsOnly(q), Held(q, n)'
  PROVE  Counted(q, n)'
<1>1. PICK l \in Loops, p \in Pods :
         /\ JobKeeps(l, p) /\ job[l][p] # NoJob
         /\ \/ book' = book
            \/ Deciding(l, p) /\ Coming' = Coming /\ \E m \in Nodes : PlacedAt(l, p, m)
  BY WorkedBook
<1>2. ~NoWork
  BY <1>1 DEF NoWork
<1>3. CASE Gains(q, n)
  BY <1>3 DEF Gains, PlacedAt, Counted
<1>4. CASE Held(q, n)
  <2>1. book.placed[q] = n
    BY <1>2, <1>4 DEF Counting, Counted
  <2>2. p = q /\ Deciding(l, p) => FALSE
    BY <1>4, DecidedIsFree DEF Deciding
  <2>3. p # q => book'.placed[q] = book.placed[q]
    BY <1>1 DEF JobKeeps, Unmoved, MindKept
  <2>4. book'.placed[q] = book.placed[q]
    BY <1>1, <2>2, <2>3
  <2> QED
    BY <2>1, <2>4 DEF Counted
<1> QED
  BY <1>3, <1>4 DEF GainsOnly

LEMMA TakenCounted ==
  ASSUME RIInv, Ground, NodesGood, losses = 0, RNext, NEW q \in Pods, NEW n \in Nodes, Owned(q), Counted(q, n),
         Held(q, n), Held(q, n)',
         Taken(TakeRemoval) \/ Taken(TakePlacement) \/ Taken(RecordPlacement) \/ Taken(TakeUnplaced)
  PROVE  Counted(q, n)'
<1>0. stream["pods"] = "open" /\ stream' = stream
  BY DEF Taken, Within, linkVars
<1>1. PICK e : e = Head(Coming)
  OBVIOUS
<1>2. CASE Taken(TakeRemoval)
  <2>1. /\ Coming \in Seq(PodEvents) /\ Coming # <<>> /\ e.kind = "DELETED" /\ ~Recording(q, n)
        /\ q # e.pod => Unmoved(q)
    BY <1>1, <1>2, RemovalEffect DEF Taken, Within
  <2>2. q # e.pod
    BY <1>1, <1>2, RemovalOwned
  <2>3. ~Leading(Coming, q, n)
    BY <1>1, <2>1, TailMentions
  <2>4. book.placed[q] = n
    BY <1>0, <2>1, <2>3 DEF Counted, Due
  <2> QED
    BY <2>1, <2>2, <2>4 DEF Unmoved, MindKept, Counted
<1>3. CASE Taken(TakePlacement)
  <2>1. /\ Coming \in Seq(PodEvents) /\ Coming # <<>> /\ Coming' = Tail(Coming) /\ ~Recording(q, n)
        /\ book' = book
    BY <1>1, <1>3, PlacementEffect DEF Taken, Within
  <2>2. NoWork => NoWork'
    <3>1. ~Taken(TakeUnplaced)
      BY <1>3 DEF Taken, TakePlacement, TakeUnplaced
    <3> QED
      BY <3>1, NoWorkStep
  <2>3. ASSUME Leading(Coming, q, n) PROVE Due(q, n)'
    <3>1. Mention(e, q, n) \/ Leading(Coming', q, n)
      BY <1>1, <2>1, <2>3, TailMentions
    <3>2. CASE Mention(e, q, n)
      <4>1. q = e.pod /\ n = e.node
        BY <3>2 DEF Mention
      <4>2. Recording(q, n)'
        BY <1>1, <1>3, <4>1, PlacementOwned
      <4> QED
        BY <4>2 DEF Due
    <3> QED
      BY <3>1, <3>2 DEF Due
  <2>4. Due(q, n) => Due(q, n)'
    BY <1>0, <2>1, <2>3 DEF Due
  <2> QED
    BY <2>1, <2>2, <2>4, CountedKept
<1>4. CASE Taken(RecordPlacement)
  <2>1. PICK p \in Pods, m \in Nodes :
           /\ Recording(p, m)
           /\ \A r, k : Recording(r, k) => r = p /\ k = m
           /\ Coming' = Coming /\ job' = job /\ pending' = pending \ {p}
           /\ book'.placed[p] = m
           /\ \A r \in Pods : r # p => Unmoved(r)
    BY <1>4, RecordEffect DEF Taken, Within
  <2>2. CASE q = p
    <3>1. Held(q, m)
      BY <2>1, <2>2 DEF Held
    <3>2. m = n
      BY <3>1 DEF Owned, Unique
    <3> QED
      BY <2>1, <2>2, <3>2 DEF Counted
  <2>3. CASE q # p
    <3>1. book'.placed[q] = book.placed[q]
      BY <2>1, <2>3 DEF Unmoved, MindKept
    <3>2. NoWork => NoWork'
      BY <2>1 DEF NoWork
    <3>3. Due(q, n) => Due(q, n)'
      BY <1>0, <2>1, <2>3 DEF Due
    <3> QED
      BY <3>1, <3>2, <3>3, CountedKept
  <2> QED
    BY <2>2, <2>3
<1>5. CASE Taken(TakeUnplaced)
  <2>1. /\ Coming \in Seq(PodEvents) /\ Coming # <<>> /\ e.node = NoNode /\ ~Recording(q, n)
        /\ book' = book
    BY <1>1, <1>5, UnplacedEffect DEF Taken, Within
  <2>2. ~Leading(Coming, q, n)
    BY <1>1, <2>1, TailMentions
  <2>3. book.placed[q] = n
    BY <1>0, <2>1, <2>2 DEF Counted, Due
  <2> QED
    BY <2>1, <2>3 DEF Counted
<1> QED
  BY <1>2, <1>3, <1>4, <1>5

LEMMA ConnectedCounted ==
  ASSUME RIInv, Ground, NodesGood, losses = 0, RNext, NEW q \in Pods, NEW n \in Nodes, Held(q, n)',
         List("pods") \/ Restart
  PROVE  Counted(q, n)'
<1>1. CASE Restart
  <2>1. NoWork' /\ stream'["pods"] = "closed"
    BY <1>1, RestartEffect DEF NoWork, Loops
  <2> QED
    BY <2>1 DEF Counted, Due
<1>2. CASE List("pods")
  <2>1. PICK s \in PodSnapshots : Coming' = s
    BY <1>2, ListPodsEffect DEF Ground
  <2>2. /\ MindKept(q) /\ stream["pods"] = "closed" /\ UNCHANGED <<pending, job, loop, assigned, life>>
    BY <1>2, ListPodsEffect DEF Ground, StoreUntouched, stateVars, taskVars
  <2>3. NoWork /\ loop["pods"] = IdleLoop /\ book.placed[q] = NoNode
    BY <2>2 DEF Ground, Blank
  <2>4. NoWork' /\ book'.placed[q] = NoNode /\ ~Recording(q, n)'
    BY <2>2, <2>3, NotRecording DEF MindKept, NoWork
  <2>5. q \in Live /\ assigned[q] = n
    <3>1. Mentions(Coming', q, n) => q \in Live /\ assigned[q] = n
      BY <2>1, SnapshotTells DEF RIInv, IInv
    <3> QED
      BY <2>2, <2>4, <3>1, NoNodeIsNoNode DEF Held, Live
  <2>6. Leading(Coming', q, n)
    BY <2>1, <2>5, SnapshotTells, NoNodeIsNoNode DEF RIInv, IInv
  <2> QED
    BY <2>4, <2>6 DEF Counted, Due
<1> QED
  BY <1>1, <1>2

LEMMA NewsCounted ==
  ASSUME RIInv, Ground, NodesGood, losses = 0, RNext, NEW q \in Pods, NEW n \in Nodes, Counted(q, n),
         PodCreated \/ PodDeleted \/ NodeNews \/ Linked \/ (Evict /\ Within) \/ Swept
  PROVE  Counted(q, n)'
<1>1. UNCHANGED <<pending, job>> \/ Swept
  BY EvictEffect DEF PodCreated, CreatePod, PodDeleted, DeletePod, NodeNews, NodeRegisters, NodeConnects, NodeIsLost,
                TakeNodeEvent, Linked, List, Subscribe, StoreUntouched, taskVars, stateVars, Within
<1>2. Swept => pending' = pending /\ \A l \in Loops, p \in Pods : NoWork => job'[l][p] = NoJob
  BY SweepEffect DEF Swept, Within, NoWork
<1>3. NoWork => NoWork'
  BY <1>1, <1>2 DEF NoWork
<1>4. book'.placed[q] = book.placed[q]
  <2>1. CASE Evict /\ Within
    BY <2>1, EvictEffect, NoOrphansStep DEF NoOrphans, Within
  <2>2. CASE PodCreated \/ PodDeleted \/ NodeNews \/ Linked \/ Swept
    BY <2>2, SweepEffect
    DEF PodCreated, CreatePod, PodDeleted, DeletePod, NodeNews, NodeRegisters, NodeConnects, NodeIsLost,
        TakeNodeEvent, Linked, List, Subscribe, StoreUntouched, stateVars, Swept, Within
  <2> QED
    BY <2>1, <2>2
<1>5. ASSUME Due(q, n) PROVE Due(q, n)'
  <2>1. CASE PodCreated
    <3>1. PICK p \in Pods : CreatePod(p) /\ Within
      BY <2>1 DEF PodCreated
    <3>2. PICK e : e = PodEvent("ADDED", p, NoNode)
      OBVIOUS
    <3>3. e \in PodEvents
      BY <3>2, EventTypes DEF MaybeNodes
    <3>4. Posted(e) /\ MindKept(q)
      BY <3>1, <3>2, CreateEffect DEF Within
    <3> QED
      BY <1>5, <3>3, <3>4, PostedLeading DEF Due, MindKept, Posted
  <2>2. CASE PodDeleted
    <3>1. PICK p \in Pods : DeletePod(p) /\ Within
      BY <2>2 DEF PodDeleted
    <3>2. PICK e : e = PodEvent("DELETED", p, assigned[p])
      OBVIOUS
    <3>3. e \in PodEvents /\ Posted(e) /\ MindKept(q)
      BY <3>1, <3>2, DeleteEffect DEF Within
    <3> QED
      BY <1>5, <3>3, PostedLeading DEF Due, MindKept, Posted
  <2>3. CASE NodeNews
    <3>1. Coming' = Coming /\ loop'["pods"] = loop["pods"] /\ stream' = stream
      BY <2>3, NodeEffect DEF NodeNews, Within, linkVars
    <3> QED
      BY <1>5, <3>1 DEF Due, Recording
  <2>4. CASE Linked
    <3>1. /\ Coming' = Coming /\ Unmoved(q)
          /\ stream["pods"] = "closed" => stream'["pods"] = "closed"
      BY <2>4, LinkEffect DEF Linked, Ground
    <3> QED
      BY <1>5, <3>1 DEF Due, Unmoved, MindKept
  <2>5. CASE Evict /\ Within
    <3>1. Coming' = Coming /\ loop'["pods"] = loop["pods"] /\ stream' = stream
      BY <2>5, EvictEffect DEF Within, linkVars
    <3> QED
      BY <1>5, <3>1 DEF Due, Recording
  <2>6. CASE Swept
    <3>1. PICK l \in Loops : Sweep(l) /\ Within
      BY <2>6 DEF Swept
    <3>2. Coming' = Coming /\ (Recording(q, n)' <=> Recording(q, n)) /\ stream' = stream
      BY <3>1, SweepEffect DEF Within, linkVars
    <3> QED
      BY <1>5, <3>2 DEF Due
  <2> QED
    BY <2>1, <2>2, <2>3, <2>4, <2>5, <2>6
<1> QED
  BY <1>3, <1>4, <1>5, CountedKept

LEMMA CountingStep ==
  ASSUME RIInv, Ground, NodesGood, Owning, Counting, RNext
  PROVE  Counting'
<1> SUFFICES ASSUME Clean', NEW q \in Pods, NEW n \in Nodes, Held(q, n)' PROVE Counted(q, n)'
  BY DEF Counting
<1>1. Clean /\ ~LateAssign /\ losses = 0
  BY CleanBefore DEF Clean
<1>2. GainsOnly(q) /\ Owned(q) /\ (~Worked => NoGain(q))
  BY HeldBefore
<1>3. CASE Worked
  BY <1>1, <1>2, <1>3, WorkedCounted
<1>4. CASE ~Worked
  <2>1. Held(q, n)
    BY <1>2, <1>4 DEF NoGain
  <2>2. Counted(q, n)
    BY <1>1, <2>1 DEF Counting
  <2>3. ~OrphanTaken
    BY <1>1 DEF OrphanTaken, NextOrphan, NodesGood
  <2> QED
    BY <1>1, <1>2, <1>4, <2>1, <2>2, <2>3, TakenCounted, ConnectedCounted, NewsCounted, NextCases
<1> QED
  BY <1>3, <1>4
-----------------------------------------------------------------------------

(* The ports claimed of a node are those of the pods placed there, and no  *)
(* two of them want the same.                                              *)
PortsExact(b) ==
  \A n \in Nodes : \A x : x \in b.ports[n] <=> \E p \in PlacedOn(b, n) : x \in HostPorts[p]
Disjoint(S) == \A p, q \in S : p # q => HostPorts[p] \cap HostPorts[q] = {}

LEMMA ReleasePorts ==
  ASSUME NEW b \in Books, PortsExact(b), \A n \in Nodes : Disjoint(PlacedOn(b, n)), NEW p \in Pods
  PROVE  PortsExact(Release(b, p))
<1> DEFINE n == b.placed[p]
           r == Release(b, p)
<1>1. CASE n = NoNode
  BY <1>1 DEF Release
<1>2. CASE n # NoNode
  <2>1. n \in Nodes
    BY <1>2 DEF Books, MaybeNodes
  <2>2. r.ports = [b.ports EXCEPT ![n] = @ \ HostPorts[p]]
    BY <1>2 DEF Release
  <2>3. \A m \in Nodes : r.ports[m] = IF m = n THEN b.ports[m] \ HostPorts[p] ELSE b.ports[m]
    BY <2>1, <2>2 DEF Books
  <2>4. \A q \in Pods : r.placed[q] = IF q = p THEN NoNode ELSE b.placed[q]
    BY ReleasePlaced
  <2>5. p \in PlacedOn(b, n)
    BY DEF PlacedOn
  <2>6. \A m \in Nodes : \A q : q \in PlacedOn(r, m) <=> q \in PlacedOn(b, m) /\ q # p
    BY <2>4, NoNodeIsNoNode DEF PlacedOn
  <2> HIDE DEF r
  <2>7. ASSUME NEW m \in Nodes, NEW x
        PROVE  x \in r.ports[m] <=> \E q \in PlacedOn(r, m) : x \in HostPorts[q]
    <3>1. x \in b.ports[m] <=> \E q \in PlacedOn(b, m) : x \in HostPorts[q]
      BY DEF PortsExact
    <3>2. CASE m = n
      <4>1. \A q \in PlacedOn(b, m) : q # p /\ x \in HostPorts[q] => x \notin HostPorts[p]
        BY <2>5, <3>2 DEF Disjoint
      <4> QED
        BY <2>3, <2>6, <3>1, <3>2, <4>1
    <3>3. CASE m # n
      <4>1. p \notin PlacedOn(b, m)
        BY <3>3 DEF PlacedOn
      <4> QED
        BY <2>3, <2>6, <3>1, <3>3, <4>1
    <3> QED
      BY <3>2, <3>3
  <2> QED
    BY <2>7 DEF PortsExact, r
<1> QED
  BY <1>1, <1>2

LEMMA ClaimPorts ==
  ASSUME NEW b \in Books, PortsExact(b), NEW p \in Pods, NEW n \in Nodes, b.placed[p] = NoNode
  PROVE  PortsExact(Claim(b, p, n))
<1> DEFINE r == Claim(b, p, n)
<1>1. /\ r.placed = [b.placed EXCEPT ![p] = n]
      /\ r.ports = [b.ports EXCEPT ![n] = @ \cup HostPorts[p]]
  BY DEF Claim
<1>2. \A m \in Nodes : r.ports[m] = IF m = n THEN b.ports[m] \cup HostPorts[p] ELSE b.ports[m]
  BY <1>1 DEF Books
<1>3. \A m \in Nodes : \A q : q \in PlacedOn(r, m) <=> q \in PlacedOn(b, m) \/ (m = n /\ q = p)
  BY <1>1, NoNodeIsNoNode DEF PlacedOn, Books
<1> HIDE DEF r
<1>4. ASSUME NEW m \in Nodes, NEW x
      PROVE  x \in r.ports[m] <=> \E q \in PlacedOn(r, m) : x \in HostPorts[q]
  <2>1. x \in b.ports[m] <=> \E q \in PlacedOn(b, m) : x \in HostPorts[q]
    BY DEF PortsExact
  <2> QED
    BY <1>2, <1>3, <2>1
<1> QED
  BY <1>4 DEF PortsExact, r

LEMMA RecordPorts ==
  ASSUME NEW b \in Books, Exact(b), PortsExact(b), \A m \in Nodes : Disjoint(PlacedOn(b, m)),
         NEW p \in Pods, NEW n \in Nodes
  PROVE  PortsExact(Record(b, p, n))
<1>1. CASE b.placed[p] = n
  BY <1>1 DEF Record
<1>2. CASE b.placed[p] # n
  BY <1>2, ReleaseExact, ReleasePorts, ClaimPorts DEF Record
<1> QED
  BY <1>1, <1>2

LEMMA EvictedPorts ==
  ASSUME NEW b \in Books, PortsExact(b), NEW n \in Nodes
  PROVE  PortsExact(Evicted(b, n))
<1> DEFINE r == Evicted(b, n)
           gone == PlacedOn(b, n)
<1>1. /\ r.placed = [p \in Pods |-> IF b.placed[p] = n THEN NoNode ELSE b.placed[p]]
      /\ r.ports = [b.ports EXCEPT ![n] = @ \ UNION {HostPorts[p] : p \in gone}]
  BY DEF Evicted
<1>2. \A m \in Nodes : r.ports[m] = IF m = n THEN b.ports[m] \ UNION {HostPorts[p] : p \in gone} ELSE b.ports[m]
  BY <1>1 DEF Books
<1>3. \A m \in Nodes : \A q : q \in PlacedOn(r, m) <=> q \in PlacedOn(b, m) /\ m # n
  BY <1>1, NoNodeIsNoNode DEF PlacedOn
<1> HIDE DEF r
<1>4. ASSUME NEW m \in Nodes, NEW x
      PROVE  x \in r.ports[m] <=> \E q \in PlacedOn(r, m) : x \in HostPorts[q]
  <2>1. x \in b.ports[m] <=> \E q \in PlacedOn(b, m) : x \in HostPorts[q]
    BY DEF PortsExact
  <2>2. CASE m = n
    <3>1. (\E q \in gone : x \in HostPorts[q]) => x \in UNION {HostPorts[p] : p \in gone}
      OBVIOUS
    <3>2. x \notin r.ports[m]
      BY <1>2, <2>1, <2>2, <3>1
    <3> QED
      BY <1>3, <2>2, <3>2
  <2>3. CASE m # n
    BY <1>2, <1>3, <2>1, <2>3
  <2> QED
    BY <2>2, <2>3
<1> QED
  BY <1>4 DEF PortsExact, r

(* What a step does to the book.                                           *)
LEMMA BookCases ==
  ASSUME RIInv, RNext
  PROVE  \/ book' = book
         \/ \E p \in Pods : book' = Release(book, p)
         \/ \E p \in Pods, n \in Nodes : book' = Record(book, p, n)
         \/ \E n \in Nodes : book' = Evicted(book, n)
         \/ Restart
<1>1. CASE PodCreated \/ PodDeleted \/ NodeNews \/ List("pods") \/ Linked \/ LateAssign \/ Swept \/ OrphanTaken
  BY <1>1 DEF PodCreated, CreatePod, PodDeleted, DeletePod, NodeNews, NodeRegisters, NodeConnects, NodeIsLost,
              TakeNodeEvent, List, Linked, Subscribe, StoreUntouched, LateAssign, stateVars, Swept, Sweep,
              OrphanTaken, NextOrphan
<1>2. CASE Evict /\ Within
  <2>1. PICK n \in Nodes : loop["nodes"] = [at |-> "evict", node |-> n]
    BY <1>2 DEF Evict, RIInv, IInv, TypeOK, LoopStates, Loops, IdleLoop
  <2> QED
    BY <1>2, <2>1 DEF Evict
<1>3. CASE Taken(TakeRemoval)
  <2>1. Head(podFeed).pod \in Pods
    BY <1>3, FeedSteps DEF Taken, TakeRemoval, RIInv, IInv, PodEvents
  <2> QED
    BY <1>3, <2>1 DEF Taken, TakeRemoval
<1>4. CASE Taken(TakePlacement) \/ Taken(TakeUnplaced)
  BY <1>4 DEF Taken, TakePlacement, TakeUnplaced, stateVars
<1>5. CASE Taken(RecordPlacement)
  BY <1>5, RecordEffect DEF Taken, Within
<1>6. CASE Worked
  <2>1. PICK l \in Loops, p \in Pods :
           /\ \/ Orphan(l, p) \/ OrphanGone(l, p) \/ OrphanFails(l, p)
              \/ (Try(l, p) \/ Retry(l, p))
              \/ Assign(l, p) \/ NotFound(l, p) \/ DropPending(l, p) \/ AssignFails(l, p)
           /\ UNCHANGED linkVars
    BY <1>6, WorkCases
  <2>2. CASE Try(l, p) \/ Retry(l, p)
    <3>1. book' = book \/ Parked(l, p) \/ \E n \in Nodes : PlacedAt(l, p, n)
      BY <2>1, <2>2, TryEffect
    <3> QED
      BY <3>1 DEF Parked, PlacedAt
  <2>3. CASE ~Try(l, p) /\ ~Retry(l, p)
    BY <2>1, <2>3 DEF Orphan, OrphanGone, OrphanFails, Assign, NotFound, DropPending, AssignFails, stateVars
  <2> QED
    BY <2>2, <2>3
<1> QED
  BY <1>1, <1>2, <1>3, <1>4, <1>5, <1>6, NextCases

LEMMA PortsExactStep ==
  ASSUME RIInv, RNext, PortsExact(book), \A n \in Nodes : Disjoint(PlacedOn(book, n))
  PROVE  PortsExact(book')
<1>1. book \in Books /\ Exact(book)
  BY DEF RIInv, IInv, TypeOK
<1>2. CASE Restart
  <2>1. \A n \in Nodes : book'.ports[n] = {} /\ PlacedOn(book', n) = {}
    BY <1>2, NoNodeIsNoNode DEF Restart, PlacedOn
  <2> QED
    BY <2>1 DEF PortsExact
<1> QED
  BY <1>1, <1>2, BookCases, ReleasePorts, RecordPorts, EvictedPorts
-----------------------------------------------------------------------------

Holders(n) == {p \in Pods : Held(p, n)}
Fits(n) == Disjoint(Holders(n)) /\ (Holders(n) = {} \/ Cardinality(Holders(n)) < Room)
Sharing == Clean => PortsExact(book) /\ \A n \in Nodes : Fits(n)

LEMMA HoldersFinite ==
  ASSUME NEW n
  PROVE  /\ IsFiniteSet(Holders(n)) /\ Cardinality(Holders(n)) \in Nat
         /\ PlacedOn(book, n) \subseteq Holders(n)
<1>1. Holders(n) \subseteq Pods /\ PlacedOn(book, n) \subseteq Holders(n)
  BY DEF Holders, PlacedOn, Held
<1> QED
  BY <1>1, PodsFinite, FS_Subset, FS_CardinalityType

LEMMA FewerFit ==
  ASSUME NEW S, NEW T, IsFiniteSet(T), S \subseteq T, Disjoint(T), T = {} \/ Cardinality(T) < Room
  PROVE  Disjoint(S) /\ (S = {} \/ Cardinality(S) < Room)
<1>1. IsFiniteSet(S) /\ Cardinality(S) \in Nat /\ Cardinality(T) \in Nat /\ Cardinality(S) <= Cardinality(T)
  BY FS_Subset, FS_CardinalityType
<1>2. Disjoint(S)
  BY DEF Disjoint
<1> QED
  BY <1>1, <1>2, RoomIsNat

(* A pod is placed on a node that has room for it and its ports.           *)
LEMMA OneMoreFits ==
  ASSUME RIInv, NEW p \in Pods, NEW n \in Nodes, n \in Candidates(p), PortsExact(book), Disjoint(Holders(n)),
         Holders(n) \subseteq PlacedOn(book, n), NEW S, S \subseteq Holders(n) \cup {p}
  PROVE  Disjoint(S) /\ (S = {} \/ Cardinality(S) < Room)
<1>1. Holders(n) = PlacedOn(book, n)
  BY HoldersFinite
<1>2. Cardinality(Holders(n)) + 1 < Room
  BY <1>1 DEF Candidates, RIInv, IInv, Exact
<1>3. \A q \in Holders(n) : HostPorts[p] \cap HostPorts[q] = {}
  BY <1>1 DEF Candidates, PortsExact
<1>4. Disjoint(Holders(n) \cup {p})
  BY <1>3 DEF Disjoint
<1>5. /\ IsFiniteSet(Holders(n) \cup {p})
      /\ Cardinality(Holders(n) \cup {p}) <= Cardinality(Holders(n)) + 1
      /\ Cardinality(Holders(n) \cup {p}) \in Nat
  <2>1. IsFiniteSet(Holders(n)) /\ Cardinality(Holders(n)) \in Nat
    BY HoldersFinite
  <2>2. /\ IsFiniteSet(Holders(n) \cup {p})
        /\ Cardinality(Holders(n) \cup {p}) =
             IF p \in Holders(n) THEN Cardinality(Holders(n)) ELSE Cardinality(Holders(n)) + 1
    BY <2>1, FS_AddElement
  <2> QED
    BY <2>1, <2>2
<1>6. Cardinality(Holders(n) \cup {p}) < Room
  <2>1. Cardinality(Holders(n)) \in Nat
    BY HoldersFinite
  <2> QED
    BY <1>2, <1>5, <2>1, RoomIsNat
<1> QED
  BY <1>4, <1>5, <1>6, FewerFit

LEMMA SharingStep ==
  ASSUME RIInv, Ground, NodesGood, Owning, Counting, Sharing, RNext
  PROVE  Sharing'
<1> SUFFICES ASSUME Clean' PROVE PortsExact(book') /\ \A n \in Nodes : Fits(n)'
  BY DEF Sharing, PortsExact, PlacedOn
<1>1. Clean /\ ~LateAssign /\ losses = 0
  BY CleanBefore DEF Clean
<1>2. PortsExact(book) /\ \A n \in Nodes : Fits(n)
  BY <1>1 DEF Sharing
<1>3. \A n \in Nodes : Disjoint(PlacedOn(book, n))
  BY <1>2, HoldersFinite DEF Fits, Disjoint
<1>4. PortsExact(book')
  BY <1>2, <1>3, PortsExactStep
<1>5. ASSUME NEW n \in Nodes PROVE Fits(n)'
  <2>1. PICK T : T = {p \in Pods : Held(p, n)'}
    OBVIOUS
  <2> SUFFICES Disjoint(T) /\ (T = {} \/ Cardinality(T) < Room)
    BY <2>1 DEF Fits, Holders, Disjoint
  <2>2. IsFiniteSet(Holders(n)) /\ Disjoint(Holders(n)) /\ (Holders(n) = {} \/ Cardinality(Holders(n)) < Room)
    BY <1>2, HoldersFinite DEF Fits
  <2>3. CASE \E p \in Pods : Gains(p, n)
    <3>1. PICK p \in Pods, l \in Loops : Deciding(l, p) /\ PlacedAt(l, p, n) /\ JobKeeps(l, p)
      BY <2>3 DEF Gains
    <3>2. ASSUME NEW q \in Pods, q # p, Held(q, n)' PROVE Held(q, n)
      BY <3>1, <3>2, UnmovedHeld DEF JobKeeps
    <3>3. T \subseteq Holders(n) \cup {p}
      BY <2>1, <3>2 DEF Holders
    <3>4. ~NoWork
      BY <3>1 DEF Deciding, NoWork, NoJob
    <3>5. Holders(n) \subseteq PlacedOn(book, n)
      BY <1>1, <3>4 DEF Counting, Counted, Holders, PlacedOn
    <3>6. n \in Candidates(p)
      BY <3>1 DEF PlacedAt, Elected
    <3> QED
      BY <1>2, <2>2, <3>3, <3>5, <3>6, OneMoreFits
  <2>4. CASE ~\E p \in Pods : Gains(p, n)
    <3>1. T \subseteq Holders(n)
      BY <2>1, <2>4, HeldBefore DEF GainsOnly, Holders
    <3> QED
      BY <2>2, <3>1, FewerFit
  <2> QED
    BY <2>3, <2>4
<1> QED
  BY <1>4, <1>5

LEMMA FitsShares ==
  ASSUME RIInv, \A n \in Nodes : Fits(n)
  PROVE  NodesAreShared
<1> SUFFICES ASSUME NEW n \in Nodes
             PROVE  /\ book.claimed[n] = 0 \/ book.claimed[n] < Room
                    /\ Disjoint(PlacedOn(book, n))
  BY DEF NodesAreShared, Disjoint
<1>1. Disjoint(PlacedOn(book, n)) /\ (PlacedOn(book, n) = {} \/ Cardinality(PlacedOn(book, n)) < Room)
  BY HoldersFinite, FewerFit DEF Fits
<1> QED
  BY <1>1, FS_EmptySet DEF RIInv, IInv, Exact
-----------------------------------------------------------------------------

(* The first process has its streams and nobody before it.                 *)
First ==
  restarts = 0 => late = {} /\ "crossed" \notin blemish /\ \A l \in Loops : stream[l] = "open"

LEMMA FirstStep ==
  ASSUME RIInv, First, RNext
  PROVE  First'
<1> SUFFICES ASSUME restarts' = 0
             PROVE  late' = {} /\ "crossed" \notin blemish' /\ \A l \in Loops : stream'[l] = "open"
  BY DEF First
<1>1. ~Restart
  BY DEF Restart, RIInv, Links
<1>2. restarts = 0
  BY <1>1 DEF RNext, REnvironment, RNodesStep, RPodsStep, RJobStep, linkVars, Reconnect, List, Subscribe, LateAssign
<1>3. late = {} /\ "crossed" \notin blemish /\ \A l \in Loops : stream[l] = "open"
  BY <1>2 DEF First
<1>4. ~LateAssign /\ \A l \in Loops : ~Reconnect(l)
  BY <1>3 DEF LateAssign, Reconnect, List, Subscribe
<1>5. UNCHANGED linkVars /\ "crossed" \notin blemish'
  BY <1>1, <1>3, <1>4, PodsAreNotMarks DEF RNext, REnvironment, RNodesStep, RPodsStep, RJobStep
<1> QED
  BY <1>3, <1>5 DEF linkVars

(* Only the node a pod is placed on is told to run it.                     *)
Told(p) ==
  \/ told[p] = {}
  \/ \E n \in Nodes : told[p] = {n} /\ life[p] # "new" /\ (life[p] = "live" => book.placed[p] = n)
Telling == losses = 0 /\ restarts = 0 => \A p \in Pods : Told(p)

LEMMA ToldKept ==
  ASSUME NEW q, Told(q), told'[q] = told[q], life'[q] = life[q],
         life[q] = "live" => book'.placed[q] = book.placed[q]
  PROVE  Told(q)'
BY DEF Told

LEMMA WorkedTold ==
  ASSUME RIInv, Ground, NodesGood, losses = 0, Worked, NEW q \in Pods, Owned(q), Told(q)
  PROVE  Told(q)'
<1>1. PICK l \in Loops, p \in Pods :
         /\ \/ Orphan(l, p) \/ OrphanGone(l, p) \/ OrphanFails(l, p)
            \/ (Try(l, p) \/ Retry(l, p))
            \/ Assign(l, p) \/ NotFound(l, p) \/ DropPending(l, p) \/ AssignFails(l, p)
         /\ UNCHANGED linkVars
  BY WorkCases
<1>2. JobKeeps(l, p)
  BY <1>1, JobKept
<1>3. life' = life /\ (p # q => book'.placed[q] = book.placed[q])
  BY <1>2 DEF JobKeeps, Unmoved, MindKept
<1>4. CASE Try(l, p) \/ Retry(l, p)
  <2>1. told' = told
    BY <1>4 DEF Try, Retry, apiVars
  <2>2. /\ \/ job[l][p].at = "try"
           \/ job[l][p].at = "retry"
        /\ \/ /\ job[l][p].at = "retry" => p \in pending
              /\ Parked(l, p) \/ \E n \in Nodes : PlacedAt(l, p, n)
           \/ UNCHANGED <<pending, book>>
    BY <1>1, <1>4, TryEffect
  <2>3. CASE book' = book
    BY <1>3, <2>1, <2>3, ToldKept
  <2>4. CASE p # q
    BY <1>3, <2>1, <2>4, ToldKept
  <2>5. CASE p = q /\ book' # book
    <3>1. job[l][p].at = "try" \/ (job[l][p].at = "retry" /\ p \in pending)
      BY <2>2, <2>5 DEF Parked
    <3>2. \A n \in Nodes : book.placed[q] # n
      BY <2>5, <3>1, DecidedIsFree DEF Held
    <3>3. told[q] = {} \/ life[q] # "live"
      BY <3>2 DEF Told
    <3> QED
      BY <1>3, <2>1, <3>3 DEF Told
  <2> QED
    BY <2>3, <2>4, <2>5
<1>5. CASE Assign(l, p)
  <2>0. PICK n : n = job[l][p].node
    OBVIOUS
  <2>1. /\ job[l][p] = [at |-> "assign", node |-> n]
        /\ life[p] = "live" /\ book' = book
        /\ told' = IF n \in Nodes /\ status[n] = "READY" THEN [told EXCEPT ![p] = @ \cup {n}] ELSE told
    BY <1>5, <2>0, JobNode DEF Assign, stateVars
  <2>2. CASE told'[q] = told[q]
    BY <1>3, <2>1, <2>2, ToldKept
  <2>3. CASE told'[q] # told[q]
    <3>1. p = q /\ n \in Nodes /\ told'[q] = told[q] \cup {n}
      BY <2>1, <2>3 DEF RIInv, IInv, TypeOK
    <3>2. Assigning(q, n)
      BY <2>1, <3>1 DEF Assigning
    <3>3. book.placed[q] = n
      BY <2>1, <3>1, <3>2 DEF Owned, Exclusive
    <3>4. told'[q] = {n}
      BY <2>1, <3>1, <3>3 DEF Told
    <3> QED
      BY <1>3, <2>1, <3>1, <3>3, <3>4 DEF Told
  <2> QED
    BY <2>2, <2>3
<1>6. CASE ~Try(l, p) /\ ~Retry(l, p) /\ ~Assign(l, p)
  <2>1. told' = told /\ book' = book
    BY <1>1, <1>6 DEF Orphan, OrphanGone, OrphanFails, NotFound, DropPending, AssignFails, apiVars, stateVars
  <2> QED
    BY <1>3, <2>1, ToldKept
<1> QED
  BY <1>1, <1>4, <1>5, <1>6

LEMMA TellingStep ==
  ASSUME RIInv, Ground, NodesGood, Owning, First, Telling, RNext
  PROVE  Telling'
<1> SUFFICES ASSUME losses' = 0, restarts' = 0, NEW q \in Pods PROVE Told(q)'
  BY DEF Telling
<1>1. ~Restart
  BY DEF Restart, RIInv, Links
<1>2. restarts = 0
  BY <1>1 DEF RNext, REnvironment, RNodesStep, RPodsStep, RJobStep, linkVars, Reconnect, List, Subscribe, LateAssign
<1>3. losses = 0
  BY NoLossBefore DEF Ground
<1>4. late = {} /\ Clean /\ \A l \in Loops : stream[l] = "open"
  BY <1>2, <1>3 DEF First, Clean
<1>5. ~LateAssign /\ ~List("pods") /\ ~Linked
  BY <1>4 DEF LateAssign, List, Linked, Subscribe, Loops
<1>6. Told(q) /\ Owned(q)
  BY <1>2, <1>3, <1>4 DEF Telling, Owning
<1>7. CASE PodCreated
  <2>1. PICK p \in Pods : CreatePod(p) /\ Within
    BY <1>7 DEF PodCreated
  <2>2. told' = told /\ book' = book /\ life[p] = "new" /\ \A r \in Pods : r # p => life'[r] = life[r]
    BY <2>1 DEF CreatePod, stateVars, RIInv, IInv, TypeOK
  <2>3. q = p => told[q] = {}
    BY <1>6, <2>2 DEF Told
  <2> QED
    BY <1>6, <2>2, <2>3, ToldKept DEF Told
<1>8. CASE PodDeleted
  <2>1. PICK p \in Pods : DeletePod(p) /\ Within
    BY <1>8 DEF PodDeleted
  <2>2. /\ book' = book /\ life'[p] = "gone" /\ told'[p] \subseteq told[p]
        /\ \A r \in Pods : r # p => life'[r] = life[r] /\ told'[r] = told[r]
    BY <2>1 DEF DeletePod, stateVars, RIInv, IInv, TypeOK
  <2>3. CASE q = p
    <3>1. told'[q] = {} \/ \E n \in Nodes : told'[q] = {n}
      BY <1>6, <2>2, <2>3 DEF Told
    <3> QED
      BY <2>2, <2>3, <3>1 DEF Told
  <2>4. CASE q # p
    BY <1>6, <2>2, <2>4, ToldKept
  <2> QED
    BY <2>3, <2>4
<1>9. CASE NodeNews
  <2>1. UNCHANGED <<life, book>>
    BY <1>9, NodeEffect DEF NodeNews, Within
  <2>2. told'[q] = told[q]
    <3>1. ASSUME NEW n \in Nodes, NodeConnects(n) PROVE told'[q] = told[q]
      <4>1. Bad(n)
        BY <3>1 DEF NodeConnects, Bad
      <4>2. ~Used(n)
        BY <1>3, <4>1 DEF NodesGood
      <4>3. assigned[q] # n
        BY <4>2 DEF Used, Uses
      <4> QED
        BY <3>1, <4>3 DEF NodeConnects
    <3>2. ASSUME NEW n \in Nodes, NodeIsLost(n) PROVE FALSE
      BY <1>3, <3>2 DEF NodeIsLost
    <3>3. told' = told \/ (\E n \in Nodes : NodeConnects(n)) \/ \E n \in Nodes : NodeIsLost(n)
      BY <1>9 DEF NodeNews, NodeRegisters, TakeNodeEvent
    <3> QED
      BY <3>1, <3>2, <3>3
  <2> QED
    BY <1>6, <2>1, <2>2, ToldKept
<1>10. CASE Evict /\ Within
  <2>1. told' = told /\ life' = life /\ book'.placed[q] = book.placed[q]
    BY <1>3, <1>10, EvictEffect, NoOrphansStep DEF NoOrphans, Within, Evict, apiVars
  <2> QED
    BY <1>6, <2>1, ToldKept
<1>11. CASE Swept \/ OrphanTaken \/ Taken(TakePlacement) \/ Taken(TakeUnplaced)
  <2>1. UNCHANGED <<told, life, book>>
    BY <1>11 DEF Swept, Sweep, OrphanTaken, NextOrphan, Taken, TakePlacement, TakeUnplaced, apiVars, stateVars
  <2> QED
    BY <1>6, <2>1, ToldKept
<1>12. CASE Taken(TakeRemoval)
  <2>1. told' = told /\ life' = life
    BY <1>12 DEF Taken, TakeRemoval
  <2>2. q # Head(Coming).pod => book'.placed[q] = book.placed[q]
    BY <1>12, RemovalEffect DEF Taken, Within, Unmoved, MindKept
  <2>3. q = Head(Coming).pod => life[q] # "live"
    <3>1. Coming \in Seq(PodEvents) /\ Coming # <<>> /\ Head(Coming).kind = "DELETED"
      BY <1>12, RemovalEffect DEF Taken, Within
    <3>2. q = Head(Coming).pod => Deletes(Coming, q)
      BY <3>1, TailAbout
    <3> QED
      BY <3>2 DEF Ground, Buried
  <2> QED
    BY <1>6, <2>1, <2>2, <2>3, ToldKept
<1>13. CASE Taken(RecordPlacement)
  <2>1. PICK p \in Pods, m \in Nodes :
           /\ Recording(p, m) /\ life' = life /\ book'.placed[p] = m
           /\ \A r \in Pods : r # p => Unmoved(r)
    BY <1>13, RecordEffect DEF Taken, Within
  <2>2. told' = told
    BY <1>13 DEF Taken, RecordPlacement, apiVars
  <2>3. CASE q # p
    BY <1>6, <2>1, <2>2, <2>3, ToldKept DEF Unmoved, MindKept
  <2>4. CASE q = p
    <3>1. Held(q, m)
      BY <2>1, <2>4 DEF Held
    <3>2. \A n \in Nodes : book.placed[q] = n => n = m
      BY <1>6, <3>1 DEF Held, Owned, Unique
    <3> QED
      BY <1>6, <2>1, <2>2, <2>4, <3>2 DEF Told
  <2> QED
    BY <2>3, <2>4
<1>14. CASE Worked
  BY <1>3, <1>6, <1>14, WorkedTold
<1> QED
  BY <1>1, <1>5, <1>7, <1>8, <1>9, <1>10, <1>11, <1>12, <1>13, <1>14, NextCases

-----------------------------------------------------------------------------
(* The invariant of the room that is given.                                *)
SharingInv == RIInv /\ Ground /\ NodesGood /\ Owning /\ Counting /\ Sharing /\ First /\ Telling

LEMMA SharingInit == RInit => Owning /\ Counting /\ Sharing /\ First /\ Telling
<1> SUFFICES ASSUME RInit PROVE Owning /\ Counting /\ Sharing /\ First /\ Telling
  OBVIOUS
<1>1. Coming = <<>> /\ loop["pods"] = IdleLoop
  BY DEF RInit, Init, Coming, Loops
<1>2. \A q : ~Fresh(Coming, q) /\ \A n : ~Mentions(Coming, q, n)
  <2>1. DOMAIN Coming = {}
    BY <1>1
  <2> QED
    BY <2>1, NoEvents
<1>3. /\ \A p \in Pods : book.placed[p] = NoNode /\ assigned[p] = NoNode /\ told[p] = {}
      /\ pending = {} /\ \A l \in Loops, p \in Pods : job[l][p] = NoJob
      /\ \A n \in Nodes : book.ports[n] = {}
  BY DEF RInit, Init
<1>4. \A p \in Pods, n \in Nodes : ~Held(p, n)
  BY <1>1, <1>2, <1>3, NotRecording, NoNodeIsNoNode DEF Held
<1>5. \A l \in Loops, p \in Pods : job[l][p].at # "try" /\ \A s : job[l][p] # [at |-> "assign", node |-> s]
  BY <1>3 DEF NoJob
<1>6. \A p \in Pods : Owned(p)
  BY <1>2, <1>3, <1>4, <1>5 DEF Owned, Unique, Exclusive, Token, At, Assigning
<1>7. \A n \in Nodes : Holders(n) = {} /\ PlacedOn(book, n) = {}
  BY <1>3, <1>4, NoNodeIsNoNode DEF Holders, PlacedOn
<1>8. PortsExact(book) /\ \A n \in Nodes : Fits(n)
  BY <1>3, <1>7 DEF PortsExact, Fits, Disjoint
<1>9. First /\ Telling
  BY <1>3 DEF First, Telling, Told, RInit
<1> QED
  BY <1>4, <1>6, <1>8, <1>9 DEF Owning, Counting, Sharing

LEMMA SharingStutter ==
  ASSUME SharingInv, UNCHANGED allVars
  PROVE  Owning' /\ Counting' /\ Sharing' /\ First' /\ Telling'
<1>1. UNCHANGED <<life, assigned, told, podFeed, losses, book, pending, loop, job, stream, listed, late, restarts, blemish>>
  BY DEF allVars, vars, apiVars, stateVars, taskVars, linkVars
<1>2. Coming' = Coming
  BY <1>1 DEF Coming
<1>3. /\ \A p, n : Held(p, n)' <=> Held(p, n)
      /\ \A p, n : Assigning(p, n)' <=> Assigning(p, n)
      /\ \A p, n : Due(p, n)' <=> Due(p, n)
      /\ \A p : Token(p)' <=> Token(p)
      /\ NoWork' <=> NoWork
  BY <1>1, <1>2 DEF Held, Recording, Assigning, Due, Token, At, NoWork
<1>4. Clean' <=> Clean
  BY <1>1 DEF Clean
<1>5. \A p : Owned(p) => Owned(p)'
  BY <1>1, <1>2, <1>3 DEF Owned, Exclusive, Unique
<1>6. \A p, n : Counted(p, n) => Counted(p, n)'
  BY <1>1, <1>3 DEF Counted
<1>7. \A n : Fits(n) => Fits(n)'
  <2>1. \A n : {p \in Pods : Held(p, n)'} = {p \in Pods : Held(p, n)}
    BY <1>3
  <2> QED
    BY <2>1 DEF Fits, Holders, Disjoint
<1>8. PortsExact(book)' <=> PortsExact(book)
  BY <1>1 DEF PortsExact, PlacedOn
<1>9. First' /\ Telling'
  BY <1>1 DEF First, Telling, Told, SharingInv
<1> QED
  BY <1>3, <1>4, <1>5, <1>6, <1>7, <1>8, <1>9 DEF SharingInv, Owning, Counting, Sharing

(* As long as no node is lost and no process interferes with a later one,  *)
(* every pod holds room on one node only, whoever may place it finds it    *)
(* without, and what all of them hold of a node fits.                      *)
THEOREM SharingInvariant == RSpec => []SharingInv
<1>1. RetryInv /\ SharingInv /\ [RNext]_allVars => SharingInv'
  <2> SUFFICES ASSUME RetryInv, SharingInv, [RNext]_allVars PROVE SharingInv'
    OBVIOUS
  <2>1. CASE UNCHANGED allVars
    <3>1. RIInv' /\ Ground' /\ NodesGood'
      BY <2>1, NewsStutter, RetryStutter DEF RetryInv, NewsInv
    <3> QED
      BY <2>1, <3>1, SharingStutter DEF SharingInv
  <2>2. CASE RNext
    <3>1. RIInv'
      BY <2>2, RIStep DEF SharingInv
    <3> QED
      BY <2>2, <3>1, GroundStep, NodesGoodStep, OwningStep, CountingStep, SharingStep, FirstStep, TellingStep
      DEF SharingInv
  <2> QED
    BY <2>1, <2>2
<1>2. RInit => SharingInv
  BY NewsInit, RetryInit, SharingInit DEF SharingInv, NewsInv
<1> QED
  BY <1>1, <1>2, RetryInvariant, PTL DEF RSpec

(* No two pods of a node bind the same host port and no node has more pods *)
(* than room, through restarts.                                            *)
THEOREM SharedByAll == RSpec => []SharedThroughRestarts
<1>1. SharingInv => SharedThroughRestarts
  BY FitsShares DEF SharingInv, Sharing, Clean, SharedThroughRestarts
<1> QED
  BY <1>1, SharingInvariant, PTL

(* Until the first restart no pod runs on two nodes.                       *)
THEOREM OnePlaceEach == RSpec => []PlacedOnce
<1>1. SharingInv => PlacedOnce
  <2> SUFFICES ASSUME SharingInv, losses = 0, restarts = 0, NEW p \in Pods PROVE Cardinality(told[p]) <= 1
    BY DEF PlacedOnce, NoDoublePlacement
  <2>1. Told(p)
    BY DEF SharingInv, Telling
  <2>2. CASE told[p] = {}
    <3>1. Cardinality(told[p]) = 0
      BY <2>2, FS_EmptySet
    <3> QED
      BY <3>1
  <2>3. CASE told[p] # {}
    <3>1. PICK n : told[p] = {n}
      BY <2>1, <2>3 DEF Told
    <3>2. Cardinality(told[p]) = 1
      BY <3>1, FS_Singleton
    <3> QED
      BY <3>2
  <2> QED
    BY <2>2, <2>3
<1> QED
  BY <1>1, SharingInvariant, PTL

-----------------------------------------------------------------------------
(* The refinement of Placement.  What is stored on a node is held there,   *)
(* so that a pod that is booked on a node fits beside it (Sharing), and a  *)
(* pod that is stored somewhere else is not booked here (Unique).          *)

LEMMA WhereValue ==
  ASSUME NEW q \in Pods
  PROVE  Where[q] = IF life[q] = "live" THEN assigned[q] ELSE NoNode
BY DEF Where

(* Storing a pod changes where this pod is and nothing else.               *)
LEMMA WhereMoves ==
  ASSUME TypeOK, NEW p \in Pods, NEW n, life[p] = "live", life' = life,
         assigned' = [assigned EXCEPT ![p] = n]
  PROVE  Where' = [Where EXCEPT ![p] = n]
BY DEF TypeOK, Where

(* Disturbed is the contrary of Clean.                                     *)
LEMMA DisturbedNotClean ==
  ASSUME RIInv
  PROVE  Disturbed = ~Clean /\ Disturbed \in BOOLEAN
<1>1. losses \in Nat
  BY DEF RIInv, IInv, TypeOK
<1> QED
  BY <1>1 DEF Disturbed, Clean

(* A job stores a pod on a node only if the pod fits beside those stored.  *)
LEMMA AssignedFits ==
  ASSUME SharingInv, Clean, NEW p \in Pods, NEW n \in Nodes, life[p] = "live", Assigning(p, n)
  PROVE  Where[p] \in {NoNode, n} /\ Placement!Companions(p, n) \in Fitting
<1>1. Owned(p) /\ Fits(n)
  BY DEF SharingInv, Owning, Sharing
<1>2. Held(p, n)
  BY <1>1 DEF Owned, Exclusive, Held
<1>3. \A q \in Pods : Where[q] = n => Held(q, n)
  BY WhereValue, NoNodeIsNoNode DEF Held
<1>4. Placement!Companions(p, n) \subseteq Holders(n)
  BY <1>2, <1>3 DEF Placement!Companions, Holders
<1>5. Holders(n) # {} /\ Disjoint(Holders(n)) /\ Cardinality(Holders(n)) < Room
  BY <1>1, <1>2 DEF Fits, Holders
<1>6. /\ Disjoint(Placement!Companions(p, n))
      /\ Placement!Companions(p, n) = {} \/ Cardinality(Placement!Companions(p, n)) < Room
  <2>1. IsFiniteSet(Holders(n))
    BY HoldersFinite
  <2> QED
    BY <1>4, <1>5, <2>1, FewerFit
<1>7. Placement!Companions(p, n) # {}
  BY DEF Placement!Companions
<1>8. Where[p] \in {NoNode, n}
  <2>1. assigned[p] \in Nodes \cup {NoNode}
    BY DEF SharingInv, RIInv, IInv, TypeOK, MaybeNodes
  <2>2. assigned[p] \in Nodes => Held(p, assigned[p])
    BY DEF Held
  <2>3. assigned[p] \in Nodes => assigned[p] = n
    BY <1>1, <1>2, <2>2 DEF Owned, Unique
  <2> QED
    BY <2>1, <2>3, WhereValue
<1>9. Placement!Companions(p, n) \in Fitting
  BY <1>6, <1>7 DEF Fitting, Disjoint, Placement!Companions
<1> QED
  BY <1>8, <1>9

PlacementVars == <<life, Where, Disturbed>>

LEMMA PlacementKept ==
  ASSUME UNCHANGED <<life, assigned, losses>>, "crossed" \in blemish' <=> "crossed" \in blemish
  PROVE  UNCHANGED PlacementVars
<1>1. Where' = Where
  BY DEF Where
<1>2. Disturbed' = Disturbed
  BY DEF Disturbed
<1> QED
  BY <1>1, <1>2 DEF PlacementVars

LEMMA UserPlacement ==
  ASSUME SharingInv, PodCreated \/ PodDeleted
  PROVE  Placement!Next
<1>1. RIInv /\ TypeOK
  BY DEF SharingInv, RIInv, IInv
<1>2. Disturbed' = Disturbed
  <2>1. UNCHANGED <<losses, blemish>>
    BY DEF PodCreated, PodDeleted, CreatePod, DeletePod, Within
  <2> QED
    BY <2>1 DEF Disturbed
<1>3. CASE PodCreated
  <2>1. PICK p \in Pods : CreatePod(p)
    BY <1>3 DEF PodCreated
  <2>2. life[p] = "new" /\ life' = [life EXCEPT ![p] = "live"] /\ assigned' = assigned
    BY <2>1 DEF CreatePod
  <2>3. assigned[p] = NoNode
    BY <2>2 DEF SharingInv, Ground, Unborn, Quiet
  <2>4. Where' = Where
    BY <1>1, <2>2, <2>3 DEF TypeOK, Where
  <2>5. Placement!Create(p)
    BY <1>2, <2>2, <2>4 DEF Placement!Create
  <2> QED
    BY <2>5 DEF Placement!Next
<1>4. CASE PodDeleted
  <2>1. PICK p \in Pods : DeletePod(p)
    BY <1>4 DEF PodDeleted
  <2>2. life[p] = "live" /\ life' = [life EXCEPT ![p] = "gone"] /\ assigned' = assigned
    BY <2>1 DEF DeletePod
  <2>3. Where' = [Where EXCEPT ![p] = NoNode]
    BY <1>1, <2>2 DEF TypeOK, Where
  <2>4. Placement!Remove(p)
    BY <1>2, <2>2, <2>3 DEF Placement!Remove
  <2> QED
    BY <2>4 DEF Placement!Next
<1> QED
  BY <1>3, <1>4

LEMMA NodePlacement ==
  ASSUME SharingInv, NodeNews
  PROVE  Placement!Next \/ UNCHANGED PlacementVars
<1>1. UNCHANGED <<life, assigned, blemish>>
  BY DEF NodeNews, NodeRegisters, NodeConnects, NodeIsLost, TakeNodeEvent, Within
<1>2. losses' = losses \/ losses' = losses + 1
  BY DEF NodeNews, NodeRegisters, NodeConnects, NodeIsLost, TakeNodeEvent
<1>3. CASE losses' = losses
  BY <1>1, <1>3, PlacementKept
<1>4. CASE losses' = losses + 1
  <2>1. losses \in Nat
    BY DEF SharingInv, RIInv, IInv, TypeOK
  <2>2. Disturbed' = TRUE
    BY <1>4, <2>1 DEF Disturbed
  <2>3. Where' = Where /\ life' = life
    BY <1>1 DEF Where
  <2>4. Placement!Disturb
    BY <2>2, <2>3 DEF Placement!Disturb
  <2> QED
    BY <2>4 DEF Placement!Next
<1> QED
  BY <1>2, <1>3, <1>4

(* An AssignPod that is answered: to no node, to a node that has room, or  *)
(* after a disturbance to any.                                             *)
LEMMA JobPlacement ==
  ASSUME SharingInv, Worked
  PROVE  Placement!Next \/ UNCHANGED PlacementVars
<1>1. PICK l \in Loops, p \in Pods : RJobStep(l, p)
  BY DEF Worked
<1>2. RIInv /\ TypeOK
  BY DEF SharingInv, RIInv, IInv
<1>3. losses' = losses
  BY <1>1 DEF RJobStep, JobStep, Orphan, OrphanGone, OrphanFails, Try, Retry, Assign, NotFound,
              DropPending, AssignFails, apiVars
<1>4. "crossed" \in blemish' <=> "crossed" \in blemish
  <2>1. p # "crossed"
    BY PodsAreNotMarks
  <2>2. \A x \in blemish' : x \in blemish \/ x = "fault" \/ x = p
    BY <1>1 DEF RJobStep
  <2>3. blemish \subseteq blemish'
    BY <1>1 DEF RJobStep
  <2> QED
    BY <2>1, <2>2, <2>3
<1>5. Disturbed' = Disturbed
  BY <1>3, <1>4 DEF Disturbed
<1>6. CASE Orphan(l, p)
  <2>1. life[p] = "live" /\ life' = life /\ assigned' = [assigned EXCEPT ![p] = NoNode]
    BY <1>6 DEF Orphan
  <2>2. Where' = [Where EXCEPT ![p] = NoNode]
    BY <1>2, <2>1, WhereMoves
  <2>3. Placement!Unplace(p)
    BY <1>5, <2>1, <2>2 DEF Placement!Unplace
  <2> QED
    BY <2>3 DEF Placement!Next
<1>7. CASE Assign(l, p)
  <2> DEFINE n == job[l][p].node
  <2>1. /\ life[p] = "live" /\ life' = life /\ assigned' = [assigned EXCEPT ![p] = n]
        /\ job[l][p].at = "assign"
    BY <1>7 DEF Assign
  <2>2. Where' = [Where EXCEPT ![p] = n]
    BY <1>2, <2>1, WhereMoves
  <2>3. n \in Nodes \cup {NoNode} /\ job[l][p] = [at |-> "assign", node |-> n]
    <3>1. job[l][p] \in JobStates
      BY <1>2 DEF TypeOK
    <3> QED
      BY <2>1, <3>1 DEF JobStates, MaybeNodes
  <2> HIDE DEF n
  <2>4. CASE n = NoNode
    <3>1. Placement!Unplace(p)
      BY <1>5, <2>1, <2>2, <2>4 DEF Placement!Unplace
    <3> QED
      BY <3>1 DEF Placement!Next
  <2>5. CASE n \in Nodes /\ Clean
    <3>1. Assigning(p, n)
      BY <2>3 DEF Assigning
    <3>2. Where[p] \in {NoNode, n} /\ Placement!Companions(p, n) \in Fitting
      BY <2>1, <2>5, <3>1, AssignedFits
    <3>3. Placement!Place(p, n)
      BY <1>5, <2>1, <2>2, <3>2 DEF Placement!Place
    <3> QED
      BY <2>5, <3>3 DEF Placement!Next
  <2>6. CASE n \in Nodes /\ ~Clean
    <3>1. Disturbed' = TRUE
      BY <1>2, <1>5, <2>6, DisturbedNotClean
    <3>2. Placement!Stray(p, n)
      BY <2>1, <2>2, <3>1 DEF Placement!Stray
    <3> QED
      BY <2>6, <3>2 DEF Placement!Next
  <2> QED
    BY <2>3, <2>4, <2>5, <2>6
<1>8. CASE ~Orphan(l, p) /\ ~Assign(l, p)
  <2>1. UNCHANGED <<life, assigned>>
    BY <1>1, <1>8 DEF RJobStep, JobStep, OrphanGone, OrphanFails, Try, Retry, NotFound,
                      DropPending, AssignFails, apiVars
  <2> QED
    BY <1>3, <1>4, <2>1, PlacementKept
<1> QED
  BY <1>6, <1>7, <1>8

LEMMA LatePlacement ==
  ASSUME SharingInv, LateAssign
  PROVE  Placement!Next
<1>1. PICK r \in late : /\ life[r.pod] = "live" /\ life' = life
                        /\ assigned' = [assigned EXCEPT ![r.pod] = r.node]
                        /\ "crossed" \in blemish'
  BY DEF LateAssign
<1>2. r.pod \in Pods /\ r.node \in Nodes \cup {NoNode}
  BY DEF SharingInv, RIInv, Links, Requests, MaybeNodes
<1>3. TypeOK
  BY DEF SharingInv, RIInv, IInv
<1>4. Where' = [Where EXCEPT ![r.pod] = r.node]
  BY <1>1, <1>2, <1>3, WhereMoves
<1>5. Disturbed' = TRUE
  BY <1>1 DEF Disturbed
<1>6. Placement!Stray(r.pod, r.node)
  BY <1>1, <1>4, <1>5 DEF Placement!Stray
<1> QED
  BY <1>2, <1>6 DEF Placement!Next

LEMMA PlacementStep ==
  ASSUME SharingInv, RNext
  PROVE  Placement!Next \/ UNCHANGED PlacementVars
<1>1. CASE (Evict /\ Within) \/ Swept \/ OrphanTaken
  <2>1. UNCHANGED <<life, assigned, losses, blemish>>
    BY <1>1 DEF Evict, Swept, Sweep, OrphanTaken, NextOrphan, Within, apiVars
  <2> QED
    BY <2>1, PlacementKept
<1>2. CASE Taken(TakeRemoval) \/ Taken(TakePlacement) \/ Taken(RecordPlacement) \/ Taken(TakeUnplaced)
  <2>1. UNCHANGED <<life, assigned, losses, blemish>>
    BY <1>2 DEF Taken, TakeRemoval, TakePlacement, RecordPlacement, TakeUnplaced, Within, apiVars
  <2> QED
    BY <2>1, PlacementKept
<1>3. CASE List("pods") \/ Linked
  <2>1. UNCHANGED <<life, assigned, losses>>
    BY <1>3 DEF Linked, List, Subscribe, StoreUntouched
  <2>2. "crossed" \in blemish' <=> "crossed" \in blemish
    BY <1>3 DEF Linked, List, Subscribe
  <2> QED
    BY <2>1, <2>2, PlacementKept
<1>4. CASE Restart
  <2>1. UNCHANGED <<life, assigned, losses>> /\ blemish' = blemish \cap {"crossed"}
    BY <1>4 DEF Restart
  <2> QED
    BY <2>1, PlacementKept
<1> QED
  BY <1>1, <1>2, <1>3, <1>4, NextCases, UserPlacement, NodePlacement, JobPlacement, LatePlacement

(* Until a node is lost or a process interferes with its successor, what   *)
(* is stored never has two pods of a node on one host port nor more pods   *)
(* on a node than room, and no step takes a pod from a node to another.    *)
THEOREM StoredPlacement == RSpec => ImplementsPlacement
<1>1. RInit => Placement!Init
  <2> SUFFICES ASSUME RInit PROVE Placement!Init
    OBVIOUS
  <2>1. life = [p \in Pods |-> "new"] /\ assigned = [p \in Pods |-> NoNode] /\ losses = 0 /\ blemish = {}
    BY DEF RInit, Init
  <2>2. Where = [p \in Pods |-> NoNode]
    BY <2>1 DEF Where
  <2>3. Disturbed = FALSE
    BY <2>1 DEF Disturbed
  <2> QED
    BY <2>1, <2>2, <2>3 DEF Placement!Init
<1>2. SharingInv /\ [RNext]_allVars => [Placement!Next]_PlacementVars
  <2>1. CASE UNCHANGED allVars
    <3>1. UNCHANGED <<life, assigned, losses, blemish>>
      BY <2>1 DEF allVars, vars, apiVars
    <3> QED
      BY <3>1, PlacementKept
  <2> QED
    BY <2>1, PlacementStep
<1> QED
  BY <1>1, <1>2, SharingInvariant, PTL DEF RSpec, ImplementsPlacement, Placement!Spec, PlacementVars
=============================================================================
