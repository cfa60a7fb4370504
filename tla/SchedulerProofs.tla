--------------------------- MODULE SchedulerProofs --------------------------
(***************************************************************************)
(* Proofs about Scheduler, for any pods, nodes, room, host ports and       *)
(* bounds: the claims are exactly those of the recorded placements.  Types *)
(* and claims are proved together: that a claim is never negative follows  *)
(* from what it counts.                                                    *)
(***************************************************************************)
EXTENDS Scheduler, FiniteSetTheorems, TLAPS

Exact(b) == \A n \in Nodes : b.claimed[n] = Cardinality(PlacedOn(b, n))

IInv == TypeOK /\ Exact(book)

-----------------------------------------------------------------------------
(* The bookkeeping.                                                        *)

LEMMA PlacedOnFinite ==
  ASSUME NEW b, NEW n
  PROVE  IsFiniteSet(PlacedOn(b, n)) /\ Cardinality(PlacedOn(b, n)) \in Nat
<1>1. PlacedOn(b, n) \subseteq Pods
  BY DEF PlacedOn
<1> QED
  BY <1>1, PodsFinite, FS_Subset, FS_CardinalityType

LEMMA ReleaseExact ==
  ASSUME NEW b \in Books, Exact(b), NEW p \in Pods
  PROVE  /\ Release(b, p) \in Books
         /\ Exact(Release(b, p))
         /\ Release(b, p).placed[p] = NoNode
<1> DEFINE n == b.placed[p]
           r == Release(b, p)
<1>1. CASE n = NoNode
  BY <1>1 DEF Release
<1>2. CASE n # NoNode
  <2>1. n \in Nodes
    BY <1>2 DEF Books, MaybeNodes
  <2>3. /\ r.placed = [b.placed EXCEPT ![p] = NoNode]
        /\ r.claimed = [b.claimed EXCEPT ![n] = @ - 1]
        /\ r.ports = [b.ports EXCEPT ![n] = @ \ HostPorts[p]]
        /\ r = [placed |-> r.placed, claimed |-> r.claimed, ports |-> r.ports]
    BY <1>2 DEF Release
  <2>4. PlacedOn(r, n) = PlacedOn(b, n) \ {p} /\ p \in PlacedOn(b, n)
    BY <1>2, <2>3 DEF PlacedOn, Books
  <2>5. Cardinality(PlacedOn(r, n)) = Cardinality(PlacedOn(b, n)) - 1
    <3> HIDE DEF n, r
    <3>1. IsFiniteSet(PlacedOn(b, n))
      BY PlacedOnFinite
    <3> QED
      BY <2>4, <3>1, FS_RemoveElement
  <2>6. \A m \in Nodes \ {n} : PlacedOn(r, m) = PlacedOn(b, m)
    BY <2>1, <2>3, NoNodeIsNoNode DEF PlacedOn, Books
  <2> HIDE DEF n, r
  <2>7. r.claimed[n] = Cardinality(PlacedOn(r, n)) /\ r.claimed[n] \in Nat
    <3>1. b.claimed[n] = Cardinality(PlacedOn(b, n)) /\ r.claimed[n] = b.claimed[n] - 1
      BY <2>1, <2>3 DEF Exact, Books
    <3> QED
      BY <2>5, <3>1, PlacedOnFinite
  <2>8. Exact(r)
    BY <2>1, <2>3, <2>6, <2>7 DEF Exact, Books
  <2>9. r \in Books
    BY <2>1, <2>3, <2>7 DEF Books, MaybeNodes
  <2>10. r.placed[p] = NoNode
    BY <2>3 DEF Books
  <2> QED
    BY <2>8, <2>9, <2>10 DEF r
<1> QED
  BY <1>1, <1>2

LEMMA ClaimExact ==
  ASSUME NEW b \in Books, Exact(b), NEW p \in Pods, NEW n \in Nodes, b.placed[p] = NoNode
  PROVE  Claim(b, p, n) \in Books /\ Exact(Claim(b, p, n))
<1> DEFINE r == Claim(b, p, n)
<1>1. /\ r.placed = [b.placed EXCEPT ![p] = n]
      /\ r.claimed = [b.claimed EXCEPT ![n] = @ + 1]
      /\ r.ports = [b.ports EXCEPT ![n] = @ \cup HostPorts[p]]
      /\ r = [placed |-> r.placed, claimed |-> r.claimed, ports |-> r.ports]
  BY DEF Claim
<1>2. PlacedOn(r, n) = PlacedOn(b, n) \cup {p} /\ p \notin PlacedOn(b, n)
  BY <1>1, NoNodeIsNoNode DEF PlacedOn, Books
<1>3. Cardinality(PlacedOn(r, n)) = Cardinality(PlacedOn(b, n)) + 1
  BY <1>2, PlacedOnFinite, FS_AddElement
<1>4. \A m \in Nodes \ {n} : PlacedOn(r, m) = PlacedOn(b, m)
  BY <1>1, NoNodeIsNoNode DEF PlacedOn, Books
<1> HIDE DEF r
<1>5. Exact(r)
  BY <1>1, <1>3, <1>4, PlacedOnFinite DEF Exact, Books
<1>6. r \in Books
  <2>1. HostPorts[p] \subseteq AnyPort
    BY DEF AnyPort
  <2> QED
    BY <1>1, <2>1 DEF Books, MaybeNodes
<1> QED
  BY <1>5, <1>6 DEF r

LEMMA RecordExact ==
  ASSUME NEW b \in Books, Exact(b), NEW p \in Pods, NEW n \in Nodes
  PROVE  Record(b, p, n) \in Books /\ Exact(Record(b, p, n))
<1>1. CASE b.placed[p] = n
  BY <1>1 DEF Record
<1>2. CASE b.placed[p] # n
  BY <1>2, ReleaseExact, ClaimExact DEF Record
<1> QED
  BY <1>1, <1>2

LEMMA EvictedExact ==
  ASSUME NEW b \in Books, Exact(b), NEW n \in Nodes
  PROVE  Evicted(b, n) \in Books /\ Exact(Evicted(b, n))
<1> DEFINE r == Evicted(b, n)
           gone == PlacedOn(b, n)
<1>1. /\ r.placed = [p \in Pods |-> IF b.placed[p] = n THEN NoNode ELSE b.placed[p]]
      /\ r.claimed = [b.claimed EXCEPT ![n] = @ - Cardinality(gone)]
      /\ r.ports = [b.ports EXCEPT ![n] = @ \ UNION {HostPorts[p] : p \in gone}]
      /\ r = [placed |-> r.placed, claimed |-> r.claimed, ports |-> r.ports]
  BY DEF Evicted
<1>2. PlacedOn(r, n) = {}
  BY <1>1, NoNodeIsNoNode DEF PlacedOn
<1>3. \A m \in Nodes \ {n} : PlacedOn(r, m) = PlacedOn(b, m)
  BY <1>1, NoNodeIsNoNode DEF PlacedOn
<1>4. r.claimed[n] = 0
  <2>1. b.claimed[n] = Cardinality(gone) /\ Cardinality(gone) \in Nat
    BY PlacedOnFinite DEF Exact
  <2>2. r.claimed[n] = b.claimed[n] - Cardinality(gone)
    BY <1>1 DEF Books
  <2> QED
    BY <2>1, <2>2
<1> HIDE DEF r
<1>5. Exact(r)
  BY <1>1, <1>2, <1>3, <1>4, FS_EmptySet DEF Exact, Books
<1>6. r \in Books
  BY <1>1, <1>4 DEF Books, MaybeNodes
<1> QED
  BY <1>5, <1>6 DEF r

-----------------------------------------------------------------------------
(* The tasks.                                                              *)

LEMMA TaskTypes ==
  /\ IdleLoop \in LoopStates /\ [at |-> "sweep"] \in LoopStates
  /\ \A n \in Nodes : [at |-> "evict", node |-> n] \in LoopStates
  /\ \A p \in Pods, n \in Nodes : [at |-> "record", pod |-> p, node |-> n] \in LoopStates
  /\ NoJob \in JobStates
  /\ \A s \in {"orphan", "try", "retry", "drop"} : [at |-> s] \in JobStates
  /\ \A n \in MaybeNodes : [at |-> "assign", node |-> n] \in JobStates
BY DEF LoopStates, JobStates, IdleLoop, NoJob

LEMMA EventTypes ==
  /\ \A k \in {"ADDED", "SCHEDULED", "MODIFIED", "DELETED"}, p \in Pods, n \in MaybeNodes :
       PodEvent(k, p, n) \in PodEvents
  /\ \A n \in Nodes, s \in {"NOT_READY", "READY"} : NodeEvent(n, s) \in NodeEvents
BY DEF PodEvent, PodEvents, NodeEvent, NodeEvents

LEMMA FeedSteps ==
  ASSUME TypeOK
  PROVE  /\ \A e \in PodEvents : Append(podFeed, e) \in Seq(PodEvents)
         /\ \A e \in NodeEvents : Append(nodeFeed, e) \in Seq(NodeEvents)
         /\ podFeed # <<>> => Head(podFeed) \in PodEvents /\ Tail(podFeed) \in Seq(PodEvents)
         /\ nodeFeed # <<>> => Head(nodeFeed) \in NodeEvents /\ Tail(nodeFeed) \in Seq(NodeEvents)
BY DEF TypeOK

LEMMA StartTypes ==
  ASSUME TypeOK, NEW l \in Loops, NEW p \in Pods, NEW s \in JobStates, Start(l, p, s)
  PROVE  job' \in [Loops -> [Pods -> JobStates]]
BY DEF TypeOK, Start

LEMMA GotoTypes ==
  ASSUME TypeOK, NEW l \in Loops, NEW s \in LoopStates, Goto(l, s)
  PROVE  loop' \in [Loops -> LoopStates]
BY DEF TypeOK, Goto

LEMMA InitInv == Init => IInv
<1> SUFFICES ASSUME Init PROVE IInv
  OBVIOUS
<1>1. book \in Books
  BY DEF Init, Books, MaybeNodes
<1>2. Exact(book)
  <2>1. \A n \in Nodes : PlacedOn(book, n) = {} /\ book.claimed[n] = 0
    BY NoNodeIsNoNode DEF Init, PlacedOn
  <2> QED
    BY <2>1, FS_EmptySet DEF Exact
<1>3. <<>> \in Seq(PodEvents) /\ <<>> \in Seq(NodeEvents)
  OBVIOUS
<1> QED
  BY <1>1, <1>2, <1>3, TaskTypes DEF Init, IInv, TypeOK, MaybeNodes, Statuses

(* Users and agents leave the scheduler's state alone.                     *)
LEMMA EnvironmentInv ==
  ASSUME IInv, Environment
  PROVE  IInv'
<1>1. UNCHANGED <<stateVars, taskVars>> /\ TypeOK
  BY DEF Environment, CreatePod, DeletePod, NodeRegisters, NodeConnects, NodeIsLost, IInv
<1>2. ASSUME NEW p \in Pods, CreatePod(p) PROVE TypeOK'
  BY <1>1, <1>2, EventTypes, FeedSteps DEF CreatePod, TypeOK, MaybeNodes, stateVars, taskVars
<1>3. ASSUME NEW p \in Pods, DeletePod(p) PROVE TypeOK'
  BY <1>1, <1>3, EventTypes, FeedSteps DEF DeletePod, TypeOK, stateVars, taskVars
<1>4. ASSUME NEW n \in Nodes, NodeRegisters(n) PROVE TypeOK'
  BY <1>1, <1>4, EventTypes, FeedSteps DEF NodeRegisters, TypeOK, Statuses, stateVars, taskVars
<1>5. ASSUME NEW n \in Nodes, NodeConnects(n) PROVE TypeOK'
  BY <1>1, <1>5, EventTypes, FeedSteps DEF NodeConnects, TypeOK, Statuses, stateVars, taskVars
<1>6. ASSUME NEW n \in Nodes, NodeIsLost(n) PROVE TypeOK'
  BY <1>1, <1>6, EventTypes, FeedSteps DEF NodeIsLost, TypeOK, Statuses, stateVars, taskVars
<1>7. Exact(book)'
  BY <1>1 DEF IInv, stateVars, Exact, PlacedOn
<1> QED
  BY <1>2, <1>3, <1>4, <1>5, <1>6, <1>7 DEF Environment, IInv

LEMMA BookUnchanged ==
  ASSUME IInv, UNCHANGED book
  PROVE  Exact(book)' /\ book' \in Books
BY DEF IInv, TypeOK, Exact, PlacedOn

-----------------------------------------------------------------------------
(* The loops.                                                              *)

LEMMA SweepInv ==
  ASSUME IInv, NEW l \in Loops, Sweep(l)
  PROVE  IInv'
<1>1. UNCHANGED <<apiVars, stateVars, todo>>
  BY DEF Sweep
<1>2. loop' \in [Loops -> LoopStates]
  BY TaskTypes, GotoTypes DEF Sweep, IInv
<1>3. job' \in [Loops -> [Pods -> JobStates]]
  <2>1. [at |-> "retry"] \in JobStates /\ NoJob \in JobStates
    BY TaskTypes
  <2>2. [p \in Pods |-> IF p \in pending THEN [at |-> "retry"] ELSE NoJob] \in [Pods -> JobStates]
    BY <2>1
  <2> QED
    BY <2>2 DEF Sweep, IInv, TypeOK
<1> QED
  BY <1>1, <1>2, <1>3, BookUnchanged DEF IInv, TypeOK, apiVars, stateVars

LEMMA NodesStepInv ==
  ASSUME IInv, NodesStep
  PROVE  IInv'
<1> USE DEF apiVars, stateVars
<1>1. CASE TakeNodeEvent
  <2> DEFINE e == Head(nodeFeed)
  <2>1. nodeFeed # <<>> /\ nodeFeed' = Tail(nodeFeed)
    BY <1>1 DEF TakeNodeEvent
  <2>2. e \in NodeEvents /\ nodeFeed' \in Seq(NodeEvents)
    BY <2>1, FeedSteps DEF IInv
  <2>3. view' \in [Nodes -> Statuses]
    BY <1>1, <2>2 DEF TakeNodeEvent, NodeEvents, Statuses, IInv, TypeOK
  <2>4. loop' \in [Loops -> LoopStates]
    <3>1. PICK s : Goto("nodes", s) /\ s \in {[at |-> "evict", node |-> e.node],
                                                [at |-> "sweep"], IdleLoop}
      BY <1>1, <2>2 DEF TakeNodeEvent, NodeEvents
    <3>2. s \in LoopStates
      BY <2>2, <3>1, TaskTypes DEF NodeEvents
    <3> QED
      BY <3>1, <3>2, GotoTypes DEF IInv, Loops
  <2> QED
    BY <1>1, <2>2, <2>3, <2>4, BookUnchanged DEF TakeNodeEvent, IInv, TypeOK
<1>2. CASE Evict
  <2> DEFINE n == loop["nodes"].node
  <2>1. n \in Nodes
    <3>1. loop["nodes"] \in LoopStates /\ loop["nodes"].at = "evict"
      BY <1>2 DEF Evict, IInv, TypeOK, Loops
    <3> QED
      BY <3>1 DEF LoopStates, IdleLoop
  <2>2. book' \in Books /\ Exact(book)'
    <3>1. book \in Books /\ Exact(book) /\ book' = Evicted(book, n)
      BY <1>2 DEF Evict, IInv, TypeOK
    <3>2. Evicted(book, n) \in Books /\ Exact(Evicted(book, n))
      BY <2>1, <3>1, EvictedExact
    <3> QED
      BY <3>1, <3>2 DEF Exact, PlacedOn
  <2>3. todo' \in SUBSET Pods
    BY <1>2 DEF Evict, PlacedOn
  <2>4. loop' \in [Loops -> LoopStates]
    BY <1>2, TaskTypes, GotoTypes DEF Evict, IInv, Loops
  <2> QED
    BY <1>2, <2>2, <2>3, <2>4 DEF Evict, IInv, TypeOK
<1>3. CASE Sweep("nodes")
  BY <1>3, SweepInv DEF Loops
<1>4. ASSUME NEW p \in Pods, NextOrphan(p) PROVE IInv'
  <2>1. job' \in [Loops -> [Pods -> JobStates]]
    BY <1>4, TaskTypes, StartTypes DEF NextOrphan, IInv, Loops
  <2> QED
    BY <1>4, <2>1, BookUnchanged DEF NextOrphan, IInv, TypeOK
<1> QED
  BY <1>1, <1>2, <1>3, <1>4 DEF NodesStep

LEMMA PodsStepInv ==
  ASSUME IInv, PodsStep
  PROVE  IInv'
<1> USE DEF apiVars, stateVars
<1> DEFINE e == Head(podFeed)
<1>0. podFeed # <<>> => e \in PodEvents /\ Tail(podFeed) \in Seq(PodEvents)
  BY FeedSteps DEF IInv
<1>1. CASE TakeRemoval
  <2>1. e \in PodEvents /\ podFeed' \in Seq(PodEvents)
    BY <1>0, <1>1 DEF TakeRemoval
  <2>2. e.pod \in Pods
    BY <2>1 DEF PodEvents
  <2>3. book' \in Books /\ Exact(book)'
    <3>1. book \in Books /\ Exact(book) /\ book' = Release(book, e.pod)
      BY <1>1 DEF TakeRemoval, IInv, TypeOK
    <3>2. Release(book, e.pod) \in Books /\ Exact(Release(book, e.pod))
      BY <2>2, <3>1, ReleaseExact
    <3> QED
      BY <3>1, <3>2 DEF Exact, PlacedOn
  <2>4. loop' \in [Loops -> LoopStates]
    <3>1. PICK s : Goto("pods", s) /\ s \in {[at |-> "sweep"], IdleLoop}
      BY <1>1 DEF TakeRemoval
    <3> QED
      BY <3>1, TaskTypes, GotoTypes DEF IInv, Loops
  <2>5. pending' \in SUBSET Pods
    BY <1>1 DEF TakeRemoval, IInv, TypeOK
  <2> QED
    BY <1>1, <2>1, <2>3, <2>4, <2>5 DEF TakeRemoval, IInv, TypeOK
<1>2. CASE TakePlacement
  <2>1. e \in PodEvents /\ podFeed' \in Seq(PodEvents)
    BY <1>0, <1>2 DEF TakePlacement
  <2>2. e.pod \in Pods /\ e.node \in Nodes
    BY <1>2, <2>1 DEF TakePlacement, PodEvents, MaybeNodes
  <2>3. loop' \in [Loops -> LoopStates] /\ job' \in [Loops -> [Pods -> JobStates]]
    <3>1. CASE Start("pods", e.pod, [at |-> "orphan"]) /\ UNCHANGED loop
      BY <2>2, <3>1, TaskTypes, StartTypes DEF IInv, TypeOK, Loops
    <3>2. CASE /\ Goto("pods", [at |-> "record", pod |-> e.pod, node |-> e.node])
               /\ UNCHANGED job
      BY <2>2, <3>2, TaskTypes, GotoTypes DEF IInv, TypeOK, Loops
    <3> QED
      BY <1>2, <3>1, <3>2 DEF TakePlacement
  <2> QED
    BY <1>2, <2>1, <2>3, BookUnchanged DEF TakePlacement, IInv, TypeOK
<1>3. CASE RecordPlacement
  <2> DEFINE p == loop["pods"].pod
             n == loop["pods"].node
  <2>1. p \in Pods /\ n \in Nodes
    <3>1. loop["pods"] \in LoopStates /\ loop["pods"].at = "record"
      BY <1>3 DEF RecordPlacement, IInv, TypeOK, Loops
    <3> QED
      BY <3>1 DEF LoopStates, IdleLoop
  <2>2. book' \in Books /\ Exact(book)'
    <3>1. book \in Books /\ Exact(book) /\ book' = Record(book, p, n)
      BY <1>3 DEF RecordPlacement, IInv, TypeOK
    <3>2. Record(book, p, n) \in Books /\ Exact(Record(book, p, n))
      BY <2>1, <3>1, RecordExact
    <3> QED
      BY <3>1, <3>2 DEF Exact, PlacedOn
  <2>3. loop' \in [Loops -> LoopStates]
    BY <1>3, TaskTypes, GotoTypes DEF RecordPlacement, IInv, Loops
  <2> QED
    BY <1>3, <2>2, <2>3 DEF RecordPlacement, IInv, TypeOK
<1>4. CASE TakeUnplaced
  <2>1. e \in PodEvents /\ podFeed' \in Seq(PodEvents)
    BY <1>0, <1>4 DEF TakeUnplaced
  <2>2. e.pod \in Pods
    BY <2>1 DEF PodEvents
  <2>3. job' \in [Loops -> [Pods -> JobStates]]
    <3>1. CASE Start("pods", e.pod, [at |-> "try"])
      BY <2>2, <3>1, TaskTypes, StartTypes DEF IInv, Loops
    <3>2. CASE UNCHANGED job
      BY <3>2 DEF IInv, TypeOK
    <3> QED
      BY <1>4, <3>1, <3>2 DEF TakeUnplaced
  <2> QED
    BY <1>4, <2>1, <2>3, BookUnchanged DEF TakeUnplaced, IInv, TypeOK
<1>5. CASE Sweep("pods")
  BY <1>5, SweepInv DEF Loops
<1> QED
  BY <1>1, <1>2, <1>3, <1>4, <1>5 DEF PodsStep

-----------------------------------------------------------------------------
(* Rescheduling a pod.                                                     *)

LEMMA PlaceInv ==
  ASSUME IInv, NEW l \in Loops, NEW p \in Pods, Place(l, p)
  PROVE  /\ pending' \in SUBSET Pods
         /\ book' \in Books /\ Exact(book)'
         /\ job' \in [Loops -> [Pods -> JobStates]]
<1>1. CASE /\ pending' = pending \cup {p}
           /\ Start(l, p, [at |-> "assign", node |-> NoNode])
           /\ UNCHANGED book
  BY <1>1, TaskTypes, StartTypes, BookUnchanged DEF IInv, TypeOK, MaybeNodes
<1>2. ASSUME NEW n \in Elected(p),
             pending' = pending \ {p},
             book' = Record(book, p, n),
             Start(l, p, [at |-> "assign", node |-> n])
      PROVE  /\ pending' \in SUBSET Pods
             /\ book' \in Books /\ Exact(book)'
             /\ job' \in [Loops -> [Pods -> JobStates]]
  <2>1. n \in Nodes
    BY DEF Elected, Candidates
  <2>2. Record(book, p, n) \in Books /\ Exact(Record(book, p, n))
    BY <2>1, RecordExact DEF IInv, TypeOK
  <2>3. book' \in Books /\ Exact(book)'
    BY <1>2, <2>2 DEF Exact, PlacedOn
  <2>4. job' \in [Loops -> [Pods -> JobStates]]
    BY <1>2, <2>1, TaskTypes, StartTypes DEF IInv, MaybeNodes
  <2> QED
    BY <1>2, <2>3, <2>4 DEF IInv, TypeOK
<1> QED
  BY <1>1, <1>2 DEF Place

LEMMA JobStepInv ==
  ASSUME IInv, NEW l \in Loops, NEW p \in Pods, JobStep(l, p)
  PROVE  IInv'
<1> USE DEF apiVars, stateVars
<1>0. \A s \in {"orphan", "try", "retry", "drop"} :
        Start(l, p, [at |-> s]) => job' \in [Loops -> [Pods -> JobStates]]
  BY TaskTypes, StartTypes DEF IInv
<1>1. Done(l, p) => job' \in [Loops -> [Pods -> JobStates]]
  BY TaskTypes, StartTypes DEF Done, IInv
<1>2. CASE Orphan(l, p)
  <2>1. podFeed' \in Seq(PodEvents)
    BY <1>2, EventTypes, FeedSteps DEF Orphan, IInv, MaybeNodes
  <2>2. assigned' \in [Pods -> MaybeNodes]
    BY <1>2 DEF Orphan, IInv, TypeOK, MaybeNodes
  <2> QED
    BY <1>0, <1>2, <2>1, <2>2, BookUnchanged DEF Orphan, IInv, TypeOK
<1>3. CASE OrphanGone(l, p)
  BY <1>1, <1>3, BookUnchanged DEF OrphanGone, IInv, TypeOK
<1>4. CASE OrphanFails(l, p)
  BY <1>1, <1>4, BookUnchanged DEF OrphanFails, IInv, TypeOK
<1>5. CASE Try(l, p)
  BY <1>5, PlaceInv DEF Try, IInv, TypeOK
<1>6. CASE Retry(l, p)
  BY <1>1, <1>6, PlaceInv, BookUnchanged DEF Retry, IInv, TypeOK
<1>7. CASE Assign(l, p)
  <2> DEFINE n == job[l][p].node
  <2>1. n \in MaybeNodes
    <3>1. job[l][p] \in JobStates /\ job[l][p].at = "assign"
      BY <1>7 DEF Assign, IInv, TypeOK
    <3> QED
      BY <3>1 DEF JobStates
  <2>2. assigned' \in [Pods -> MaybeNodes]
    BY <1>7, <2>1 DEF Assign, IInv, TypeOK
  <2>3. podFeed' \in Seq(PodEvents)
    BY <1>7, <2>1, EventTypes, FeedSteps DEF Assign, IInv
  <2>4. told' \in [Pods -> SUBSET Nodes]
    BY <1>7 DEF Assign, IInv, TypeOK
  <2> QED
    BY <1>1, <1>7, <2>2, <2>3, <2>4, BookUnchanged DEF Assign, IInv, TypeOK
<1>8. CASE NotFound(l, p)
  <2>1. faults' \in Nat
    BY <1>8 DEF NotFound, IInv, TypeOK
  <2> QED
    BY <1>0, <1>8, <2>1, BookUnchanged DEF NotFound, IInv, TypeOK
<1>9. CASE DropPending(l, p)
  BY <1>1, <1>9, BookUnchanged DEF DropPending, IInv, TypeOK
<1>10. CASE AssignFails(l, p)
  BY <1>1, <1>10, BookUnchanged DEF AssignFails, IInv, TypeOK
<1> QED
  BY <1>2, <1>3, <1>4, <1>5, <1>6, <1>7, <1>8, <1>9, <1>10 DEF JobStep

-----------------------------------------------------------------------------
(* IInv is inductive: every step of users, agents and loops keeps the      *)
(* types and the exact claims.                                             *)
THEOREM InductiveInvariant == Spec => []IInv
<1>1. IInv /\ [Next]_vars => IInv'
  <2> SUFFICES ASSUME IInv, [Next]_vars PROVE IInv'
    OBVIOUS
  <2>1. CASE UNCHANGED vars
    BY <2>1, BookUnchanged DEF vars, apiVars, stateVars, taskVars, IInv, TypeOK
  <2> QED
    BY <2>1, EnvironmentInv, NodesStepInv, PodsStepInv, JobStepInv DEF Next
<1> QED
  BY <1>1, InitInv, PTL DEF Spec

(* The scheduler's state and the feeds it reads keep their types; above    *)
(* all no claim falls below zero, however releases, evictions and repeated *)
(* records interleave.                                                     *)
THEOREM TypeCorrect == Spec => []TypeOK
<1>1. IInv => TypeOK
  BY DEF IInv
<1> QED
  BY <1>1, InductiveInvariant, PTL

(* What is claimed of a node is exactly what the pods placed on it ask for *)
(* (record_placement, release_placement, evict_node under both loops).     *)
THEOREM ClaimsAreExact == Spec => []ClaimsMatchPlacements
<1>1. IInv => ClaimsMatchPlacements
  BY DEF IInv, Exact, ClaimsMatchPlacements
<1> QED
  BY <1>1, InductiveInvariant, PTL

=============================================================================
