------------------------- MODULE NodeLivenessProofs -------------------------
(***************************************************************************)
(* Proofs about NodeLiveness, for any set of nodes and any finite set of   *)
(* streams per node: the count is exact, a watched node is READY, and a    *)
(* READY node without a stream is one whose last status write was          *)
(* interrupted.  The three are one inductive invariant, because what a     *)
(* teardown does to the status is decided by the count.                    *)
(***************************************************************************)
EXTENDS NodeLiveness, FiniteSetTheorems, TLAPS

TypeInv ==
  /\ backend \in Backends
  /\ up \in BOOLEAN
  /\ status \in [Nodes -> Statuses]
  /\ watchers \in [Nodes -> Nat]
  /\ rpc \in [Nodes -> [Slots -> Phases]]
  /\ owed \in [Nodes -> Statuses \cup {NoEvent}]
  /\ published \in [Nodes -> Statuses \cup {NoEvent}]
  /\ tainted \in [Nodes -> BOOLEAN]

(* A stream that is being announced has marked its node READY already, and *)
(* holds the lock that keeps it so.                                        *)
StartingIsReady ==
  \A n \in Nodes, k \in Slots : rpc[n][k] = "starting" => status[n] = "READY"

DownIsIdle == ~up => \A n \in Nodes, k \in Slots : rpc[n][k] = "idle"

IInv ==
  /\ TypeInv
  /\ CountMatchesStreams
  /\ WatchedNodeIsReady
  /\ ReadyNodeHasStream
  /\ StartingIsReady
  /\ DownIsIdle

-----------------------------------------------------------------------------
(* The streams counted for a node are finitely many.                       *)
LEMMA CountedFinite ==
  ASSUME NEW n \in Nodes
  PROVE  IsFiniteSet(Counted(n)) /\ Cardinality(Counted(n)) \in Nat
BY SlotsFinite, FS_Subset, FS_CardinalityType DEF Counted

(* Moving stream (n, k) to another phase changes what is counted for n by  *)
(* k alone, and nothing for the other nodes.                               *)
LEMMA CountedMove ==
  ASSUME TypeInv, NEW n \in Nodes, NEW k \in Slots, NEW p \in Phases,
         rpc' = [rpc EXCEPT ![n][k] = p]
  PROVE  /\ Counted(n)' = IF p \in {"open", "dropped"}
                            THEN Counted(n) \cup {k} ELSE Counted(n) \ {k}
         /\ \A m \in Nodes \ {n} : Counted(m)' = Counted(m)
BY DEF TypeInv, Counted

(* A set of streams that holds k and has at most one element is {k}.       *)
LEMMA LastStream ==
  ASSUME NEW n \in Nodes, NEW k \in Slots, k \in Counted(n), Cardinality(Counted(n)) <= 1
  PROVE  Counted(n) = {k}
<1>1. Cardinality(Counted(n)) # 0
  BY CountedFinite, FS_EmptySet
<1>2. Cardinality(Counted(n)) = 1
  BY <1>1, CountedFinite
<1>3. PICK x : Counted(n) = {x}
  BY <1>2, CountedFinite, FS_Singleton
<1> QED BY <1>3

(* Opening adds one to the count, tearing down takes one away.             *)
LEMMA CountedSize ==
  ASSUME NEW n \in Nodes, NEW k \in Slots
  PROVE  /\ k \notin Counted(n) => Cardinality(Counted(n) \cup {k}) = Cardinality(Counted(n)) + 1
         /\ k \in Counted(n) => Cardinality(Counted(n) \ {k}) = Cardinality(Counted(n)) - 1
BY CountedFinite, FS_AddElement, FS_RemoveElement

-----------------------------------------------------------------------------
(* The invariant holds before the first boot.                              *)
LEMMA InitIInv == Init => IInv
<1> SUFFICES ASSUME Init PROVE IInv
  OBVIOUS
<1>1. \A n \in Nodes : Counted(n) = {}
  BY DEF Init, Counted
<1>2. TypeInv
  BY DEF Init, TypeInv, Phases, NoEvent
<1>3. CountMatchesStreams
  BY <1>1, FS_EmptySet DEF CountMatchesStreams, Init
<1> QED
  BY <1>1, <1>2, <1>3
  DEF IInv, WatchedNodeIsReady, ReadyNodeHasStream, StartingIsReady, DownIsIdle, Init

(* No step of the server, an agent or a spawned teardown leaves the types. *)
LEMMA NextType == ASSUME TypeInv, [Next]_vars PROVE TypeInv'
<1> USE DEF TypeInv, Backends, Statuses, Phases, NoEvent, store
<1>1. CASE Boot
  BY <1>1 DEF Boot, Demote
<1>2. CASE Crash
  BY <1>2 DEF Crash
<1>3. ASSUME NEW S \in SUBSET Nodes, BootFails(S) PROVE TypeInv'
  BY <1>3 DEF BootFails, Demote
<1>4. ASSUME NEW n \in Nodes, NodeStep(n) PROVE TypeInv'
  <2>1. CASE Register(n)
    BY <2>1 DEF Register, RegisteredStatus
  <2>2. CASE AnnounceRegistration(n)
    BY <2>2 DEF AnnounceRegistration
  <2>3. CASE RegisterInterrupted(n)
    BY <2>3 DEF RegisterInterrupted
  <2> QED BY <1>4, <2>1, <2>2, <2>3 DEF NodeStep
<1>5. ASSUME NEW n \in Nodes, NEW k \in Slots, StreamStep(n, k) PROVE TypeInv'
  <2>1. CASE WatchRequest(n, k)
    BY <2>1 DEF WatchRequest
  <2>2. CASE WatchCancelled(n, k)
    BY <2>2 DEF WatchCancelled
  <2>3. CASE WatchCounted(n, k)
    BY <2>3 DEF WatchCounted
  <2>4. CASE MarkReady(n, k)
    BY <2>4 DEF MarkReady
  <2>5. CASE AnnounceReady(n, k)
    BY <2>5 DEF AnnounceReady
  <2>6. CASE MarkReadyInterrupted(n, k)
    BY <2>6 DEF MarkReadyInterrupted
  <2>7. CASE Drop(n, k)
    BY <2>7 DEF Drop
  <2>8. CASE Uncount(n, k)
    BY <2>8 DEF Uncount
  <2>9. CASE MarkNotReady(n, k)
    BY <2>9 DEF MarkNotReady
  <2>10. CASE AnnounceNotReady(n, k)
    BY <2>10 DEF AnnounceNotReady
  <2>11. CASE MarkNotReadyInterrupted(n, k)
    BY <2>11 DEF MarkNotReadyInterrupted
  <2> QED
    BY <1>5, <2>1, <2>2, <2>3, <2>4, <2>5, <2>6, <2>7, <2>8, <2>9, <2>10, <2>11
    DEF StreamStep
<1>6. CASE UNCHANGED vars
  BY <1>6 DEF vars
<1> QED BY <1>1, <1>2, <1>3, <1>4, <1>5, <1>6 DEF Next

-----------------------------------------------------------------------------
(* A step that keeps every stream, every count and READY where it is, and  *)
(* adds no READY, keeps the invariant.                                     *)
LEMMA StatusStep ==
  ASSUME IInv, TypeInv', UNCHANGED <<up, watchers, rpc, tainted>>, up,
         \A n \in Nodes : (status'[n] = "READY") = (status[n] = "READY")
  PROVE  IInv'
<1>1. \A n \in Nodes : Counted(n)' = Counted(n)
  BY DEF Counted
<1> QED
  BY <1>1 DEF IInv, CountMatchesStreams, WatchedNodeIsReady, ReadyNodeHasStream,
              StartingIsReady, DownIsIdle

(* Starting and stopping the server: no stream and no count is left, and   *)
(* no READY when it starts to serve.                                       *)
LEMMA ServerStep ==
  ASSUME IInv, TypeInv',
         \/ Boot
         \/ Crash
         \/ \E S \in SUBSET Nodes : BootFails(S)
  PROVE  IInv'
<1>1. \A n \in Nodes, k \in Slots : rpc'[n][k] = "idle"
  BY DEF IInv, DownIsIdle, Boot, Crash, BootFails
<1>2. \A n \in Nodes : Counted(n)' = {}
  BY <1>1 DEF Counted
<1>3. \A n \in Nodes : watchers'[n] = 0
  <2>1. CASE Crash
    BY <2>1 DEF Crash
  <2>2. CASE Boot \/ \E S \in SUBSET Nodes : BootFails(S)
    <3>1. ~up /\ UNCHANGED watchers
      BY <2>2 DEF Boot, BootFails
    <3>2. \A n \in Nodes : Counted(n) = {}
      BY <3>1 DEF IInv, DownIsIdle, Counted
    <3> QED BY <3>1, <3>2, FS_EmptySet DEF IInv, CountMatchesStreams
  <2> QED BY <2>1, <2>2
<1>4. up' => \A n \in Nodes : status'[n] # "READY"
  BY DEF Boot, Crash, BootFails, Demote, IInv, TypeInv
<1> QED
  BY <1>1, <1>2, <1>3, <1>4, FS_EmptySet
  DEF IInv, CountMatchesStreams, WatchedNodeIsReady, ReadyNodeHasStream, StartingIsReady,
      DownIsIdle

(* A step of one stream that leaves its node's count, status and set of    *)
(* counted streams alone: asking, giving up, dropping, and announcing the  *)
(* end.                                                                    *)
LEMMA QuietStep ==
  ASSUME IInv, TypeInv', NEW n \in Nodes, NEW k \in Slots,
         \/ WatchRequest(n, k)
         \/ WatchCancelled(n, k)
         \/ Drop(n, k)
         \/ AnnounceNotReady(n, k)
  PROVE  IInv'
<1> USE DEF IInv
<1>1. /\ UNCHANGED <<up, status, watchers, tainted>>
      /\ rpc[n][k] # "starting"
      /\ \E p \in Phases \ {"starting"} :
            /\ rpc' = [rpc EXCEPT ![n][k] = p]
            /\ p \in {"open", "dropped"} <=> k \in Counted(n)
  BY DEF WatchRequest, WatchCancelled, Drop, AnnounceNotReady, store, Counted, Phases
<1>2. \A m \in Nodes : Counted(m)' = Counted(m)
  BY <1>1 DEF TypeInv, Counted
<1>3. \A m \in Nodes, j \in Slots : (rpc'[m][j] = "starting") = (rpc[m][j] = "starting")
  BY <1>1 DEF TypeInv
<1>4. up
  BY DEF WatchRequest, WatchCancelled, Drop, AnnounceNotReady, DownIsIdle
<1> QED
  BY <1>1, <1>2, <1>3, <1>4
  DEF CountMatchesStreams, WatchedNodeIsReady, ReadyNodeHasStream, StartingIsReady, DownIsIdle

(* Counting a stream: it was not counted, and its node is READY.           *)
LEMMA OpenStep ==
  ASSUME IInv, TypeInv', NEW n \in Nodes, NEW k \in Slots,
         WatchCounted(n, k) \/ AnnounceReady(n, k)
  PROVE  IInv'
<1> USE DEF IInv
<1>1. /\ UNCHANGED <<up, status, tainted>>
      /\ watchers' = [watchers EXCEPT ![n] = @ + 1]
      /\ rpc[n][k] \in {"admitted", "starting"}
      /\ rpc' = [rpc EXCEPT ![n][k] = "open"]
  BY DEF WatchCounted, AnnounceReady
<1>2. status[n] = "READY"
  <2>1. CASE WatchCounted(n, k)
    BY <2>1, CountedFinite, FS_EmptySet
    DEF WatchCounted, CountMatchesStreams, WatchedNodeIsReady, TypeInv
  <2>2. CASE AnnounceReady(n, k)
    BY <2>2 DEF AnnounceReady, StartingIsReady
  <2> QED BY <2>1, <2>2
<1>3. /\ Counted(n)' = Counted(n) \cup {k}
      /\ \A m \in Nodes \ {n} : Counted(m)' = Counted(m)
  BY <1>1, CountedMove DEF Phases
<1>4. CountMatchesStreams'
  <2>1. k \notin Counted(n)
    BY <1>1 DEF Counted
  <2> QED BY <1>1, <1>3, <2>1, CountedSize DEF CountMatchesStreams, TypeInv
<1>5. up
  BY <1>1 DEF DownIsIdle
<1>6. \A m \in Nodes, j \in Slots :
         (m # n \/ j # k) => rpc'[m][j] = rpc[m][j]
  BY <1>1 DEF TypeInv
<1>7. \A m \in Nodes, j \in Slots : rpc'[m][j] = "starting" => rpc[m][j] = "starting"
  BY <1>1 DEF TypeInv
<1> QED
  BY <1>1, <1>2, <1>3, <1>4, <1>5, <1>6, <1>7
  DEF WatchedNodeIsReady, ReadyNodeHasStream, StartingIsReady, DownIsIdle

(* Marking READY: the node has no counted stream, and the stream that does *)
(* it holds the lock until it is counted.                                  *)
LEMMA ReadyStep ==
  ASSUME IInv, TypeInv', NEW n \in Nodes, NEW k \in Slots,
         MarkReady(n, k) \/ MarkReadyInterrupted(n, k)
  PROVE  IInv'
<1> USE DEF IInv
<1>1. /\ UNCHANGED <<up, watchers>>
      /\ rpc[n][k] = "admitted"
      /\ \/ /\ rpc' = [rpc EXCEPT ![n][k] = "starting"]
            /\ status' = [status EXCEPT ![n] = "READY"]
            /\ tainted' = [tainted EXCEPT ![n] = FALSE]
         \/ /\ rpc' = [rpc EXCEPT ![n][k] = "idle"]
            /\ \/ UNCHANGED <<status, tainted>>
               \/ /\ status' = [status EXCEPT ![n] = "READY"]
                  /\ tainted' = [tainted EXCEPT ![n] = TRUE]
  BY DEF MarkReady, MarkReadyInterrupted
<1>2. \A m \in Nodes : Counted(m)' = Counted(m)
  BY <1>1 DEF TypeInv, Counted
<1>3. CountMatchesStreams'
  BY <1>1, <1>2 DEF CountMatchesStreams
<1>4. WatchedNodeIsReady'
  BY <1>1, <1>2 DEF WatchedNodeIsReady, TypeInv
<1>5. up
  BY <1>1 DEF DownIsIdle
<1>6. \A m \in Nodes, j \in Slots :
         (m # n \/ j # k) => rpc'[m][j] = rpc[m][j]
  BY <1>1 DEF TypeInv
<1>7. /\ \A m \in Nodes \ {n} : status'[m] = status[m] /\ tainted'[m] = tainted[m]
      /\ \A m \in Nodes, j \in Slots : rpc[m][j] = "starting" => rpc'[m][j] = "starting"
  BY <1>1, <1>6 DEF TypeInv
<1>8. \/ status'[n] = status[n] /\ tainted'[n] = tainted[n] /\ rpc'[n][k] = "idle"
      \/ status'[n] = "READY" /\ rpc'[n][k] = "starting"
      \/ status'[n] = "READY" /\ tainted'[n] /\ rpc'[n][k] = "idle"
  BY <1>1 DEF TypeInv
<1>9. ReadyNodeHasStream'
  BY <1>2, <1>5, <1>7, <1>8 DEF ReadyNodeHasStream
<1>10. StartingIsReady'
  BY <1>6, <1>7, <1>8 DEF StartingIsReady
<1>11. DownIsIdle'
  BY <1>1, <1>5 DEF DownIsIdle
<1> QED BY <1>3, <1>4, <1>9, <1>10, <1>11

(* Tearing down: exactly one counted stream goes; if it was the last, the  *)
(* node is no longer READY or its status write was interrupted.            *)
LEMMA EndStep ==
  ASSUME IInv, TypeInv', NEW n \in Nodes, NEW k \in Slots,
         Uncount(n, k) \/ MarkNotReady(n, k) \/ MarkNotReadyInterrupted(n, k)
  PROVE  IInv'
<1> USE DEF IInv
<1>1. /\ UNCHANGED up
      /\ rpc[n][k] = "dropped"
      /\ WatchersFree
      /\ \E p \in {"idle", "ending"} : rpc' = [rpc EXCEPT ![n][k] = p]
  BY DEF Uncount, MarkNotReady, MarkNotReadyInterrupted
<1>2. k \in Counted(n)
  BY <1>1 DEF Counted
<1>3. /\ Counted(n)' = Counted(n) \ {k}
      /\ \A m \in Nodes \ {n} : Counted(m)' = Counted(m)
  BY <1>1, CountedMove DEF Phases
<1>4. watchers[n] = Cardinality(Counted(n)) /\ watchers[n] \in Nat
  BY DEF CountMatchesStreams, TypeInv
<1>5. up
  BY <1>1 DEF DownIsIdle
<1>6. \A m \in Nodes, j \in Slots : rpc'[m][j] # "starting"
  BY <1>1 DEF WatchersFree, TypeInv
<1>7. CASE Uncount(n, k)
  <2>1. /\ UNCHANGED <<status, tainted>>
        /\ watchers' = [watchers EXCEPT ![n] = @ - 1]
        /\ watchers[n] > 1
    BY <1>7 DEF Uncount
  <2>2. CountMatchesStreams'
    <3>1. Cardinality(Counted(n)') = Cardinality(Counted(n)) - 1
      BY <1>2, <1>3, CountedSize
    <3>2. watchers' \in [Nodes -> Int] /\ watchers'[n] = watchers[n] - 1
      BY <2>1 DEF TypeInv
    <3>3. \A m \in Nodes \ {n} : watchers'[m] = watchers[m]
      BY <2>1 DEF TypeInv
    <3> QED
      BY <1>3, <1>4, <3>1, <3>2, <3>3 DEF CountMatchesStreams
  <2>3. Counted(n)' # {}
    <3>1. Cardinality(Counted(n) \ {k}) # 0
      BY <1>2, <1>4, <2>1, CountedSize
    <3> QED BY <1>3, <3>1, FS_EmptySet
  <2> QED
    BY <1>1, <1>2, <1>3, <1>5, <1>6, <2>1, <2>2, <2>3
    DEF WatchedNodeIsReady, ReadyNodeHasStream, StartingIsReady, DownIsIdle, WatchersFree
<1>8. CASE MarkNotReady(n, k) \/ MarkNotReadyInterrupted(n, k)
  <2>1. /\ watchers' = [watchers EXCEPT ![n] = 0]
        /\ watchers[n] <= 1
        /\ \/ /\ status' = [status EXCEPT ![n] = "NOT_READY"]
              /\ tainted' = [tainted EXCEPT ![n] = FALSE]
           \/ /\ tainted' = [tainted EXCEPT ![n] = TRUE]
              /\ UNCHANGED status
    BY <1>8 DEF MarkNotReady, MarkNotReadyInterrupted
  <2>2. Counted(n)' = {}
    BY <1>2, <1>3, <1>4, <2>1, LastStream
  <2>3. CountMatchesStreams'
    BY <1>3, <2>1, <2>2, FS_EmptySet DEF CountMatchesStreams, TypeInv
  <2>4. WatchedNodeIsReady'
    BY <1>3, <2>1, <2>2 DEF WatchedNodeIsReady, TypeInv
  <2>5. ReadyNodeHasStream'
    <3>1. \A j \in Slots, m \in Nodes : rpc[m][j] # "starting"
      BY <1>1 DEF WatchersFree
    <3>2. \A m \in Nodes \ {n} : status'[m] = status[m] /\ tainted'[m] = tainted[m]
      BY <2>1 DEF TypeInv
    <3>3. status'[n] # "READY" \/ tainted'[n]
      BY <2>1 DEF TypeInv
    <3> QED
      BY <1>3, <1>5, <3>1, <3>2, <3>3 DEF ReadyNodeHasStream
  <2> QED
    BY <1>1, <1>5, <1>6, <2>3, <2>4, <2>5 DEF StartingIsReady, DownIsIdle
<1> QED BY <1>7, <1>8

-----------------------------------------------------------------------------
(* Every step keeps the invariant.                                         *)
LEMMA NextIInv == ASSUME IInv, [Next]_vars PROVE IInv'
<1>1. TypeInv'
  BY NextType DEF IInv
<1>2. CASE Boot \/ Crash \/ \E S \in SUBSET Nodes : BootFails(S)
  BY <1>1, <1>2, ServerStep
<1>3. ASSUME NEW n \in Nodes, NodeStep(n) PROVE IInv'
  <2>1. CASE Register(n) \/ RegisterInterrupted(n)
    BY <1>1, <2>1, StatusStep DEF Register, RegisterInterrupted, RegisteredStatus, IInv, TypeInv
  <2>2. CASE AnnounceRegistration(n)
    <3>1. UNCHANGED <<backend, up, status, watchers, rpc, tainted>>
      BY <2>2 DEF AnnounceRegistration, store
    <3> QED
      BY <1>1, <3>1
      DEF IInv, CountMatchesStreams, WatchedNodeIsReady, ReadyNodeHasStream, StartingIsReady,
          DownIsIdle, Counted
  <2> QED BY <1>3, <2>1, <2>2 DEF NodeStep
<1>4. ASSUME NEW n \in Nodes, NEW k \in Slots, StreamStep(n, k) PROVE IInv'
  BY <1>1, <1>4, QuietStep, OpenStep, ReadyStep, EndStep DEF StreamStep
<1>5. CASE UNCHANGED vars
  BY <1>1, <1>5
  DEF IInv, CountMatchesStreams, WatchedNodeIsReady, ReadyNodeHasStream, StartingIsReady,
      DownIsIdle, Counted, vars
<1> QED BY <1>2, <1>3, <1>4, <1>5 DEF Next

(* The inductive invariant holds in every reachable state.                 *)
THEOREM InductiveInvariant == Spec => []IInv
BY InitIInv, NextIInv, PTL DEF Spec

(* Type correctness: in particular a count never passes the number of      *)
(* streams a node can have, and never drops below zero.                    *)
THEOREM TypeCorrect == Spec => []TypeOK
<1>1. IInv => TypeOK
  <2> SUFFICES ASSUME IInv PROVE TypeOK
    OBVIOUS
  <2>1. \A n \in Nodes : watchers[n] \in 0 .. Cardinality(Slots)
    <3> SUFFICES ASSUME NEW n \in Nodes PROVE watchers[n] \in 0 .. Cardinality(Slots)
      OBVIOUS
    <3>1. Counted(n) \in SUBSET Slots
      BY DEF Counted
    <3>2. Cardinality(Counted(n)) <= Cardinality(Slots)
      BY <3>1, SlotsFinite, FS_Subset
    <3> QED BY <3>2, SlotsFinite, FS_CardinalityType DEF IInv, CountMatchesStreams, TypeInv
  <2> QED BY <2>1 DEF IInv, TypeInv, TypeOK
<1> QED BY <1>1, InductiveInvariant, PTL

(* The count of every node is the number of its streams that are opened    *)
(* and not torn down (node_watch_started, node_watch_ended).               *)
THEOREM CountIsExact == Spec => []CountMatchesStreams
<1>1. IInv => CountMatchesStreams
  BY DEF IInv
<1> QED BY <1>1, InductiveInvariant, PTL

(* A node whose agent holds a stream is READY, whatever write failed and   *)
(* whichever old stream is torn down late.                                 *)
THEOREM WatchedIsReady == Spec => []WatchedNodeIsReady
<1>1. IInv => WatchedNodeIsReady
  BY DEF IInv
<1> QED BY <1>1, InductiveInvariant, PTL

(* While the server serves, a READY node has a stream unless the last      *)
(* write of its status was interrupted.                                    *)
THEOREM ReadyHasStream == Spec => []ReadyNodeHasStream
<1>1. IInv => ReadyNodeHasStream
  BY DEF IInv
<1> QED BY <1>1, InductiveInvariant, PTL

-----------------------------------------------------------------------------
(* Neither a registration nor the late teardown of another stream takes    *)
(* READY away from a node with an open stream: the step that does finds    *)
(* one stream counted, its own.                                            *)
THEOREM ReconnectSafe == Spec => ReconnectKeepsReady
<1>1. ASSUME IInv, [Next]_vars
      PROVE  [\A n \in Nodes :
                up /\ up' /\ status[n] = "READY" /\ status'[n] # "READY"
                  => \A k \in Slots : rpc[n][k] # "open"]_vars
  <2> SUFFICES ASSUME NEW n \in Nodes, up, up', status[n] = "READY", status'[n] # "READY",
                      NEW j \in Slots, rpc[n][j] = "open"
               PROVE  FALSE
    OBVIOUS
  <2> USE <1>1 DEF IInv, TypeInv
  <2>1. PICK k \in Slots : MarkNotReady(n, k) \/ MarkNotReadyInterrupted(n, k)
    <3>1. ~Boot /\ ~Crash /\ ~(\E S \in SUBSET Nodes : BootFails(S)) /\ ~UNCHANGED vars
      BY DEF Boot, Crash, BootFails, vars
    <3>2. ~(\E m \in Nodes : NodeStep(m))
      BY DEF NodeStep, Register, RegisteredStatus, AnnounceRegistration, RegisterInterrupted, store
    <3>3. PICK m \in Nodes, k \in Slots : StreamStep(m, k)
      BY <3>1, <3>2 DEF Next
    <3>4. MarkNotReady(m, k) \/ MarkNotReadyInterrupted(m, k)
      BY <3>3
      DEF StreamStep, WatchRequest, WatchCancelled, WatchCounted, MarkReady, AnnounceReady,
          MarkReadyInterrupted, Drop, Uncount, AnnounceNotReady, store
    <3>5. m = n
      BY <3>4 DEF MarkNotReady, MarkNotReadyInterrupted
    <3> QED BY <3>4, <3>5
  <2>2. rpc[n][k] = "dropped" /\ watchers[n] <= 1
    BY <2>1 DEF MarkNotReady, MarkNotReadyInterrupted
  <2>3. j \in Counted(n) /\ k \in Counted(n) /\ j # k
    BY <2>2 DEF Counted
  <2>4. Counted(n) = {k}
    BY <2>2, <2>3, LastStream DEF CountMatchesStreams
  <2> QED BY <2>3, <2>4
<1> QED BY <1>1, InductiveInvariant, PTL DEF Spec, ReconnectKeepsReady

-----------------------------------------------------------------------------
(* A stream that is still to announce its node's loss holds the lock, so   *)
(* nobody has written the status since it did.                             *)
EndingIsNotReady ==
  \A n \in Nodes, k \in Slots : rpc[n][k] = "ending" => status[n] = "NOT_READY"

LEMMA EndingStep ==
  ASSUME IInv, EndingIsNotReady, [Next]_vars
  PROVE  EndingIsNotReady'
<1> USE DEF EndingIsNotReady, IInv, TypeInv
<1>1. CASE Boot \/ Crash \/ \E S \in SUBSET Nodes : BootFails(S)
  BY <1>1 DEF Boot, Crash, BootFails, DownIsIdle, Demote
<1>2. ASSUME NEW n \in Nodes, NodeStep(n) PROVE EndingIsNotReady'
  BY <1>2
  DEF NodeStep, Register, RegisteredStatus, AnnounceRegistration, RegisterInterrupted, store
<1>3. ASSUME NEW n \in Nodes, NEW k \in Slots, StreamStep(n, k) PROVE EndingIsNotReady'
  <2>1. CASE WatchRequest(n, k) \/ WatchCancelled(n, k) \/ Drop(n, k) \/ AnnounceNotReady(n, k)
    BY <2>1 DEF WatchRequest, WatchCancelled, Drop, AnnounceNotReady, store
  <2>2. CASE WatchCounted(n, k) \/ AnnounceReady(n, k) \/ Uncount(n, k)
    <3>1. status' = status /\ \E phase \in {"open", "idle"} : rpc' = [rpc EXCEPT ![n][k] = phase]
      BY <2>2 DEF WatchCounted, AnnounceReady, Uncount
    <3> QED
      BY <3>1
  <2>3. CASE MarkReady(n, k) \/ MarkReadyInterrupted(n, k) \/ MarkNotReadyInterrupted(n, k)
    <3>1. \A m \in Nodes, j \in Slots : rpc'[m][j] # "ending"
      BY <2>3 DEF MarkReady, MarkReadyInterrupted, MarkNotReadyInterrupted, WatchersFree
    <3> QED
      BY <3>1
  <2>4. CASE MarkNotReady(n, k)
    BY <2>4 DEF MarkNotReady, WatchersFree
  <2> QED
    BY <1>3, <2>1, <2>2, <2>3, <2>4 DEF StreamStep
<1>4. CASE UNCHANGED vars
  BY <1>4 DEF vars
<1> QED
  BY <1>1, <1>2, <1>3, <1>4 DEF Next

(* The events of opening and closing streams tell the stored status; only  *)
(* a registration's can be out of date (set_node_status, register_node).   *)
THEOREM StreamEventsCurrent == Spec => StreamEventsAreCurrent
<1>1. Init => EndingIsNotReady
  BY DEF Init, EndingIsNotReady
<1>2. Spec => []EndingIsNotReady
  BY <1>1, InductiveInvariant, EndingStep, PTL DEF Spec
<1>3. ASSUME IInv, EndingIsNotReady, [Next]_vars
      PROVE  [\A n \in Nodes :
                published'[n] \in {published[n], owed[n], NoEvent, status'[n]}]_vars
  <2> USE DEF IInv, TypeInv
  <2>1. CASE Boot \/ Crash \/ \E S \in SUBSET Nodes : BootFails(S)
    BY <2>1 DEF Boot, Crash, BootFails
  <2>2. ASSUME NEW n \in Nodes, NodeStep(n)
        PROVE  \A m \in Nodes : published'[m] \in {published[m], owed[m], NoEvent, status'[m]}
    BY <1>3, <2>2 DEF NodeStep, Register, AnnounceRegistration, RegisterInterrupted
  <2>3. ASSUME NEW n \in Nodes, NEW k \in Slots, StreamStep(n, k)
        PROVE  \A m \in Nodes : published'[m] \in {published[m], owed[m], NoEvent, status'[m]}
    <3>1. CASE AnnounceReady(n, k)
      BY <1>3, <3>1 DEF AnnounceReady, StartingIsReady
    <3>2. CASE AnnounceNotReady(n, k)
      BY <1>3, <3>2 DEF AnnounceNotReady, EndingIsNotReady, store
    <3>3. CASE UNCHANGED published
      BY <3>3
    <3> QED
      BY <2>3, <3>1, <3>2, <3>3
      DEF StreamStep, WatchRequest, WatchCancelled, WatchCounted, MarkReady,
          MarkReadyInterrupted, Drop, Uncount, MarkNotReady, MarkNotReadyInterrupted
  <2> QED
    BY <1>3, <2>1, <2>2, <2>3 DEF Next, vars
<1> QED
  BY <1>2, <1>3, InductiveInvariant, PTL DEF Spec, StreamEventsAreCurrent
=============================================================================
