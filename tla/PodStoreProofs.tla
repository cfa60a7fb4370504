--------------------------- MODULE PodStoreProofs ---------------------------
(***************************************************************************)
(* Proofs about PodStore, for any pods, nodes, calls and bounds.  The      *)
(* version alone does not identify a record, because it starts again with  *)
(* every life of a key; version and life together do (ReadsArePinned).     *)
(* In the first life of a name the version is enough: a transaction that   *)
(* finds the version it read replaces the very record it read.             *)
(***************************************************************************)
EXTENDS PodStore, TLAPS

(* A key that exists is in its last life; one that does not holds nothing. *)
LivesCounted ==
  \A p \in Pods :
    IF Exists(p) THEN pods[p].life = lives[p] /\ lives[p] >= 1 ELSE pods[p] = NoPod

(* What a call has read is still there, or an older version of it is not   *)
(* there any more, or its life is over.                                    *)
Pinned(r, p) ==
  /\ r.version >= 1
  /\ 1 <= r.life /\ r.life <= lives[p]
  /\ pods[p].life = r.life =>
       r.version <= pods[p].version /\ (r.version = pods[p].version => r = pods[p])

ReadsArePinned ==
  \A c \in Calls :
    calls[c].phase = "read" =>
      \/ Pinned(calls[c].rec, calls[c].pod)
      \/ calls[c].rec = NoPod /\ calls[c].req.op = "remove"

(* A removal that is about to be announced, or has been, is of a life that *)
(* is over.                                                                *)
Over(life, p) == 1 <= life /\ life <= lives[p] /\ pods[p].life # life

RemovalsAreFinal ==
  /\ \A c \in Calls : IsAt(c, "committed", {"remove"}) => Over(calls[c].rec.life, calls[c].pod)
  /\ \A p \in Pods : feed[p].kind = "DELETED" => Over(feed[p].life, p)

IInv == TypeOK /\ LivesCounted /\ ReadsArePinned /\ RemovalsAreFinal

-----------------------------------------------------------------------------
(* A call that is not idle has a request, a pod and a record.              *)
LEMMA BusyCall ==
  ASSUME TypeOK, NEW c \in Calls, calls[c].phase # "idle"
  PROVE  calls[c] \in CallStates
BY DEF TypeOK, Idle

LEMMA IdleIsNoCallState == Idle \notin CallStates /\ Idle.phase = "idle"
BY DEF Idle, CallStates, Phases

LEMMA NoPodIsRecord == NoPod \in Records /\ ~(NoPod.version > 0)
BY DEF NoPod, Records, MaybeNodes, PodStatuses

LEMMA RequestFields ==
  ASSUME NEW req \in Requests
  PROVE  /\ req.op \in Updates \cup {"create", "remove"}
         /\ req.node \in MaybeNodes
         /\ req.status \in PodStatuses
BY DEF Requests, Assignments, Reports, Creation, Removal, Updates, MaybeNodes, PodStatuses

(* What a mutate closure does to a record.                                 *)
LEMMA MutateFields ==
  ASSUME NEW rec \in Records, NEW req \in Requests
  PROVE  /\ Mutate(rec, req) \in Records
         /\ Mutate(rec, req).version = rec.version
         /\ Mutate(rec, req).life = rec.life
         /\ Mutate(rec, req).status = req.status
         /\ Mutate(rec, req).node = IF req.op = "report" THEN rec.node ELSE req.node
BY RequestFields DEF Mutate, Records

LEMMA InitInv == Init => IInv
BY NoPodIsRecord, BoundsAreNat
   DEF Init, IInv, TypeOK, LivesCounted, ReadsArePinned, RemovalsAreFinal, Exists, NoPod, Idle, IsAt

LEMMA CallIsCallState ==
  ASSUME NEW phase \in Phases, NEW req \in Requests, NEW p \in Pods, NEW rec \in Records
  PROVE  Call(phase, req, p, rec) \in CallStates
BY DEF Call, CallStates

(* A step that leaves the pods and the feed alone keeps the invariant if   *)
(* the call it changes is, if it has now read, pinned, and is no removal   *)
(* that has been committed.                                                *)
LEMMA QuietStep ==
  ASSUME IInv, NEW c \in Calls, NEW v \in CallStates \cup {Idle}, Turn(c, v),
         UNCHANGED <<backend, pods, lives, feed>>,
         v.phase = "read" => Pinned(v.rec, v.pod) \/ (v.rec = NoPod /\ v.req.op = "remove"),
         v.phase # "committed"
  PROVE  IInv'
<1>1. TypeOK'
  BY DEF IInv, TypeOK, Turn
<1>2. LivesCounted'
  BY DEF IInv, LivesCounted, Exists
<1>3. ReadsArePinned'
  BY DEF IInv, TypeOK, ReadsArePinned, Pinned, Turn
<1>4. RemovalsAreFinal'
  BY DEF IInv, TypeOK, RemovalsAreFinal, Over, IsAt, Turn
<1> QED
  BY <1>1, <1>2, <1>3, <1>4 DEF IInv

(* So does a step that replaces the record of an existing pod by the next  *)
(* version in the same life: no read is of that version yet.               *)
LEMMA ChangeStep ==
  ASSUME IInv, NEW c \in Calls, NEW p \in Pods, NEW rec \in Records, Exists(p),
         NEW v \in CallStates \cup {Idle}, Turn(c, v), v.phase \notin {"read"},
         ~(v.phase = "committed" /\ v.req.op = "remove"),
         pods' = [pods EXCEPT ![p] = rec],
         rec.version = pods[p].version + 1, rec.life = pods[p].life,
         \/ feed' = feed
         \/ \E e \in [life: Nat, kind: {"ADDED", "SCHEDULED", "MODIFIED"}] : feed' = [feed EXCEPT ![p] = e],
         UNCHANGED <<backend, lives>>
  PROVE  IInv'
<1> USE DEF IInv
<1>1. TypeOK'
  BY DEF TypeOK, Turn
<1>2. LivesCounted'
  BY DEF TypeOK, LivesCounted, Exists, Records
<1>3. ReadsArePinned'
  <2> SUFFICES ASSUME NEW d \in Calls, calls'[d].phase = "read"
               PROVE  \/ Pinned(calls[d].rec, calls[d].pod)'
                      \/ (calls[d].rec = NoPod /\ calls[d].req.op = "remove")'
    BY DEF ReadsArePinned
  <2>1. d # c /\ calls'[d] = calls[d]
    BY DEF TypeOK, Turn
  <2>2. calls[d] \in CallStates
    BY <2>1, BusyCall
  <2>3. CASE calls[d].rec = NoPod /\ calls[d].req.op = "remove"
    BY <2>1, <2>3
  <2>4. CASE Pinned(calls[d].rec, calls[d].pod)
    BY <2>1, <2>2, <2>4 DEF TypeOK, Pinned, CallStates, Records
  <2> QED
    BY <2>1, <2>3, <2>4 DEF ReadsArePinned
<1>4. RemovalsAreFinal'
  <2>1. ASSUME NEW l, NEW q \in Pods, Over(l, q) PROVE Over(l, q)'
    BY <2>1 DEF Over, TypeOK
  <2>2. ASSUME NEW d \in Calls, IsAt(d, "committed", {"remove"})'
        PROVE  Over(calls[d].rec.life, calls[d].pod)'
    <3>1. d # c /\ calls'[d] = calls[d]
      BY <2>2 DEF TypeOK, Turn, IsAt
    <3>2. calls[d] \in CallStates /\ IsAt(d, "committed", {"remove"})
      BY <2>2, <3>1, BusyCall DEF IsAt
    <3>3. calls[d].pod \in Pods /\ Over(calls[d].rec.life, calls[d].pod)
      BY <3>2 DEF RemovalsAreFinal, CallStates
    <3> QED
      BY <2>1, <3>1, <3>3
  <2>3. ASSUME NEW q \in Pods, feed'[q].kind = "DELETED" PROVE Over(feed[q].life, q)'
    <3>1. feed'[q] = feed[q]
      BY <2>3 DEF TypeOK
    <3> QED
      BY <2>1, <2>3, <3>1 DEF RemovalsAreFinal
  <2> QED
    BY <2>2, <2>3 DEF RemovalsAreFinal
<1> QED
  BY <1>1, <1>2, <1>3, <1>4

(* And a step that removes a pod, whoever is about to announce it.         *)
LEMMA GoneStep ==
  ASSUME IInv, NEW c \in Calls, NEW p \in Pods,
         NEW v \in CallStates \cup {Idle}, Turn(c, v), v.phase \notin {"read"},
         v.phase = "committed" => v.pod = p /\ 1 <= v.rec.life /\ v.rec.life <= lives[p],
         pods' = [pods EXCEPT ![p] = NoPod],
         NEW l \in Nat, 1 <= l, l <= lives[p],
         feed' = feed \/ feed' = [feed EXCEPT ![p] = [life |-> l, kind |-> "DELETED"]],
         UNCHANGED <<backend, lives>>
  PROVE  IInv'
<1> USE DEF IInv
<1>1. TypeOK'
  BY NoPodIsRecord DEF TypeOK, Turn
<1>2. LivesCounted'
  BY NoPodIsRecord DEF TypeOK, LivesCounted, Exists
<1>3. ReadsArePinned'
  <2> SUFFICES ASSUME NEW d \in Calls, calls'[d].phase = "read"
               PROVE  \/ Pinned(calls[d].rec, calls[d].pod)'
                      \/ (calls[d].rec = NoPod /\ calls[d].req.op = "remove")'
    BY DEF ReadsArePinned
  <2>1. d # c /\ calls'[d] = calls[d]
    BY DEF TypeOK, Turn
  <2>2. calls[d] \in CallStates
    BY <2>1, BusyCall
  <2>3. CASE calls[d].rec = NoPod /\ calls[d].req.op = "remove"
    BY <2>1, <2>3
  <2>4. CASE Pinned(calls[d].rec, calls[d].pod)
    BY <2>1, <2>2, <2>4 DEF TypeOK, Pinned, CallStates, Records, NoPod
  <2> QED
    BY <2>1, <2>3, <2>4 DEF ReadsArePinned
<1>4. RemovalsAreFinal'
  <2>0. NoPod.life = 0
    BY DEF NoPod
  <2>1. ASSUME NEW m, NEW q \in Pods, 1 <= m, m <= lives[q], q = p \/ Over(m, q) PROVE Over(m, q)'
    BY <2>0, <2>1 DEF Over, TypeOK
  <2>2. ASSUME NEW d \in Calls, IsAt(d, "committed", {"remove"})'
        PROVE  Over(calls[d].rec.life, calls[d].pod)'
    <3>1. CASE d = c
      BY <2>1, <2>2, <3>1 DEF TypeOK, Turn, IsAt
    <3>2. CASE d # c
      <4>1. calls'[d] = calls[d] /\ IsAt(d, "committed", {"remove"})
        BY <2>2, <3>2 DEF TypeOK, Turn, IsAt
      <4>2. calls[d].pod \in Pods /\ Over(calls[d].rec.life, calls[d].pod)
        BY <4>1, BusyCall DEF RemovalsAreFinal, CallStates, IsAt
      <4> QED
        BY <2>1, <4>1, <4>2 DEF Over
    <3> QED
      BY <3>1, <3>2
  <2>3. ASSUME NEW q \in Pods, feed'[q].kind = "DELETED" PROVE Over(feed[q].life, q)'
    <3>1. CASE feed'[q] = feed[q]
      BY <2>1, <2>3, <3>1 DEF RemovalsAreFinal, Over
    <3>2. CASE feed'[q] # feed[q]
      <4>1. q = p /\ feed'[q].life = l
        BY <3>2 DEF TypeOK
      <4> QED
        BY <2>1, <4>1
    <3> QED
      BY <3>1, <3>2
  <2> QED
    BY <2>2, <2>3 DEF RemovalsAreFinal
<1> QED
  BY <1>1, <1>2, <1>3, <1>4

-----------------------------------------------------------------------------
(* The record an update puts, given what it read.                          *)
PutRecord(rec, req, p) ==
  [Mutate(rec, req) EXCEPT !.version = pods[p].version + 1, !.life = pods[p].life]

LEMMA PutFields ==
  ASSUME TypeOK, NEW rec \in Records, NEW req \in Requests, NEW p \in Pods
  PROVE  /\ PutRecord(rec, req, p) \in Records
         /\ PutRecord(rec, req, p).version = pods[p].version + 1
         /\ PutRecord(rec, req, p).life = pods[p].life
         /\ PutRecord(rec, req, p).status = req.status
         /\ PutRecord(rec, req, p).node = IF req.op = "report" THEN rec.node ELSE req.node
<1>1. Mutate(rec, req) \in Records
  BY MutateFields
<1>2. pods[p].version + 1 \in Nat /\ pods[p].life \in Nat
  BY DEF TypeOK, Records
<1> QED
  BY <1>1, <1>2, MutateFields DEF PutRecord, Records

LEMMA MutatedFields ==
  ASSUME TypeOK, NEW req \in Requests, NEW p \in Pods
  PROVE  /\ Mutated(p, req) \in Records
         /\ Mutated(p, req).version = pods[p].version + 1
         /\ Mutated(p, req).life = pods[p].life
         /\ Mutated(p, req).status = req.status
         /\ Mutated(p, req).node = IF req.op = "report" THEN pods[p].node ELSE req.node
<1>1. pods[p] \in Records
  BY DEF TypeOK
<1>2. Mutate(pods[p], req) \in Records
  BY <1>1, MutateFields
<1> QED
  BY <1>1, <1>2, MutateFields DEF Mutated, Records

LEMMA CreateInv ==
  ASSUME IInv, NEW c \in Calls, NEW p \in Pods, Create(c, p)
  PROVE  IInv'
<1> DEFINE life == lives[p] + 1
           rec == [NoPod EXCEPT !.version = 1, !.life = life, !.spec = life]
           v == Call("committed", Creation, p, rec)
<1>1. /\ pods' = [pods EXCEPT ![p] = rec] /\ lives' = [lives EXCEPT ![p] = life]
      /\ Turn(c, v) /\ UNCHANGED <<backend, feed>> /\ pods[p] = NoPod
  BY DEF Create, Begin, IInv, LivesCounted
<1>2. life \in Nat /\ life >= 1 /\ life > lives[p]
  BY DEF Create, IInv, TypeOK
<1>3. rec \in Records /\ rec.version = 1 /\ rec.life = life
  BY <1>2, NoPodIsRecord DEF Records, NoPod
<1>4. v \in CallStates /\ v.phase = "committed" /\ v.req.op = "create"
  BY <1>3, CallIsCallState DEF Call, Phases, Requests, Creation
<1> HIDE DEF life, rec, v
<1>5. TypeOK'
  BY <1>1, <1>2, <1>3, <1>4 DEF IInv, TypeOK, Turn
<1>6. LivesCounted'
  BY <1>1, <1>2, <1>3 DEF IInv, TypeOK, LivesCounted, Exists
<1>7. ReadsArePinned'
  <2> SUFFICES ASSUME NEW d \in Calls, calls'[d].phase = "read"
               PROVE  \/ Pinned(calls[d].rec, calls[d].pod)'
                      \/ (calls[d].rec = NoPod /\ calls[d].req.op = "remove")'
    BY DEF ReadsArePinned
  <2>1. d # c /\ calls'[d] = calls[d] /\ calls[d] \in CallStates
    BY <1>1, <1>4, BusyCall DEF IInv, TypeOK, Turn
  <2>2. CASE calls[d].rec = NoPod /\ calls[d].req.op = "remove"
    BY <2>1, <2>2
  <2>3. CASE Pinned(calls[d].rec, calls[d].pod)
    <3>1. /\ calls[d].rec.life \in Nat /\ lives[calls[d].pod] \in Nat
          /\ calls[d].rec.life <= lives[calls[d].pod]
      BY <2>1, <2>3 DEF Pinned, IInv, TypeOK, CallStates, Records
    <3>2. CASE calls[d].pod = p
      BY <1>1, <1>2, <1>3, <2>1, <2>3, <3>1, <3>2 DEF IInv, TypeOK, Pinned
    <3>3. CASE calls[d].pod # p
      BY <1>1, <2>1, <2>3, <3>3 DEF IInv, TypeOK, Pinned
    <3> QED
      BY <3>2, <3>3
  <2> QED
    BY <2>1, <2>2, <2>3 DEF IInv, ReadsArePinned
<1>8. RemovalsAreFinal'
  <2>1. ASSUME NEW l, NEW q \in Pods, Over(l, q), l \in Nat PROVE Over(l, q)'
    BY <1>1, <1>2, <1>3, <2>1 DEF Over, IInv, TypeOK
  <2>2. ASSUME NEW d \in Calls, IsAt(d, "committed", {"remove"})'
        PROVE  Over(calls[d].rec.life, calls[d].pod)'
    <3>1. d # c /\ calls'[d] = calls[d]
      BY <1>1, <1>4, <2>2 DEF IInv, TypeOK, Turn, IsAt
    <3>2. IsAt(d, "committed", {"remove"}) /\ calls[d] \in CallStates
      BY <2>2, <3>1, BusyCall DEF IsAt, IInv
    <3>3. /\ calls[d].pod \in Pods /\ calls[d].rec.life \in Nat
          /\ Over(calls[d].rec.life, calls[d].pod)
      BY <3>2 DEF IInv, RemovalsAreFinal, CallStates, Records
    <3> QED
      BY <2>1, <3>1, <3>3
  <2>3. ASSUME NEW q \in Pods, feed'[q].kind = "DELETED" PROVE Over(feed[q].life, q)'
    BY <1>1, <2>1, <2>3 DEF IInv, TypeOK, RemovalsAreFinal
  <2> QED
    BY <2>2, <2>3 DEF RemovalsAreFinal
<1> QED
  BY <1>5, <1>6, <1>7, <1>8 DEF IInv

(* A read takes the record that is there.                                  *)
LEMMA ReadPinned ==
  ASSUME IInv, NEW p \in Pods, Exists(p)
  PROVE  Pinned(pods[p], p)
BY DEF IInv, TypeOK, LivesCounted, Pinned, Exists, Records

LEMMA CommitInv ==
  ASSUME IInv, NEW c \in Calls, Commit(c)
  PROVE  IInv'
<1> DEFINE p == calls[c].pod
           rec == PutRecord(calls[c].rec, calls[c].req, p)
           v == Call("committed", calls[c].req, p, rec)
<1>1. calls[c] \in CallStates /\ calls[c].req.op \in Updates /\ calls[c].phase = "read"
  BY BusyCall DEF Commit, IsAt, IInv
<1>2. p \in Pods /\ calls[c].rec \in Records /\ calls[c].req \in Requests
  BY <1>1 DEF CallStates
<1>3. Pinned(calls[c].rec, p)
  BY <1>1 DEF IInv, ReadsArePinned, Updates
<1>4. CASE pods[p].version = calls[c].rec.version
  <2>1. Put(c) /\ UNCHANGED <<backend, lives, feed>>
    BY <1>4 DEF Commit
  <2>2. pods' = [pods EXCEPT ![p] = rec] /\ Turn(c, v)
    BY <2>1 DEF Put, Become, Begin, PutRecord
  <2>3. rec \in Records /\ rec.version = pods[p].version + 1 /\ rec.life = pods[p].life
    BY <1>2, PutFields DEF IInv
  <2>4. v \in CallStates /\ v.phase = "committed" /\ v.req.op \in Updates
    BY <1>1, <1>2, <2>3, CallIsCallState DEF Call, Phases
  <2>5. Exists(p)
    BY <1>2, <1>3, <1>4 DEF Pinned, Exists, Records
  <2> HIDE DEF rec, v, p
  <2>6. /\ v \in CallStates \cup {Idle} /\ v.phase \notin {"read"}
        /\ ~(v.phase = "committed" /\ v.req.op = "remove")
    BY <2>4 DEF Updates
  <2>7. feed' = feed /\ UNCHANGED <<backend, lives>>
    BY <2>1
  <2> QED
    BY <1>2, <2>2, <2>3, <2>5, <2>6, <2>7, ChangeStep
<1>5. CASE pods[p].version # calls[c].rec.version
  <2> DEFINE w == Call("refused", calls[c].req, p, calls[c].rec)
  <2>1. Turn(c, w) /\ UNCHANGED <<backend, pods, lives, feed>>
    BY <1>5 DEF Commit, Become, Begin
  <2>2. w \in CallStates /\ w.phase = "refused"
    BY <1>2, CallIsCallState DEF Call, Phases
  <2> HIDE DEF w
  <2> QED
    BY <2>1, <2>2, QuietStep
<1> QED
  BY <1>4, <1>5

LEMMA DeleteInv ==
  ASSUME IInv, NEW c \in Calls, Delete(c)
  PROVE  IInv'
<1> DEFINE p == calls[c].pod
           rec == calls[c].rec
           v == Call(IF rec = NoPod THEN "refused" ELSE "committed", calls[c].req, p, rec)
<1>1. calls[c] \in CallStates /\ calls[c].phase = "read"
  BY BusyCall DEF Delete, IsAt, IInv
<1>2. p \in Pods /\ rec \in Records /\ calls[c].req \in Requests /\ lives[p] \in Nat
  BY <1>1 DEF CallStates, IInv, TypeOK
<1>3. pods' = [pods EXCEPT ![p] = NoPod] /\ Turn(c, v) /\ UNCHANGED <<backend, lives, feed>>
  BY DEF Delete, Become, Begin
<1>4. /\ v \in CallStates /\ v.phase = IF rec = NoPod THEN "refused" ELSE "committed"
      /\ v.pod = p /\ v.rec = rec
  BY <1>2, CallIsCallState DEF Call, Phases
<1>5. rec # NoPod => 1 <= rec.life /\ rec.life <= lives[p] /\ 1 <= lives[p]
  BY <1>1, <1>2 DEF IInv, ReadsArePinned, Pinned, Records
<1>6. Exists(p) => 1 <= lives[p]
  BY <1>2 DEF IInv, LivesCounted
<1>7. ~Exists(p) => pods' = pods
  BY <1>2, <1>3 DEF IInv, LivesCounted, TypeOK
<1> HIDE DEF p, rec, v
<1>8. CASE rec = NoPod /\ ~Exists(p)
  BY <1>3, <1>4, <1>7, <1>8, QuietStep
<1>9. CASE ~(rec = NoPod /\ ~Exists(p))
  <2>1. lives[p] \in Nat /\ 1 <= lives[p] /\ lives[p] <= lives[p]
    BY <1>2, <1>5, <1>6, <1>9
  <2>2. /\ v \in CallStates \cup {Idle} /\ v.phase \notin {"read"}
        /\ v.phase = "committed" => v.pod = p /\ 1 <= v.rec.life /\ v.rec.life <= lives[p]
    BY <1>4, <1>5
  <2>3. feed' = feed /\ UNCHANGED <<backend, lives>>
    BY <1>3
  <2> QED
    BY <1>2, <1>3, <2>1, <2>2, <2>3, GoneStep
<1> QED
  BY <1>8, <1>9

LEMMA InMemoryInv ==
  ASSUME IInv, NEW c \in Calls, NEW p \in Pods, NEW req \in Requests,
         req.op \in Updates, ChangeInMemory(p, req, Mutated(p, req)),
         Ended(c, req, p, Mutated(p, req))
  PROVE  IInv'
<1> DEFINE rec == Mutated(p, req)
           v == IF req.op \in {"place", "remove"} THEN Call("done", req, p, rec) ELSE Idle
           e == Event(pods[p], req)
<1>1. rec \in Records /\ rec.version = pods[p].version + 1 /\ rec.life = pods[p].life
  BY MutatedFields DEF IInv
<1>2. /\ Exists(p) /\ pods' = [pods EXCEPT ![p] = rec] /\ feed' = [feed EXCEPT ![p] = e]
      /\ UNCHANGED <<backend, lives>> /\ Turn(c, v)
  BY DEF ChangeInMemory, Ended
<1>3. e \in [life: Nat, kind: {"ADDED", "SCHEDULED", "MODIFIED"}]
  BY DEF Event, Updates, IInv, TypeOK, Records
<1>4. v \in CallStates \cup {Idle} /\ v.phase \notin {"read", "committed"}
  BY <1>1, CallIsCallState DEF Call, Phases, Idle
<1> HIDE DEF rec, v, e
<1> QED
  BY <1>1, <1>2, <1>3, <1>4, ChangeStep

LEMMA RemoveInMemoryInv ==
  ASSUME IInv, NEW c \in Calls, NEW p \in Pods, RemoveInMemory(c, p)
  PROVE  IInv'
<1> DEFINE v == Call("done", Removal, p, pods[p])
           l == pods[p].life
<1>1. /\ Exists(p) /\ pods' = [pods EXCEPT ![p] = NoPod]
      /\ feed' = [feed EXCEPT ![p] = [life |-> l, kind |-> "DELETED"]]
      /\ UNCHANGED <<backend, lives>> /\ Turn(c, v)
  BY DEF RemoveInMemory, ChangeInMemory, Ended, Event, Removal
<1>2. v \in CallStates /\ v.phase = "done"
  BY CallIsCallState DEF Call, Phases, Requests, IInv, TypeOK
<1>3. l \in Nat /\ 1 <= l /\ l <= lives[p]
  BY <1>1 DEF IInv, TypeOK, LivesCounted, Records
<1> HIDE DEF v, l
<1> QED
  BY <1>1, <1>2, <1>3, GoneStep

LEMMA AnnounceInv ==
  ASSUME IInv, NEW c \in Calls, Announce(c)
  PROVE  IInv'
<1> DEFINE p == calls[c].pod
           rec == calls[c].rec
           req == calls[c].req
           v == IF req.op \in {"place", "remove"} THEN Call("done", req, p, rec) ELSE Idle
<1>1. calls[c] \in CallStates /\ calls[c].phase = "committed"
  BY BusyCall DEF Announce, IInv
<1>2. p \in Pods /\ rec \in Records /\ req \in Requests
  BY <1>1 DEF CallStates
<1>3. Turn(c, v) /\ feed' = [feed EXCEPT ![p] = Event(rec, req)] /\ UNCHANGED <<backend, pods, lives>>
  BY DEF Announce, Ended
<1>4. v \in CallStates \cup {Idle} /\ v.phase \notin {"read", "committed"}
  BY <1>2, CallIsCallState DEF Call, Phases, Idle
<1>5. /\ Event(rec, req) \in [life: Nat, kind: {"ADDED", "SCHEDULED", "MODIFIED", "DELETED"}]
      /\ Event(rec, req).life = rec.life
      /\ Event(rec, req).kind = "DELETED" => req.op = "remove"
  BY <1>2, RequestFields DEF Event, Records, Updates
<1>6. req.op = "remove" => Over(rec.life, p)
  BY <1>1 DEF IInv, RemovalsAreFinal, IsAt
<1> HIDE DEF p, rec, req, v
<1>7. TypeOK'
  BY <1>2, <1>3, <1>4, <1>5 DEF IInv, TypeOK, Turn
<1>8. LivesCounted'
  BY <1>3 DEF IInv, LivesCounted, Exists
<1>9. ReadsArePinned'
  BY <1>3, <1>4 DEF IInv, TypeOK, ReadsArePinned, Pinned, Turn
<1>10. RemovalsAreFinal'
  BY <1>2, <1>3, <1>4, <1>5, <1>6 DEF IInv, TypeOK, RemovalsAreFinal, Over, IsAt, Turn
<1> QED
  BY <1>7, <1>8, <1>9, <1>10 DEF IInv

LEMMA QuietInv ==
  ASSUME IInv, NEW c \in Calls, NEW p \in Pods,
         \/ RemoveNothing(c, p) \/ ReadForRemoval(c, p)
         \/ \E req \in Assignments : ReadForAssign(c, p, req)
         \/ \E req \in Reports : CheckReport(c, p, req)
         \/ ReportGone(c) \/ ReadForReport(c) \/ Return(c) \/ Abandon(c)
  PROVE  IInv'
<1>1. NoPod \in Records /\ pods[p] \in Records /\ Removal \in Requests
  BY NoPodIsRecord DEF IInv, TypeOK, Requests
<1>2. ~Exists(p) => pods[p] = NoPod
  BY DEF IInv, LivesCounted
<1>3. ASSUME NEW v \in CallStates \cup {Idle}, Turn(c, v), UNCHANGED <<backend, pods, lives, feed>>,
             v.phase \notin {"read", "committed"}
      PROVE  IInv'
  BY <1>3, QuietStep
<1>4. ASSUME NEW q \in Pods, NEW req \in Requests, Exists(q),
             Turn(c, Call("read", req, q, pods[q])), UNCHANGED <<backend, pods, lives, feed>>
      PROVE  IInv'
  <2> DEFINE v == Call("read", req, q, pods[q])
  <2>1. v \in CallStates /\ v.phase = "read" /\ v.rec = pods[q] /\ v.pod = q
    BY <1>4, CallIsCallState DEF Call, Phases, IInv, TypeOK
  <2>2. Pinned(pods[q], q)
    BY <1>4, ReadPinned
  <2> HIDE DEF v
  <2> QED
    BY <1>4, <2>1, <2>2, QuietStep DEF v
<1>5. CASE RemoveNothing(c, p)
  <2> DEFINE v == Call("refused", Removal, p, NoPod)
  <2>1. v \in CallStates /\ v.phase = "refused"
    BY <1>1, CallIsCallState DEF Call, Phases
  <2>2. Turn(c, v) /\ UNCHANGED <<backend, pods, lives, feed>>
    BY <1>5 DEF RemoveNothing, Begin
  <2> HIDE DEF v
  <2> QED
    BY <1>3, <2>1, <2>2
<1>6. CASE ReadForRemoval(c, p)
  <2> DEFINE v == Call("read", Removal, p, pods[p])
  <2>1. /\ v \in CallStates /\ v.phase = "read" /\ v.rec = pods[p] /\ v.pod = p
        /\ v.req.op = "remove"
    BY <1>1, CallIsCallState DEF Call, Phases, Removal
  <2>2. Turn(c, v) /\ UNCHANGED <<backend, pods, lives, feed>>
    BY <1>6 DEF ReadForRemoval, Begin
  <2> HIDE DEF v
  <2> QED
    BY <1>2, <2>1, <2>2, ReadPinned, QuietStep
<1>7. ASSUME NEW req \in Assignments, ReadForAssign(c, p, req) PROVE IInv'
  BY <1>4, <1>7 DEF ReadForAssign, Begin, Requests
<1>8. ASSUME NEW req \in Reports, CheckReport(c, p, req) PROVE IInv'
  <2> DEFINE v == Call("checked", req, p, NoPod)
  <2>1. v \in CallStates /\ v.phase = "checked"
    BY <1>1, CallIsCallState DEF Call, Phases, Requests
  <2>2. Turn(c, v) /\ UNCHANGED <<backend, pods, lives, feed>>
    BY <1>8 DEF CheckReport, Begin
  <2> HIDE DEF v
  <2> QED
    BY <1>3, <2>1, <2>2
<1>9. CASE ReportGone(c)
  <2> DEFINE v == Call("refused", calls[c].req, calls[c].pod, NoPod)
  <2>1. calls[c] \in CallStates
    BY <1>9, BusyCall DEF ReportGone, IsAt, IInv
  <2>2. v \in CallStates /\ v.phase = "refused"
    BY <1>1, <2>1, CallIsCallState DEF Call, Phases, CallStates
  <2>3. Turn(c, v) /\ UNCHANGED <<backend, pods, lives, feed>>
    BY <1>9 DEF ReportGone, Become, Begin
  <2> HIDE DEF v
  <2> QED
    BY <1>3, <2>2, <2>3
<1>10. CASE ReadForReport(c)
  <2>1. calls[c] \in CallStates
    BY <1>10, BusyCall DEF ReadForReport, IsAt, IInv
  <2>2. calls[c].pod \in Pods /\ calls[c].req \in Requests
    BY <2>1 DEF CallStates
  <2> QED
    BY <1>4, <1>10, <2>2 DEF ReadForReport, Become, Begin
<1>11. CASE Return(c) \/ Abandon(c)
  BY <1>3, <1>11, IdleIsNoCallState DEF Return, Abandon
<1> QED
  BY <1>5, <1>6, <1>7, <1>8, <1>9, <1>10, <1>11

(* Every step keeps the invariant.                                         *)
LEMMA NextInv == IInv /\ [Next]_storeVars => IInv'
<1> SUFFICES ASSUME IInv, [Next]_storeVars PROVE IInv'
  OBVIOUS
<1>1. CASE UNCHANGED storeVars
  BY <1>1 DEF storeVars, IInv, TypeOK, LivesCounted, ReadsArePinned, RemovalsAreFinal, Exists,
              Pinned, Over, IsAt
<1>2. ASSUME NEW c \in Calls, Progress(c) PROVE IInv'
  <2>1. CASE ReportInMemory(c)
    <3>1. calls[c] \in CallStates /\ calls[c].req.op = "report"
      BY <2>1, BusyCall DEF ReportInMemory, IsAt, IInv
    <3>2. calls[c].pod \in Pods /\ calls[c].req \in Requests
      BY <3>1 DEF CallStates
    <3> QED
      BY <2>1, <3>1, <3>2, InMemoryInv DEF ReportInMemory, Updates
  <2>2. CASE Announce(c)
    BY <2>2, AnnounceInv
  <2>3. CASE Commit(c)
    BY <2>3, CommitInv
  <2>4. CASE Delete(c)
    BY <2>4, DeleteInv
  <2>5. CASE ReportGone(c) \/ ReadForReport(c)
    <3>1. calls[c] \in CallStates
      BY <2>5, BusyCall DEF ReportGone, ReadForReport, IsAt, IInv
    <3>2. calls[c].pod \in Pods
      BY <3>1 DEF CallStates
    <3> QED
      BY <2>5, <3>2, QuietInv
  <2>6. CASE Return(c) \/ Abandon(c)
    <3>1. calls[c] \in CallStates
      BY <2>6, BusyCall DEF Return, Abandon, IInv
    <3>2. calls[c].pod \in Pods
      BY <3>1 DEF CallStates
    <3> QED
      BY <2>6, <3>2, QuietInv
  <2> QED
    BY <1>2, <2>1, <2>2, <2>3, <2>4, <2>5, <2>6 DEF Progress
<1>3. ASSUME NEW c \in Calls, NEW p \in Pods, Request(c, p) PROVE IInv'
  <2>1. CASE Create(c, p)
    BY <2>1, CreateInv
  <2>2. CASE RemoveInMemory(c, p)
    BY <2>2, RemoveInMemoryInv
  <2>3. ASSUME NEW req \in Assignments, AssignInMemory(c, p, req) PROVE IInv'
    <3>1. req \in Requests /\ req.op \in Updates
      BY DEF Requests, Assignments, Updates
    <3> QED
      BY <2>3, <3>1, InMemoryInv DEF AssignInMemory
  <2> QED
    BY <1>3, <2>1, <2>2, <2>3, QuietInv DEF Request
<1> QED
  BY <1>1, <1>2, <1>3 DEF Next

(* In every reachable state, types are right, versions and lives pin what  *)
(* calls have read, and announced removals are final.                      *)
THEOREM InductiveInvariant == Spec => []IInv
BY InitInv, NextInv, PTL DEF Spec

(* The store's state is well typed.                                        *)
THEOREM TypeCorrect == Spec => []TypeOK
BY InductiveInvariant, PTL DEF IInv

(* Once a DELETED event is out, the pod it tells of is gone for good.      *)
THEOREM RemovalIsFinal == Spec => []AnnouncedRemovalIsFinal
<1>1. IInv => AnnouncedRemovalIsFinal
  BY DEF IInv, RemovalsAreFinal, Over, AnnouncedRemovalIsFinal
<1> QED
  BY <1>1, InductiveInvariant, PTL

-----------------------------------------------------------------------------
(* What a step can do to the pods: create one, in a life of its own; put   *)
(* the next version of one, made from a record that has its version; remove *)
(* one; or leave them alone.                                               *)
Created(p) ==
  /\ ~Exists(p)
  /\ lives' = [lives EXCEPT ![p] = @ + 1]
  /\ \E rec \in Records :
       /\ pods' = [pods EXCEPT ![p] = rec]
       /\ rec.version = 1 /\ rec.life = lives[p] + 1
       /\ rec.node = NoNode /\ rec.status = "PENDING"

Updated(p) ==
  /\ Exists(p) /\ UNCHANGED lives
  /\ \E old \in Records, rec \in Records, req \in Assignments \cup Reports :
       /\ pods' = [pods EXCEPT ![p] = rec]
       /\ old.version = pods[p].version /\ Pinned(old, p)
       /\ rec.version = pods[p].version + 1 /\ rec.life = pods[p].life
       /\ rec.status = req.status
       /\ rec.node = IF req.op = "report" THEN old.node ELSE req.node

Removed(p) == pods' = [pods EXCEPT ![p] = NoPod] /\ UNCHANGED lives

LEMMA MemoryEffect ==
  ASSUME IInv, NEW p \in Pods, NEW req \in Assignments \cup Reports,
         ChangeInMemory(p, req, Mutated(p, req))
  PROVE  Updated(p)
<1>1. req \in Requests
  BY DEF Requests
<1>2. pods[p] \in Records /\ Exists(p) /\ Pinned(pods[p], p)
  BY ReadPinned DEF ChangeInMemory, IInv, TypeOK
<1> DEFINE rec == Mutated(p, req)
<1>3. /\ rec \in Records /\ rec.version = pods[p].version + 1 /\ rec.life = pods[p].life
      /\ rec.status = req.status
      /\ rec.node = IF req.op = "report" THEN pods[p].node ELSE req.node
  BY <1>1, MutatedFields DEF IInv
<1>4. pods' = [pods EXCEPT ![p] = rec] /\ UNCHANGED lives
  BY DEF ChangeInMemory
<1> HIDE DEF rec
<1> QED
  BY <1>2, <1>3, <1>4 DEF Updated

LEMMA CommitEffect ==
  ASSUME IInv, NEW c \in Calls, Commit(c)
  PROVE  UNCHANGED <<pods, lives>> \/ \E p \in Pods : Updated(p)
<1> DEFINE p == calls[c].pod
           old == calls[c].rec
           req == calls[c].req
           rec == PutRecord(old, req, p)
<1>1. calls[c] \in CallStates /\ req.op \in Updates /\ calls[c].phase = "read"
  BY BusyCall DEF Commit, IsAt, IInv
<1>2. p \in Pods /\ old \in Records /\ req \in Requests /\ req \in Assignments \cup Reports
  BY <1>1 DEF CallStates, Requests, Updates, Creation, Removal
<1>3. Pinned(old, p)
  BY <1>1 DEF IInv, ReadsArePinned, Updates
<1>4. CASE pods[p].version # old.version
  BY <1>4 DEF Commit
<1>5. CASE pods[p].version = old.version
  <2>1. pods' = [pods EXCEPT ![p] = rec] /\ UNCHANGED lives
    BY <1>5 DEF Commit, Put, PutRecord
  <2>2. Exists(p)
    BY <1>2, <1>3, <1>5 DEF Pinned, Exists, Records
  <2>3. /\ rec \in Records
        /\ rec.version = pods[p].version + 1 /\ rec.life = pods[p].life
        /\ rec.status = req.status
        /\ rec.node = IF req.op = "report" THEN old.node ELSE req.node
    BY <1>2, PutFields DEF IInv
  <2> HIDE DEF p, old, req, rec
  <2> QED
    BY <1>2, <1>3, <1>5, <2>1, <2>2, <2>3 DEF Updated
<1> QED
  BY <1>4, <1>5

LEMMA StepEffect ==
  ASSUME IInv, Next
  PROVE  \/ UNCHANGED <<pods, lives>>
         \/ \E p \in Pods : Created(p) \/ Updated(p) \/ Removed(p)
<1>1. ASSUME NEW c \in Calls, Progress(c)
      PROVE  UNCHANGED <<pods, lives>> \/ \E p \in Pods : Updated(p) \/ Removed(p)
  <2>1. CASE Commit(c)
    BY <2>1, CommitEffect
  <2>2. CASE Delete(c)
    <3>1. calls[c].pod \in Pods
      BY <2>2, BusyCall DEF Delete, IsAt, IInv, CallStates
    <3> QED
      BY <2>2, <3>1 DEF Delete, Removed
  <2>3. CASE ReportInMemory(c)
    <3>1. calls[c] \in CallStates /\ calls[c].req.op = "report"
      BY <2>3, BusyCall DEF ReportInMemory, IsAt, IInv
    <3>2. calls[c].pod \in Pods /\ calls[c].req \in Reports
      BY <3>1 DEF CallStates, Requests, Assignments, Creation, Removal
    <3> QED
      BY <2>3, <3>2, MemoryEffect DEF ReportInMemory
  <2> QED
    BY <1>1, <2>1, <2>2, <2>3 DEF Progress, ReportGone, ReadForReport, Announce, Return, Abandon
<1>2. ASSUME NEW c \in Calls, NEW p \in Pods, Request(c, p)
      PROVE  UNCHANGED <<pods, lives>> \/ Created(p) \/ Updated(p) \/ Removed(p)
  <2>1. CASE Create(c, p)
    <3> DEFINE life == lives[p] + 1
               rec == [NoPod EXCEPT !.version = 1, !.life = life, !.spec = life]
    <3>1. /\ ~Exists(p)
          /\ pods' = [pods EXCEPT ![p] = rec] /\ lives' = [lives EXCEPT ![p] = life]
      BY <2>1 DEF Create
    <3>2. life \in Nat
      BY DEF IInv, TypeOK
    <3>3. /\ rec \in Records /\ rec.version = 1 /\ rec.life = life
          /\ rec.node = NoNode /\ rec.status = "PENDING"
      BY <3>2, NoPodIsRecord DEF NoPod, Records
    <3> HIDE DEF rec
    <3> QED
      BY <3>1, <3>3 DEF Created
  <2>2. CASE RemoveInMemory(c, p)
    BY <2>2 DEF RemoveInMemory, ChangeInMemory, Removed
  <2>3. ASSUME NEW req \in Assignments, AssignInMemory(c, p, req) PROVE Updated(p)
    BY <2>3, MemoryEffect DEF AssignInMemory
  <2> QED
    BY <1>2, <2>1, <2>2, <2>3 DEF Request, ReadForRemoval, RemoveNothing, ReadForAssign, CheckReport
<1> QED
  BY <1>1, <1>2 DEF Next

(* A removed pod comes back only as a new pod, in a life of its own.       *)
THEOREM NeverResurrected == Spec => NoResurrection
<1>1. ASSUME IInv, Next, NEW p \in Pods, ~Exists(p), Exists(p)'
      PROVE  /\ pods'[p].life = lives[p] + 1 /\ lives'[p] = lives[p] + 1
             /\ pods'[p].node = NoNode /\ pods'[p].status = "PENDING"
  <2>1. pods'[p] # pods[p]
    BY <1>1 DEF Exists
  <2>2. PICK q \in Pods : Created(q) \/ Updated(q) \/ Removed(q)
    BY <1>1, <2>1, StepEffect
  <2>3. q = p
    BY <1>1, <2>1, <2>2 DEF Created, Updated, Removed, IInv, TypeOK
  <2>4. ~Updated(p) /\ ~Removed(p)
    BY <1>1, NoPodIsRecord DEF Updated, Removed, Exists, IInv, TypeOK
  <2>5. Created(p)
    BY <2>2, <2>3, <2>4
  <2> QED
    BY <1>1, <2>5 DEF Created, IInv, TypeOK
<1>2. IInv /\ [Next]_storeVars =>
        [\A p \in Pods :
           ~Exists(p) /\ Exists(p)' =>
             /\ pods'[p].life = lives[p] + 1 /\ lives'[p] = lives[p] + 1
             /\ pods'[p].node = NoNode /\ pods'[p].status = "PENDING"]_storeVars
  BY <1>1
<1> QED
  BY <1>2, InductiveInvariant, PTL DEF Spec, NoResurrection

-----------------------------------------------------------------------------
(* The refinement.  In the first life of a name the version pins the       *)
(* record, so an update changes what the registry holds; in a later life   *)
(* the registry holds nothing of that name and the step is a stutter.      *)
RegPods == [p \in Pods |-> Seen(pods[p])]
RegUsed == {p \in Pods : lives[p] > 0}
Nothing == [node |-> NoNode, status |-> "ABSENT"]

LEMMA SeenFields ==
  ASSUME NEW rec \in Records
  PROVE  /\ rec.version = 0 \/ rec.life # 1 => Seen(rec) = Nothing
         /\ rec.version > 0 /\ rec.life = 1 =>
              Seen(rec) = [node |-> rec.node, status |-> rec.status] /\ Seen(rec) # Nothing
BY DEF Seen, Nothing, Records, PodStatuses

(* Changing one pod changes its entry in the registry.                     *)
LEMMA RegMove ==
  ASSUME TypeOK, NEW p \in Pods, NEW rec \in Records, pods' = [pods EXCEPT ![p] = rec]
  PROVE  /\ RegPods' = [RegPods EXCEPT ![p] = Seen(rec)]
         /\ Seen(rec) = Seen(pods[p]) => RegPods' = RegPods
BY DEF TypeOK, RegPods

LEMMA CreateMoves ==
  ASSUME IInv, NEW p \in Pods, Created(p)
  PROVE  Registry!Next \/ UNCHANGED <<RegPods, RegUsed>>
<1>1. PICK rec \in Records : /\ pods' = [pods EXCEPT ![p] = rec] /\ rec.version = 1
                             /\ rec.life = lives[p] + 1
                             /\ rec.node = NoNode /\ rec.status = "PENDING"
  BY DEF Created
<1>2. lives[p] \in Nat /\ RegPods[p] = Nothing /\ pods[p] \in Records
  BY SeenFields, NoPodIsRecord DEF Created, IInv, TypeOK, LivesCounted, RegPods, Exists, NoPod
<1>3. RegUsed' = RegUsed \cup {p}
  BY DEF Created, RegUsed, IInv, TypeOK
<1>4. CASE lives[p] = 0
  <2>1. RegPods' = [RegPods EXCEPT ![p] = [node |-> NoNode, status |-> "PENDING"]]
    <3>1. Seen(rec) = [node |-> NoNode, status |-> "PENDING"]
      BY <1>1, <1>4, SeenFields
    <3>2. TypeOK /\ pods' = [pods EXCEPT ![p] = rec]
      BY <1>1 DEF IInv
    <3>3. RegPods' = [RegPods EXCEPT ![p] = Seen(rec)]
      BY <3>2, RegMove
    <3> QED
      BY <3>1, <3>3
  <2>2. Registry!Create(p)
    BY <1>3, <1>4, <2>1 DEF Registry!Create, RegPods, RegUsed
  <2> QED
    BY <2>2 DEF Registry!Next
<1>5. CASE lives[p] > 0
  <2>1. Seen(rec) = Nothing /\ Seen(pods[p]) = Nothing
    BY <1>1, <1>2, <1>5, SeenFields DEF RegPods
  <2>2. RegPods' = RegPods
    BY <1>1, <2>1, RegMove DEF IInv
  <2>3. RegUsed' = RegUsed
    BY <1>3, <1>5 DEF RegUsed
  <2> QED
    BY <2>2, <2>3
<1> QED
  BY <1>2, <1>4, <1>5

LEMMA UpdateMoves ==
  ASSUME IInv, NEW p \in Pods, Updated(p)
  PROVE  Registry!Next \/ UNCHANGED <<RegPods, RegUsed>>
<1>1. PICK old \in Records, rec \in Records, req \in Assignments \cup Reports :
        /\ pods' = [pods EXCEPT ![p] = rec]
        /\ old.version = pods[p].version /\ Pinned(old, p)
        /\ rec.version = pods[p].version + 1 /\ rec.life = pods[p].life
        /\ rec.status = req.status
        /\ rec.node = IF req.op = "report" THEN old.node ELSE req.node
  BY DEF Updated
<1>2. RegUsed' = RegUsed
  BY DEF Updated, RegUsed
<1>3. pods[p] \in Records /\ pods[p].version > 0 /\ pods[p].life = lives[p]
  BY DEF Updated, Exists, IInv, TypeOK, LivesCounted
<1>4. rec.version > 0
  BY <1>1, <1>3 DEF Records
<1>5. CASE pods[p].life # 1
  <2>1. Seen(rec) = Nothing /\ Seen(pods[p]) = Nothing
    BY <1>1, <1>3, <1>5, SeenFields
  <2>2. RegPods' = RegPods
    BY <1>1, <2>1, RegMove DEF IInv
  <2> QED
    BY <1>2, <2>2
<1>6. CASE pods[p].life = 1
  <2>1. old = pods[p]
    BY <1>1, <1>3, <1>6 DEF Pinned, Records
  <2>2. RegPods[p] = [node |-> pods[p].node, status |-> pods[p].status] /\ RegPods[p] # Nothing
    BY <1>3, <1>6, SeenFields DEF RegPods
  <2>3. RegPods' = [RegPods EXCEPT ![p] = [node |-> rec.node, status |-> rec.status]]
    <3>1. Seen(rec) = [node |-> rec.node, status |-> rec.status]
      <4>1. rec \in Records /\ rec.life = 1
        BY <1>1, <1>6
      <4> QED
        BY <1>4, <4>1, SeenFields
    <3>2. TypeOK /\ pods' = [pods EXCEPT ![p] = rec]
      BY <1>1 DEF IInv
    <3>3. RegPods' = [RegPods EXCEPT ![p] = Seen(rec)]
      BY <3>2, RegMove
    <3> QED
      BY <3>1, <3>3
  <2>4. CASE req \in Reports
    <3>1. req.op = "report" /\ req.status \in {"RUNNING", "FAILED"}
      BY <2>4 DEF Reports
    <3>2. RegPods' = [RegPods EXCEPT ![p] = [node |-> RegPods[p].node, status |-> req.status]]
      <4>1. rec.status = req.status /\ rec.node = pods[p].node /\ RegPods[p].node = pods[p].node
        BY <1>1, <2>1, <2>2, <3>1
      <4> QED
        BY <2>3, <4>1
    <3>3. Registry!Report(p)
      BY <1>2, <2>2, <3>1, <3>2
         DEF Registry!Report, Registry!Stored, Registry!Absent, Nothing, RegPods, RegUsed
    <3> QED
      BY <3>3 DEF Registry!Next
  <2>5. CASE req \in Assignments
    <3>1. /\ rec.node = req.node /\ rec.status = req.status
          /\ \/ req.node \in Nodes /\ req.status = "PENDING"
             \/ req.node = NoNode /\ req.status \in {"NO_NODE_AVAILABLE", "UNKNOWN"}
      BY <1>1, <2>5 DEF Assignments
    <3>2. Registry!Place(p) \/ Registry!Unplace(p)
      BY <1>2, <2>2, <2>3, <3>1
         DEF Registry!Place, Registry!Unplace, Registry!Stored, Registry!Absent, Nothing,
             RegPods, RegUsed
    <3> QED
      BY <3>2 DEF Registry!Next
  <2> QED
    BY <2>4, <2>5
<1> QED
  BY <1>5, <1>6

LEMMA RemoveMoves ==
  ASSUME IInv, NEW p \in Pods, Removed(p)
  PROVE  Registry!Next \/ UNCHANGED <<RegPods, RegUsed>>
<1>1. pods' = [pods EXCEPT ![p] = NoPod] /\ RegUsed' = RegUsed
  BY DEF Removed, RegUsed
<1>2. Seen(NoPod) = Nothing /\ NoPod \in Records
  BY NoPodIsRecord DEF Seen, NoPod, Nothing
<1>3. CASE Seen(pods[p]) = Nothing
  BY <1>1, <1>2, <1>3, RegMove DEF IInv
<1>4. CASE Seen(pods[p]) # Nothing
  <2>1. RegPods[p] # Nothing
    BY <1>4 DEF RegPods
  <2>2. RegPods' = [RegPods EXCEPT ![p] = Nothing]
    BY <1>1, <1>2, RegMove DEF IInv
  <2>3. Registry!Remove(p)
    BY <1>1, <2>1, <2>2
       DEF Registry!Remove, Registry!Stored, Registry!Absent, Nothing, RegPods, RegUsed
  <2> QED
    BY <2>3 DEF Registry!Next
<1> QED
  BY <1>3, <1>4

LEMMA RegistryStep ==
  ASSUME IInv, Next
  PROVE  Registry!Next \/ UNCHANGED <<RegPods, RegUsed>>
<1>1. CASE UNCHANGED <<pods, lives>>
  BY <1>1 DEF RegPods, RegUsed
<1> QED
  BY <1>1, StepEffect, CreateMoves, UpdateMoves, RemoveMoves

(* Until its name is used again, a pod is a pod of the registry in which   *)
(* every call is one step.                                                 *)
THEOREM Refinement == Spec => ImplementsRegistry
<1>1. Init => Registry!Init
  BY DEF Init, Registry!Init, Registry!Absent, Seen, NoPod
<1>2. IInv /\ [Next]_storeVars => [Registry!Next]_<<RegPods, RegUsed>>
  BY RegistryStep DEF storeVars, RegPods, RegUsed
<1> QED
  BY <1>1, <1>2, InductiveInvariant, PTL DEF Spec, ImplementsRegistry, Registry!Spec, RegPods, RegUsed
=============================================================================
