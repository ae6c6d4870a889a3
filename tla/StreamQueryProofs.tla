--------------------------- MODULE StreamQueryProofs ---------------------------
(***************************************************************************)
(* For every collection, query, block size, buffer size, interleaving,     *)
(* broken stream and deadline: a search that ranks rows ranks exactly the  *)
(* rows the reference definition names.  The proof is the usual one: the   *)
(* invariant Inductive of StreamQuery holds initially and every action     *)
(* preserves it; RankingProofs carries its heap to the counting            *)
(* definitions when the last shard has completed.                          *)
(***************************************************************************)
EXTENDS StreamQuery, RankingProofs

--------------------------------------------------------------------------------
(* What the messages are made of, so that their records stay folded below. *)

LEMMA Messages ==
  /\ Pending \in AnswerType /\ Failed \in AnswerType /\ Failed # Pending
  /\ Failed.kind # "rows" /\ Pending.kind # "rows"
  /\ \A R \in SUBSET Row : Ranked(R) \in AnswerType /\ Ranked(R) # Pending
  /\ \A R : Ranked(R).rows = R
  /\ NoBatch \in BatchType /\ ~NoBatch.open /\ NoBatch.rows = {}
  /\ NoControl \in ControlType /\ NoControl.kind # "floor"
  /\ Stop \in ControlType /\ Stop.kind # "floor"
  /\ \A f \in Int : FloorUpdate(f) \in ControlType /\ FloorUpdate(f).floor = f
  /\ \A c \in ControlType : c.floor \in Int
  /\ \A b \in BatchType : b.rows \in SUBSET Row /\ b.open \in BOOLEAN
  /\ \A kind, R : Event(kind, R).kind = kind /\ Event(kind, R).rows = R
  /\ \A R \in SUBSET Row : Event("batch", R) \in EventType
  /\ \A kind \in {"summary", "incomplete", "error", "closed"} :
       Event(kind, {}) \in EventType
  BY DEF AnswerType, BatchType, ControlType, EventType, Pending, Failed, Ranked,
         NoBatch, NoControl, Stop, FloorUpdate, Event

LEMMA EventRows ==
  ASSUME NEW e \in EventType
  PROVE  e.rows \in SUBSET Row /\ (e.kind # "batch" => e.rows = {})
  BY DEF EventType

--------------------------------------------------------------------------------
(* Sequences of buffered events.                                           *)

LEMMA AppendEvent ==
  ASSUME NEW S, NEW q \in Seq(S), NEW e \in S
  PROVE  /\ Append(q, e) \in Seq(S)
         /\ DOMAIN Append(q, e) = DOMAIN q \union {Len(q) + 1}
         /\ Len(q) \in Nat /\ DOMAIN q = 1..Len(q)
         /\ \A i \in DOMAIN q : Append(q, e)[i] = q[i]
         /\ Append(q, e)[Len(q) + 1] = e
  OBVIOUS

LEMMA TakeEvent ==
  ASSUME NEW S, NEW q \in Seq(S), q # <<>>
  PROVE  /\ Tail(q) \in Seq(S) /\ Head(q) \in S
         /\ 1 \in DOMAIN q /\ Head(q) = q[1]
         /\ \A i \in DOMAIN q : i \in Int /\ i >= 1
         /\ \A i \in DOMAIN Tail(q) : i + 1 \in DOMAIN q /\ Tail(q)[i] = q[i + 1]
         /\ \A i \in DOMAIN q : i > 1 => /\ i - 1 \in DOMAIN Tail(q)
                                         /\ Tail(q)[i - 1] = q[i]
  OBVIOUS

LEMMA KeepEvents ==
  ASSUME NEW S, NEW q \in Seq(S), NEW kept \in 0..Len(q)
  PROVE  /\ SubSeq(q, 1, kept) \in Seq(S)
         /\ DOMAIN SubSeq(q, 1, kept) = 1..kept
         /\ DOMAIN q = 1..Len(q) /\ Len(q) \in Nat
         /\ \A i \in 1..kept : i \in DOMAIN q /\ SubSeq(q, 1, kept)[i] = q[i]
  OBVIOUS

--------------------------------------------------------------------------------
(* Type correctness.                                                       *)

LEMMA HeapInsert ==
  ASSUME NEW H, IsFiniteSet(H), NEW k \in Nat \ {0}, Cardinality(H) <= k, NEW r
  PROVE  /\ Cardinality(H) < k =>
              /\ IsFiniteSet(H \union {r})
              /\ Cardinality(H \union {r}) <= k
         /\ \A w \in H : /\ IsFiniteSet((H \ {w}) \union {r})
                         /\ Cardinality((H \ {w}) \union {r}) <= k
                         /\ r \notin H => Cardinality((H \ {w}) \union {r})
                                            = Cardinality(H)
<1>1. Cardinality(H) \in Nat
  BY FS_CardinalityType
<1>2. /\ IsFiniteSet(H \union {r})
      /\ Cardinality(H \union {r}) = IF r \in H THEN Cardinality(H)
                                     ELSE Cardinality(H) + 1
  BY FS_AddElement
<1>3. ASSUME NEW w \in H
      PROVE  /\ IsFiniteSet((H \ {w}) \union {r})
             /\ Cardinality((H \ {w}) \union {r}) <= k
             /\ r \notin H => Cardinality((H \ {w}) \union {r}) = Cardinality(H)
  <2>1. IsFiniteSet(H \ {w}) /\ Cardinality(H \ {w}) = Cardinality(H) - 1
    BY FS_RemoveElement
  <2>2. /\ IsFiniteSet((H \ {w}) \union {r})
        /\ Cardinality((H \ {w}) \union {r}) =
             IF r \in H \ {w} THEN Cardinality(H \ {w})
             ELSE Cardinality(H \ {w}) + 1
    BY <2>1, FS_AddElement
  <2> QED  BY <1>1, <2>1, <2>2
<1> QED  BY <1>1, <1>2, <1>3

LEMMA TypeInit == Init => TypeOK
<1> SUFFICES ASSUME Init PROVE TypeOK
  OBVIOUS
<1>1. query.k \in Nat \ {0} /\ query.initialFloor \in Int
  BY RowFacts DEF Init
<1>2. IsFiniteSet({}) /\ Cardinality({}) = 0
  BY FS_EmptySet
<1>3. NumShards \in Nat
  BY ShardAssumption
<1> QED  BY <1>1, <1>2, <1>3, Messages DEF Init, TypeOK

\* One conjunct of TypeOK per variable: a step is checked on the variables it
\* changes.
LEMMA TypeStep == TypeOK /\ [Next]_vars => TypeOK'
<1> SUFFICES ASSUME TypeOK, [Next]_vars PROVE TypeOK'
  OBVIOUS
<1> USE DEF coordVars, linkVars, nodeVars
<1>0. /\ query.k \in Nat \ {0} /\ query.initialFloor \in Int
      /\ \A r \in Row : query.score[r] \in Int
      /\ NumShards \in Nat /\ Shard = 1..NumShards
      /\ BlockRows \in Nat \ {0} /\ heap \subseteq Row
  BY RowFacts, ShardAssumption, BoundAssumption DEF TypeOK, Shard
<1>1. CASE OpenShard
  BY SMTT(30), <1>0, <1>1 DEF TypeOK, OpenShard
<1>a. ASSUME Abandon
      PROVE  answer' \in AnswerType /\ batch' \in BatchType
             /\ control' \in [Shard -> ControlType]
  BY <1>a, Messages DEF TypeOK, Abandon
<1>2. CASE OpenFails
  <2>1. Abandon /\ scan' \in [Shard -> {"idle", "poll", "block", "scanned",
                                        "stopped", "ended", "broken"}]
    BY <1>0, <1>2 DEF TypeOK, OpenFails
  <2> QED  BY <1>2, <1>a, <2>1 DEF TypeOK, OpenFails
<1>3. CASE Deadline
  BY <1>3, <1>a DEF TypeOK, Deadline
<1>4. ASSUME NEW s \in Shard, ReaderGone(s) PROVE TypeOK'
  <2>1. events' \in [Shard -> Seq(EventType)]
    BY <1>4 DEF TypeOK, ReaderGone
  <2> QED  BY <1>4, <2>1 DEF TypeOK, ReaderGone
<1>5. ASSUME NEW s \in Shard, Pump(s) PROVE TypeOK'
  <2>1. control' \in [Shard -> ControlType] /\ liveFloor' \in [Shard -> Int]
    BY <1>5, Messages DEF TypeOK, Pump, Higher
  <2>2. stop' \in [Shard -> BOOLEAN]
    BY <1>5 DEF TypeOK, Pump
  <2> QED  BY <1>5, <2>1, <2>2 DEF TypeOK, Pump
<1>6. ASSUME NEW s \in Shard, Poll(s) PROVE TypeOK'
  BY <1>6 DEF TypeOK, Poll, Higher
<1>7. ASSUME NEW s \in Shard, ScanBlock(s) PROVE TypeOK'
  <2>1. events' \in [Shard -> Seq(EventType)]
    <3>1. Event("batch", Admitted(s)) \in EventType
      BY Messages DEF Admitted, Block
    <3>2. events[s] \in Seq(EventType)
      BY DEF TypeOK
    <3>3. Append(events[s], Event("batch", Admitted(s))) \in Seq(EventType)
      BY <3>1, <3>2, AppendEvent
    <3> QED  BY <1>7, <3>3 DEF TypeOK, ScanBlock
  <2>2. /\ next' \in [Shard -> Nat \ {0}]
        /\ scan' \in [Shard -> {"idle", "poll", "block", "scanned", "stopped",
                                "ended", "broken"}]
    BY <1>0, <1>7 DEF TypeOK, ScanBlock
  <2> QED  BY <1>7, <2>1, <2>2 DEF TypeOK, ScanBlock
<1>8. ASSUME NEW s \in Shard, SendFails(s) PROVE TypeOK'
  BY <1>8 DEF TypeOK, SendFails
<1>9. ASSUME NEW s \in Shard, Summarise(s) PROVE TypeOK'
  <2>1. events' \in [Shard -> Seq(EventType)]
    <3> DEFINE e == Event(IF scan[s] = "scanned" THEN "summary"
                          ELSE "incomplete", {})
    <3>1. e \in EventType
      BY Messages
    <3>2. events[s] \in Seq(EventType)
      BY DEF TypeOK
    <3>3. Append(events[s], e) \in Seq(EventType)
      BY <3>1, <3>2, AppendEvent
    <3> QED  BY <1>9, <3>3 DEF TypeOK, Summarise
  <2> QED  BY <1>9, <2>1 DEF TypeOK, Summarise
<1>10. ASSUME NEW s \in Shard, StreamBreaks(s) PROVE TypeOK'
  <2>1. events' \in [Shard -> Seq(EventType)]
    <3>1. PICK kept \in 0..Len(events[s]), kind \in {"error", "closed"} :
            events' = [events EXCEPT ![s] =
                         Append(SubSeq(@, 1, kept), Event(kind, {}))]
      BY <1>10 DEF StreamBreaks
    <3>2. Event(kind, {}) \in EventType
      BY Messages
    <3>3. SubSeq(events[s], 1, kept) \in Seq(EventType)
      BY KeepEvents DEF TypeOK
    <3>4. Append(SubSeq(events[s], 1, kept), Event(kind, {})) \in Seq(EventType)
      BY <3>2, <3>3, AppendEvent
    <3> QED  BY <3>1, <3>4 DEF TypeOK
  <2> QED  BY <1>10, <2>1 DEF TypeOK, StreamBreaks
<1>b. ASSUME NEW s \in Shard, events[s] # <<>>,
             events' = [events EXCEPT ![s] = Tail(@)]
      PROVE  events' \in [Shard -> Seq(EventType)] /\ Head(events[s]) \in EventType
  <2>1. Tail(events[s]) \in Seq(EventType) /\ Head(events[s]) \in EventType
    BY <1>b, TakeEvent DEF TypeOK
  <2> QED  BY <1>b, <2>1 DEF TypeOK
<1>11. ASSUME NEW s \in Shard, TakeBatch(s) PROVE TypeOK'
  <2>1. batch' \in BatchType
    <3>1. Head(events[s]) \in EventType
      BY <1>11, <1>b DEF TakeBatch, TakesFrom
    <3>2. Head(events[s]).rows \in SUBSET Row
      BY <3>1, EventRows
    <3> QED  BY <1>11, <3>2 DEF TakeBatch, BatchType
  <2> QED  BY <1>11, <1>b, <2>1 DEF TypeOK, TakeBatch, TakesFrom
<1>12. CASE InsertCandidate
  <2>1. PICK r \in batch.rows :
          /\ batch' = [batch EXCEPT !.rows = @ \ {r}]
          /\ ties' = IF query.tieComplete THEN ties \union {r} ELSE ties
          /\ \/ Cardinality(heap) < query.k /\ heap' = heap \union {r}
             \/ UNCHANGED heap
             \/ \E w \in heap : heap' = (heap \ {w}) \union {r}
    BY <1>12 DEF InsertCandidate, Root
  <2>2. IsFiniteSet(heap') /\ Cardinality(heap') <= query.k
    <3> DEFINE H == heap  K == query.k
    <3>1. IsFiniteSet(H) /\ Cardinality(H) <= K /\ K \in Nat \ {0}
      BY <1>0 DEF TypeOK
    <3> HIDE DEF H, K
    <3>2. /\ Cardinality(H) < K => /\ IsFiniteSet(H \union {r})
                                  /\ Cardinality(H \union {r}) <= K
          /\ \A w \in H : /\ IsFiniteSet((H \ {w}) \union {r})
                          /\ Cardinality((H \ {w}) \union {r}) <= K
      BY <3>1, HeapInsert
    <3> QED  BY <2>1, <3>1, <3>2 DEF H, K
  <2>3. r \in Row /\ heap' \subseteq Row /\ ties' \subseteq Row
    BY <2>1, Messages DEF TypeOK
  <2>4. batch' \in BatchType
    BY <2>1 DEF TypeOK, BatchType
  <2> QED  BY <1>12, <2>2, <2>3, <2>4 DEF TypeOK, InsertCandidate
<1>13. CASE PublishFloor
  <2>1. batch' \in BatchType /\ ties' \subseteq Row
    BY <1>13, Messages DEF PublishFloor, TypeOK
  <2>2. \A w \in Root : query.score[w] \in Int
    BY <1>0 DEF Root
  <2>3. floor' \in Int
    BY <1>13, <2>2 DEF PublishFloor, TypeOK
  <2>4. control' \in [Shard -> ControlType]
    <3>1. \A w \in Root : FloorUpdate(query.score[w]) \in ControlType
      BY <2>2, Messages
    <3>2. control \in [Shard -> ControlType]
      BY DEF TypeOK
    <3> QED  BY <1>13, <3>1, <3>2 DEF PublishFloor
  <2> QED  BY <1>13, <2>1, <2>3, <2>4 DEF TypeOK, PublishFloor
<1>14. ASSUME NEW s \in Shard, TakeSummary(s) PROVE TypeOK'
  BY <1>14, <1>b DEF TypeOK, TakeSummary, TakesFrom
<1>15. ASSUME NEW s \in Shard, TakeFailure(s) PROVE TypeOK'
  BY <1>15, <1>a, <1>b DEF TypeOK, TakeFailure
<1>16. ASSUME NEW s \in Shard, TakeClosed(s) PROVE TypeOK'
  BY <1>16, <1>b DEF TypeOK, TakeClosed, TakesFrom
<1>17. CASE Finish
  <2>1. answer' \in AnswerType
    BY <1>17, Messages DEF TypeOK, Finish
  <2> QED  BY <1>17, <2>1 DEF TypeOK, Finish
<1>18. CASE UNCHANGED vars
  BY <1>18 DEF TypeOK, vars
<1> QED
  BY <1>1, <1>2, <1>3, <1>4, <1>5, <1>6, <1>7, <1>8, <1>9, <1>10, <1>11, <1>12,
     <1>13, <1>14, <1>15, <1>16, <1>17, <1>18 DEF Next, NodeStep, CollectorStep

\* Every reachable state is well typed and the heap never holds more than k
\* rows, for every collection and query.
THEOREM TypeCorrect == Spec => []TypeOK
  BY TypeInit, TypeStep, PTL DEF Spec

--------------------------------------------------------------------------------
(* The inductive invariant.                                                *)

\* What the steps below need of constants and types.
LEMMA Basics ==
  ASSUME TypeOK
  PROVE  /\ Eligible(query) \subseteq Row
         /\ \A r \in Row : /\ ShardOf(r) \in Shard /\ query.score[r] \in Int
                           /\ SlotOf(r) \in Int /\ SlotOf(r) <= ShardLen[ShardOf(r)]
         /\ query.k \in Nat \ {0} /\ query.initialFloor \in Int
         /\ NumShards \in Nat /\ Shard = 1..NumShards
         /\ BlockRows \in Nat \ {0}
         /\ \A s \in Shard : /\ ShardLen[s] \in Nat /\ next[s] \in Nat
                             /\ events[s] \in Seq(EventType)
                             /\ liveFloor[s] \in Int /\ scanFloor[s] \in Int
                             /\ control[s] \in ControlType
         /\ heap \subseteq Row /\ IsFiniteSet(heap)
         /\ Cardinality(heap) \in Nat /\ Cardinality(heap) <= query.k
         /\ opened \in 0..NumShards /\ opened \in Int /\ floor \in Int
<1>1. query \in Query /\ IsFiniteSet(heap)
  BY DEF TypeOK
<1>2. Cardinality(heap) \in Nat
  BY <1>1, FS_CardinalityType
<1>3. \A r \in Row : /\ ShardOf(r) \in Shard /\ query.score[r] \in Int
                     /\ SlotOf(r) \in 1..ShardLen[ShardOf(r)] /\ SlotOf(r) \in Int
  BY <1>1, RowFacts
<1>4. \A s \in Shard : ShardLen[s] \in Nat
  BY ShardAssumption
<1> QED
  BY <1>1, <1>2, <1>3, <1>4, RowFacts, ShardAssumption, BoundAssumption
     DEF TypeOK, Shard

LEMMA InductiveInit == Init => Inductive
<1> SUFFICES ASSUME Init PROVE Inductive
  OBVIOUS
<1>1. TypeOK
  BY TypeInit
<1>2. RowsOK
  BY Messages DEF Init, RowsOK
<1>3. FloorsOK
  BY <1>1, Basics, Messages DEF Init, FloorsOK
<1>4. StreamsOK
  BY DEF Init, StreamsOK, Certified
<1>5. RowsAccounted
  <2>1. \A r \in Row : SlotOf(r) >= 1 /\ ShardOf(r) \in Shard
    BY <1>1, RowFacts DEF TypeOK
  <2>2. Eligible(query) \subseteq Row
    BY <1>1, Basics
  <2> QED  BY <2>1, <2>2 DEF Init, RowsAccounted, Unscanned
<1>6. answer.kind # "rows"
  BY Messages DEF Init
<1> QED  BY <1>1, <1>2, <1>3, <1>4, <1>5, <1>6 DEF Inductive

\* The floors part.
LEMMA FloorsStep == Inductive /\ Next => FloorsOK'
<1> SUFFICES ASSUME Inductive, Next PROVE FloorsOK'
  OBVIOUS
<1> USE DEF coordVars, linkVars, nodeVars
<1>0. TypeOK /\ FloorsOK
  BY DEF Inductive
<1>1. CASE OpenShard
  BY <1>0, <1>1 DEF OpenShard, FloorsOK, HeapFull
<1>a. ASSUME Abandon, UNCHANGED <<query, heap, floor, liveFloor, scanFloor>>
      PROVE  FloorsOK'
  BY <1>0, <1>a, Messages DEF Abandon, FloorsOK, HeapFull
<1>2. CASE OpenFails
  BY <1>2, <1>a DEF OpenFails
<1>3. CASE Deadline
  BY <1>3, <1>a DEF Deadline
<1>4. ASSUME NEW s \in Shard, ReaderGone(s) PROVE FloorsOK'
  BY <1>0, <1>4 DEF ReaderGone, FloorsOK, HeapFull
<1>5. ASSUME NEW s \in Shard, Pump(s) PROVE FloorsOK'
  <2>1. \A t \in Shard : liveFloor'[t] <= floor
    BY <1>0, <1>5, Basics DEF Pump, FloorsOK, Higher, TypeOK
  <2>2. \A t \in Shard : control'[t].kind = "floor" => control'[t].floor <= floor
    BY <1>0, <1>5, Messages DEF Pump, FloorsOK, TypeOK
  <2> QED  BY <1>0, <1>5, <2>1, <2>2 DEF Pump, FloorsOK, HeapFull
<1>6. ASSUME NEW s \in Shard, Poll(s) PROVE FloorsOK'
  <2>1. \A t \in Shard : scanFloor'[t] <= floor /\ scanFloor'[t] >= query.initialFloor
    BY <1>0, <1>6, Basics DEF Poll, FloorsOK, Higher, TypeOK
  <2> QED  BY <1>0, <1>6, <2>1 DEF Poll, FloorsOK, HeapFull
<1>7. ASSUME NEW s \in Shard,
             ScanBlock(s) \/ SendFails(s) \/ Summarise(s) \/ StreamBreaks(s)
      PROVE  FloorsOK'
  BY <1>0, <1>7 DEF ScanBlock, SendFails, Summarise, StreamBreaks, FloorsOK, HeapFull
<1>8. ASSUME NEW s \in Shard, TakeBatch(s) \/ TakeSummary(s) \/ TakeClosed(s)
      PROVE  FloorsOK'
  BY <1>0, <1>8 DEF TakeBatch, TakeSummary, TakeClosed, FloorsOK, HeapFull
<1>9. ASSUME NEW s \in Shard, TakeFailure(s) PROVE FloorsOK'
  BY <1>9, <1>a DEF TakeFailure
<1>10. CASE InsertCandidate
  \* A full heap stays full, and what replaces its root scores no less.
  <2>1. PICK r \in batch.rows :
          \/ Cardinality(heap) < query.k
          \/ UNCHANGED heap
          \/ \E w \in heap : /\ Better(query, r, w)
                             /\ heap' = (heap \ {w}) \union {r}
    BY <1>10 DEF InsertCandidate, Root
  <2>2. r \in Row /\ r \notin heap
    BY Basics DEF Inductive, RowsOK
  <2>3. /\ floor > query.initialFloor => HeapFull
        /\ \A h \in heap : floor > query.initialFloor => query.score[h] >= floor
    BY <1>0 DEF FloorsOK
  <2>4. floor > query.initialFloor =>
          Cardinality(heap') = query.k /\ \A h \in heap' : query.score[h] >= floor
    <3> SUFFICES ASSUME floor > query.initialFloor
                 PROVE  /\ Cardinality(heap') = query.k
                        /\ \A h \in heap' : query.score[h] >= floor
      OBVIOUS
    <3>1. Cardinality(heap) = query.k /\ ~(Cardinality(heap) < query.k)
      BY <1>0, <2>3, Basics DEF HeapFull
    <3>2. CASE UNCHANGED heap
      BY <2>3, <3>1, <3>2
    <3>3. CASE \E w \in heap : /\ Better(query, r, w)
                               /\ heap' = (heap \ {w}) \union {r}
      <4>1. PICK w \in heap : /\ Better(query, r, w)
                              /\ heap' = (heap \ {w}) \union {r}
        BY <3>3
      <4>2. query.score[r] >= query.score[w]
        BY <1>0, <2>2, <4>1, Basics, BetterOrder DEF TypeOK
      <4>3. query.score[w] >= floor /\ query.score[w] \in Int
            /\ query.score[r] \in Int /\ floor \in Int
        BY <1>0, <2>2, <2>3, Basics
      <4>4. query.score[r] >= floor
        BY <4>2, <4>3
      <4>5. Cardinality(heap') = Cardinality(heap)
        <5> DEFINE H == heap  K == query.k
        <5>1. IsFiniteSet(H) /\ Cardinality(H) <= K /\ K \in Nat \ {0} /\ w \in H
          BY <1>0, Basics
        <5> HIDE DEF H, K
        <5>2. r \notin H => Cardinality((H \ {w}) \union {r}) = Cardinality(H)
          BY <5>1, HeapInsert
        <5> QED  BY <2>2, <4>1, <5>2 DEF H
      <4> QED  BY <2>3, <3>1, <4>1, <4>4, <4>5
    <3> QED  BY <2>1, <3>1, <3>2, <3>3
  <2>5. UNCHANGED <<query, floor, liveFloor, scanFloor, control>>
    BY <1>10 DEF InsertCandidate
  <2> QED  BY <1>0, <2>4, <2>5 DEF FloorsOK, HeapFull
<1>11. CASE PublishFloor
  <2>1. CASE UNCHANGED <<floor, ties, control>>
    BY <1>0, <1>11, <2>1 DEF PublishFloor, FloorsOK, HeapFull
  <2>2. ASSUME HeapFull, NEW w \in Root, query.score[w] > floor,
               floor' = query.score[w],
               control' = [s \in Shard |-> IF s \in completed THEN control[s]
                                           ELSE FloorUpdate(query.score[w])]
        PROVE  FloorsOK'
    <3>1. UNCHANGED <<query, heap, liveFloor, scanFloor>>
      BY <1>11 DEF PublishFloor
    <3>2. w \in Row /\ query.score[w] \in Int
      BY <1>0, Basics DEF Root
    <3>3. \A h \in heap : query.score[h] >= floor'
      BY <1>0, <2>2, <3>2, Basics, BetterOrder DEF Root, TypeOK
    <3>4. \A s \in Shard : control'[s].kind = "floor" => control'[s].floor <= floor'
      BY <1>0, <2>2, <3>2, Basics, Messages DEF FloorsOK
    <3>5. floor' >= query.initialFloor /\ \A s \in Shard :
            /\ liveFloor[s] <= floor'
            /\ scanFloor[s] <= floor' /\ scanFloor[s] >= query.initialFloor
      BY <1>0, <2>2, <3>2, Basics DEF FloorsOK
    <3> QED  BY <2>2, <3>1, <3>3, <3>4, <3>5 DEF FloorsOK, HeapFull
  <2> QED  BY <1>11, <2>1, <2>2 DEF PublishFloor
<1>12. CASE Finish
  BY <1>0, <1>12 DEF Finish, FloorsOK, HeapFull
<1> QED
  BY <1>1, <1>2, <1>3, <1>4, <1>5, <1>6, <1>7, <1>8, <1>9, <1>10, <1>11, <1>12
     DEF Next, NodeStep, CollectorStep

\* How a buffer changes: an event is appended, the first is taken, or the tail
\* is cut and a row-less event appended.  Old events keep their order.
LEMMA TailOfEvents ==
  ASSUME TypeOK, NEW s \in Shard, events[s] # <<>>,
         events' = [events EXCEPT ![s] = Tail(@)]
  PROVE  /\ \A t \in Shard \ {s} : events'[t] = events[t]
         /\ 1 \in DOMAIN events[s] /\ Head(events[s]) = events[s][1]
         /\ \A i \in DOMAIN events[s] : i \in Int /\ i >= 1
         /\ \A i \in DOMAIN events'[s] : /\ i \in Int /\ i + 1 \in DOMAIN events[s]
                                         /\ events'[s][i] = events[s][i + 1]
         /\ \A i \in DOMAIN events[s] : i > 1 => /\ i - 1 \in DOMAIN events'[s]
                                                 /\ events'[s][i - 1] = events[s][i]
         /\ Head(events[s]) \in EventType
<1>1. events[s] \in Seq(EventType) /\ events'[s] = Tail(events[s])
      /\ \A t \in Shard \ {s} : events'[t] = events[t]
  BY DEF TypeOK
<1> DEFINE q == events[s]
<1>2. /\ 1 \in DOMAIN q /\ Head(q) = q[1] /\ Head(q) \in EventType
      /\ \A i \in DOMAIN q : i \in Int /\ i >= 1
      /\ \A i \in DOMAIN Tail(q) : i + 1 \in DOMAIN q /\ Tail(q)[i] = q[i + 1]
      /\ \A i \in DOMAIN q : i > 1 => /\ i - 1 \in DOMAIN Tail(q)
                                      /\ Tail(q)[i - 1] = q[i]
  BY <1>1, TakeEvent
<1>3. \A i \in DOMAIN Tail(q) : i \in Int
  BY <1>1
<1> QED  BY <1>1, <1>2, <1>3

LEMMA AppendOfEvents ==
  ASSUME TypeOK, NEW s \in Shard, NEW e \in EventType,
         events' = [events EXCEPT ![s] = Append(@, e)]
  PROVE  /\ \A t \in Shard \ {s} : events'[t] = events[t]
         /\ Len(events[s]) + 1 \in Int
         /\ DOMAIN events[s] \subseteq Int
         /\ \A i \in DOMAIN events[s] : i < Len(events[s]) + 1
         /\ DOMAIN events'[s] = DOMAIN events[s] \union {Len(events[s]) + 1}
         /\ Len(events[s]) + 1 \notin DOMAIN events[s]
         /\ \A i \in DOMAIN events[s] : events'[s][i] = events[s][i]
         /\ events'[s][Len(events[s]) + 1] = e
<1>1. events[s] \in Seq(EventType) /\ events'[s] = Append(events[s], e)
      /\ \A t \in Shard \ {s} : events'[t] = events[t]
  BY DEF TypeOK
<1> QED  BY <1>1, AppendEvent

LEMMA CutOfEvents ==
  ASSUME NEW q \in Seq(EventType), NEW e \in EventType, NEW kept \in 0..Len(q)
  PROVE  /\ kept \in Int /\ DOMAIN q \subseteq Int
         /\ DOMAIN Append(SubSeq(q, 1, kept), e) = (1..kept) \union {kept + 1}
         /\ 1..kept \subseteq DOMAIN q
         /\ \A i \in 1..kept : Append(SubSeq(q, 1, kept), e)[i] = q[i]
         /\ Append(SubSeq(q, 1, kept), e)[kept + 1] = e
<1> DEFINE c == SubSeq(q, 1, kept)
<1>1. /\ c \in Seq(EventType) /\ DOMAIN c = 1..kept
      /\ DOMAIN q = 1..Len(q) /\ Len(q) \in Nat
      /\ \A i \in 1..kept : i \in DOMAIN q /\ c[i] = q[i]
  BY KeepEvents
<1> HIDE DEF c
<1>2. /\ DOMAIN Append(c, e) = DOMAIN c \union {Len(c) + 1} /\ DOMAIN c = 1..Len(c)
      /\ \A i \in DOMAIN c : Append(c, e)[i] = c[i]
      /\ Append(c, e)[Len(c) + 1] = e /\ Len(c) \in Nat
  BY <1>1, AppendEvent
<1>3. Len(c) = kept
  BY <1>1, <1>2
<1> QED  BY <1>1, <1>2, <1>3 DEF c

\* The streams part.
LEMMA StreamsStep == Inductive /\ Next => StreamsOK'
<1> SUFFICES ASSUME Inductive, Next PROVE StreamsOK'
  OBVIOUS
<1> USE DEF coordVars, linkVars, nodeVars
<1>0. TypeOK /\ StreamsOK /\ RowsOK
  BY DEF Inductive
<1>1. CASE OpenShard
  <2>1. opened + 1 \in Shard /\ opened \in Int /\ scan[opened + 1] = "idle"
    BY <1>0, <1>1, Basics DEF OpenShard, StreamsOK
  <2>2. /\ scan'[opened + 1] = "poll"
        /\ \A s \in Shard \ {opened + 1} : scan'[s] = scan[s]
    BY <1>0, <1>1, <2>1 DEF OpenShard, TypeOK
  <2>3. UNCHANGED <<answer, completed, events, next>> /\ opened' = opened + 1
        /\ answer = Pending
        /\ \A s \in Shard : s # opened + 1 => listening'[s] = listening[s]
    BY <1>0, <1>1 DEF OpenShard, TypeOK
  <2>4. \A s \in Shard : Certified(s)' = Certified(s)
    BY <2>3 DEF Certified
  <2>5. ~Certified(opened + 1)
    BY <1>0, <2>1 DEF StreamsOK
  <2>6. \A s \in Shard : s \in Int
    BY <1>0, Basics
  <2> QED  BY <1>0, <2>1, <2>2, <2>3, <2>4, <2>5, <2>6 DEF StreamsOK
<1>2. CASE OpenFails
  <2>1. answer' # Pending
    BY <1>2, Messages DEF OpenFails, Abandon
  <2>2. PICK started \in {"idle", "poll"} :
          scan' = [scan EXCEPT ![opened + 1] = started]
    BY <1>2 DEF OpenFails
  <2>3. scan[opened + 1] = "idle" /\ opened + 1 \in Shard
    BY <1>0, <1>2, Basics DEF OpenFails, StreamsOK
  <2>4. \A s \in Shard : /\ scan'[s] = "scanned" => scan[s] = "scanned"
                         /\ scan[s] \in {"ended", "broken"} => scan'[s] = scan[s]
    BY <1>0, <2>2, <2>3 DEF TypeOK
  <2> QED  BY <1>0, <1>2, <2>1, <2>4 DEF OpenFails, StreamsOK, Certified
<1>3. CASE Deadline
  <2>1. answer' # Pending
    BY <1>3, Messages DEF Deadline, Abandon
  <2> QED  BY <1>0, <1>3, <2>1 DEF Deadline, StreamsOK, Certified
<1>4. ASSUME NEW s \in Shard, ReaderGone(s) PROVE StreamsOK'
  <2>1. \A t \in Shard : events'[t] = events[t] \/ events'[t] = <<>>
    BY <1>0, <1>4 DEF ReaderGone, TypeOK
  <2> QED  BY <1>0, <1>4, <2>1 DEF ReaderGone, StreamsOK, Certified
<1>5. ASSUME NEW s \in Shard, Pump(s) PROVE StreamsOK'
  BY <1>0, <1>5 DEF Pump, StreamsOK, Certified
<1>6. ASSUME NEW s \in Shard, Poll(s) \/ SendFails(s) PROVE StreamsOK'
  BY <1>0, <1>6 DEF Poll, SendFails, StreamsOK, Certified, TypeOK
<1>7. ASSUME NEW s \in Shard, ScanBlock(s) PROVE StreamsOK'
  <2>1. scan[s] = "block" /\ ~Certified(s)
    BY <1>0, <1>7 DEF ScanBlock, StreamsOK
  <2>2. UNCHANGED <<answer, opened, completed, listening>>
    BY <1>7 DEF ScanBlock
  <2>3. \A t \in Shard \ {s} : /\ scan'[t] = scan[t] /\ next'[t] = next[t]
                               /\ events'[t] = events[t]
    BY <1>0, <1>7 DEF ScanBlock, TypeOK
  <2>4. scan'[s] = "scanned" => next'[s] > ShardLen[s]
    BY <1>0, <1>7, Basics DEF ScanBlock, TypeOK
  <2>5. ~Certified(s)'
        /\ \A i \in DOMAIN events'[s] : events'[s][i].kind # "summary"
    <3>1. CASE UNCHANGED events
      BY <2>1, <2>2, <3>1 DEF Certified
    <3>2. CASE events' = [events EXCEPT ![s] =
                            Append(@, Event("batch", Admitted(s)))]
      <4>1. /\ Event("batch", Admitted(s)) \in EventType
            /\ Event("batch", Admitted(s)).kind = "batch"
        BY Messages DEF Admitted, Block
      <4> QED  BY <1>0, <2>1, <2>2, <3>2, <4>1, AppendOfEvents DEF Certified
    <3> QED  BY <1>7, <3>1, <3>2 DEF ScanBlock
  <2>6. answer = Pending => ~(s > opened)
    BY <1>0, <2>1 DEF StreamsOK
  <2>7. \A t \in Shard \ {s} : Certified(t)' => Certified(t)
    BY <2>2, <2>3 DEF Certified
  <2>8. s \notin completed
    BY <2>1 DEF Certified
  <2> QED
    BY <1>0, <2>2, <2>3, <2>4, <2>5, <2>6, <2>7, <2>8 DEF StreamsOK
<1>8. ASSUME NEW s \in Shard, Summarise(s) PROVE StreamsOK'
  <2> DEFINE e == Event(IF scan[s] = "scanned" THEN "summary"
                        ELSE "incomplete", {})
  <2>1. ~Certified(s) /\ scan[s] \in {"scanned", "stopped"}
    BY <1>0, <1>8 DEF Summarise, StreamsOK
  <2>2. UNCHANGED <<answer, opened, completed, next, listening>>
        /\ s \notin completed
    BY <1>8, <2>1 DEF Summarise, Certified
  <2>3. scan' = [scan EXCEPT ![s] = "ended"] /\ scan'[s] = "ended"
    BY <1>0, <1>8 DEF Summarise, TypeOK
  <2>4. \A t \in Shard \ {s} : scan'[t] = scan[t] /\ events'[t] = events[t]
    BY <1>0, <1>8 DEF Summarise, TypeOK
  <2>5. answer = Pending => ~(s > opened)
    BY <1>0, <2>1 DEF StreamsOK
  <2>6. e \in EventType /\ e.rows = {}
        /\ (e.kind = "summary" => scan[s] = "scanned")
    BY Messages
  <2> HIDE DEF e
  <2>7. /\ Certified(s)' => scan[s] = "scanned"
        /\ \A i, j \in DOMAIN events'[s] :
             events'[s][i].kind = "summary" /\ i < j => events'[s][j].rows = {}
    <3>1. CASE UNCHANGED events
      BY <1>0, <2>1, <2>2, <3>1 DEF Certified, StreamsOK
    <3>2. CASE events' = [events EXCEPT ![s] = Append(@, e)]
      BY <1>0, <2>1, <2>2, <2>6, <3>2, AppendOfEvents DEF Certified
    <3> QED  BY <1>8, <3>1, <3>2 DEF Summarise, e
  <2>8. \A t \in Shard \ {s} : Certified(t)' => Certified(t)
    BY <2>2, <2>4 DEF Certified
  <2>9. scan[s] = "scanned" => next'[s] > ShardLen[s]
    BY <1>0, <2>2 DEF StreamsOK
  <2> QED
    BY <1>0, <2>2, <2>3, <2>4, <2>5, <2>7, <2>8, <2>9 DEF StreamsOK
<1>9. ASSUME NEW s \in Shard, StreamBreaks(s) PROVE StreamsOK'
  <2>1. PICK kept \in 0..Len(events[s]), kind \in {"error", "closed"} :
          events' = [events EXCEPT ![s] =
                       Append(SubSeq(@, 1, kept), Event(kind, {}))]
    BY <1>9 DEF StreamBreaks
  <2> DEFINE e == Event(kind, {})
  <2>2. e \in EventType /\ e.rows = {} /\ e.kind # "summary"
    BY Messages
  <2>3. UNCHANGED <<answer, opened, completed, next, listening>>
        /\ (answer = Pending => ~(s > opened))
    BY <1>0, <1>9 DEF StreamBreaks, StreamsOK
  <2>4. scan'[s] = "broken" /\ \A t \in Shard \ {s} : scan'[t] = scan[t]
    BY <1>0, <1>9 DEF StreamBreaks, TypeOK
  <2> HIDE DEF e
  <2>5. /\ \A t \in Shard \ {s} : events'[t] = events[t]
        /\ kept \in Int /\ DOMAIN events[s] \subseteq Int
        /\ DOMAIN events'[s] = (1..kept) \union {kept + 1}
        /\ 1..kept \subseteq DOMAIN events[s]
        /\ \A i \in 1..kept : events'[s][i] = events[s][i]
        /\ events'[s][kept + 1] = e
    <3>1. events' = [events EXCEPT ![s] = Append(SubSeq(events[s], 1, kept), e)]
      BY <2>1 DEF e
    <3>2. events \in [Shard -> Seq(EventType)]
      BY <1>0 DEF TypeOK
    <3>3. /\ events'[s] = Append(SubSeq(events[s], 1, kept), e)
          /\ \A t \in Shard \ {s} : events'[t] = events[t]
      BY <3>1, <3>2
    <3>4. events[s] \in Seq(EventType)
      BY <3>2
    <3> QED  BY <2>2, <3>3, <3>4, CutOfEvents
  <2>6. \A t \in Shard : Certified(t)' => Certified(t)
    BY <2>2, <2>3, <2>5 DEF Certified
  <2>7. /\ s \in completed => \A i \in DOMAIN events'[s] : events'[s][i].rows = {}
        /\ \A i, j \in DOMAIN events'[s] :
             events'[s][i].kind = "summary" /\ i < j => events'[s][j].rows = {}
    BY <1>0, <2>2, <2>5 DEF StreamsOK
  <2> QED
    BY <1>0, <2>3, <2>4, <2>5, <2>6, <2>7 DEF StreamsOK
\* Taking the first event: what is left was there before, in the same order.
<1>b. ASSUME NEW s \in Shard, events[s] # <<>>,
             events' = [events EXCEPT ![s] = Tail(@)],
             UNCHANGED <<scan, next, opened, listening>>,
             answer' = Pending => answer = Pending,
             completed' = completed \/
               /\ completed' = completed \union {s}
               /\ Head(events[s]).kind = "summary"
      PROVE  StreamsOK'
  <2>0. /\ \A t \in Shard \ {s} : events'[t] = events[t]
        /\ 1 \in DOMAIN events[s] /\ Head(events[s]) = events[s][1]
        /\ \A i \in DOMAIN events'[s] : /\ i \in Int /\ i + 1 \in DOMAIN events[s]
                                        /\ events'[s][i] = events[s][i + 1]
        /\ \A i \in DOMAIN events[s] : i \in Int /\ i >= 1
    BY <1>0, <1>b, TailOfEvents
  <2>1. \A t \in Shard : Certified(t)' => Certified(t)
    BY <1>b, <2>0 DEF Certified
  <2>2. \A t \in Shard : t \in completed' =>
          \A i \in DOMAIN events'[t] : events'[t][i].rows = {}
    BY <1>0, <1>b, <2>0 DEF StreamsOK
  <2>3. \A t \in Shard : \A i, j \in DOMAIN events'[t] :
          events'[t][i].kind = "summary" /\ i < j => events'[t][j].rows = {}
    <3> SUFFICES ASSUME NEW t \in Shard,
                        NEW i \in DOMAIN events'[t], NEW j \in DOMAIN events'[t],
                        events'[t][i].kind = "summary", i < j
                 PROVE  events'[t][j].rows = {}
      OBVIOUS
    <3>1. CASE t # s
      BY <1>0, <2>0, <3>1 DEF StreamsOK
    <3>2. CASE t = s
      <4>1. /\ i + 1 \in DOMAIN events[s] /\ j + 1 \in DOMAIN events[s]
            /\ i \in Int /\ j \in Int /\ i + 1 < j + 1
            /\ events'[s][i] = events[s][i + 1] /\ events'[s][j] = events[s][j + 1]
        BY <2>0, <3>2
      <4>2. events[s][i + 1].kind = "summary"
        BY <3>2, <4>1
      <4> QED  BY <1>0, <3>2, <4>1, <4>2 DEF StreamsOK
    <3> QED  BY <3>1, <3>2
  <2> QED  BY <1>0, <1>b, <2>1, <2>2, <2>3 DEF StreamsOK
<1>10. ASSUME NEW s \in Shard, TakeBatch(s) \/ TakeSummary(s) \/ TakeClosed(s)
       PROVE  StreamsOK'
  BY <1>10, <1>b DEF TakeBatch, TakeSummary, TakeClosed, TakesFrom
<1>11. ASSUME NEW s \in Shard, TakeFailure(s) PROVE StreamsOK'
  BY <1>11, <1>b, Messages DEF TakeFailure, Abandon
<1>12. CASE InsertCandidate \/ PublishFloor
  BY <1>0, <1>12 DEF InsertCandidate, PublishFloor, StreamsOK, Certified
<1>13. CASE Finish
  <2>1. answer = Pending /\ UNCHANGED <<scan, next, opened, events, completed,
                                 listening>>
    BY <1>13 DEF Finish
  <2> QED  BY <1>0, <2>1 DEF StreamsOK, Certified
<1> QED
  BY <1>1, <1>2, <1>3, <1>4, <1>5, <1>6, <1>7, <1>8, <1>9, <1>10, <1>11, <1>12,
     <1>13 DEF Next, NodeStep, CollectorStep

\* The rows part: what is carried is eligible, scanned and carried once.
LEMMA RowsStep == Inductive /\ Next => RowsOK'
<1> SUFFICES ASSUME Inductive, Next PROVE RowsOK'
  OBVIOUS
<1> USE DEF coordVars, linkVars, nodeVars
<1>0. TypeOK /\ RowsOK /\ FloorsOK /\ StreamsOK
  BY DEF Inductive
\* A step that scans nothing: events of t come from old events, in order.
<1>a. ASSUME UNCHANGED <<query, next>>,
             heap' \subseteq heap, ties' \subseteq ties,
             batch'.rows \subseteq batch.rows, ~batch'.open => batch'.rows = {},
             \A t \in Shard : \A i \in DOMAIN events'[t] :
               events'[t][i].rows # {} =>
                 i \in DOMAIN events[t] /\ events'[t][i] = events[t][i]
      PROVE  RowsOK'
  BY <1>0, <1>a DEF RowsOK, CarriedOK, Unscanned
<1>b. ASSUME UNCHANGED <<query, next, heap, ties>>,
             batch'.rows = {}, NEW s \in Shard, events[s] # <<>>,
             events' = [events EXCEPT ![s] = Tail(@)]
      PROVE  RowsOK'
  <2>0. /\ \A t \in Shard \ {s} : events'[t] = events[t]
        /\ \A i \in DOMAIN events'[s] : /\ i \in Int /\ i + 1 \in DOMAIN events[s]
                                        /\ events'[s][i] = events[s][i + 1]
    BY <1>0, <1>b, TailOfEvents
  <2>1. ASSUME NEW t \in Shard, NEW i \in DOMAIN events'[t],
               NEW r \in events'[t][i].rows
        PROVE  CarriedOK(t, i, r)'
    <3>1. CASE t # s
      BY <1>0, <1>b, <2>0, <2>1, <3>1 DEF RowsOK, CarriedOK, Unscanned
    <3>2. CASE t = s
      <4>1. i \in Int /\ i + 1 \in DOMAIN events[s] /\ r \in events[s][i + 1].rows
        BY <2>0, <2>1, <3>2
      <4>2. CarriedOK(s, i + 1, r)
        BY <1>0, <4>1 DEF RowsOK
      <4>3. ASSUME NEW j \in DOMAIN events'[s], r \in events'[s][j].rows
            PROVE  j = i
        <5>1. j \in Int /\ j + 1 \in DOMAIN events[s] /\ r \in events[s][j + 1].rows
          BY <2>0, <4>3
        <5>2. j + 1 = i + 1
          BY <4>2, <5>1 DEF CarriedOK
        <5> QED  BY <4>1, <5>1, <5>2
      <4> QED  BY <1>b, <3>2, <4>2, <4>3 DEF CarriedOK, Unscanned
    <3> QED  BY <3>1, <3>2
  <2> QED  BY <1>0, <1>b, <2>1 DEF RowsOK, Unscanned
<1>1. CASE OpenShard
  BY <1>1, <1>0, <1>a DEF OpenShard, RowsOK
<1>2. CASE OpenFails \/ Deadline
  BY <1>2, <1>a, Messages DEF OpenFails, Deadline, Abandon
<1>3. ASSUME NEW s \in Shard, ReaderGone(s) PROVE RowsOK'
  <2>1. \A t \in Shard : events'[t] = events[t] \/ events'[t] = <<>>
    BY <1>0, <1>3 DEF ReaderGone, TypeOK
  <2> QED  BY <1>0, <1>3, <1>a, <2>1 DEF ReaderGone, RowsOK
<1>4. ASSUME NEW s \in Shard, Pump(s) \/ Poll(s) \/ SendFails(s) PROVE RowsOK'
  BY <1>0, <1>4, <1>a DEF Pump, Poll, SendFails, RowsOK
<1>5. ASSUME NEW s \in Shard, ScanBlock(s) PROVE RowsOK'
  <2> DEFINE e == Event("batch", Admitted(s))
  <2>1. UNCHANGED <<query, heap, ties, batch>>
    BY <1>5 DEF ScanBlock
  <2>2. next'[s] = next[s] + BlockRows /\ \A t \in Shard \ {s} : next'[t] = next[t]
    BY <1>0, <1>5 DEF ScanBlock, TypeOK
  <2>3. \A r \in Row : ~Unscanned(r) => ~Unscanned(r)'
    BY <1>0, <2>2, Basics DEF Unscanned
  <2>4. \A r \in Admitted(s) :
          /\ r \in Eligible(query) /\ ShardOf(r) = s /\ r \in Row
          /\ Unscanned(r) /\ ~Unscanned(r)'
    <3> SUFFICES ASSUME NEW r \in Admitted(s)
                 PROVE  /\ r \in Eligible(query) /\ ShardOf(r) = s /\ r \in Row
                        /\ Unscanned(r) /\ ~Unscanned(r)'
      OBVIOUS
    <3>1. /\ r \in Row /\ ShardOf(r) = s /\ SlotOf(r) >= next[s]
          /\ SlotOf(r) < next[s] + BlockRows
          /\ r \in query.allowed /\ query.score[r] >= scanFloor[s]
      BY DEF Admitted, Block
    <3>2. scanFloor[s] >= query.initialFloor
      BY <1>0 DEF FloorsOK
    <3>3. /\ query.score[r] \in Int /\ scanFloor[s] \in Int
          /\ query.initialFloor \in Int
      BY <1>0, <3>1, Basics
    <3>4. r \in Eligible(query)
      BY <3>1, <3>2, <3>3 DEF Eligible
    <3>5. SlotOf(r) \in Int /\ next[s] \in Int /\ BlockRows \in Int
      BY <1>0, <3>1, Basics
    <3> QED  BY <2>2, <3>1, <3>4, <3>5 DEF Unscanned
  <2>5. heap \union batch.rows \subseteq Row /\ Eligible(query) \subseteq Row
    BY <1>0, Basics DEF RowsOK
  <2>6. e \in EventType /\ e.rows = Admitted(s)
    BY Messages DEF Admitted, Block
  <2>7. \A t \in Shard : \A i \in DOMAIN events[t] : \A r \in events[t][i].rows :
          CarriedOK(t, i, r) /\ ~Unscanned(r)'
    BY <1>0, <2>3, <2>5 DEF RowsOK, CarriedOK
  <2> HIDE DEF e
  <2>8. ASSUME NEW t \in Shard, NEW i \in DOMAIN events'[t],
               NEW r \in events'[t][i].rows
        PROVE  CarriedOK(t, i, r)'
    <3>1. CASE UNCHANGED events
      BY <2>1, <2>7, <2>8, <3>1 DEF CarriedOK
    <3>2. CASE events' = [events EXCEPT ![s] = Append(@, e)]
      <4>0. /\ \A u \in Shard \ {s} : events'[u] = events[u]
            /\ DOMAIN events'[s] = DOMAIN events[s] \union {Len(events[s]) + 1}
            /\ Len(events[s]) + 1 \notin DOMAIN events[s]
            /\ \A n \in DOMAIN events[s] : events'[s][n] = events[s][n]
            /\ events'[s][Len(events[s]) + 1] = e
        BY <1>0, <2>6, <3>2, AppendOfEvents
      <4>1. CASE t # s
        BY <2>1, <2>7, <2>8, <4>0, <4>1 DEF CarriedOK
      <4>2. CASE t = s /\ i \in DOMAIN events[s]
        <5>1. r \in events[s][i].rows /\ CarriedOK(s, i, r) /\ ~Unscanned(r)'
              /\ ~Unscanned(r)
          BY <2>7, <2>8, <4>0, <4>2 DEF CarriedOK
        <5>2. r \notin Admitted(s)
          BY <2>4, <5>1
        <5>3. \A j \in DOMAIN events'[s] : r \in events'[s][j].rows => j = i
          BY <2>6, <4>0, <5>1, <5>2 DEF CarriedOK
        <5> QED  BY <2>1, <4>2, <5>1, <5>3 DEF CarriedOK
      <4>3. CASE t = s /\ i = Len(events[s]) + 1
        <5>1. r \in Admitted(s)
          BY <2>6, <2>8, <4>0, <4>3
        <5>2. Unscanned(r) /\ ~Unscanned(r)' /\ r \in Eligible(query)
              /\ ShardOf(r) = s
          BY <2>4, <5>1
        <5>3. r \notin heap /\ r \notin batch.rows
          BY <1>0, <5>2 DEF RowsOK
        <5>4. \A j \in DOMAIN events'[s] : r \in events'[s][j].rows => j = i
          BY <2>7, <4>0, <4>3, <5>2 DEF CarriedOK
        <5> QED  BY <2>1, <4>3, <5>2, <5>3, <5>4 DEF CarriedOK
      <4> QED  BY <2>8, <4>0, <4>1, <4>2, <4>3
    <3> QED  BY <1>5, <3>1, <3>2 DEF ScanBlock, e
  <2> QED  BY <1>0, <2>1, <2>3, <2>5, <2>8 DEF RowsOK
<1>6. ASSUME NEW s \in Shard, Summarise(s) PROVE RowsOK'
  <2> DEFINE e == Event(IF scan[s] = "scanned" THEN "summary"
                        ELSE "incomplete", {})
  <2>1. e \in EventType /\ e.rows = {}
    BY Messages
  <2>2. CASE UNCHANGED events
    BY <1>0, <1>6, <1>a, <2>2 DEF Summarise, RowsOK
  <2>3. CASE events' = [events EXCEPT ![s] = Append(@, e)]
    <3> HIDE DEF e
    <3>1. \A t \in Shard : \A i \in DOMAIN events'[t] :
            events'[t][i].rows # {} =>
              i \in DOMAIN events[t] /\ events'[t][i] = events[t][i]
      BY <1>0, <2>1, <2>3, AppendOfEvents
    <3> QED  BY <1>0, <1>6, <1>a, <3>1 DEF Summarise, RowsOK
  <2> QED  BY <1>6, <2>2, <2>3 DEF Summarise
<1>7. ASSUME NEW s \in Shard, StreamBreaks(s) PROVE RowsOK'
  <2>1. PICK kept \in 0..Len(events[s]), kind \in {"error", "closed"} :
          events' = [events EXCEPT ![s] =
                       Append(SubSeq(events[s], 1, kept), Event(kind, {}))]
    BY <1>7 DEF StreamBreaks
  <2>2. Event(kind, {}) \in EventType /\ Event(kind, {}).rows = {}
    BY Messages
  <2>3. events \in [Shard -> Seq(EventType)]
    BY <1>0 DEF TypeOK
  <2>4. /\ events'[s] = Append(SubSeq(events[s], 1, kept), Event(kind, {}))
        /\ \A t \in Shard \ {s} : events'[t] = events[t]
    BY <2>1, <2>3
  <2>5. events[s] \in Seq(EventType)
    BY <2>3
  <2>6. \A t \in Shard : \A i \in DOMAIN events'[t] :
          events'[t][i].rows # {} =>
            i \in DOMAIN events[t] /\ events'[t][i] = events[t][i]
    <3>1. /\ kept \in Int /\ 1..kept \subseteq DOMAIN events[s]
          /\ DOMAIN events'[s] = (1..kept) \union {kept + 1}
          /\ \A i \in 1..kept : events'[s][i] = events[s][i]
          /\ events'[s][kept + 1] = Event(kind, {})
      BY <2>2, <2>4, <2>5, CutOfEvents
    <3> QED  BY <2>2, <2>4, <3>1
  <2> QED  BY <1>0, <1>7, <1>a, <2>6 DEF StreamBreaks, RowsOK
<1>8. ASSUME NEW s \in Shard, TakeBatch(s) PROVE RowsOK'
  \* The rows of the first event move to the batch in hand.
  <2>0. /\ \A t \in Shard \ {s} : events'[t] = events[t]
        /\ 1 \in DOMAIN events[s] /\ Head(events[s]) = events[s][1]
        /\ \A i \in DOMAIN events[s] : i \in Int /\ i >= 1
        /\ \A i \in DOMAIN events'[s] : /\ i \in Int /\ i + 1 \in DOMAIN events[s]
                                        /\ events'[s][i] = events[s][i + 1]
    BY <1>0, <1>8, TailOfEvents DEF TakeBatch, TakesFrom
  <2>1. UNCHANGED <<query, next, heap, ties>> /\ batch'.open
        /\ batch'.rows = events[s][1].rows /\ batch.rows = {}
    BY <1>0, <1>8, <2>0 DEF TakeBatch, TakesFrom, Receiving, RowsOK
  <2>2. \A r \in batch'.rows : CarriedOK(s, 1, r)
    BY <1>0, <2>0, <2>1 DEF RowsOK
  <2>3. ASSUME NEW t \in Shard, NEW i \in DOMAIN events'[t],
               NEW r \in events'[t][i].rows
        PROVE  CarriedOK(t, i, r)'
    <3>1. CASE t # s
      <4>1. CarriedOK(t, i, r)
        BY <1>0, <2>0, <2>3, <3>1 DEF RowsOK
      <4>2. r \notin batch'.rows
        BY <2>2, <3>1, <4>1 DEF CarriedOK
      <4> QED  BY <2>0, <2>1, <3>1, <4>1, <4>2 DEF CarriedOK, Unscanned
    <3>2. CASE t = s
      <4>1. i \in Int /\ i + 1 \in DOMAIN events[s] /\ r \in events[s][i + 1].rows
            /\ i + 1 # 1
        <5>1. i \in Int /\ i + 1 \in DOMAIN events[s] /\ r \in events[s][i + 1].rows
          BY <2>0, <2>3, <3>2
        <5>2. i >= 1
          BY <1>0, <1>8, <2>3, <3>2, TakeEvent DEF TypeOK, TakeBatch
        <5> QED  BY <5>1, <5>2
      <4>2. CarriedOK(s, i + 1, r)
        BY <1>0, <4>1 DEF RowsOK
      <4>3. ASSUME NEW j \in DOMAIN events'[s], r \in events'[s][j].rows
            PROVE  j = i
        <5>1. j \in Int /\ j + 1 \in DOMAIN events[s] /\ r \in events[s][j + 1].rows
          BY <2>0, <4>3
        <5>2. j + 1 = i + 1
          BY <4>2, <5>1 DEF CarriedOK
        <5> QED  BY <4>1, <5>1, <5>2
      <4>4. r \notin batch'.rows
        BY <2>0, <2>1, <4>1, <4>2 DEF CarriedOK
      <4> QED  BY <2>1, <3>2, <4>2, <4>3, <4>4 DEF CarriedOK, Unscanned
    <3> QED  BY <3>1, <3>2
  <2> QED  BY <1>0, <2>1, <2>2, <2>3 DEF RowsOK, CarriedOK, Unscanned
<1>9. CASE InsertCandidate
  <2>1. PICK r \in batch.rows :
          /\ batch' = [batch EXCEPT !.rows = @ \ {r}]
          /\ ties' = IF query.tieComplete THEN ties \union {r} ELSE ties
          /\ heap' \subseteq heap \union {r}
    BY <1>9 DEF InsertCandidate
  <2>2. UNCHANGED <<query, next, events>> /\ batch.open
    BY <1>9 DEF InsertCandidate
  <2>3. batch'.rows = batch.rows \ {r} /\ batch'.open
    BY <1>0, <2>1, <2>2 DEF TypeOK, BatchType
  <2>4. r \notin heap /\ r \in Eligible(query) /\ ~Unscanned(r)
    BY <1>0, <2>1 DEF RowsOK
  <2>5. ASSUME NEW t \in Shard, NEW i \in DOMAIN events[t],
               NEW x \in events[t][i].rows
        PROVE  CarriedOK(t, i, x)'
    <3>1. CarriedOK(t, i, x)
      BY <1>0 DEF RowsOK
    <3>2. x \notin heap' /\ x \notin batch'.rows
      BY <2>1, <2>3, <3>1 DEF CarriedOK
    <3> QED  BY <2>2, <3>1, <3>2 DEF CarriedOK, Unscanned
  <2> QED  BY <1>0, <2>1, <2>2, <2>3, <2>4, <2>5 DEF RowsOK, Unscanned
<1>10. CASE PublishFloor
  BY <1>0, <1>10, <1>a, Messages DEF PublishFloor, RowsOK
<1>11. ASSUME NEW s \in Shard, TakeSummary(s) \/ TakeClosed(s) \/ TakeFailure(s)
       PROVE  RowsOK'
  <2>1. UNCHANGED <<query, next, heap, ties>> /\ events[s] # <<>>
        /\ events' = [events EXCEPT ![s] = Tail(@)]
    BY <1>11 DEF TakeSummary, TakeClosed, TakeFailure, TakesFrom
  <2>2. batch'.rows = {}
    BY <1>0, <1>11, Messages
       DEF TakeSummary, TakeClosed, TakeFailure, TakesFrom, Receiving, Abandon, RowsOK
  <2> QED  BY <1>b, <2>1, <2>2
<1>12. CASE Finish
  BY <1>0, <1>12, <1>a DEF Finish, RowsOK
<1> QED
  BY <1>1, <1>2, <1>3, <1>4, <1>5, <1>6, <1>7, <1>8, <1>9, <1>10, <1>11, <1>12
     DEF Next, NodeStep, CollectorStep

\* The accounting part: no eligible row goes missing while the query lives.
LEMMA AccountedStep == Inductive /\ Next => RowsAccounted'
<1> DEFINE Owed(r) ==
      StreamLost(ShardOf(r)) \/ Unscanned(r) \/ InFlight(r) \/ Collected(r)
<1> SUFFICES ASSUME Inductive, Next, answer' = Pending,
                    NEW r \in Eligible(query')
             PROVE  Owed(r)'
  BY DEF RowsAccounted
<1> USE DEF coordVars, linkVars, nodeVars
<1>0. TypeOK /\ RowsOK /\ FloorsOK /\ StreamsOK
  BY DEF Inductive
<1>q. query' = query
  BY DEF Next, NodeStep, CollectorStep, OpenShard, OpenFails, Deadline,
         ReaderGone, Pump, Poll, ScanBlock, SendFails, Summarise, StreamBreaks,
         TakeBatch, InsertCandidate, PublishFloor, TakeSummary, TakeFailure,
         TakeClosed, Finish
<1>r. /\ r \in Eligible(query) /\ r \in Row /\ ShardOf(r) \in Shard
      /\ query.score[r] \in Int /\ SlotOf(r) \in Int
  BY <1>0, <1>q, Basics
<1>o. ASSUME answer = Pending PROVE Owed(r)
  BY <1>r, <1>o DEF Inductive, RowsAccounted
<1> HIDE DEF Owed
<1>a. ASSUME answer = Pending,
             UNCHANGED <<heap, ties, batch, next, events, completed>>,
             \A t \in Shard : scan[t] = "broken" => scan'[t] = "broken"
      PROVE  Owed(r)'
  BY <1>q, <1>r, <1>o, <1>a
     DEF Owed, StreamLost, Unscanned, InFlight, Collected, Dominated, Outscored, HeapFull
<1>1. CASE OpenShard
  <2>0. opened + 1 \in Shard /\ opened + 1 > opened /\ answer = Pending
    BY <1>0, <1>1, Basics DEF OpenShard
  <2>1. scan[opened + 1] = "idle"
    BY <1>0, <2>0 DEF StreamsOK
  <2> QED  BY <1>0, <1>1, <1>a, <2>1 DEF OpenShard, TypeOK
<1>2. CASE OpenFails \/ Deadline \/ Finish
  BY <1>2, Messages, <1>0 DEF OpenFails, Deadline, Finish, Abandon, TypeOK, Root
<1>3. ASSUME NEW s \in Shard, ReaderGone(s) PROVE FALSE
  BY <1>3 DEF ReaderGone
<1>4. ASSUME NEW s \in Shard, Pump(s) \/ Poll(s) \/ SendFails(s) PROVE Owed(r)'
  BY <1>0, <1>4, <1>a DEF Pump, Poll, SendFails, TypeOK
<1>5. ASSUME NEW s \in Shard, ScanBlock(s) PROVE Owed(r)'
  <2>1. UNCHANGED <<heap, ties, batch, completed>> /\ answer = Pending
    BY <1>5 DEF ScanBlock
  <2>2. \A t \in Shard : scan[t] = "broken" =>
          scan'[t] = "broken" /\ t # s /\ events'[t] = events[t]
    BY <1>0, <1>5 DEF ScanBlock, TypeOK
  <2>3. \A t \in Shard : \A i \in DOMAIN events[t] :
          i \in DOMAIN events'[t] /\ events'[t][i] = events[t][i]
    <3>1. /\ Event("batch", Admitted(s)) \in EventType
      BY Messages DEF Admitted, Block
    <3> QED  BY <1>0, <1>5, <3>1, AppendOfEvents DEF ScanBlock
  <2>4. CASE StreamLost(ShardOf(r))
    BY <1>r, <2>1, <2>2, <2>4 DEF Owed, StreamLost
  <2>5. CASE InFlight(r)
    BY <1>r, <2>1, <2>3, <2>5 DEF Owed, InFlight
  <2>6. CASE Collected(r)
    BY <1>q, <2>1, <2>6 DEF Owed, Collected, Dominated, Outscored, HeapFull
  <2>7. CASE Unscanned(r) /\ r \notin Block(s)
    <3>1. next' = [next EXCEPT ![s] = next[s] + BlockRows]
      BY <1>5 DEF ScanBlock
    <3>2. CASE ShardOf(r) # s
      BY <1>0, <1>r, <2>7, <3>1, <3>2 DEF Owed, Unscanned, TypeOK
    <3>3. CASE ShardOf(r) = s
      <4>1. SlotOf(r) >= next[s] + BlockRows
        BY <1>0, <1>r, <2>7, <3>3, Basics DEF Block, Unscanned
      <4>2. next'[s] = next[s] + BlockRows
        BY <1>0, <3>1 DEF TypeOK
      <4> QED  BY <3>3, <4>1, <4>2 DEF Owed, Unscanned
    <3> QED  BY <3>2, <3>3
  <2>8. CASE r \in Admitted(s)
    <3>1. ShardOf(r) = s /\ Admitted(s) # {}
      BY <2>8 DEF Admitted, Block
    <3>2. /\ Event("batch", Admitted(s)) \in EventType
          /\ Event("batch", Admitted(s)).rows = Admitted(s)
      BY Messages DEF Admitted, Block
    <3>3. events' = [events EXCEPT ![s] =
                       Append(@, Event("batch", Admitted(s)))]
      BY <1>5, <3>1 DEF ScanBlock
    <3>4. \E i \in DOMAIN events'[s] : r \in events'[s][i].rows
      <4>1. /\ Len(events[s]) + 1 \in DOMAIN events'[s]
            /\ events'[s][Len(events[s]) + 1] = Event("batch", Admitted(s))
        BY <1>0, <3>2, <3>3, AppendOfEvents
      <4> QED  BY <2>8, <3>2, <4>1
    <3> QED  BY <3>1, <3>4 DEF Owed, InFlight
  <2>9. CASE r \in Block(s) /\ r \notin Admitted(s)
    \* Below the scan's floor, which is behind the published one: the heap is
    \* full of better rows.
    <3>1. query.score[r] < scanFloor[s] /\ query.score[r] >= query.initialFloor
          /\ scanFloor[s] <= floor
      BY <1>0, <1>r, <2>9, Basics DEF Admitted, Eligible, FloorsOK
    <3>2. /\ scanFloor[s] \in Int /\ floor \in Int /\ query.initialFloor \in Int
          /\ \A h \in heap : query.score[h] \in Int /\ h \in Row
      BY <1>0, Basics
    <3>3. HeapFull /\ \A h \in heap : query.score[h] >= floor
      BY <1>0, <1>r, <3>1, <3>2 DEF FloorsOK
    <3>4. \A h \in heap : query.score[h] > query.score[r]
      BY <1>r, <3>1, <3>2, <3>3
    <3>5. \A h \in heap : Better(query, h, r)
      BY <3>4 DEF Better
    <3> QED  BY <1>q, <2>1, <3>3, <3>4, <3>5
             DEF Owed, Collected, Dominated, Outscored, HeapFull
  <2> QED
    BY <1>o, <2>1, <2>4, <2>5, <2>6, <2>7, <2>8, <2>9 DEF Owed
<1>6. ASSUME NEW s \in Shard, Summarise(s) PROVE Owed(r)'
  <2> DEFINE e == Event(IF scan[s] = "scanned" THEN "summary"
                        ELSE "incomplete", {})
  <2>1. UNCHANGED <<heap, ties, batch, completed, next>> /\ answer = Pending
    BY <1>6 DEF Summarise
  <2>2. \A t \in Shard : scan[t] = "broken" =>
          scan'[t] = "broken" /\ events'[t] = events[t]
    BY <1>0, <1>6 DEF Summarise, TypeOK
  <2>3. \A t \in Shard : \A i \in DOMAIN events[t] :
          i \in DOMAIN events'[t] /\ events'[t][i] = events[t][i]
    <3>1. e \in EventType
      BY Messages
    <3>2. UNCHANGED events \/ events' = [events EXCEPT ![s] = Append(@, e)]
      BY <1>6 DEF Summarise
    <3> HIDE DEF e
    <3> QED  BY <1>0, <3>1, <3>2, AppendOfEvents
  <2> QED
    BY <1>q, <1>r, <1>o, <2>1, <2>2, <2>3
       DEF Owed, StreamLost, Unscanned, InFlight, Collected, Dominated, Outscored,
           HeapFull
<1>7. ASSUME NEW s \in Shard, StreamBreaks(s) PROVE Owed(r)'
  <2>1. UNCHANGED <<heap, ties, batch, completed, next>> /\ answer = Pending
        /\ scan[s] # "broken"
    BY <1>7 DEF StreamBreaks
  <2>2. scan'[s] = "broken" /\ \A t \in Shard \ {s} : scan'[t] = scan[t]
    BY <1>0, <1>7 DEF StreamBreaks, TypeOK
  <2>3. PICK kept \in 0..Len(events[s]), kind \in {"error", "closed"} :
          events' = [events EXCEPT ![s] =
                       Append(SubSeq(events[s], 1, kept), Event(kind, {}))]
    BY <1>7 DEF StreamBreaks
  <2>4. events \in [Shard -> Seq(EventType)] /\ events[s] \in Seq(EventType)
        /\ Event(kind, {}) \in EventType /\ Event(kind, {}).kind # "summary"
    BY <1>0, Messages DEF TypeOK
  <2>5. /\ events'[s] = Append(SubSeq(events[s], 1, kept), Event(kind, {}))
        /\ \A t \in Shard \ {s} : events'[t] = events[t]
    BY <2>3, <2>4
  <2>6. /\ kept \in Int /\ 1..kept \subseteq DOMAIN events[s]
        /\ DOMAIN events[s] \subseteq Int
        /\ DOMAIN events'[s] = (1..kept) \union {kept + 1}
        /\ \A i \in 1..kept : events'[s][i] = events[s][i]
        /\ events'[s][kept + 1] = Event(kind, {})
    BY <2>4, <2>5, CutOfEvents
  <2>7. CASE ShardOf(r) # s
    BY <1>q, <1>r, <1>o, <2>1, <2>2, <2>5, <2>7
       DEF Owed, StreamLost, Unscanned, InFlight, Collected, Dominated, Outscored,
           HeapFull
  <2>8. CASE ShardOf(r) = s /\ ~InFlight(r)
    <3>1. ~StreamLost(s)
      BY <2>1 DEF StreamLost
    <3> QED
      BY <1>q, <1>o, <2>1, <2>8, <3>1
         DEF Owed, Unscanned, Collected, Dominated, Outscored, HeapFull
  <2>9. CASE ShardOf(r) = s /\ InFlight(r)
    <3>1. CASE r \in batch.rows
      BY <2>1, <3>1 DEF Owed, InFlight
    <3>2. ASSUME NEW i \in DOMAIN events[s], r \in events[s][i].rows
          PROVE  Owed(r)'
      <4>1. CASE i \in 1..kept
        BY <2>6, <2>9, <3>2, <4>1 DEF Owed, InFlight
      <4>2. CASE i \notin 1..kept
        \* The row is cut: nothing certified the shard before it, so nothing
        \* that is kept does.
        <5>1. i \in Int /\ \A j \in 1..kept : j < i /\ j \in DOMAIN events[s]
          <6>1. DOMAIN events[s] = 1..Len(events[s])
            BY <2>4, KeepEvents
          <6> QED  BY <2>6, <3>2, <4>2, <6>1
        <5>2. s \notin completed
          BY <1>0, <3>2 DEF StreamsOK
        <5>3. \A j \in 1..kept : events[s][j].kind # "summary"
          BY <1>0, <3>2, <5>1 DEF StreamsOK
        <5>4. StreamLost(s)'
          BY <2>1, <2>2, <2>4, <2>6, <5>2, <5>3 DEF StreamLost
        <5> QED  BY <2>9, <5>4 DEF Owed
      <4> QED  BY <4>1, <4>2
    <3> QED  BY <2>9, <3>1, <3>2 DEF InFlight
  <2> QED  BY <2>7, <2>8, <2>9
\* Taking the first event loses only that event's rows.
<1>b. ASSUME answer = Pending, UNCHANGED <<heap, ties, next, scan>>,
             NEW s \in Shard, events[s] # <<>>,
             events' = [events EXCEPT ![s] = Tail(@)],
             completed' = completed \/
               /\ completed' = completed \union {s}
               /\ Head(events[s]).kind = "summary",
             batch.rows \union Head(events[s]).rows \subseteq batch'.rows
      PROVE  Owed(r)'
  <2>0. /\ \A t \in Shard \ {s} : events'[t] = events[t]
        /\ 1 \in DOMAIN events[s] /\ Head(events[s]) = events[s][1]
        /\ \A i \in DOMAIN events[s] : i \in Int /\ i >= 1
        /\ \A i \in DOMAIN events'[s] : /\ i \in Int /\ i + 1 \in DOMAIN events[s]
                                        /\ events'[s][i] = events[s][i + 1]
        /\ \A i \in DOMAIN events[s] : i > 1 => /\ i - 1 \in DOMAIN events'[s]
                                                /\ events'[s][i - 1] = events[s][i]
    BY <1>0, <1>b, TailOfEvents
  <2>1. CASE StreamLost(ShardOf(r))
    <3>1. CASE ShardOf(r) = s
      <4>1. completed' = completed /\ s \notin completed
        BY <1>b, <2>0, <2>1, <3>1 DEF StreamLost
      <4>2. \A i \in DOMAIN events'[s] : events'[s][i].kind # "summary"
        BY <2>0, <2>1, <3>1 DEF StreamLost
      <4> QED  BY <1>b, <2>1, <3>1, <4>1, <4>2 DEF Owed, StreamLost
    <3>2. CASE ShardOf(r) # s
      BY <1>b, <1>r, <2>0, <2>1, <3>2 DEF Owed, StreamLost
    <3> QED  BY <3>1, <3>2
  <2>2. CASE InFlight(r)
    <3>1. CASE r \in batch.rows
      BY <1>b, <3>1 DEF Owed, InFlight
    <3>2. ASSUME NEW i \in DOMAIN events[ShardOf(r)], r \in events[ShardOf(r)][i].rows
          PROVE  Owed(r)'
      <4>1. CASE ShardOf(r) # s
        BY <1>r, <2>0, <3>2, <4>1 DEF Owed, InFlight
      <4>2. CASE ShardOf(r) = s /\ i = 1
        BY <1>b, <2>0, <3>2, <4>2 DEF Owed, InFlight
      <4>3. CASE ShardOf(r) = s /\ i > 1
        BY <2>0, <3>2, <4>3 DEF Owed, InFlight
      <4> QED  BY <2>0, <3>2, <4>1, <4>2, <4>3
    <3> QED  BY <2>2, <3>1, <3>2 DEF InFlight
  <2>3. CASE Unscanned(r) \/ Collected(r)
    BY <1>q, <1>b, <2>3
       DEF Owed, Unscanned, Collected, Dominated, Outscored, HeapFull
  <2> QED  BY <1>b, <1>o, <2>1, <2>2, <2>3 DEF Owed
<1>8. ASSUME NEW s \in Shard, TakeBatch(s) PROVE Owed(r)'
  <2>1. batch.rows = {} /\ batch'.rows = Head(events[s]).rows
    BY <1>0, <1>8 DEF TakeBatch, TakesFrom, Receiving, RowsOK
  <2> QED  BY <1>8, <1>b, <2>1 DEF TakeBatch, TakesFrom, Receiving
<1>9. ASSUME NEW s \in Shard, TakeSummary(s) \/ TakeClosed(s) PROVE Owed(r)'
  <2>1. Head(events[s]) \in EventType /\ Head(events[s]).kind # "batch"
        /\ events[s] # <<>>
    BY <1>0, <1>9, TakeEvent DEF TakeSummary, TakeClosed, TakesFrom, TypeOK
  <2>2. Head(events[s]).rows = {}
    BY <2>1, EventRows
  <2> QED  BY <1>9, <1>b, <2>2 DEF TakeSummary, TakeClosed, TakesFrom, Receiving
<1>10. ASSUME NEW s \in Shard, TakeFailure(s) PROVE FALSE
  BY <1>10, Messages DEF TakeFailure, Abandon
<1>11. CASE InsertCandidate
  <2>1. PICK c \in batch.rows :
          /\ batch' = [batch EXCEPT !.rows = @ \ {c}]
          /\ ties' = IF query.tieComplete THEN ties \union {c} ELSE ties
          /\ \/ Cardinality(heap) < query.k /\ heap' = heap \union {c}
             \/ /\ Cardinality(heap) >= query.k
                /\ \A h \in heap : ~Better(query, c, h)
                /\ UNCHANGED heap
             \/ /\ Cardinality(heap) >= query.k
                /\ \E w \in Root :
                     Better(query, c, w) /\ heap' = (heap \ {w}) \union {c}
    BY <1>11 DEF InsertCandidate
  <2>2. UNCHANGED <<next, events, completed, scan, answer>> /\ answer = Pending
    BY <1>11 DEF InsertCandidate
  <2>3. batch'.rows = batch.rows \ {c}
    BY <1>0, <2>1 DEF TypeOK, BatchType
  <2>4. c \notin heap /\ c \in Row /\ heap \subseteq Row
    BY <1>0, <2>1, Basics DEF RowsOK
  <2>5. query \in Query
    BY <1>0 DEF TypeOK
  <2>6. \A h \in heap : query.score[h] \in Int
    BY <1>0, Basics
  \* What the step does to a row the collector has dealt with, and to c.
  <2>7. (Collected(r) \/ r = c) => Collected(r)'
    <3> SUFFICES ASSUME Collected(r) \/ r = c PROVE Collected(r)'
      OBVIOUS
    <3>1. CASE Cardinality(heap) < query.k /\ heap' = heap \union {c}
      <4>1. ~HeapFull
        BY <1>0, <3>1, Basics DEF HeapFull
      <4> QED  BY <1>q, <2>1, <3>1, <4>1 DEF Collected, Dominated, Outscored
    <3>2. CASE /\ Cardinality(heap) >= query.k
               /\ \A h \in heap : ~Better(query, c, h)
               /\ UNCHANGED heap
      <4>1. HeapFull /\ HeapFull'
        BY <1>0, <1>q, <3>2, Basics DEF HeapFull
      <4>2. \A h \in heap : Better(query, h, c)
        BY <2>4, <2>5, <3>2, BetterOrder
      <4> QED  BY <1>q, <2>1, <3>2, <4>1, <4>2 DEF Collected, Dominated, Outscored
    <3>3. ASSUME Cardinality(heap) >= query.k, NEW w \in Root,
                 Better(query, c, w), heap' = (heap \ {w}) \union {c}
          PROVE  Collected(r)'
      <4>1. w \in heap /\ w \in Row /\ \A h \in heap \ {w} : Better(query, h, w)
        BY <2>4 DEF Root
      <4>2. HeapFull'
        <5> DEFINE H == heap  K == query.k
        <5>1. IsFiniteSet(H) /\ Cardinality(H) <= K /\ K \in Nat \ {0} /\ w \in H
              /\ Cardinality(H) \in Nat
          BY <1>0, <4>1, Basics
        <5>2. Cardinality(H) = K
          BY <3>3, <5>1
        <5> HIDE DEF H, K
        <5>3. c \notin H => Cardinality((H \ {w}) \union {c}) = Cardinality(H)
          BY <5>1, HeapInsert
        <5> QED  BY <1>q, <2>4, <3>3, <5>2, <5>3 DEF H, K, HeapFull
      <4>3. \A h \in heap' : Better(query, h, w)
        BY <3>3, <4>1
      <4>4. query.score[c] >= query.score[w]
        BY <2>4, <2>5, <3>3, <4>1, BetterOrder
      <4>5. r \in heap' \/ Dominated(r)'
        <5>1. CASE r \in heap'
          BY <5>1
        <5>2. CASE r = w
          BY <1>q, <4>2, <4>3, <5>2 DEF Dominated
        <5>3. CASE r \notin heap /\ r # c
          <6>1. Dominated(r) /\ Better(query, w, r)
            BY <4>1, <5>3 DEF Collected, Dominated
          <6>2. Better(query, c, r)
            BY <1>r, <2>4, <2>5, <3>3, <4>1, <6>1, BetterOrder
          <6> QED  BY <1>q, <3>3, <4>2, <6>1, <6>2 DEF Dominated
        <5> QED  BY <3>3, <5>1, <5>2, <5>3
      <4>6. query.tieComplete => r \in ties' \/ Outscored(r)'
        <5>1. CASE Outscored(r)
          <6>1. query.score[c] > query.score[r]
            <7>1. query.score[w] > query.score[r] /\ query.score[w] \in Int
                  /\ query.score[c] \in Int
              BY <1>0, <2>4, <4>1, <5>1, Basics DEF Outscored
            <7> QED  BY <1>r, <4>4, <7>1
          <6> QED  BY <1>q, <3>3, <4>2, <5>1, <6>1 DEF Outscored
        <5>2. CASE r \in ties \/ r = c
          BY <2>1, <5>2
        <5> QED  BY <2>1, <5>1, <5>2 DEF Collected
      <4> QED  BY <1>q, <4>5, <4>6 DEF Collected
    <3> QED  BY <2>1, <3>1, <3>2, <3>3
  <2>8. Owed(r)
    BY <1>o, <2>2
  <2>9. InFlight(r) /\ r # c => InFlight(r)'
    BY <2>2, <2>3 DEF InFlight
  <2>10. /\ StreamLost(ShardOf(r)) => StreamLost(ShardOf(r))'
         /\ Unscanned(r) => Unscanned(r)'
    BY <2>2 DEF StreamLost, Unscanned
  <2> QED  BY <2>7, <2>8, <2>9, <2>10 DEF Owed
<1>12. CASE PublishFloor
  <2>1. UNCHANGED <<heap, next, events, completed, scan, answer>>
        /\ answer = Pending /\ batch.rows = {} /\ batch'.rows = {}
    BY <1>12, Messages DEF PublishFloor
  <2>2. r \in ties => r \in ties' \/ Outscored(r)
    <3>1. CASE UNCHANGED ties
      BY <3>1
    <3>2. ASSUME HeapFull, NEW w \in Root,
                 ties' = {t \in ties : query.score[t] >= query.score[w]}
          PROVE  r \in ties => r \in ties' \/ Outscored(r)
      <4>1. \A h \in heap : /\ query.score[h] >= query.score[w]
                            /\ query.score[h] \in Int /\ query.score[w] \in Int
        BY SMTT(30), <1>0, Basics, BetterOrder DEF Root, TypeOK
      <4> QED  BY <1>r, <3>2, <4>1 DEF Outscored
    <3> QED  BY <1>12, <3>1, <3>2 DEF PublishFloor
  <2>3. Collected(r) => Collected(r)'
    BY <1>q, <2>1, <2>2 DEF Collected, Dominated, Outscored, HeapFull
  <2>4. (StreamLost(ShardOf(r)) => StreamLost(ShardOf(r))')
        /\ (Unscanned(r) => Unscanned(r)') /\ (InFlight(r) => InFlight(r)')
    BY <2>1 DEF StreamLost, Unscanned, InFlight
  <2> QED  BY <1>o, <2>1, <2>3, <2>4 DEF Owed
<1> QED
  BY <1>1, <1>2, <1>3, <1>4, <1>5, <1>6, <1>7, <1>8, <1>9, <1>10, <1>11, <1>12
     DEF Next, NodeStep, CollectorStep

\* The reply part: when the last shard has completed, what the collector holds
\* is settled, so the reply is the reference ranking.
LEMMA ReplyStep ==
  Inductive /\ Next => (answer'.kind = "rows" => answer'.rows = ExactRows(query'))
<1> SUFFICES ASSUME Inductive, Next, answer'.kind = "rows"
             PROVE  answer'.rows = ExactRows(query')
  OBVIOUS
<1> USE DEF coordVars, linkVars, nodeVars
<1>0. TypeOK /\ RowsOK /\ StreamsOK /\ RowsAccounted
      /\ (answer.kind = "rows" => answer.rows = ExactRows(query))
  BY DEF Inductive
<1>1. CASE UNCHANGED <<query, answer>>
  BY <1>0, <1>1
<1>2. CASE Finish
  <2>1. query \in Query /\ query' = query /\ batch.rows = {}
        /\ query.k \in Nat \ {0}
    BY <1>0, <1>2, Basics DEF Finish, TypeOK, RowsOK
  <2>2. \A r \in Eligible(query) : Collected(r)
    <3> SUFFICES ASSUME NEW r \in Eligible(query) PROVE Collected(r)
      OBVIOUS
    <3>1. r \in Row /\ ShardOf(r) \in Shard /\ SlotOf(r) \in Int
          /\ SlotOf(r) <= ShardLen[ShardOf(r)]
          /\ ShardLen[ShardOf(r)] \in Int /\ next[ShardOf(r)] \in Int
      BY <1>0, Basics
    <3>2. ShardOf(r) \in completed
      BY <1>2, <3>1 DEF Finish
    <3>3. ~StreamLost(ShardOf(r))
      BY <3>2 DEF StreamLost
    <3>4. ~Unscanned(r)
      BY <1>0, <3>1, <3>2 DEF StreamsOK, Certified, Unscanned
    <3>5. ~InFlight(r)
      BY <1>0, <2>1, <3>1, <3>2 DEF StreamsOK, InFlight
    <3> QED  BY <1>0, <1>2, <3>3, <3>4, <3>5 DEF RowsAccounted, Finish
  <2>3. Settled(query, heap)
    <3>1. heap \subseteq Eligible(query)
      BY <1>0 DEF RowsOK
    <3> QED  BY <1>0, <2>2, <3>1, Basics DEF Settled, Collected, Dominated, HeapFull
  <2>4. CASE ~query.tieComplete /\ answer' = Ranked(heap)
    <3>1. heap = TopRows(query)
      BY <2>1, <2>3, SettledIsTop
    <3> QED  BY <2>1, <2>4, <3>1, Messages DEF ExactRows
  <2>5. CASE query.tieComplete /\ heap = {} /\ answer' = Ranked(ties)
    \* An empty heap has room, so there was nothing to rank.
    <3>1. ~HeapFull
      <4>1. Cardinality({}) = 0
        BY FS_EmptySet
      <4> QED  BY <2>1, <2>5, <4>1 DEF HeapFull
    <3>2. Eligible(query) = {}
      BY <2>2, <2>5, <3>1 DEF Collected, Dominated
    <3>3. ties = {}
      BY <1>0, <3>2 DEF RowsOK
    <3> QED  BY <2>1, <2>5, <3>2, <3>3, Messages, NoneEligible
  <2>6. ASSUME query.tieComplete, NEW w \in Root,
               answer' = Ranked({t \in ties : query.score[t] >= query.score[w]})
        PROVE  answer'.rows = ExactRows(query')
    <3>1. w \in heap /\ \A h \in heap \ {w} : Better(query, h, w)
      BY DEF Root
    <3>2. {r \in Eligible(query) : query.score[r] >= query.score[w]}
            = TiedRows(query)
      BY <2>1, <2>3, <3>1, SettledIsTied
    <3>3. \A r \in Eligible(query) : query.score[r] >= query.score[w] => r \in ties
      <4> SUFFICES ASSUME NEW r \in Eligible(query),
                          query.score[r] >= query.score[w]
                   PROVE  r \in ties
        OBVIOUS
      <4>1. query.score[r] \in Int /\ query.score[w] \in Int
        BY <1>0, <3>1, Basics
      <4>2. ~(query.score[w] > query.score[r])
        BY <4>1
      <4>3. ~Outscored(r)
        BY <3>1, <4>2 DEF Outscored
      <4> QED  BY <2>2, <2>6, <4>3 DEF Collected
    <3>4. ties \subseteq Eligible(query)
      BY <1>0 DEF RowsOK
    <3>5. {t \in ties : query.score[t] >= query.score[w]} = TiedRows(query)
      BY <3>2, <3>3, <3>4
    <3> QED  BY <2>1, <2>6, <3>5, Messages DEF ExactRows
  <2> QED  BY <1>2, <2>4, <2>5, <2>6 DEF Finish
<1>3. CASE answer' = Failed
  BY <1>3, Messages
<1> QED
  BY <1>1, <1>2, <1>3
     DEF Next, NodeStep, CollectorStep, OpenShard, OpenFails, Deadline, Abandon,
         ReaderGone, Pump, Poll, ScanBlock, SendFails, Summarise, StreamBreaks,
         TakeBatch, InsertCandidate, PublishFloor, TakeSummary, TakeFailure,
         TakeClosed

LEMMA InductiveStep == Inductive /\ [Next]_vars => Inductive'
<1> SUFFICES ASSUME Inductive, [Next]_vars PROVE Inductive'
  OBVIOUS
<1>1. TypeOK'
  BY TypeStep DEF Inductive
<1>2. CASE Next
  BY <1>1, <1>2, RowsStep, FloorsStep, StreamsStep, AccountedStep, ReplyStep
     DEF Inductive
<1>3. CASE UNCHANGED vars
  BY <1>1, <1>3
     DEF vars, coordVars, linkVars, nodeVars, Inductive, RowsOK, CarriedOK,
         FloorsOK, StreamsOK, RowsAccounted, Certified, StreamLost, Unscanned,
         InFlight, Collected, Dominated, Outscored, HeapFull
<1> QED  BY <1>2, <1>3

\* The invariant behind the exactness proof holds in every reachable state.
THEOREM InductiveHolds == Spec => []Inductive
  BY InductiveInit, InductiveStep, PTL DEF Spec

\* Whatever the collection, the query, the interleaving of scans and floors,
\* and whatever fails: rows that are returned are exactly the reference ranking.
THEOREM AnswersAreExact == Spec => []ExactAnswer
<1>1. Inductive => ExactAnswer
  BY DEF Inductive, ExactAnswer
<1> QED  BY <1>1, InductiveHolds, PTL

\* A published floor never exceeds the k-th best score of the whole collection.
THEOREM FloorsAreSound == Spec => []FloorSound
<1>1. Inductive => FloorSound
  <2> SUFFICES ASSUME Inductive, floor > query.initialFloor
               PROVE  Cardinality({r \in Eligible(query) : query.score[r] >= floor})
                        >= query.k
    BY DEF FloorSound
  <2> DEFINE A == {r \in Eligible(query) : query.score[r] >= floor}
  <2>1. TypeOK /\ RowsOK /\ FloorsOK
    BY DEF Inductive
  <2>2. heap \subseteq A /\ Cardinality(heap) = query.k
    BY <2>1 DEF RowsOK, FloorsOK, HeapFull
  <2>3. A \subseteq Row
    BY <2>1, Basics
  <2>4. IsFiniteSet(A) /\ Cardinality(A) \in Nat
    BY <2>3, RowFinite, FS_Subset, FS_CardinalityType
  <2>5. Cardinality(heap) <= Cardinality(A)
    BY <2>2, <2>4, FS_Subset
  <2> QED  BY <2>2, <2>5
<1> QED  BY <1>1, InductiveHolds, PTL

\* The rows of the answer are never lost on the way: each is unscanned, in
\* flight or held, unless its stream is lost and the query can only fail.
THEOREM NoRowIsLost == Spec => []NothingLost
<1>1. Inductive => NothingLost
  <2> SUFFICES ASSUME Inductive, answer = Pending, NEW r \in ExactRows(query),
                      ~StreamLost(ShardOf(r)), ~Unscanned(r), ~InFlight(r)
               PROVE  r \in (IF query.tieComplete THEN ties ELSE heap)
    BY DEF NothingLost
  <2>1. TypeOK /\ RowsOK /\ RowsAccounted /\ query \in Query
    BY DEF Inductive, TypeOK
  <2>2. r \in Eligible(query) /\ Eligible(query) \subseteq Row
        /\ (query.tieComplete => r \in TiedRows(query))
        /\ (~query.tieComplete => r \in TopRows(query))
    BY <2>1, Basics DEF ExactRows, TopRows, TiedRows
  <2>3. Collected(r)
    BY <2>1, <2>2 DEF RowsAccounted
  <2>4. /\ heap \subseteq Eligible(query) /\ IsFiniteSet(Eligible(query))
        /\ query.k \in Nat /\ query.tieComplete \in BOOLEAN
    BY <2>1, <2>2, Basics, RowFinite, FS_Subset, RowFacts DEF RowsOK
  <2>5. CASE query.tieComplete
    <3> DEFINE A == {b \in Eligible(query) : query.score[b] > query.score[r]}
    <3>1. Cardinality(A) < query.k /\ IsFiniteSet(A) /\ Cardinality(A) \in Nat
      BY <2>2, <2>4, <2>5, FS_Subset, FS_CardinalityType DEF TiedRows
    <3>2. ~(heap \subseteq A /\ Cardinality(heap) = query.k)
      <4> SUFFICES ASSUME heap \subseteq A, Cardinality(heap) = query.k
                   PROVE  FALSE
        OBVIOUS
      <4>1. Cardinality(heap) <= Cardinality(A)
        BY <3>1, FS_Subset
      <4> HIDE DEF A
      <4> QED  BY <2>4, <3>1, <4>1
    <3>3. ~Outscored(r)
      BY <2>4, <3>2 DEF Outscored, HeapFull
    <3> QED  BY <2>3, <2>5, <3>3 DEF Collected
  <2>6. CASE ~query.tieComplete
    <3> DEFINE A == {b \in Eligible(query) : Better(query, b, r)}
    <3>1. Cardinality(A) < query.k /\ IsFiniteSet(A) /\ Cardinality(A) \in Nat
      BY <2>2, <2>4, <2>6, FS_Subset, FS_CardinalityType DEF TopRows
    <3>2. ~(heap \subseteq A /\ Cardinality(heap) = query.k)
      <4> SUFFICES ASSUME heap \subseteq A, Cardinality(heap) = query.k
                   PROVE  FALSE
        OBVIOUS
      <4>1. Cardinality(heap) <= Cardinality(A)
        BY <3>1, FS_Subset
      <4> HIDE DEF A
      <4> QED  BY <2>4, <3>1, <4>1
    <3>3. ~Dominated(r)
      BY <2>4, <3>2 DEF Dominated, HeapFull
    <3> QED  BY <2>3, <2>6, <3>3 DEF Collected
  <2> QED  BY <2>4, <2>5, <2>6
<1> QED  BY <1>1, InductiveHolds, PTL

\* stream_query implements ExactSearch: initial states map to initial states,
\* and every step is a reply of the promise or leaves the answer alone.
THEOREM ImplementsPromise == Spec => ExactOrError
<1>1. Init => Promise!Init
  BY DEF Init, Promise!Init, Pending, Promise!Pending
<1>2. Inductive /\ Inductive' /\ [Next]_vars => [Promise!Reply]_<<query, answer>>
  <2> SUFFICES ASSUME Inductive, Inductive', Next,
                      ~(UNCHANGED <<query, answer>>)
               PROVE  Promise!Reply
    BY DEF vars
  <2>1. /\ query' = query /\ answer = Pending
        /\ answer' = Failed \/ \E R \in SUBSET Row : answer' = Ranked(R)
    <3>1. heap \subseteq Row /\ ties \subseteq Row
      BY DEF Inductive, TypeOK
    <3> QED
      BY <3>1
         DEF Next, NodeStep, CollectorStep, OpenShard, OpenFails, Deadline,
             Abandon, ReaderGone, Pump, Poll, ScanBlock, SendFails, Summarise,
             StreamBreaks, TakeBatch, InsertCandidate, PublishFloor,
             TakeSummary, TakeFailure, TakeClosed, Finish, Receiving
  <2>2. CASE answer' = Failed
    BY <2>1, <2>2 DEF Promise!Reply, Promise!Pending, Promise!Failed, Pending, Failed
  <2>3. ASSUME NEW R \in SUBSET Row, answer' = Ranked(R)
        PROVE  Promise!Reply
    <3>1. answer'.kind = "rows" /\ answer'.rows = R
      BY <2>3 DEF Ranked
    <3>2. R = ExactRows(query)
      BY <2>1, <3>1 DEF Inductive
    <3>3. \A S : Promise!Cardinality(S) = Cardinality(S)
      BY DEF Promise!Cardinality, Cardinality, Promise!IsFiniteSet, IsFiniteSet
    <3>4. \A a, b : Promise!Better(query, a, b) = Better(query, a, b)
      BY DEF Promise!Better, Better, Promise!OrderKey, OrderKey,
             Promise!ShardOf, ShardOf, Promise!SlotOf, SlotOf
    <3>5. Promise!Eligible(query) = Eligible(query)
      BY DEF Promise!Eligible, Eligible
    <3>6. Promise!TopRows(query) = TopRows(query)
      BY <3>3, <3>4, <3>5 DEF Promise!TopRows, TopRows
    <3>7. Promise!TiedRows(query) = TiedRows(query)
      BY <3>3, <3>5 DEF Promise!TiedRows, TiedRows
    <3>8. Promise!ExactRows(query) = ExactRows(query)
      BY <3>6, <3>7 DEF Promise!ExactRows, ExactRows
    <3> QED
      BY <2>1, <2>3, <3>2, <3>8
         DEF Promise!Reply, Promise!Pending, Promise!Ranked, Pending, Ranked
  <2> QED  BY <2>1, <2>2, <2>3
<1> QED
  BY <1>1, <1>2, InductiveHolds, PTL DEF Spec, ExactOrError, Promise!Spec

--------------------------------------------------------------------------------
(* A query never aborts itself, and collects nothing twice.                *)

\* Where a buffered event comes from: it was there before, the scan has just
\* sent a block, the scan has just ended, or the stream has just broken.
LEMMA EventOrigin ==
  ASSUME TypeOK, Next, NEW s \in Shard, NEW i \in DOMAIN events'[s]
  PROVE  \/ \E j \in DOMAIN events[s] : events'[s][i] = events[s][j]
         \/ ScanBlock(s) /\ events'[s][i] = Event("batch", Admitted(s))
         \/ /\ events'[s][i].rows = {}
            /\ events'[s][i].kind = "incomplete" => scan[s] = "stopped"
<1> DEFINE Old == \E j \in DOMAIN events[s] : events'[s][i] = events[s][j]
           Bare == /\ events'[s][i].rows = {}
                   /\ events'[s][i].kind = "incomplete" => scan[s] = "stopped"
<1> USE DEF coordVars, linkVars, nodeVars
<1>1. CASE UNCHANGED events
  BY <1>1
<1>2. ASSUME NEW t \in Shard, events[t] # <<>>,
             events' = [events EXCEPT ![t] = Tail(@)]
      PROVE  Old
  <2>1. CASE s = t
    <3>1. i + 1 \in DOMAIN events[s] /\ events'[s][i] = events[s][i + 1]
      BY <1>2, <2>1, TailOfEvents
    <3> QED  BY <3>1
  <2>2. CASE s # t
    <3>1. events'[s] = events[s]
      BY <1>2, <2>2, TailOfEvents
    <3> QED  BY <3>1
  <2> QED  BY <2>1, <2>2
<1>3. ASSUME NEW t \in Shard, ReaderGone(t) PROVE Old
  BY <1>3 DEF ReaderGone, TypeOK
<1>4. ASSUME NEW t \in Shard, ScanBlock(t)
      PROVE  Old \/ (s = t /\ events'[s][i] = Event("batch", Admitted(s)))
  <2>1. Event("batch", Admitted(t)) \in EventType
    BY Messages DEF Admitted, Block
  <2> DEFINE e == Event("batch", Admitted(t))
  <2> HIDE DEF e
  <2>2. UNCHANGED events \/ events' = [events EXCEPT ![t] = Append(@, e)]
    BY <1>4 DEF ScanBlock, e
  <2>3. CASE events' = [events EXCEPT ![t] = Append(@, e)]
    <3>1. e \in EventType
      BY <2>1 DEF e
    <3> QED  BY <2>3, <3>1, AppendOfEvents DEF e
  <2> QED  BY <1>1, <2>2, <2>3
<1>5. ASSUME NEW t \in Shard, Summarise(t) PROVE Old \/ Bare
  <2> DEFINE e == Event(IF scan[t] = "scanned" THEN "summary"
                        ELSE "incomplete", {})
  <2>1. e \in EventType /\ e.rows = {}
        /\ (e.kind = "incomplete" => scan[t] = "stopped")
    BY <1>5, Messages DEF Summarise
  <2> HIDE DEF e
  <2>2. UNCHANGED events \/ events' = [events EXCEPT ![t] = Append(@, e)]
    BY <1>5 DEF Summarise, e
  <2>3. CASE events' = [events EXCEPT ![t] = Append(@, e)]
    BY <2>1, <2>3, AppendOfEvents
  <2> QED  BY <1>1, <2>2, <2>3
<1>6. ASSUME NEW t \in Shard, StreamBreaks(t) PROVE Old \/ Bare
  <2>1. PICK kept \in 0..Len(events[t]), kind \in {"error", "closed"} :
          events' = [events EXCEPT ![t] =
                       Append(SubSeq(@, 1, kept), Event(kind, {}))]
    BY <1>6 DEF StreamBreaks
  <2> DEFINE e == Event(kind, {})
  <2>2. e \in EventType /\ e.rows = {} /\ e.kind # "incomplete"
    BY Messages
  <2> HIDE DEF e
  <2>3. events' = [events EXCEPT ![t] = Append(SubSeq(events[t], 1, kept), e)]
    BY <2>1 DEF e
  <2>4. events \in [Shard -> Seq(EventType)]
    BY DEF TypeOK
  <2>5. /\ events'[t] = Append(SubSeq(events[t], 1, kept), e)
        /\ \A u \in Shard \ {t} : events'[u] = events[u]
    BY <2>3, <2>4
  <2>6. CASE s = t
    <3>1. /\ DOMAIN events'[t] = (1..kept) \union {kept + 1}
          /\ 1..kept \subseteq DOMAIN events[t]
          /\ \A j \in 1..kept : events'[t][j] = events[t][j]
          /\ events'[t][kept + 1] = e
      BY <2>2, <2>4, <2>5, CutOfEvents
    <3> QED  BY <2>2, <2>6, <3>1
  <2> QED  BY <2>5, <2>6
<1> HIDE DEF Old, Bare
<1>7. ASSUME NEW t \in Shard,
             TakeBatch(t) \/ TakeSummary(t) \/ TakeClosed(t) \/ TakeFailure(t)
      PROVE  Old
  BY <1>2, <1>7 DEF TakeBatch, TakeSummary, TakeClosed, TakeFailure, TakesFrom
<1>8. CASE UNCHANGED events
  BY <1>8 DEF Old
<1>9. \/ UNCHANGED events
      \/ \E t \in Shard : \/ ReaderGone(t) \/ ScanBlock(t) \/ Summarise(t)
                          \/ StreamBreaks(t) \/ TakeBatch(t) \/ TakeSummary(t)
                          \/ TakeClosed(t) \/ TakeFailure(t)
  BY DEF Next, NodeStep, CollectorStep, OpenShard, OpenFails, Deadline, Pump,
         Poll, SendFails, InsertCandidate, PublishFloor, Finish
<1> QED
  BY <1>3, <1>4, <1>5, <1>6, <1>7, <1>8, <1>9 DEF Old, Bare

\* Until the reply no watch channel holds Stop, no scan has seen one, and every
\* scan that was started is listened to.
LinksQuiet ==
  answer = Pending =>
    \A s \in Shard :
      /\ control[s].kind # "stop"
      /\ ~stop[s]
      /\ scan[s] # "idle" => listening[s]

LEMMA StillPending ==
  ASSUME TypeOK, Next, answer' = Pending
  PROVE  /\ answer = Pending
         /\ ~Abandon
         /\ \A s \in Shard : ~ReaderGone(s)
         /\ ~Finish
<1>1. ~Abandon
  BY Messages DEF Abandon
<1>2. ~Finish
  BY Messages DEF Finish, TypeOK, Root
<1>3. answer = Pending
  BY <1>1, <1>2
     DEF Next, NodeStep, CollectorStep, OpenShard, OpenFails, Deadline,
         ReaderGone, Pump, Poll, ScanBlock, SendFails, Summarise,
         StreamBreaks, TakeBatch, InsertCandidate, PublishFloor,
         TakeSummary, TakeFailure, TakeClosed, linkVars, nodeVars, coordVars
<1>4. \A s \in Shard : ~ReaderGone(s)
  <2>1. ASSUME NEW s \in Shard, ReaderGone(s) PROVE FALSE
    BY <1>3, <2>1 DEF ReaderGone
  <2> QED  BY <2>1
<1> QED  BY <1>1, <1>2, <1>3, <1>4

LEMMA QuietStep ==
  TypeOK /\ LinksQuiet /\ NoSelfAbort /\ Next => LinksQuiet' /\ NoSelfAbort'
<1> SUFFICES ASSUME TypeOK, LinksQuiet, NoSelfAbort, Next, answer' = Pending
             PROVE  LinksQuiet' /\ NoSelfAbort'
  BY DEF LinksQuiet, NoSelfAbort
<1> USE DEF coordVars, linkVars, nodeVars
<1>0. /\ answer = Pending /\ ~Abandon /\ ~Finish
      /\ \A s \in Shard : ~ReaderGone(s)
  BY StillPending
<1>1. \A s \in Shard : /\ control[s].kind # "stop" /\ ~stop[s]
                       /\ scan[s] # "idle" => listening[s]
                       /\ scan[s] # "stopped"
                       /\ \A i \in DOMAIN events[s] : events[s][i].kind # "incomplete"
  BY <1>0 DEF LinksQuiet, NoSelfAbort
<1>2. \A s \in Shard : \A i \in DOMAIN events'[s] : events'[s][i].kind # "incomplete"
  <2> SUFFICES ASSUME NEW s \in Shard, NEW i \in DOMAIN events'[s]
               PROVE  events'[s][i].kind # "incomplete"
    OBVIOUS
  <2>1. Event("batch", Admitted(s)).kind # "incomplete"
    BY Messages
  <2> QED  BY <1>1, <2>1, EventOrigin
<1>3. NoControl.kind # "stop" /\ \A f \in Int : FloorUpdate(f).kind # "stop"
  BY DEF NoControl, FloorUpdate
<1>4. CASE OpenShard
  <2>1. opened + 1 \in Shard
    BY <1>4, Basics DEF OpenShard
  <2> QED
    BY <1>0, <1>1, <1>2, <1>4, <2>1 DEF OpenShard, LinksQuiet, NoSelfAbort, TypeOK
<1>5. ASSUME NEW s \in Shard, Pump(s) PROVE LinksQuiet' /\ NoSelfAbort'
  <2>1. \A t \in Shard : control'[t].kind # "stop"
    BY <1>1, <1>3, <1>5 DEF Pump, TypeOK
  <2>2. \A t \in Shard : ~stop'[t]
    BY <1>1, <1>5 DEF Pump, TypeOK
  <2> QED
    BY <1>1, <1>2, <1>5, <2>1, <2>2 DEF Pump, LinksQuiet, NoSelfAbort
<1>6. ASSUME NEW s \in Shard, Poll(s) PROVE LinksQuiet' /\ NoSelfAbort'
  BY <1>1, <1>2, <1>6 DEF Poll, LinksQuiet, NoSelfAbort, TypeOK
<1>7. ASSUME NEW s \in Shard,
             ScanBlock(s) \/ SendFails(s) \/ Summarise(s) \/ StreamBreaks(s)
      PROVE  LinksQuiet' /\ NoSelfAbort'
  <2>1. ~SendFails(s)
    BY <1>1 DEF SendFails
  <2>2. /\ scan[s] # "idle" \/ listening[s]
        /\ \E c \in {"poll", "scanned", "ended", "broken"} :
             scan' = [scan EXCEPT ![s] = c]
    BY <1>7, <2>1 DEF ScanBlock, Summarise, StreamBreaks
  <2>3. UNCHANGED <<control, stop, listening>>
    BY <1>7, <2>1 DEF ScanBlock, Summarise, StreamBreaks
  <2> QED
    BY <1>1, <1>2, <2>2, <2>3 DEF LinksQuiet, NoSelfAbort, TypeOK
<1>8. CASE InsertCandidate \/ \E s \in Shard :
             TakeBatch(s) \/ TakeSummary(s) \/ TakeClosed(s)
  BY <1>1, <1>2, <1>8
     DEF InsertCandidate, TakeBatch, TakeSummary, TakeClosed, LinksQuiet,
         NoSelfAbort
<1>9. CASE PublishFloor
  <2>1. \A w \in Root : query.score[w] \in Int
    BY Basics DEF Root
  <2>2. \A t \in Shard : control'[t].kind # "stop"
    BY <1>1, <1>3, <1>9, <2>1 DEF PublishFloor
  <2> QED
    BY <1>1, <1>2, <1>9, <2>2 DEF PublishFloor, LinksQuiet, NoSelfAbort
<1> QED
  BY <1>0, <1>4, <1>5, <1>6, <1>7, <1>8, <1>9
     DEF Next, NodeStep, CollectorStep, OpenFails, Deadline, TakeFailure

\* While a query collects, none of its scans has been told to stop, so no
\* incomplete summary can end it.
THEOREM QueriesNeverAbortThemselves == Spec => []NoSelfAbort
<1>1. Init => LinksQuiet /\ NoSelfAbort
  BY DEF Init, LinksQuiet, NoSelfAbort, NoControl
<1>2. TypeOK /\ (LinksQuiet /\ NoSelfAbort) /\ [Next]_vars
        => (LinksQuiet /\ NoSelfAbort)'
  <2>1. ASSUME LinksQuiet, NoSelfAbort, UNCHANGED vars
        PROVE  LinksQuiet' /\ NoSelfAbort'
    BY <2>1 DEF LinksQuiet, NoSelfAbort, vars, coordVars, linkVars, nodeVars
  <2> QED  BY <2>1, QuietStep
<1> QED  BY <1>1, <1>2, TypeCorrect, PTL DEF Spec

\* A step keeps what is collected away from what is still to be collected.
LEMMA CollectedStep == Inductive /\ CollectedOnce /\ Next => CollectedOnce'
<1> SUFFICES ASSUME Inductive, CollectedOnce, Next,
                    NEW r \in heap' \union ties'
             PROVE  ~Unscanned(r)' /\ ~InFlight(r)'
  BY DEF CollectedOnce
<1> USE DEF coordVars, linkVars, nodeVars
<1>0. TypeOK /\ RowsOK /\ RowsOK'
  BY RowsStep DEF Inductive
<1>1. /\ r \in Row /\ ShardOf(r) \in Shard /\ SlotOf(r) \in Int
      /\ UNCHANGED query
  <2>1. UNCHANGED query
    BY DEF Next, NodeStep, CollectorStep, OpenShard, OpenFails, Deadline,
           ReaderGone, Pump, Poll, ScanBlock, SendFails, Summarise,
           StreamBreaks, TakeBatch, InsertCandidate, PublishFloor,
           TakeSummary, TakeFailure, TakeClosed, Finish
  <2>2. r \in Eligible(query)
    BY <1>0, <2>1 DEF RowsOK, Eligible
  <2> QED  BY <1>0, <2>1, <2>2, Basics
\* A row held now was held, or comes out of the batch in hand.
<1>2. \/ r \in heap \union ties
      \/ InsertCandidate /\ r \in batch.rows /\ batch' = [batch EXCEPT !.rows = @ \ {r}]
  <2>1. CASE InsertCandidate
    BY <2>1 DEF InsertCandidate
  <2>2. CASE PublishFloor
    BY <2>2 DEF PublishFloor
  <2>3. CASE UNCHANGED <<heap, ties>>
    BY <2>3
  <2> QED
    BY <2>1, <2>2, <2>3
       DEF Next, NodeStep, CollectorStep, OpenShard, OpenFails, Deadline,
           Abandon, ReaderGone, Pump, Poll, ScanBlock, SendFails, Summarise,
           StreamBreaks, TakeBatch, TakeSummary, TakeFailure, TakeClosed, Finish
<1>3. ~Unscanned(r) /\ \A i \in DOMAIN events[ShardOf(r)] :
                         r \notin events[ShardOf(r)][i].rows
  <2>1. CASE r \in heap \union ties
    BY <2>1 DEF CollectedOnce, InFlight
  <2>2. CASE r \in batch.rows
    BY <1>0, <1>1, <2>2 DEF RowsOK, CarriedOK
  <2> QED  BY <1>2, <2>1, <2>2
<1>4. ~Unscanned(r)'
  <2>1. next'[ShardOf(r)] >= next[ShardOf(r)]
        /\ next'[ShardOf(r)] \in Int /\ next[ShardOf(r)] \in Int
    <3>1. ASSUME NEW s \in Shard, ScanBlock(s)
          PROVE  /\ next'[ShardOf(r)] >= next[ShardOf(r)]
                 /\ next'[ShardOf(r)] \in Int
      <4>1. next' = [next EXCEPT ![s] = next[s] + BlockRows]
            /\ next \in [Shard -> Nat \ {0}] /\ BlockRows \in Nat
        BY <1>0, <3>1, Basics DEF ScanBlock, TypeOK
      <4> QED  BY <1>1, <4>1
    <3>2. next[ShardOf(r)] \in Int
      BY <1>0, <1>1, Basics
    <3>3. UNCHANGED next \/ \E s \in Shard : ScanBlock(s)
      BY DEF Next, NodeStep, CollectorStep, OpenShard, OpenFails, Deadline,
             ReaderGone, Pump, Poll, SendFails, Summarise,
             StreamBreaks, TakeBatch, InsertCandidate, PublishFloor,
             TakeSummary, TakeFailure, TakeClosed, Finish
    <3> QED  BY <3>1, <3>2, <3>3
  <2> QED  BY <1>1, <1>3, <2>1 DEF Unscanned
<1>5. \A i \in DOMAIN events'[ShardOf(r)] : r \notin events'[ShardOf(r)][i].rows
  <2> SUFFICES ASSUME NEW i \in DOMAIN events'[ShardOf(r)]
               PROVE  r \notin events'[ShardOf(r)][i].rows
    OBVIOUS
  <2>1. CASE ScanBlock(ShardOf(r))
             /\ events'[ShardOf(r)][i] = Event("batch", Admitted(ShardOf(r)))
    <3>1. r \notin Admitted(ShardOf(r))
      BY <1>3 DEF Admitted, Block, Unscanned
    <3> QED  BY <2>1, <3>1, Messages
  <2> QED  BY <1>0, <1>1, <1>3, <2>1, EventOrigin
<1>6. r \notin batch'.rows
  <2>1. CASE InsertCandidate
    <3>1. CASE r \in heap \union ties
      <4>1. r \notin batch.rows
        BY <3>1 DEF CollectedOnce, InFlight
      <4>2. batch'.rows \subseteq batch.rows
        BY <1>0, <2>1 DEF InsertCandidate, TypeOK, BatchType
      <4> QED  BY <4>1, <4>2
    <3>2. CASE batch' = [batch EXCEPT !.rows = @ \ {r}]
      BY <1>0, <3>2 DEF TypeOK, BatchType
    <3> QED  BY <1>2, <3>1, <3>2
  <2>2. ASSUME ~InsertCandidate, NEW s \in Shard, TakeBatch(s)
        PROVE  r \notin batch'.rows
    <3>1. r \in heap \union ties
      BY <1>2, <2>2
    <3>2. batch'.rows = events[s][1].rows /\ 1 \in DOMAIN events[s]
      BY <1>0, <2>2, TailOfEvents DEF TakeBatch, TakesFrom
    <3>3. \A c \in events[s][1].rows : ShardOf(c) = s
      BY <1>0, <3>2 DEF RowsOK, CarriedOK
    <3> QED  BY <3>1, <3>2, <3>3 DEF CollectedOnce, InFlight
  <2>3. CASE ~InsertCandidate /\ batch' \in {batch, NoBatch}
    <3>1. r \notin batch.rows
      BY <1>2, <2>3 DEF CollectedOnce, InFlight
    <3> QED  BY <2>3, <3>1, Messages
  <2> QED
    BY <2>1, <2>2, <2>3
       DEF Next, NodeStep, CollectorStep, OpenShard, OpenFails, Deadline,
           Abandon, ReaderGone, Pump, Poll, ScanBlock, SendFails, Summarise,
           StreamBreaks, PublishFloor, TakeSummary, TakeFailure,
           TakeClosed, Finish
<1> QED  BY <1>4, <1>5, <1>6 DEF InFlight

\* A row the collector holds is neither unscanned nor on its way any more, so
\* that the sets heap and ties stand for the code's lists.
THEOREM RowsAreCollectedOnce == Spec => []CollectedOnce
<1>1. Init => CollectedOnce
  BY DEF Init, CollectedOnce
<1>2. Inductive /\ CollectedOnce /\ [Next]_vars => CollectedOnce'
  <2>1. ASSUME CollectedOnce, UNCHANGED vars PROVE CollectedOnce'
    BY <2>1 DEF CollectedOnce, Unscanned, InFlight, vars, coordVars, linkVars,
                nodeVars
  <2> QED  BY <2>1, CollectedStep
<1> QED  BY <1>1, <1>2, InductiveHolds, PTL DEF Spec

================================================================================
