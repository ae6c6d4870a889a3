----------------------------- MODULE RankingProofs -----------------------------
(***************************************************************************)
(* Facts about the order of Ranking, and the bridge from "the collector    *)
(* holds k rows that nothing outside can displace" to the counting         *)
(* definitions of the exact answer.                                        *)
(***************************************************************************)
EXTENDS Ranking, FiniteSetTheorems, TLAPS

\* A row is a pair of a shard and one of its slots; its score, label and order
\* key are integers.
LEMMA RowFacts ==
  ASSUME NEW q \in Query
  PROVE  /\ \A r \in Row : /\ ShardOf(r) \in Shard
                           /\ SlotOf(r) \in 1..ShardLen[ShardOf(r)]
                           /\ ShardOf(r) \in Int /\ SlotOf(r) \in Int
                           /\ q.score[r] \in Int /\ OrderKey(q, r) \in Int
                           /\ r = <<ShardOf(r), SlotOf(r)>>
         /\ q.k \in Nat \ {0} /\ q.initialFloor \in Int
         /\ q.tieComplete \in BOOLEAN
         /\ q.allowed \subseteq Row /\ Eligible(q) \subseteq Row
<1>1. \A r \in Row : \E s \in Shard : r \in {s} \X (1..ShardLen[s])
  BY DEF Row
<1>2. \A s \in Shard : ShardLen[s] \in Nat /\ s \in Int
  BY ShardAssumption DEF Shard
<1>3. q \in [score : [Row -> Int], label : [Row -> Int], k : Nat \ {0},
             labelOrder : BOOLEAN, tieComplete : BOOLEAN, initialFloor : Int,
             allowed : SUBSET Row]
  BY QueryAssumption
<1>4. \A r \in Row : q.score[r] \in Int /\ OrderKey(q, r) \in Int
  BY <1>3 DEF OrderKey
<1> QED
  BY <1>1, <1>2, <1>3, <1>4 DEF ShardOf, SlotOf, Eligible

\* Better is a strict total order on rows that never contradicts the score.
LEMMA BetterOrder ==
  ASSUME NEW q \in Query
  PROVE  /\ \A a \in Row : ~Better(q, a, a)
         /\ \A a, b \in Row : a = b \/ Better(q, a, b) \/ Better(q, b, a)
         /\ \A a, b \in Row : ~(Better(q, a, b) /\ Better(q, b, a))
         /\ \A a, b, c \in Row :
              Better(q, a, b) /\ Better(q, b, c) => Better(q, a, c)
         /\ \A a, b \in Row : Better(q, a, b) => q.score[a] >= q.score[b]
         /\ \A a, b \in Row : q.score[a] > q.score[b] => Better(q, a, b)
<1>1. \A r \in Row : /\ ShardOf(r) \in Int /\ SlotOf(r) \in Int
                     /\ q.score[r] \in Int /\ OrderKey(q, r) \in Int
                     /\ r = <<ShardOf(r), SlotOf(r)>>
  BY RowFacts
<1>2. \A a \in Row : ~Better(q, a, a)
  BY <1>1 DEF Better
<1>3. \A a, b \in Row : a = b \/ Better(q, a, b) \/ Better(q, b, a)
  <2> SUFFICES ASSUME NEW a \in Row, NEW b \in Row,
                      ~Better(q, a, b), ~Better(q, b, a)
               PROVE  a = b
    OBVIOUS
  <2>1. ShardOf(a) = ShardOf(b) /\ SlotOf(a) = SlotOf(b)
    BY <1>1 DEF Better
  <2> QED  BY <1>1, <2>1
<1>4. \A a, b, c \in Row : Better(q, a, b) /\ Better(q, b, c) => Better(q, a, c)
  BY <1>1 DEF Better
<1>5. \A a, b \in Row : Better(q, a, b) => q.score[a] >= q.score[b]
  BY <1>1 DEF Better
<1>6. \A a, b \in Row : q.score[a] > q.score[b] => Better(q, a, b)
  BY DEF Better
<1> QED  BY <1>2, <1>3, <1>4, <1>5, <1>6

\* There are finitely many rows.
LEMMA RowFinite == IsFiniteSet(Row)
<1>1. \A s \in Shard : IsFiniteSet({s} \X (1..ShardLen[s]))
  <2> SUFFICES ASSUME NEW s \in Shard PROVE IsFiniteSet({s} \X (1..ShardLen[s]))
    OBVIOUS
  <2>1. ShardLen[s] \in Int
    BY ShardAssumption
  <2>2. IsFiniteSet(1..ShardLen[s])
    BY <2>1, FS_Interval
  <2> QED  BY <2>2, FS_Singleton, FS_Product
<1>2. IsFiniteSet(Shard)
  BY ShardAssumption, FS_Interval DEF Shard
<1>3. IsFiniteSet({{s} \X (1..ShardLen[s]) : s \in Shard})
  <2> DEFINE T == {{s} \X (1..ShardLen[s]) : s \in Shard}
             f == [s \in Shard |-> {s} \X (1..ShardLen[s])]
  <2>1. f \in Surjection(Shard, T)
    BY DEF Surjection
  <2> QED  BY <1>2, <2>1, FS_Surjection
<1> QED  BY <1>1, <1>3, FS_UNION DEF Row

\* What the collector holds when nothing eligible can still displace it: H is
\* at most k eligible rows, and either it is full of rows better than all the
\* others, or there are no others.
Settled(q, H) ==
  /\ H \subseteq Eligible(q) /\ IsFiniteSet(H) /\ Cardinality(H) <= q.k
  /\ \A r \in Eligible(q) \ H :
       Cardinality(H) = q.k /\ \A h \in H : Better(q, h, r)

\* A settled heap is the k best rows, as the reference definition counts them.
LEMMA SettledIsTop ==
  ASSUME NEW q \in Query, NEW H, Settled(q, H)
  PROVE  H = TopRows(q)
<1> DEFINE E == Eligible(q)
           Above(r) == {b \in E : Better(q, b, r)}
<1>1. E \subseteq Row /\ IsFiniteSet(E) /\ q.k \in Nat
  BY RowFacts, RowFinite, FS_Subset
<1>2. \A r \in E : IsFiniteSet(Above(r)) /\ Cardinality(Above(r)) \in Nat
  BY <1>1, FS_Subset, FS_CardinalityType
<1>3. Cardinality(H) \in Nat /\ H \subseteq E
  BY FS_CardinalityType DEF Settled
<1>4. ASSUME NEW r \in H PROVE Cardinality(Above(r)) < q.k
  <2>1. Above(r) \subseteq H \ {r}
    <3> SUFFICES ASSUME NEW b \in E, Better(q, b, r)
                 PROVE  b \in H \ {r}
      OBVIOUS
    <3>1. b # r /\ ~Better(q, r, b)
      BY <1>1, <1>3, BetterOrder
    <3> QED  BY <3>1 DEF Settled
  <2>2. /\ IsFiniteSet(H \ {r})
        /\ Cardinality(H \ {r}) = Cardinality(H) - 1
    BY FS_RemoveElement DEF Settled
  <2>3. Cardinality(Above(r)) <= Cardinality(H \ {r})
    BY <2>1, <2>2, FS_Subset
  <2>4. Cardinality(H) <= q.k
    BY DEF Settled
  <2>5. Cardinality(Above(r)) \in Nat
    BY <1>2, <1>3
  <2> HIDE DEF E, Above
  <2> QED  BY <1>1, <1>3, <2>2, <2>3, <2>4, <2>5
<1>5. ASSUME NEW r \in E \ H PROVE ~(Cardinality(Above(r)) < q.k)
  <2>1. H \subseteq Above(r) /\ Cardinality(H) = q.k
    BY <1>3 DEF Settled
  <2>2. Cardinality(H) <= Cardinality(Above(r))
    BY <1>2, <2>1, FS_Subset
  <2>3. Cardinality(Above(r)) \in Nat
    BY <1>2
  <2> HIDE DEF E, Above
  <2> QED  BY <1>1, <2>1, <2>2, <2>3
<1> QED  BY <1>3, <1>4, <1>5 DEF TopRows

\* With a settled heap, the eligible rows that tie or beat its worst member w
\* are the rows fewer than k others outscore.
LEMMA SettledIsTied ==
  ASSUME NEW q \in Query, NEW H, Settled(q, H),
         NEW w \in H, \A h \in H \ {w} : Better(q, h, w)
  PROVE  {r \in Eligible(q) : q.score[r] >= q.score[w]} = TiedRows(q)
<1> DEFINE E == Eligible(q)
           Above(r) == {b \in E : q.score[b] > q.score[r]}
<1>1. /\ E \subseteq Row /\ IsFiniteSet(E) /\ q.k \in Nat
      /\ \A r \in E : q.score[r] \in Int
  BY RowFacts, RowFinite, FS_Subset
<1>2. \A r \in E : IsFiniteSet(Above(r)) /\ Cardinality(Above(r)) \in Nat
  BY <1>1, FS_Subset, FS_CardinalityType
<1>3. Cardinality(H) \in Nat /\ H \subseteq E
  BY FS_CardinalityType DEF Settled
<1>4. \A h \in H : q.score[h] >= q.score[w]
  BY <1>1, <1>3, BetterOrder
<1>5. ASSUME NEW r \in E, q.score[r] >= q.score[w]
      PROVE  Cardinality(Above(r)) < q.k
  <2>1. Above(r) \subseteq H \ {w}
    <3> SUFFICES ASSUME NEW b \in E, q.score[b] > q.score[r]
                 PROVE  b \in H \ {w}
      OBVIOUS
    <3>1. q.score[b] > q.score[w] /\ b # w
      BY <1>1, <1>3, <1>5
    <3>2. b \in Row /\ w \in Row /\ Better(q, b, w) /\ ~Better(q, w, b)
      BY <1>1, <1>3, <3>1, BetterOrder
    <3> QED  BY <3>1, <3>2 DEF Settled
  <2>2. /\ IsFiniteSet(H \ {w})
        /\ Cardinality(H \ {w}) = Cardinality(H) - 1
    BY FS_RemoveElement DEF Settled
  <2>3. Cardinality(Above(r)) <= Cardinality(H \ {w})
    BY <2>1, <2>2, FS_Subset
  <2>4. Cardinality(H) <= q.k
    BY DEF Settled
  <2>5. Cardinality(Above(r)) \in Nat
    BY <1>2, <1>5
  <2> HIDE DEF E, Above
  <2> QED  BY <1>1, <1>3, <2>2, <2>3, <2>4, <2>5
<1>6. ASSUME NEW r \in E, ~(q.score[r] >= q.score[w])
      PROVE  ~(Cardinality(Above(r)) < q.k)
  <2>1. H \subseteq Above(r)
    BY <1>1, <1>3, <1>4, <1>6
  <2>2. r \notin H
    BY <1>4, <1>6
  <2>3. Cardinality(H) = q.k
    BY <2>2 DEF Settled
  <2>4. Cardinality(H) <= Cardinality(Above(r))
    BY <1>2, <2>1, FS_Subset
  <2>5. Cardinality(Above(r)) \in Nat
    BY <1>2
  <2> HIDE DEF E, Above
  <2> QED  BY <1>1, <2>3, <2>4, <2>5
<1> QED  BY <1>5, <1>6 DEF TiedRows

\* When no row is eligible both rankings are empty.
LEMMA NoneEligible ==
  ASSUME NEW q \in Query, Eligible(q) = {}
  PROVE  ExactRows(q) = {}
  BY DEF ExactRows, TopRows, TiedRows

================================================================================
