-------------------------------- MODULE Ranking --------------------------------
(***************************************************************************)
(* The rows of a sharded collection, the order in which the coordinator    *)
(* ranks them, and the answer an exact search owes its caller.  No state:  *)
(* ExactSearch and StreamQuery are both written over these definitions.    *)
(*                                                                         *)
(* A row is <<shard_rank, slot>>.  A query is a record of everything one   *)
(* search fixes when it starts; scores stand for f32 values compared by    *)
(* total_cmp (NaN is refused at the boundary), and "no initial floor" is   *)
(* any integer below every score.                                          *)
(***************************************************************************)
EXTENDS Integers, FiniteSets

CONSTANTS
  NumShards,   \* shards of the pinned collection
  ShardLen,    \* ShardLen[s]: rows held by shard s
  Query        \* the queries that may be asked

Shard == 1..NumShards
Row == UNION {{s} \X (1..ShardLen[s]) : s \in Shard}

ShardOf(r) == r[1]
SlotOf(r) == r[2]

ASSUME ShardAssumption ==
  /\ NumShards \in Nat \ {0}
  /\ ShardLen \in [Shard -> Nat]

ASSUME QueryAssumption ==
  \A q \in Query :
    q \in [score        : [Row -> Int],
           label        : [Row -> Int],
           k            : Nat \ {0},
           labelOrder   : BOOLEAN,
           tieComplete  : BOOLEAN,
           initialFloor : Int,
           allowed      : SUBSET Row]

\* label_order_key: the stable label when the caller asked for label order,
\* else the same None for every candidate.
OrderKey(q, r) == IF q.labelOrder THEN q.label[r] ELSE 0

\* HeapCandidate's Ord, where the lesser candidate is the better one: higher
\* score, then smaller label key, then earlier shard, then smaller slot.
Better(q, a, b) ==
  \/ q.score[a] > q.score[b]
  \/ /\ q.score[a] = q.score[b]
     /\ \/ OrderKey(q, a) < OrderKey(q, b)
        \/ /\ OrderKey(q, a) = OrderKey(q, b)
           /\ \/ ShardOf(a) < ShardOf(b)
              \/ ShardOf(a) = ShardOf(b) /\ SlotOf(a) < SlotOf(b)

\* The rows a search may return: admitted by the label filter, and at or
\* above the caller's inclusive initial floor.
Eligible(q) == {r \in q.allowed : q.score[r] >= q.initialFloor}

\* The k best eligible rows, by counting.
TopRows(q) ==
  {r \in Eligible(q) :
     Cardinality({b \in Eligible(q) : Better(q, b, r)}) < q.k}

\* Every eligible row whose score ties or beats the k-th best score.
TiedRows(q) ==
  {r \in Eligible(q) :
     Cardinality({b \in Eligible(q) : q.score[b] > q.score[r]}) < q.k}

\* The rows the coordinator promises (coordinator.proto, CollectionSearch).
ExactRows(q) == IF q.tieComplete THEN TiedRows(q) ELSE TopRows(q)

================================================================================
