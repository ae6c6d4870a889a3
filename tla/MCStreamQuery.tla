----------------------------- MODULE MCStreamQuery -----------------------------
(***************************************************************************)
(* TLC instances of StreamQuery.  Slots are labelled in the reverse of     *)
(* their order, so that label order and historical shard/slot order rank   *)
(* tied rows differently.                                                  *)
(***************************************************************************)
EXTENDS StreamQuery

CONSTANT
  Scores     \* the scores rows may have

MCShardLen21 == <<2, 1>>

Asked(ks, orders, keepTies, floors, masks) ==
  [score        : [Row -> Scores],
   label        : {[r \in Row |-> 10 - 3 * ShardOf(r) - SlotOf(r)]},
   k            : ks,
   labelOrder   : orders,
   tieComplete  : keepTies,
   initialFloor : floors,
   allowed      : masks]

\* The best two in either order, ties kept or not; and the best one in one of
\* these ways, of all rows, or above an initial floor with a label filter that
\* leaves out no row, one, or all.
MCQuery ==
  Asked({2}, BOOLEAN, BOOLEAN, {0}, {Row})
    \union Asked({1}, {TRUE}, {TRUE}, {0}, {Row})
    \union Asked({1}, {TRUE}, {TRUE}, {2}, {Row, {}} \union {Row \ {r} : r \in Row})

================================================================================
