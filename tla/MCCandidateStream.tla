--------------------------- MODULE MCCandidateStream ---------------------------
(***************************************************************************)
(* TLC instances of CandidateStream: three rows on two shards, and lists   *)
(* of bitmaps on both sides of every check.                                *)
(***************************************************************************)
EXTENDS CandidateStream

MCShardLen21 == <<2, 1>>

\* Labels 0 and 8 lie on either side of a byte, 9 is the last one a bitmap can
\* name below MaxLabel = 10.
MCLabel == [r \in Row |-> IF r = <<1, 1>> THEN 0 ELSE IF r = <<1, 2>> THEN 8 ELSE 9]

Bits(base, count, bytes) == [base |-> base, count |-> count, bits |-> bytes]
MCBitmapLists ==
  { <<>>,
    <<Bits(0, 9, <<{3}, {0}>>)>>,                   \* two bytes
    <<Bits(0, 8, <<{0}>>), Bits(8, 2, <<{1}>>)>>,      \* touching
    <<Bits(0, 9, <<{0}, {0}>>), Bits(8, 2, <<{1}>>)>>, \* overlapping by one
    <<Bits(8, 1, <<{0, 1}>>)>>,                        \* a bit past the count
    <<Bits(0, 9, <<{0}>>)>>,                           \* a byte missing
    <<Bits(9, 2, <<{0}>>)>>,                           \* past the last label
    <<Bits(0, 0, <<>>)>> }                             \* empty

\* One row lies below the floor 2 a caller may raise to, two lie on it.
MCScore == [r \in Row |-> IF r = <<1, 1>> THEN 1 ELSE 2]

Start(filtered, floor) ==
  [score |-> MCScore, label |-> MCLabel, filtered |-> filtered, floor |-> floor]
MCStarts == {Start(TRUE, 0), Start(FALSE, 2)}

================================================================================
