------------------------------- MODULE MCRowMove -------------------------------
(***************************************************************************)
(* TLC instances of RowMove: a split of four rows with even, uneven, empty *)
(* and wrong counts, and a join with an empty source.                      *)
(***************************************************************************)
EXTENDS RowMove

MCSource == {1, 2, 3}
MCFirstLen == <<4, 0, 1>>

Split(targets, counts) == [kind |-> "split", targets |-> targets, counts |-> counts]
MCRequests ==
  { Split(3, <<>>), Split(2, <<3, 1>>), Split(2, <<0, 4>>), Split(2, <<3, 2>>),
    Split(1, <<2, 2>>), Split(0, <<>>),
    Split(3, <<4, 8, 8>>), Split(2, <<15, 5>>),   \* add up to 4 modulo Word
    [kind |-> "join", targets |-> 1, counts |-> <<>>] }

================================================================================
