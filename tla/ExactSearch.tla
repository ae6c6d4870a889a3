------------------------------ MODULE ExactSearch ------------------------------
(***************************************************************************)
(* What a collection search promises, whatever the shards, the floors and  *)
(* the network do: one answer, which is the exact ranking or an error, and *)
(* never a partial ranking.                                                *)
(***************************************************************************)
EXTENDS Ranking

VARIABLES
  query,    \* the query being answered
  answer    \* [kind |-> "pending" | "rows" | "error", rows |-> the ranking]

Pending == [kind |-> "pending", rows |-> {}]
Failed == [kind |-> "error", rows |-> {}]
Ranked(R) == [kind |-> "rows", rows |-> R]

Init ==
  /\ query \in Query
  /\ answer = Pending

Reply ==
  /\ answer = Pending
  /\ answer' \in {Ranked(ExactRows(query)), Failed}
  /\ UNCHANGED query

Spec == Init /\ [][Reply]_<<query, answer>>

================================================================================
