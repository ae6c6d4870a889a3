------------------------------- MODULE WholeMove -------------------------------
(***************************************************************************)
(* What Split and Join promise of the rows they move: indexes come into    *)
(* being one after another, each whole and exactly as planned, and the     *)
(* operation succeeds only when all of them have.  One that fails may      *)
(* leave indexes behind that nothing refers to.                            *)
(***************************************************************************)
EXTENDS Naturals, SequencesExt

VARIABLES
  all,       \* every row of the sources, when the operation looked
  planned,   \* the rows of each index to make, in order
  made,      \* the rows of the indexes made
  result     \* "pending", "ok" or "error"

Init ==
  /\ planned = <<>> /\ made = <<>>
  /\ result = "pending"

\* The operation looks at its sources and assigns the rows to the new indexes,
\* once, before any moves.
Assign ==
  /\ planned = <<>> /\ result = "pending"
  /\ planned' # <<>>
  /\ UNCHANGED <<made, result>>

MakeNext ==
  /\ Len(made) < Len(planned)
  /\ made' = Append(made, planned[Len(made) + 1])
  /\ UNCHANGED <<all, planned, result>>

Succeed ==
  /\ result = "pending"
  /\ planned # <<>> /\ made = planned /\ FlattenSeq(made) = all
  /\ result' = "ok"
  /\ UNCHANGED <<all, planned, made>>

Fail ==
  /\ result = "pending"
  /\ result' = "error"
  /\ planned # <<>> => UNCHANGED all
  /\ UNCHANGED <<planned, made>>

Next == Assign \/ MakeNext \/ Succeed \/ Fail
Spec == Init /\ [][Next]_<<all, planned, made, result>>

================================================================================
