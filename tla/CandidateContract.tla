--------------------------- MODULE CandidateContract ---------------------------
(***************************************************************************)
(* What coordinator.proto promises the caller of StreamCandidates: batches *)
(* of candidates that were never sent before and are never empty, then one *)
(* terminal message.  A completion counts what was sent; a successful one  *)
(* is sent only when every row the stream owed has been.                   *)
(***************************************************************************)
EXTENDS Naturals, FiniteSets, Sequences

CONSTANT Row

VARIABLES
  admitted,   \* rows the caller's filter and initial floor let through
  owed,       \* those at or above the highest floor the caller has raised
  sent        \* the response stream so far

Message(kind, rows, emitted) == [kind |-> kind, rows |-> rows, emitted |-> emitted]
Batch(R) == Message("batch", R, 0)

Delivered == UNION {sent[i].rows : i \in DOMAIN sent}
Ended == \E i \in DOMAIN sent : sent[i].kind # "batch"

Init ==
  /\ admitted \in SUBSET Row
  /\ owed \in SUBSET admitted
  /\ sent = <<>>

Deliver ==
  /\ ~Ended
  /\ \E R \in SUBSET (admitted \ Delivered) :
       R # {} /\ sent' = Append(sent, Batch(R))
  /\ UNCHANGED <<admitted, owed>>

Raise ==
  /\ ~Ended
  /\ owed' \in SUBSET owed
  /\ UNCHANGED <<admitted, sent>>

Complete ==
  /\ ~Ended
  /\ owed \subseteq Delivered
  /\ sent' = Append(sent, Message("complete", {}, Cardinality(Delivered)))
  /\ UNCHANGED <<admitted, owed>>

GiveUp ==
  /\ ~Ended
  /\ sent' = Append(sent, Message("incomplete", {}, Cardinality(Delivered)))
  /\ UNCHANGED <<admitted, owed>>

\* A stream that was not accepted ends in a status, before any candidate.
Refuse ==
  /\ sent = <<>>
  /\ sent' = <<Message("status", {}, 0)>>
  /\ UNCHANGED <<admitted, owed>>

Next == Deliver \/ Raise \/ Complete \/ GiveUp \/ Refuse
Spec == Init /\ [][Next]_<<admitted, owed, sent>>

================================================================================
