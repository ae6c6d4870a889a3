------------------------------ MODULE DurableShard ------------------------------
(***************************************************************************)
(* What a durable shard promises its clients (docs/architecture.md,        *)
(* "Durable shard identity"): the rows a restart would restore only grow,  *)
(* a retry-safe operation is among them at most once, and it is            *)
(* acknowledged only when it is among them.                                *)
(***************************************************************************)
EXTENDS Naturals, FiniteSets, SequencesExt

CONSTANTS
  Op,      \* retry-safe operations, named by operation_id
  Plain    \* stands for an Add without operation_id

VARIABLES
  durable,   \* the rows a restart would restore, each named by its Add
  acked      \* the operations acknowledged to their client

Once(rows) ==
  \A op \in Op : Cardinality({i \in DOMAIN rows : rows[i] = op}) <= 1

Init == durable = <<>> /\ acked = {}

Activate ==
  /\ IsPrefix(durable, durable')
  /\ Once(durable')
  /\ UNCHANGED acked

Acknowledge ==
  /\ acked' \subseteq Op /\ acked \subseteq acked'
  /\ acked' \subseteq ToSet(durable)
  /\ UNCHANGED durable

Spec == Init /\ [][Activate \/ Acknowledge]_<<durable, acked>>

================================================================================
