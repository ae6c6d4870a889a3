------------------------------ MODULE MCShardStore ------------------------------
(***************************************************************************)
(* TLC instances of ShardStore.                                            *)
(***************************************************************************)
EXTENDS ShardStore

================================================================================
