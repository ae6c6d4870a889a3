------------------------------- MODULE MCTopology -------------------------------
(***************************************************************************)
(* TLC instances of Topology.  Startup rows are <<shard, slot>>.           *)
(***************************************************************************)
EXTENDS Topology

CONSTANTS n1, n2, n3, n4

MCOne == <<n1>>
MCTwo == <<n1, n2>>
MCSpare2 == <<n2>>
MCSpare34 == <<n3, n4>>
MCNone == <<>>

\* Rows of each shard.
MCRows1 == << << <<1, 1>> >> >>
MCRows2 == << << <<1, 1>>, <<1, 2>> >> >>
MCRows23 ==
  << << <<1, 1>>, <<1, 2>> >>, << <<2, 1>>, <<2, 2>>, <<2, 3>> >> >>
MCRows00 == << <<>>, <<>> >>

================================================================================
