---------------------------- MODULE MCScanAdmission ----------------------------
(***************************************************************************)
(* TLC instances of ScanAdmission: two requests and a unary search over    *)
(* two nodes with one permit each.                                         *)
(***************************************************************************)
EXTENDS ScanAdmission

MCNode == {1, 2}
MCSlots == [n \in MCNode |-> 1]
MCRequest == {"first", "second"}
MCQuery == {1, 2, 3}
MCRequestOf == <<"first", "first", "second">>
MCRoute == [r \in MCRequest |-> <<1, 2>>]
MCDirect == {"unary"}
MCDirectNode == [d \in MCDirect |-> 2]

================================================================================
