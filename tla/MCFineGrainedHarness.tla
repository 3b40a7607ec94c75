------------------------ MODULE MCFineGrainedHarness ------------------------
(* Small instances of FineGrainedHarness for TLC. *)
EXTENDS FineGrainedHarness

I(k) == [op |-> "INSERT", key |-> k]
S(k) == [op |-> "SEARCH", key |-> k]
D(k) == [op |-> "DELETE", key |-> k]

(* Nodes with two children one above the other, and replacements that are  *)
(* found at once, further down, and with a child; and a single node.       *)
EndFiles == {<<4>>, <<4, 2, 8, 1, 3, 6, 9, 7>>}

(* The last node is deleted first or last, and deletes in a row that the   *)
(* harness checks.                                                         *)
EndTraces ==
    {<<D(4), D(2), S(5), D(4)>>, <<D(9), D(6), I(5), D(4)>>,
     <<D(4), D(6), D(8), D(2)>>, <<D(2), D(4), D(3), S(7), D(7)>>,
     <<D(8), D(4), D(9), D(1), D(6)>>}
=============================================================================
