-------------------------- MODULE MCFineGrainedSet --------------------------
(* Small instances of FineGrainedSet for TLC. *)
EXTENDS FineGrainedSet, TLC

I(k) == [op |-> "INSERT", key |-> k]
S(k) == [op |-> "SEARCH", key |-> k]
D(k) == [op |-> "DELETE", key |-> k]

Symmetry == Permutations(Worker)

(* A tree of one node, which is deleted.  The node to take the place of 4  *)
(* is found at once in the second tree, to the right; in the other two it  *)
(* is looked for down two more nodes, on either side.                      *)
TreeFiles == {<<4>>, <<4, 2, 6, 8>>, <<2, 1, 8, 6, 4, 5>>, <<9, 2, 4, 6, 5>>}

(* Deletes one above the other, a delete that takes its replacement from   *)
(* where another one works or an insert goes, and a key that moves while   *)
(* it is searched for, inserted or deleted.                                *)
TreeTraces ==
    {<<D(4), D(2), I(3)>>, <<D(2), D(4), I(7)>>, <<D(9), D(6), S(5)>>, <<D(9), I(7), D(2)>>,
     <<D(1), D(2), D(4)>>, <<I(4), D(4), S(4)>>, <<D(2), I(3), S(3), D(4)>>,
     <<D(9), D(2), D(4), I(4), S(4)>>, <<D(2), D(4), D(8), I(2), D(1)>>}
=============================================================================
