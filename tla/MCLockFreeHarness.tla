------------------------- MODULE MCLockFreeHarness --------------------------
(* Small instances of LockFreeHarness for TLC. *)
EXTENDS LockFreeHarness

I(k) == [op |-> "INSERT", key |-> k]
S(k) == [op |-> "SEARCH", key |-> k]
D(k) == [op |-> "DELETE", key |-> k]

(* Initial trees in which 2 has two children.  The next larger key is at   *)
(* its right child in the first, below that in the second.                 *)
TreeFiles == {<<2, 1, 4>>, <<2, 1, 4, 3>>}

(* Deletes that meet in the tree, at the logical root too, and an insert   *)
(* and a search that must help them; deletes that the harness checks.      *)
ProgressTraces ==
    {<<D(2), I(3), D(4)>>, <<D(2), D(2), I(2)>>, <<D(1), D(2), S(4), D(4)>>,
     <<D(2), D(3), S(1)>>, <<D(4), D(2), D(1)>>}
=============================================================================
