-------------------------- MODULE MCLockFreeTree ---------------------------
(* Small instances of LockFreeHistory for TLC. *)
EXTENDS LockFreeHistory, TLC

I(k) == [op |-> "INSERT", key |-> k]
S(k) == [op |-> "SEARCH", key |-> k]
D(k) == [op |-> "DELETE", key |-> k]

Symmetry == Permutations(Worker)

(* Initial trees in which 2 has two children.  The next larger key is at   *)
(* its right child in the first, below that in the second.                 *)
SmallTree == <<2, 1, 4>>
LeanTree == <<2, 1, 4, 3>>

TreeFiles == {SmallTree, LeanTree}
LeanFile == {LeanTree}

(* A delete of 2 relocates the next larger key, while a key that changes   *)
(* what is next is inserted, 2 itself is deleted by another thread and     *)
(* inserted again, or the node of the key or the one above it is deleted   *)
(* and gains a child.                                                      *)
RelocationTraces ==
    {<<D(2), I(3), D(4)>>, <<D(2), D(2), I(2)>>, <<D(2), D(4), I(5)>>}

(* Two deletes of nodes with fewer than two children, one below the other. *)
WalkTraces == {<<D(4), D(1)>>}

(* A relocation of 3 that fails because 4, below its dest, is unlinked.    *)
ReuseTraces == {<<D(2), D(4), I(3)>>}
=============================================================================
