--------------------------- MODULE MCLockFreeSet ---------------------------
(* Small instances of LockFreeSet for TLC. *)
EXTENDS LockFreeSet, TLC

I(k) == [op |-> "INSERT", key |-> k]
S(k) == [op |-> "SEARCH", key |-> k]
D(k) == [op |-> "DELETE", key |-> k]

Symmetry == Permutations(Worker)

(* An initial tree in which 2 has two children, with the next larger key   *)
(* below its right child.                                                  *)
LeanTree == <<2, 1, 4, 3>>

LeanFile == {LeanTree}

(* A key is searched for while a delete of 2 relocates it past the search, *)
(* 2 is inserted meanwhile, or two deletes of 2 compete.                   *)
AnswerTraces == {<<D(2), S(3), I(2)>>, <<D(2), D(2), S(4)>>}
=============================================================================
