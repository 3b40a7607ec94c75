-------------------------- MODULE MCHazardPointers --------------------------
(* Small instances of HazardPointers for TLC. *)
EXTENDS HazardPointers

I(k) == [op |-> "INSERT", key |-> k]
S(k) == [op |-> "SEARCH", key |-> k]
D(k) == [op |-> "DELETE", key |-> k]

(* Deletes that retire two nodes and a third, and an insert meanwhile where *)
(* no node has been: hp_twice is about inserts where one has.              *)
LeanFile == {<<2, 1, 4, 3>>}
DeleteTraces == {<<D(2), D(1), D(4)>>, <<D(4), D(3), S(3)>>, <<D(1), D(3), I(5)>>}

(* Eight leaves and what is above them. *)
BushyFile == {<<8, 4, 2, 1, 3, 6, 5, 7, 12, 10, 9, 11, 14, 13, 15>>}
AllLeaves == [i \in 1 .. 8 |-> D(2 * i - 1)]
ReinsertTraces == {AllLeaves \o [i \in 1 .. 8 |-> I(2 * i - 1)]}

(* A search on the right meets an insert and a delete there, and then      *)
(* there is a long delete at the end of a chain on the left.               *)
ChainFile == {[i \in 1 .. 8 |-> 9 - i]}
UnsafeTraces == {<<S(9), I(9), D(9), D(1)>>}
=============================================================================
