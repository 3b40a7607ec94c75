---------------------------- MODULE HarnessCheck ----------------------------
(***************************************************************************)
(* What test_harness.cpp, run with --correctness=1, expects to find when   *)
(* the threads have been joined, and what it says of the tree it finds.    *)
(*                                                                         *)
(* Only deletes in the test file are taken into account: the check is for  *)
(* runs that start with a particular tree and delete from it.              *)
(***************************************************************************)
EXTENDS Integers, Sequences
LOCAL INSTANCE SequencesExt

(* vector when main() has read w: erase(find()), if w is a delete. *)
ReadWork(vector, w) == IF w.op = "DELETE" THEN RemoveFirst(vector, w.key) ELSE vector

(* tree_values_correctness, filled and read by main() alone, when the work *)
(* queue is full and the first worker is created.                          *)
Expected(created, trace) == FoldLeft(ReadWork, created, trace)

(* The check can be asked for: no value is inserted that the vector will   *)
(* not have, each one deleted is in it (erase(end()) is undefined), and    *)
(* none is below the -1 of base_root.                                      *)
Checkable(created, trace) ==
    /\ \A i \in DOMAIN created : created[i] > -1
    /\ \A i \in DOMAIN trace :
          /\ trace[i].op # "INSERT"
          /\ trace[i].op = "DELETE" =>
                Contains(Expected(created, SubSeq(trace, 1, i - 1)), trace[i].key)

InOrder(values) == \A i \in 1 .. Len(values) - 1 : values[i] < values[i + 1]

(* "All elements were not correctly deleted", if not. *)
AllDeleted(vector, values) == Len(vector) = Len(values)

(* The walk ends at the first value out of order, and then asserts; else   *)
(* it asserts if some value was not in the vector.                         *)
Verdict(vector, values) ==
    IF ~InOrder(values) THEN "NOT VALID"
    ELSE IF ToSet(values) \subseteq ToSet(vector) THEN "correct" ELSE "incorrect"
=============================================================================
