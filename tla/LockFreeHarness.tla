-------------------------- MODULE LockFreeHarness ---------------------------
(* The harness and the lock-free tree: check_valid_LF_Tree(). *)
EXTENDS LockFreeTree

VARIABLES
    perform_correctness,    \* is the check asked for?
    tree_values_correctness \* what it expects to find

harness == <<perform_correctness, tree_values_correctness>>

H == INSTANCE HarnessCheck

HarnessInit ==
    /\ Init
    /\ perform_correctness = H!Checkable(create, queue)
    /\ tree_values_correctness =
          IF perform_correctness THEN H!Expected(create, queue) ELSE <<>>
HarnessNext == Next /\ UNCHANGED harness
HarnessSpec == HarnessInit /\ [][HarnessNext]_<<vars, harness>> /\ WF_vars(Next)

(* The walk meets base_root first, whose key is not looked for. *)
check_valid_LF_Tree ==
    H!Verdict(<<-1>> \o tree_values_correctness, populate_tree_values_LF)

(* No assertion of the harness fires: whatever the threads have done to    *)
(* each other's deletes, the values are in order, and none is left that    *)
(* should have been deleted.  (Values may be missed: HarnessFindsAll.)     *)
HarnessApproves == Joined /\ perform_correctness => check_valid_LF_Tree = "correct"
=============================================================================
