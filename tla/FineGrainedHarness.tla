------------------------- MODULE FineGrainedHarness -------------------------
(* The harness and the fine-grained tree: check_valid_FG_Tree(). *)
EXTENDS FineGrainedBST

VARIABLES
    perform_correctness,    \* is the check asked for?
    tree_values_correctness \* what it expects to find

harness == <<perform_correctness, tree_values_correctness>>

H == INSTANCE HarnessCheck

HarnessInit ==
    /\ Init
    /\ perform_correctness = H!Checkable(create, queue)
    /\ tree_values_correctness =
          IF perform_correctness THEN H!Expected(create, queue) ELSE <<>>
HarnessNext == Next /\ UNCHANGED harness
HarnessSpec == HarnessInit /\ [][HarnessNext]_<<vars, harness>> /\ Fairness

populate_tree_values_FG == [i \in DOMAIN InOrder |-> node[InOrder[i]].value]

(* The harness has nothing to say against the tree: its values are in      *)
(* order and are those of create_file without those deleted, although each *)
(* delete moved values that others were on their way to.                   *)
HarnessApproves ==
    Joined /\ perform_correctness =>
        LET vector == tree_values_correctness
            values == populate_tree_values_FG
        IN  H!AllDeleted(vector, values) /\ H!Verdict(vector, values) = "correct"
=============================================================================
