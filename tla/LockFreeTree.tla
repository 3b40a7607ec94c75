--------------------------- MODULE LockFreeTree ----------------------------
(***************************************************************************)
(* The tree that LockFreeBST builds, seen as a whole: the set of keys it   *)
(* stands for while operations are under way in it, what must be true of   *)
(* its shape, and what the harness finds in it when the threads are done.  *)
(***************************************************************************)
EXTENDS LockFreeBST, FiniteSets, Functions

-----------------------------------------------------------------------------
(***************************************************************************)
(* The tree as the operations that have been published will leave it.      *)
(***************************************************************************)
Has(n, flag) == GET_FLAG(node[n].op) = flag
PendingCAS(n) == cas[UNFLAG(node[n].op)]
PendingRelocation(n) == reloc[UNFLAG(node[n].op)]

Child(n, is_left) ==
    IF Has(n, "CHILDCAS") /\ PendingCAS(n).is_left = is_left
    THEN PendingCAS(n).update
    ELSE ChildOf(node[n], is_left)

Relocated(n) == Has(n, "RELOCATE") /\ PendingRelocation(n).state = "SUCCESSFUL"

(* Marked, or its key has been given to the dest of a relocation. *)
Dead(n) == Has(n, "MARK") \/ (Relocated(n) /\ PendingRelocation(n).dest # n)

CurrentKey(n) ==
    IF Relocated(n) /\ PendingRelocation(n).dest = n
    THEN PendingRelocation(n).replace_key ELSE node[n].key

(* What a recursive walk from base_root meets that follows child[n][TRUE]  *)
(* and child[n][FALSE] at n and takes here[n] in between, down to a depth  *)
(* that no tree of these nodes exceeds.                                    *)
Walk(child, here) ==
    LET walk[depth \in 0 .. Cardinality(DOMAIN node)] ==
          [n \in DOMAIN node |->
             LET side(is_left) ==
                   IF IS_NULL(child[n][is_left]) \/ depth = 0 THEN <<>>
                   ELSE walk[depth - 1][child[n][is_left].node]
             IN  side(TRUE) \o here[n] \o side(FALSE)]
    IN  walk[Cardinality(DOMAIN node)][base_root]

(* The nodes that are linked, in order. *)
InOrder ==
    Walk([n \in DOMAIN node |-> [is_left \in BOOLEAN |-> Child(n, is_left)]],
         [n \in DOMAIN node |-> <<n>>])

Live(n) == n # base_root /\ ~Dead(n)

(* The keys that are logically in the tree. *)
AbsSet == {CurrentKey(n) : n \in {m \in Range(InOrder) : Live(m)}}

-----------------------------------------------------------------------------
(***************************************************************************)
(* The shape of the tree.                                                  *)
(***************************************************************************)
(* In order, the keys of the live nodes increase strictly at every moment: *)
(* it is a search tree without duplicates (check_valid_LF_Tree), although  *)
(* removes move keys upwards while other threads search and insert.        *)
SearchOrder ==
    LET walk == InOrder
    IN  \A i, j \in DOMAIN walk :
          i < j /\ Live(walk[i]) /\ Live(walk[j]) => CurrentKey(walk[i]) < CurrentKey(walk[j])

(* A node leaves the tree only when it is marked: no swing of a child      *)
(* pointer, late or stale, takes a node or a subtree with it.              *)
UnlinkedAreMarked ==
    LET linked == Range(InOrder)
    IN  \A n \in Node : n \in linked \/ Has(n, "MARK")

(* A marked node has a child pointer that is null, so that unlinking it    *)
(* can keep all that is below: its children were read before it was        *)
(* marked, and an insert may have come in between.                         *)
MarkedHasSpareChild ==
    \A n \in Node : Has(n, "MARK") => IS_NULL(node[n].left) \/ IS_NULL(node[n].right)

(* All who help a relocation act on the same outcome: whoever goes on to   *)
(* replace the key does so when the shared state says SUCCESSFUL, though   *)
(* helpRelocate ignores whether its own CAS of the state succeeded, and    *)
(* whoever releases the replaced node instead when it says FAILED.         *)
OneOutcome ==
    \A t \in Thread :
        LET won == loc[t].seen_state = "SUCCESSFUL"
            state == reloc[loc[t].reloc_op].state
        IN  /\ \/ pc[t] \in {"reloc_key", "reloc_clear"}
               \/ pc[t] = "reloc_curr" /\ won
               => state = "SUCCESSFUL"
            /\ pc[t] = "reloc_curr" /\ ~won => state = "FAILED"

(* In order, c comes right after d. *)
Follows(d, c) ==
    LET walk == InOrder
    IN  \E i \in 1 .. Len(walk) - 1 : walk[i] = d /\ walk[i + 1] = c

(* The key that a remove() moves up is the next larger one.  The second    *)
(* find() ends below the node it started from, at the one that follows it  *)
(* as long as neither has changed since its op was read; and so it still   *)
(* is, whatever others insert, unlink and relocate, when the relocation    *)
(* has been published and its outcome is open.                             *)
ReplaceIsNext ==
    /\ \A t \in Thread :
          LET l == loc[t]
          IN  pc[t] \in {"rem_key", "rem_reloc"} =>
                 /\ l.curr # l.auxRoot
                 /\ node[l.auxRoot].op = l.auxRoot_op /\ node[l.curr].op = l.curr_op
                       => Follows(l.auxRoot, l.curr)
    /\ \A a \in DOMAIN reloc, c \in Node :
          LET o == reloc[a]
              published == SET_FLAG(OpAt(a), "RELOCATE")
          IN  /\ o.state = "ONGOING" /\ c # o.dest /\ node[c].op = published
              /\ node[o.dest].op \in {o.dest_op, published}
              => Follows(o.dest, c)

(* When the threads have been joined every operation has been finished:    *)
(* only marks may be left in the tree.                                     *)
QuiescentClean ==
    Joined => \A n \in Range(InOrder) : ~Has(n, "CHILDCAS") /\ ~Has(n, "RELOCATE")

(* The key of a node is only ever replaced with a larger one ("the next    *)
(* larger value"), also by the helpers of a relocation that come late.     *)
KeysGrow == [][\A n \in DOMAIN node : node'[n].key >= node[n].key]_vars

(* A marked node never changes again, neither its op nor its children: a   *)
(* node inserted below it would be lost when it is unlinked.               *)
MarkedFrozen == [][\A n \in DOMAIN node : Has(n, "MARK") => node'[n] = node[n]]_vars

-----------------------------------------------------------------------------
(***************************************************************************)
(* check_valid_LF_Tree(): the values that a recursive walk meets when the  *)
(* threads have been joined.  It turns round at a marked node.             *)
(***************************************************************************)
populate_tree_values_LF ==
    LET TurnsRound(n) == Has(n, "MARK")
    IN  Walk([n \in DOMAIN node |-> [is_left \in BOOLEAN |->
                IF TurnsRound(n) THEN SET_NULL(NoNode) ELSE ChildOf(node[n], is_left)]],
             [n \in DOMAIN node |-> IF TurnsRound(n) THEN <<>> ELSE <<node[n].key>>])

(* The harness asserts that the values it met increase ("Tree is not in    *)
(* order!"), after deletes and inserts of any threads.                     *)
HarnessFindsOrder ==
    Joined => LET values == populate_tree_values_LF
              IN  \A i \in 1..Len(values) - 1 : values[i] < values[i + 1]

(* The harness expects to meet every value that the operations have left   *)
(* in the tree, and the -1 of base_root.                                   *)
HarnessFindsAll == Joined => Range(populate_tree_values_LF) = AbsSet \cup {-1}

(***************************************************************************)
(* Progress.                                                               *)
(***************************************************************************)
(* Every thread is joined whatever the schedule, as long as some thread    *)
(* runs: no thread ever loops until another one, which may have been       *)
(* stopped anywhere, has done something.  All that a stopped thread has    *)
(* begun can be finished for it.                                           *)
LockFree == <>Joined
=============================================================================
