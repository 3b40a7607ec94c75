--------------------------- MODULE FineGrainedBST ---------------------------
(***************************************************************************)
(* The search tree of Fine_Grained_BST_Lock.cpp with a lock in each node,  *)
(* run by the worker threads of test_harness.cpp.                          *)
(*                                                                         *)
(* An action begins with the taking of a mutex and goes on until the next  *)
(* one that has to be waited for.  The fields of a node are accessed only  *)
(* by a thread that has its lock (LocksHeld), so what other threads do in  *)
(* the midst of an action makes no difference to it.                       *)
(***************************************************************************)
EXTENDS Integers, Sequences, FiniteSets, Functions

CONSTANTS
    Worker,      \* the threads of init_harness()
    Main,        \* the thread that builds the initial tree
    CreateFiles, \* the possible contents of create_file: sequences of keys
    Traces,      \* the possible contents of test_file: sequences of work
    NoThread     \* nobody, as the owner of a mutex

Thread == Worker \cup {Main}
Work == [op : {"INSERT", "SEARCH", "DELETE"}, key : Int]

ASSUME ThreadAssumption == Main \notin Worker /\ NoThread \notin Thread
ASSUME FileAssumption == CreateFiles \subseteq Seq(Int) /\ Traces \subseteq Seq(Work)

NULL == 0
Side == {"left", "right"}
Opposite(side) == IF side = "left" THEN "right" ELSE "left"

VARIABLES
    node,      \* every FG_BST_Node that has been created, by address
    g_root,
    tree_lock, \* who has it
    freed,     \* the addresses of the nodes that have been freed
    create,    \* what is left of create_file
    queue,     \* what is left in the work queue
    pc,        \* what each thread waits for
    loc        \* its local variables

tree == <<node, g_root, tree_lock, freed>>
files == <<create, queue>>
vars == <<tree, files, pc, loc>>

(* Mutant: the mutex is not initialised. *)
MutNoMutexInit(val, parent) ==
    [value |-> val, left |-> NULL, right |-> NULL, parent |-> parent, lock |-> NULL]

(* A node and the owner of its lock. *)
createNode(val, parent) ==
    [value |-> val, left |-> NULL, right |-> NULL, parent |-> parent, lock |-> NoThread]

(***************************************************************************)
(* Local variables.  next is the node whose lock is waited for.  successor *)
(* stands for remove()'s predecessor too: what it does on the left is what *)
(* it does on the right with the sides exchanged, and side tells which.    *)
(***************************************************************************)
Locals(w) ==
    [work |-> w, root |-> NULL, next |-> NULL, to_be_deleted |-> NULL,
     side |-> "right", successor |-> NULL, parent |-> NULL, answer |-> FALSE]

NoWork == [op |-> "SEARCH", key |-> 0]

Init ==
    /\ node = <<>> /\ g_root = NULL /\ tree_lock = NoThread /\ freed = {}
    /\ create \in CreateFiles
    /\ queue \in Traces
    /\ pc = [t \in Thread |-> "idle"]
    /\ loc = [t \in Thread |-> Locals(NoWork)]

-----------------------------------------------------------------------------
Goto(t, label) == pc' = [pc EXCEPT ![t] = label]
SetLocals(t, l) == loc' = [loc EXCEPT ![t] = l]

Answer(t, b) ==
    Goto(t, "return") /\ SetLocals(t, [Locals(loc[t].work) EXCEPT !.answer = b])

(* Heaps in which a lock has been taken or given back. *)
Locked(h, a, t) == [h EXCEPT ![a].lock = t]
Unlocked(h, a) == [h EXCEPT ![a].lock = NoThread]

(* Mutant: a child is locked after its parent has been unlocked. *)
MutWaitWithoutParent(h, a) == Unlocked(h, a)

(* While the lock of a child is waited for, that of a is kept. *)
Waiting(h, a) == h

(* pthread_mutex_lock(&next->lock) is what t does next. *)
LockNext(t, label, l, next) ==
    Goto(t, label) /\ SetLocals(t, [l EXCEPT !.next = next])

CanLock(a) == node[a].lock = NoThread

(* Mutant: the new child has no parent. *)
MutNoParent(h, a, p) == h

(* a gets the parent p. *)
Adopted(h, a, p) == [h EXCEPT ![a].parent = p]

-----------------------------------------------------------------------------
(***************************************************************************)
(* The threads.                                                            *)
(***************************************************************************)
Created == create = <<>> /\ pc[Main] = "idle"

CreateTree ==
    /\ pc[Main] = "idle" /\ create # <<>>
    /\ create' = Tail(create)
    /\ Goto(Main, "tree")
    /\ SetLocals(Main, Locals([op |-> "INSERT", key |-> Head(create)]))
    /\ UNCHANGED <<tree, queue>>

TakeWork(t) ==
    /\ t # Main /\ pc[t] = "idle" /\ Created /\ queue # <<>>
    /\ queue' = Tail(queue)
    /\ Goto(t, "tree")
    /\ SetLocals(t, Locals(Head(queue)))
    /\ UNCHANGED <<tree, create>>

Return(t) ==
    /\ pc[t] = "return"
    /\ Goto(t, "idle")
    /\ SetLocals(t, Locals(NoWork))
    /\ UNCHANGED <<tree, files>>

-----------------------------------------------------------------------------
(***************************************************************************)
(* remove(), when the node to be deleted has been found and is locked.     *)
(***************************************************************************)
(* Mutant: the neighbour of to_be_deleted is taken for the next in order. *)
MutSkipInner(h, s, side) == NULL

(* The node below s that is nearer to to_be_deleted in order. *)
Inner(h, s, side) == h[s][Opposite(side)]

(* successor goes: to_be_deleted takes its value, and the child that it    *)
(* may have takes its place below p.                                       *)
Replaced(h, d, successor, p, side) ==
    LET orphan == h[successor][side]
        place == IF p = d THEN side ELSE Opposite(side)
        linked == [h EXCEPT ![d].value = h[successor].value, ![p][place] = orphan]
    IN  IF orphan = NULL THEN linked ELSE Adopted(linked, orphan, p)

(* successor and its parent p are locked.  A child of successor is locked  *)
(* too before the pointers are changed.                                    *)
Replace(t, h, successor, p) ==
    LET l == loc[t]
        d == l.to_be_deleted
        orphan == h[successor][l.side]
        replaced == Replaced(h, d, successor, p, l.side)
    IN  IF orphan = NULL
        THEN /\ node' = Unlocked(Unlocked(replaced, p), d)
             /\ freed' = freed \cup {successor}
             /\ Answer(t, TRUE)
        ELSE /\ node' = h
             /\ LockNext(t, "orphan", [l EXCEPT !.successor = successor, !.parent = p],
                         orphan)
             /\ UNCHANGED freed

LockOrphan(t) ==
    /\ pc[t] = "orphan" /\ CanLock(loc[t].next)
    /\ LET l == loc[t]
           d == l.to_be_deleted
       IN  /\ node' = Unlocked(Unlocked(Replaced(node, d, l.successor, l.parent, l.side),
                                        l.parent), d)
           /\ freed' = freed \cup {l.successor}
    /\ Answer(t, TRUE)
    /\ UNCHANGED <<g_root, tree_lock, files>>

(* to_be_deleted's child on the side where the successor is looked for. *)
LockSide(t) ==
    /\ pc[t] = "side" /\ CanLock(loc[t].next)
    /\ LET l == loc[t]
           s == l.next
           h == Locked(node, s, t)
           inner == Inner(h, s, l.side)
       IN  IF inner = NULL THEN Replace(t, h, s, l.to_be_deleted)
           ELSE /\ node' = Waiting(h, s)
                /\ LockNext(t, "first", [l EXCEPT !.parent = s], inner)
                /\ UNCHANGED freed
    /\ UNCHANGED <<g_root, tree_lock, files>>

(* get_inorder_successor(): one round of the loop.  successor->parent is   *)
(* read in all rounds but the first, and once more at the end.             *)
LockSuccessor(t) ==
    /\ pc[t] \in {"first", "successor"} /\ CanLock(loc[t].next)
    /\ LET l == loc[t]
           s == l.next
           h == Locked(node, s, t)
           inner == Inner(h, s, l.side)
           parent == IF pc[t] = "first" THEN l.parent ELSE h[s].parent
       IN  IF inner = NULL THEN Replace(t, h, s, h[s].parent)
           ELSE /\ node' = Waiting(Unlocked(h, parent), s)
                /\ LockNext(t, "successor", [l EXCEPT !.parent = NULL], inner)
                /\ UNCHANGED freed
    /\ UNCHANGED <<g_root, tree_lock, files>>

(* Mutant: parent stays locked when an inner node is deleted. *)
MutKeepParent(h, p) == h

(* A parent that is there is unlocked. *)
ParentUnlocked(h, p) == IF p = NULL THEN h ELSE Unlocked(h, p)

(* The node d has been found.  tree_lock is held, and d's parent, if any,  *)
(* is locked.                                                              *)
Delete(t, h, d) ==
    LET p == h[d].parent
        leaf == h[d].left = NULL /\ h[d].right = NULL
        side == IF h[d].right # NULL THEN "right" ELSE "left"
        place == IF h[d].value < h[p].value THEN "left" ELSE "right"
    IN  /\ tree_lock' = NoThread
        /\ IF ~leaf
           THEN /\ node' = Waiting(ParentUnlocked(h, p), d)
                /\ LockNext(t, "side", [Locals(loc[t].work) EXCEPT !.to_be_deleted = d,
                                                                   !.side = side],
                            h[d][side])
                /\ UNCHANGED <<g_root, freed>>
           ELSE /\ freed' = freed \cup {d}
                /\ Answer(t, TRUE)
                /\ IF p = NULL
                   THEN g_root' = NULL /\ node' = h
                   ELSE /\ node' = Unlocked([h EXCEPT ![p][place] = NULL], p)
                        /\ UNCHANGED g_root

-----------------------------------------------------------------------------
(***************************************************************************)
(* search(), insert() and del_search() at node a of heap h, which is       *)
(* locked.  They return nothing that is used; answer is what they print.   *)
(***************************************************************************)
ChildFor(h, a, val) == h[a][IF val < h[a].value THEN "left" ELSE "right"]

LockChildOf(t, h, a) ==
    /\ node' = Waiting(h, a)
    /\ LockNext(t, "child", [loc[t] EXCEPT !.root = a], ChildFor(h, a, loc[t].work.key))
    /\ UNCHANGED <<g_root, freed>>

Search(t, h, a) ==
    LET val == loc[t].work.key
    IN  IF val # h[a].value /\ ChildFor(h, a, val) # NULL THEN LockChildOf(t, h, a)
        ELSE /\ node' = Unlocked(h, a)
             /\ Answer(t, val = h[a].value)
             /\ UNCHANGED <<g_root, freed>>

(* assert(0), with the lock of the node held: the program is aborted. *)
Insert(t, h, a) ==
    LET val == loc[t].work.key
        new == Len(h) + 1
        side == IF val < h[a].value THEN "left" ELSE "right"
    IN  IF val = h[a].value
        THEN node' = h /\ Goto(t, "abort") /\ UNCHANGED <<g_root, freed, loc>>
        ELSE IF ChildFor(h, a, val) # NULL THEN LockChildOf(t, h, a)
        ELSE /\ node' = Append(Unlocked([h EXCEPT ![a][side] = new], a),
                               createNode(val, a))
             /\ Answer(t, TRUE)
             /\ UNCHANGED <<g_root, freed>>

del_search(t, h, a) ==
    LET val == loc[t].work.key
    IN  IF val = h[a].value THEN Delete(t, h, a)
        ELSE IF ChildFor(h, a, val) # NULL THEN LockChildOf(t, h, a) /\ UNCHANGED tree_lock
        ELSE /\ node' = Unlocked(h, a)
             /\ tree_lock' = NoThread
             /\ Answer(t, FALSE)
             /\ UNCHANGED <<g_root, freed>>

(* tree_lock, with which every operation begins. *)
LockTree(t) ==
    /\ pc[t] = "tree" /\ tree_lock = NoThread
    /\ IF g_root # NULL
       THEN /\ tree_lock' = t
            /\ LockNext(t, "root", loc[t], g_root)
            /\ UNCHANGED <<node, g_root>>
       ELSE /\ Answer(t, loc[t].work.op = "INSERT")
            /\ IF loc[t].work.op = "INSERT"
               THEN /\ node' = Append(node, createNode(loc[t].work.key, NULL))
                    /\ g_root' = Len(node')
               ELSE UNCHANGED <<node, g_root>>
            /\ UNCHANGED tree_lock
    /\ UNCHANGED <<freed, files>>

(* remove() keeps tree_lock until del_search() has returned. *)
LockRoot(t) ==
    /\ pc[t] = "root" /\ CanLock(loc[t].next)
    /\ LET op == loc[t].work.op
           h == Locked(node, loc[t].next, t)
       IN  \/ op = "SEARCH" /\ tree_lock' = NoThread /\ Search(t, h, g_root)
           \/ op = "INSERT" /\ tree_lock' = NoThread /\ Insert(t, h, g_root)
           \/ op = "DELETE" /\ del_search(t, h, g_root)
    /\ UNCHANGED files

(* del_search() looks at the child before it unlocks the parent. *)
LockChild(t) ==
    /\ pc[t] = "child" /\ CanLock(loc[t].next)
    /\ LET op == loc[t].work.op
           s == loc[t].next
           h == Locked(node, s, t)
           passed == Unlocked(h, loc[t].root)
       IN  \/ op = "SEARCH" /\ Search(t, passed, s) /\ UNCHANGED tree_lock
           \/ op = "INSERT" /\ Insert(t, passed, s) /\ UNCHANGED tree_lock
           \/ op = "DELETE" /\ del_search(t, IF h[s].value = loc[t].work.key THEN h
                                              ELSE passed, s)
    /\ UNCHANGED files

-----------------------------------------------------------------------------
Lock(t) ==
    \/ LockTree(t) \/ LockRoot(t) \/ LockChild(t)
    \/ LockSide(t) \/ LockSuccessor(t) \/ LockOrphan(t)
Step(t) == TakeWork(t) \/ Lock(t) \/ Return(t)

(* The assertion of a duplicate insert ends the program. *)
Aborted == \E t \in Thread : pc[t] = "abort"
Joined == create = <<>> /\ queue = <<>> /\ \A t \in Thread : pc[t] = "idle"
Terminated == (Joined \/ Aborted) /\ UNCHANGED vars

Next == (~Aborted /\ (CreateTree \/ \E t \in Thread : Step(t))) \/ Terminated
Spec == Init /\ [][Next]_vars

(* Each thread runs, and gets each mutex it waits for: in all, the threads *)
(* take every mutex a bounded number of times.                             *)
Fairness ==
    /\ WF_vars(~Aborted /\ CreateTree)
    /\ \A t \in Thread : WF_vars(~Aborted /\ Step(t))
FairSpec == Spec /\ Fairness
-----------------------------------------------------------------------------
LocalState ==
    [work : Work, root : Nat, next : Nat, to_be_deleted : Nat, side : Side,
     successor : Nat, parent : Nat, answer : BOOLEAN]

(* Every variable has its type. *)
TypeOK ==
    /\ node \in Seq([value : Int, left : Nat, right : Nat, parent : Nat,
                     lock : Thread \cup {NoThread}])
    /\ g_root \in 0 .. Len(node)
    /\ tree_lock \in Thread \cup {NoThread}
    /\ freed \subseteq 1 .. Len(node)
    /\ create \in Seq(Int) /\ queue \in Seq(Work)
    /\ pc \in [Thread -> {"idle", "tree", "root", "child", "side", "first", "successor",
                          "orphan", "return", "abort"}]
    /\ loc \in [Thread -> LocalState]

Linked(a) == a \in DOMAIN node \ freed

(* The nodes that t keeps locked while it waits for another. *)
Held(t) ==
    LET l == loc[t]
    IN  CASE pc[t] = "child" -> {l.root}
          [] pc[t] = "side" -> {l.to_be_deleted}
          [] pc[t] = "first" -> {l.to_be_deleted, l.parent}
          [] pc[t] = "successor" -> {l.to_be_deleted, node[l.next].parent}
          [] pc[t] = "orphan" -> {l.to_be_deleted, l.parent, l.successor}
          [] OTHER -> {}

Waits(t) == pc[t] \in {"root", "child", "side", "first", "successor", "orphan"}

(* A thread accesses the fields of a node only when it has its lock: it    *)
(* has those it relies on while it waits for the next, and it has no       *)
(* others.  tree_lock is held on the way to the root, and by a remove()    *)
(* until it has found its node.                                            *)
LocksHeld ==
    /\ \A t \in Thread : pc[t] # "abort" =>
          {a \in DOMAIN node \ freed : node[a].lock = t} \subseteq Held(t)
    /\ \A t \in Thread : \A a \in Held(t) : Linked(a) /\ node[a].lock = t
    /\ \A t \in Thread :
          tree_lock = t <=>
              pc[t] = "root" \/ (pc[t] = "child" /\ loc[t].work.op = "DELETE")

(* The node that a thread waits for is not freed meanwhile, and is still   *)
(* the child of a node that the thread has locked: so is the parent that   *)
(* is found through it.                                                    *)
WaitsForChild ==
    \A t \in Thread : Waits(t) =>
        /\ Linked(loc[t].next)
        /\ IF pc[t] = "root" THEN loc[t].next = g_root
           ELSE /\ node[loc[t].next].parent \in Held(t)
                /\ loc[t].next \in {node[a][side] : a \in Held(t), side \in Side}

(* The nodes in order, down to a depth no tree of them exceeds. *)
InOrder ==
    LET walk[depth \in 0 .. Len(node)] ==
          [a \in 0 .. Len(node) |->
             IF a = NULL \/ depth = 0 THEN <<>>
             ELSE walk[depth - 1][node[a].left] \o <<a>> \o walk[depth - 1][node[a].right]]
    IN  walk[Len(node)][g_root]

(* The values increase in order (check_valid_FG_Tree), although remove()   *)
(* moves values to other nodes while threads are below them.               *)
SearchOrder ==
    LET values == [i \in DOMAIN InOrder |-> node[InOrder[i]].value]
    IN  \A i \in 1 .. Len(values) - 1 : values[i] < values[i + 1]

(* A node is freed when it is taken out of the tree: no node is lost, and  *)
(* none that is still reachable is freed.                                  *)
FreedWhenUnlinked == Range(InOrder) = DOMAIN node \ freed

(* remove() finds the parents of a node through its parent pointer: it    *)
(* leads to a node of the tree, never to one that was freed, and that node *)
(* has the child on one of its sides.                                      *)
ParentPointers ==
    \A a \in DOMAIN node \ freed :
        IF a = g_root THEN node[a].parent = NULL
        ELSE /\ Linked(node[a].parent)
             /\ \E side \in Side : node[node[a].parent][side] = a

(* All work is done unless an assertion ends the program: no two threads   *)
(* wait for each other, and no lock is left behind.                        *)
Ends == <>(Joined \/ Aborted)
=============================================================================
