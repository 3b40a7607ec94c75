---------------------------- MODULE LockFreeBST ----------------------------
(***************************************************************************)
(* The lock-free internal binary search tree of Lock_Free_BST.cpp, run by  *)
(* the worker threads of test_harness.cpp with hazard_pointers = false.    *)
(*                                                                         *)
(* One action is one access to shared memory (a read of a field another    *)
(* thread may write, or a compare-and-swap) with the local computation     *)
(* that follows it.  A block that only its allocating thread has seen (the *)
(* newNode and cas_op of a failed attempt) has no place in the shared      *)
(* state: a block gets its address when the CAS that publishes it          *)
(* succeeds.                                                               *)
(*                                                                         *)
(* add_to_hp_list() only writes the array hp, which nothing reads while    *)
(* hazard_pointers is false, and is left out here.                         *)
(***************************************************************************)
EXTENDS Integers, Sequences

CONSTANTS
    Worker,       \* the threads of init_harness()
    Main,         \* the thread that builds the initial tree
    CreateFiles,  \* the possible contents of create_file: sequences of keys
    Traces,       \* the possible contents of test_file: sequences of work
    ReusesBlocks, \* external: does malloc() hand out a deleted block again?
    NoNode, NoOp  \* the C++ NULL, as a node and as an operation

Thread == Worker \cup {Main}

(* A block of memory: the i-th one that a thread has published. *)
Addr == Thread \X Nat
base_root == <<Main, 0>>

(***************************************************************************)
(* Tagged pointers.  The two low bits of an operation pointer hold a flag, *)
(* the low bit of a child pointer says that it is a null pointer.          *)
(***************************************************************************)
Flag == {"NONE", "MARK", "CHILDCAS", "RELOCATE"}
OpPtr == [flag : Flag, op : Addr \cup {NoOp}]
NodePtr == [null : BOOLEAN, node : Addr \cup {NoNode}]

(* Bitwise or of two flags: NONE = 0, MARK = 1, CHILDCAS = 2, RELOCATE = 3. *)
FlagOr(f, g) ==
    IF f = "NONE" \/ f = g THEN g
    ELSE IF g = "NONE" THEN f ELSE "RELOCATE"

SET_FLAG(ptr, state) == [ptr EXCEPT !.flag = FlagOr(@, state)]
GET_FLAG(ptr) == ptr.flag
UNFLAG(ptr) == ptr.op
SET_NULL(n) == [null |-> TRUE, node |-> n]
IS_NULL(ptr) == ptr.null

(* Pointers as malloc() returns them, with no bit set. *)
OpAt(a) == [flag |-> "NONE", op |-> a]
NodeAt(a) == [null |-> FALSE, node |-> a]
NullOp == OpAt(NoOp)

(***************************************************************************)
(* The heap.                                                               *)
(***************************************************************************)
LF_BST_Node == [key : Int, op : OpPtr, left : NodePtr, right : NodePtr]
Child_CAS_OP == [is_left : BOOLEAN, expected : NodePtr, update : NodePtr]
Relocate_OP ==
    [state : {"ONGOING", "SUCCESSFUL", "FAILED"}, dest : Addr, dest_op : OpPtr,
     remove_key : Int, replace_key : Int]

create_LF_node(k) ==
    [key |-> k, op |-> NullOp, left |-> SET_NULL(NoNode), right |-> SET_NULL(NoNode)]

ChildOf(n, is_left) == IF is_left THEN n.left ELSE n.right

(* A heap in which address a holds block b. *)
Store(heap, a, b) == [x \in DOMAIN heap \cup {a} |-> IF x = a THEN b ELSE heap[x]]

Work == [op : {"INSERT", "SEARCH", "DELETE"}, key : Int]

ASSUME ThreadAssumption == Main \notin Worker
ASSUME NullAssumption == NoNode \notin Addr /\ NoOp \notin Addr
ASSUME FileAssumption == CreateFiles \subseteq Seq(Int) /\ Traces \subseteq Seq(Work)
ASSUME AllocatorAssumption == ReusesBlocks \in BOOLEAN

VARIABLES
    node,    \* every LF_BST_Node that has been linked, by address
    cas,     \* every Child_CAS_OP that has been published
    reloc,   \* every Relocate_OP that has been published
    deleted, \* the Relocate_OPs that were deleted and not handed out again
    blocks,  \* how many addresses each thread has used
    create,  \* what is left of create_file
    queue,   \* what is left in the work queue
    pc,      \* where each thread is
    loc      \* its local variables

heap == <<node, cas, reloc, deleted, blocks>>
files == <<create, queue>>
vars == <<heap, files, pc, loc>>

(***************************************************************************)
(* Local variables of a call, with the names of the source.  auxRoot and   *)
(* auxRoot_op are remove()'s curr and curr_op while it searches for the    *)
(* replacement, and curr, curr_op are its replace, replace_op then.  ret   *)
(* says who called the helpers: "find" (help() and retry) or "op".         *)
(***************************************************************************)
Locals(w) ==
    [work |-> w, auxRoot |-> base_root, auxRoot_op |-> NullOp,
     pred |-> NoNode, pred_op |-> NullOp, curr |-> NoNode, curr_op |-> NullOp,
     next |-> SET_NULL(NoNode), last_right |-> NoNode, last_right_op |-> NullOp,
     result |-> "NOTFOUND_R", old |-> SET_NULL(NoNode),
     cas_op |-> NoOp, dest |-> NoNode, is_left |-> FALSE, new_ref |-> SET_NULL(NoNode),
     reloc_op |-> NoOp, seen_state |-> "ONGOING", replace_key |-> 0,
     ret |-> "op", answer |-> FALSE]

NoWork == [op |-> "SEARCH", key |-> 0]

Init ==
    /\ node = Store(<<>>, base_root, create_LF_node(-1))
    /\ cas = <<>> /\ reloc = <<>> /\ deleted = {}
    /\ blocks = [t \in Thread |-> 1]
    /\ create \in CreateFiles
    /\ queue \in Traces
    /\ pc = [t \in Thread |-> "idle"]
    /\ loc = [t \in Thread |-> Locals(NoWork)]

-----------------------------------------------------------------------------
Goto(t, label) == pc' = [pc EXCEPT ![t] = label]
SetLocals(t, l) == loc' = [loc EXCEPT ![t] = l]

(* What outlives a round of find(): its root and, in the second find() of  *)
(* remove(), the pred that the round before, or the first find(), left in  *)
(* the reference parameters.                                               *)
FindCall(l) ==
    IF l.auxRoot = base_root THEN Locals(l.work)
    ELSE [Locals(l.work) EXCEPT !.auxRoot = l.auxRoot, !.auxRoot_op = l.auxRoot_op,
                                !.pred = l.pred, !.pred_op = l.pred_op]

RetryFind(t) == Goto(t, "find") /\ SetLocals(t, FindCall(loc[t]))

(* The next round of the while (true) of add() or remove(). *)
Loop(t) == Goto(t, "find") /\ SetLocals(t, Locals(loc[t].work))

Answer(t, b) ==
    Goto(t, "return") /\ SetLocals(t, [Locals(loc[t].work) EXCEPT !.answer = b])

(* A helper that need not report anything is done. *)
Helped(t) == IF loc[t].ret = "find" THEN RetryFind(t) ELSE Answer(t, TRUE)

helpChildCAS(t, l, o, d, ret) ==
    /\ Goto(t, "child_cas")
    /\ SetLocals(t, [FindCall(l) EXCEPT !.cas_op = o, !.dest = d, !.ret = ret])

(* Mutant: a marked node is left to the thread that has marked it. *)
MutNoHelpForMarked(t, l, p, p_op, c, ret) ==
    IF ret = "find" THEN RetryFind(t)
    ELSE /\ Goto(t, "mark_left")
         /\ SetLocals(t, [FindCall(l) EXCEPT !.pred = p, !.pred_op = p_op, !.curr = c,
                                             !.ret = ret])

helpMarked(t, l, p, p_op, c, ret) ==
    /\ Goto(t, "mark_left")
    /\ SetLocals(t, [FindCall(l) EXCEPT !.pred = p, !.pred_op = p_op, !.curr = c,
                                        !.ret = ret])

helpRelocate(t, l, o, p, p_op, c, ret) ==
    /\ Goto(t, "reloc_state")
    /\ SetLocals(t, [FindCall(l) EXCEPT !.reloc_op = o, !.pred = p, !.pred_op = p_op,
                                        !.curr = c, !.ret = ret])

(* Mutant: the CAS compares the flags only. *)
MutMatchesFlag(n, old) == GET_FLAG(node[n].op) = GET_FLAG(old)

(* A CAS of node n's op succeeds if it still is old. *)
Matches(n, old) == node[n].op = old

CASOp(n, old, new) ==
    node' = IF Matches(n, old) THEN [node EXCEPT ![n].op = new] ELSE node

(* Mutant: a relocation is never cleared from its dest. *)
MutClearChildCASOnly(n, a, flag) ==
    IF flag = "RELOCATE" THEN UNCHANGED node
    ELSE CASOp(n, SET_FLAG(OpAt(a), flag), SET_FLAG(OpAt(a), "NONE"))

(* Mutant: an operation that is over leaves an empty op. *)
MutClearToEmpty(n, a, flag) ==
    CASOp(n, SET_FLAG(OpAt(a), flag), SET_FLAG(OpAt(NoOp), "NONE"))

(* An operation a is over: its address stays in n's op, without the flag,  *)
(* so that no later op of n equals an earlier one.                         *)
ClearOp(n, a, flag) == CASOp(n, SET_FLAG(OpAt(a), flag), SET_FLAG(OpAt(a), "NONE"))

-----------------------------------------------------------------------------
(***************************************************************************)
(* The threads: main() inserts create_file, then the workers take work     *)
(* from the queue until it is empty.                                       *)
(***************************************************************************)
Created == create = <<>> /\ pc[Main] = "idle"

CreateTree ==
    /\ pc[Main] = "idle" /\ create # <<>>
    /\ create' = Tail(create)
    /\ Goto(Main, "find")
    /\ SetLocals(Main, Locals([op |-> "INSERT", key |-> Head(create)]))
    /\ UNCHANGED <<heap, queue>>

TakeWork(t) ==
    /\ t # Main /\ pc[t] = "idle" /\ Created /\ queue # <<>>
    /\ queue' = Tail(queue)
    /\ Goto(t, "find")
    /\ SetLocals(t, Locals(Head(queue)))
    /\ UNCHANGED <<heap, create>>

Return(t) ==
    /\ pc[t] = "return"
    /\ Goto(t, "idle")
    /\ SetLocals(t, Locals(NoWork))
    /\ UNCHANGED <<heap, files>>

-----------------------------------------------------------------------------
(***************************************************************************)
(* find()                                                                  *)
(***************************************************************************)
(* Mutant: any operation at auxRoot is taken for a Child_CAS_OP. *)
MutHelpsAnyRoot(l) == TRUE

(* Is the operation at auxRoot one that find() can help? *)
HelpsRoot(l) == l.auxRoot = base_root

(* Mutant: remove() goes on with what an aborted search has left. *)
MutIgnoreAbort(t) ==
    /\ Goto(t, "rem_recheck")
    /\ SetLocals(t, [loc[t] EXCEPT !.curr = loc[t].auxRoot, !.result = "ABORT",
                                   !.curr_op = node[loc[t].auxRoot].op])

(* find() returns ABORT, and remove() starts over. *)
Abort(t) == Loop(t)

(* retry: read auxRoot's op.  Only the base root can be helped from here;  *)
(* below another root the search ABORTs and remove() starts over.          *)
FindStart(t) ==
    /\ pc[t] = "find"
    /\ LET l == loc[t]
           o == node[l.auxRoot].op
       IN  IF GET_FLAG(o) = "NONE"
           THEN /\ Goto(t, "find_next")
                /\ SetLocals(t, [l EXCEPT !.curr = l.auxRoot, !.curr_op = o,
                                          !.result = "NOTFOUND_R"])
           ELSE IF HelpsRoot(l)
                THEN helpChildCAS(t, l, UNFLAG(o), l.auxRoot, "find")
                ELSE Abort(t)
    /\ UNCHANGED <<heap, files>>

(* Read the child of curr on the search path. *)
FindNext(t) ==
    /\ pc[t] = "find_next"
    /\ LET l == loc[t]
           isLeft == l.result = "NOTFOUND_L"
           child == ChildOf(node[l.curr], isLeft)
       IN  /\ Goto(t, IF IS_NULL(child) THEN "find_last_right" ELSE "find_visit")
           /\ SetLocals(t, IF isLeft THEN [l EXCEPT !.next = child]
                           ELSE [l EXCEPT !.next = child, !.last_right = l.curr,
                                          !.last_right_op = l.curr_op])
    /\ UNCHANGED <<heap, files>>

(* What was curr is pred from now on. *)
Descended(l) == [l EXCEPT !.pred = l.curr, !.pred_op = l.curr_op]

(* Step to next and read its op; an operation in progress is helped, and   *)
(* the search starts over.                                                 *)
FindVisit(t) ==
    /\ pc[t] = "find_visit"
    /\ LET l == loc[t]
           c == l.next.node
           o == node[c].op
       IN  CASE GET_FLAG(o) = "NONE" ->
                  /\ Goto(t, "find_key")
                  /\ SetLocals(t, [l EXCEPT !.pred = l.curr, !.pred_op = l.curr_op,
                                            !.curr = c, !.curr_op = o,
                                            !.next = SET_NULL(NoNode)])
             [] GET_FLAG(o) = "CHILDCAS" ->
                  helpChildCAS(t, Descended(l), UNFLAG(o), c, "find")
             [] GET_FLAG(o) = "RELOCATE" ->
                  helpRelocate(t, l, UNFLAG(o), l.curr, l.curr_op, c, "find")
             [] GET_FLAG(o) = "MARK" -> helpMarked(t, l, l.curr, l.curr_op, c, "find")
    /\ UNCHANGED <<heap, files>>

FindKey(t) ==
    /\ pc[t] = "find_key"
    /\ LET l == loc[t]
           k == node[l.curr].key
           res == IF l.work.key < k THEN "NOTFOUND_L"
                  ELSE IF l.work.key > k THEN "NOTFOUND_R" ELSE "FOUND"
       IN  /\ Goto(t, IF res = "FOUND" THEN "find_curr" ELSE "find_next")
           /\ SetLocals(t, [l EXCEPT !.result = res])
    /\ UNCHANGED <<heap, files>>

(* Mutant: last_right is not looked at again. *)
MutTrustLastRight(l) == FALSE

(* The key is absent only if the key of last_right has not been replaced. *)
LastRightChanged(l) == node[l.last_right].op # l.last_right_op

FindLastRight(t) ==
    /\ pc[t] = "find_last_right"
    /\ IF LastRightChanged(loc[t]) THEN RetryFind(t)
       ELSE Goto(t, "find_curr") /\ UNCHANGED loc
    /\ UNCHANGED <<heap, files>>

(* find() returns: where its caller goes on.  A search, an add() of a key  *)
(* that is there and a remove() of one that is not have their answer.      *)
FindReturn(t) ==
    LET l == loc[t]
        found == l.result = "FOUND"
        GoOn(label) ==
            /\ Goto(t, label)
            /\ SetLocals(t, [FindCall(l) EXCEPT !.pred = l.pred, !.pred_op = l.pred_op,
                                                !.curr = l.curr, !.curr_op = l.curr_op,
                                                !.result = l.result])
    IN  CASE l.work.op = "SEARCH" -> Answer(t, found)
          [] l.work.op = "INSERT" -> IF found THEN Answer(t, FALSE) ELSE GoOn("add_old")
          [] l.work.op = "DELETE" ->
               IF l.auxRoot # base_root THEN GoOn("rem_recheck")
               ELSE IF found THEN GoOn("rem_right") ELSE Answer(t, FALSE)

(* curr must not have changed since its op was read. *)
CurrChanged(l) == node[l.curr].op # l.curr_op

FindCurr(t) ==
    /\ pc[t] = "find_curr"
    /\ IF CurrChanged(loc[t]) THEN RetryFind(t) ELSE FindReturn(t)
    /\ UNCHANGED <<heap, files>>

-----------------------------------------------------------------------------
(***************************************************************************)
(* add()                                                                   *)
(***************************************************************************)
AddReadOld(t) ==
    /\ pc[t] = "add_old"
    /\ Goto(t, "add_cas")
    /\ LET l == loc[t]
           isLeft == l.result = "NOTFOUND_L"
       IN  SetLocals(t, [Locals(l.work) EXCEPT !.curr = l.curr, !.curr_op = l.curr_op,
                                               !.is_left = isLeft,
                                               !.old = ChildOf(node[l.curr], isLeft)])
    /\ UNCHANGED <<heap, files>>

(* Publish a Child_CAS_OP in curr's op that links the new node. *)
AddPublish(t) ==
    /\ pc[t] = "add_cas"
    /\ LET l == loc[t]
           a == <<t, blocks[t]>>
       IN  IF Matches(l.curr, l.curr_op)
           THEN /\ node' = [Store(node, a, create_LF_node(l.work.key))
                              EXCEPT ![l.curr].op = SET_FLAG(OpAt(a), "CHILDCAS")]
                /\ cas' = Store(cas, a, [is_left |-> l.is_left, expected |-> l.old,
                                         update |-> NodeAt(a)])
                /\ blocks' = [blocks EXCEPT ![t] = @ + 1]
                /\ helpChildCAS(t, l, a, l.curr, "op")
           ELSE Loop(t) /\ UNCHANGED <<node, cas, blocks>>
    /\ UNCHANGED <<reloc, deleted, files>>

-----------------------------------------------------------------------------
(***************************************************************************)
(* remove()                                                                *)
(***************************************************************************)
RemoveReadRight(t) ==
    /\ pc[t] = "rem_right"
    /\ Goto(t, IF IS_NULL(node[loc[t].curr].right) THEN "rem_mark" ELSE "rem_left")
    /\ UNCHANGED <<heap, files, loc>>

(* With two children, find() the same key below curr: the node where that  *)
(* search ends holds the next larger key.                                  *)
RemoveReadLeft(t) ==
    /\ pc[t] = "rem_left"
    /\ LET l == loc[t]
       IN  IF IS_NULL(node[l.curr].left)
           THEN Goto(t, "rem_mark") /\ UNCHANGED loc
           ELSE /\ Goto(t, "find")
                /\ SetLocals(t, FindCall([l EXCEPT !.auxRoot = l.curr,
                                                   !.auxRoot_op = l.curr_op]))
    /\ UNCHANGED <<heap, files>>

(* With fewer children, mark curr: it is then logically deleted. *)
RemoveMark(t) ==
    /\ pc[t] = "rem_mark"
    /\ LET l == loc[t]
       IN  /\ CASOp(l.curr, l.curr_op, SET_FLAG(l.curr_op, "MARK"))
           /\ IF Matches(l.curr, l.curr_op)
              THEN helpMarked(t, Locals(l.work), l.pred, l.pred_op, l.curr, "op")
              ELSE Loop(t)
    /\ UNCHANGED <<cas, reloc, deleted, blocks, files>>

(* curr (auxRoot) must not have changed while its replacement was sought. *)
RootChanged(l) == node[l.auxRoot].op # l.auxRoot_op

RemoveRecheck(t) ==
    /\ pc[t] = "rem_recheck"
    /\ IF RootChanged(loc[t])
       THEN Loop(t)
       ELSE Goto(t, "rem_key") /\ UNCHANGED loc
    /\ UNCHANGED <<heap, files>>

RemoveReadKey(t) ==
    /\ pc[t] = "rem_key"
    /\ Goto(t, "rem_reloc")
    /\ SetLocals(t, [loc[t] EXCEPT !.replace_key = node[loc[t].curr].key])
    /\ UNCHANGED <<heap, files>>

(* The address of a new Relocate_OP: a block that t deleted if malloc()    *)
(* hands it out again, else a fresh one.                                   *)
Recycled(t) == {a \in deleted : ReusesBlocks /\ a[1] = t}
RelocAddr(t) ==
    IF Recycled(t) # {} THEN CHOOSE a \in Recycled(t) : TRUE ELSE <<t, blocks[t]>>

(* Publish a Relocate_OP in replace's op. *)
RemovePublish(t) ==
    /\ pc[t] = "rem_reloc"
    /\ LET l == loc[t]
           a == RelocAddr(t)
       IN  /\ CASOp(l.curr, l.curr_op, SET_FLAG(OpAt(a), "RELOCATE"))
           /\ IF Matches(l.curr, l.curr_op)
              THEN /\ reloc' = Store(reloc, a,
                                 [state |-> "ONGOING", dest |-> l.auxRoot,
                                  dest_op |-> l.auxRoot_op, remove_key |-> l.work.key,
                                  replace_key |-> l.replace_key])
                   /\ deleted' = deleted \ {a}
                   /\ blocks' = IF a \in deleted THEN blocks
                                ELSE [blocks EXCEPT ![t] = @ + 1]
                   /\ helpRelocate(t, Locals(l.work), a, l.pred, l.pred_op, l.curr, "op")
              ELSE Loop(t) /\ UNCHANGED <<reloc, deleted, blocks>>
    /\ UNCHANGED <<cas, files>>

-----------------------------------------------------------------------------
(***************************************************************************)
(* helpChildCAS(op, dest): swing the child pointer, then clear dest's op.  *)
(***************************************************************************)
(* Mutant: the child pointer is stored, not compared and swapped. *)
MutStoreChild(d, o) ==
    node' = IF o.is_left THEN [node EXCEPT ![d].left = o.update]
            ELSE [node EXCEPT ![d].right = o.update]

CASChild(d, o) ==
    node' = IF ChildOf(node[d], o.is_left) # o.expected THEN node
            ELSE IF o.is_left THEN [node EXCEPT ![d].left = o.update]
            ELSE [node EXCEPT ![d].right = o.update]

HelpChildCASSwing(t) ==
    /\ pc[t] = "child_cas"
    /\ Goto(t, "child_clear")
    /\ CASChild(loc[t].dest, cas[loc[t].cas_op])
    /\ UNCHANGED <<cas, reloc, deleted, blocks, files, loc>>

HelpChildCASClear(t) ==
    /\ pc[t] = "child_clear"
    /\ ClearOp(loc[t].dest, loc[t].cas_op, "CHILDCAS")
    /\ Helped(t)
    /\ UNCHANGED <<cas, reloc, deleted, blocks, files>>

-----------------------------------------------------------------------------
(***************************************************************************)
(* helpMarked(pred, pred_op, curr): unlink the marked node curr from pred. *)
(***************************************************************************)
HelpMarkedTestLeft(t) ==
    /\ pc[t] = "mark_left"
    /\ Goto(t, IF IS_NULL(node[loc[t].curr].left) THEN "mark_right" ELSE "mark_take_left")
    /\ UNCHANGED <<heap, files, loc>>

HelpMarkedTestRight(t) ==
    /\ pc[t] = "mark_right"
    /\ LET l == loc[t]
       IN  IF IS_NULL(node[l.curr].right)
           THEN /\ Goto(t, "mark_side")
                /\ SetLocals(t, [l EXCEPT !.new_ref = SET_NULL(l.curr)])
           ELSE Goto(t, "mark_take_right") /\ UNCHANGED loc
    /\ UNCHANGED <<heap, files>>

HelpMarkedTake(t) ==
    /\ pc[t] \in {"mark_take_left", "mark_take_right"}
    /\ Goto(t, "mark_side")
    /\ SetLocals(t, [loc[t] EXCEPT !.new_ref =
                        ChildOf(node[loc[t].curr], pc[t] = "mark_take_left")])
    /\ UNCHANGED <<heap, files>>

HelpMarkedSide(t) ==
    /\ pc[t] = "mark_side"
    /\ Goto(t, "mark_cas")
    /\ LET l == loc[t]
       IN  SetLocals(t, [l EXCEPT !.is_left = (node[l.pred].left = NodeAt(l.curr))])
    /\ UNCHANGED <<heap, files>>

HelpMarkedPublish(t) ==
    /\ pc[t] = "mark_cas"
    /\ LET l == loc[t]
           a == <<t, blocks[t]>>
       IN  /\ CASOp(l.pred, l.pred_op, SET_FLAG(OpAt(a), "CHILDCAS"))
           /\ IF Matches(l.pred, l.pred_op)
              THEN /\ cas' = Store(cas, a, [is_left |-> l.is_left,
                                            expected |-> NodeAt(l.curr),
                                            update |-> l.new_ref])
                   /\ blocks' = [blocks EXCEPT ![t] = @ + 1]
                   /\ helpChildCAS(t, l, a, l.pred, l.ret)
              ELSE Helped(t) /\ UNCHANGED <<cas, blocks>>
    /\ UNCHANGED <<reloc, deleted, files>>

-----------------------------------------------------------------------------
(***************************************************************************)
(* helpRelocate(op, pred, pred_op, curr)                                   *)
(***************************************************************************)
AfterState(s) ==
    CASE s = "ONGOING" -> "reloc_dest" [] s = "SUCCESSFUL" -> "reloc_key"
      [] s = "FAILED" -> "reloc_curr"

HelpRelocateState(t) ==
    /\ pc[t] = "reloc_state"
    /\ LET s == reloc[loc[t].reloc_op].state
       IN  Goto(t, AfterState(s)) /\ SetLocals(t, [loc[t] EXCEPT !.seen_state = s])
    /\ UNCHANGED <<heap, files>>

(* Mutant: a helper that finds the Relocate_OP installed has lost. *)
MutInstalledByMe(o, mine) == {o.dest_op}

(* What op->dest->op held when the Relocate_OP was, or is now, in it. *)
Installed(o, mine) == {o.dest_op, mine}

(* Try to install the Relocate_OP in dest's op. *)
HelpRelocateDest(t) ==
    /\ pc[t] = "reloc_dest"
    /\ LET o == reloc[loc[t].reloc_op]
           mine == SET_FLAG(OpAt(loc[t].reloc_op), "RELOCATE")
       IN  /\ CASOp(o.dest, o.dest_op, mine)
           /\ Goto(t, IF node[o.dest].op \in Installed(o, mine) THEN "reloc_won"
                      ELSE "reloc_lost")
    /\ UNCHANGED <<cas, reloc, deleted, blocks, files, loc>>

(* The CAS of op->state from ONGOING to s. *)
Decide(a, s) ==
    reloc' = IF reloc[a].state = "ONGOING" THEN [reloc EXCEPT ![a].state = s] ELSE reloc

HelpRelocateWon(t) ==
    /\ pc[t] = "reloc_won"
    /\ Decide(loc[t].reloc_op, "SUCCESSFUL")
    /\ Goto(t, "reloc_key")
    /\ SetLocals(t, [loc[t] EXCEPT !.seen_state = "SUCCESSFUL"])
    /\ UNCHANGED <<node, cas, deleted, blocks, files>>

(* The value CAS returns the state before it, ONGOING when it succeeds. *)
HelpRelocateLost(t) ==
    /\ pc[t] = "reloc_lost"
    /\ LET s == reloc[loc[t].reloc_op].state
       IN  /\ Goto(t, IF s = "SUCCESSFUL" THEN "reloc_key" ELSE "reloc_curr")
           /\ SetLocals(t, [loc[t] EXCEPT !.seen_state = s])
    /\ Decide(loc[t].reloc_op, "FAILED")
    /\ UNCHANGED <<node, cas, deleted, blocks, files>>

(* Mutant: the key is stored, not compared and swapped. *)
MutStoreKey(o) == node' = [node EXCEPT ![o.dest].key = o.replace_key]

CASKey(o) ==
    node' = IF node[o.dest].key = o.remove_key
            THEN [node EXCEPT ![o.dest].key = o.replace_key] ELSE node

HelpRelocateKey(t) ==
    /\ pc[t] = "reloc_key"
    /\ Goto(t, "reloc_clear")
    /\ CASKey(reloc[loc[t].reloc_op])
    /\ UNCHANGED <<cas, reloc, deleted, blocks, files, loc>>

HelpRelocateClear(t) ==
    /\ pc[t] = "reloc_clear"
    /\ Goto(t, "reloc_curr")
    /\ ClearOp(reloc[loc[t].reloc_op].dest, loc[t].reloc_op, "RELOCATE")
    /\ UNCHANGED <<cas, reloc, deleted, blocks, files, loc>>

(* helpRelocate() returns false to help() or to remove(), which deletes    *)
(* the Relocate_OP and starts over.                                        *)
RelocateFailed(t) ==
    IF loc[t].ret = "find"
    THEN RetryFind(t) /\ UNCHANGED deleted
    ELSE Loop(t) /\ deleted' = deleted \cup {loc[t].reloc_op}

(* Mutant: replace is released as if the relocation had failed. *)
MutReleaseReplace(result) == "NONE"

(* What becomes of replace: it is marked when dest has its key. *)
ReplaceFlag(result) == IF result THEN "MARK" ELSE "NONE"

(* Mutant: pred's op is read afresh. *)
MutUnlinkWithCurrentOp(l, dest) == node[l.pred].op

(* The pred_op with which replace is unlinked: dest's has changed by now. *)
UnlinkOp(l, dest) ==
    IF dest = l.pred THEN SET_FLAG(OpAt(l.reloc_op), "NONE") ELSE l.pred_op

(* Clean up replace (curr): mark and unlink it if its key has moved, else  *)
(* release it.  Nothing is left to do when curr is dest.                   *)
HelpRelocateCurr(t) ==
    /\ pc[t] = "reloc_curr"
    /\ LET l == loc[t]
           o == OpAt(l.reloc_op)
           dest == reloc[l.reloc_op].dest
           result == l.seen_state = "SUCCESSFUL"
       IN  IF dest = l.curr
           THEN /\ IF result THEN Helped(t) /\ UNCHANGED deleted ELSE RelocateFailed(t)
                /\ UNCHANGED node
           ELSE /\ CASOp(l.curr, SET_FLAG(o, "RELOCATE"),
                         SET_FLAG(o, ReplaceFlag(result)))
                /\ IF result
                   THEN /\ helpMarked(t, l, l.pred, UnlinkOp(l, dest), l.curr, l.ret)
                        /\ UNCHANGED deleted
                   ELSE RelocateFailed(t)
    /\ UNCHANGED <<cas, reloc, blocks, files>>

-----------------------------------------------------------------------------
Find(t) ==
    FindStart(t) \/ FindNext(t) \/ FindVisit(t) \/ FindKey(t) \/ FindLastRight(t) \/ FindCurr(t)
Add(t) == AddReadOld(t) \/ AddPublish(t)
Remove(t) ==
    \/ RemoveReadRight(t) \/ RemoveReadLeft(t) \/ RemoveMark(t)
    \/ RemoveRecheck(t) \/ RemoveReadKey(t) \/ RemovePublish(t)
HelpChildCAS(t) == HelpChildCASSwing(t) \/ HelpChildCASClear(t)
HelpMarked(t) ==
    \/ HelpMarkedTestLeft(t) \/ HelpMarkedTestRight(t) \/ HelpMarkedTake(t)
    \/ HelpMarkedSide(t) \/ HelpMarkedPublish(t)
HelpRelocate(t) ==
    \/ HelpRelocateState(t) \/ HelpRelocateDest(t) \/ HelpRelocateWon(t)
    \/ HelpRelocateLost(t) \/ HelpRelocateKey(t) \/ HelpRelocateClear(t)
    \/ HelpRelocateCurr(t)

Step(t) ==
    \/ TakeWork(t) \/ Return(t) \/ Find(t) \/ Add(t) \/ Remove(t)
    \/ HelpChildCAS(t) \/ HelpMarked(t) \/ HelpRelocate(t)

(* Every thread is back in its loop and there is no work: they are joined. *)
Joined == create = <<>> /\ queue = <<>> /\ \A t \in Thread : pc[t] = "idle"
Terminated == Joined /\ UNCHANGED vars

Next == CreateTree \/ (\E t \in Thread : Step(t)) \/ Terminated
Spec == Init /\ [][Next]_vars

(* Some thread always runs: nothing is assumed about which one. *)
FairSpec == Spec /\ WF_vars(Next)
-----------------------------------------------------------------------------
(***************************************************************************)
(* Types, and the pointers a thread follows.                               *)
(***************************************************************************)
FindLabel ==
    {"find", "find_next", "find_visit", "find_key", "find_last_right", "find_curr"}
OpLabel ==
    {"add_old", "add_cas", "rem_right", "rem_left", "rem_mark", "rem_recheck",
     "rem_key", "rem_reloc"}
ChildLabel == {"child_cas", "child_clear"}
MarkLabel ==
    {"mark_left", "mark_right", "mark_take_left", "mark_take_right", "mark_side",
     "mark_cas"}
RelocLabel ==
    {"reloc_state", "reloc_dest", "reloc_won", "reloc_lost", "reloc_key",
     "reloc_clear", "reloc_curr"}
Label == {"idle", "return"} \cup FindLabel \cup OpLabel \cup ChildLabel
             \cup MarkLabel \cup RelocLabel

LocalState ==
    [work : Work, auxRoot : Addr, auxRoot_op : OpPtr,
     pred : Addr \cup {NoNode}, pred_op : OpPtr, curr : Addr \cup {NoNode},
     curr_op : OpPtr, next : NodePtr, last_right : Addr \cup {NoNode},
     last_right_op : OpPtr, result : {"NOTFOUND_L", "NOTFOUND_R", "FOUND"},
     old : NodePtr, cas_op : Addr \cup {NoOp}, dest : Addr \cup {NoNode},
     is_left : BOOLEAN, new_ref : NodePtr, reloc_op : Addr \cup {NoOp},
     seen_state : {"ONGOING", "SUCCESSFUL", "FAILED"}, replace_key : Int,
     ret : {"find", "op"}, answer : BOOLEAN]

(* Every variable has its type. *)
TypeOK ==
    /\ DOMAIN node \subseteq Addr /\ node \in [DOMAIN node -> LF_BST_Node]
    /\ DOMAIN cas \subseteq Addr /\ cas \in [DOMAIN cas -> Child_CAS_OP]
    /\ DOMAIN reloc \subseteq Addr /\ reloc \in [DOMAIN reloc -> Relocate_OP]
    /\ deleted \subseteq Addr
    /\ blocks \in [Thread -> Nat \ {0}]
    /\ create \in Seq(Int) /\ queue \in Seq(Work)
    /\ pc \in [Thread -> Label]
    /\ loc \in [Thread -> LocalState]

(* A child pointer without the null bit leads to a node below base_root. *)
Node == DOMAIN node \ {base_root}
RefOK(ptr) == IS_NULL(ptr) \/ ptr.node \in Node

(* A flag tells the type of the block the pointer leads to. *)
OpOK(ptr) ==
    CASE GET_FLAG(ptr) = "CHILDCAS" -> UNFLAG(ptr) \in DOMAIN cas
      [] GET_FLAG(ptr) = "RELOCATE" -> UNFLAG(ptr) \in DOMAIN reloc
      [] OTHER -> TRUE

(* The operation at base_root is an insert below it or the removal of the  *)
(* logical root: find() takes any flag there for CHILDCAS.                 *)
BaseRootOp ==
    base_root \in DOMAIN node /\ GET_FLAG(node[base_root].op) \in {"NONE", "CHILDCAS"}

HeapOK ==
    /\ BaseRootOp
    /\ \A a \in DOMAIN node :
          RefOK(node[a].left) /\ RefOK(node[a].right) /\ OpOK(node[a].op)
    /\ \A a \in DOMAIN cas : RefOK(cas[a].update)
    /\ \A a \in DOMAIN reloc : reloc[a].dest \in Node /\ reloc[a].dest_op.flag = "NONE"

(* What the local variables l hold when the thread is at label at. *)
LocalOK(l, at) ==
    /\ l.auxRoot \in DOMAIN node
    /\ l.auxRoot_op.flag = "NONE" /\ l.pred_op.flag = "NONE" /\ l.curr_op.flag = "NONE"
    /\ RefOK(l.next) /\ RefOK(l.old) /\ RefOK(l.new_ref)
    /\ l.auxRoot # base_root => l.pred \in DOMAIN node
    /\ at \in (FindLabel \ {"find"}) \cup OpLabel =>
          l.curr \in DOMAIN node /\ (l.curr = base_root => l.auxRoot = base_root)
    /\ at = "find_visit" => ~IS_NULL(l.next)
    /\ at \in {"find_next", "find_last_right"} => l.result # "FOUND"
    /\ \/ at \in {"find_visit", "find_key", "find_last_right"}
       \/ at = "find_next" /\ l.result = "NOTFOUND_L"
       => l.last_right \in DOMAIN node
    /\ \/ at = "find_key"
       \/ at = "find_curr" /\ l.result = "FOUND"
       \/ at \in OpLabel \ {"add_old", "add_cas"}
       \/ at \in MarkLabel \cup RelocLabel
       => l.pred \in DOMAIN node /\ l.curr \in Node
    /\ at \in {"rem_recheck", "rem_key", "rem_reloc"} => l.auxRoot \in Node
    /\ at \in ChildLabel => l.cas_op \in DOMAIN cas /\ l.dest \in DOMAIN node
    /\ at \in RelocLabel => l.reloc_op \in DOMAIN reloc

(* No thread follows a pointer to memory that is not a block of the type   *)
(* it expects: NULL and unset local variables, a null child pointer whose  *)
(* bit was not tested, an operation taken for one of the other kind (find  *)
(* casts base_root's op to Child_CAS_OP on its flag being set alone).      *)
PointersOK == HeapOK /\ \A t \in Thread : LocalOK(loc[t], pc[t])
=============================================================================
