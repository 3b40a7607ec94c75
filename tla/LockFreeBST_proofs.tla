------------------------ MODULE LockFreeBST_proofs -------------------------
(***************************************************************************)
(* Memory safety of the lock-free tree, for any number of threads, initial *)
(* tree and trace: every variable has its type and no thread follows a     *)
(* pointer that does not lead to a block of the expected kind.             *)
(***************************************************************************)
EXTENDS LockFreeBST, TLAPS

Inv == TypeOK /\ PointersOK

-----------------------------------------------------------------------------
(* The tagged pointers. *)
LEMMA SetFlagType ==
    ASSUME NEW ptr \in OpPtr, NEW f \in Flag
    PROVE  /\ SET_FLAG(ptr, f) \in OpPtr
           /\ SET_FLAG(ptr, f).op = ptr.op
           /\ ptr.flag = "NONE" => SET_FLAG(ptr, f).flag = f
  BY DEF SET_FLAG, OpPtr, FlagOr, Flag

LEMMA OpAtType ==
    ASSUME NEW a \in Addr
    PROVE  OpAt(a) \in OpPtr /\ OpAt(a).flag = "NONE" /\ OpAt(a).op = a
  BY DEF OpAt, OpPtr, Flag

LEMMA BaseRootType == base_root \in Addr
  BY DEF base_root, Addr, Thread

LEMMA NewLocalsType ==
    ASSUME NEW w \in Work
    PROVE  Locals(w) \in LocalState
  BY BaseRootType DEF Locals, LocalState, NullOp, OpAt, SET_NULL, OpPtr, NodePtr, Flag

LEMMA FindCallType ==
    ASSUME NEW l \in LocalState
    PROVE  /\ FindCall(l) \in LocalState
           /\ FindCall(l).auxRoot = l.auxRoot
           /\ FindCall(l).next = SET_NULL(NoNode)
           /\ FindCall(l).old = SET_NULL(NoNode)
           /\ FindCall(l).new_ref = SET_NULL(NoNode)
           /\ FindCall(l).curr_op = NullOp
           /\ FindCall(l).auxRoot_op \in {l.auxRoot_op, NullOp}
           /\ FindCall(l).pred_op \in {l.pred_op, NullOp}
           /\ l.auxRoot # base_root => FindCall(l).pred = l.pred
  <1>1. l.work \in Work /\ l.auxRoot \in Addr /\ l.auxRoot_op \in OpPtr
        /\ l.pred \in Addr \cup {NoNode} /\ l.pred_op \in OpPtr
    BY DEF LocalState
  <1>2. Locals(l.work) \in LocalState
    BY <1>1, NewLocalsType
  <1>3. CASE l.auxRoot = base_root
    BY <1>2, <1>3 DEF FindCall, Locals
  <1>4. CASE l.auxRoot # base_root
    <2>1. FindCall(l) = [Locals(l.work) EXCEPT
                            !.auxRoot = l.auxRoot, !.auxRoot_op = l.auxRoot_op,
                            !.pred = l.pred, !.pred_op = l.pred_op]
      BY <1>4 DEF FindCall
    <2>2. FindCall(l) \in LocalState
      BY <2>1, <1>1, <1>2 DEF LocalState
    <2> QED
      BY <2>1, <2>2 DEF Locals
  <1> QED
    BY <1>3, <1>4

-----------------------------------------------------------------------------
(* Blocks are only ever added: what a thread holds stays good. *)
Grows ==
    /\ DOMAIN node \subseteq DOMAIN node'
    /\ DOMAIN cas \subseteq DOMAIN cas'
    /\ DOMAIN reloc \subseteq DOMAIN reloc'

HeapType ==
    /\ DOMAIN node \subseteq Addr /\ node \in [DOMAIN node -> LF_BST_Node]
    /\ DOMAIN cas \subseteq Addr /\ cas \in [DOMAIN cas -> Child_CAS_OP]
    /\ DOMAIN reloc \subseteq Addr /\ reloc \in [DOMAIN reloc -> Relocate_OP]
    /\ deleted \subseteq Addr
    /\ blocks \in [Thread -> Nat \ {0}]
FilesType == create \in Seq(Int) /\ queue \in Seq(Work)

(* A step that leaves a good heap, in which nothing has gone. *)
HeapStep == HeapType' /\ FilesType' /\ HeapOK' /\ Grows

LEMMA NoHeapStep ==
    ASSUME Inv, UNCHANGED <<heap, files>>
    PROVE  HeapStep
  BY DEF Inv, TypeOK, PointersOK, HeapType, FilesType, HeapOK, BaseRootOp, Grows, HeapStep,
         heap, files, RefOK, Node, OpOK, IS_NULL, GET_FLAG, UNFLAG

(* A step of t keeps the invariant if it leaves a good heap, t with good   *)
(* local variables, and those of the others alone.                         *)
LEMMA PublishInv ==
    ASSUME Inv, NEW t \in Thread, NEW at \in Label, NEW l \in LocalState,
           HeapStep, Goto(t, at), SetLocals(t, l), LocalOK(l, "idle"),
           \/ at = "child_cas" /\ l.cas_op \in DOMAIN cas' /\ l.dest \in DOMAIN node
           \/ /\ at = "reloc_state" /\ l.reloc_op \in DOMAIN reloc'
              /\ l.pred \in DOMAIN node /\ l.curr \in Node
           \/ LocalOK(l, at)
    PROVE  Inv'
  <1>1. TypeOK'
    BY DEF Inv, TypeOK, HeapStep, HeapType, FilesType, Goto, SetLocals
  <1>2. ASSUME NEW u \in Thread
        PROVE  LocalOK(loc[u], pc[u])'
    <2>1. CASE u = t
      <3>1. loc'[u] = l /\ pc'[u] = at
        BY <2>1 DEF Inv, TypeOK, Goto, SetLocals
      <3>2. CASE LocalOK(l, at)
        BY <3>1, <3>2 DEF HeapStep, Grows, LocalOK, RefOK, Node, IS_NULL
      <3>3. CASE at = "child_cas" /\ l.cas_op \in DOMAIN cas' /\ l.dest \in DOMAIN node
        BY <3>1, <3>3 DEF HeapStep, Grows, LocalOK, RefOK, Node, IS_NULL,
             FindLabel, OpLabel, ChildLabel, MarkLabel, RelocLabel
      <3>4. CASE /\ at = "reloc_state" /\ l.reloc_op \in DOMAIN reloc'
                 /\ l.pred \in DOMAIN node /\ l.curr \in Node
        BY <3>1, <3>4 DEF HeapStep, Grows, LocalOK, RefOK, Node, IS_NULL,
             FindLabel, OpLabel, ChildLabel, MarkLabel, RelocLabel
      <3> QED
        BY <3>2, <3>3, <3>4
    <2>2. CASE u # t
      <3>1. loc'[u] = loc[u] /\ pc'[u] = pc[u] /\ LocalOK(loc[u], pc[u])
        BY <2>2 DEF Inv, TypeOK, PointersOK, Goto, SetLocals
      <3> QED
        BY <3>1 DEF HeapStep, Grows, LocalOK, RefOK, Node, IS_NULL
    <2> QED
      BY <2>1, <2>2
  <1> QED
    BY <1>1, <1>2 DEF Inv, PointersOK, HeapStep

LEMMA LocalOKIdle ==
    ASSUME NEW l, NEW at, LocalOK(l, at)
    PROVE  LocalOK(l, "idle") /\ LocalOK(l, "return")
  BY DEF LocalOK, FindLabel, OpLabel, ChildLabel, MarkLabel, RelocLabel

LEMMA StepInv ==
    ASSUME Inv, NEW t \in Thread, NEW at \in Label, NEW l \in LocalState,
           HeapStep, Goto(t, at), SetLocals(t, l), LocalOK(l, at)
    PROVE  Inv'
  BY PublishInv, LocalOKIdle

-----------------------------------------------------------------------------
(***************************************************************************)
(* Where a thread goes on, once the heap is known to be good.              *)
(***************************************************************************)
LEMMA LocalsOf ==
    ASSUME Inv, NEW t \in Thread
    PROVE  loc[t] \in LocalState /\ pc[t] \in Label /\ LocalOK(loc[t], pc[t])
  BY DEF Inv, TypeOK, PointersOK

LEMMA NewLocalsOK ==
    ASSUME Inv, NEW w \in Work, NEW b \in BOOLEAN
    PROVE  /\ Locals(w) \in LocalState
           /\ LocalOK(Locals(w), "find") /\ LocalOK(Locals(w), "idle")
           /\ [Locals(w) EXCEPT !.answer = b] \in LocalState
           /\ LocalOK([Locals(w) EXCEPT !.answer = b], "return")
  <1>1. Locals(w) \in LocalState
    BY NewLocalsType
  <1>2. [Locals(w) EXCEPT !.answer = b] \in LocalState
    BY <1>1 DEF LocalState
  <1>3. base_root \in DOMAIN node
    BY DEF Inv, PointersOK, HeapOK, BaseRootOp
  <1>4. LocalOK(Locals(w), "find") /\ LocalOK(Locals(w), "idle")
    BY <1>3 DEF LocalOK, Locals, NullOp, OpAt, SET_NULL, RefOK, IS_NULL,
       FindLabel, OpLabel, ChildLabel, MarkLabel, RelocLabel
  <1>5. LocalOK([Locals(w) EXCEPT !.answer = b], "return")
    BY <1>3 DEF LocalOK, Locals, NullOp, OpAt, SET_NULL, RefOK, IS_NULL,
       FindLabel, OpLabel, ChildLabel, MarkLabel, RelocLabel
  <1> QED
    BY <1>1, <1>2, <1>4, <1>5

LEMMA FindCallOK ==
    ASSUME NEW l \in LocalState, NEW at, LocalOK(l, at)
    PROVE  LocalOK(FindCall(l), "find") /\ LocalOK(FindCall(l), "idle")
  BY FindCallType DEF LocalOK, NullOp, OpAt, SET_NULL, RefOK, IS_NULL,
     FindLabel, OpLabel, ChildLabel, MarkLabel, RelocLabel

LEMMA WorkType ==
    ASSUME NEW l \in LocalState
    PROVE  l.work \in Work
  BY DEF LocalState

LEMMA LoopInv ==
    ASSUME Inv, NEW t \in Thread, HeapStep, Loop(t)
    PROVE  Inv'
  <1>1. Locals(loc[t].work) \in LocalState /\ LocalOK(Locals(loc[t].work), "find")
    BY LocalsOf, WorkType, NewLocalsOK
  <1> QED
    BY <1>1, StepInv DEF Loop, Label, FindLabel

LEMMA RetryFindInv ==
    ASSUME Inv, NEW t \in Thread, HeapStep, RetryFind(t)
    PROVE  Inv'
  <1>1. FindCall(loc[t]) \in LocalState /\ LocalOK(FindCall(loc[t]), "find")
    BY LocalsOf, FindCallType, FindCallOK
  <1> QED
    BY <1>1, StepInv DEF RetryFind, Label, FindLabel

LEMMA AnswerInv ==
    ASSUME Inv, NEW t \in Thread, NEW b \in BOOLEAN, HeapStep, Answer(t, b)
    PROVE  Inv'
  <1> DEFINE l == [Locals(loc[t].work) EXCEPT !.answer = b]
  <1>1. l \in LocalState /\ LocalOK(l, "return")
    BY LocalsOf, WorkType, NewLocalsOK
  <1>2. SetLocals(t, l) /\ Goto(t, "return")
    BY DEF Answer
  <1> HIDE DEF l
  <1> QED
    BY <1>1, <1>2, StepInv DEF Label

LEMMA HelpedInv ==
    ASSUME Inv, NEW t \in Thread, HeapStep, Helped(t)
    PROVE  Inv'
  BY RetryFindInv, AnswerInv DEF Helped

LEMMA helpMarkedType ==
    ASSUME NEW l \in LocalState, NEW p \in Addr, NEW p_op \in OpPtr, NEW c \in Addr,
           NEW ret \in {"find", "op"}
    PROVE  [l EXCEPT !.pred = p, !.pred_op = p_op, !.curr = c, !.ret = ret] \in LocalState
  BY DEF LocalState

LEMMA helpMarkedInv ==
    ASSUME Inv, NEW t \in Thread, HeapStep,
           NEW l \in LocalState, NEW at, LocalOK(l, at),
           NEW p \in DOMAIN node, NEW p_op \in OpPtr, p_op.flag = "NONE",
           NEW c \in Node, NEW ret \in {"find", "op"},
           helpMarked(t, l, p, p_op, c, ret)
    PROVE  Inv'
  <1> DEFINE m == [FindCall(l) EXCEPT !.pred = p, !.pred_op = p_op, !.curr = c, !.ret = ret]
  <1>1. p \in Addr /\ c \in Addr
    BY DEF Inv, TypeOK, Node
  <1>2. FindCall(l) \in LocalState
    BY FindCallType
  <1>3. m \in LocalState
    BY <1>1, <1>2, helpMarkedType
  <1>4. LocalOK(m, "mark_left")
    <2>1. LocalOK(FindCall(l), "idle")
      BY FindCallOK
    <2> QED
      BY <1>2, <2>1 DEF LocalOK, RefOK, IS_NULL, LocalState,
         FindLabel, OpLabel, ChildLabel, MarkLabel, RelocLabel
  <1>5. SetLocals(t, m) /\ Goto(t, "mark_left")
    BY DEF helpMarked
  <1> HIDE DEF m
  <1> QED
    BY <1>3, <1>4, <1>5, StepInv DEF Label, MarkLabel

LEMMA helpRelocateType ==
    ASSUME NEW l \in LocalState, NEW o \in Addr, NEW p \in Addr, NEW p_op \in OpPtr,
           NEW c \in Addr, NEW ret \in {"find", "op"}
    PROVE  [l EXCEPT !.reloc_op = o, !.pred = p, !.pred_op = p_op, !.curr = c, !.ret = ret]
              \in LocalState
  BY DEF LocalState

LEMMA helpRelocateInv ==
    ASSUME Inv, NEW t \in Thread, HeapStep,
           NEW l \in LocalState, NEW at, LocalOK(l, at),
           NEW o \in Addr, o \in DOMAIN reloc',
           NEW p \in DOMAIN node, NEW p_op \in OpPtr, p_op.flag = "NONE",
           NEW c \in Node, NEW ret \in {"find", "op"},
           helpRelocate(t, l, o, p, p_op, c, ret)
    PROVE  Inv'
  <1> DEFINE m == [FindCall(l) EXCEPT !.reloc_op = o, !.pred = p, !.pred_op = p_op,
                                      !.curr = c, !.ret = ret]
  <1>1. p \in Addr /\ c \in Addr
    BY DEF Inv, TypeOK, Node
  <1>2. FindCall(l) \in LocalState
    BY FindCallType
  <1>3. m \in LocalState
    BY <1>1, <1>2, helpRelocateType
  <1>4. /\ LocalOK(m, "idle") /\ m.reloc_op = o /\ m.pred = p /\ m.curr = c
    <2>1. LocalOK(FindCall(l), "idle")
      BY FindCallOK
    <2> QED
      BY <1>2, <2>1 DEF LocalOK, RefOK, IS_NULL, LocalState,
         FindLabel, OpLabel, ChildLabel, MarkLabel, RelocLabel
  <1>5. SetLocals(t, m) /\ Goto(t, "reloc_state")
    BY DEF helpRelocate
  <1> HIDE DEF m
  <1> QED
    BY <1>3, <1>4, <1>5, PublishInv DEF Label, RelocLabel

LEMMA helpChildCASType ==
    ASSUME NEW l \in LocalState, NEW o \in Addr, NEW d \in Addr, NEW ret \in {"find", "op"}
    PROVE  [l EXCEPT !.cas_op = o, !.dest = d, !.ret = ret] \in LocalState
  BY DEF LocalState

LEMMA helpChildCASInv ==
    ASSUME Inv, NEW t \in Thread, HeapStep,
           NEW l \in LocalState, NEW at, LocalOK(l, at),
           NEW o \in Addr, o \in DOMAIN cas', NEW d \in DOMAIN node,
           NEW ret \in {"find", "op"}, helpChildCAS(t, l, o, d, ret)
    PROVE  Inv'
  <1> DEFINE m == [FindCall(l) EXCEPT !.cas_op = o, !.dest = d, !.ret = ret]
  <1>1. d \in Addr
    BY DEF Inv, TypeOK
  <1>2. FindCall(l) \in LocalState
    BY FindCallType
  <1>3. m \in LocalState
    BY <1>1, <1>2, helpChildCASType
  <1>4. LocalOK(m, "idle") /\ m.cas_op = o /\ m.dest = d
    <2>1. LocalOK(FindCall(l), "idle")
      BY FindCallOK
    <2> QED
      BY <1>2, <2>1 DEF LocalOK, RefOK, IS_NULL, LocalState,
         FindLabel, OpLabel, ChildLabel, MarkLabel, RelocLabel
  <1>5. SetLocals(t, m) /\ Goto(t, "child_cas")
    BY DEF helpChildCAS
  <1> HIDE DEF m
  <1> QED
    BY <1>3, <1>4, <1>5, PublishInv DEF Label, ChildLabel

-----------------------------------------------------------------------------
(***************************************************************************)
(* What a CAS makes of the heap.                                           *)
(***************************************************************************)
(* The operations after a step: those there were and sound new ones. *)
OpsStep ==
    /\ DOMAIN cas \subseteq DOMAIN cas' /\ DOMAIN cas' \subseteq Addr
    /\ cas' \in [DOMAIN cas' -> Child_CAS_OP]
    /\ \A a \in DOMAIN cas' : RefOK(cas'[a].update)
    /\ DOMAIN reloc \subseteq DOMAIN reloc' /\ DOMAIN reloc' \subseteq Addr
    /\ reloc' \in [DOMAIN reloc' -> Relocate_OP]
    /\ \A a \in DOMAIN reloc' : reloc'[a].dest \in Node /\ reloc'[a].dest_op.flag = "NONE"
    /\ deleted' \subseteq Addr
    /\ blocks' \in [Thread -> Nat \ {0}]
    /\ UNCHANGED files

LEMMA NoOpsStep ==
    ASSUME Inv, UNCHANGED <<cas, reloc, deleted, blocks, files>>
    PROVE  OpsStep
  BY DEF Inv, TypeOK, PointersOK, HeapOK, OpsStep, files

OpOKNext(ptr) ==
    /\ GET_FLAG(ptr) = "CHILDCAS" => UNFLAG(ptr) \in DOMAIN cas'
    /\ GET_FLAG(ptr) = "RELOCATE" => UNFLAG(ptr) \in DOMAIN reloc'

LEMMA NodeStep ==
    ASSUME Inv, OpsStep, NEW n \in DOMAIN node, NEW b \in LF_BST_Node,
           node' = [node EXCEPT ![n] = b],
           RefOK(b.left), RefOK(b.right), OpOKNext(b.op),
           n = base_root => b.op.flag \in {"NONE", "CHILDCAS"}
    PROVE  HeapStep
  <1>1. DOMAIN node' = DOMAIN node /\ node' \in [DOMAIN node -> LF_BST_Node]
    BY DEF Inv, TypeOK
  <1>2. \A a \in DOMAIN node : node'[a] = IF a = n THEN b ELSE node[a]
    OBVIOUS
  <1>3. HeapType' /\ FilesType' /\ Grows
    BY <1>1 DEF Inv, TypeOK, HeapType, FilesType, Grows, OpsStep, files
  <1>4. BaseRootOp'
    BY <1>1, <1>2 DEF Inv, PointersOK, HeapOK, BaseRootOp, GET_FLAG
  <1>5. \A a \in DOMAIN node' :
           RefOK(node[a].left)' /\ RefOK(node[a].right)' /\ OpOK(node[a].op)'
    BY <1>1, <1>2 DEF Inv, PointersOK, HeapOK, RefOK, IS_NULL, Node, OpOK, OpOKNext,
       OpsStep, GET_FLAG, UNFLAG
  <1>6. HeapOK'
    BY <1>1, <1>4, <1>5 DEF HeapOK, OpsStep, RefOK, IS_NULL, Node
  <1> QED
    BY <1>3, <1>6 DEF HeapStep

LEMMA CASOpStep ==
    ASSUME Inv, OpsStep, NEW n \in DOMAIN node, NEW old, NEW new \in OpPtr, OpOKNext(new),
           n = base_root => new.flag \in {"NONE", "CHILDCAS"},
           CASOp(n, old, new)
    PROVE  HeapStep
  <1> DEFINE b == IF Matches(n, old) THEN [node[n] EXCEPT !.op = new] ELSE node[n]
  <1>1. node[n] \in LF_BST_Node /\ RefOK(node[n].left) /\ RefOK(node[n].right)
        /\ OpOK(node[n].op)
    BY DEF Inv, TypeOK, PointersOK, HeapOK
  <1>2. b \in LF_BST_Node /\ RefOK(b.left) /\ RefOK(b.right)
    BY <1>1 DEF LF_BST_Node
  <1>3. OpOKNext(b.op)
    BY <1>1 DEF LF_BST_Node, OpOK, OpOKNext, OpsStep
  <1>4. n = base_root => b.op.flag \in {"NONE", "CHILDCAS"}
    BY <1>1 DEF LF_BST_Node, Inv, PointersOK, HeapOK, BaseRootOp, GET_FLAG
  <1>5. node' = [node EXCEPT ![n] = b]
    BY DEF CASOp, Inv, TypeOK
  <1> HIDE DEF b
  <1> QED
    BY <1>2, <1>3, <1>4, <1>5, NodeStep

-----------------------------------------------------------------------------
(***************************************************************************)
(* One lemma for each action.                                              *)
(***************************************************************************)
LEMMA NodeType ==
    ASSUME Inv, NEW n \in DOMAIN node
    PROVE  /\ n \in Addr
           /\ node[n] \in LF_BST_Node
           /\ node[n].key \in Int /\ node[n].op \in OpPtr
           /\ node[n].left \in NodePtr /\ node[n].right \in NodePtr
           /\ RefOK(node[n].left) /\ RefOK(node[n].right) /\ OpOK(node[n].op)
           /\ \A b \in BOOLEAN : ChildOf(node[n], b) \in NodePtr /\ RefOK(ChildOf(node[n], b))
  BY DEF Inv, TypeOK, PointersOK, HeapOK, LF_BST_Node, ChildOf

LEMMA CallInv ==
    ASSUME Inv, NEW t \in Thread, TakeWork(t) \/ (t = Main /\ CreateTree) \/ Return(t)
    PROVE  Inv'
  <1> USE DEF Label, FindLabel
  <1>1. CASE TakeWork(t)
    <2>1. Head(queue) \in Work /\ queue' \in Seq(Work)
      BY <1>1 DEF TakeWork, Inv, TypeOK
    <2>2. HeapStep
      BY <1>1, <2>1 DEF TakeWork, heap, HeapStep, HeapType, FilesType, Grows, Inv, TypeOK,
         PointersOK, HeapOK, BaseRootOp, RefOK, Node, OpOK, IS_NULL, GET_FLAG, UNFLAG
    <2> QED
      BY <1>1, <2>1, <2>2, NewLocalsOK, StepInv DEF TakeWork
  <1>2. CASE t = Main /\ CreateTree
    <2> DEFINE w == [op |-> "INSERT", key |-> Head(create)]
    <2>1. w \in Work /\ create' \in Seq(Int)
      BY <1>2 DEF CreateTree, Inv, TypeOK, Work
    <2>2. HeapStep
      BY <1>2, <2>1 DEF CreateTree, heap, HeapStep, HeapType, FilesType, Grows, Inv, TypeOK,
         PointersOK, HeapOK, BaseRootOp, RefOK, Node, OpOK, IS_NULL, GET_FLAG, UNFLAG
    <2> QED
      BY <1>2, <2>1, <2>2, NewLocalsOK, StepInv DEF CreateTree
  <1>3. CASE Return(t)
    <2>1. HeapStep
      BY <1>3, NoHeapStep DEF Return
    <2>2. NoWork \in Work
      BY DEF NoWork, Work
    <2> QED
      BY <1>3, <2>1, <2>2, NewLocalsOK, StepInv DEF Return
  <1> QED
    BY <1>1, <1>2, <1>3

LEMMA FindStartInv ==
    ASSUME Inv, NEW t \in Thread, FindStart(t)
    PROVE  Inv'
  <1> DEFINE l == loc[t]
             o == node[l.auxRoot].op
             m == [l EXCEPT !.curr = l.auxRoot, !.curr_op = o, !.result = "NOTFOUND_R"]
  <1>1. HeapStep
    BY NoHeapStep DEF FindStart
  <1>2. l \in LocalState /\ LocalOK(l, "find")
    BY LocalsOf DEF FindStart
  <1>3. l.auxRoot \in DOMAIN node
    BY <1>2 DEF LocalOK
  <1>4. o \in OpPtr /\ OpOK(o) /\ l.auxRoot \in Addr
    BY <1>3, NodeType
  <1>5. CASE GET_FLAG(o) = "NONE"
    <2>1. m \in LocalState
      BY <1>2, <1>4 DEF LocalState
    <2>2. LocalOK(m, "find_next")
      BY <1>2, <1>3, <1>5 DEF LocalOK, LocalState, GET_FLAG, RefOK, IS_NULL,
         FindLabel, OpLabel, ChildLabel, MarkLabel, RelocLabel
    <2>3. Goto(t, "find_next") /\ SetLocals(t, m)
      BY <1>5 DEF FindStart
    <2> HIDE DEF m
    <2> QED
      BY <1>1, <2>1, <2>2, <2>3, StepInv DEF Label, FindLabel
  <1>6. CASE GET_FLAG(o) # "NONE" /\ HelpsRoot(l)
    <2>1. UNFLAG(o) \in DOMAIN cas
      BY <1>4, <1>6 DEF HelpsRoot, Inv, PointersOK, HeapOK, BaseRootOp, OpOK
    <2>2. UNFLAG(o) \in Addr /\ UNFLAG(o) \in DOMAIN cas'
      BY <1>1, <2>1 DEF Inv, TypeOK, HeapStep, Grows
    <2>3. helpChildCAS(t, l, UNFLAG(o), l.auxRoot, "find")
      BY <1>6 DEF FindStart
    <2> QED
      BY <1>1, <1>2, <1>3, <2>2, <2>3, helpChildCASInv
  <1>7. CASE GET_FLAG(o) # "NONE" /\ ~HelpsRoot(l)
    BY <1>1, <1>7, LoopInv DEF FindStart, Abort
  <1> QED
    BY <1>5, <1>6, <1>7

LEMMA FindNextInv ==
    ASSUME Inv, NEW t \in Thread, FindNext(t)
    PROVE  Inv'
  <1> DEFINE l == loc[t]
             isLeft == l.result = "NOTFOUND_L"
             child == ChildOf(node[l.curr], isLeft)
             m == IF isLeft THEN [l EXCEPT !.next = child]
                  ELSE [l EXCEPT !.next = child, !.last_right = l.curr,
                                 !.last_right_op = l.curr_op]
             at == IF IS_NULL(child) THEN "find_last_right" ELSE "find_visit"
  <1>1. HeapStep
    BY NoHeapStep DEF FindNext
  <1>2. l \in LocalState /\ LocalOK(l, "find_next")
    BY LocalsOf DEF FindNext
  <1>3. l.curr \in DOMAIN node
    BY <1>2 DEF LocalOK, FindLabel
  <1>4. child \in NodePtr /\ RefOK(child) /\ l.curr \in Addr
    BY <1>3, NodeType
  <1>5. m \in LocalState
    BY <1>2, <1>4 DEF LocalState
  <1>6. LocalOK(m, at)
    <2>1. m.next = child /\ m.curr = l.curr /\ m.auxRoot = l.auxRoot
          /\ m.auxRoot_op = l.auxRoot_op /\ m.pred_op = l.pred_op /\ m.curr_op = l.curr_op
          /\ m.old = l.old /\ m.new_ref = l.new_ref /\ m.pred = l.pred
          /\ m.result = l.result
          /\ m.last_right = IF isLeft THEN l.last_right ELSE l.curr
      BY <1>2 DEF LocalState
    <2> HIDE DEF m, child
    <2> QED
      BY <1>2, <1>3, <1>4, <2>1 DEF LocalOK,
         FindLabel, OpLabel, ChildLabel, MarkLabel, RelocLabel
  <1>7. Goto(t, at) /\ SetLocals(t, m) /\ at \in Label
    BY DEF FindNext, Label, FindLabel
  <1> HIDE DEF m, at
  <1> QED
    BY <1>1, <1>5, <1>6, <1>7, StepInv

LEMMA DescendedType ==
    ASSUME NEW l \in LocalState, LocalOK(l, "find_visit")
    PROVE  /\ Descended(l) \in LocalState /\ LocalOK(Descended(l), "idle")
           /\ Descended(l).auxRoot = l.auxRoot /\ Descended(l).auxRoot_op = l.auxRoot_op
           /\ Descended(l).work = l.work /\ Descended(l).pred = l.curr
  <1>1. PICK m, p, o : p = l.curr /\ o = l.curr_op /\ m = [l EXCEPT !.pred = p, !.pred_op = o]
    OBVIOUS
  <1>2. Descended(l) = m
    BY <1>1 DEF Descended
  <1>3. p \in Addr \cup {NoNode} /\ o \in OpPtr /\ o.flag = "NONE" /\ p \in DOMAIN node
    BY <1>1 DEF LocalOK, LocalState, FindLabel
  <1>4. m \in LocalState
    BY <1>1, <1>3 DEF LocalState
  <1>5. /\ m.auxRoot = l.auxRoot /\ m.auxRoot_op = l.auxRoot_op /\ m.work = l.work
        /\ m.pred = p /\ m.pred_op = o /\ m.curr_op = l.curr_op
        /\ m.next = l.next /\ m.old = l.old /\ m.new_ref = l.new_ref
    BY <1>1 DEF LocalState
  <1>6. LocalOK(m, "idle")
    BY <1>3, <1>5 DEF LocalOK, FindLabel, OpLabel, ChildLabel, MarkLabel, RelocLabel
  <1> QED
    BY <1>1, <1>2, <1>4, <1>5, <1>6

LEMMA FindVisitInv ==
    ASSUME Inv, NEW t \in Thread, FindVisit(t)
    PROVE  Inv'
  <1> DEFINE l == loc[t]
             c == l.next.node
             o == node[c].op
             m == [l EXCEPT !.pred = l.curr, !.pred_op = l.curr_op, !.curr = c,
                            !.curr_op = o, !.next = SET_NULL(NoNode)]
  <1>1. HeapStep
    BY NoHeapStep DEF FindVisit
  <1>2. l \in LocalState /\ LocalOK(l, "find_visit")
    BY LocalsOf DEF FindVisit
  <1>3. /\ c \in Node /\ c \in DOMAIN node /\ l.curr \in DOMAIN node
        /\ l.curr \in Addr /\ l.curr_op \in OpPtr /\ l.curr_op.flag = "NONE"
    BY <1>2, NodeType DEF LocalOK, RefOK, Node, FindLabel, LocalState
  <1>4. o \in OpPtr /\ OpOK(o) /\ c \in Addr
    BY <1>3, NodeType
  <1>5. CASE GET_FLAG(o) = "NONE"
    <2>1. m \in LocalState
      BY <1>2, <1>3, <1>4 DEF LocalState, SET_NULL, NodePtr
    <2>2. LocalOK(m, "find_key")
      BY <1>2, <1>3, <1>5 DEF LocalOK, LocalState, GET_FLAG, RefOK, IS_NULL, SET_NULL, Node,
         FindLabel, OpLabel, ChildLabel, MarkLabel, RelocLabel
    <2>3. Goto(t, "find_key") /\ SetLocals(t, m)
      BY <1>5 DEF FindVisit
    <2> HIDE DEF m
    <2> QED
      BY <1>1, <2>1, <2>2, <2>3, StepInv DEF Label, FindLabel
  <1>6. CASE GET_FLAG(o) = "CHILDCAS"
    <2>1. UNFLAG(o) \in DOMAIN cas /\ UNFLAG(o) \in Addr /\ UNFLAG(o) \in DOMAIN cas'
      BY <1>1, <1>4, <1>6 DEF OpOK, Inv, TypeOK, HeapStep, Grows
    <2>2. helpChildCAS(t, Descended(l), UNFLAG(o), c, "find")
      BY <1>6 DEF FindVisit
    <2>3. Descended(l) \in LocalState /\ LocalOK(Descended(l), "idle")
      BY <1>2, <1>3, DescendedType
    <2> QED
      BY <1>1, <1>3, <2>1, <2>2, <2>3, helpChildCASInv
  <1>7. CASE GET_FLAG(o) = "RELOCATE"
    <2>1. UNFLAG(o) \in DOMAIN reloc /\ UNFLAG(o) \in Addr /\ UNFLAG(o) \in DOMAIN reloc'
      BY <1>1, <1>4, <1>7 DEF OpOK, Inv, TypeOK, HeapStep, Grows
    <2>2. helpRelocate(t, l, UNFLAG(o), l.curr, l.curr_op, c, "find")
      BY <1>7 DEF FindVisit
    <2> QED
      BY <1>1, <1>2, <1>3, <2>1, <2>2, helpRelocateInv
  <1>8. CASE GET_FLAG(o) = "MARK"
    <2>1. helpMarked(t, l, l.curr, l.curr_op, c, "find")
      BY <1>8 DEF FindVisit
    <2> QED
      BY <1>1, <1>2, <1>3, <2>1, helpMarkedInv
  <1> QED
    BY <1>4, <1>5, <1>6, <1>7, <1>8 DEF OpPtr, Flag, GET_FLAG

LEMMA FindKeyInv ==
    ASSUME Inv, NEW t \in Thread, FindKey(t)
    PROVE  Inv'
  <1> DEFINE l == loc[t]
  <1>1. PICK res \in {"NOTFOUND_L", "NOTFOUND_R", "FOUND"} :
           /\ Goto(t, IF res = "FOUND" THEN "find_curr" ELSE "find_next")
           /\ SetLocals(t, [l EXCEPT !.result = res])
    BY DEF FindKey
  <1>2. HeapStep
    BY NoHeapStep DEF FindKey
  <1>3. l \in LocalState /\ LocalOK(l, "find_key")
    BY LocalsOf DEF FindKey
  <1> DEFINE m == [l EXCEPT !.result = res]
             at == IF res = "FOUND" THEN "find_curr" ELSE "find_next"
  <1>4. m \in LocalState
    BY <1>3 DEF LocalState
  <1>5. LocalOK(m, at)
    BY <1>3 DEF LocalOK, LocalState, RefOK, IS_NULL,
       FindLabel, OpLabel, ChildLabel, MarkLabel, RelocLabel
  <1>6. at \in Label
    BY DEF Label, FindLabel
  <1> HIDE DEF m, at
  <1> QED
    BY <1>1, <1>2, <1>4, <1>5, <1>6, StepInv DEF m, at

LEMMA FindLastRightInv ==
    ASSUME Inv, NEW t \in Thread, FindLastRight(t)
    PROVE  Inv'
  <1>1. HeapStep
    BY NoHeapStep DEF FindLastRight
  <1>2. CASE RetryFind(t)
    BY <1>1, <1>2, RetryFindInv
  <1>3. CASE Goto(t, "find_curr") /\ UNCHANGED loc
    <2>1. loc[t] \in LocalState /\ LocalOK(loc[t], "find_last_right")
      BY LocalsOf DEF FindLastRight
    <2>2. LocalOK(loc[t], "find_curr")
      BY <1>3, <2>1 DEF LocalOK, FindLabel, OpLabel, ChildLabel, MarkLabel, RelocLabel
    <2>3. SetLocals(t, loc[t])
      BY <1>3 DEF SetLocals, Inv, TypeOK
    <2> QED
      BY <1>1, <1>3, <2>1, <2>2, <2>3, StepInv DEF Label, FindLabel
  <1> QED
    BY <1>2, <1>3 DEF FindLastRight

(* The local variables with which find() returns to add() or remove(). *)
FoundLocals(l) ==
    [FindCall(l) EXCEPT !.pred = l.pred, !.pred_op = l.pred_op,
                        !.curr = l.curr, !.curr_op = l.curr_op, !.result = l.result]

LEMMA FoundType ==
    ASSUME NEW l \in LocalState, NEW m \in LocalState
    PROVE  [m EXCEPT !.pred = l.pred, !.pred_op = l.pred_op, !.curr = l.curr,
                     !.curr_op = l.curr_op, !.result = l.result] \in LocalState
  <1> DEFINE n == [m EXCEPT !.pred = l.pred, !.pred_op = l.pred_op]
             k == [n EXCEPT !.curr = l.curr, !.curr_op = l.curr_op]
  <1>1. n \in LocalState
    BY DEF LocalState
  <1> HIDE DEF n
  <1>2. k \in LocalState
    BY <1>1 DEF LocalState
  <1> HIDE DEF k
  <1>3. [k EXCEPT !.result = l.result] \in LocalState
    BY <1>2 DEF LocalState
  <1> QED
    BY <1>3 DEF n, k

LEMMA FoundFields ==
    ASSUME NEW l \in LocalState
    PROVE  LET m == FoundLocals(l)
           IN  /\ m.pred = l.pred /\ m.pred_op = l.pred_op /\ m.curr = l.curr
               /\ m.curr_op = l.curr_op /\ m.result = l.result
               /\ m.auxRoot = FindCall(l).auxRoot /\ m.auxRoot_op = FindCall(l).auxRoot_op
               /\ m.next = FindCall(l).next /\ m.old = FindCall(l).old
               /\ m.new_ref = FindCall(l).new_ref
  <1>1. FindCall(l) \in LocalState
    BY FindCallType
  <1> QED
    BY <1>1 DEF FoundLocals, LocalState

LEMMA FindCurrInv ==
    ASSUME Inv, NEW t \in Thread, FindCurr(t)
    PROVE  Inv'
  <1> DEFINE l == loc[t]
             m == FoundLocals(l)
  <1>1. HeapStep
    BY NoHeapStep DEF FindCurr
  <1>2. l \in LocalState /\ LocalOK(l, "find_curr")
    BY LocalsOf DEF FindCurr
  <1>3. m \in LocalState
    BY <1>2, FindCallType, FoundType DEF FoundLocals
  <1>4. l.work.op \in {"INSERT", "SEARCH", "DELETE"}
    BY <1>2 DEF LocalState, Work
  <1>5. CASE RetryFind(t)
    BY <1>1, <1>5, RetryFindInv
  <1>6. CASE Answer(t, l.result = "FOUND") \/ Answer(t, FALSE)
    BY <1>1, <1>6, AnswerInv
  <1>7. ASSUME NEW at \in {"add_old", "rem_right", "rem_recheck"},
               Goto(t, at), SetLocals(t, m),
               at = "rem_right" => l.result = "FOUND",
               at = "rem_recheck" => l.auxRoot # base_root
        PROVE  Inv'
    <2>1. l.auxRoot \in DOMAIN node /\ l.curr \in DOMAIN node
      BY <1>2 DEF LocalOK, FindLabel
    <2>2. at # "add_old" => l.pred \in DOMAIN node /\ l.curr \in Node
      BY <1>2, <1>7, <2>1 DEF LocalOK, FindLabel, Node
    <2>3. LocalOK(FindCall(l), "idle") /\ FindCall(l).auxRoot = l.auxRoot
      BY <1>2, FindCallOK, FindCallType
    <2>4. LocalOK(m, at)
      BY <1>2, <1>7, <2>1, <2>2, <2>3, FoundFields DEF LocalOK, Node,
         FindLabel, OpLabel, ChildLabel, MarkLabel, RelocLabel
    <2> HIDE DEF m
    <2> QED
      BY <1>1, <1>3, <1>7, <2>4, StepInv DEF Label, OpLabel
  <1> QED
    BY <1>4, <1>5, <1>6, <1>7 DEF FindCurr, FindReturn, FoundLocals

LEMMA AddReadOldType ==
    ASSUME NEW l \in LocalState, NEW m \in LocalState, NEW b \in BOOLEAN, NEW r \in NodePtr
    PROVE  [m EXCEPT !.curr = l.curr, !.curr_op = l.curr_op, !.is_left = b, !.old = r]
              \in LocalState
  BY DEF LocalState

LEMMA AddReadOldInv ==
    ASSUME Inv, NEW t \in Thread, AddReadOld(t)
    PROVE  Inv'
  <1> DEFINE l == loc[t]
             isLeft == l.result = "NOTFOUND_L"
             r == ChildOf(node[l.curr], isLeft)
             m == [Locals(l.work) EXCEPT !.curr = l.curr, !.curr_op = l.curr_op,
                                         !.is_left = isLeft, !.old = r]
  <1>1. HeapStep
    BY NoHeapStep DEF AddReadOld
  <1>2. l \in LocalState /\ LocalOK(l, "add_old")
    BY LocalsOf DEF AddReadOld
  <1>3. l.curr \in DOMAIN node /\ l.work \in Work
    BY <1>2 DEF LocalOK, OpLabel, LocalState
  <1>4. r \in NodePtr /\ RefOK(r)
    BY <1>3, NodeType
  <1>5. Locals(l.work) \in LocalState /\ LocalOK(Locals(l.work), "idle")
    BY <1>3, NewLocalsOK
  <1>6. m \in LocalState
    BY <1>2, <1>4, <1>5, AddReadOldType
  <1>7. /\ m.auxRoot = base_root /\ base_root = Locals(l.work).auxRoot /\ m.curr = l.curr /\ m.curr_op = l.curr_op /\ m.old = r
        /\ m.auxRoot_op = Locals(l.work).auxRoot_op /\ m.pred_op = Locals(l.work).pred_op
        /\ m.next = Locals(l.work).next /\ m.new_ref = Locals(l.work).new_ref
    BY <1>5 DEF Locals
  <1>8. Goto(t, "add_cas") /\ SetLocals(t, m)
    BY DEF AddReadOld
  <1> HIDE DEF m, r
  <1>9. LocalOK(m, "add_cas")
    BY <1>2, <1>3, <1>4, <1>5, <1>7 DEF LocalOK,
       FindLabel, OpLabel, ChildLabel, MarkLabel, RelocLabel
  <1> QED
    BY <1>1, <1>6, <1>8, <1>9, StepInv DEF Label, OpLabel

LEMMA SetOpType ==
    ASSUME NEW b \in LF_BST_Node, NEW o \in OpPtr
    PROVE  LET c == [b EXCEPT !.op = o]
           IN  c \in LF_BST_Node /\ c.left = b.left /\ c.right = b.right /\ c.op = o
  BY DEF LF_BST_Node

(* The address a thread gives to the next block it publishes. *)
LEMMA NewAddr ==
    ASSUME Inv, NEW t \in Thread
    PROVE  /\ <<t, blocks[t]>> \in Addr /\ <<t, blocks[t]>> # base_root
           /\ [blocks EXCEPT ![t] = @ + 1] \in [Thread -> Nat \ {0}]
  <1>1. blocks[t] \in Nat /\ blocks[t] # 0 /\ blocks \in [Thread -> Nat \ {0}]
    BY DEF Inv, TypeOK
  <1>2. [blocks EXCEPT ![t] = @ + 1] \in [Thread -> Nat \ {0}]
    BY <1>1
  <1> QED
    BY <1>1, <1>2 DEF Addr, base_root

LEMMA AddPublishInv ==
    ASSUME Inv, NEW t \in Thread, AddPublish(t)
    PROVE  Inv'
  <1> DEFINE l == loc[t]
             a == <<t, blocks[t]>>
             k == l.work.key
             op == [is_left |-> l.is_left, expected |-> l.old, update |-> NodeAt(a)]
             new == SET_FLAG(OpAt(a), "CHILDCAS")
  <1>1. l \in LocalState /\ LocalOK(l, "add_cas")
    BY LocalsOf DEF AddPublish
  <1>2. CASE Matches(l.curr, l.curr_op)
    <2>1. /\ node' = [Store(node, a, create_LF_node(k)) EXCEPT ![l.curr].op = new]
          /\ cas' = Store(cas, a, op)
          /\ blocks' = [blocks EXCEPT ![t] = @ + 1]
          /\ helpChildCAS(t, l, a, l.curr, "op")
          /\ UNCHANGED <<reloc, deleted, files>>
      BY <1>2 DEF AddPublish
    <2>2. l.curr \in DOMAIN node /\ k \in Int /\ l.is_left \in BOOLEAN /\ l.old \in NodePtr
      BY <1>1 DEF LocalOK, OpLabel, LocalState, Work
    <2>3. a \in Addr /\ a # base_root /\ blocks' \in [Thread -> Nat \ {0}]
      BY <2>1, NewAddr
    <2>4. new \in OpPtr /\ new.flag = "CHILDCAS" /\ new.op = a
      BY <2>3, OpAtType, SetFlagType DEF Flag
    <2>5. op \in Child_CAS_OP /\ op.update.node = a
      BY <2>2, <2>3 DEF Child_CAS_OP, NodePtr, NodeAt
    <2>6. create_LF_node(k) \in LF_BST_Node /\ IS_NULL(create_LF_node(k).left)
          /\ IS_NULL(create_LF_node(k).right) /\ create_LF_node(k).op.flag = "NONE"
      BY <2>2 DEF create_LF_node, LF_BST_Node, NullOp, OpAt, SET_NULL, IS_NULL, OpPtr,
         NodePtr, Flag
    <2> HIDE DEF a, new, op
    <2>7. /\ DOMAIN cas' = DOMAIN cas \cup {a}
          /\ \A x \in DOMAIN cas' : cas'[x] = IF x = a THEN op ELSE cas[x]
          /\ cas' \in [DOMAIN cas' -> Child_CAS_OP] /\ DOMAIN cas' \subseteq Addr
      BY <2>1, <2>3, <2>5 DEF Store, Inv, TypeOK
    <2> DEFINE old(x) == IF x = a THEN create_LF_node(k) ELSE node[x]
    <2>8. /\ DOMAIN node' = DOMAIN node \cup {a}
          /\ \A x \in DOMAIN node' :
                node'[x] = IF x = l.curr THEN [old(x) EXCEPT !.op = new] ELSE old(x)
      BY <2>1, <2>2 DEF Store
    <2>9. \A x \in DOMAIN node \cup {a} :
             old(x) \in LF_BST_Node /\ RefOK(old(x).left) /\ RefOK(old(x).right)
             /\ (x # a => old(x).op = node[x].op) /\ (x = a => old(x).op.flag = "NONE")
      BY <2>6, NodeType DEF RefOK
    <2> HIDE DEF old
    <2>10. \A x \in DOMAIN node' :
              /\ node'[x] \in LF_BST_Node
              /\ node'[x].left = old(x).left /\ node'[x].right = old(x).right
              /\ node'[x].op = IF x = l.curr THEN new ELSE old(x).op
      <3> SUFFICES ASSUME NEW x \in DOMAIN node'
                   PROVE  /\ node'[x] \in LF_BST_Node
                          /\ node'[x].left = old(x).left /\ node'[x].right = old(x).right
                          /\ node'[x].op = IF x = l.curr THEN new ELSE old(x).op
        OBVIOUS
      <3>1. old(x) \in LF_BST_Node
        BY <2>8, <2>9
      <3>2. CASE x = l.curr
        <4>1. node'[x] = [old(x) EXCEPT !.op = new]
          BY <2>8, <3>2
        <4> QED
          BY <2>4, <3>1, <3>2, <4>1, SetOpType
      <3>3. CASE x # l.curr
        BY <2>8, <3>1, <3>3
      <3> QED
        BY <3>2, <3>3
    <2>11. node' \in [DOMAIN node' -> LF_BST_Node] /\ DOMAIN node' \subseteq Addr
      BY <2>1, <2>3, <2>8, <2>10 DEF Store, Inv, TypeOK
    <2>12. Grows /\ HeapType' /\ FilesType'
      BY <2>1, <2>3, <2>7, <2>8, <2>11 DEF Grows, HeapType, FilesType, Inv, TypeOK, files
    <2>13. BaseRootOp'
      BY <2>3, <2>4, <2>8, <2>9, <2>10 DEF Inv, PointersOK, HeapOK, BaseRootOp, GET_FLAG
    <2>14. \A x \in DOMAIN node' :
              RefOK(node[x].left)' /\ RefOK(node[x].right)' /\ OpOK(node[x].op)'
      <3> SUFFICES ASSUME NEW x \in DOMAIN node'
                   PROVE  RefOK(node[x].left)' /\ RefOK(node[x].right)' /\ OpOK(node[x].op)'
        OBVIOUS
      <3>1. RefOK(node[x].left)' /\ RefOK(node[x].right)'
        <4>1. RefOK(node'[x].left) /\ RefOK(node'[x].right)
          BY <2>8, <2>9, <2>10
        <4> QED
          BY <2>8, <4>1 DEF RefOK, IS_NULL, Node
      <3>2. OpOK(node[x].op)'
        <4>1. CASE x = l.curr
          BY <2>4, <2>7, <2>10, <4>1 DEF OpOK, GET_FLAG, UNFLAG
        <4>2. CASE x # l.curr /\ x = a
          BY <2>9, <2>10, <2>8, <4>2 DEF OpOK, GET_FLAG
        <4>3. CASE x # l.curr /\ x # a
          <5>1. x \in DOMAIN node /\ node'[x].op = node[x].op
            BY <2>8, <2>9, <2>10, <4>3
          <5> QED
            BY <2>1, <2>7, <5>1, NodeType DEF OpOK, GET_FLAG, UNFLAG
        <4> QED
          BY <4>1, <4>2, <4>3
      <3> QED
        BY <3>1, <3>2
    <2>15. \A x \in DOMAIN cas' : RefOK(cas[x].update)'
      BY <2>3, <2>5, <2>7, <2>8 DEF Inv, PointersOK, HeapOK, RefOK, IS_NULL, Node
    <2>16. HeapStep
      BY <2>1, <2>8, <2>12, <2>13, <2>14, <2>15 DEF HeapStep, HeapOK, Inv, PointersOK, Node
    <2> QED
      BY <1>1, <2>1, <2>2, <2>3, <2>7, <2>16, helpChildCASInv
  <1>3. CASE ~Matches(l.curr, l.curr_op)
    <2>1. HeapStep /\ Loop(t)
      BY <1>3, NoHeapStep DEF AddPublish, heap
    <2> QED
      BY <2>1, LoopInv
  <1> QED
    BY <1>2, <1>3

LEMMA RemoveReadRightInv ==
    ASSUME Inv, NEW t \in Thread, RemoveReadRight(t)
    PROVE  Inv'
  <1> DEFINE at == IF IS_NULL(node[loc[t].curr].right) THEN "rem_mark" ELSE "rem_left"
  <1>1. HeapStep /\ Goto(t, at) /\ UNCHANGED loc
    BY NoHeapStep DEF RemoveReadRight
  <1>2. loc[t] \in LocalState /\ LocalOK(loc[t], "rem_right")
    BY LocalsOf DEF RemoveReadRight
  <1>3. at \in {"rem_mark", "rem_left"}
    OBVIOUS
  <1> HIDE DEF at
  <1>4. LocalOK(loc[t], at) /\ at \in Label
    BY <1>2, <1>3 DEF LocalOK, Label, FindLabel, OpLabel, ChildLabel, MarkLabel, RelocLabel
  <1>5. SetLocals(t, loc[t])
    BY <1>1 DEF SetLocals, Inv, TypeOK
  <1> QED
    BY <1>1, <1>2, <1>4, <1>5, StepInv

LEMMA SetRootType ==
    ASSUME NEW l \in LocalState, NEW r \in Addr, NEW o \in OpPtr
    PROVE  LET m == [l EXCEPT !.auxRoot = r, !.auxRoot_op = o]
           IN  /\ m \in LocalState /\ m.auxRoot = r /\ m.auxRoot_op = o
               /\ m.pred = l.pred /\ m.pred_op = l.pred_op /\ m.curr_op = l.curr_op
               /\ m.next = l.next /\ m.old = l.old /\ m.new_ref = l.new_ref
  BY DEF LocalState

LEMMA RemoveReadLeftInv ==
    ASSUME Inv, NEW t \in Thread, RemoveReadLeft(t)
    PROVE  Inv'
  <1> DEFINE l == loc[t]
             m == [l EXCEPT !.auxRoot = l.curr, !.auxRoot_op = l.curr_op]
  <1>1. HeapStep
    BY NoHeapStep DEF RemoveReadLeft
  <1>2. l \in LocalState /\ LocalOK(l, "rem_left")
    BY LocalsOf DEF RemoveReadLeft
  <1>3. CASE Goto(t, "rem_mark") /\ UNCHANGED loc
    <2>1. LocalOK(l, "rem_mark") /\ "rem_mark" \in Label
      BY <1>2 DEF LocalOK, Label, FindLabel, OpLabel, ChildLabel, MarkLabel, RelocLabel
    <2>2. SetLocals(t, l)
      BY <1>3 DEF SetLocals, Inv, TypeOK
    <2> QED
      BY <1>1, <1>2, <1>3, <2>1, <2>2, StepInv
  <1>4. CASE Goto(t, "find") /\ SetLocals(t, FindCall(m))
    <2>1. /\ l.curr \in Node /\ l.curr \in DOMAIN node /\ l.pred \in DOMAIN node
          /\ l.curr \in Addr /\ l.curr_op \in OpPtr
      BY <1>2, NodeType DEF LocalOK, OpLabel, Node, LocalState
    <2>2. m \in LocalState /\ m.auxRoot = l.curr
      BY <1>2, <2>1, SetRootType
    <2>3. LocalOK(m, "idle")
      <3>1. /\ m.auxRoot_op = l.curr_op /\ m.pred = l.pred /\ m.pred_op = l.pred_op
            /\ m.curr_op = l.curr_op /\ m.next = l.next /\ m.old = l.old
            /\ m.new_ref = l.new_ref
        BY <1>2 DEF LocalState
      <3> HIDE DEF m
      <3> QED
        BY <1>2, <2>1, <2>2, <3>1 DEF LocalOK,
           FindLabel, OpLabel, ChildLabel, MarkLabel, RelocLabel
    <2>4. FindCall(m) \in LocalState /\ LocalOK(FindCall(m), "find")
      BY <2>2, <2>3, FindCallType, FindCallOK
    <2> HIDE DEF m
    <2> QED
      BY <1>1, <1>4, <2>4, StepInv DEF Label, FindLabel
  <1> QED
    BY <1>3, <1>4 DEF RemoveReadLeft

LEMMA RemoveMarkInv ==
    ASSUME Inv, NEW t \in Thread, RemoveMark(t)
    PROVE  Inv'
  <1> DEFINE l == loc[t]
             new == SET_FLAG(l.curr_op, "MARK")
  <1>1. l \in LocalState /\ LocalOK(l, "rem_mark")
    BY LocalsOf DEF RemoveMark
  <1>2. /\ l.curr \in Node /\ l.curr \in DOMAIN node /\ l.curr # base_root
        /\ l.pred \in DOMAIN node /\ l.curr_op \in OpPtr /\ l.curr_op.flag = "NONE"
        /\ l.pred_op \in OpPtr /\ l.pred_op.flag = "NONE" /\ l.work \in Work
    BY <1>1 DEF LocalOK, OpLabel, Node, LocalState
  <1>3. new \in OpPtr /\ new.flag = "MARK"
    BY <1>2, SetFlagType DEF Flag
  <1>4. OpOKNext(new)
    BY <1>3 DEF OpOKNext, GET_FLAG
  <1>5. OpsStep /\ CASOp(l.curr, l.curr_op, new)
    BY NoOpsStep DEF RemoveMark
  <1> HIDE DEF new
  <1>6. HeapStep
    BY <1>2, <1>3, <1>4, <1>5, CASOpStep
  <1>7. Locals(l.work) \in LocalState /\ LocalOK(Locals(l.work), "find")
    BY <1>2, NewLocalsOK
  <1>8. helpMarked(t, Locals(l.work), l.pred, l.pred_op, l.curr, "op") \/ Loop(t)
    BY DEF RemoveMark
  <1> QED
    BY <1>2, <1>6, <1>7, <1>8, helpMarkedInv, LoopInv

(* A thread goes on with the local variables it has. *)
LEMMA SameLocalsInv ==
    ASSUME Inv, NEW t \in Thread, NEW at \in Label, HeapStep, Goto(t, at), UNCHANGED loc,
           LocalOK(loc[t], at)
    PROVE  Inv'
  <1>1. loc[t] \in LocalState /\ SetLocals(t, loc[t])
    BY LocalsOf DEF SetLocals, Inv, TypeOK
  <1> QED
    BY <1>1, StepInv

LEMMA RemoveRecheckInv ==
    ASSUME Inv, NEW t \in Thread, RemoveRecheck(t)
    PROVE  Inv'
  <1>1. HeapStep
    BY NoHeapStep DEF RemoveRecheck
  <1>2. CASE Loop(t)
    BY <1>1, <1>2, LoopInv
  <1>3. CASE Goto(t, "rem_key") /\ UNCHANGED loc
    <2>1. LocalOK(loc[t], "rem_recheck")
      BY LocalsOf DEF RemoveRecheck
    <2>2. LocalOK(loc[t], "rem_key") /\ "rem_key" \in Label
      BY <2>1 DEF LocalOK, Label, FindLabel, OpLabel, ChildLabel, MarkLabel, RelocLabel
    <2> QED
      BY <1>1, <1>3, <2>2, SameLocalsInv
  <1> QED
    BY <1>2, <1>3 DEF RemoveRecheck

LEMMA RemoveReadKeyInv ==
    ASSUME Inv, NEW t \in Thread, RemoveReadKey(t)
    PROVE  Inv'
  <1> DEFINE l == loc[t]
             m == [l EXCEPT !.replace_key = node[l.curr].key]
  <1>1. HeapStep
    BY NoHeapStep DEF RemoveReadKey
  <1>2. l \in LocalState /\ LocalOK(l, "rem_key")
    BY LocalsOf DEF RemoveReadKey
  <1>3. node[l.curr].key \in Int
    BY <1>2, NodeType DEF LocalOK, OpLabel, Node
  <1>4. m \in LocalState
    BY <1>2, <1>3 DEF LocalState
  <1>5. LocalOK(m, "rem_reloc")
    BY <1>2 DEF LocalOK, LocalState, RefOK, IS_NULL,
       FindLabel, OpLabel, ChildLabel, MarkLabel, RelocLabel
  <1>6. Goto(t, "rem_reloc") /\ SetLocals(t, m)
    BY DEF RemoveReadKey
  <1> HIDE DEF m
  <1> QED
    BY <1>1, <1>4, <1>5, <1>6, StepInv DEF Label, OpLabel

LEMMA RelocAddrType ==
    ASSUME Inv, NEW t \in Thread
    PROVE  RelocAddr(t) \in Addr
  <1>1. CASE Recycled(t) # {}
    <2>1. RelocAddr(t) \in Recycled(t)
      BY <1>1 DEF RelocAddr
    <2> QED
      BY <2>1 DEF Recycled, Inv, TypeOK
  <1>2. CASE Recycled(t) = {}
    BY <1>2, NewAddr DEF RelocAddr
  <1> QED
    BY <1>1, <1>2

LEMMA RemovePublishInv ==
    ASSUME Inv, NEW t \in Thread, RemovePublish(t)
    PROVE  Inv'
  <1> DEFINE l == loc[t]
             a == RelocAddr(t)
             op == [state |-> "ONGOING", dest |-> l.auxRoot, dest_op |-> l.auxRoot_op,
                    remove_key |-> l.work.key, replace_key |-> l.replace_key]
             new == SET_FLAG(OpAt(a), "RELOCATE")
  <1>1. l \in LocalState /\ LocalOK(l, "rem_reloc")
    BY LocalsOf DEF RemovePublish
  <1>2. CASE Matches(l.curr, l.curr_op)
    <2>1. /\ CASOp(l.curr, l.curr_op, new)
          /\ reloc' = Store(reloc, a, op)
          /\ deleted' = deleted \ {a}
          /\ blocks' = IF a \in deleted THEN blocks ELSE [blocks EXCEPT ![t] = @ + 1]
          /\ helpRelocate(t, Locals(l.work), a, l.pred, l.pred_op, l.curr, "op")
          /\ UNCHANGED <<cas, files>>
      BY <1>2 DEF RemovePublish
    <2>2. /\ l.curr \in Node /\ l.curr \in DOMAIN node /\ l.curr # base_root
          /\ l.pred \in DOMAIN node /\ l.pred_op \in OpPtr /\ l.pred_op.flag = "NONE"
          /\ l.auxRoot \in Node /\ l.auxRoot_op \in OpPtr /\ l.auxRoot_op.flag = "NONE"
          /\ l.auxRoot \in Addr /\ l.work \in Work /\ l.replace_key \in Int
      BY <1>1 DEF LocalOK, OpLabel, Node, LocalState
    <2>3. a \in Addr
      BY RelocAddrType
    <2>4. new \in OpPtr /\ new.flag = "RELOCATE" /\ new.op = a
      BY <2>3, OpAtType, SetFlagType DEF Flag
    <2>5. op \in Relocate_OP /\ op.dest = l.auxRoot /\ op.dest_op = l.auxRoot_op
      BY <2>2 DEF Relocate_OP, Work
    <2>6. blocks' \in [Thread -> Nat \ {0}] /\ deleted' \subseteq Addr
      BY <2>1, NewAddr DEF Inv, TypeOK
    <2> HIDE DEF a, new, op
    <2>7. /\ DOMAIN reloc' = DOMAIN reloc \cup {a}
          /\ \A x \in DOMAIN reloc' : reloc'[x] = IF x = a THEN op ELSE reloc[x]
          /\ reloc' \in [DOMAIN reloc' -> Relocate_OP] /\ DOMAIN reloc' \subseteq Addr
      BY <2>1, <2>3, <2>5 DEF Store, Inv, TypeOK
    <2>8. \A x \in DOMAIN reloc' :
             reloc'[x].dest \in Node /\ reloc'[x].dest_op.flag = "NONE"
      BY <2>2, <2>5, <2>7 DEF Inv, PointersOK, HeapOK
    <2>9. OpsStep
      BY <2>1, <2>6, <2>7, <2>8 DEF OpsStep, Inv, TypeOK, PointersOK, HeapOK
    <2>10. OpOKNext(new)
      BY <2>4, <2>7 DEF OpOKNext, GET_FLAG, UNFLAG
    <2>11. HeapStep
      BY <2>1, <2>2, <2>4, <2>9, <2>10, CASOpStep
    <2>12. Locals(l.work) \in LocalState /\ LocalOK(Locals(l.work), "find")
      BY <2>2, NewLocalsOK
    <2> QED
      BY <2>1, <2>2, <2>3, <2>7, <2>11, <2>12, helpRelocateInv
  <1>3. CASE ~Matches(l.curr, l.curr_op)
    <2>1. HeapStep /\ Loop(t)
      BY <1>3, NoHeapStep DEF RemovePublish, heap, CASOp
    <2> QED
      BY <2>1, LoopInv
  <1> QED
    BY <1>2, <1>3

-----------------------------------------------------------------------------
(* helpChildCAS() *)
LEMMA SetChildType ==
    ASSUME NEW b \in LF_BST_Node, NEW r \in NodePtr, RefOK(b.left), RefOK(b.right), RefOK(r)
    PROVE  \A c \in {b, [b EXCEPT !.left = r], [b EXCEPT !.right = r]} :
              c \in LF_BST_Node /\ RefOK(c.left) /\ RefOK(c.right) /\ c.op = b.op
  BY DEF LF_BST_Node

LEMMA HelpChildCASSwingInv ==
    ASSUME Inv, NEW t \in Thread, HelpChildCASSwing(t)
    PROVE  Inv'
  <1> DEFINE d == loc[t].dest
             o == cas[loc[t].cas_op]
             b == IF ChildOf(node[d], o.is_left) # o.expected THEN node[d]
                  ELSE IF o.is_left THEN [node[d] EXCEPT !.left = o.update]
                  ELSE [node[d] EXCEPT !.right = o.update]
  <1>1. LocalOK(loc[t], "child_cas")
    BY LocalsOf DEF HelpChildCASSwing
  <1>2. d \in DOMAIN node /\ loc[t].cas_op \in DOMAIN cas
    BY <1>1 DEF LocalOK, ChildLabel
  <1>3. o.update \in NodePtr /\ RefOK(o.update)
    BY <1>2 DEF Inv, TypeOK, PointersOK, HeapOK, Child_CAS_OP
  <1>4. node[d] \in LF_BST_Node /\ RefOK(node[d].left) /\ RefOK(node[d].right)
        /\ OpOK(node[d].op)
    BY <1>2, NodeType
  <1>5. b \in LF_BST_Node /\ RefOK(b.left) /\ RefOK(b.right) /\ b.op = node[d].op
    BY <1>3, <1>4, SetChildType
  <1>6. node' = [node EXCEPT ![d] = b]
    BY DEF HelpChildCASSwing, CASChild, Inv, TypeOK
  <1>7. OpsStep
    BY NoOpsStep DEF HelpChildCASSwing
  <1>8. OpOKNext(b.op)
    BY <1>4, <1>5, <1>7 DEF OpOK, OpOKNext, OpsStep
  <1>9. d = base_root => b.op.flag \in {"NONE", "CHILDCAS"}
    BY <1>5 DEF Inv, PointersOK, HeapOK, BaseRootOp, GET_FLAG
  <1>10. Goto(t, "child_clear") /\ UNCHANGED loc
    BY DEF HelpChildCASSwing
  <1>11. LocalOK(loc[t], "child_clear") /\ "child_clear" \in Label
    BY <1>1 DEF LocalOK, Label, FindLabel, OpLabel, ChildLabel, MarkLabel, RelocLabel
  <1> HIDE DEF b
  <1>12. HeapStep
    BY <1>2, <1>5, <1>6, <1>7, <1>8, <1>9, NodeStep
  <1> QED
    BY <1>10, <1>11, <1>12, SameLocalsInv

LEMMA ClearOpStep ==
    ASSUME Inv, OpsStep, NEW n \in DOMAIN node, NEW a \in Addr, NEW flag,
           ClearOp(n, a, flag)
    PROVE  HeapStep
  <1> DEFINE old == SET_FLAG(OpAt(a), flag)
             new == SET_FLAG(OpAt(a), "NONE")
  <1>1. new \in OpPtr /\ new.flag = "NONE"
    BY OpAtType, SetFlagType DEF Flag
  <1>2. CASOp(n, old, new)
    BY DEF ClearOp
  <1> HIDE DEF old, new
  <1>3. OpOKNext(new)
    BY <1>1 DEF OpOKNext, GET_FLAG
  <1> QED
    BY <1>1, <1>2, <1>3, CASOpStep

LEMMA HelpChildCASClearInv ==
    ASSUME Inv, NEW t \in Thread, HelpChildCASClear(t)
    PROVE  Inv'
  <1>1. LocalOK(loc[t], "child_clear")
    BY LocalsOf DEF HelpChildCASClear
  <1>2. loc[t].dest \in DOMAIN node /\ loc[t].cas_op \in Addr
    BY <1>1 DEF LocalOK, ChildLabel, Inv, TypeOK
  <1>3. HeapStep
    BY <1>2, NoOpsStep, ClearOpStep DEF HelpChildCASClear
  <1> QED
    BY <1>3, HelpedInv DEF HelpChildCASClear

-----------------------------------------------------------------------------
(* helpMarked() *)
LEMMA MarkLocals ==
    ASSUME Inv, NEW t \in Thread, pc[t] \in MarkLabel
    PROVE  LET l == loc[t]
           IN  /\ l \in LocalState /\ LocalOK(l, pc[t])
               /\ l.curr \in Node /\ l.curr \in DOMAIN node /\ l.curr \in Addr
               /\ l.pred \in DOMAIN node /\ l.pred_op \in OpPtr
               /\ l.new_ref \in NodePtr /\ RefOK(l.new_ref)
  <1>1. loc[t] \in LocalState /\ LocalOK(loc[t], pc[t])
    BY LocalsOf
  <1> QED
    BY <1>1, NodeType DEF LocalOK, LocalState, Node

(* The labels of helpMarked() ask the same of the local variables. *)
LEMMA MarkLabelsAlike ==
    ASSUME NEW l, NEW at \in MarkLabel, NEW next \in MarkLabel, LocalOK(l, at)
    PROVE  LocalOK(l, next)
  BY DEF LocalOK, FindLabel, OpLabel, ChildLabel, MarkLabel, RelocLabel

LEMMA NewRefOK ==
    ASSUME NEW l \in LocalState, NEW at \in MarkLabel, LocalOK(l, at),
           NEW r \in NodePtr, RefOK(r)
    PROVE  /\ [l EXCEPT !.new_ref = r] \in LocalState
           /\ LocalOK([l EXCEPT !.new_ref = r], "mark_side")
  <1> DEFINE m == [l EXCEPT !.new_ref = r]
  <1>1. m \in LocalState
    BY DEF LocalState
  <1>2. /\ m.auxRoot = l.auxRoot /\ m.auxRoot_op = l.auxRoot_op /\ m.pred = l.pred
        /\ m.pred_op = l.pred_op /\ m.curr = l.curr /\ m.curr_op = l.curr_op
        /\ m.next = l.next /\ m.old = l.old /\ m.new_ref = r
    BY DEF LocalState
  <1> HIDE DEF m
  <1>3. LocalOK(m, "mark_side")
    BY <1>2 DEF LocalOK, FindLabel, OpLabel, ChildLabel, MarkLabel, RelocLabel
  <1> QED
    BY <1>1, <1>3 DEF m

LEMMA HelpMarkedTestInv ==
    ASSUME Inv, NEW t \in Thread, HelpMarkedTestLeft(t) \/ HelpMarkedTestRight(t)
    PROVE  Inv'
  <1> DEFINE l == loc[t]
  <1>1. HeapStep
    BY NoHeapStep DEF HelpMarkedTestLeft, HelpMarkedTestRight
  <1>2. pc[t] \in MarkLabel
    BY DEF HelpMarkedTestLeft, HelpMarkedTestRight, MarkLabel
  <1>3. ASSUME NEW at \in MarkLabel, Goto(t, at), UNCHANGED loc
        PROVE  Inv'
    BY <1>1, <1>2, <1>3, MarkLocals, MarkLabelsAlike, SameLocalsInv DEF Label
  <1>4. CASE HelpMarkedTestLeft(t)
    BY <1>3, <1>4 DEF HelpMarkedTestLeft, MarkLabel
  <1>5. CASE HelpMarkedTestRight(t)
    <2> DEFINE r == SET_NULL(l.curr)
               m == [l EXCEPT !.new_ref = r]
    <2>1. r \in NodePtr /\ RefOK(r)
      BY <1>2, MarkLocals DEF SET_NULL, NodePtr, RefOK, IS_NULL
    <2>2. m \in LocalState /\ LocalOK(m, "mark_side")
      BY <1>2, <2>1, MarkLocals, NewRefOK
    <2>3. CASE Goto(t, "mark_side") /\ SetLocals(t, m)
      <3> HIDE DEF m
      <3> QED
        BY <1>1, <2>2, <2>3, StepInv DEF Label, MarkLabel
    <2>4. CASE Goto(t, "mark_take_right") /\ UNCHANGED loc
      BY <1>3, <2>4 DEF MarkLabel
    <2> QED
      BY <1>5, <2>3, <2>4 DEF HelpMarkedTestRight
  <1> QED
    BY <1>4, <1>5

LEMMA HelpMarkedTakeInv ==
    ASSUME Inv, NEW t \in Thread, HelpMarkedTake(t)
    PROVE  Inv'
  <1> DEFINE l == loc[t]
             r == ChildOf(node[l.curr], pc[t] = "mark_take_left")
             m == [l EXCEPT !.new_ref = r]
  <1>1. HeapStep
    BY NoHeapStep DEF HelpMarkedTake
  <1>2. pc[t] \in MarkLabel
    BY DEF HelpMarkedTake, MarkLabel
  <1>3. r \in NodePtr /\ RefOK(r)
    BY <1>2, MarkLocals, NodeType
  <1>4. Goto(t, "mark_side") /\ SetLocals(t, m)
    BY DEF HelpMarkedTake
  <1> HIDE DEF r
  <1>5. m \in LocalState /\ LocalOK(m, "mark_side")
    BY <1>2, <1>3, MarkLocals, NewRefOK
  <1> HIDE DEF m
  <1> QED
    BY <1>1, <1>4, <1>5, StepInv DEF Label, MarkLabel

LEMMA HelpMarkedSideInv ==
    ASSUME Inv, NEW t \in Thread, HelpMarkedSide(t)
    PROVE  Inv'
  <1> DEFINE l == loc[t]
             b == node[l.pred].left = NodeAt(l.curr)
             m == [l EXCEPT !.is_left = b]
  <1>1. HeapStep
    BY NoHeapStep DEF HelpMarkedSide
  <1>2. l \in LocalState /\ LocalOK(l, "mark_side")
    BY MarkLocals DEF HelpMarkedSide, MarkLabel
  <1>3. Goto(t, "mark_cas") /\ SetLocals(t, m) /\ b \in BOOLEAN
    BY DEF HelpMarkedSide
  <1> HIDE DEF b
  <1>4. m \in LocalState
    BY <1>2, <1>3 DEF LocalState
  <1>5. /\ m.auxRoot = l.auxRoot /\ m.auxRoot_op = l.auxRoot_op /\ m.pred = l.pred
        /\ m.pred_op = l.pred_op /\ m.curr = l.curr /\ m.curr_op = l.curr_op
        /\ m.next = l.next /\ m.old = l.old /\ m.new_ref = l.new_ref
    BY <1>2 DEF LocalState
  <1> HIDE DEF m
  <1>6. LocalOK(m, "mark_cas")
    BY <1>2, <1>5 DEF LocalOK, FindLabel, OpLabel, ChildLabel, MarkLabel, RelocLabel
  <1> QED
    BY <1>1, <1>3, <1>4, <1>6, StepInv DEF Label, MarkLabel

LEMMA HelpMarkedPublishInv ==
    ASSUME Inv, NEW t \in Thread, HelpMarkedPublish(t)
    PROVE  Inv'
  <1> DEFINE l == loc[t]
             a == <<t, blocks[t]>>
             op == [is_left |-> l.is_left, expected |-> NodeAt(l.curr),
                    update |-> l.new_ref]
             new == SET_FLAG(OpAt(a), "CHILDCAS")
  <1>1. /\ l.curr \in Addr /\ l.pred \in DOMAIN node /\ l.is_left \in BOOLEAN
        /\ l.new_ref \in NodePtr /\ RefOK(l.new_ref) /\ l.ret \in {"find", "op"}
    BY MarkLocals DEF HelpMarkedPublish, MarkLabel, LocalState
  <1>2. CASE Matches(l.pred, l.pred_op)
    <2>1. /\ CASOp(l.pred, l.pred_op, new)
          /\ cas' = Store(cas, a, op)
          /\ blocks' = [blocks EXCEPT ![t] = @ + 1]
          /\ helpChildCAS(t, l, a, l.pred, l.ret)
          /\ UNCHANGED <<reloc, deleted, files>>
      BY <1>2 DEF HelpMarkedPublish
    <2>2. a \in Addr /\ blocks' \in [Thread -> Nat \ {0}]
      BY <2>1, NewAddr
    <2>3. new \in OpPtr /\ new.flag = "CHILDCAS" /\ new.op = a
      BY <2>2, OpAtType, SetFlagType DEF Flag
    <2>4. op \in Child_CAS_OP /\ RefOK(op.update)
      BY <1>1 DEF Child_CAS_OP, NodePtr, NodeAt
    <2> HIDE DEF a, new, op
    <2>5. /\ DOMAIN cas' = DOMAIN cas \cup {a}
          /\ \A x \in DOMAIN cas' : cas'[x] = IF x = a THEN op ELSE cas[x]
          /\ cas' \in [DOMAIN cas' -> Child_CAS_OP] /\ DOMAIN cas' \subseteq Addr
      BY <2>1, <2>2, <2>4 DEF Store, Inv, TypeOK
    <2>6. \A x \in DOMAIN cas' : RefOK(cas'[x].update)
      BY <2>4, <2>5 DEF Inv, PointersOK, HeapOK
    <2>7. OpsStep
      BY <2>1, <2>2, <2>5, <2>6 DEF OpsStep, Inv, TypeOK, PointersOK, HeapOK
    <2>8. OpOKNext(new)
      BY <2>3, <2>5 DEF OpOKNext, GET_FLAG, UNFLAG
    <2>9. HeapStep
      BY <1>1, <2>1, <2>3, <2>7, <2>8, CASOpStep
    <2> QED
      BY <1>1, <2>1, <2>2, <2>5, <2>9, LocalsOf, helpChildCASInv
  <1>3. CASE ~Matches(l.pred, l.pred_op)
    <2>1. HeapStep /\ Helped(t)
      BY <1>3, NoHeapStep DEF HelpMarkedPublish, heap, CASOp
    <2> QED
      BY <2>1, HelpedInv
  <1> QED
    BY <1>2, <1>3

-----------------------------------------------------------------------------
(* helpRelocate() *)
LEMMA RelocLocals ==
    ASSUME Inv, NEW t \in Thread, pc[t] \in RelocLabel
    PROVE  LET l == loc[t]
               o == reloc[l.reloc_op]
           IN  /\ l \in LocalState /\ LocalOK(l, pc[t])
               /\ l.reloc_op \in DOMAIN reloc /\ l.reloc_op \in Addr
               /\ o \in Relocate_OP /\ o.dest \in Node /\ o.dest \in DOMAIN node
               /\ o.dest # base_root
               /\ l.curr \in Node /\ l.curr \in DOMAIN node /\ l.curr # base_root
               /\ l.pred \in DOMAIN node /\ l.pred_op \in OpPtr
               /\ l.pred_op.flag = "NONE" /\ l.ret \in {"find", "op"}
  <1>1. loc[t] \in LocalState /\ LocalOK(loc[t], pc[t])
    BY LocalsOf
  <1>2. loc[t].reloc_op \in DOMAIN reloc
    BY <1>1 DEF LocalOK
  <1>3. /\ reloc[loc[t].reloc_op] \in Relocate_OP /\ loc[t].reloc_op \in Addr
        /\ reloc[loc[t].reloc_op].dest \in Node
    BY <1>2 DEF Inv, TypeOK, PointersOK, HeapOK
  <1> QED
    BY <1>1, <1>2, <1>3 DEF LocalOK, LocalState, Node

LEMMA RelocLabelsAlike ==
    ASSUME NEW l, NEW at \in RelocLabel, NEW next \in RelocLabel, LocalOK(l, at)
    PROVE  LocalOK(l, next)
  BY DEF LocalOK, FindLabel, OpLabel, ChildLabel, MarkLabel, RelocLabel

LEMMA SeenStateInv ==
    ASSUME Inv, NEW t \in Thread, HeapStep, pc[t] \in RelocLabel,
           NEW s \in {"ONGOING", "SUCCESSFUL", "FAILED"}, NEW at \in RelocLabel,
           Goto(t, at), SetLocals(t, [loc[t] EXCEPT !.seen_state = s])
    PROVE  Inv'
  <1> DEFINE l == loc[t]
             m == [l EXCEPT !.seen_state = s]
  <1>1. l \in LocalState /\ LocalOK(l, at)
    BY LocalsOf, RelocLabelsAlike
  <1>2. m \in LocalState
    BY <1>1 DEF LocalState
  <1>3. /\ m.auxRoot = l.auxRoot /\ m.auxRoot_op = l.auxRoot_op /\ m.pred = l.pred
        /\ m.pred_op = l.pred_op /\ m.curr = l.curr /\ m.curr_op = l.curr_op
        /\ m.next = l.next /\ m.old = l.old /\ m.new_ref = l.new_ref
        /\ m.reloc_op = l.reloc_op
    BY <1>1 DEF LocalState
  <1>4. SetLocals(t, m)
    OBVIOUS
  <1> HIDE DEF m
  <1>5. LocalOK(m, at)
    BY <1>1, <1>3 DEF LocalOK, FindLabel, OpLabel, ChildLabel, MarkLabel, RelocLabel
  <1> QED
    BY <1>2, <1>4, <1>5, StepInv DEF Label

LEMMA SameNodeStep ==
    ASSUME Inv, OpsStep, UNCHANGED node
    PROVE  HeapStep
  <1> DEFINE b == node[base_root]
  <1>1. base_root \in DOMAIN node
    BY DEF Inv, PointersOK, HeapOK, BaseRootOp
  <1>2. b \in LF_BST_Node /\ RefOK(b.left) /\ RefOK(b.right) /\ OpOK(b.op)
    BY <1>1, NodeType
  <1>3. OpOKNext(b.op)
    BY <1>2 DEF OpOK, OpOKNext, OpsStep
  <1>4. node' = [node EXCEPT ![base_root] = b] /\ b.op.flag \in {"NONE", "CHILDCAS"}
    BY <1>1 DEF Inv, TypeOK, PointersOK, HeapOK, BaseRootOp, GET_FLAG
  <1> HIDE DEF b
  <1> QED
    BY <1>1, <1>2, <1>3, <1>4, NodeStep

LEMMA DecideStep ==
    ASSUME Inv, NEW a \in DOMAIN reloc, NEW s \in {"SUCCESSFUL", "FAILED"}, Decide(a, s),
           UNCHANGED <<node, cas, deleted, blocks, files>>
    PROVE  HeapStep
  <1>1. \A x \in DOMAIN reloc : /\ reloc[x] \in Relocate_OP /\ reloc[x].dest \in Node
                                /\ reloc[x].dest_op.flag = "NONE"
    BY DEF Inv, TypeOK, PointersOK, HeapOK
  <1>2. [reloc[a] EXCEPT !.state = s] \in Relocate_OP
        /\ [reloc[a] EXCEPT !.state = s].dest = reloc[a].dest
        /\ [reloc[a] EXCEPT !.state = s].dest_op = reloc[a].dest_op
    BY <1>1 DEF Relocate_OP
  <1>3. /\ DOMAIN reloc' = DOMAIN reloc
        /\ \A x \in DOMAIN reloc' :
              /\ reloc'[x] \in Relocate_OP /\ reloc'[x].dest \in Node
              /\ reloc'[x].dest_op.flag = "NONE"
    BY <1>1, <1>2 DEF Decide
  <1>4. reloc' \in [DOMAIN reloc' -> Relocate_OP]
    BY <1>3 DEF Decide, Inv, TypeOK
  <1>5. OpsStep
    BY <1>3, <1>4 DEF OpsStep, Inv, TypeOK, PointersOK, HeapOK, files
  <1> QED
    BY <1>5, SameNodeStep

LEMMA HelpRelocateStateInv ==
    ASSUME Inv, NEW t \in Thread, HelpRelocateState(t)
    PROVE  Inv'
  <1> DEFINE s == reloc[loc[t].reloc_op].state
  <1>1. HeapStep /\ pc[t] \in RelocLabel
    BY NoHeapStep DEF HelpRelocateState, RelocLabel
  <1>2. s \in {"ONGOING", "SUCCESSFUL", "FAILED"}
    BY <1>1, RelocLocals DEF Relocate_OP
  <1>3. AfterState(s) \in RelocLabel
    BY <1>2 DEF AfterState, RelocLabel
  <1>4. Goto(t, AfterState(s)) /\ SetLocals(t, [loc[t] EXCEPT !.seen_state = s])
    BY DEF HelpRelocateState
  <1> HIDE DEF s
  <1> QED
    BY <1>1, <1>2, <1>3, <1>4, SeenStateInv

LEMMA HelpRelocateDestInv ==
    ASSUME Inv, NEW t \in Thread, HelpRelocateDest(t)
    PROVE  Inv'
  <1> DEFINE a == loc[t].reloc_op
             o == reloc[a]
             mine == SET_FLAG(OpAt(a), "RELOCATE")
  <1>1. pc[t] \in RelocLabel /\ pc[t] = "reloc_dest"
    BY DEF HelpRelocateDest, RelocLabel
  <1>2. /\ a \in Addr /\ a \in DOMAIN reloc /\ o.dest \in DOMAIN node
        /\ o.dest # base_root /\ LocalOK(loc[t], "reloc_dest")
    BY <1>1, RelocLocals
  <1>3. mine \in OpPtr /\ mine.flag = "RELOCATE" /\ mine.op = a
    BY <1>2, OpAtType, SetFlagType DEF Flag
  <1>4. OpsStep
    BY NoOpsStep DEF HelpRelocateDest
  <1>5. OpOKNext(mine)
    BY <1>2, <1>3, <1>4 DEF OpOKNext, OpsStep, GET_FLAG, UNFLAG
  <1>6. CASOp(o.dest, o.dest_op, mine) /\ UNCHANGED loc
    BY DEF HelpRelocateDest
  <1>7. PICK at \in {"reloc_won", "reloc_lost"} : Goto(t, at)
    BY DEF HelpRelocateDest
  <1> HIDE DEF mine, o
  <1>8. HeapStep
    BY <1>2, <1>3, <1>4, <1>5, <1>6, CASOpStep
  <1>9. at \in Label /\ LocalOK(loc[t], at)
    BY <1>1, <1>2, RelocLabelsAlike DEF Label, RelocLabel
  <1> QED
    BY <1>6, <1>7, <1>8, <1>9, SameLocalsInv

LEMMA HelpRelocateWonInv ==
    ASSUME Inv, NEW t \in Thread, HelpRelocateWon(t)
    PROVE  Inv'
  <1>1. pc[t] \in RelocLabel
    BY DEF HelpRelocateWon, RelocLabel
  <1>2. HeapStep
    BY <1>1, RelocLocals, DecideStep DEF HelpRelocateWon
  <1> QED
    BY <1>1, <1>2, SeenStateInv DEF HelpRelocateWon, RelocLabel

LEMMA HelpRelocateLostInv ==
    ASSUME Inv, NEW t \in Thread, HelpRelocateLost(t)
    PROVE  Inv'
  <1> DEFINE s == reloc[loc[t].reloc_op].state
             at == IF s = "SUCCESSFUL" THEN "reloc_key" ELSE "reloc_curr"
  <1>1. pc[t] \in RelocLabel
    BY DEF HelpRelocateLost, RelocLabel
  <1>2. HeapStep
    BY <1>1, RelocLocals, DecideStep DEF HelpRelocateLost
  <1>3. s \in {"ONGOING", "SUCCESSFUL", "FAILED"} /\ at \in RelocLabel
    BY <1>1, RelocLocals DEF Relocate_OP, RelocLabel
  <1>4. Goto(t, at) /\ SetLocals(t, [loc[t] EXCEPT !.seen_state = s])
    BY DEF HelpRelocateLost
  <1> HIDE DEF s, at
  <1> QED
    BY <1>1, <1>2, <1>3, <1>4, SeenStateInv

LEMMA SetKeyType ==
    ASSUME NEW b \in LF_BST_Node, NEW k \in Int
    PROVE  LET c == [b EXCEPT !.key = k]
           IN  c \in LF_BST_Node /\ c.left = b.left /\ c.right = b.right /\ c.op = b.op
  BY DEF LF_BST_Node

LEMMA HelpRelocateKeyInv ==
    ASSUME Inv, NEW t \in Thread, HelpRelocateKey(t)
    PROVE  Inv'
  <1> DEFINE o == reloc[loc[t].reloc_op]
             d == o.dest
             b == IF node[d].key = o.remove_key THEN [node[d] EXCEPT !.key = o.replace_key]
                  ELSE node[d]
  <1>1. pc[t] \in RelocLabel
    BY DEF HelpRelocateKey, RelocLabel
  <1>2. d \in DOMAIN node /\ o.replace_key \in Int /\ d # base_root
    BY <1>1, RelocLocals DEF Relocate_OP
  <1>3. node[d] \in LF_BST_Node /\ RefOK(node[d].left) /\ RefOK(node[d].right)
        /\ OpOK(node[d].op)
    BY <1>2, NodeType
  <1>4. b \in LF_BST_Node /\ b.left = node[d].left /\ b.right = node[d].right
        /\ b.op = node[d].op
    BY <1>2, <1>3, SetKeyType
  <1>5. node' = [node EXCEPT ![d] = b]
    BY DEF HelpRelocateKey, CASKey, Inv, TypeOK
  <1>6. OpsStep
    BY NoOpsStep DEF HelpRelocateKey
  <1>7. Goto(t, "reloc_clear") /\ UNCHANGED loc
    BY DEF HelpRelocateKey
  <1> HIDE DEF b, d
  <1>8. OpOKNext(b.op)
    BY <1>3, <1>4, <1>6 DEF OpOK, OpOKNext, OpsStep
  <1>9. HeapStep
    BY <1>2, <1>3, <1>4, <1>5, <1>6, <1>8, NodeStep
  <1>10. LocalOK(loc[t], "reloc_clear") /\ "reloc_clear" \in Label
    BY <1>1, RelocLocals, RelocLabelsAlike DEF Label, RelocLabel
  <1> QED
    BY <1>7, <1>9, <1>10, SameLocalsInv

LEMMA HelpRelocateClearInv ==
    ASSUME Inv, NEW t \in Thread, HelpRelocateClear(t)
    PROVE  Inv'
  <1>1. pc[t] \in RelocLabel
    BY DEF HelpRelocateClear, RelocLabel
  <1>2. HeapStep
    BY <1>1, RelocLocals, NoOpsStep, ClearOpStep DEF HelpRelocateClear
  <1>3. LocalOK(loc[t], "reloc_curr") /\ "reloc_curr" \in Label
    BY <1>1, RelocLocals, RelocLabelsAlike DEF Label, RelocLabel
  <1> QED
    BY <1>2, <1>3, SameLocalsInv DEF HelpRelocateClear

LEMMA RelocateFailedInv ==
    ASSUME Inv, NEW t \in Thread, HeapStep, RelocateFailed(t)
    PROVE  Inv'
  BY RetryFindInv, LoopInv DEF RelocateFailed

LEMMA HelpRelocateCurrInv ==
    ASSUME Inv, NEW t \in Thread, HelpRelocateCurr(t)
    PROVE  Inv'
  <1> DEFINE l == loc[t]
             o == OpAt(l.reloc_op)
             dest == reloc[l.reloc_op].dest
             result == l.seen_state = "SUCCESSFUL"
             new == SET_FLAG(o, ReplaceFlag(result))
  <1>1. pc[t] \in RelocLabel /\ pc[t] = "reloc_curr"
    BY DEF HelpRelocateCurr, RelocLabel
  <1>2. /\ l \in LocalState /\ LocalOK(l, "reloc_curr") /\ l.reloc_op \in Addr
        /\ l.curr \in Node /\ l.curr \in DOMAIN node /\ l.curr # base_root
        /\ l.pred \in DOMAIN node /\ l.pred_op \in OpPtr /\ l.pred_op.flag = "NONE"
        /\ l.ret \in {"find", "op"}
    BY <1>1, RelocLocals
  <1>3. OpsStep
    <2>1. deleted' \subseteq Addr
      BY <1>2 DEF HelpRelocateCurr, RelocateFailed, Inv, TypeOK
    <2> QED
      BY <2>1 DEF HelpRelocateCurr, OpsStep, Inv, TypeOK, PointersOK, HeapOK, files
  <1>4. new \in OpPtr /\ new.flag \in {"MARK", "NONE"}
    BY <1>2, OpAtType, SetFlagType DEF ReplaceFlag, Flag
  <1>5. HeapStep
    <2>1. OpOKNext(new)
      BY <1>4 DEF OpOKNext, GET_FLAG
    <2>2. UNCHANGED node \/ CASOp(l.curr, SET_FLAG(o, "RELOCATE"), new)
      BY DEF HelpRelocateCurr
    <2> HIDE DEF new
    <2> QED
      BY <1>2, <1>3, <1>4, <2>1, <2>2, CASOpStep, SameNodeStep
  <1>6. UnlinkOp(l, dest) \in OpPtr /\ UnlinkOp(l, dest).flag = "NONE"
    BY <1>2, OpAtType, SetFlagType DEF UnlinkOp, Flag
  <1>7. \/ Helped(t) \/ RelocateFailed(t)
        \/ helpMarked(t, l, l.pred, UnlinkOp(l, dest), l.curr, l.ret)
    BY DEF HelpRelocateCurr
  <1> QED
    BY <1>2, <1>5, <1>6, <1>7, HelpedInv, RelocateFailedInv, helpMarkedInv

-----------------------------------------------------------------------------
(***************************************************************************)
(* The theorems.                                                           *)
(***************************************************************************)
LEMMA InitInv == Init => Inv
  <1> SUFFICES ASSUME Init
               PROVE  Inv
    OBVIOUS
  <1>1. base_root \in Addr
    BY BaseRootType
  <1>2. create_LF_node(-1) \in LF_BST_Node
    BY DEF create_LF_node, LF_BST_Node, NullOp, OpAt, SET_NULL, OpPtr, NodePtr, Flag
  <1>3. DOMAIN node = {base_root} /\ node[base_root] = create_LF_node(-1)
        /\ node \in [DOMAIN node -> LF_BST_Node]
    BY <1>2 DEF Init, Store
  <1>4. DOMAIN cas = {} /\ DOMAIN reloc = {} /\ deleted = {}
        /\ cas \in [DOMAIN cas -> Child_CAS_OP] /\ reloc \in [DOMAIN reloc -> Relocate_OP]
    BY DEF Init
  <1>5. NoWork \in Work /\ Locals(NoWork) \in LocalState
    BY NewLocalsType DEF NoWork, Work
  <1>6. TypeOK
    BY <1>1, <1>3, <1>4, <1>5, FileAssumption DEF Init, TypeOK, Label
  <1>7. HeapOK
    BY <1>3, <1>4 DEF HeapOK, BaseRootOp, RefOK, OpOK, IS_NULL, GET_FLAG, create_LF_node,
       NullOp, OpAt, SET_NULL
  <1>8. \A t \in Thread : LocalOK(loc[t], pc[t])
    <2>1. LocalOK(Locals(NoWork), "idle")
      BY <1>3 DEF LocalOK, Locals, NullOp, OpAt, SET_NULL, RefOK, IS_NULL,
         FindLabel, OpLabel, ChildLabel, MarkLabel, RelocLabel
    <2> QED
      BY <2>1 DEF Init
  <1> QED
    BY <1>6, <1>7, <1>8 DEF Inv, PointersOK

LEMMA StepKeepsInv ==
    ASSUME Inv, NEW t \in Thread, Step(t)
    PROVE  Inv'
  <1>1. CASE TakeWork(t) \/ Return(t)
    BY <1>1, CallInv
  <1>2. CASE Find(t)
    BY <1>2, FindStartInv, FindNextInv, FindVisitInv, FindKeyInv, FindLastRightInv,
       FindCurrInv DEF Find
  <1>3. CASE Add(t)
    BY <1>3, AddReadOldInv, AddPublishInv DEF Add
  <1>4. CASE Remove(t)
    BY <1>4, RemoveReadRightInv, RemoveReadLeftInv, RemoveMarkInv, RemoveRecheckInv,
       RemoveReadKeyInv, RemovePublishInv DEF Remove
  <1>5. CASE HelpChildCAS(t)
    BY <1>5, HelpChildCASSwingInv, HelpChildCASClearInv DEF HelpChildCAS
  <1>6. CASE HelpMarked(t)
    BY <1>6, HelpMarkedTestInv, HelpMarkedTakeInv, HelpMarkedSideInv,
       HelpMarkedPublishInv DEF HelpMarked
  <1>7. CASE HelpRelocate(t)
    BY <1>7, HelpRelocateStateInv, HelpRelocateDestInv, HelpRelocateWonInv,
       HelpRelocateLostInv, HelpRelocateKeyInv, HelpRelocateClearInv,
       HelpRelocateCurrInv DEF HelpRelocate
  <1> QED
    BY <1>1, <1>2, <1>3, <1>4, <1>5, <1>6, <1>7 DEF Step

LEMMA NextInv == Inv /\ [Next]_vars => Inv'
  <1> SUFFICES ASSUME Inv, [Next]_vars
               PROVE  Inv'
    OBVIOUS
  <1>1. CASE CreateTree
    BY <1>1, CallInv DEF Thread
  <1>2. CASE \E t \in Thread : Step(t)
    BY <1>2, StepKeepsInv
  <1>3. CASE UNCHANGED vars
    <2>1. HeapStep /\ UNCHANGED <<pc, loc>>
      BY <1>3, NoHeapStep DEF vars
    <2>2. \A t \in Thread : LocalOK(loc[t], pc[t])'
      BY <1>3, <2>1 DEF Inv, PointersOK, vars, heap, LocalOK, RefOK, Node, IS_NULL
    <2>3. TypeOK'
      BY <2>1 DEF Inv, TypeOK, HeapStep, HeapType, FilesType
    <2> QED
      BY <2>1, <2>2, <2>3 DEF Inv, PointersOK, HeapStep
  <1> QED
    BY <1>1, <1>2, <1>3 DEF Next, Terminated

(* The inductive invariant: neither half of it holds without the other. *)
THEOREM Safety == Spec => []Inv
  BY InitInv, NextInv, PTL DEF Spec

(* Every variable has its type, in every state of every run. *)
THEOREM TypeCorrect == Spec => []TypeOK
  <1>1. Inv => TypeOK
    BY DEF Inv
  <1> QED
    BY <1>1, Safety, PTL

(* No thread of the tree ever follows a null or unset pointer, or takes an *)
(* operation for one of the other kind: the casts of find(), help() and    *)
(* the helpers are sound.                                                  *)
THEOREM PointersCorrect == Spec => []PointersOK
  <1>1. Inv => PointersOK
    BY DEF Inv
  <1> QED
    BY <1>1, Safety, PTL
=============================================================================
