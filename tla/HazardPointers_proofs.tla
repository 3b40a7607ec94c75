----------------------- MODULE HazardPointers_proofs -----------------------
(***************************************************************************)
(* The hazard pointers, for any number of threads, of hazard pointers of   *)
(* each, and any threshold.  A scan never overlooks a hazard pointer that  *)
(* holds its node all the time (AlwaysHonoursHazards), and of the nodes    *)
(* that leave the tree all are retired, and no others                      *)
(* (AlwaysDetachedRetired).  HazardPointers leaves the tree alone, by how  *)
(* it is put together (HazardNextTree): a deleted node keeps its contents. *)
(***************************************************************************)
EXTENDS HazardPointers, LockFreeTree_proofs

-----------------------------------------------------------------------------
(***************************************************************************)
(* The array.                                                              *)
(***************************************************************************)
LEMMA WorkerCount ==
    /\ Cardinality(Worker) \in Nat \ {0} /\ Worker = 0 .. Cardinality(Worker) - 1
    /\ 0 \in Worker /\ Worker \subseteq Nat
  <1>1. Cardinality(Worker) \in Nat
    BY NumberAssumption, FS_CardinalityType
  <1>2. Worker = 0 .. Cardinality(Worker) - 1 /\ Worker # {}
    BY NumberAssumption
  <1> QED
    BY <1>1, <1>2

LEMMA Multiples ==
    ASSUME NEW c \in Nat, NEW m \in Nat \ {0}, NEW n \in 0 .. c - 1
    PROVE  /\ n * m \in Nat /\ (n + 1) * m \in Nat /\ c * m \in Nat
           /\ (n + 1) * m = n * m + m /\ (n + 1) * m <= c * m
  <1>1. PICK d \in Nat : c = n + 1 + d
    <2>1. c - (n + 1) \in Nat /\ c = n + 1 + (c - (n + 1))
      OBVIOUS
    <2> QED
      BY <2>1
  <1>2. n * m \in Nat /\ d * m \in Nat
    OBVIOUS
  <1>3. (n + 1) * m = n * m + m
    OBVIOUS
  <1>4. c * m = (n + 1) * m + d * m
    BY <1>1
  <1> QED
    BY <1>2, <1>3, <1>4

LEMMA RingSlots ==
    ASSUME NEW n \in Worker
    PROVE  /\ Slots \in Nat /\ Ring(n) \subseteq 0 .. Slots - 1 /\ n * NUM_HP_PER_THREAD \in Ring(n)
           /\ \A i \in Ring(n) : NextSlot(n, i) \in Ring(n)
  <1>1. PICK m : m = NUM_HP_PER_THREAD /\ m \in Nat \ {0}
    BY SizeAssumption
  <1>2. PICK c : c = Cardinality(Worker) /\ c \in Nat /\ n \in 0 .. c - 1
    BY WorkerCount
  <1>3. PICK a : a = n * m
    OBVIOUS
  <1>4. PICK b : b = (n + 1) * m
    OBVIOUS
  <1>5. PICK e : e = c * m
    OBVIOUS
  <1>6. a \in Nat /\ b = a + m /\ e \in Nat /\ b <= e
    BY <1>1, <1>2, <1>3, <1>4, <1>5, Multiples
  <1>7. Ring(n) = a .. b - 1 /\ Slots = e /\ a = n * NUM_HP_PER_THREAD
    BY <1>1, <1>2, <1>3, <1>4, <1>5 DEF Ring, Slots
  <1>8. ASSUME NEW i \in Ring(n) PROVE NextSlot(n, i) \in Ring(n)
    <2>1. NextSlot(n, i) = IF i + 1 = b THEN a ELSE i + 1
      BY <1>1, <1>3, <1>4 DEF NextSlot
    <2> QED
      BY <1>1, <1>6, <1>7, <2>1
  <1> QED
    BY <1>1, <1>6, <1>7, <1>8
-----------------------------------------------------------------------------
(***************************************************************************)
(* The tree below is LockFreeBST as it is.                                 *)
(***************************************************************************)
LEMMA HazardNextTree == [HazardNext]_<<vars, hazards>> => [Next]_vars
  <1> SUFFICES ASSUME [HazardNext]_<<vars, hazards>> PROVE [Next]_vars
    OBVIOUS
  <1>1. ASSUME NEW t \in Thread, HazardStep(t) PROVE [Next]_vars
    BY <1>1 DEF HazardStep, Publish, ReadChild, TreeStep, CompareSlot, DeleteNode, Next
  <1> QED
    BY <1>1 DEF HazardNext, Terminated

-----------------------------------------------------------------------------
(***************************************************************************)
(* The invariant: the slots that have held the node that t looks at are    *)
(* those from the slot on that t compares next.                            *)
(***************************************************************************)
KeptAhead ==
    \A t \in Thread :
        /\ scan[t] = <<>> => slot[t] = 0 /\ kept[t] = {}
        /\ scan[t] # <<>> => \A i \in kept[t] : slot[t] <= i /\ i \in Holders(Head(scan[t]))

(* What is read to be published is a field of a node.                      *)
KnownItem ==
    [do : {"put"}, ptr : NodePtr]
    \cup [do : {"read", "test"}, node : DOMAIN node, is_left : BOOLEAN]

ReadsNodes == todo \in [Thread -> Seq(KnownItem)]

HazardInv == Inv /\ HazardTypeOK /\ KeptAhead /\ ReadsNodes

LEMMA SeqOfMore == ASSUME NEW S, NEW T, S \subseteq T PROVE Seq(S) \subseteq Seq(T)
  OBVIOUS

LEMMA KnownItems == Inv => KnownItem \subseteq Item
  BY DEF KnownItem, Item, Inv, TypeOK

LEMMA KnownItemsNext == (Inv => KnownItem \subseteq Item)'
  BY KnownItems, PTL

(* Type correctness of the list follows.                                   *)
LEMMA TodoType == Inv /\ ReadsNodes => todo \in [Thread -> Seq(Item)]
  BY KnownItems, SeqOfMore DEF ReadsNodes

LEMMA TodoTypeNext == (Inv /\ ReadsNodes => todo \in [Thread -> Seq(Item)])'
  BY TodoType, PTL

(* What a thread publishes.                                                *)
LEMMA PutItem == \A a \in Addr \cup {NoNode} : Put(NodeAt(a)) \in KnownItem
  BY DEF Put, KnownItem, NodeAt, NodePtr

LEMMA ReadItem ==
    \A a \in DOMAIN node, b \in BOOLEAN : Read(a, b) \in KnownItem /\ Test(a, b) \in KnownItem
  BY DEF Read, Test, KnownItem

LEMMA PutItemNext == (\A a \in Addr \cup {NoNode} : Put(NodeAt(a)) \in KnownItem)'
  BY PutItem, PTL

LEMMA ReadItemNext ==
    (\A a \in DOMAIN node, b \in BOOLEAN :
        Read(a, b) \in KnownItem /\ Test(a, b) \in KnownItem)'
  BY ReadItem, PTL

(* The nodes that a thread is at, by label.                                *)
NodesAt(t) ==
    /\ loc[t].auxRoot \in Addr
    /\ loc[t].curr \in Addr \cup {NoNode} /\ loc[t].pred \in Addr \cup {NoNode}
    /\ pc[t] \in {"find_next", "find_curr", "add_old", "rem_right", "mark_take_left",
                  "mark_take_right"} => loc[t].curr \in DOMAIN node
    /\ pc[t] = "child_cas" => loc[t].dest \in DOMAIN node /\ cas[loc[t].cas_op].is_left \in BOOLEAN
    /\ pc[t] \in RelocLabel => loc[t].reloc_op \in DOMAIN reloc
    /\ <<t, blocks[t]>> \in Addr

LEMMA AtNodes ==
    ASSUME NEW t \in Thread
    PROVE  Inv => NodesAt(t)
  <1> SUFFICES ASSUME TypeOK, PointersOK PROVE NodesAt(t)
    BY DEF Inv
  <1>1. loc[t] \in LocalState /\ LocalOK(loc[t], pc[t]) /\ DOMAIN node \subseteq Addr
    BY DEF TypeOK, PointersOK
  <1>2. \A a \in DOMAIN cas : cas[a] \in Child_CAS_OP
    BY DEF TypeOK
  <1>3. /\ loc[t].auxRoot \in Addr
        /\ loc[t].curr \in Addr \cup {NoNode} /\ loc[t].pred \in Addr \cup {NoNode}
    BY <1>1 DEF LocalState
  <1>4. pc[t] \in {"find_next", "find_curr", "add_old", "rem_right"} => loc[t].curr \in DOMAIN node
    BY <1>1 DEF LocalOK, FindLabel, OpLabel
  <1>5. pc[t] \in {"mark_take_left", "mark_take_right"} => loc[t].curr \in DOMAIN node
    BY <1>1 DEF LocalOK, MarkLabel, Node
  <1>6. pc[t] = "child_cas" => loc[t].dest \in DOMAIN node /\ cas[loc[t].cas_op].is_left \in BOOLEAN
    BY <1>1, <1>2 DEF LocalOK, ChildLabel, Child_CAS_OP
  <1>7. pc[t] \in RelocLabel => loc[t].reloc_op \in DOMAIN reloc
    BY <1>1 DEF LocalOK
  <1>8. <<t, blocks[t]>> \in Addr
    BY DEF TypeOK, Addr
  <1> QED
    BY <1>3, <1>4, <1>5, <1>6, <1>7, <1>8 DEF NodesAt

LEMMA AtNodesNext ==
    ASSUME NEW t \in Thread
    PROVE  (Inv => NodesAt(t))'
  BY AtNodes, PTL

LEMMA ToPublishType ==
    ASSUME Inv, Inv', NEW t \in Thread, Step(t) \/ (t = Main /\ CreateTree)
    PROVE  ToPublish(t) \in Seq(KnownItem')
  <1>1. NodesAt(t) /\ NodesAt(t)'
    BY AtNodes, AtNodesNext
  <1>2. ASSUME NEW x \in KnownItem' PROVE <<x>> \in Seq(KnownItem')
    OBVIOUS
  <1>3. ASSUME NEW x \in KnownItem', NEW y \in KnownItem', NEW z \in KnownItem'
        PROVE  <<x, y, z>> \in Seq(KnownItem') /\ <<x, y>> \in Seq(KnownItem')
    OBVIOUS
  <1>4. ASSUME pc[t] = "reloc_state" PROVE Put(NodeAt(reloc[loc'[t].reloc_op].dest)) \in KnownItem'
    <2>1. loc'[t] = [loc[t] EXCEPT !.seen_state = reloc[loc[t].reloc_op].state]
      BY <1>4 DEF Step, TakeWork, Return, Find, Add, Remove, HelpChildCAS, HelpMarked,
             HelpRelocate, FindStart, FindNext, FindVisit, FindKey, FindLastRight, FindCurr,
             AddReadOld, AddPublish, RemoveReadRight, RemoveReadLeft, RemoveMark, RemoveRecheck,
             RemoveReadKey, RemovePublish, HelpChildCASSwing, HelpChildCASClear,
             HelpMarkedTestLeft, HelpMarkedTestRight, HelpMarkedTake, HelpMarkedSide,
             HelpMarkedPublish, HelpRelocateState, HelpRelocateDest, HelpRelocateWon,
             HelpRelocateLost, HelpRelocateKey, HelpRelocateClear, HelpRelocateCurr, CreateTree,
             SetLocals, Inv, TypeOK
    <2>2. loc'[t].reloc_op = loc[t].reloc_op
      BY <2>1 DEF Inv, TypeOK, LocalState
    <2>3. reloc[loc[t].reloc_op].dest \in Addr
      BY <1>1, <1>4 DEF NodesAt, RelocLabel, Inv, TypeOK, Relocate_OP
    <2> QED
      BY <2>2, <2>3, PutItemNext
  <1>5. /\ Put(NodeAt(loc'[t].auxRoot)) \in KnownItem' /\ Put(NodeAt(loc'[t].curr)) \in KnownItem'
        /\ Put(NodeAt(loc'[t].pred)) \in KnownItem' /\ Put(NodeAt(loc[t].curr)) \in KnownItem'
        /\ Put(NodeAt(<<t, blocks[t]>>)) \in KnownItem'
    BY <1>1, PutItemNext DEF NodesAt
  <1>6. pc'[t] \in {"find_next", "add_old", "rem_right", "mark_take_left", "mark_take_right"} =>
           \A b \in BOOLEAN : Read(loc'[t].curr, b) \in KnownItem' /\ Test(loc'[t].curr, b) \in KnownItem'
    BY <1>1, ReadItemNext DEF NodesAt
  <1>7. pc'[t] = "child_cas" => Read(loc'[t].dest, cas'[loc'[t].cas_op].is_left) \in KnownItem'
    BY <1>1, ReadItemNext DEF NodesAt
  <1>8. <<>> \in Seq(KnownItem')
    OBVIOUS
  <1>9. ToPublish(t) \in Seq(KnownItem')
    <2> DEFINE isLeft == loc'[t].result = "NOTFOUND_L"
    <2>1. isLeft \in BOOLEAN /\ (pc'[t] = "mark_take_left") \in BOOLEAN
      OBVIOUS
    <2> HIDE DEF isLeft
    <2> QED
      BY <1>2, <1>3, <1>4, <1>5, <1>6, <1>7, <1>8, <2>1 DEF ToPublish
  <1> QED
    BY <1>9

LEMMA NumWorker == \A t \in Thread : Num(t) \in Worker
  BY WorkerCount DEF Num, Thread

LEMMA HolderSlots == ASSUME HazardTypeOK PROVE \A n : Holders(n) \subseteq 0 .. Slots - 1
  BY DEF HazardTypeOK, Holders

(* The next node of a list. *)
LEMMA RestOf ==
    ASSUME NEW S, NEW s \in Seq(S), s # <<>>
    PROVE  Head(s) \in S /\ Tail(s) \in Seq(S)
  OBVIOUS

(* While the tree stands still, the nodes to be read are those there were. *)
LEMMA SameTreeTodo ==
    ASSUME Inv, UNCHANGED vars, todo' \in [Thread -> Seq(KnownItem)]
    PROVE  ReadsNodes' /\ todo' \in [Thread -> Seq(Item)]
  <1>1. KnownItem' = KnownItem
    BY DEF KnownItem, vars, heap
  <1>2. KnownItem \subseteq Item
    BY KnownItems
  <1> QED
    BY <1>1, <1>2, SeqOfMore DEF ReadsNodes

(* A step of the tree only adds nodes.                                     *)
LEMMA MoreNodes ==
    ASSUME Inv, NEW t \in Thread, Step(t) \/ (t = Main /\ CreateTree)
    PROVE  DOMAIN node \subseteq DOMAIN node'
  <1>1. CASE UNCHANGED heap
    BY <1>1 DEF heap
  <1>2. CASE AddPublish(t)
    BY <1>2 DEF AddPublish, Store, heap
  <1>3. CASE HelpChildCASSwing(t) \/ HelpRelocateKey(t)
    BY <1>3 DEF HelpChildCASSwing, HelpRelocateKey, CASChild, CASKey
  <1>4. CASE \/ RemoveMark(t) \/ RemovePublish(t) \/ HelpChildCASClear(t)
             \/ HelpMarkedPublish(t) \/ HelpRelocateDest(t) \/ HelpRelocateClear(t)
             \/ HelpRelocateCurr(t)
    BY <1>4 DEF RemoveMark, RemovePublish, HelpChildCASClear, HelpMarkedPublish,
         HelpRelocateDest, HelpRelocateClear, HelpRelocateCurr, ClearOp, CASOp
  <1>5. CASE HelpRelocateWon(t) \/ HelpRelocateLost(t)
    BY <1>5 DEF HelpRelocateWon, HelpRelocateLost
  <1> QED
    BY <1>1, <1>2, <1>3, <1>4, <1>5
       DEF Step, TakeWork, Return, Find, Add, Remove, HelpChildCAS, HelpMarked,
         HelpRelocate, FindStart, FindNext, FindVisit, FindKey, FindLastRight, FindCurr,
         AddReadOld, RemoveReadRight, RemoveReadLeft, RemoveRecheck, RemoveReadKey,
         HelpMarkedTestLeft, HelpMarkedTestRight, HelpMarkedTake, HelpMarkedSide,
         HelpRelocateState, CreateTree, heap

LEMMA PublishHazards ==
    ASSUME HazardInv, NEW t \in Thread, Publish(t)
    PROVE  HazardTypeOK' /\ KeptAhead' /\ ReadsNodes'
  <1>1. PICK n : n = Num(t) /\ n \in Worker
    BY NumWorker
  <1>2. PICK ptr : ptr = Head(todo[t]).ptr /\ ptr \in NodePtr
    <2>1. Head(todo[t]) \in Item /\ Head(todo[t]).do = "put"
      BY DEF Publish, HazardInv, HazardTypeOK
    <2> QED
      BY <2>1 DEF Item
  <1>3. hp' = [hp EXCEPT ![hp_off[n]] = ptr] /\ hp_off' = [hp_off EXCEPT ![n] = NextSlot(n, hp_off[n])]
    BY <1>1, <1>2 DEF Publish, add_to_hp_list
  <1>4. hp' \in [0 .. Slots - 1 -> NodePtr]
    BY <1>2, <1>3 DEF HazardInv, HazardTypeOK
  <1>5. NextSlot(n, hp_off[n]) \in Ring(n) /\ NextSlot(n, hp_off[n]) \in 0 .. Slots - 1
    BY <1>1, RingSlots DEF HazardInv, HazardTypeOK
  <1>6. hp_off' \in [Worker -> 0 .. Slots - 1] /\ \A m \in Worker : hp_off'[m] \in Ring(m)
    BY <1>3, <1>5 DEF HazardInv, HazardTypeOK
  <1>7. ReadsNodes' /\ todo' \in [Thread -> Seq(Item)]
    <2>1. Tail(todo[t]) \in Seq(KnownItem)
      BY RestOf DEF Publish, HazardInv, ReadsNodes
    <2>2. todo' \in [Thread -> Seq(KnownItem)]
      BY <2>1 DEF Publish, HazardInv, ReadsNodes
    <2> QED
      BY <2>2, SameTreeTodo DEF Publish, HazardInv
  <1>8. UNCHANGED <<rlist, scan, slot, freed>>
    BY DEF Publish
  <1>9. kept' = [u \in Thread |-> {i \in kept[u] : UNFLAG_node(hp'[i]) = Head(scan[u])}]
    BY DEF Publish, Observe
  <1>10. HazardTypeOK'
    <2>1. kept' \in [Thread -> SUBSET (0 .. Slots - 1)]
      BY <1>9 DEF HazardInv, HazardTypeOK
    <2> QED
      BY <1>4, <1>6, <1>7, <1>8, <2>1 DEF HazardInv, HazardTypeOK
  <1>11. KeptAhead'
    <2> SUFFICES ASSUME NEW u \in Thread
                 PROVE  /\ scan'[u] = <<>> => slot'[u] = 0 /\ kept'[u] = {}
                        /\ scan'[u] # <<>> => \A i \in kept'[u] :
                              slot'[u] <= i /\ i \in Holders(Head(scan[u]))'
      BY <1>8 DEF KeptAhead
    <2>1. kept'[u] = {i \in kept[u] : UNFLAG_node(hp'[i]) = Head(scan[u])}
      BY <1>9
    <2>2. CASE scan[u] = <<>>
      BY <1>8, <2>1, <2>2 DEF HazardInv, KeptAhead
    <2>3. CASE scan[u] # <<>>
      <3>1. \A i \in kept'[u] : i \in DOMAIN hp' /\ UNFLAG_node(hp'[i]) = Head(scan[u])
        BY <1>4, <2>1 DEF HazardInv, HazardTypeOK
      <3>2. \A i \in kept'[u] : slot[u] <= i
        BY <2>1, <2>3 DEF HazardInv, KeptAhead
      <3> QED
        BY <1>8, <2>3, <3>1, <3>2 DEF Holders
    <2> QED
      BY <2>2, <2>3
  <1> QED
    BY <1>7, <1>10, <1>11

LEMMA ReadChildHazards ==
    ASSUME HazardInv, NEW t \in Thread, ReadChild(t)
    PROVE  HazardTypeOK' /\ KeptAhead' /\ ReadsNodes'
  <1>1. UNCHANGED <<hp, hp_off, rlist, scan, slot, kept, freed>>
    BY DEF ReadChild
  <1>2. ReadsNodes' /\ todo' \in [Thread -> Seq(Item)]
    <2>1. PICK item : /\ item = Head(todo[t]) /\ item \in KnownItem
                      /\ item.do \in {"read", "test"}
      BY DEF ReadChild, Reads, HazardInv, ReadsNodes
    <2>2. PICK rest : rest = Tail(todo[t]) /\ rest \in Seq(KnownItem)
      BY RestOf DEF ReadChild, HazardInv, ReadsNodes
    <2>3. PICK ptr : ptr = ChildOf(node[item.node], item.is_left)
      OBVIOUS
    <2>4. item.node \in DOMAIN node /\ item.is_left \in BOOLEAN
      BY <2>1 DEF KnownItem
    <2>5. todo' = [todo EXCEPT ![t] = IF item.do = "read" THEN <<Put(ptr)>> \o rest
                                      ELSE IF IS_NULL(ptr) THEN rest
                                      ELSE <<Read(item.node, item.is_left)>> \o rest]
      BY <2>1, <2>2, <2>3 DEF ReadChild
    <2>6. Read(item.node, item.is_left) \in KnownItem
      BY <2>4, ReadItem
    <2>7. ptr \in NodePtr
      BY <2>3, <2>4, NodeType DEF HazardInv
    <2>8. Put(ptr) \in KnownItem
      BY <2>7 DEF Put, KnownItem
    <2>9. /\ <<Put(ptr)>> \o rest \in Seq(KnownItem)
          /\ <<Read(item.node, item.is_left)>> \o rest \in Seq(KnownItem)
      BY <2>2, <2>6, <2>8
    <2>10. todo' \in [Thread -> Seq(KnownItem)]
      BY <2>2, <2>5, <2>9 DEF HazardInv, ReadsNodes
    <2> QED
      BY <2>10, SameTreeTodo DEF ReadChild, HazardInv
  <1>3. KeptAhead'
    BY <1>1 DEF KeptAhead, HazardInv, Holders
  <1> QED
    BY <1>1, <1>2, <1>3 DEF HazardInv, HazardTypeOK
(* What is retired is a node.                                              *)
LEMMA RetiredType ==
    ASSUME NEW s \in Seq(Addr), NEW n \in Worker, rlist[n] = s, NEW o \in Child_CAS_OP
    PROVE  Retired(n, o) \in Seq(Addr)
  <1>1. o.expected.node \in Addr \cup {NoNode}
    BY DEF Child_CAS_OP, NodePtr
  <1>2. Detached(o) \subseteq Addr
    BY <1>1 DEF Detached
  <1>3. PICK new : new = Detached(o) \ Range(rlist[n]) /\ new \subseteq Addr
    BY <1>2
  <1>4. CASE new = {}
    BY <1>3, <1>4 DEF Retired
  <1>5. CASE new # {}
    <2>1. PICK x : x = (CHOOSE y \in new : TRUE) /\ x \in Addr
      BY <1>3, <1>5
    <2>2. Retired(n, o) = Append(s, x)
      BY <1>3, <1>5, <2>1 DEF Retired
    <2> QED
      BY <2>1, <2>2
  <1> QED
    BY <1>4, <1>5

LEMMA FirstSlotType ==
    ASSUME HazardTypeOK, NEW t \in Thread, FirstSlot(t)
    PROVE  hp_off' \in [Worker -> 0 .. Slots - 1] /\ \A n \in Worker : hp_off'[n] \in Ring(n)
  <1>1. 0 \in Worker
    BY WorkerCount
  <1>2. 0 * NUM_HP_PER_THREAD = 0
    BY SizeAssumption
  <1>3. 0 \in Ring(0) /\ 0 \in 0 .. Slots - 1
    BY <1>1, <1>2, RingSlots
  <1> QED
    BY <1>1, <1>3 DEF HazardTypeOK, FirstSlot

(* A swing that makes the list too long starts a scan, at slot 0 and with  *)
(* all the slots that hold the first node.                                 *)
LEMMA TreeStepHazards ==
    ASSUME HazardInv, NEW t \in Thread, TreeStep(t)
    PROVE  HazardInv'
  <1>1. Step(t) \/ (t = Main /\ CreateTree)
    BY DEF TreeStep
  <1>2. Inv'
    BY <1>1, NextInv DEF Next, HazardInv
  <1>3. ReadsNodes'
    <2>1. ToPublish(t) \in Seq(KnownItem')
      BY <1>1, <1>2, ToPublishType DEF HazardInv
    <2>2. Seq(KnownItem) \subseteq Seq(KnownItem')
      <3>1. DOMAIN node \subseteq DOMAIN node'
        BY <1>1, MoreNodes DEF HazardInv
      <3>2. KnownItem \subseteq KnownItem'
        BY <3>1 DEF KnownItem
      <3> QED
        BY <3>2, SeqOfMore
    <2>3. todo' = [todo EXCEPT ![t] = ToPublish(t)]
      BY DEF TreeStep
    <2> QED
      BY <2>1, <2>2, <2>3 DEF HazardInv, ReadsNodes
  <1>4. todo' \in [Thread -> Seq(Item)]
    BY <1>2, <1>3, TodoTypeNext
  <1>5. hp' = hp /\ slot' = slot /\ freed' = freed
    BY DEF TreeStep
  <1>6. hp_off' \in [Worker -> 0 .. Slots - 1] /\ \A n \in Worker : hp_off'[n] \in Ring(n)
    BY FirstSlotType DEF TreeStep, HazardInv
  <1>7. scan[t] = <<>> /\ slot[t] = 0
    BY DEF TreeStep, HazardInv, KeptAhead
  <1>8. /\ rlist' \in [Worker -> Seq(Addr)] /\ scan' \in [Thread -> Seq(Addr)]
        /\ kept' \in [Thread -> SUBSET (0 .. Slots - 1)] /\ KeptAhead'
    <2>1. CASE SwingSucceeds(t)
      <3>1. PICK n : n = Num(t) /\ n \in Worker
        BY NumWorker
      <3>2. cas[loc[t].cas_op] \in Child_CAS_OP
        BY <2>1 DEF SwingSucceeds, HazardInv, Inv, TypeOK, PointersOK, LocalOK, ChildLabel
      <3>3. PICK retired : retired = Retired(n, cas[loc[t].cas_op]) /\ retired \in Seq(Addr)
        BY <3>1, <3>2, RetiredType DEF HazardInv, HazardTypeOK
      <3>4. rlist' = [rlist EXCEPT ![n] = retired]
        BY <2>1, <3>1, <3>3 DEF TreeStep
      <3>5. CASE Len(retired) > HP_THRESHOLD
        <4>1. scan' = [scan EXCEPT ![t] = retired] /\ kept' = [kept EXCEPT ![t] = Holders(Head(retired))]
          BY <2>1, <3>1, <3>3, <3>5 DEF TreeStep
        <4>2. Holders(Head(retired)) \in SUBSET (0 .. Slots - 1)
          BY HolderSlots DEF HazardInv
        <4>3. KeptAhead'
          <5> SUFFICES ASSUME NEW u \in Thread
                       PROVE  /\ scan'[u] = <<>> => slot[u] = 0 /\ kept'[u] = {}
                              /\ scan'[u] # <<>> => \A i \in kept'[u] :
                                    slot[u] <= i /\ i \in Holders(Head(scan'[u]))
            BY <1>5 DEF KeptAhead, Holders
          <5>1. CASE u = t
            <6>1. retired # <<>>
              BY <3>3, <3>5, SizeAssumption
            <6>2. scan'[u] = retired /\ kept'[u] = Holders(Head(retired))
              BY <4>1, <5>1 DEF HazardInv, HazardTypeOK
            <6>3. \A i \in Holders(Head(retired)) : 0 <= i
              BY <4>2
            <6> QED
              BY <1>7, <5>1, <6>1, <6>2, <6>3
          <5>2. CASE u # t
            BY <4>1, <5>2 DEF HazardInv, HazardTypeOK, KeptAhead
          <5> QED
            BY <5>1, <5>2
        <4> QED
          BY <3>1, <3>3, <3>4, <4>1, <4>2, <4>3 DEF HazardInv, HazardTypeOK
      <3>6. CASE ~(Len(retired) > HP_THRESHOLD)
        <4>1. scan' = scan /\ kept' = kept
          BY <2>1, <3>1, <3>3, <3>6 DEF TreeStep
        <4> QED
          BY <1>5, <3>1, <3>3, <3>4, <4>1 DEF HazardInv, HazardTypeOK, KeptAhead, Holders
      <3> QED
        BY <3>5, <3>6
    <2>2. CASE ~SwingSucceeds(t)
      BY <1>5, <2>2 DEF TreeStep, HazardInv, HazardTypeOK, KeptAhead, Holders
    <2> QED
      BY <2>1, <2>2
  <1>9. HazardTypeOK'
    BY <1>4, <1>5, <1>6, <1>8 DEF HazardInv, HazardTypeOK
  <1> QED
    BY <1>2, <1>3, <1>8, <1>9 DEF HazardInv

(* A scan goes on with all the slots that hold the next node.              *)
LEMMA NextNodeHazards ==
    ASSUME HazardInv, NEW t \in Thread, scan[t] # <<>>, NextNode(t), hp' = hp
    PROVE  /\ scan' \in [Thread -> Seq(Addr)] /\ slot' \in [Thread -> 0 .. Slots]
           /\ kept' \in [Thread -> SUBSET (0 .. Slots - 1)] /\ KeptAhead'
  <1>1. PICK rest : rest = Tail(scan[t]) /\ rest \in Seq(Addr)
    BY RestOf DEF HazardInv, HazardTypeOK
  <1>2. PICK k : k = (IF rest = <<>> THEN {} ELSE Holders(Head(rest)))
    OBVIOUS
  <1>3. k \in SUBSET (0 .. Slots - 1)
    BY <1>2, HolderSlots DEF HazardInv
  <1>4. /\ scan' = [scan EXCEPT ![t] = rest] /\ slot' = [slot EXCEPT ![t] = 0]
        /\ kept' = [kept EXCEPT ![t] = k]
    BY <1>1, <1>2 DEF NextNode
  <1>5. 0 \in 0 .. Slots
    <2>1. 0 \in Worker
      BY WorkerCount
    <2> QED
      BY <2>1, RingSlots
  <1>6. KeptAhead'
    <2> SUFFICES ASSUME NEW u \in Thread
                 PROVE  /\ scan'[u] = <<>> => slot'[u] = 0 /\ kept'[u] = {}
                        /\ scan'[u] # <<>> => \A i \in kept'[u] :
                              slot'[u] <= i /\ i \in Holders(Head(scan'[u]))
      BY DEF KeptAhead, Holders
    <2>1. CASE u = t
      <3>1. scan'[u] = rest /\ slot'[u] = 0 /\ kept'[u] = k
        BY <1>4, <2>1 DEF HazardInv, HazardTypeOK
      <3>2. \A i \in k : 0 <= i
        BY <1>3
      <3> QED
        BY <1>2, <3>1, <3>2
    <2>2. CASE u # t
      BY <1>4, <2>2 DEF HazardInv, HazardTypeOK, KeptAhead
    <2> QED
      BY <2>1, <2>2
  <1> QED
    BY <1>1, <1>3, <1>4, <1>5, <1>6 DEF HazardInv, HazardTypeOK

LEMMA CompareSlotHazards ==
    ASSUME HazardInv, NEW t \in Thread, CompareSlot(t)
    PROVE  HazardTypeOK' /\ KeptAhead'
  <1>1. UNCHANGED <<hp, hp_off, rlist, todo, freed>> /\ scan[t] # <<>> /\ slot[t] # Slots
    BY DEF CompareSlot, Compared
  <1>2. CASE NextNode(t)
    BY <1>1, <1>2, NextNodeHazards DEF HazardInv, HazardTypeOK
  <1>3. CASE slot[t] \notin Holders(Head(scan[t]))
    <2>1. slot' = [slot EXCEPT ![t] = slot[t] + 1] /\ UNCHANGED <<scan, kept>>
      BY <1>3 DEF CompareSlot
    <2>2. slot[t] \in 0 .. Slots /\ slot[t] + 1 \in 0 .. Slots
      <3>1. Slots \in Nat
        BY RingSlots, WorkerCount
      <3>2. slot[t] \in 0 .. Slots
        BY DEF HazardInv, HazardTypeOK
      <3> QED
        BY <1>1, <3>1, <3>2
    <2>3. KeptAhead'
      <3> SUFFICES ASSUME NEW u \in Thread
                   PROVE  /\ scan[u] = <<>> => slot'[u] = 0 /\ kept[u] = {}
                          /\ scan[u] # <<>> => \A i \in kept[u] :
                                slot'[u] <= i /\ i \in Holders(Head(scan[u]))
        BY <1>1, <2>1 DEF KeptAhead, Holders
      <3>1. CASE u = t
        <4>1. slot'[u] = slot[t] + 1
          BY <2>1, <3>1 DEF HazardInv, HazardTypeOK
        <4>2. \A i \in kept[t] : slot[t] <= i /\ i \in Holders(Head(scan[t]))
          BY <1>1 DEF HazardInv, KeptAhead
        <4>3. \A i \in kept[t] : i \in Int /\ i # slot[t]
          BY <1>3, <4>2 DEF HazardInv, HazardTypeOK
        <4> QED
          BY <1>1, <2>2, <3>1, <4>1, <4>2, <4>3
      <3>2. CASE u # t
        BY <2>1, <3>2 DEF HazardInv, HazardTypeOK, KeptAhead
      <3> QED
        BY <3>1, <3>2
    <2> QED
      BY <1>1, <2>1, <2>2, <2>3 DEF HazardInv, HazardTypeOK
  <1> QED
    BY <1>2, <1>3 DEF CompareSlot

LEMMA ErasedType ==
    ASSUME NEW s \in Seq(Addr), NEW n
    PROVE  Erased(s, n) \in Seq(Addr)
  <1>1. CASE n \notin Range(s)
    BY <1>1 DEF Erased
  <1>2. CASE n \in Range(s)
    <2>1. PICK at : at = (CHOOSE i \in DOMAIN s : s[i] = n /\ \A j \in 1 .. i - 1 : s[j] # n)
      OBVIOUS
    <2>2. Len(s) \in Nat /\ Len(s) >= 1
      BY <1>2 DEF Range
    <2>3. Erased(s, n) = [i \in 1 .. Len(s) - 1 |-> IF i < at THEN s[i] ELSE s[i + 1]]
      BY <1>2, <2>1 DEF Erased
    <2>4. \A i \in 1 .. Len(s) - 1 : s[i] \in Addr /\ s[i + 1] \in Addr
      BY <2>2
    <2>5. Erased(s, n) \in [1 .. Len(s) - 1 -> Addr] /\ Len(s) - 1 \in Nat
      BY <2>2, <2>3, <2>4
    <2> QED
      BY <2>5
  <1> QED
    BY <1>1, <1>2

LEMMA DeleteNodeHazards ==
    ASSUME HazardInv, NEW t \in Thread, DeleteNode(t)
    PROVE  HazardTypeOK' /\ KeptAhead'
  <1>1. UNCHANGED <<hp, hp_off, todo>> /\ scan[t] # <<>> /\ NextNode(t)
    BY DEF DeleteNode
  <1>2. PICK n : n = Num(t) /\ n \in Worker
    BY NumWorker
  <1>3. rlist' \in [Worker -> Seq(Addr)]
    <2>1. Erased(rlist[n], Head(scan[t])) \in Seq(Addr)
      BY <1>2, ErasedType DEF HazardInv, HazardTypeOK
    <2> QED
      BY <1>2, <2>1 DEF DeleteNode, HazardInv, HazardTypeOK
  <1>4. freed' \subseteq Addr
    <2>1. Head(scan[t]) \in Addr
      BY <1>1, RestOf DEF HazardInv, HazardTypeOK
    <2> QED
      BY <2>1 DEF DeleteNode, HazardInv, HazardTypeOK
  <1> QED
    BY <1>1, <1>3, <1>4, NextNodeHazards DEF HazardInv, HazardTypeOK

-----------------------------------------------------------------------------
LEMMA HazardInitInv == HazardInit => HazardInv
  <1> SUFFICES ASSUME HazardInit PROVE HazardInv
    OBVIOUS
  <1>1. Inv
    BY InitInv DEF HazardInit
  <1>2. Slots \in Nat /\ 0 \in 0 .. Slots
    BY RingSlots, WorkerCount
  <1>3. hp_off \in [Worker -> 0 .. Slots - 1] /\ \A n \in Worker : hp_off[n] \in Ring(n)
    BY RingSlots DEF HazardInit
  <1>4. HazardTypeOK
    BY <1>2, <1>3 DEF HazardInit, HazardTypeOK, NodeAt, NodePtr
  <1>5. KeptAhead
    BY DEF HazardInit, KeptAhead
  <1>6. ReadsNodes
    BY DEF HazardInit, ReadsNodes
  <1> QED
    BY <1>1, <1>4, <1>5, <1>6 DEF HazardInv

LEMMA HazardStepInv ==
    ASSUME HazardInv, NEW t \in Thread, HazardStep(t)
    PROVE  HazardInv'
  <1>1. CASE TreeStep(t)
    BY <1>1, TreeStepHazards
  <1>2. CASE Publish(t) \/ ReadChild(t) \/ CompareSlot(t) \/ DeleteNode(t)
    <2>1. UNCHANGED vars
      BY <1>2 DEF Publish, ReadChild, CompareSlot, DeleteNode
    <2>2. Inv'
      BY <2>1, NextInv DEF HazardInv
    <2>3. ReadsNodes'
      <3>1. CASE Publish(t) \/ ReadChild(t)
        BY <3>1, PublishHazards, ReadChildHazards
      <3>2. CASE todo' = todo
        <4>1. todo' \in [Thread -> Seq(KnownItem)]
          BY <3>2 DEF HazardInv, ReadsNodes
        <4> QED
          BY <2>1, <4>1, SameTreeTodo DEF HazardInv
      <3> QED
        BY <1>2, <3>1, <3>2 DEF CompareSlot, DeleteNode
    <2> QED
      BY <1>2, <2>2, <2>3, PublishHazards, ReadChildHazards, CompareSlotHazards,
         DeleteNodeHazards DEF HazardInv
  <1> QED
    BY <1>1, <1>2 DEF HazardStep

LEMMA HazardNextInv == HazardInv /\ [HazardNext]_<<vars, hazards>> => HazardInv'
  <1> SUFFICES ASSUME HazardInv, [HazardNext]_<<vars, hazards>> PROVE HazardInv'
    OBVIOUS
  <1>1. CASE \E t \in Thread : HazardStep(t)
    BY <1>1, HazardStepInv
  <1>2. CASE UNCHANGED <<vars, hazards>>
    <2>1. UNCHANGED vars /\ UNCHANGED hazards
      BY <1>2
    <2>2. Inv'
      BY <2>1, NextInv DEF HazardInv
    <2>3. ReadsNodes'
      BY <2>1, SameTreeTodo DEF hazards, HazardInv, ReadsNodes
    <2> QED
      BY <2>1, <2>2, <2>3 DEF hazards, HazardInv, HazardTypeOK, KeptAhead, Holders
  <1> QED
    BY <1>1, <1>2 DEF HazardNext, Terminated

THEOREM HazardSafety == HazardSpec => []HazardInv
  <1> QED
    BY HazardInitInv, HazardNextInv, PTL DEF HazardSpec

(* The arrays and lists have their types, no thread writes past its part   *)
(* of hp, and no scan looks past the end of hp.                            *)
THEOREM HazardTypeCorrect == HazardSpec => []HazardTypeOK
  <1>1. HazardInv => HazardTypeOK
    BY DEF HazardInv
  <1> QED
    BY <1>1, HazardSafety, PTL

(* A node that a slot holds during the whole of its scan is not deleted:   *)
(* at the end of the scan no slot is left that has held it all the time.   *)
THEOREM AlwaysHonoursHazards == HazardSpec => []ScanHonoursHazards
  <1>1. HazardInv => ScanHonoursHazards
    <2> SUFFICES ASSUME HazardInv, NEW t \in Thread, scan[t] # <<>>, Compared(t),
                        NEW i \in kept[t]
                 PROVE  FALSE
      BY DEF ScanHonoursHazards, HazardInv, HazardTypeOK
    <2>1. Slots <= i /\ i \in 0 .. Slots - 1 /\ Slots \in Nat
      BY RingSlots, WorkerCount DEF Compared, HazardInv, HazardTypeOK, KeptAhead
    <2> QED
      BY <2>1
  <1> QED
    BY <1>1, HazardSafety, PTL

-----------------------------------------------------------------------------
(***************************************************************************)
(* The retired nodes.  With a history of the ops, and no deleted block used *)
(* again, the nodes that are marked and out of the tree are at all times   *)
(* just those that have been retired (AlwaysDetachedRetired).  First, what *)
(* a step does to the child pointers.                                      *)
(***************************************************************************)
(* A linked node is the child of another one.                              *)
LEMMA ParentOf ==
    ASSUME NEW K, NEW P, NEW A, NEW G, Shape(K, P, A, G), IsFiniteSet(DOMAIN A),
           NEW y \in Linked(A, G) \ {base_root}
    PROVE  \E p \in Linked(A, G), s \in BOOLEAN :
              Hangs(A, G, p, s, y) /\ ~IS_NULL(K[p][s]) /\ K[p][s].node = y
  <1>1. Ancestors(A, G) /\ y \in DOMAIN A
    BY DEF Shape, Linked
  <1>2. PICK S : S = {i \in Nat : \E x \in Up(A, y) : i + Height(A, x) = Cardinality(DOMAIN A)}
    OBVIOUS
  <1>3. base_root \in Up(A, y)
    BY <1>1 DEF Shape, FromRoot, Up, Ancestors
  <1>4. Cardinality(DOMAIN A) - Height(A, base_root) \in S
    <2>1. /\ Height(A, base_root) \in Nat /\ Cardinality(DOMAIN A) \in Nat
          /\ Height(A, base_root) <= Cardinality(DOMAIN A)
      BY HeightType
    <2> QED
      BY <1>2, <1>3, <2>1
  <1>5. PICK m \in S : \A i \in S : m <= i
    BY <1>2, <1>4, LeastOf
  <1>6. PICK x \in Up(A, y) : m + Height(A, x) = Cardinality(DOMAIN A)
    BY <1>2, <1>5
  <1>7. PICK s : s \in BOOLEAN /\ <<x, s>> \in A[y] /\ x \in Linked(A, G)
    BY <1>1, <1>6, SideTyped DEF Up
  <1>8. PICK k : k = K[x][s].node
    OBVIOUS
  <1>9. ~IS_NULL(K[x][s]) /\ (k = y \/ \E z \in BOOLEAN : <<k, z>> \in A[y])
    BY <1>7, <1>8 DEF Shape, Below
  <1>10. k \in Linked(A, G) /\ Hangs(A, G, x, s, k)
    BY <1>7, <1>8, <1>9 DEF Shape, Children
  <1>11. CASE k = y
    BY <1>7, <1>8, <1>9, <1>10, <1>11
  <1>12. CASE \E z \in BOOLEAN : <<k, z>> \in A[y]
    <2>1. k \in Up(A, y)
      BY <1>10, <1>12 DEF Up, Linked
    <2>2. Height(A, k) = Height(A, x) + 1
      BY <1>1, <1>7, <1>10, HeightChild
    <2>3. /\ Height(A, k) \in Nat /\ Height(A, x) \in Nat /\ Cardinality(DOMAIN A) \in Nat
          /\ Height(A, k) <= Cardinality(DOMAIN A)
      BY HeightType
    <2>4. Cardinality(DOMAIN A) - Height(A, k) \in S
      BY <1>2, <2>1, <2>3
    <2> QED
      BY <1>2, <1>5, <1>6, <2>2, <2>3, <2>4
  <1> QED
    BY <1>9, <1>11, <1>12

(* Which nodes are linked is determined by the children.                   *)
LEMMA LinkedAlso ==
    ASSUME NEW K, NEW P, NEW A, NEW G, Shape(K, P, A, G), IsFiniteSet(DOMAIN A),
           NEW Q, NEW B, NEW H, Shape(K, Q, B, H)
    PROVE  Linked(A, G) \subseteq Linked(B, H)
  <1> SUFFICES ASSUME ~(Linked(A, G) \subseteq Linked(B, H)) PROVE FALSE
    OBVIOUS
  <1>1. PICK S : S = {Height(A, y) : y \in Linked(A, G) \ Linked(B, H)}
    OBVIOUS
  <1>2. S \subseteq Nat /\ S # {}
    BY <1>1, HeightType
  <1>3. PICK m \in S : \A i \in S : m <= i
    BY <1>2, LeastOf
  <1>4. PICK y \in Linked(A, G) \ Linked(B, H) : m = Height(A, y)
    BY <1>1, <1>3
  <1>5. base_root \in Linked(B, H)
    BY DEF Shape, Ancestors, Linked
  <1>6. PICK p \in Linked(A, G), s \in BOOLEAN :
           Hangs(A, G, p, s, y) /\ ~IS_NULL(K[p][s]) /\ K[p][s].node = y
    BY <1>4, <1>5, ParentOf
  <1>7. Height(A, y) = Height(A, p) + 1
    BY <1>4, <1>6, HeightChild DEF Shape
  <1>8. p \in Linked(B, H)
    <2>1. Height(A, p) \in Nat
      BY HeightType
    <2>2. ~(m <= Height(A, p))
      BY <1>4, <1>7, <2>1
    <2> QED
      BY <1>1, <1>3, <1>6, <2>2
  <1>9. y \in Linked(B, H)
    BY <1>6, <1>8 DEF Shape, Children
  <1> QED
    BY <1>4, <1>9

LEMMA SameGone ==
    ASSUME NEW K, NEW P, NEW A, NEW G, Shape(K, P, A, G), IsFiniteSet(DOMAIN A),
           NEW Q, NEW B, NEW H, Shape(K, Q, B, H), DOMAIN B = DOMAIN A
    PROVE  H = G
  <1>1. Linked(A, G) = Linked(B, H)
    BY LinkedAlso
  <1>2. G \subseteq DOMAIN A /\ H \subseteq DOMAIN A
    BY DEF Shape, Ancestors
  <1> QED
    BY <1>1, <1>2 DEF Linked

(* An op that t may replace: one with a flag, or one that it has read from *)
(* its curr or for the relocation that it helps.                           *)
MayReplace(t, n) ==
    \/ Busy(n) \/ n = loc[t].curr
    \/ \E a \in DOMAIN reloc : n = reloc[a].dest

(* No child pointer changes, and no change of one is published.            *)
KeepsPointers(t) ==
    /\ DOMAIN node' = DOMAIN node /\ cas' = cas
    /\ \A n \in DOMAIN node :
          /\ node'[n].left = node[n].left /\ node'[n].right = node[n].right
          /\ node'[n].op = node[n].op \/ (node'[n].op.flag # "CHILDCAS" /\ MayReplace(t, n))

LEMMA SameKeeps ==
    ASSUME NEW t, node' = node, cas' = cas
    PROVE  KeepsPointers(t)
  BY DEF KeepsPointers

LEMMA CASOpKeeps ==
    ASSUME Inv, NEW t, NEW n \in DOMAIN node, NEW old, NEW w, CASOp(n, old, w), cas' = cas,
           old.flag \in {"CHILDCAS", "RELOCATE"} \/ MayReplace(t, n), w.flag # "CHILDCAS"
    PROVE  KeepsPointers(t)
  <1>1. CASE Matches(n, old) /\ w # old
    <2>1. OpChange(n, w) /\ DOMAIN node' = DOMAIN node
      BY <1>1, CASOpMatched
    <2>2. MayReplace(t, n)
      BY <1>1 DEF MayReplace, Matches, Busy
    <2> QED
      BY <2>1, <2>2 DEF OpChange, KeepsPointers
  <1>2. CASE ~Matches(n, old)
    BY <1>2, CASOpMissed, SameKeeps
  <1>3. CASE Matches(n, old) /\ w = old
    <2>1. node' = [node EXCEPT ![n].op = w] /\ node[n].op = w
      BY <1>3 DEF CASOp, Matches
    <2>2. node[n] \in LF_BST_Node /\ node \in [DOMAIN node -> LF_BST_Node]
      BY NodeType DEF Inv, TypeOK
    <2>3. node' = node
      BY <2>1, <2>2 DEF LF_BST_Node
    <2> QED
      BY <2>3, SameKeeps
  <1> QED
    BY <1>1, <1>2, <1>3

LEMMA RemoveKeeps ==
    ASSUME Inv, NEW t \in Thread, Remove(t)
    PROVE  KeepsPointers(t)
  <1>1. PICK l : l = loc[t] /\ LocalOK(l, pc[t])
    BY LocalsOf
  <1>2. CASE RemoveReadRight(t) \/ RemoveReadLeft(t) \/ RemoveRecheck(t) \/ RemoveReadKey(t)
    BY <1>2, SameKeeps DEF RemoveReadRight, RemoveReadLeft, RemoveRecheck, RemoveReadKey, heap
  <1>3. CASE RemoveMark(t) \/ RemovePublish(t)
    <2>1. pc[t] \in {"rem_mark", "rem_reloc"} /\ cas' = cas
      BY <1>3 DEF RemoveMark, RemovePublish
    <2>2. l.curr \in DOMAIN node /\ MayReplace(t, l.curr) /\ l.curr_op.flag = "NONE"
      BY <1>1, <2>1 DEF LocalOK, OpLabel, MayReplace
    <2>3. \E w : CASOp(l.curr, l.curr_op, w) /\ w.flag # "CHILDCAS"
      <3>1. CASE RemoveMark(t)
        <4>1. SET_FLAG(l.curr_op, "MARK").flag = "MARK"
          <5>1. l.curr_op \in OpPtr
            BY <1>1, LocalsOf DEF LocalState
          <5> QED
            BY <2>2, <5>1 DEF SET_FLAG, FlagOr, OpPtr
        <4> QED
          BY <1>1, <3>1, <4>1 DEF RemoveMark
      <3>2. CASE RemovePublish(t)
        <4>1. SET_FLAG(OpAt(RelocAddr(t)), "RELOCATE") = Flagged("RELOCATE", RelocAddr(t))
          BY OpFlags DEF Flag
        <4>2. SET_FLAG(OpAt(RelocAddr(t)), "RELOCATE").flag # "CHILDCAS"
          BY <4>1 DEF Flagged
        <4> QED
          BY <1>1, <3>2, <4>2 DEF RemovePublish
      <3> QED
        BY <1>3, <3>1, <3>2
    <2> QED
      BY <2>1, <2>2, <2>3, CASOpKeeps
  <1> QED
    BY <1>2, <1>3 DEF Remove

LEMMA HelpRelocateKeeps ==
    ASSUME Inv, NEW t \in Thread, HelpRelocate(t)
    PROVE  KeepsPointers(t)
  <1>1. PICK l, a : l = loc[t] /\ a = l.reloc_op /\ LocalOK(l, pc[t])
    BY LocalsOf
  <1>2. pc[t] \in RelocLabel /\ cas' = cas
    BY DEF HelpRelocate, HelpRelocateState, HelpRelocateDest, HelpRelocateWon, HelpRelocateLost,
       HelpRelocateKey, HelpRelocateClear, HelpRelocateCurr, RelocLabel, heap
  <1>3. a \in DOMAIN reloc /\ l.curr \in DOMAIN node
    BY <1>1, <1>2 DEF LocalOK, Node
  <1>4. PICK d : d = reloc[a].dest /\ d \in DOMAIN node /\ MayReplace(t, d)
    BY <1>3 DEF MayReplace, Inv, PointersOK, HeapOK, Node
  <1>5. \A f \in Flag : SET_FLAG(OpAt(a), f) = Flagged(f, a) /\ Flagged(f, a).flag = f
    BY OpFlags DEF Flagged
  <1>6. CASE HelpRelocateState(t) \/ HelpRelocateWon(t) \/ HelpRelocateLost(t)
    BY <1>2, <1>6, SameKeeps DEF HelpRelocateState, HelpRelocateWon, HelpRelocateLost, heap
  <1>7. CASE HelpRelocateDest(t)
    <2>1. CASOp(d, reloc[a].dest_op, Flagged("RELOCATE", a))
      BY <1>1, <1>4, <1>5, <1>7 DEF HelpRelocateDest, Flag
    <2> QED
      BY <1>2, <1>4, <1>5, <2>1, CASOpKeeps DEF Flag
  <1>8. CASE HelpRelocateKey(t)
    <2>1. CASKey(reloc[a])
      BY <1>1, <1>8 DEF HelpRelocateKey
    <2>2. CASE node[d].key # reloc[a].remove_key
      BY <1>2, <1>4, <2>1, <2>2, SameKeeps DEF CASKey
    <2>3. CASE node[d].key = reloc[a].remove_key
      <3>1. node' = [node EXCEPT ![d].key = reloc[a].replace_key]
        BY <1>4, <2>1, <2>3 DEF CASKey
      <3>2. node[d] \in LF_BST_Node
        BY <1>4, NodeType
      <3>3. /\ DOMAIN node' = DOMAIN node /\ \A n \in DOMAIN node \ {d} : node'[n] = node[n]
            /\ node'[d].left = node[d].left /\ node'[d].right = node[d].right
            /\ node'[d].op = node[d].op
        BY <1>4, <3>1, <3>2 DEF LF_BST_Node
      <3> QED
        BY <1>2, <3>3 DEF KeepsPointers
    <2> QED
      BY <2>2, <2>3
  <1>9. CASE HelpRelocateClear(t)
    <2>1. CASOp(d, Flagged("RELOCATE", a), Flagged("NONE", a))
      BY <1>1, <1>4, <1>5, <1>9 DEF HelpRelocateClear, ClearOp, Flag
    <2> QED
      BY <1>2, <1>4, <1>5, <2>1, CASOpKeeps DEF Flag
  <1>10. CASE HelpRelocateCurr(t)
    <2>1. \/ node' = node
          \/ \E f \in {"MARK", "NONE"} : CASOp(l.curr, Flagged("RELOCATE", a), Flagged(f, a))
      BY <1>1, <1>5, <1>10 DEF HelpRelocateCurr, ReplaceFlag, Flag
    <2> QED
      BY <1>2, <1>3, <1>5, <2>1, CASOpKeeps, SameKeeps DEF Flag
  <1> QED
    BY <1>6, <1>7, <1>8, <1>9, <1>10 DEF HelpRelocate

(* The two steps that publish a change of a child pointer, and the one     *)
(* that makes it.                                                          *)
Inserts(t) == AddPublish(t) /\ Matches(loc[t].curr, loc[t].curr_op)
Unlinks(t) == HelpMarkedPublish(t) /\ Matches(loc[t].pred, loc[t].pred_op)

LEMMA StepKinds ==
    ASSUME Inv, NEW t \in Thread, Step(t) \/ (t = Main /\ CreateTree)
    PROVE  \/ KeepsPointers(t) /\ ~SwingSucceeds(t)
           \/ Inserts(t) \/ Unlinks(t)
           \/ HelpChildCASSwing(t) /\ SwingSucceeds(t)
  <1>1. PICK l : l = loc[t] /\ LocalOK(l, pc[t])
    BY LocalsOf
  <1>2. CASE TakeWork(t) \/ (t = Main /\ CreateTree) \/ Return(t) \/ Find(t) \/ AddReadOld(t)
    <2>1. node' = node /\ cas' = cas /\ pc[t] # "child_cas"
      BY <1>2 DEF TakeWork, CreateTree, Return, Find, FindStart, FindNext, FindVisit, FindKey,
         FindLastRight, FindCurr, AddReadOld, heap
    <2> QED
      BY <2>1, SameKeeps DEF SwingSucceeds
  <1>3. CASE AddPublish(t)
    <2>1. pc[t] # "child_cas"
      BY <1>3 DEF AddPublish
    <2>2. Inserts(t) \/ (node' = node /\ cas' = cas)
      BY <1>3 DEF AddPublish, Inserts
    <2> QED
      BY <2>1, <2>2, SameKeeps DEF SwingSucceeds
  <1>4. CASE Remove(t) \/ HelpRelocate(t)
    <2>1. pc[t] # "child_cas"
      BY <1>4 DEF Remove, RemoveReadRight, RemoveReadLeft, RemoveMark, RemoveRecheck,
         RemoveReadKey, RemovePublish, HelpRelocate, HelpRelocateState, HelpRelocateDest,
         HelpRelocateWon, HelpRelocateLost, HelpRelocateKey, HelpRelocateClear, HelpRelocateCurr
    <2> QED
      BY <1>4, <2>1, RemoveKeeps, HelpRelocateKeeps DEF SwingSucceeds
  <1>5. CASE HelpChildCASSwing(t)
    <2>1. CASE ~SwingSucceeds(t)
      <3>1. node' = node /\ cas' = cas
        BY <1>5, <2>1 DEF HelpChildCASSwing, CASChild, SwingSucceeds
      <3> QED
        BY <2>1, <3>1, SameKeeps
    <2> QED
      BY <1>5, <2>1
  <1>6. CASE HelpChildCASClear(t)
    <2>1. pc[t] = "child_clear" /\ cas' = cas
      BY <1>6 DEF HelpChildCASClear
    <2>2. l.dest \in DOMAIN node
      BY <1>1, <2>1 DEF LocalOK, ChildLabel
    <2>3. CASOp(l.dest, Flagged("CHILDCAS", l.cas_op), Flagged("NONE", l.cas_op))
      BY <1>1, <1>6, OpFlags DEF HelpChildCASClear, ClearOp, Flag
    <2>4. \A f : Flagged(f, l.cas_op).flag = f
      BY DEF Flagged
    <2> QED
      BY <2>1, <2>2, <2>3, <2>4, CASOpKeeps DEF SwingSucceeds
  <1>7. CASE HelpMarked(t)
    <2>1. pc[t] # "child_cas"
      BY <1>7 DEF HelpMarked, HelpMarkedTestLeft, HelpMarkedTestRight, HelpMarkedTake,
         HelpMarkedSide, HelpMarkedPublish
    <2>2. CASE HelpMarkedPublish(t)
      <3>1. Unlinks(t) \/ (node' = node /\ cas' = cas)
        BY <2>2, CASOpMissed DEF HelpMarkedPublish, Unlinks
      <3> QED
        BY <2>1, <3>1, SameKeeps DEF SwingSucceeds
    <2>3. CASE ~HelpMarkedPublish(t)
      <3>1. node' = node /\ cas' = cas
        BY <1>7, <2>3 DEF HelpMarked, HelpMarkedTestLeft, HelpMarkedTestRight, HelpMarkedTake,
           HelpMarkedSide, heap
      <3> QED
        BY <2>1, <3>1, SameKeeps DEF SwingSucceeds
    <2> QED
      BY <2>2, <2>3
  <1> QED
    BY <1>2, <1>3, <1>4, <1>5, <1>6, <1>7 DEF Step, Add, HelpChildCAS

-----------------------------------------------------------------------------
(***************************************************************************)
(* What threads may come to hold.                                          *)
(***************************************************************************)
(* The nodes that local variables lead to, as far as they are followed.    *)
HeldBy(l) ==
    {base_root, NoNode, l.auxRoot, l.pred, l.curr}
        \cup (IF IS_NULL(l.next) THEN {} ELSE {l.next.node})

(* A thread gets no other node but by reading a child pointer.             *)
FromHeld(l, m) ==
    /\ {m.auxRoot, m.pred, m.curr} \subseteq HeldBy(l)
    /\ \/ IS_NULL(m.next) \/ m.next = l.next
       \/ \E n \in DOMAIN node, s \in BOOLEAN : m.next = ChildOf(node[n], s)

LEMMA NewHeld ==
    ASSUME NEW l, NEW w \in Work, NEW b \in BOOLEAN
    PROVE  FromHeld(l, Locals(w)) /\ FromHeld(l, [Locals(w) EXCEPT !.answer = b])
  BY DEF FromHeld, HeldBy, Locals, IS_NULL, SET_NULL

LEMMA FindCallFields ==
    ASSUME NEW l \in LocalState
    PROVE  /\ FindCall(l) \in LocalState
           /\ FindCall(l).auxRoot = l.auxRoot /\ FindCall(l).pred \in {NoNode, l.pred}
           /\ FindCall(l).curr = NoNode /\ IS_NULL(FindCall(l).next)
  <1>1. FindCall(l) \in LocalState /\ l.work \in Work
    BY FindCallType, WorkType
  <1>2. /\ Locals(l.work) \in LocalState /\ Locals(l.work).curr = NoNode
        /\ Locals(l.work).pred = NoNode /\ Locals(l.work).auxRoot = base_root
        /\ IS_NULL(Locals(l.work).next)
    BY <1>1, NewLocalsType DEF Locals, IS_NULL, SET_NULL
  <1> QED
    BY <1>1, <1>2 DEF FindCall, LocalState

LEMMA FindCallHeld ==
    ASSUME NEW l \in LocalState
    PROVE  FromHeld(l, FindCall(l))
  BY FindCallFields DEF FromHeld, HeldBy

LEMMA CallsHeld ==
    ASSUME Inv, NEW t \in Thread
    PROVE  /\ RetryFind(t) => FromHeld(loc[t], loc'[t])
           /\ Loop(t) => FromHeld(loc[t], loc'[t])
           /\ \A b \in BOOLEAN : Answer(t, b) => FromHeld(loc[t], loc'[t])
           /\ Helped(t) => FromHeld(loc[t], loc'[t])
           /\ RelocateFailed(t) => FromHeld(loc[t], loc'[t])
           /\ \A k \in LocalState : k.auxRoot \in HeldBy(loc[t]) /\ k.pred \in HeldBy(loc[t]) =>
                 \A o, d, ret : helpChildCAS(t, k, o, d, ret) => FromHeld(loc[t], loc'[t])
  <1>1. PICK l : l = loc[t] /\ l \in LocalState /\ l.work \in Work
    BY LocalsOf, WorkType
  <1>2. \A m : SetLocals(t, m) => loc'[t] = m
    BY DEF SetLocals, Inv, TypeOK
  <1>3. RetryFind(t) => FromHeld(l, loc'[t])
    BY <1>1, <1>2, FindCallHeld DEF RetryFind
  <1>4. Loop(t) => FromHeld(l, loc'[t])
    BY <1>1, <1>2, NewHeld DEF Loop
  <1>5. ASSUME NEW b \in BOOLEAN, Answer(t, b) PROVE FromHeld(l, loc'[t])
    <2>1. PICK m : m = [Locals(l.work) EXCEPT !.answer = b]
      OBVIOUS
    <2>2. SetLocals(t, m)
      BY <1>1, <1>5, <2>1 DEF Answer
    <2>3. FromHeld(l, m)
      BY <1>1, <2>1, NewHeld
    <2> QED
      BY <1>2, <2>2, <2>3
  <1>6. Helped(t) => FromHeld(l, loc'[t])
    BY <1>3, <1>5 DEF Helped
  <1>7. RelocateFailed(t) => FromHeld(l, loc'[t])
    BY <1>3, <1>4 DEF RelocateFailed
  <1>8. ASSUME NEW k \in LocalState, k.auxRoot \in HeldBy(l), k.pred \in HeldBy(l),
               NEW o, NEW d, NEW ret, helpChildCAS(t, k, o, d, ret)
        PROVE  FromHeld(l, loc'[t])
    <2>1. PICK m : m = [FindCall(k) EXCEPT !.cas_op = o, !.dest = d, !.ret = ret] /\ loc'[t] = m
      BY <1>1, <1>2, <1>8 DEF helpChildCAS
    <2>2. /\ m.auxRoot = FindCall(k).auxRoot /\ m.pred = FindCall(k).pred
          /\ m.curr = FindCall(k).curr /\ m.next = FindCall(k).next
      BY <2>1, FindCallFields DEF LocalState
    <2>3. NoNode \in HeldBy(l)
      BY DEF HeldBy
    <2> QED
      BY <1>8, <2>1, <2>2, <2>3, FindCallFields DEF FromHeld
  <1> QED
    BY <1>1, <1>3, <1>4, <1>5, <1>6, <1>7, <1>8

(* Calls that pass a pred and a curr on. *)
LEMMA PairHeld ==
    ASSUME NEW l \in LocalState, NEW k \in {l, Locals(l.work)}, NEW m, NEW p \in HeldBy(l),
           NEW c \in HeldBy(l), m.auxRoot = FindCall(k).auxRoot, m.pred = p, m.curr = c,
           m.next = FindCall(k).next
    PROVE  FromHeld(l, m)
  <1>1. k \in LocalState /\ k.auxRoot \in HeldBy(l)
    <2>1. l.work \in Work
      BY WorkType
    <2>2. Locals(l.work) \in LocalState /\ Locals(l.work).auxRoot = base_root
      BY <2>1, NewLocalsType DEF Locals
    <2> QED
      BY <2>2 DEF HeldBy
  <1> QED
    BY <1>1, FindCallFields DEF FromHeld

LEMMA HelpersHeld ==
    ASSUME Inv, NEW t \in Thread, NEW l, l = loc[t], NEW k \in {l, Locals(l.work)},
           NEW p \in HeldBy(l), NEW c \in HeldBy(l)
    PROVE  /\ \A po, ret : helpMarked(t, k, p, po, c, ret) => FromHeld(l, loc'[t])
           /\ \A o, po, ret : helpRelocate(t, k, o, p, po, c, ret) => FromHeld(l, loc'[t])
  <1>1. l \in LocalState /\ l.work \in Work
    BY LocalsOf, WorkType
  <1>2. \A m : SetLocals(t, m) => loc'[t] = m
    BY DEF SetLocals, Inv, TypeOK
  <1>3. FindCall(k) \in LocalState
    BY <1>1, NewLocalsType, FindCallType
  <1>4. ASSUME NEW po, NEW ret, helpMarked(t, k, p, po, c, ret) PROVE FromHeld(l, loc'[t])
    <2>1. PICK m : /\ m = [FindCall(k) EXCEPT !.pred = p, !.pred_op = po, !.curr = c, !.ret = ret]
                   /\ loc'[t] = m
      BY <1>2, <1>4 DEF helpMarked
    <2>2. /\ m.auxRoot = FindCall(k).auxRoot /\ m.pred = p /\ m.curr = c
          /\ m.next = FindCall(k).next
      BY <1>3, <2>1 DEF LocalState
    <2> QED
      BY <1>1, <2>1, <2>2, PairHeld
  <1>5. ASSUME NEW o, NEW po, NEW ret, helpRelocate(t, k, o, p, po, c, ret)
        PROVE  FromHeld(l, loc'[t])
    <2>1. PICK m : /\ m = [FindCall(k) EXCEPT !.reloc_op = o, !.pred = p, !.pred_op = po,
                                              !.curr = c, !.ret = ret]
                   /\ loc'[t] = m
      BY <1>2, <1>5 DEF helpRelocate
    <2>2. /\ m.auxRoot = FindCall(k).auxRoot /\ m.pred = p /\ m.curr = c
          /\ m.next = FindCall(k).next
      BY <1>3, <2>1 DEF LocalState
    <2> QED
      BY <1>1, <2>1, <2>2, PairHeld
  <1> QED
    BY <1>4, <1>5

LEMMA SameHeld ==
    ASSUME NEW l, NEW m, m.auxRoot = l.auxRoot, m.pred = l.pred, m.curr = l.curr, m.next = l.next
    PROVE  FromHeld(l, m)
  BY DEF FromHeld, HeldBy

LEMMA FindHeld ==
    ASSUME Inv, NEW t \in Thread, Find(t)
    PROVE  FromHeld(loc[t], loc'[t])
  <1>1. PICK l : l = loc[t] /\ l \in LocalState /\ LocalOK(l, pc[t]) /\ l.work \in Work
    BY LocalsOf, WorkType
  <1>2. \A m : SetLocals(t, m) => loc'[t] = m
    BY DEF SetLocals, Inv, TypeOK
  <1>3. CASE FindStart(t)
    <2>1. \/ \E o, d, ret : helpChildCAS(t, l, o, d, ret)
          \/ Loop(t)
          \/ \E o : SetLocals(t, [l EXCEPT !.curr = l.auxRoot, !.curr_op = o,
                                           !.result = "NOTFOUND_R"])
      BY <1>1, <1>3 DEF FindStart, Abort
    <2>2. ASSUME NEW o, loc'[t] = [l EXCEPT !.curr = l.auxRoot, !.curr_op = o,
                                            !.result = "NOTFOUND_R"]
          PROVE  FromHeld(l, loc'[t])
      <3>1. /\ loc'[t].auxRoot = l.auxRoot /\ loc'[t].pred = l.pred /\ loc'[t].curr = l.auxRoot
            /\ loc'[t].next = l.next
        BY <1>1, <2>2 DEF LocalState
      <3> QED
        BY <3>1 DEF FromHeld, HeldBy
    <2>3. l.auxRoot \in HeldBy(l) /\ l.pred \in HeldBy(l)
      BY DEF HeldBy
    <2> QED
      BY <1>1, <1>2, <2>1, <2>2, <2>3, CallsHeld
  <1>4. CASE FindNext(t)
    <2>1. PICK isLeft, child : isLeft \in BOOLEAN /\ child = ChildOf(node[l.curr], isLeft)
                               /\ isLeft = (l.result = "NOTFOUND_L")
      OBVIOUS
    <2>2. loc'[t] = IF isLeft THEN [l EXCEPT !.next = child]
                    ELSE [l EXCEPT !.next = child, !.last_right = l.curr,
                                   !.last_right_op = l.curr_op]
      BY <1>1, <1>2, <1>4, <2>1 DEF FindNext
    <2>3. /\ loc'[t].auxRoot = l.auxRoot /\ loc'[t].pred = l.pred /\ loc'[t].curr = l.curr
          /\ loc'[t].next = child
      BY <1>1, <2>2 DEF LocalState
    <2>4. l.curr \in DOMAIN node
      BY <1>1, <1>4 DEF FindNext, LocalOK, FindLabel
    <2> QED
      BY <1>1, <2>1, <2>3, <2>4 DEF FromHeld, HeldBy
  <1>5. CASE FindVisit(t)
    <2>1. PICK c : c = l.next.node
      OBVIOUS
    <2>2. c \in HeldBy(l) /\ l.curr \in HeldBy(l)
      BY <1>1, <1>5, <2>1 DEF FindVisit, LocalOK, HeldBy
    <2>3. node[c].op.flag \in {"NONE", "CHILDCAS", "RELOCATE", "MARK"}
      <3>1. c \in DOMAIN node
        BY <1>1, <1>5, <2>1 DEF FindVisit, LocalOK, RefOK, Node
      <3> QED
        BY <3>1, NodeType DEF OpPtr, Flag
    <2>4. CASE node[c].op.flag = "NONE"
      <3>1. loc'[t] = [l EXCEPT !.pred = l.curr, !.pred_op = l.curr_op, !.curr = c,
                                !.curr_op = node[c].op, !.next = SET_NULL(NoNode)]
        BY <1>1, <1>2, <1>5, <2>1, <2>4 DEF FindVisit, GET_FLAG
      <3>2. /\ loc'[t].auxRoot = l.auxRoot /\ loc'[t].pred = l.curr /\ loc'[t].curr = c
            /\ loc'[t].next = SET_NULL(NoNode)
        BY <1>1, <3>1 DEF LocalState
      <3>3. IS_NULL(SET_NULL(NoNode)) /\ l.auxRoot \in HeldBy(l)
        BY DEF IS_NULL, SET_NULL, HeldBy
      <3> QED
        BY <1>1, <2>2, <3>2, <3>3 DEF FromHeld
    <2>5. CASE node[c].op.flag # "NONE"
      <3>1. \/ \E o, d, ret : helpChildCAS(t, Descended(l), o, d, ret)
            \/ \E po, o, ret : helpRelocate(t, l, o, l.curr, po, c, ret)
            \/ \E po, ret : helpMarked(t, l, l.curr, po, c, ret)
        BY <1>1, <1>5, <2>1, <2>3, <2>5 DEF FindVisit, GET_FLAG
      <3>2. /\ Descended(l) \in LocalState /\ Descended(l).pred \in HeldBy(l)
            /\ Descended(l).auxRoot \in HeldBy(l)
        BY <1>1, <1>5, <2>2, DescendedType DEF FindVisit, HeldBy
      <3> QED
        BY <1>1, <2>2, <3>1, <3>2, CallsHeld, HelpersHeld
    <2> QED
      BY <2>4, <2>5
  <1>6. CASE FindKey(t)
    <2>1. PICK res : loc'[t] = [l EXCEPT !.result = res]
      BY <1>1, <1>2, <1>6 DEF FindKey
    <2> QED
      BY <1>1, <2>1, SameHeld DEF LocalState
  <1>7. CASE FindLastRight(t)
    BY <1>1, <1>7, CallsHeld, SameHeld DEF FindLastRight
  <1>8. CASE FindCurr(t)
    <2>1. \/ RetryFind(t) \/ \E b \in BOOLEAN : Answer(t, b)
          \/ SetLocals(t, [FindCall(l) EXCEPT !.pred = l.pred, !.pred_op = l.pred_op,
                                              !.curr = l.curr, !.curr_op = l.curr_op,
                                              !.result = l.result])
      BY <1>1, <1>8 DEF FindCurr, FindReturn, LocalState, Work
    <2>2. CASE loc'[t] = [FindCall(l) EXCEPT !.pred = l.pred, !.pred_op = l.pred_op,
                                             !.curr = l.curr, !.curr_op = l.curr_op,
                                             !.result = l.result]
      <3>1. /\ loc'[t].auxRoot = FindCall(l).auxRoot /\ loc'[t].pred = l.pred
            /\ loc'[t].curr = l.curr /\ loc'[t].next = FindCall(l).next
        BY <1>1, <2>2, FindCallType DEF LocalState
      <3> QED
        BY <1>1, <3>1, PairHeld DEF HeldBy
    <2> QED
      BY <1>1, <1>2, <2>1, <2>2, CallsHeld
  <1> QED
    BY <1>3, <1>4, <1>5, <1>6, <1>7, <1>8 DEF Find

LEMMA AddRemoveHeld ==
    ASSUME Inv, NEW t \in Thread, Add(t) \/ Remove(t)
    PROVE  FromHeld(loc[t], loc'[t])
  <1>1. PICK l : l = loc[t] /\ l \in LocalState /\ LocalOK(l, pc[t]) /\ l.work \in Work
    BY LocalsOf, WorkType
  <1>2. \A m : SetLocals(t, m) => loc'[t] = m
    BY DEF SetLocals, Inv, TypeOK
  <1>3. Locals(l.work) \in LocalState /\ FromHeld(l, Locals(l.work))
    BY <1>1, NewLocalsType, NewHeld
  <1>4. l.pred \in HeldBy(l) /\ l.curr \in HeldBy(l) /\ l.auxRoot \in HeldBy(l)
    BY DEF HeldBy
  <1>5. CASE AddReadOld(t)
    <2>1. PICK m : /\ m = [Locals(l.work) EXCEPT
                              !.curr = l.curr, !.curr_op = l.curr_op,
                              !.is_left = (l.result = "NOTFOUND_L"),
                              !.old = ChildOf(node[l.curr], l.result = "NOTFOUND_L")]
                   /\ loc'[t] = m
      BY <1>1, <1>2, <1>5 DEF AddReadOld
    <2>2. /\ loc'[t].auxRoot = Locals(l.work).auxRoot /\ loc'[t].pred = Locals(l.work).pred
          /\ loc'[t].curr = l.curr /\ loc'[t].next = Locals(l.work).next
      BY <1>3, <2>1 DEF LocalState
    <2> QED
      BY <1>1, <1>3, <1>4, <2>2 DEF FromHeld
  <1>6. CASE AddPublish(t)
    BY <1>1, <1>4, <1>6, CallsHeld DEF AddPublish
  <1>7. CASE RemoveReadRight(t)
    BY <1>1, <1>7, SameHeld DEF RemoveReadRight
  <1>8. CASE RemoveReadLeft(t)
    <2>1. CASE loc' = loc
      BY <1>1, <2>1, SameHeld
    <2>2. CASE loc' # loc
      <3>1. PICK k : k = [l EXCEPT !.auxRoot = l.curr, !.auxRoot_op = l.curr_op] /\ loc'[t] = FindCall(k)
        BY <1>1, <1>2, <1>8, <2>2 DEF RemoveReadLeft
      <3>2. k \in LocalState /\ k.auxRoot = l.curr /\ k.pred = l.pred
        <4>1. l.curr \in Addr /\ l.curr_op \in OpPtr
          <5>1. l.curr \in Node
            BY <1>1, <1>8 DEF RemoveReadLeft, LocalOK, OpLabel
          <5> QED
            BY <1>1, <5>1, NodeType DEF LocalState, Node
        <4> QED
          BY <1>1, <3>1, <4>1 DEF LocalState
      <3>3. /\ FindCall(k).auxRoot = l.curr /\ FindCall(k).pred \in {NoNode, l.pred}
            /\ FindCall(k).curr = NoNode /\ IS_NULL(FindCall(k).next)
        BY <3>2, FindCallFields
      <3>4. NoNode \in HeldBy(l)
        BY DEF HeldBy
      <3>5. FromHeld(l, FindCall(k))
        BY <1>4, <3>3, <3>4 DEF FromHeld
      <3> QED
        BY <1>1, <3>1, <3>5
    <2> QED
      BY <2>1, <2>2
  <1>9. CASE RemoveMark(t)
    <2>1. \/ Loop(t)
          \/ helpMarked(t, Locals(l.work), l.pred, l.pred_op, l.curr, "op")
      BY <1>1, <1>9 DEF RemoveMark
    <2> QED
      BY <1>1, <1>4, <2>1, CallsHeld, HelpersHeld
  <1>10. CASE RemoveRecheck(t)
    BY <1>1, <1>10, CallsHeld, SameHeld DEF RemoveRecheck
  <1>11. CASE RemoveReadKey(t)
    <2>1. PICK k : loc'[t] = [l EXCEPT !.replace_key = k]
      BY <1>1, <1>2, <1>11 DEF RemoveReadKey
    <2> QED
      BY <1>1, <2>1, SameHeld DEF LocalState
  <1>12. CASE RemovePublish(t)
    <2>1. \/ Loop(t)
          \/ \E o, ret : helpRelocate(t, Locals(l.work), o, l.pred, l.pred_op, l.curr, ret)
      BY <1>1, <1>12 DEF RemovePublish
    <2> QED
      BY <1>1, <1>4, <2>1, CallsHeld, HelpersHeld
  <1> QED
    BY <1>5, <1>6, <1>7, <1>8, <1>9, <1>10, <1>11, <1>12 DEF Add, Remove

LEMMA HelpHeld ==
    ASSUME Inv, NEW t \in Thread, HelpChildCAS(t) \/ HelpMarked(t) \/ HelpRelocate(t)
    PROVE  FromHeld(loc[t], loc'[t])
  <1>1. PICK l : l = loc[t] /\ l \in LocalState /\ LocalOK(l, pc[t]) /\ l.work \in Work
    BY LocalsOf, WorkType
  <1>2. \A m : SetLocals(t, m) => loc'[t] = m
    BY DEF SetLocals, Inv, TypeOK
  <1>3. l.pred \in HeldBy(l) /\ l.curr \in HeldBy(l) /\ l.auxRoot \in HeldBy(l)
    BY DEF HeldBy
  <1>4. CASE loc' = loc
    BY <1>1, <1>4, SameHeld
  <1>5. CASE HelpChildCASClear(t)
    BY <1>1, <1>5, CallsHeld DEF HelpChildCASClear
  <1>6. CASE HelpMarkedTestRight(t) \/ HelpMarkedTake(t)
    <2>1. ASSUME NEW r, SetLocals(t, [l EXCEPT !.new_ref = r]) PROVE FromHeld(l, loc'[t])
      BY <1>1, <1>2, <2>1, SameHeld DEF LocalState
    <2>2. CASE HelpMarkedTestRight(t)
      BY <1>1, <1>4, <2>1, <2>2 DEF HelpMarkedTestRight
    <2>3. CASE HelpMarkedTake(t)
      BY <1>1, <2>1, <2>3 DEF HelpMarkedTake
    <2> QED
      BY <1>1, <1>6, <2>2, <2>3
  <1>7. CASE HelpMarkedSide(t)
    <2>1. \E b : loc'[t] = [l EXCEPT !.is_left = b]
      BY <1>1, <1>2, <1>7 DEF HelpMarkedSide
    <2> QED
      BY <1>1, <2>1, SameHeld DEF LocalState
  <1>8. CASE HelpMarkedPublish(t)
    <2>1. Helped(t) \/ \E o, d, ret : helpChildCAS(t, l, o, d, ret)
      BY <1>1, <1>8 DEF HelpMarkedPublish
    <2> QED
      BY <1>1, <1>3, <2>1, CallsHeld
  <1>9. CASE HelpRelocateState(t) \/ HelpRelocateWon(t) \/ HelpRelocateLost(t)
    <2>1. \E s : loc'[t] = [l EXCEPT !.seen_state = s]
      BY <1>1, <1>2, <1>9 DEF HelpRelocateState, HelpRelocateWon, HelpRelocateLost
    <2> QED
      BY <1>1, <2>1, SameHeld DEF LocalState
  <1>10. CASE HelpRelocateCurr(t)
    <2>1. \/ Helped(t) \/ RelocateFailed(t)
          \/ \E po, ret : helpMarked(t, l, l.pred, po, l.curr, ret)
      BY <1>1, <1>10 DEF HelpRelocateCurr
    <2> QED
      BY <1>1, <1>3, <2>1, CallsHeld, HelpersHeld
  <1> QED
    BY <1>4, <1>5, <1>6, <1>7, <1>8, <1>9, <1>10 DEF HelpChildCAS, HelpChildCASSwing, HelpMarked,
       HelpMarkedTestLeft, HelpRelocate, HelpRelocateDest, HelpRelocateKey, HelpRelocateClear

LEMMA StepHeld ==
    ASSUME Inv, OpsInv, NEW t \in Thread, Step(t) \/ (t = Main /\ CreateTree)
    PROVE  /\ FromHeld(loc[t], loc'[t])
           /\ \A u \in Thread \ {t} : loc'[u] = loc[u]
  <1>1. \A u \in Thread \ {t} : loc'[u] = loc[u]
    BY StepMoves DEF MovesOnly, SetLocals, Inv, TypeOK
  <1>2. CASE TakeWork(t) \/ (t = Main /\ CreateTree) \/ Return(t)
    <2>0. \A m : SetLocals(t, m) => loc'[t] = m
      BY DEF SetLocals, Inv, TypeOK
    <2>1. \E w \in Work : loc'[t] = Locals(w)
      <3>1. CASE TakeWork(t)
        <4>1. Head(queue) \in Work
          BY <3>1 DEF TakeWork, Inv, TypeOK
        <4> QED
          BY <2>0, <3>1, <4>1 DEF TakeWork
      <3>2. CASE t = Main /\ CreateTree
        <4>1. Head(create) \in Int
          BY <3>2 DEF CreateTree, Inv, TypeOK
        <4>2. [op |-> "INSERT", key |-> Head(create)] \in Work
          BY <4>1 DEF Work
        <4> QED
          BY <2>0, <3>2, <4>2 DEF CreateTree
      <3>3. CASE Return(t)
        <4>1. NoWork \in Work
          BY DEF NoWork, Work
        <4> QED
          BY <2>0, <3>3, <4>1 DEF Return
      <3> QED
        BY <1>2, <3>1, <3>2, <3>3
    <2> QED
      BY <1>1, <2>1, NewHeld
  <1> QED
    BY <1>1, <1>2, FindHeld, AddRemoveHeld, HelpHeld DEF Step

(* A relocation moves a key to the node where its remove() had found it.   *)
LEMMA StepDests ==
    ASSUME Inv, NEW t \in Thread, Step(t) \/ (t = Main /\ CreateTree)
    PROVE  \A a \in DOMAIN reloc' :
              \/ reloc'[a].dest = loc[t].auxRoot
              \/ a \in DOMAIN reloc /\ reloc'[a].dest = reloc[a].dest
  <1>1. CASE RemovePublish(t)
    <2>1. PICK a, r : reloc' = reloc \/ (reloc' = Store(reloc, a, r) /\ r.dest = loc[t].auxRoot)
      BY <1>1 DEF RemovePublish
    <2> QED
      BY <2>1 DEF Store
  <1>2. CASE HelpRelocateWon(t) \/ HelpRelocateLost(t)
    <2>1. PICK a, s : Decide(a, s)
      BY <1>2 DEF HelpRelocateWon, HelpRelocateLost
    <2>2. reloc' = reloc \/ reloc' = [reloc EXCEPT ![a].state = s]
      BY <2>1 DEF Decide
    <2>3. \A b \in DOMAIN reloc : reloc[b] \in Relocate_OP
      BY DEF Inv, TypeOK
    <2>4. \A b \in DOMAIN reloc' : b \in DOMAIN reloc /\ reloc'[b].dest = reloc[b].dest
      BY <2>2, <2>3 DEF Relocate_OP
    <2> QED
      BY <2>4
  <1>3. CASE reloc' = reloc
    BY <1>3
  <1>4. ASSUME ~RemovePublish(t), ~HelpRelocateWon(t), ~HelpRelocateLost(t)
        PROVE  reloc' = reloc
    <2>1. Add(t) \/ Remove(t) => reloc' = reloc
      BY <1>4 DEF Add, AddReadOld, AddPublish, Remove, RemoveReadRight, RemoveReadLeft, RemoveMark,
         RemoveRecheck, RemoveReadKey, heap
    <2>2. TakeWork(t) \/ CreateTree \/ Return(t) \/ Find(t) => reloc' = reloc
      BY DEF TakeWork, CreateTree, Return, Find, FindStart, FindNext, FindVisit, FindKey,
         FindLastRight, FindCurr, heap
    <2>3. HelpChildCAS(t) \/ HelpMarked(t) => reloc' = reloc
      BY DEF HelpChildCAS, HelpChildCASSwing, HelpChildCASClear, HelpMarked, HelpMarkedTestLeft,
         HelpMarkedTestRight, HelpMarkedTake, HelpMarkedSide, HelpMarkedPublish, heap
    <2>4. HelpRelocate(t) => reloc' = reloc
      BY <1>4 DEF HelpRelocate, HelpRelocateState, HelpRelocateDest, HelpRelocateKey,
         HelpRelocateClear, HelpRelocateCurr, heap
    <2> QED
      BY <2>1, <2>2, <2>3, <2>4 DEF Step
  <1> QED
    BY <1>1, <1>2, <1>3, <1>4

-----------------------------------------------------------------------------
(***************************************************************************)
(* The retired nodes: those in G, but for the ones that their parents are  *)
(* about to let go of.                                                     *)
(***************************************************************************)
(* The nodes that have been retired, deleted or not.                       *)
Discarded == freed \cup UNION {Range(rlist[n]) : n \in Worker}

(* A change of a child pointer of p is published and not yet made.         *)
Swinging(p) ==
    Has(p, "CHILDCAS") /\ ChildOf(node[p], PendingCAS(p).is_left) = PendingCAS(p).expected

(* The nodes whose parent is about to let go of them, and those that their *)
(* parent is about to get.                                                 *)
Leaving ==
    {n \in DOMAIN node :
        \E p \in DOMAIN node : Swinging(p) /\ PendingCAS(p).expected = NodeAt(n)}
Arriving ==
    {x \in DOMAIN node :
        \E p \in DOMAIN node :
            Swinging(p) /\ UNFLAG(node[p].op) = x /\ IS_NULL(PendingCAS(p).expected)}

(* The address in a null pointer is that of a node that has been retired.  *)
NullsDiscarded ==
    \A n \in DOMAIN node, s \in BOOLEAN :
        IS_NULL(ChildOf(node[n], s)) => ChildOf(node[n], s).node \in Discarded \cup {NoNode}

(* A Child_CAS_OP is made by add() or by helpMarked().                     *)
MadeFor(a) ==
    cas[a].update = IF IS_NULL(cas[a].expected) THEN NodeAt(a) ELSE TheChild(cas[a].expected.node)
CasMade == \A a \in DOMAIN cas : MadeFor(a)

ScansDiscarded == \A t \in Thread : Range(scan[t]) \subseteq Discarded

(* Nobody has met a node that is about to be linked.                       *)
Untouched(x) ==
    /\ node[x].op = NullOp /\ IS_NULL(node[x].left) /\ IS_NULL(node[x].right)
    /\ \A n \in DOMAIN node, s \in BOOLEAN :
          ~IS_NULL(ChildOf(node[n], s)) => ChildOf(node[n], s).node # x
    /\ \A a \in DOMAIN reloc : reloc[a].dest # x
    /\ \A t \in Thread : x \notin HeldBy(loc[t])
ArrivingOK == \A x \in Arriving : Untouched(x)

HeldKnown == \A t \in Thread : HeldBy(loc[t]) \subseteq DOMAIN node \cup {NoNode}

RetireOK(G) ==
    /\ Discarded = G \ Leaving
    /\ NullsDiscarded /\ CasMade /\ ScansDiscarded /\ ArrivingOK /\ HeldKnown

(* A step of the tree, seen with the retired nodes.                        *)
RetireNow(t, A, G) ==
    TreeNow(t, A, G) /\ RetireOK(G) /\ (Step(t) \/ (t = Main /\ CreateTree))

LEMMA SameGoneNext ==
    ASSUME NEW A, NEW G, HeapInv(A, G)', NEW B, NEW H, HeapInv(B, H)'
    PROVE  H = G
  <1>1. /\ Shape(Kids', Pointers', A, G) /\ DOMAIN A = DOMAIN node' /\ IsFiniteSet(DOMAIN node')
        /\ Shape(Kids', Pointers', B, H) /\ DOMAIN B = DOMAIN node'
    BY DEF HeapInv, TreeOK
  <1> QED
    BY <1>1, SameGone

LEMMA SameKidsGone ==
    ASSUME NEW A, NEW G, HeapInv(A, G), NEW B, NEW H, HeapInv(B, H)', Kids' = Kids
    PROVE  H = G
  <1>1. /\ Shape(Kids, Pointers, A, G) /\ DOMAIN A = DOMAIN node /\ IsFiniteSet(DOMAIN node)
        /\ Shape(Kids', Pointers', B, H) /\ DOMAIN B = DOMAIN node'
    BY DEF HeapInv, TreeOK
  <1>2. DOMAIN node' = DOMAIN node
    BY DEF Kids
  <1> QED
    BY <1>1, <1>2, SameGone

(* Threads and relocations do not get to a node that is about to be linked.*)
LEMMA HeldLater ==
    ASSUME NEW t \in Thread, NEW A, NEW G, RetireNow(t, A, G), DOMAIN node \subseteq DOMAIN node'
    PROVE  /\ HeldKnown'
           /\ \A x : x \in Arriving \/ (x \in Addr /\ x \notin DOMAIN node) =>
                 /\ \A a \in DOMAIN reloc' : reloc'[a].dest # x
                 /\ \A u \in Thread : x \notin HeldBy(loc'[u])
  <1>1. /\ Inv /\ OpsInv /\ (Step(t) \/ (t = Main /\ CreateTree))
        /\ ArrivingOK /\ HeldKnown
    BY DEF RetireNow, TreeNow, HeapNow, RetireOK
  <1>2. FromHeld(loc[t], loc'[t]) /\ \A u \in Thread \ {t} : loc'[u] = loc[u]
    BY <1>1, StepHeld
  <1>3. \A n \in DOMAIN node, s \in BOOLEAN : RefOK(ChildOf(node[n], s))
    BY <1>1 DEF Inv, PointersOK, HeapOK, ChildOf
  <1>4. NoNode \notin Addr /\ base_root \in DOMAIN node
    BY <1>1, NullAssumption DEF Inv, PointersOK, HeapOK, BaseRootOp
  <1>5. ASSUME NEW x \in HeldBy(loc'[t])
        PROVE  \/ x \in HeldBy(loc[t])
               \/ \E n \in DOMAIN node, s \in BOOLEAN :
                     ~IS_NULL(ChildOf(node[n], s)) /\ x = ChildOf(node[n], s).node
    <2>1. \/ x \in {base_root, NoNode, loc'[t].auxRoot, loc'[t].pred, loc'[t].curr}
          \/ ~IS_NULL(loc'[t].next) /\ x = loc'[t].next.node
      BY DEF HeldBy
    <2>2. {base_root, NoNode} \subseteq HeldBy(loc[t])
      BY DEF HeldBy
    <2>3. ~IS_NULL(loc[t].next) => loc[t].next.node \in HeldBy(loc[t])
      BY DEF HeldBy
    <2> QED
      BY <1>2, <2>1, <2>2, <2>3 DEF FromHeld
  <1>6. ASSUME NEW n \in DOMAIN node, NEW s \in BOOLEAN, ~IS_NULL(ChildOf(node[n], s))
        PROVE  ChildOf(node[n], s).node \in DOMAIN node
    BY <1>3, <1>6 DEF RefOK, Node
  <1>7. HeldKnown'
    <2>1. \A u \in Thread : HeldBy(loc'[u]) \subseteq DOMAIN node \cup {NoNode}
      BY <1>1, <1>2, <1>5, <1>6 DEF HeldKnown
    <2>2. \A l : HeldBy(l)' = HeldBy(l')
      BY DEF HeldBy
    <2> QED
      BY <2>1 DEF HeldKnown, HeldBy
  <1>8. ASSUME NEW x, x \in Arriving \/ (x \in Addr /\ x \notin DOMAIN node)
        PROVE  /\ \A a \in DOMAIN reloc' : reloc'[a].dest # x
               /\ \A u \in Thread : x \notin HeldBy(loc'[u])
    <2>1. \A u \in Thread : x \notin HeldBy(loc[u])
      BY <1>1, <1>4, <1>8 DEF ArrivingOK, Untouched, HeldKnown
    <2>2. x \notin HeldBy(loc'[t])
      <3>1. ASSUME NEW n \in DOMAIN node, NEW s \in BOOLEAN, ~IS_NULL(ChildOf(node[n], s))
            PROVE  ChildOf(node[n], s).node # x
        BY <1>1, <1>6, <1>8, <3>1 DEF ArrivingOK, Untouched
      <3> QED
        BY <1>5, <2>1, <3>1
    <2>3. \A a \in DOMAIN reloc : reloc[a].dest # x
      BY <1>1, <1>8 DEF ArrivingOK, Untouched, Inv, PointersOK, HeapOK, Node
    <2>4. loc[t].auxRoot # x
      BY <2>1 DEF HeldBy
    <2>5. \A a \in DOMAIN reloc' : reloc'[a].dest # x
      BY <1>1, <2>3, <2>4, StepDests
    <2> QED
      BY <1>2, <2>1, <2>2, <2>5
  <1> QED
    BY <1>7, <1>8

-----------------------------------------------------------------------------
(***************************************************************************)
(* A step keeps this: first those that leave the child pointers alone, then *)
(* those that publish a change of one, then those that make it.            *)
(***************************************************************************)
(* The parts of RetireNow. *)
LEMMA RetireFacts ==
    ASSUME NEW t \in Thread, NEW A, NEW G, RetireNow(t, A, G)
    PROVE  /\ Inv /\ OpsInv /\ HeapInv(A, G) /\ TreeOK(A, G) /\ Swings(G) /\ Ancestors(A, G)
           /\ Inv' /\ OpsInv' /\ Recorded
           /\ Discarded = G \ Leaving /\ NullsDiscarded /\ CasMade /\ ScansDiscarded
           /\ ArrivingOK /\ HeldKnown
           /\ DOMAIN A = DOMAIN node /\ G \subseteq DOMAIN node /\ base_root \notin G
           /\ \A n \in G : Has(n, "MARK")
           /\ \A n \in DOMAIN node : Has(n, "CHILDCAS") =>
                 /\ UNFLAG(node[n].op) \in DOMAIN cas
                 /\ node[n].op = Flagged("CHILDCAS", UNFLAG(node[n].op))
           /\ \A a \in DOMAIN cas : ~IS_NULL(cas[a].expected) => cas[a].expected.node \in G
  <1>1. /\ Inv /\ OpsInv /\ HeapInv(A, G) /\ TreeOK(A, G) /\ Swings(G) /\ Ancestors(A, G)
        /\ Inv' /\ OpsInv' /\ Recorded
        /\ Discarded = G \ Leaving /\ NullsDiscarded /\ CasMade /\ ScansDiscarded
        /\ ArrivingOK /\ HeldKnown
    BY DEF RetireNow, TreeNow, HeapNow, StepsSoundly, RetireOK, HeapInv, TreeOK, Shape
  <1>2. /\ DOMAIN A = DOMAIN node /\ G \subseteq DOMAIN node /\ base_root \notin G
        /\ \A n \in G : Has(n, "MARK")
    BY <1>1 DEF TreeOK, Ancestors
  <1>3. ASSUME NEW n \in DOMAIN node, Has(n, "CHILDCAS")
        PROVE  /\ UNFLAG(node[n].op) \in DOMAIN cas
               /\ node[n].op = Flagged("CHILDCAS", UNFLAG(node[n].op))
    <2>1. OpOK(node[n].op)
      BY <1>1 DEF Inv, PointersOK, HeapOK
    <2>2. node[n].op \in OpPtr
      BY <1>1, NodeType
    <2> QED
      BY <1>3, <2>1, <2>2 DEF OpOK, Has, GET_FLAG, UNFLAG, OpPtr, Flagged
  <1>4. \A a \in DOMAIN cas : ~IS_NULL(cas[a].expected) => cas[a].expected.node \in G
    BY <1>1 DEF Swings, CasOK
  <1> QED
    BY <1>1, <1>2, <1>3, <1>4

LEMMA KeepsRetire ==
    ASSUME NEW t \in Thread, NEW A, NEW G, RetireNow(t, A, G), KeepsPointers(t),
           rlist' = rlist, scan' = scan, freed' = freed, NEW B, NEW H, HeapInv(B, H)'
    PROVE  RetireOK(H)'
  <1>1. /\ Inv /\ OpsInv /\ HeapInv(A, G) /\ Swings(G) /\ Inv' /\ OpsInv' /\ Recorded
        /\ Discarded = G \ Leaving /\ NullsDiscarded /\ CasMade /\ ScansDiscarded
        /\ ArrivingOK /\ HeldKnown /\ G \subseteq DOMAIN node
    BY RetireFacts
  <1>2. /\ DOMAIN node' = DOMAIN node /\ cas' = cas
        /\ \A n \in DOMAIN node :
              /\ node'[n].left = node[n].left /\ node'[n].right = node[n].right
              /\ node'[n].op = node[n].op \/ (node'[n].op.flag # "CHILDCAS" /\ MayReplace(t, n))
    BY DEF KeepsPointers
  <1>3. \A n \in DOMAIN node, s \in BOOLEAN : ChildOf(node'[n], s) = ChildOf(node[n], s)
    BY <1>2 DEF ChildOf
  <1>4. ASSUME NEW n \in DOMAIN node, node'[n].op # node[n].op, Has(n, "CHILDCAS")
        PROVE  /\ ~Swinging(n) /\ PendingCAS(n).is_left \in BOOLEAN
               /\ ChildOf(node[n], PendingCAS(n).is_left) = PendingCAS(n).update
    <2>1. PICK a : a = UNFLAG(node[n].op)
      OBVIOUS
    <2>2. a \in DOMAIN cas /\ node[n].op = Flagged("CHILDCAS", a) /\ PendingCAS(n) = cas[a]
      BY <1>4, <2>1, RetireFacts DEF PendingCAS
    <2>3. cas[a].is_left \in BOOLEAN
      BY <1>1, <2>2 DEF Inv, TypeOK, Child_CAS_OP
    <2>4. node[n].op \in past'[n]
      BY <1>1, <1>2, <1>4 DEF Recorded, Remembered
    <2>5. ChildOf(node'[n], cas'[a].is_left) # cas'[a].expected
      BY <1>2, <2>2, <2>4 DEF HeapInv, Swings
    <2>6. ChildOf(node[n], cas[a].is_left) # cas[a].expected
      BY <1>2, <1>3, <2>3, <2>5
    <2>7. ChildOf(node[n], cas[a].is_left) \in {cas[a].expected, cas[a].update}
      BY <1>1, <1>4, <2>2 DEF Swings
    <2> QED
      BY <2>2, <2>3, <2>6, <2>7 DEF Swinging
  <1>5. ASSUME NEW n \in DOMAIN node
        PROVE  /\ \A s \in BOOLEAN : Child(n, s)' = Child(n, s)
               /\ Swinging(n)' <=> Swinging(n)
               /\ Swinging(n) => /\ node'[n].op = node[n].op /\ PendingCAS(n)' = PendingCAS(n)
    <2>1. CASE node'[n].op = node[n].op
      <3>1. Has(n, "CHILDCAS")' = Has(n, "CHILDCAS") /\ PendingCAS(n)' = PendingCAS(n)
        BY <1>2, <2>1 DEF Has, PendingCAS
      <3>2. Has(n, "CHILDCAS") => PendingCAS(n).is_left \in BOOLEAN
        BY <1>1, RetireFacts DEF PendingCAS, Inv, TypeOK, Child_CAS_OP
      <3> QED
        BY <1>3, <2>1, <3>1, <3>2 DEF Child, Swinging
    <2>2. CASE node'[n].op # node[n].op
      <3>1. ~Has(n, "CHILDCAS")'
        BY <1>2, <2>2 DEF Has, GET_FLAG
      <3>2. \A s \in BOOLEAN : Child(n, s)' = ChildOf(node[n], s)
        BY <1>3, <3>1 DEF Child
      <3>3. \A s \in BOOLEAN : Child(n, s) = ChildOf(node[n], s)
        BY <1>4, <2>2 DEF Child
      <3>4. ~Swinging(n) /\ ~Swinging(n)'
        BY <1>4, <2>2, <3>1 DEF Swinging
      <3> QED
        BY <3>2, <3>3, <3>4
    <2> QED
      BY <2>1, <2>2
  <1>6. H = G
    <2>1. Kids' = Kids
      BY <1>2, <1>5 DEF Kids
    <2> QED
      BY <1>1, <2>1, SameKidsGone
  <1>7. Leaving' = Leaving /\ Arriving' = Arriving
    BY <1>2, <1>5 DEF Leaving, Arriving
  <1>8. Discarded' = Discarded
    BY DEF Discarded
  <1>9. NullsDiscarded'
    BY <1>1, <1>2, <1>3, <1>8 DEF NullsDiscarded
  <1>10. CasMade'
    <2> SUFFICES ASSUME NEW a \in DOMAIN cas PROVE MadeFor(a)'
      BY <1>2 DEF CasMade
    <2>1. MadeFor(a)
      BY <1>1 DEF CasMade
    <2>2. CASE IS_NULL(cas[a].expected)
      BY <1>2, <2>1, <2>2 DEF MadeFor
    <2>3. CASE ~IS_NULL(cas[a].expected)
      <3>1. cas[a].expected.node \in DOMAIN node
        BY <1>1, <2>3, RetireFacts
      <3>2. TheChild(cas[a].expected.node)' = TheChild(cas[a].expected.node)
        BY <1>2, <3>1 DEF TheChild
      <3> QED
        BY <1>2, <2>1, <2>3, <3>2 DEF MadeFor
    <2> QED
      BY <2>2, <2>3
  <1>11. ScansDiscarded'
    BY <1>1, <1>8 DEF ScansDiscarded
  <1>12. /\ HeldKnown'
         /\ \A x \in Arriving :
               /\ \A a \in DOMAIN reloc' : reloc'[a].dest # x
               /\ \A u \in Thread : x \notin HeldBy(loc'[u])
    BY <1>2, HeldLater
  <1>13. ASSUME NEW x \in Arriving PROVE Untouched(x)'
    <2>1. Untouched(x) /\ x \in DOMAIN node
      BY <1>1 DEF ArrivingOK, Arriving
    <2>2. ~MayReplace(t, x)
      <3>1. ~Busy(x)
        BY <2>1 DEF Untouched, Busy, NullOp, OpAt
      <3>2. x # loc[t].curr
        BY <2>1 DEF Untouched, HeldBy
      <3> QED
        BY <2>1, <3>1, <3>2 DEF MayReplace, Untouched
    <2>3. node'[x].op = NullOp /\ IS_NULL(node'[x].left) /\ IS_NULL(node'[x].right)
      BY <1>2, <2>1, <2>2 DEF Untouched
    <2>4. \A n \in DOMAIN node', s \in BOOLEAN :
             ~IS_NULL(ChildOf(node'[n], s)) => ChildOf(node'[n], s).node # x
      BY <1>2, <1>3, <2>1 DEF Untouched
    <2> QED
      BY <1>12, <2>3, <2>4 DEF Untouched, HeldBy
  <1>14. ArrivingOK'
    BY <1>7, <1>13 DEF ArrivingOK
  <1> QED
    BY <1>1, <1>6, <1>7, <1>8, <1>9, <1>10, <1>11, <1>12, <1>14 DEF RetireOK

(* What a published change of a child pointer does to the pending ones.    *)
LEMMA PublishPending ==
    ASSUME NEW t \in Thread, NEW A, NEW G, RetireNow(t, A, G),
           NEW n, NEW a, NEW o, PublishedCAS(n, a, o)
    PROVE  /\ Leaving' = {x \in DOMAIN node' : x \in Leaving \/ o.expected = NodeAt(x)}
           /\ Arriving' = {x \in DOMAIN node' : x \in Arriving \/ (IS_NULL(o.expected) /\ x = a)}
  <1>1. /\ Inv /\ OpChange(n, Flagged("CHILDCAS", a)) /\ node[n].op.flag = "NONE"
        /\ a \notin DOMAIN cas /\ ChildOf(node[n], o.is_left) = o.expected
    BY RetireFacts DEF PublishedCAS
  <1>2. /\ n \in DOMAIN node /\ DOMAIN node \subseteq DOMAIN node'
        /\ node'[n].op = Flagged("CHILDCAS", a)
        /\ node'[n].left = node[n].left /\ node'[n].right = node[n].right
        /\ \A x \in DOMAIN node \ {n} : node'[x] = node[x]
        /\ \A x \in DOMAIN node' \ DOMAIN node : node'[x].op = NullOp
    BY <1>1 DEF OpChange
  <1>3. /\ Has(n, "CHILDCAS")' /\ PendingCAS(n)' = o /\ \A b \in DOMAIN cas : cas'[b] = cas[b]
    BY <1>1, PublishedFacts DEF Extends
  <1>4. Swinging(n)' /\ PendingCAS(n)' = o /\ UNFLAG(node'[n].op) = a /\ ~Swinging(n)
    BY <1>1, <1>2, <1>3 DEF Swinging, ChildOf, Has, GET_FLAG, UNFLAG, Flagged
  <1>5. ASSUME NEW p \in DOMAIN node \ {n}
        PROVE  /\ Swinging(p)' <=> Swinging(p)
               /\ Swinging(p) => PendingCAS(p)' = PendingCAS(p) /\ UNFLAG(node'[p].op) = UNFLAG(node[p].op)
    <2>1. node'[p] = node[p]
      BY <1>2
    <2>2. Has(p, "CHILDCAS")' <=> Has(p, "CHILDCAS")
      BY <2>1 DEF Has
    <2>3. Has(p, "CHILDCAS") => PendingCAS(p)' = PendingCAS(p)
      BY <1>3, <2>1, RetireFacts DEF PendingCAS
    <2> QED
      BY <2>1, <2>2, <2>3 DEF Swinging
  <1>6. \A p \in DOMAIN node' \ DOMAIN node : ~Swinging(p)'
    BY <1>2 DEF Swinging, Has, GET_FLAG, NullOp, OpAt
  <1>7. Leaving' = {x \in DOMAIN node' : x \in Leaving \/ o.expected = NodeAt(x)}
    <2>1. ASSUME NEW x \in Leaving'
          PROVE  x \in DOMAIN node' /\ (x \in Leaving \/ o.expected = NodeAt(x))
      <3>1. PICK p \in DOMAIN node' : Swinging(p)' /\ PendingCAS(p)'.expected = NodeAt(x)
        BY DEF Leaving
      <3>2. x \in DOMAIN node'
        BY DEF Leaving
      <3>3. CASE p = n
        BY <1>4, <3>1, <3>2, <3>3
      <3>4. CASE p # n
        <4>1. p \in DOMAIN node \ {n}
          BY <1>6, <3>1, <3>4
        <4>2. Swinging(p) /\ PendingCAS(p).expected = NodeAt(x)
          BY <1>5, <3>1, <4>1
        <4>3. x \in DOMAIN node
          <5>1. PendingCAS(p) = cas[UNFLAG(node[p].op)] /\ UNFLAG(node[p].op) \in DOMAIN cas
            BY <4>1, <4>2, RetireFacts DEF PendingCAS, Swinging
          <5>2. ~IS_NULL(NodeAt(x)) /\ NodeAt(x).node = x
            BY DEF IS_NULL, NodeAt
          <5> QED
            BY <4>2, <5>1, <5>2, RetireFacts
        <4> QED
          BY <3>2, <4>1, <4>2, <4>3 DEF Leaving
      <3> QED
        BY <3>3, <3>4
    <2>2. ASSUME NEW x \in DOMAIN node', x \in Leaving \/ o.expected = NodeAt(x)
          PROVE  x \in Leaving'
      <3>1. \E p \in DOMAIN node' : Swinging(p)' /\ PendingCAS(p)'.expected = NodeAt(x)
        <4>1. CASE x \in Leaving
          <5>1. PICK p \in DOMAIN node : Swinging(p) /\ PendingCAS(p).expected = NodeAt(x)
            BY <4>1 DEF Leaving
          <5>2. p # n
            BY <1>4, <5>1
          <5> QED
            BY <1>2, <1>5, <5>1, <5>2
        <4>2. CASE o.expected = NodeAt(x)
          BY <1>2, <1>4, <4>2
        <4> QED
          BY <2>2, <4>1, <4>2
      <3> QED
        BY <3>1 DEF Leaving
    <2> QED
      BY <2>1, <2>2
  <1>8. Arriving' = {x \in DOMAIN node' : x \in Arriving \/ (IS_NULL(o.expected) /\ x = a)}
    <2>1. ASSUME NEW x \in Arriving'
          PROVE  x \in DOMAIN node' /\ (x \in Arriving \/ (IS_NULL(o.expected) /\ x = a))
      <3>1. PICK p \in DOMAIN node' :
               Swinging(p)' /\ UNFLAG(node'[p].op) = x /\ IS_NULL(PendingCAS(p)'.expected)
        BY DEF Arriving
      <3>2. x \in DOMAIN node'
        BY DEF Arriving
      <3>3. CASE p = n
        BY <1>4, <3>1, <3>2, <3>3
      <3>4. CASE p # n
        <4>1. p \in DOMAIN node \ {n}
          BY <1>6, <3>1, <3>4
        <4>2. Swinging(p) /\ UNFLAG(node[p].op) = x /\ IS_NULL(PendingCAS(p).expected)
          BY <1>5, <3>1, <4>1
        <4>3. CASE x \in DOMAIN node
          BY <3>2, <4>1, <4>2, <4>3 DEF Arriving
        <4>4. CASE x \notin DOMAIN node
          <5>1. x \in DOMAIN cas /\ PendingCAS(p) = cas[x]
            BY <4>1, <4>2, RetireFacts DEF PendingCAS, Swinging
          <5>2. cas[x].update = NodeAt(x) /\ IS_NULL(cas[x].expected)
            BY <4>2, <5>1, RetireFacts DEF CasMade, MadeFor
          <5>3. RefOK(cas[x].update)
            BY <1>1, <5>1 DEF Inv, PointersOK, HeapOK
          <5> QED
            BY <4>4, <5>2, <5>3 DEF RefOK, NodeAt, IS_NULL, Node
        <4> QED
          BY <4>3, <4>4
      <3> QED
        BY <3>3, <3>4
    <2>2. ASSUME NEW x \in DOMAIN node', x \in Arriving \/ (IS_NULL(o.expected) /\ x = a)
          PROVE  x \in Arriving'
      <3>1. \E p \in DOMAIN node' :
               Swinging(p)' /\ UNFLAG(node'[p].op) = x /\ IS_NULL(PendingCAS(p)'.expected)
        <4>1. CASE x \in Arriving
          <5>1. PICK p \in DOMAIN node :
                   Swinging(p) /\ UNFLAG(node[p].op) = x /\ IS_NULL(PendingCAS(p).expected)
            BY <4>1 DEF Arriving
          <5>2. p # n
            BY <1>4, <5>1
          <5> QED
            BY <1>2, <1>5, <5>1, <5>2
        <4>2. CASE IS_NULL(o.expected) /\ x = a
          BY <1>2, <1>4, <4>2
        <4> QED
          BY <2>2, <4>1, <4>2
      <3> QED
        BY <3>1 DEF Arriving
    <2> QED
      BY <2>1, <2>2
  <1> QED
    BY <1>7, <1>8

(* A change of a child pointer is published in the op of n.                *)
LEMMA PublishRetire ==
    ASSUME NEW t \in Thread, NEW A, NEW G, RetireNow(t, A, G),
           rlist' = rlist, scan' = scan, freed' = freed,
           NEW n, NEW a, NEW o, PublishedCAS(n, a, o), n \in HeldBy(loc[t]), MadeFor(a)',
           IS_NULL(o.expected) => a \in DOMAIN node' /\ a \notin DOMAIN node,
           \A x \in DOMAIN node' \ DOMAIN node :
              /\ x = a /\ x \in Addr /\ IS_NULL(o.expected)
              /\ \A s \in BOOLEAN : ChildOf(node'[x], s) = SET_NULL(NoNode),
           NEW H, H = G \cup {x \in DOMAIN node : o.expected = NodeAt(x)},
           \A x \in G : o.expected # NodeAt(x)
    PROVE  RetireOK(H)'
  <1>1. /\ Inv /\ Inv' /\ Discarded = G \ Leaving /\ NullsDiscarded /\ CasMade /\ ScansDiscarded
        /\ ArrivingOK /\ HeldKnown /\ G \subseteq DOMAIN node
    BY RetireFacts
  <1>2. OpChange(n, Flagged("CHILDCAS", a)) /\ a \notin DOMAIN cas /\ cas' = Store(cas, a, o)
    BY DEF PublishedCAS
  <1>3. /\ n \in DOMAIN node /\ DOMAIN node \subseteq DOMAIN node'
        /\ node'[n].left = node[n].left /\ node'[n].right = node[n].right
        /\ \A x \in DOMAIN node \ {n} : node'[x] = node[x]
        /\ \A x \in DOMAIN node' \ DOMAIN node : node'[x].op = NullOp
    BY <1>2 DEF OpChange
  <1>4. \A x \in DOMAIN node : node'[x].left = node[x].left /\ node'[x].right = node[x].right
    BY <1>3
  <1>5. \A x \in DOMAIN node, s \in BOOLEAN : ChildOf(node'[x], s) = ChildOf(node[x], s)
    BY <1>4 DEF ChildOf
  <1>6. /\ Leaving' = Leaving \cup {x \in DOMAIN node : o.expected = NodeAt(x)}
        /\ Arriving' = {x \in DOMAIN node' : x \in Arriving \/ (IS_NULL(o.expected) /\ x = a)}
    <2>1. \A x \in DOMAIN node' : o.expected = NodeAt(x) => x \in DOMAIN node
      BY DEF NodeAt, IS_NULL
    <2>2. Leaving \subseteq DOMAIN node'
      BY <1>3 DEF Leaving
    <2>3. Leaving' = {x \in DOMAIN node' : x \in Leaving \/ o.expected = NodeAt(x)}
      BY PublishPending
    <2> QED
      BY <1>3, <2>1, <2>2, <2>3, PublishPending
  <1>7. Discarded' = Discarded /\ Discarded' = H \ Leaving'
    <2>1. Discarded' = Discarded
      BY DEF Discarded
    <2> QED
      BY <1>1, <1>6, <2>1
  <1>8. NullsDiscarded'
    <2> SUFFICES ASSUME NEW x \in DOMAIN node', NEW s \in BOOLEAN, IS_NULL(ChildOf(node'[x], s))
                 PROVE  ChildOf(node'[x], s).node \in Discarded' \cup {NoNode}
      BY DEF NullsDiscarded
    <2>1. CASE x \in DOMAIN node
      BY <1>1, <1>5, <1>7, <2>1 DEF NullsDiscarded
    <2>2. CASE x \notin DOMAIN node
      BY <2>2 DEF SET_NULL
    <2> QED
      BY <2>1, <2>2
  <1>9. CasMade'
    <2> SUFFICES ASSUME NEW b \in DOMAIN cas' PROVE MadeFor(b)'
      BY DEF CasMade
    <2>1. CASE b = a
      BY <2>1
    <2>2. CASE b # a
      <3>1. b \in DOMAIN cas /\ cas'[b] = cas[b]
        BY <1>2, <2>2 DEF Store
      <3>2. MadeFor(b)
        BY <1>1, <3>1 DEF CasMade
      <3>3. CASE IS_NULL(cas[b].expected)
        BY <3>1, <3>2, <3>3 DEF MadeFor
      <3>4. CASE ~IS_NULL(cas[b].expected)
        <4>1. PICK e \in DOMAIN node : e = cas[b].expected.node
          BY <1>1, <3>1, <3>4, RetireFacts
        <4>2. TheChild(e)' = TheChild(e)
          BY <1>4 DEF TheChild
        <4> QED
          BY <3>1, <3>2, <3>4, <4>1, <4>2 DEF MadeFor
      <3> QED
        BY <3>3, <3>4
    <2> QED
      BY <2>1, <2>2
  <1>10. ScansDiscarded'
    BY <1>1, <1>7 DEF ScansDiscarded
  <1>11. /\ HeldKnown'
         /\ \A x : x \in Arriving \/ (x \in Addr /\ x \notin DOMAIN node) =>
               /\ \A b \in DOMAIN reloc' : reloc'[b].dest # x
               /\ \A u \in Thread : x \notin HeldBy(loc'[u])
    BY <1>3, HeldLater
  <1>12. ASSUME NEW x \in Arriving' PROVE Untouched(x)'
    <2>1. x \in Arriving \/ (x = a /\ x \in DOMAIN node' /\ x \notin DOMAIN node)
      BY <1>6
    <2>2. x \in Arriving \/ (x \in Addr /\ x \notin DOMAIN node)
      BY <2>1
    <2>3. node'[x].op = NullOp /\ IS_NULL(node'[x].left) /\ IS_NULL(node'[x].right)
      <3>1. CASE x \in Arriving
        <4>1. Untouched(x) /\ x \in DOMAIN node /\ x # n
          BY <1>1, <3>1 DEF ArrivingOK, Arriving, Untouched
        <4> QED
          BY <1>3, <4>1 DEF Untouched
      <3>2. CASE x \notin DOMAIN node
        <4>1. x \in DOMAIN node'
          BY <1>6
        <4>2. ChildOf(node'[x], TRUE) = SET_NULL(NoNode) /\ ChildOf(node'[x], FALSE) = SET_NULL(NoNode)
          BY <3>2, <4>1
        <4> QED
          BY <1>3, <3>2, <4>1, <4>2 DEF ChildOf, SET_NULL, IS_NULL
      <3> QED
        BY <2>1, <3>1, <3>2
    <2>4. ASSUME NEW y \in DOMAIN node', NEW s \in BOOLEAN, ~IS_NULL(ChildOf(node'[y], s))
          PROVE  ChildOf(node'[y], s).node # x
      <3>1. y \in DOMAIN node /\ ChildOf(node'[y], s) = ChildOf(node[y], s)
        BY <1>5, <2>4 DEF SET_NULL, IS_NULL
      <3>2. ChildOf(node[y], s).node \in DOMAIN node
        <4>1. RefOK(ChildOf(node[y], s))
          BY <1>1, <3>1 DEF Inv, PointersOK, HeapOK, ChildOf
        <4> QED
          BY <2>4, <3>1, <4>1 DEF RefOK, Node
      <3> QED
        BY <1>1, <2>1, <2>4, <3>1, <3>2 DEF ArrivingOK, Untouched
    <2> QED
      BY <1>11, <2>2, <2>3, <2>4 DEF Untouched, HeldBy
  <1> QED
    BY <1>7, <1>8, <1>9, <1>10, <1>11, <1>12 DEF RetireOK, ArrivingOK

LEMMA InsertsRetire ==
    ASSUME NEW t \in Thread, NEW A, NEW G, RetireNow(t, A, G), Inserts(t),
           rlist' = rlist, scan' = scan, freed' = freed, NEW B, NEW H, HeapInv(B, H)'
    PROVE  RetireOK(H)'
  <1>1. PICK l, a, s : l = loc[t] /\ a = <<t, blocks[t]>> /\ s = l.is_left
    OBVIOUS
  <1>2. pc[t] = "add_cas" /\ reloc' = reloc /\ Matches(l.curr, l.curr_op) /\ AddPublish(t)
    BY <1>1 DEF Inserts, AddPublish
  <1>3. TreeNow(t, A, G) /\ HeapNow(A, G) /\ StepsSoundly /\ "add_cas" \in CurrLabel
        /\ Inv /\ OpsInv
    BY DEF RetireNow, TreeNow, HeapNow, CurrLabel, OpLabel
  <1>4. /\ l \in LocalState /\ FirstFind(A, G, l, "add_cas") /\ OpsFind(A, G, l, "add_cas")
        /\ Room(A, l, "add_cas") /\ l.curr \in DOMAIN node /\ l.curr_op.flag = "NONE"
        /\ l.work.key \in Int
    BY <1>1, <1>2, <1>3, FindLocals
  <1>5. Is(l.curr, l.curr_op) /\ node[l.curr].op.flag = "NONE" /\ s \in BOOLEAN
    BY <1>1, <1>2, <1>4 DEF Matches, Is, LocalState
  <1>6. /\ Vacant(A, l.curr, s, l.work.key) /\ Upper(A, Keys, l.curr, l.work.key)
        /\ l.old = ChildOf(node[l.curr], s)
    BY <1>1, <1>4, <1>5 DEF Room, FirstFind, OpsFind
  <1>7. a \in Addr /\ a \notin DOMAIN node /\ a \notin DOMAIN cas
    BY <1>1, <1>3, NewBlock
  <1>8. SET_FLAG(OpAt(a), "CHILDCAS") = Flagged("CHILDCAS", a)
    BY OpFlags DEF Flag
  <1>9. PICK o : o = [is_left |-> s, expected |-> ChildOf(node[l.curr], s), update |-> NodeAt(a)]
    OBVIOUS
  <1>10. /\ node' = [Store(node, a, create_LF_node(l.work.key))
                        EXCEPT ![l.curr].op = Flagged("CHILDCAS", a)]
         /\ cas' = Store(cas, a, o)
    BY <1>1, <1>2, <1>6, <1>8, <1>9 DEF AddPublish
  <1>11. Stepped(A, G, Grown(A, l.curr, s, a), G)
    BY <1>2, <1>3, <1>4, <1>5, <1>6, <1>7, <1>9, <1>10, InsertStepped
  <1>12. H = G
    BY <1>11, SameGoneNext DEF Stepped
  <1>13. IS_NULL(o.expected) /\ o.update = NodeAt(a) /\ o.is_left = s
    BY <1>6, <1>9 DEF Vacant
  <1>14. /\ DOMAIN node' = DOMAIN node \cup {a} /\ node'[a] = create_LF_node(l.work.key)
         /\ cas'[a] = o
    BY <1>4, <1>7, <1>10 DEF Store
  <1>15. PublishedCAS(l.curr, a, o)
    <2>1. node[l.curr] \in LF_BST_Node
      BY <1>3, <1>4, NodeType
    <2>2. Store(node, a, create_LF_node(l.work.key))[l.curr] = node[l.curr]
      BY <1>4, <1>7 DEF Store
    <2>3. /\ node'[l.curr].op = Flagged("CHILDCAS", a) /\ node'[l.curr].key = node[l.curr].key
          /\ node'[l.curr].left = node[l.curr].left /\ node'[l.curr].right = node[l.curr].right
      BY <1>4, <1>10, <2>1, <2>2 DEF LF_BST_Node, Store
    <2>4. \A x \in DOMAIN node \ {l.curr} : node'[x] = node[x]
      BY <1>7, <1>10 DEF Store
    <2>5. Flagged("CHILDCAS", a) # node[l.curr].op
      BY <1>5 DEF Flagged
    <2>6. \A x \in DOMAIN node' \ DOMAIN node : node'[x].op = NullOp
      BY <1>14 DEF create_LF_node
    <2>7. OpChange(l.curr, Flagged("CHILDCAS", a))
      BY <1>4, <1>14, <2>3, <2>4, <2>5, <2>6 DEF OpChange
    <2> QED
      BY <1>2, <1>5, <1>7, <1>9, <1>10, <1>13, <2>7 DEF PublishedCAS
  <1>16. l.curr \in HeldBy(loc[t])
    BY <1>1 DEF HeldBy
  <1>17. MadeFor(a)'
    BY <1>13, <1>14 DEF MadeFor
  <1>18. ASSUME NEW x \in DOMAIN node' \ DOMAIN node
         PROVE  x = a /\ x \in Addr /\ \A q \in BOOLEAN : ChildOf(node'[x], q) = SET_NULL(NoNode)
    BY <1>7, <1>14 DEF create_LF_node, ChildOf
  <1>19. \A x : o.expected # NodeAt(x)
    BY <1>13 DEF NodeAt, IS_NULL
  <1>20. H = G \cup {x \in DOMAIN node : o.expected = NodeAt(x)}
    BY <1>12, <1>19
  <1> QED
    BY <1>7, <1>13, <1>14, <1>15, <1>16, <1>17, <1>18, <1>19, <1>20, PublishRetire

LEMMA UnlinksRetire ==
    ASSUME NEW t \in Thread, NEW A, NEW G, RetireNow(t, A, G), Unlinks(t),
           rlist' = rlist, scan' = scan, freed' = freed, NEW B, NEW H, HeapInv(B, H)'
    PROVE  RetireOK(H)'
  <1>1. PICK l, a, c, s : l = loc[t] /\ a = <<t, blocks[t]>> /\ c = l.curr /\ s = l.is_left
    OBVIOUS
  <1>2. SET_FLAG(OpAt(a), "CHILDCAS") = Flagged("CHILDCAS", a)
    BY OpFlags DEF Flag
  <1>3. /\ pc[t] = "mark_cas" /\ reloc' = reloc /\ CASOp(l.pred, l.pred_op, Flagged("CHILDCAS", a))
        /\ Matches(l.pred, l.pred_op) /\ HelpMarkedPublish(t)
    BY <1>1, <1>2 DEF HelpMarkedPublish, Unlinks
  <1>4. TreeNow(t, A, G) /\ HeapNow(A, G) /\ StepsSoundly /\ Inv /\ OpsInv
    BY DEF RetireNow, TreeNow, HeapNow
  <1>5. /\ HelpsMarked(A, G, l, "mark_cas") /\ l \in LocalState
        /\ LocalOK(l, "mark_cas") /\ l.pred_op.flag = "NONE"
    BY <1>1, <1>3, <1>4, FindLocals DEF Helps
  <1>6. Is(l.pred, l.pred_op) /\ node[l.pred].op.flag = "NONE" /\ s \in BOOLEAN
    BY <1>1, <1>3, <1>5 DEF Matches, Is, LocalState
  <1>7. /\ Has(c, "MARK") /\ Pair(A, G, l.pred, l.pred_op, c)
        /\ l.new_ref = TheChild(c) /\ l.pred \in DOMAIN node /\ c \in DOMAIN node
        /\ ChildOf(node[l.pred], s) = NodeAt(c)
    BY <1>1, <1>5, <1>6 DEF HelpsMarked, MarkLabel, LocalOK, Node
  <1>8. c \in DOMAIN node \ G
    BY <1>6, <1>7 DEF Pair
  <1>9. a \notin DOMAIN cas
    BY <1>1, <1>4, NewBlock
  <1>10. PICK o : o = [is_left |-> s, expected |-> NodeAt(c), update |-> TheChild(c)]
    OBVIOUS
  <1>11. /\ node' = [node EXCEPT ![l.pred].op = Flagged("CHILDCAS", a)]
         /\ cas' = Store(cas, a, o)
    BY <1>1, <1>3, <1>7, <1>10 DEF HelpMarkedPublish, CASOp
  <1>12. Stepped(A, G, Cut(A, c), G \cup {c})
    BY <1>3, <1>4, <1>6, <1>7, <1>8, <1>9, <1>10, <1>11, UnlinkStepped
  <1>13. H = G \cup {c}
    BY <1>12, SameGoneNext DEF Stepped
  <1>14. OpChange(l.pred, Flagged("CHILDCAS", a)) /\ DOMAIN node' = DOMAIN node
    BY <1>3, <1>4, <1>5, <1>7, CASOpMatched DEF Flagged
  <1>15. ~IS_NULL(o.expected) /\ o.expected = NodeAt(c) /\ o.update = TheChild(c) /\ o.is_left = s
    BY <1>10 DEF NodeAt, IS_NULL
  <1>16. PublishedCAS(l.pred, a, o)
    BY <1>3, <1>6, <1>7, <1>9, <1>11, <1>14, <1>15 DEF PublishedCAS
  <1>17. l.pred \in HeldBy(loc[t])
    BY <1>1 DEF HeldBy
  <1>18. MadeFor(a)'
    <2>1. cas'[a] = o
      BY <1>11 DEF Store
    <2>2. TheChild(c)' = TheChild(c)
      <3>1. node'[c].left = node[c].left /\ node'[c].right = node[c].right
        BY <1>7, <1>14 DEF OpChange
      <3> QED
        BY <3>1 DEF TheChild
    <2>3. NodeAt(c).node = c
      BY DEF NodeAt
    <2> QED
      BY <1>15, <2>1, <2>2, <2>3 DEF MadeFor
  <1>19. \A x : o.expected = NodeAt(x) <=> x = c
    <2>1. \A x : NodeAt(x).node = x
      BY DEF NodeAt
    <2> QED
      BY <1>15, <2>1
  <1>20. H = G \cup {x \in DOMAIN node : o.expected = NodeAt(x)}
    BY <1>8, <1>13, <1>19
  <1> QED
    BY <1>8, <1>14, <1>15, <1>16, <1>17, <1>18, <1>19, <1>20, PublishRetire

(* The CAS that makes the change of the pointer of d for a.                *)
Swung(d, a) ==
    /\ d \in DOMAIN node /\ a \in DOMAIN cas /\ cas[a].is_left \in BOOLEAN
    /\ node[d].op = Flagged("CHILDCAS", a) /\ PendingCAS(d) = cas[a] /\ Swinging(d)
    /\ cas' = cas /\ DOMAIN node' = DOMAIN node /\ node'[d].op = node[d].op
    /\ \A x \in DOMAIN node \ {d} : node'[x] = node[x]
    /\ ChildOf(node'[d], cas[a].is_left) = cas[a].update
    /\ ChildOf(node'[d], ~cas[a].is_left) = ChildOf(node[d], ~cas[a].is_left)

LEMMA SwingFacts ==
    ASSUME NEW t \in Thread, NEW A, NEW G, RetireNow(t, A, G),
           HelpChildCASSwing(t), SwingSucceeds(t)
    PROVE  Swung(loc[t].dest, loc[t].cas_op)
  <1>1. PICK l, a, d : l = loc[t] /\ a = l.cas_op /\ d = l.dest
    OBVIOUS
  <1>2. /\ pc[t] = "child_cas" /\ cas' = cas /\ CASChild(d, cas[a])
        /\ ChildOf(node[d], cas[a].is_left) = cas[a].expected
    BY <1>1 DEF HelpChildCASSwing, SwingSucceeds
  <1>3. HelpsChildCAS(l, "child_cas") /\ LocalOK(l, "child_cas")
    BY <1>1, <1>2, FindLocals DEF Helps, RetireNow
  <1>4. a \in DOMAIN cas /\ d \in DOMAIN node /\ Flagged("CHILDCAS", a) \in Had(node, past, d)
    BY <1>1, <1>3 DEF LocalOK, HelpsChildCAS, ChildLabel
  <1>5. node[d].op = Flagged("CHILDCAS", a)
    BY <1>2, <1>4, RetireFacts DEF Swings, Had
  <1>6. Has(d, "CHILDCAS") /\ PendingCAS(d) = cas[a]
    BY <1>5 DEF Flagged, Has, GET_FLAG, PendingCAS, UNFLAG
  <1>7. node[d] \in LF_BST_Node /\ cas[a].is_left \in BOOLEAN
    BY <1>4, NodeType, RetireFacts DEF Inv, TypeOK, Child_CAS_OP
  <1>8. /\ DOMAIN node' = DOMAIN node /\ \A x \in DOMAIN node \ {d} : node'[x] = node[x]
        /\ node'[d].op = node[d].op
        /\ ChildOf(node'[d], cas[a].is_left) = cas[a].update
        /\ ChildOf(node'[d], ~cas[a].is_left) = ChildOf(node[d], ~cas[a].is_left)
    BY <1>2, <1>4, <1>7 DEF CASChild, ChildOf, LF_BST_Node
  <1> QED
    BY <1>1, <1>2, <1>4, <1>5, <1>6, <1>7, <1>8 DEF Swung, Swinging

LEMMA SwungKids ==
    ASSUME NEW d, NEW a, Swung(d, a)
    PROVE  Kids' = Kids
  <1>1. /\ Has(d, "CHILDCAS") /\ Has(d, "CHILDCAS")' /\ PendingCAS(d) = cas[a] /\ PendingCAS(d)' = cas[a]
    BY DEF Swung, Swinging, Has, PendingCAS
  <1>2. \A s \in BOOLEAN : s = cas[a].is_left \/ s = ~cas[a].is_left
    BY DEF Swung
  <1>3. \A s \in BOOLEAN : Child(d, s)' = Child(d, s)
    BY <1>1, <1>2 DEF Child, Swung
  <1>4. ASSUME NEW x \in DOMAIN node \ {d} PROVE \A s \in BOOLEAN : Child(x, s)' = Child(x, s)
    BY DEF Child, Swung, Has, PendingCAS
  <1>5. \A x \in DOMAIN node, s \in BOOLEAN : Child(x, s)' = Child(x, s)
    BY <1>3, <1>4
  <1> QED
    BY <1>5 DEF Kids, Swung

(* A node has one parent, also for the changes that are pending.           *)
LEMMA OneSwing ==
    ASSUME NEW t \in Thread, NEW A, NEW G, RetireNow(t, A, G),
           NEW p \in DOMAIN node, Has(p, "CHILDCAS"), NEW q \in DOMAIN node, Has(q, "CHILDCAS")
    PROVE  /\ \A x : Swinging(p) /\ Swinging(q) /\ PendingCAS(p).expected = NodeAt(x)
                        /\ PendingCAS(q).expected = NodeAt(x) => p = q
           /\ \A x : PendingCAS(p).update = NodeAt(x) /\ PendingCAS(q).update = NodeAt(x) => p = q
  <1>1. /\ Shape(Kids, Pointers, A, G) /\ Ancestors(A, G) /\ DOMAIN A = DOMAIN node /\ Inv
        /\ \A n \in G : Has(n, "MARK")
    BY RetireFacts DEF TreeOK
  <1>2. p \in Linked(A, G) /\ q \in Linked(A, G)
    BY <1>1 DEF Has, Linked
  <1>3. PendingCAS(p).is_left \in BOOLEAN /\ PendingCAS(q).is_left \in BOOLEAN
    BY <1>1, RetireFacts DEF PendingCAS, Inv, TypeOK, Child_CAS_OP
  <1>4. \A x : ~IS_NULL(NodeAt(x)) /\ NodeAt(x).node = x
    BY DEF NodeAt, IS_NULL
  <1>5. ASSUME NEW x, Swinging(p), Swinging(q), PendingCAS(p).expected = NodeAt(x),
               PendingCAS(q).expected = NodeAt(x)
        PROVE  p = q
    <2>1. /\ Pointers[p][PendingCAS(p).is_left] = NodeAt(x)
          /\ Pointers[q][PendingCAS(q).is_left] = NodeAt(x)
      BY <1>3, <1>5 DEF Pointers, Swinging
    <2>2. /\ x \in DOMAIN A /\ Hangs(A, G, p, PendingCAS(p).is_left, x)
          /\ Hangs(A, G, q, PendingCAS(q).is_left, x)
      BY <1>1, <1>3, <1>4, <2>1 DEF Shape, PointersHang
    <2> QED
      BY <1>1, <1>2, <1>3, <2>2, OneParent
  <1>6. ASSUME NEW x, PendingCAS(p).update = NodeAt(x), PendingCAS(q).update = NodeAt(x)
        PROVE  p = q
    <2>1. /\ Kids[p][PendingCAS(p).is_left] = NodeAt(x)
          /\ Kids[q][PendingCAS(q).is_left] = NodeAt(x)
      BY <1>3, <1>6 DEF Kids, Child
    <2>2. /\ x \in Linked(A, G) /\ Hangs(A, G, p, PendingCAS(p).is_left, x)
          /\ Hangs(A, G, q, PendingCAS(q).is_left, x)
      BY <1>1, <1>2, <1>3, <1>4, <2>1 DEF Shape, Children
    <2> QED
      BY <1>1, <1>2, <1>3, <2>2, OneParent DEF Linked
  <1> QED
    BY <1>5, <1>6

(* What is pending once the pointer of d has been changed.                 *)
LEMMA SwungPending ==
    ASSUME NEW t \in Thread, NEW A, NEW G, RetireNow(t, A, G), NEW d, NEW a, Swung(d, a)
    PROVE  /\ Leaving' = Leaving \ Detached(cas[a])
           /\ Arriving' \subseteq Arriving /\ (IS_NULL(cas[a].expected) => a \notin Arriving')
           /\ Detached(cas[a]) \subseteq G
  <1>1. /\ Inv /\ Swings(G) /\ Discarded = G \ Leaving /\ NullsDiscarded /\ CasMade
        /\ G \subseteq DOMAIN node
    BY RetireFacts
  <1>2. /\ d \in DOMAIN node /\ a \in DOMAIN cas /\ PendingCAS(d) = cas[a] /\ Swinging(d)
        /\ Has(d, "CHILDCAS") /\ cas' = cas /\ DOMAIN node' = DOMAIN node /\ node'[d].op = node[d].op
        /\ cas[a].is_left \in BOOLEAN /\ UNFLAG(node[d].op) = a
    BY DEF Swung, Swinging, UNFLAG, Flagged
  <1>3. ~Swinging(d)'
    <2>1. PendingCAS(d)' = cas[a] /\ cas[a].update # cas[a].expected
      BY <1>1, <1>2 DEF PendingCAS, Swings, CasOK
    <2> QED
      BY <2>1 DEF Swinging, Swung
  <1>4. ASSUME NEW p \in DOMAIN node \ {d}
        PROVE  /\ Swinging(p)' <=> Swinging(p)
               /\ PendingCAS(p)' = PendingCAS(p) /\ node'[p] = node[p]
    BY DEF Swung, Swinging, Has, PendingCAS
  <1>5. NoNode \notin DOMAIN node
    BY <1>1, NullAssumption DEF Inv, TypeOK
  <1>6. cas[a].expected = ChildOf(node[d], cas[a].is_left) /\ cas[a].expected \in NodePtr
    BY <1>1, <1>2, NodeType DEF Swinging
  <1>7. IS_NULL(cas[a].expected) => cas[a].expected.node \in Discarded \cup {NoNode}
    BY <1>1, <1>2, <1>6 DEF NullsDiscarded
  <1>8. ~IS_NULL(cas[a].expected) =>
           cas[a].expected.node \in G /\ cas[a].expected = NodeAt(cas[a].expected.node)
    BY <1>2, <1>6, RetireFacts DEF NodePtr, IS_NULL, NodeAt
  <1>9. Detached(cas[a]) \subseteq G
    BY <1>1, <1>7, <1>8 DEF Detached
  <1>10. \A x : NodeAt(x).node = x /\ ~IS_NULL(NodeAt(x))
    BY DEF NodeAt, IS_NULL
  <1>11. Leaving' = Leaving \ Detached(cas[a])
    <2>1. ASSUME NEW x \in Leaving' PROVE x \in Leaving /\ x \notin Detached(cas[a])
      <3>1. PICK p \in DOMAIN node : Swinging(p)' /\ PendingCAS(p)'.expected = NodeAt(x)
        BY <1>2 DEF Leaving
      <3>2. p # d
        BY <1>3, <3>1
      <3>3. Swinging(p) /\ PendingCAS(p).expected = NodeAt(x) /\ x \in DOMAIN node
        BY <1>2, <1>4, <3>1, <3>2 DEF Leaving
      <3>4. x \in Leaving
        BY <3>3 DEF Leaving
      <3>5. x \notin Detached(cas[a])
        <4>1. CASE IS_NULL(cas[a].expected)
          BY <1>1, <1>7, <3>4, <4>1 DEF Detached
        <4>2. CASE ~IS_NULL(cas[a].expected)
          <5>1. Has(p, "CHILDCAS")
            BY <3>3 DEF Swinging
          <5>2. cas[a].expected # NodeAt(x)
            BY <1>2, <3>2, <3>3, <5>1, OneSwing
          <5>3. x # cas[a].expected.node
            BY <1>8, <4>2, <5>2
          <5> QED
            BY <5>3 DEF Detached
        <4> QED
          BY <4>1, <4>2
      <3> QED
        BY <3>4, <3>5
    <2>2. ASSUME NEW x \in Leaving, x \notin Detached(cas[a]) PROVE x \in Leaving'
      <3>1. PICK p \in DOMAIN node : Swinging(p) /\ PendingCAS(p).expected = NodeAt(x)
        BY DEF Leaving
      <3>2. x \in DOMAIN node
        BY DEF Leaving
      <3>3. p # d
        BY <1>2, <1>5, <1>10, <2>2, <3>1, <3>2 DEF Detached
      <3> QED
        BY <1>2, <1>4, <3>1, <3>2, <3>3 DEF Leaving
    <2> QED
      BY <2>1, <2>2
  <1>12. ASSUME NEW x \in Arriving' PROVE x \in Arriving /\ (IS_NULL(cas[a].expected) => x # a)
    <2>1. PICK p \in DOMAIN node :
             Swinging(p)' /\ UNFLAG(node'[p].op) = x /\ IS_NULL(PendingCAS(p)'.expected)
      BY <1>2 DEF Arriving
    <2>2. p # d
      BY <1>3, <2>1
    <2>3. /\ Swinging(p) /\ UNFLAG(node[p].op) = x /\ IS_NULL(PendingCAS(p).expected)
          /\ x \in DOMAIN node
      BY <1>2, <1>4, <2>1, <2>2 DEF Arriving
    <2>4. x \in Arriving
      BY <2>3 DEF Arriving
    <2>5. ASSUME IS_NULL(cas[a].expected), x = a PROVE FALSE
      <3>1. cas[a].update = NodeAt(a)
        BY <1>1, <1>2, <2>5 DEF CasMade, MadeFor
      <3>2. PendingCAS(p) = cas[a] /\ Has(p, "CHILDCAS")
        BY <2>3, <2>5 DEF PendingCAS, Swinging
      <3> QED
        BY <1>2, <2>2, <3>1, <3>2, OneSwing
    <2> QED
      BY <2>4, <2>5
  <1> QED
    BY <1>9, <1>11, <1>12

(* The thread whose CAS makes the change retires what it has unlinked.     *)
LEMMA SwingRetire ==
    ASSUME NEW t \in Thread, NEW A, NEW G, RetireNow(t, A, G), NEW d, NEW a, Swung(d, a),
           Discarded' = Discarded \cup Detached(cas[a]),
           \A u \in Thread : Range(scan'[u]) \subseteq Range(scan[u]) \cup Discarded',
           NEW B, NEW H, HeapInv(B, H)'
    PROVE  RetireOK(H)'
  <1>1. /\ Inv /\ HeapInv(A, G) /\ Swings(G) /\ Discarded = G \ Leaving
        /\ NullsDiscarded /\ CasMade /\ ScansDiscarded /\ ArrivingOK /\ HeldKnown
        /\ G \subseteq DOMAIN node /\ \A n \in G : Has(n, "MARK")
    BY RetireFacts
  <1>2. /\ d \in DOMAIN node /\ a \in DOMAIN cas /\ cas[a].is_left \in BOOLEAN
        /\ Has(d, "CHILDCAS") /\ cas' = cas /\ DOMAIN node' = DOMAIN node /\ node'[d].op = node[d].op
        /\ \A x \in DOMAIN node \ {d} : node'[x] = node[x]
        /\ ChildOf(node'[d], cas[a].is_left) = cas[a].update
        /\ ChildOf(node'[d], ~cas[a].is_left) = ChildOf(node[d], ~cas[a].is_left)
    BY DEF Swung, Swinging
  <1>3. H = G
    BY <1>1, SwungKids, SameKidsGone
  <1>4. /\ Leaving' = Leaving \ Detached(cas[a])
        /\ Arriving' \subseteq Arriving /\ (IS_NULL(cas[a].expected) => a \notin Arriving')
        /\ Detached(cas[a]) \subseteq G
    BY SwungPending
  <1>5. Discarded' = G \ Leaving'
    BY <1>1, <1>4
  <1>6. ASSUME NEW x \in DOMAIN node, NEW s \in BOOLEAN
        PROVE  \/ ChildOf(node'[x], s) = ChildOf(node[x], s)
               \/ ChildOf(node'[x], s) = cas[a].update
    <2>1. CASE x = d
      <3>1. s = cas[a].is_left \/ s = ~cas[a].is_left
        BY <1>2
      <3> QED
        BY <1>2, <2>1, <3>1
    <2>2. CASE x # d
      BY <1>2, <2>2
    <2> QED
      BY <2>1, <2>2
  <1>7. cas[a].update = IF IS_NULL(cas[a].expected) THEN NodeAt(a)
                        ELSE TheChild(cas[a].expected.node)
    BY <1>1, <1>2 DEF CasMade, MadeFor
  <1>8. ~IS_NULL(cas[a].expected) =>
           cas[a].expected.node \in G /\ cas[a].expected.node \in Detached(cas[a])
    <2>1. ~IS_NULL(cas[a].expected) => cas[a].expected.node \in G
      BY <1>2, RetireFacts
    <2>2. NoNode \notin G
      BY <1>1, NullAssumption DEF Inv, TypeOK
    <2> QED
      BY <2>1, <2>2 DEF Detached
  <1>9. NullsDiscarded'
    <2> SUFFICES ASSUME NEW x \in DOMAIN node, NEW s \in BOOLEAN, IS_NULL(ChildOf(node'[x], s))
                 PROVE  ChildOf(node'[x], s).node \in Discarded' \cup {NoNode}
      BY <1>2 DEF NullsDiscarded
    <2>1. CASE ChildOf(node'[x], s) = ChildOf(node[x], s)
      BY <1>1, <2>1 DEF NullsDiscarded
    <2>2. CASE ChildOf(node'[x], s) = cas[a].update
      <3>1. IS_NULL(cas[a].update)
        BY <2>2
      <3>2. ~IS_NULL(cas[a].expected)
        BY <1>7, <3>1 DEF NodeAt, IS_NULL
      <3>3. cas[a].update = SET_NULL(cas[a].expected.node)
        BY <1>7, <3>1, <3>2 DEF TheChild
      <3>4. cas[a].update.node = cas[a].expected.node
        BY <3>3 DEF SET_NULL
      <3> QED
        BY <1>8, <2>2, <3>2, <3>4
    <2> QED
      BY <1>6, <2>1, <2>2
  <1>10. CasMade'
    <2> SUFFICES ASSUME NEW b \in DOMAIN cas PROVE MadeFor(b)'
      BY <1>2 DEF CasMade
    <2>1. MadeFor(b) /\ cas'[b] = cas[b]
      BY <1>1, <1>2 DEF CasMade
    <2>2. CASE IS_NULL(cas[b].expected)
      BY <2>1, <2>2 DEF MadeFor
    <2>3. CASE ~IS_NULL(cas[b].expected)
      <3>1. PICK e \in G : e = cas[b].expected.node
        BY <2>3, RetireFacts
      <3>2. e # d /\ e \in DOMAIN node
        BY <1>1, <1>2 DEF Has
      <3>3. TheChild(e)' = TheChild(e)
        BY <1>2, <3>2 DEF TheChild
      <3> QED
        BY <2>1, <2>3, <3>1, <3>3 DEF MadeFor
    <2> QED
      BY <2>2, <2>3
  <1>11. ScansDiscarded'
    BY <1>1 DEF ScansDiscarded
  <1>12. /\ HeldKnown'
         /\ \A x \in Arriving :
               /\ \A b \in DOMAIN reloc' : reloc'[b].dest # x
               /\ \A u \in Thread : x \notin HeldBy(loc'[u])
    BY <1>2, HeldLater
  <1>13. ASSUME NEW x \in Arriving' PROVE Untouched(x)'
    <2>1. x \in Arriving /\ Untouched(x) /\ x \in DOMAIN node
      BY <1>1, <1>4 DEF ArrivingOK, Arriving
    <2>2. x # d
      BY <1>2, <2>1 DEF Untouched, Has, GET_FLAG, NullOp, OpAt
    <2>3. node'[x].op = NullOp /\ IS_NULL(node'[x].left) /\ IS_NULL(node'[x].right)
      BY <1>2, <2>1, <2>2 DEF Untouched
    <2>4. ASSUME NEW y \in DOMAIN node', NEW s \in BOOLEAN, ~IS_NULL(ChildOf(node'[y], s))
          PROVE  ChildOf(node'[y], s).node # x
      <3>1. CASE ChildOf(node'[y], s) = ChildOf(node[y], s)
        BY <1>2, <2>1, <2>4, <3>1 DEF Untouched
      <3>2. CASE ChildOf(node'[y], s) = cas[a].update
        <4>1. CASE IS_NULL(cas[a].expected)
          <5>1. cas[a].update.node = a
            BY <1>7, <4>1 DEF NodeAt
          <5> QED
            BY <1>4, <3>2, <4>1, <5>1
        <4>2. CASE ~IS_NULL(cas[a].expected)
          <5>1. PICK e \in DOMAIN node : cas[a].update = TheChild(e)
            BY <1>1, <1>7, <1>8, <4>2
          <5>2. ~IS_NULL(TheChild(e))
            BY <2>4, <3>2, <5>1
          <5>3. TheChild(e) = ChildOf(node[e], TRUE) \/ TheChild(e) = ChildOf(node[e], FALSE)
            BY <5>2 DEF TheChild, ChildOf, SET_NULL, IS_NULL
          <5> QED
            BY <2>1, <3>2, <5>1, <5>2, <5>3 DEF Untouched
        <4> QED
          BY <4>1, <4>2
      <3> QED
        BY <1>2, <1>6, <3>1, <3>2
    <2> QED
      BY <1>12, <2>1, <2>3, <2>4 DEF Untouched, HeldBy
  <1>14. ArrivingOK'
    BY <1>13 DEF ArrivingOK
  <1> QED
    BY <1>3, <1>5, <1>9, <1>10, <1>11, <1>12, <1>14 DEF RetireOK

(* The lists. *)
LEMMA RetiredRange ==
    ASSUME NEW n \in Worker, rlist[n] \in Seq(Addr), NEW o
    PROVE  Range(Retired(n, o)) = Range(rlist[n]) \cup Detached(o)
  <1>1. PICK new : new = Detached(o) \ Range(rlist[n])
    OBVIOUS
  <1>2. CASE new = {}
    BY <1>1, <1>2 DEF Retired
  <1>3. CASE new # {}
    <2>1. PICK x : x = (CHOOSE y \in new : TRUE) /\ x \in new
      BY <1>3
    <2>2. Detached(o) = {x} /\ x = o.expected.node
      BY <1>1, <2>1 DEF Detached
    <2>3. Retired(n, o) = Append(rlist[n], x)
      BY <1>1, <1>3, <2>1 DEF Retired
    <2>4. Range(Append(rlist[n], x)) = Range(rlist[n]) \cup {x}
      <3>1. PICK s \in Seq(Addr) : s = rlist[n]
        OBVIOUS
      <3>2. /\ Len(s) \in Nat /\ DOMAIN s = 1 .. Len(s) /\ DOMAIN Append(s, x) = 1 .. Len(s) + 1
            /\ Append(s, x)[Len(s) + 1] = x /\ \A i \in 1 .. Len(s) : Append(s, x)[i] = s[i]
        OBVIOUS
      <3>3. 1 .. Len(s) + 1 = (1 .. Len(s)) \cup {Len(s) + 1}
        BY <3>2
      <3> QED
        BY <3>1, <3>2, <3>3 DEF Range
    <2> QED
      BY <2>2, <2>3, <2>4
  <1> QED
    BY <1>2, <1>3

LEMMA TailIn == ASSUME NEW s \in Seq(Addr), s # <<>> PROVE Range(Tail(s)) \subseteq Range(s) /\ Head(s) \in Range(s)
  <1>1. /\ Len(s) \in Nat /\ Len(s) > 0 /\ DOMAIN s = 1 .. Len(s) /\ DOMAIN Tail(s) = 1 .. Len(s) - 1
        /\ \A i \in 1 .. Len(s) - 1 : Tail(s)[i] = s[i + 1]
        /\ Head(s) = s[1]
    OBVIOUS
  <1>2. \A i \in 1 .. Len(s) - 1 : i + 1 \in 1 .. Len(s)
    BY <1>1
  <1> QED
    BY <1>1, <1>2 DEF Range

LEMMA ErasedRange ==
    ASSUME NEW s \in Seq(Addr), NEW n
    PROVE  Range(s) \subseteq Range(Erased(s, n)) \cup {n} /\ Range(Erased(s, n)) \subseteq Range(s)
  <1>1. CASE n \notin Range(s)
    BY <1>1 DEF Erased
  <1>2. CASE n \in Range(s)
    <2>1. Len(s) \in Nat /\ DOMAIN s = 1 .. Len(s)
      OBVIOUS
    <2>2. PICK at : at = (CHOOSE i \in DOMAIN s : s[i] = n /\ \A j \in 1 .. i - 1 : s[j] # n)
      OBVIOUS
    <2>3. \E i \in DOMAIN s : s[i] = n /\ \A j \in 1 .. i - 1 : s[j] # n
      <3>1. PICK S : S = {i \in Nat : i \in DOMAIN s /\ s[i] = n}
        OBVIOUS
      <3>2. PICK m \in Nat : m \in DOMAIN s /\ s[m] = n
        BY <1>2, <2>1 DEF Range
      <3>3. PICK i \in S : \A j \in S : i <= j
        BY <3>1, <3>2, LeastOf
      <3>4. \A j \in 1 .. i - 1 : s[j] # n
        BY <2>1, <3>1, <3>3
      <3> QED
        BY <3>1, <3>3, <3>4
    <2>4. at \in 1 .. Len(s) /\ s[at] = n
      BY <2>1, <2>2, <2>3
    <2>5. PICK e : e = [i \in 1 .. Len(s) - 1 |-> IF i < at THEN s[i] ELSE s[i + 1]]
      OBVIOUS
    <2>6. Erased(s, n) = e
      BY <1>2, <2>2, <2>5 DEF Erased
    <2>7. DOMAIN e = 1 .. Len(s) - 1
      BY <2>5
    <2>8. ASSUME NEW x \in Range(s), x # n PROVE x \in Range(e)
      <3>1. PICK i \in 1 .. Len(s) : s[i] = x
        BY <2>1 DEF Range
      <3>2. CASE i < at
        <4>1. i \in 1 .. Len(s) - 1 /\ e[i] = x
          BY <2>1, <2>4, <2>5, <3>1, <3>2
        <4> QED
          BY <2>7, <4>1 DEF Range
      <3>3. CASE i > at
        <4>1. i - 1 \in 1 .. Len(s) - 1 /\ ~(i - 1 < at) /\ i - 1 + 1 = i
          BY <2>1, <2>4, <3>1, <3>3
        <4>2. e[i - 1] = x
          BY <2>5, <3>1, <4>1
        <4> QED
          BY <2>7, <4>1, <4>2 DEF Range
      <3>4. i # at
        BY <2>4, <2>8, <3>1
      <3> QED
        BY <2>1, <2>4, <3>1, <3>2, <3>3, <3>4
    <2>9. ASSUME NEW x \in Range(e) PROVE x \in Range(s)
      <3>1. PICK i \in 1 .. Len(s) - 1 : e[i] = x
        BY <2>7 DEF Range
      <3>2. i \in 1 .. Len(s) /\ i + 1 \in 1 .. Len(s)
        BY <2>1
      <3>3. x = s[i] \/ x = s[i + 1]
        BY <2>5, <3>1
      <3> QED
        BY <2>1, <3>2, <3>3 DEF Range
    <2> QED
      BY <2>6, <2>8, <2>9
  <1> QED
    BY <1>1, <1>2

(* Steps that do not touch the tree.                                       *)
LEMMA QuietRetire ==
    ASSUME NEW A, NEW G, HeapInv(A, G), RetireOK(G), UNCHANGED vars,
           Discarded' = Discarded, \A t \in Thread : Range(scan'[t]) \subseteq Range(scan[t]),
           NEW B, NEW H, HeapInv(B, H)'
    PROVE  RetireOK(H)'
  <1>1. /\ node' = node /\ cas' = cas /\ reloc' = reloc /\ loc' = loc
    BY DEF vars, heap
  <1>2. /\ Discarded = G \ Leaving /\ NullsDiscarded /\ CasMade /\ ScansDiscarded
        /\ ArrivingOK /\ HeldKnown
    BY DEF RetireOK
  <1>3. /\ \A n : Swinging(n)' = Swinging(n) /\ PendingCAS(n)' = PendingCAS(n)
        /\ \A n : TheChild(n)' = TheChild(n)
    BY <1>1 DEF Swinging, PendingCAS, Has, TheChild
  <1>4. H = G
    <2>1. Kids' = Kids
      BY <1>1 DEF Kids, Child, Has, PendingCAS
    <2> QED
      BY <2>1, SameKidsGone
  <1>5. Leaving' = Leaving /\ Arriving' = Arriving
    BY <1>1, <1>3 DEF Leaving, Arriving
  <1>6. NullsDiscarded' /\ ScansDiscarded'
    BY <1>1, <1>2 DEF NullsDiscarded, ScansDiscarded
  <1>7. CasMade'
    BY <1>1, <1>2 DEF CasMade, MadeFor, TheChild
  <1>8. ArrivingOK' /\ HeldKnown'
    BY <1>1, <1>2, <1>5 DEF ArrivingOK, HeldKnown, Untouched, HeldBy
  <1> QED
    BY <1>2, <1>4, <1>5, <1>6, <1>7, <1>8 DEF RetireOK

(* What becomes of a list when a retired node is added. *)
LEMMA TreeStepRetire ==
    ASSUME HazardInv, NEW t \in Thread, NEW A, NEW G, RetireNow(t, A, G), TreeStep(t),
           NEW B, NEW H, HeapInv(B, H)'
    PROVE  RetireOK(H)'
  <1>1. Inv /\ (Step(t) \/ (t = Main /\ CreateTree)) /\ freed' = freed
    BY DEF RetireNow, TreeNow, HeapNow, TreeStep
  <1>2. CASE ~SwingSucceeds(t)
    <2>1. rlist' = rlist /\ scan' = scan
      BY <1>2 DEF TreeStep
    <2>2. KeepsPointers(t) \/ Inserts(t) \/ Unlinks(t)
      BY <1>1, <1>2, StepKinds
    <2> QED
      BY <1>1, <2>1, <2>2, KeepsRetire, InsertsRetire, UnlinksRetire
  <1>3. CASE SwingSucceeds(t)
    <2>1. PICK d, a, n : d = loc[t].dest /\ a = loc[t].cas_op /\ n = Num(t)
      OBVIOUS
    <2>2. PICK r : r = Retired(n, cas[a])
      OBVIOUS
    <2>3. /\ rlist' = [rlist EXCEPT ![n] = r]
          /\ scan' = [scan EXCEPT ![t] = r] \/ scan' = scan
      BY <1>3, <2>1, <2>2 DEF TreeStep
    <2>4. HelpChildCASSwing(t)
      <3>1. ~Inserts(t) /\ ~Unlinks(t)
        BY <1>3 DEF SwingSucceeds, Inserts, Unlinks, AddPublish, HelpMarkedPublish
      <3> QED
        BY <1>1, <1>3, <3>1, StepKinds
    <2>5. Swung(d, a)
      BY <1>3, <2>1, <2>4, SwingFacts
    <2>6. n \in Worker /\ rlist \in [Worker -> Seq(Addr)] /\ scan \in [Thread -> Seq(Addr)]
      BY <2>1, NumWorker DEF HazardInv, HazardTypeOK
    <2>7. Range(r) = Range(rlist[n]) \cup Detached(cas[a])
      BY <2>2, <2>6, RetiredRange
    <2>8. \A m \in Worker : Range(rlist'[m]) = IF m = n THEN Range(r) ELSE Range(rlist[m])
      BY <2>3, <2>6
    <2>9. Discarded' = Discarded \cup Detached(cas[a])
      <3>1. \A x : x \in Discarded <=> x \in freed \/ \E m \in Worker : x \in Range(rlist[m])
        BY DEF Discarded
      <3>2. \A x : x \in Discarded' <=> x \in freed' \/ \E m \in Worker : x \in Range(rlist'[m])
        BY DEF Discarded
      <3>3. ASSUME NEW x
            PROVE  (\E m \in Worker : x \in Range(rlist'[m]))
                      <=> (\E m \in Worker : x \in Range(rlist[m])) \/ x \in Detached(cas[a])
        <4>1. ASSUME NEW m \in Worker, x \in Range(rlist'[m])
              PROVE  (\E w \in Worker : x \in Range(rlist[w])) \/ x \in Detached(cas[a])
          <5>1. CASE m = n
            BY <2>6, <2>7, <2>8, <4>1, <5>1
          <5>2. CASE m # n
            BY <2>8, <4>1, <5>2
          <5> QED
            BY <5>1, <5>2
        <4>2. ASSUME x \in Detached(cas[a])
              PROVE  x \in Range(rlist'[n])
          BY <2>6, <2>7, <2>8, <4>2
        <4>3. ASSUME NEW m \in Worker, x \in Range(rlist[m])
              PROVE  x \in Range(rlist'[m])
          BY <2>7, <2>8, <4>3
        <4> QED
          BY <2>6, <4>1, <4>2, <4>3
      <3>4. \A x : x \in Discarded' <=> x \in Discarded \/ x \in Detached(cas[a])
        BY <1>1, <3>1, <3>2, <3>3
      <3> QED
        BY <3>4
    <2>10. Range(r) \subseteq Discarded'
      <3>1. Range(rlist'[n]) = Range(r)
        BY <2>6, <2>8
      <3> QED
        BY <2>6, <3>1 DEF Discarded
    <2>11. \A u \in Thread : Range(scan'[u]) \subseteq Range(scan[u]) \cup Discarded'
      BY <2>3, <2>6, <2>10
    <2> QED
      BY <2>5, <2>9, <2>11, SwingRetire
  <1> QED
    BY <1>2, <1>3

LEMMA DeleteRetired ==
    ASSUME HazardInv, ScansDiscarded, NEW t \in Thread, DeleteNode(t)
    PROVE  Discarded' = Discarded
  <1>1. PICK h, n : h = Head(scan[t]) /\ n = Num(t)
    OBVIOUS
  <1>2. /\ freed' = freed \cup {h} /\ rlist' = [rlist EXCEPT ![n] = Erased(@, h)]
        /\ scan[t] # <<>>
    BY <1>1 DEF DeleteNode
  <1>3. n \in Worker /\ rlist \in [Worker -> Seq(Addr)] /\ scan[t] \in Seq(Addr)
    BY <1>1, NumWorker DEF HazardInv, HazardTypeOK
  <1>4. h \in Discarded
    BY <1>1, <1>2, <1>3, TailIn DEF ScansDiscarded
  <1>5. \A m \in Worker : /\ Range(rlist[m]) \subseteq Range(rlist'[m]) \cup {h}
                          /\ Range(rlist'[m]) \subseteq Range(rlist[m])
    <2> TAKE m \in Worker
    <2>1. rlist'[m] = rlist[m] \/ rlist'[m] = Erased(rlist[m], h)
      BY <1>2, <1>3
    <2> QED
      BY <1>3, <2>1, ErasedRange
  <1>6. Discarded' = freed' \cup UNION {Range(rlist'[m]) : m \in Worker}
    BY DEF Discarded
  <1>7. ASSUME NEW x \in Discarded' PROVE x \in Discarded
    <2>1. CASE x \in freed'
      BY <1>2, <1>4, <2>1 DEF Discarded
    <2>2. CASE x \in UNION {Range(rlist'[m]) : m \in Worker}
      <3>1. PICK m \in Worker : x \in Range(rlist'[m])
        BY <2>2
      <3> QED
        BY <1>5, <3>1 DEF Discarded
    <2> QED
      BY <1>6, <2>1, <2>2
  <1>8. ASSUME NEW x \in Discarded PROVE x \in Discarded'
    <2>1. CASE x \in freed
      BY <1>2, <1>6, <2>1
    <2>2. CASE x \in UNION {Range(rlist[m]) : m \in Worker}
      <3>1. PICK m \in Worker : x \in Range(rlist[m])
        BY <2>2
      <3>2. x = h \/ x \in Range(rlist'[m])
        BY <1>5, <3>1
      <3> QED
        BY <1>2, <1>6, <3>2
    <2> QED
      BY <2>1, <2>2 DEF Discarded
  <1> QED
    BY <1>7, <1>8

LEMMA RetireNext ==
    ASSUME Inv, OpsInv, NEW A, NEW G, HeapInv(A, G), AllKnow(A, G), RetireOK(G), HazardInv,
           ~ReusesBlocks, [HistoryNext]_hvars, [HazardNext]_<<vars, hazards>>
    PROVE  \E B, H : HeapInv(B, H)' /\ AllKnow(B, H)' /\ RetireOK(H)'
  <1>1. /\ Inv' /\ OpsInv'
        /\ \E B, H : Stepped(A, G, B, H) /\ AllKnow(B, H)'
    BY TreeSteps
  <1>2. PICK B, H : Stepped(A, G, B, H) /\ AllKnow(B, H)'
    BY <1>1
  <1>3. HeapInv(B, H)'
    BY <1>2 DEF Stepped
  <1>4. Recorded
    <2>1. CASE HistoryNext
      BY <2>1 DEF HistoryNext, Remembered, Recorded
    <2>2. CASE UNCHANGED hvars
      <3>1. past' = past /\ node' = node
        BY <2>2 DEF hvars, vars, heap
      <3>2. Remembered(node, past, node') = past
        BY <3>1, SameOpsHistory DEF OpsInv, HeapOps, SameOps
      <3> QED
        BY <3>1, <3>2 DEF Recorded
    <2> QED
      BY <2>1, <2>2
  <1>5. scan \in [Thread -> Seq(Addr)] /\ ScansDiscarded
    BY DEF HazardInv, HazardTypeOK, RetireOK
  <1>6. RetireOK(H)'
    <2>1. ASSUME NEW t \in Thread, TreeStep(t) PROVE RetireOK(H)'
      <3>1. ThreadInv(A, G, loc[t], pc[t])
        BY DEF AllKnow
      <3>2. Step(t) \/ (t = Main /\ CreateTree)
        BY <2>1 DEF TreeStep
      <3>3. RetireNow(t, A, G)
        BY <1>1, <1>4, <3>1, <3>2 DEF RetireNow, TreeNow, HeapNow, StepsSoundly
      <3> QED
        BY <1>3, <2>1, <3>3, TreeStepRetire
    <2>2. CASE UNCHANGED vars /\ rlist' = rlist /\ freed' = freed /\ scan' = scan
      <3>1. Discarded' = Discarded
        BY <2>2 DEF Discarded
      <3> QED
        BY <1>3, <2>2, <3>1, QuietRetire
    <2>3. ASSUME NEW t \in Thread, CompareSlot(t) \/ DeleteNode(t)
          PROVE  RetireOK(H)'
      <3>1. UNCHANGED vars /\ scan[t] # <<>> /\ (scan' = scan \/ scan' = [scan EXCEPT ![t] = Tail(@)])
        BY <2>3 DEF CompareSlot, DeleteNode, NextNode
      <3>2. \A u \in Thread : Range(scan'[u]) \subseteq Range(scan[u])
        BY <1>5, <3>1, TailIn
      <3>3. Discarded' = Discarded
        <4>1. CASE CompareSlot(t)
          BY <4>1 DEF CompareSlot, Discarded
        <4>2. CASE DeleteNode(t)
          BY <1>5, <4>2, DeleteRetired
        <4> QED
          BY <2>3, <4>1, <4>2
      <3> QED
        BY <1>3, <3>1, <3>2, <3>3, QuietRetire
    <2>4. CASE HazardNext
      <3>1. CASE Terminated /\ UNCHANGED hazards
        BY <2>2, <3>1 DEF Terminated, hazards
      <3>2. CASE \E t \in Thread : HazardStep(t)
        BY <2>1, <2>2, <2>3, <3>2 DEF HazardStep, Publish, ReadChild
      <3> QED
        BY <2>4, <3>1, <3>2 DEF HazardNext
    <2>5. CASE UNCHANGED <<vars, hazards>>
      BY <2>2, <2>5 DEF hazards
    <2> QED
      BY <2>4, <2>5
  <1> QED
    BY <1>2, <1>3, <1>6

-----------------------------------------------------------------------------
(***************************************************************************)
(* The inductive invariant.                                                *)
(***************************************************************************)
RetireInv ==
    /\ Inv /\ OpsInv /\ HazardInv
    /\ \E A, G : HeapInv(A, G) /\ AllKnow(A, G) /\ RetireOK(G)

LEMMA RetireInit == HistoryInit /\ HazardInit => RetireInv
  <1> SUFFICES ASSUME HistoryInit, HazardInit PROVE RetireInv
    OBVIOUS
  <1>1. Inv /\ OpsInv /\ \E A, G : HeapInv(A, G) /\ AllKnow(A, G)
    BY TreeInit DEF TreeInv, AllKnow
  <1>2. PICK A, G : HeapInv(A, G) /\ AllKnow(A, G)
    BY <1>1
  <1>3. /\ DOMAIN node = {base_root} /\ node[base_root] = create_LF_node(-1)
        /\ DOMAIN cas = {} /\ DOMAIN reloc = {}
        /\ \A t \in Thread : loc[t] = Locals(NoWork)
    BY InitHeap
  <1>4. /\ node[base_root].op.flag = "NONE"
        /\ \A s \in BOOLEAN : ChildOf(node[base_root], s) = SET_NULL(NoNode)
    BY <1>3 DEF create_LF_node, NullOp, OpAt, ChildOf
  <1>5. G = {}
    BY <1>2, <1>3, <1>4 DEF HeapInv, TreeOK, Shape, Ancestors, Has, GET_FLAG
  <1>6. ~Swinging(base_root)
    BY <1>4 DEF Swinging, Has, GET_FLAG
  <1>7. Leaving = {} /\ Arriving = {}
    BY <1>3, <1>6 DEF Leaving, Arriving
  <1>8. Discarded = {}
    BY DEF Discarded, HazardInit, Range
  <1>9. NullsDiscarded /\ CasMade /\ ArrivingOK
    BY <1>3, <1>4, <1>7 DEF NullsDiscarded, CasMade, ArrivingOK, SET_NULL
  <1>10. ScansDiscarded
    BY DEF ScansDiscarded, HazardInit, Range
  <1>11. HeldKnown
    <2>1. HeldBy(Locals(NoWork)) = {base_root, NoNode}
      BY DEF HeldBy, Locals, SET_NULL, IS_NULL
    <2> QED
      BY <1>3, <2>1 DEF HeldKnown
  <1> QED
    BY <1>1, <1>2, <1>5, <1>7, <1>8, <1>9, <1>10, <1>11, HazardInitInv DEF RetireInv, RetireOK

LEMMA RetireInvNext ==
    ASSUME RetireInv, ~ReusesBlocks, [HistoryNext]_hvars, [HazardNext]_<<vars, hazards>>
    PROVE  RetireInv'
  <1>1. PICK A, G : HeapInv(A, G) /\ AllKnow(A, G) /\ RetireOK(G)
    BY DEF RetireInv
  <1>2. Inv /\ OpsInv /\ HazardInv
    BY DEF RetireInv
  <1>3. PICK B, H : HeapInv(B, H)' /\ AllKnow(B, H)' /\ RetireOK(H)'
    BY <1>1, <1>2, RetireNext
  <1>4. Inv' /\ OpsInv'
    BY <1>1, <1>2, TreeSteps
  <1>5. HazardInv'
    BY <1>2, HazardNextInv
  <1> QED
    BY <1>3, <1>4, <1>5 DEF RetireInv

(* When no deleted block is used again, what is marked and unlinked but    *)
(* for pending changes of child pointers is just what has been retired, in *)
(* every state of every run of the tree with its hazard pointers.          *)
THEOREM AlwaysRetireInv ==
    ASSUME ~ReusesBlocks
    PROVE  HistorySpec /\ HazardSpec => []RetireInv
  <1>1. RetireInv /\ [HistoryNext]_hvars /\ [HazardNext]_<<vars, hazards>> => RetireInv'
    BY RetireInvNext
  <1> QED
    BY <1>1, RetireInit, PTL DEF HistorySpec, HazardSpec

-----------------------------------------------------------------------------
(***************************************************************************)
(* What the walk of child pointers meets.                                  *)
(***************************************************************************)
LEMMA MetSplit ==
    ASSUME NEW S, NEW s \in Seq(S), NEW z \in Seq(S), NEW x, Met(x, s \o z)
    PROVE  Met(x, s) \/ Met(x, z)
  <1>1. PICK q : q = s \o z
    OBVIOUS
  <1>2. /\ Len(s) \in Nat /\ Len(z) \in Nat /\ Len(q) = Len(s) + Len(z)
        /\ \A i \in 1 .. Len(q) : q[i] = IF i <= Len(s) THEN s[i] ELSE z[i - Len(s)]
    BY <1>1, JoinedAt
  <1>3. PICK i \in 1 .. Len(q) : q[i] = x
    BY <1>1 DEF Met
  <1>4. CASE i <= Len(s)
    <2>1. i \in 1 .. Len(s) /\ s[i] = x
      BY <1>2, <1>3, <1>4
    <2> QED
      BY <2>1 DEF Met
  <1>5. CASE ~(i <= Len(s))
    <2>1. i - Len(s) \in 1 .. Len(z) /\ z[i - Len(s)] = x
      BY <1>2, <1>3, <1>5
    <2> QED
      BY <2>1 DEF Met
  <1> QED
    BY <1>4, <1>5

LEMMA MetSplit3 ==
    ASSUME NEW S, NEW s \in Seq(S), NEW z \in Seq(S), NEW a \in S, NEW x, Met(x, s \o <<a>> \o z)
    PROVE  x = a \/ Met(x, s) \/ Met(x, z)
  <1>1. PICK o : o = <<a>>
    OBVIOUS
  <1>2. o \in Seq(S) /\ \A i \in 1 .. Len(o) : o[i] = a
    BY <1>1
  <1>3. PICK u : u = s \o o
    OBVIOUS
  <1>4. u \in Seq(S)
    BY <1>2, <1>3, JoinedAt
  <1>5. Met(x, u) \/ Met(x, z)
    BY <1>1, <1>3, <1>4, MetSplit
  <1>6. Met(x, u) => Met(x, s) \/ Met(x, o)
    BY <1>2, <1>3, MetSplit
  <1>7. Met(x, o) => x = a
    BY <1>2 DEF Met
  <1> QED
    BY <1>5, <1>6, <1>7

(* No pointer of K leads out of L.                                         *)
Closed(K, L) ==
    /\ base_root \in L /\ L \subseteq DOMAIN node
    /\ \A n \in L, s \in BOOLEAN : ~IS_NULL(K[n][s]) => K[n][s].node \in L

LEMMA ClosedWalk ==
    ASSUME NEW K, NEW L, Closed(K, L), NEW N \in Nat, NEW w, WalkTo(K, Itself, w, N),
           NEW d \in 0 .. N, NEW n \in L
    PROVE  w[d][n] \in Seq(DOMAIN node) /\ \A i \in 1 .. Len(w[d][n]) : w[d][n][i] \in L
  <1>1. PICK S, V, R : S = DOMAIN node /\ V = [m \in S |-> L] /\ R = S \X S
    OBVIOUS
  <1>2. Walks(S, V, R, K, Itself, L)
    <2> SUFFICES ASSUME NEW m \in L
                 PROVE  /\ Takes(S, V, R, K, Itself, m)
                        /\ \A s \in BOOLEAN : ~IS_NULL(K[m][s]) =>
                              K[m][s].node \in L /\ V[K[m][s].node] \subseteq V[m]
      BY DEF Walks
    <2>1. /\ m \in S /\ L \subseteq S /\ Itself[m] = <<m>> /\ V[m] = L
          /\ \A s \in BOOLEAN : ~IS_NULL(K[m][s]) => K[m][s].node \in L /\ V[K[m][s].node] = L
      BY <1>1 DEF Closed, Itself
    <2>2. \A s \in BOOLEAN : Route(K, V, m, s) \subseteq L
      BY <2>1 DEF Route
    <2>3. Between(R, Route(K, V, m, TRUE), m, Route(K, V, m, FALSE))
      BY <1>1, <2>1, <2>2 DEF Between
    <2>4. Takes(S, V, R, K, Itself, m)
      BY <2>1, <2>3 DEF Takes
    <2> QED
      BY <2>1, <2>4
  <1>3. L \subseteq DOMAIN node
    BY DEF Closed
  <1>4. Walked(S, V[n], R, w[d][n])
    BY <1>2, <1>3, WalkedFrom
  <1>5. V[n] = L
    BY <1>1, <1>3
  <1> QED
    BY <1>1, <1>4, <1>5 DEF Walked

(* What a walk meets: where it begins, and what the walks of one level     *)
(* less meet that begin at its children.                                   *)
LEMMA MetFrom ==
    ASSUME NEW K, NEW L, Closed(K, L), NEW N \in Nat, NEW w, WalkTo(K, Itself, w, N),
           NEW d \in 0 .. N, NEW n \in L, NEW x
    PROVE  Met(x, w[d][n]) <=>
              \/ x = n
              \/ d # 0 /\ \E s \in BOOLEAN : ~IS_NULL(K[n][s]) /\ Met(x, w[d - 1][K[n][s].node])
  <1>1. PICK y, z : y = WalkSide(K, w[d - 1], d, n, TRUE) /\ z = WalkSide(K, w[d - 1], d, n, FALSE)
    OBVIOUS
  <1>2. n \in DOMAIN node
    BY DEF Closed
  <1>3. w[d][n] = y \o <<n>> \o z
    <2>1. w[d] = Row(K, Itself, w[d - 1], d)
      BY WalkRow
    <2> QED
      BY <1>1, <1>2, <2>1 DEF Row, Itself
  <1>4. <<>> \in Seq(DOMAIN node) /\ ~Met(x, <<>>)
    BY DEF Met
  <1>5. ASSUME NEW s \in BOOLEAN
        PROVE  /\ WalkSide(K, w[d - 1], d, n, s) \in Seq(DOMAIN node)
               /\ Met(x, WalkSide(K, w[d - 1], d, n, s)) <=>
                     d # 0 /\ ~IS_NULL(K[n][s]) /\ Met(x, w[d - 1][K[n][s].node])
    <2>1. CASE IS_NULL(K[n][s]) \/ d = 0
      <3>1. WalkSide(K, w[d - 1], d, n, s) = <<>>
        BY <2>1 DEF WalkSide
      <3> QED
        BY <1>4, <2>1, <3>1
    <2>2. CASE ~IS_NULL(K[n][s]) /\ d # 0
      <3>1. K[n][s].node \in L /\ d - 1 \in 0 .. N
        BY <2>2 DEF Closed
      <3>2. w[d - 1][K[n][s].node] \in Seq(DOMAIN node)
        BY <3>1, ClosedWalk
      <3> QED
        BY <2>2, <3>2 DEF WalkSide
    <2> QED
      BY <2>1, <2>2
  <1>6. y \in Seq(DOMAIN node) /\ z \in Seq(DOMAIN node)
    BY <1>1, <1>5
  <1>7. Met(x, w[d][n]) <=> x = n \/ Met(x, y) \/ Met(x, z)
    BY <1>2, <1>3, <1>6, MetJoined3, MetSplit3
  <1> QED
    BY <1>1, <1>5, <1>7

(* A walk of one level more meets what this one meets, and the children.   *)
MeetsMore(K, L, w, d) ==
    \A n \in L, x \in L : Met(x, w[d - 1][n]) =>
        /\ Met(x, w[d][n])
        /\ \A s \in BOOLEAN : ~IS_NULL(K[x][s]) => Met(K[x][s].node, w[d][n])

LEMMA MeetsMoreNext ==
    ASSUME NEW K, NEW L, Closed(K, L), NEW N \in Nat, NEW w, WalkTo(K, Itself, w, N),
           NEW d \in 1 .. N, d # 1 => MeetsMore(K, L, w, d - 1)
    PROVE  MeetsMore(K, L, w, d)
  <1> SUFFICES ASSUME NEW n \in L, NEW x \in L, Met(x, w[d - 1][n])
               PROVE  /\ Met(x, w[d][n])
                      /\ \A s \in BOOLEAN : ~IS_NULL(K[x][s]) => Met(K[x][s].node, w[d][n])
    BY DEF MeetsMore
  <1>1. d \in 0 .. N /\ d # 0 /\ d - 1 \in 0 .. N /\ (d - 1 = 0 <=> d = 1)
    OBVIOUS
  <1>2. CASE x = n
    <2>1. Met(x, w[d][n])
      BY <1>1, <1>2, MetFrom
    <2>2. ASSUME NEW s \in BOOLEAN, ~IS_NULL(K[x][s]) PROVE Met(K[x][s].node, w[d][n])
      <3>1. PICK c : c = K[n][s].node
        OBVIOUS
      <3>2. c \in L
        BY <1>2, <2>2, <3>1 DEF Closed
      <3>3. Met(c, w[d - 1][c])
        BY <1>1, <3>2, MetFrom
      <3>4. ~IS_NULL(K[n][s]) /\ Met(c, w[d - 1][K[n][s].node])
        BY <1>2, <2>2, <3>1, <3>3
      <3>5. Met(c, w[d][n])
        <4>1. \E z \in BOOLEAN : ~IS_NULL(K[n][z]) /\ Met(c, w[d - 1][K[n][z].node])
          BY <3>4
        <4>2. Met(c, w[d][n]) <=>
                 \/ c = n
                 \/ d # 0 /\ \E z \in BOOLEAN : ~IS_NULL(K[n][z]) /\ Met(c, w[d - 1][K[n][z].node])
          BY <1>1, MetFrom
        <4> QED
          BY <1>1, <4>1, <4>2
      <3> QED
        BY <1>2, <3>1, <3>5
    <2> QED
      BY <2>1, <2>2
  <1>3. CASE x # n
    <2>1. PICK q \in BOOLEAN : d # 1 /\ ~IS_NULL(K[n][q]) /\ Met(x, w[d - 1 - 1][K[n][q].node])
      <3>1. PICK e : e = d - 1
        OBVIOUS
      <3>2. Met(x, w[e][n]) <=>
               \/ x = n
               \/ e # 0 /\ \E s \in BOOLEAN : ~IS_NULL(K[n][s]) /\ Met(x, w[e - 1][K[n][s].node])
        <4>1. e \in 0 .. N
          BY <1>1, <3>1
        <4> QED
          BY <4>1, MetFrom
      <3>3. PICK q \in BOOLEAN : e # 0 /\ ~IS_NULL(K[n][q]) /\ Met(x, w[e - 1][K[n][q].node])
        BY <1>1, <1>3, <3>1, <3>2
      <3>4. d # 1 /\ ~IS_NULL(K[n][q]) /\ Met(x, w[d - 1 - 1][K[n][q].node])
        BY <3>1, <3>3
      <3> QED
        BY <3>4
    <2>2. PICK c : c = K[n][q].node
      OBVIOUS
    <2>3. c \in L
      BY <2>1, <2>2 DEF Closed
    <2>4. /\ Met(x, w[d - 1][c])
          /\ \A s \in BOOLEAN : ~IS_NULL(K[x][s]) => Met(K[x][s].node, w[d - 1][c])
      BY <2>1, <2>2, <2>3 DEF MeetsMore
    <2>5. \A v : Met(v, w[d - 1][c]) => Met(v, w[d][n])
      BY <1>1, <2>1, <2>2, MetFrom
    <2> QED
      BY <2>4, <2>5
  <1> QED
    BY <1>2, <1>3

LEMMA MeetsMoreAll ==
    ASSUME NEW K, NEW L, Closed(K, L), NEW N \in Nat, NEW w, WalkTo(K, Itself, w, N)
    PROVE  \A d \in 1 .. N : MeetsMore(K, L, w, d)
  <1> DEFINE Bad == {d \in 1 .. N : ~MeetsMore(K, L, w, d)}
  <1> SUFFICES ASSUME Bad # {} PROVE FALSE
    OBVIOUS
  <1>1. PICK d \in Bad : \A m \in Bad : d <= m
    <2>1. Bad \subseteq Nat
      OBVIOUS
    <2> HIDE DEF Bad
    <2> QED
      BY <2>1, LeastOf
  <1>2. d # 1 => MeetsMore(K, L, w, d - 1)
    <2>1. d # 1 => d - 1 \in 1 .. N /\ ~(d <= d - 1)
      OBVIOUS
    <2> QED
      BY <1>1, <2>1
  <1> QED
    BY <1>1, <1>2, MeetsMoreNext

(* The nodes that a walk of d levels from base_root meets: one more at     *)
(* least than one of d - 1 levels, until they are closed.                  *)
MetAt(w, d) == {x \in DOMAIN node : Met(x, w[d][base_root])}
Closes(K, w, d) == Cardinality(MetAt(w, d)) >= d + 1 \/ \E e \in 0 .. d : Closed(K, MetAt(w, e))

LEMMA ClosesNext ==
    ASSUME NEW K, NEW L, Closed(K, L), IsFiniteSet(DOMAIN node), NEW N \in Nat, NEW w,
           WalkTo(K, Itself, w, N), NEW d \in 0 .. N, d # 0 => Closes(K, w, d - 1)
    PROVE  Closes(K, w, d)
  <1>1. base_root \in L /\ L \subseteq DOMAIN node
    BY DEF Closed
  <1>2. \A e \in 0 .. N : base_root \in MetAt(w, e) /\ MetAt(w, e) \subseteq L
    <2> SUFFICES ASSUME NEW e \in 0 .. N PROVE base_root \in MetAt(w, e) /\ MetAt(w, e) \subseteq L
      OBVIOUS
    <2>1. Met(base_root, w[e][base_root])
      BY <1>1, MetFrom
    <2>2. \A i \in 1 .. Len(w[e][base_root]) : w[e][base_root][i] \in L
      BY <1>1, ClosedWalk
    <2> QED
      BY <1>1, <2>1, <2>2 DEF MetAt, Met
  <1>3. \A e \in 0 .. N : IsFiniteSet(MetAt(w, e)) /\ Cardinality(MetAt(w, e)) \in Nat
    <2>1. \A e : MetAt(w, e) \subseteq DOMAIN node
      BY DEF MetAt
    <2> QED
      BY <2>1, FS_Subset, FS_CardinalityType
  <1>4. CASE d = 0
    <2>1. {base_root} \subseteq MetAt(w, d) /\ Cardinality({base_root}) = 1
      BY <1>2, FS_Singleton
    <2>2. 1 <= Cardinality(MetAt(w, d))
      BY <1>3, <2>1, FS_Subset
    <2> QED
      BY <1>3, <1>4, <2>2 DEF Closes
  <1>5. CASE d # 0 /\ \E e \in 0 .. d - 1 : Closed(K, MetAt(w, e))
    <2>1. \A e \in 0 .. d - 1 : e \in 0 .. d
      OBVIOUS
    <2> QED
      BY <1>5, <2>1 DEF Closes
  <1>6. CASE d # 0 /\ ~\E e \in 0 .. d - 1 : Closed(K, MetAt(w, e))
    <2>1. d - 1 \in 0 .. N /\ d \in 1 .. N /\ d - 1 \in 0 .. d - 1
      BY <1>6
    <2>2. ~Closed(K, MetAt(w, d - 1)) /\ Cardinality(MetAt(w, d - 1)) >= d - 1 + 1
      BY <1>6, <2>1 DEF Closes
    <2>3. MetAt(w, d - 1) \subseteq DOMAIN node
      BY DEF MetAt
    <2>4. PICK x \in MetAt(w, d - 1), s \in BOOLEAN :
             ~IS_NULL(K[x][s]) /\ K[x][s].node \notin MetAt(w, d - 1)
      BY <1>2, <2>1, <2>2, <2>3 DEF Closed
    <2>5. PICK c : c = K[x][s].node
      OBVIOUS
    <2>6. MeetsMore(K, L, w, d)
      BY <2>1, MeetsMoreAll
    <2>7. x \in L /\ c \in L /\ MetAt(w, d - 1) \subseteq L
      BY <1>2, <2>1, <2>4, <2>5 DEF Closed
    <2>8. \A v \in MetAt(w, d - 1) : Met(v, w[d - 1][base_root])
      BY DEF MetAt
    <2>9. Met(c, w[d][base_root]) /\ \A v \in MetAt(w, d - 1) : Met(v, w[d][base_root])
      BY <1>1, <2>4, <2>5, <2>6, <2>7, <2>8 DEF MeetsMore
    <2>10. MetAt(w, d - 1) \cup {c} \subseteq MetAt(w, d)
      BY <1>1, <2>7, <2>9 DEF MetAt
    <2>11. Cardinality(MetAt(w, d - 1) \cup {c}) = Cardinality(MetAt(w, d - 1)) + 1
      <3>1. PICK S : S = MetAt(w, d - 1)
        OBVIOUS
      <3>2. IsFiniteSet(S) /\ c \notin S
        BY <1>3, <2>1, <2>4, <2>5, <3>1
      <3>3. Cardinality(S \cup {c}) = Cardinality(S) + 1
        BY <3>2, FS_AddElement
      <3> QED
        BY <3>1, <3>3
    <2>12. Cardinality(MetAt(w, d - 1) \cup {c}) <= Cardinality(MetAt(w, d))
      BY <1>3, <2>10, FS_Subset
    <2> QED
      BY <1>3, <2>1, <2>2, <2>11, <2>12 DEF Closes
  <1> QED
    BY <1>4, <1>5, <1>6

LEMMA ClosesAll ==
    ASSUME NEW K, NEW L, Closed(K, L), IsFiniteSet(DOMAIN node), NEW N \in Nat, NEW w,
           WalkTo(K, Itself, w, N)
    PROVE  \A d \in 0 .. N : Closes(K, w, d)
  <1> DEFINE Bad == {d \in 0 .. N : ~Closes(K, w, d)}
  <1> SUFFICES ASSUME Bad # {} PROVE FALSE
    OBVIOUS
  <1>1. PICK d \in Bad : \A m \in Bad : d <= m
    <2>1. Bad \subseteq Nat
      OBVIOUS
    <2> HIDE DEF Bad
    <2> QED
      BY <2>1, LeastOf
  <1>2. d # 0 => Closes(K, w, d - 1)
    <2>1. d # 0 => d - 1 \in 0 .. N /\ ~(d <= d - 1)
      OBVIOUS
    <2> QED
      BY <1>1, <2>1
  <1> QED
    BY <1>1, <1>2, ClosesNext

(* A walk stays where no pointer leads out of, and the depth of Walk is    *)
(* enough for it to follow every pointer of what it meets.                 *)
LEMMA WalkCloses ==
    ASSUME NEW K, NEW L, Closed(K, L), IsFiniteSet(DOMAIN node)
    PROVE  /\ Range(Walk(K, Itself)) \subseteq L
           /\ \E C : C \subseteq Range(Walk(K, Itself)) /\ Closed(K, C)
  <1>1. PICK N \in Nat : N = Depth
    BY FS_CardinalityType DEF Depth
  <1>2. PICK w : WalkTo(K, Itself, w, N) /\ Walk(K, Itself) = w[N][base_root]
    BY <1>1, WalkIs
  <1>3. N \in 0 .. N /\ base_root \in L /\ L \subseteq DOMAIN node
    BY DEF Closed
  <1>4. PICK q : q = w[N][base_root]
    OBVIOUS
  <1>5. q \in Seq(DOMAIN node) /\ \A i \in 1 .. Len(q) : q[i] \in L
    BY <1>2, <1>3, <1>4, ClosedWalk
  <1>6. DOMAIN q = 1 .. Len(q)
    BY <1>5
  <1>7. Range(q) \subseteq L
    BY <1>5, <1>6 DEF Range
  <1>8. \A d \in 0 .. N : Closes(K, w, d)
    BY <1>2, ClosesAll
  <1>9. PICK e \in 0 .. N : Closed(K, MetAt(w, e))
    <2>1. MetAt(w, N) \subseteq DOMAIN node
      BY DEF MetAt
    <2>2. Cardinality(MetAt(w, N)) <= N /\ Cardinality(MetAt(w, N)) \in Nat
      BY <1>1, <2>1, FS_Subset, FS_CardinalityType DEF Depth
    <2>3. ~(Cardinality(MetAt(w, N)) >= N + 1)
      BY <2>2
    <2> QED
      BY <1>3, <1>8, <2>3 DEF Closes
  <1>10. \A x \in MetAt(w, e) : x \in MetAt(w, N)
    <2> DEFINE Bad == {m \in e .. N : ~(MetAt(w, e) \subseteq MetAt(w, m))}
    <2> SUFFICES ASSUME Bad # {} PROVE FALSE
      <3>1. N \in e .. N
        BY <1>9
      <3> QED
        BY <3>1
    <2>1. PICK m \in Bad : \A k \in Bad : m <= k
      <3>1. Bad \subseteq Nat
        OBVIOUS
      <3> HIDE DEF Bad
      <3> QED
        BY <3>1, LeastOf
    <2>2. m # e
      BY <2>1
    <2>3. m - 1 \in e .. N /\ ~(m <= m - 1) /\ m \in 1 .. N /\ m - 1 \in 0 .. N
      BY <2>1, <2>2
    <2>4. MetAt(w, e) \subseteq MetAt(w, m - 1)
      BY <2>1, <2>3
    <2>5. MeetsMore(K, L, w, m)
      BY <1>2, <2>3, MeetsMoreAll
    <2>6. MetAt(w, m - 1) \subseteq L
      <3>1. \A i \in 1 .. Len(w[m - 1][base_root]) : w[m - 1][base_root][i] \in L
        BY <1>2, <1>3, <2>3, ClosedWalk
      <3> QED
        BY <3>1 DEF MetAt, Met
    <2>7. \A x \in MetAt(w, m - 1) : Met(x, w[m - 1][base_root])
      BY DEF MetAt
    <2>8. \A x \in MetAt(w, m - 1) : Met(x, w[m][base_root])
      BY <1>3, <2>5, <2>6, <2>7 DEF MeetsMore
    <2>9. MetAt(w, m - 1) \subseteq MetAt(w, m)
      BY <2>8 DEF MetAt
    <2> QED
      BY <2>1, <2>4, <2>9
  <1>11. MetAt(w, N) \subseteq Range(q)
    BY <1>4, <1>6 DEF MetAt, Met, Range
  <1> QED
    BY <1>2, <1>4, <1>7, <1>9, <1>10, <1>11

-----------------------------------------------------------------------------
(***************************************************************************)
(* The state: what is marked and cannot be reached has been retired.       *)
(***************************************************************************)
(* The state of RetireInv, with its A and G.                               *)
RetireState(A, G) == Inv /\ HeapInv(A, G) /\ RetireOK(G)

LEMMA StateFacts ==
    ASSUME NEW A, NEW G, RetireState(A, G)
    PROVE  /\ TreeOK(A, G) /\ Swings(G) /\ Shape(Kids, Pointers, A, G) /\ Ancestors(A, G)
           /\ Children(Kids, A, G) /\ DOMAIN A = DOMAIN node /\ IsFiniteSet(DOMAIN node)
           /\ G \subseteq DOMAIN node /\ base_root \in Linked(A, G)
           /\ \A n \in G : Has(n, "MARK")
           /\ Discarded = G \ Leaving /\ CasMade /\ ArrivingOK
           /\ \A n \in DOMAIN node, s \in BOOLEAN :
                 Pointers[n][s] = ChildOf(node[n], s) /\ Pointers[n][s] \in NodePtr
  <1>1. /\ TreeOK(A, G) /\ Swings(G) /\ Shape(Kids, Pointers, A, G) /\ Ancestors(A, G)
        /\ Children(Kids, A, G) /\ DOMAIN A = DOMAIN node /\ IsFiniteSet(DOMAIN node)
        /\ G \subseteq DOMAIN node /\ base_root \in Linked(A, G)
        /\ \A n \in G : Has(n, "MARK")
    BY DEF RetireState, HeapInv, TreeOK, Shape, Ancestors, Linked
  <1>2. Discarded = G \ Leaving /\ CasMade /\ ArrivingOK
    BY DEF RetireState, RetireOK
  <1>3. ASSUME NEW n \in DOMAIN node, NEW s \in BOOLEAN
        PROVE  Pointers[n][s] = ChildOf(node[n], s) /\ Pointers[n][s] \in NodePtr
    <2>1. node[n].left \in NodePtr /\ node[n].right \in NodePtr
      BY NodeType DEF RetireState, Inv, LF_BST_Node
    <2> QED
      BY <2>1 DEF Pointers, ChildOf
  <1> QED
    BY <1>1, <1>2, <1>3

(* The change that is pending at p.                                        *)
Pending(p, a, s) ==
    /\ Swinging(p) /\ a = UNFLAG(node[p].op) /\ a \in DOMAIN cas /\ s \in BOOLEAN
    /\ PendingCAS(p) = cas[a] /\ cas[a].is_left = s
    /\ Pointers[p][s] = cas[a].expected /\ Kids[p][s] = cas[a].update

LEMMA PendingHas ==
    ASSUME NEW A, NEW G, RetireState(A, G), NEW p \in DOMAIN node, Swinging(p)
    PROVE  \E a, s : Pending(p, a, s)
  <1>1. Has(p, "CHILDCAS") /\ node[p].op \in OpPtr /\ OpOK(node[p].op)
    BY NodeType DEF RetireState, Inv, PointersOK, HeapOK, Swinging
  <1>2. PICK a : a = UNFLAG(node[p].op)
    OBVIOUS
  <1>3. a \in DOMAIN cas /\ PendingCAS(p) = cas[a]
    BY <1>1, <1>2 DEF OpOK, Has, GET_FLAG, UNFLAG, PendingCAS
  <1>4. PICK s : s = cas[a].is_left
    OBVIOUS
  <1>5. s \in BOOLEAN
    BY <1>3, <1>4 DEF RetireState, Inv, TypeOK, Child_CAS_OP
  <1>6. Pointers[p][s] = cas[a].expected /\ Kids[p][s] = cas[a].update
    BY <1>1, <1>3, <1>4, <1>5 DEF Pointers, Kids, Child, Swinging
  <1> QED
    BY <1>2, <1>3, <1>4, <1>5, <1>6 DEF Pending

(* A pointer is the one that the tree has, but for a change that is        *)
(* pending.                                                                *)
LEMMA PointerOrPending ==
    ASSUME NEW A, NEW G, RetireState(A, G), NEW n \in DOMAIN node, NEW s \in BOOLEAN
    PROVE  Pointers[n][s] = Kids[n][s] \/ \E a : Pending(n, a, s)
  <1>1. CASE Has(n, "CHILDCAS") /\ PendingCAS(n).is_left = s
    <2>1. Pointers[n][s] = PendingCAS(n).expected \/ Pointers[n][s] = PendingCAS(n).update
      BY <1>1, StateFacts DEF Swings
    <2>2. Kids[n][s] = PendingCAS(n).update
      BY <1>1 DEF Kids, Child
    <2>3. CASE Pointers[n][s] = PendingCAS(n).expected
      <3>1. Swinging(n)
        BY <1>1, <2>3, StateFacts DEF Swinging
      <3>2. PICK a, z : Pending(n, a, z)
        BY <3>1, PendingHas
      <3>3. z = s
        BY <1>1, <3>2 DEF Pending
      <3> QED
        BY <3>2, <3>3
    <2> QED
      BY <2>1, <2>2, <2>3
  <1>2. CASE ~(Has(n, "CHILDCAS") /\ PendingCAS(n).is_left = s)
    BY <1>2 DEF Kids, Pointers, Child
  <1> QED
    BY <1>1, <1>2

(* A pending change takes a node out of G whose one child pointer that is  *)
(* not null is the one that comes in its place, or links the node that was *)
(* made for it.                                                            *)
LEMMA PendingChange ==
    ASSUME NEW A, NEW G, RetireState(A, G), NEW p \in DOMAIN node, NEW a, NEW s, Pending(p, a, s)
    PROVE  /\ p \in Linked(A, G) \ Arriving
           /\ IS_NULL(Pointers[p][s]) =>
                 Kids[p][s] = NodeAt(a) /\ (a \in DOMAIN node => a \in Arriving)
           /\ ~IS_NULL(Pointers[p][s]) =>
                 \E e \in Leaving \cap G :
                    /\ Pointers[p][s] = NodeAt(e)
                    /\ \A z \in BOOLEAN : ~IS_NULL(Pointers[e][z]) => Pointers[e][z] = Kids[p][s]
                    /\ ~IS_NULL(Kids[p][s]) => \E z \in BOOLEAN : Pointers[e][z] = Kids[p][s]
  <1>1. Has(p, "CHILDCAS") /\ ~Has(p, "MARK") /\ Swinging(p)
    BY DEF Pending, Swinging, Has
  <1>2. p \in Linked(A, G)
    BY <1>1, StateFacts DEF Linked
  <1>3. p \notin Arriving
    BY <1>1, StateFacts DEF ArrivingOK, Untouched, NullOp, OpAt, Has, GET_FLAG
  <1>4. MadeFor(a) /\ CasOK(G, cas[a])
    BY StateFacts DEF CasMade, Swings, Pending
  <1>5. ASSUME IS_NULL(Pointers[p][s])
        PROVE  Kids[p][s] = NodeAt(a) /\ (a \in DOMAIN node => a \in Arriving)
    <2>1. IS_NULL(cas[a].expected) /\ Kids[p][s] = NodeAt(a)
      BY <1>4, <1>5 DEF Pending, MadeFor
    <2> QED
      BY <2>1 DEF Arriving, Pending
  <1>6. ASSUME ~IS_NULL(Pointers[p][s])
        PROVE  \E e \in Leaving \cap G :
                  /\ Pointers[p][s] = NodeAt(e)
                  /\ \A z \in BOOLEAN : ~IS_NULL(Pointers[e][z]) => Pointers[e][z] = Kids[p][s]
                  /\ ~IS_NULL(Kids[p][s]) => \E z \in BOOLEAN : Pointers[e][z] = Kids[p][s]
    <2>1. PICK e : e = cas[a].expected.node
      OBVIOUS
    <2>2. e \in G /\ Pointers[p][s] = cas[a].expected /\ Kids[p][s] = cas[a].update
      BY <1>4, <1>6, <2>1 DEF CasOK, Pending
    <2>3. Pointers[p][s] = NodeAt(e)
      <3>1. Pointers[p][s] \in NodePtr
        BY StateFacts DEF Pending
      <3> QED
        BY <1>6, <2>1, <2>2, <3>1 DEF NodePtr, NodeAt, IS_NULL
    <2>4. e \in DOMAIN node /\ e \in Leaving
      BY <2>2, <2>3, StateFacts DEF Leaving, Pending
    <2>5. Kids[p][s] = TheChild(e)
      BY <1>4, <1>6, <2>1, <2>2 DEF MadeFor
    <2>6. IS_NULL(node[e].left) \/ IS_NULL(node[e].right)
      BY <2>2, <2>4, StateFacts DEF TreeOK, MarkedHasSpareChild, Node, Linked
    <2>7. Pointers[e][TRUE] = node[e].left /\ Pointers[e][FALSE] = node[e].right
      BY <2>4, StateFacts DEF ChildOf
    <2>8. \A z \in BOOLEAN : ~IS_NULL(Pointers[e][z]) => Pointers[e][z] = TheChild(e)
      BY <2>6, <2>7 DEF TheChild
    <2>9. ~IS_NULL(TheChild(e)) => \E z \in BOOLEAN : Pointers[e][z] = TheChild(e)
      BY <2>7 DEF TheChild, SET_NULL, IS_NULL
    <2>10. PICK k : k = Kids[p][s] /\ k = TheChild(e)
      BY <2>5
    <2>11. /\ \A z \in BOOLEAN : ~IS_NULL(Pointers[e][z]) => Pointers[e][z] = k
           /\ ~IS_NULL(k) => \E z \in BOOLEAN : Pointers[e][z] = k
      BY <2>8, <2>9, <2>10
    <2>12. e \in Leaving \cap G
      BY <2>2, <2>4
    <2> QED
      BY <2>3, <2>10, <2>11, <2>12
  <1> QED
    BY <1>2, <1>3, <1>5, <1>6

LEMMA LeavingFrom ==
    ASSUME NEW A, NEW G, RetireState(A, G), NEW e \in Leaving
    PROVE  \E p \in Linked(A, G) \ Arriving, s \in BOOLEAN :
              /\ Pointers[p][s] = NodeAt(e) /\ e \in G
              /\ \A z \in BOOLEAN : ~IS_NULL(Pointers[e][z]) => Pointers[e][z] = Kids[p][s]
  <1>1. PICK p \in DOMAIN node : Swinging(p) /\ PendingCAS(p).expected = NodeAt(e)
    BY DEF Leaving
  <1>2. PICK a, s : Pending(p, a, s)
    BY <1>1, PendingHas
  <1>3. Pointers[p][s] = NodeAt(e) /\ ~IS_NULL(Pointers[p][s]) /\ s \in BOOLEAN
    BY <1>1, <1>2 DEF Pending, NodeAt, IS_NULL
  <1>4. PICK x \in G :
           /\ Pointers[p][s] = NodeAt(x)
           /\ \A z \in BOOLEAN : ~IS_NULL(Pointers[x][z]) => Pointers[x][z] = Kids[p][s]
    BY <1>2, <1>3, PendingChange
  <1>5. x = e
    BY <1>3, <1>4 DEF NodeAt
  <1>6. p \in Linked(A, G) \ Arriving
    BY <1>2, PendingChange
  <1> QED
    BY <1>3, <1>4, <1>5, <1>6

(* The child pointers lead to what is linked or about to be unlinked.      *)
LEMMA LinkedClosed ==
    ASSUME NEW A, NEW G, RetireState(A, G)
    PROVE  Closed(Pointers, Linked(A, G) \cup Leaving)
  <1>1. base_root \in Linked(A, G) /\ Linked(A, G) \subseteq DOMAIN node /\ Leaving \subseteq DOMAIN node
    BY StateFacts DEF Linked, Leaving
  <1>2. ASSUME NEW n \in Linked(A, G), NEW s \in BOOLEAN, ~IS_NULL(Pointers[n][s])
        PROVE  Pointers[n][s].node \in Linked(A, G) \cup Leaving
    <2>1. n \in DOMAIN node
      BY <1>1
    <2>2. CASE Pointers[n][s] = Kids[n][s]
      BY <1>2, <2>2, StateFacts DEF Children
    <2>3. CASE \E a : Pending(n, a, s)
      <3>1. PICK e \in Leaving : Pointers[n][s] = NodeAt(e)
        BY <1>2, <2>1, <2>3, PendingChange
      <3> QED
        BY <3>1 DEF NodeAt
    <2> QED
      BY <2>1, <2>2, <2>3, PointerOrPending
  <1>3. ASSUME NEW e \in Leaving, NEW z \in BOOLEAN, ~IS_NULL(Pointers[e][z])
        PROVE  Pointers[e][z].node \in Linked(A, G)
    <2>1. PICK p \in Linked(A, G), s \in BOOLEAN : Pointers[e][z] = Kids[p][s]
      BY <1>3, LeavingFrom
    <2> QED
      BY <1>3, <2>1, StateFacts DEF Children
  <1> QED
    BY <1>1, <1>2, <1>3 DEF Closed

(* And they lead to all of it, but for what is about to be linked.         *)
LEMMA ClosedLinked ==
    ASSUME NEW A, NEW G, RetireState(A, G), NEW C, Closed(Pointers, C)
    PROVE  (Linked(A, G) \ Arriving) \subseteq C
  <1> DEFINE Bad == {y \in Linked(A, G) \ Arriving : y \notin C}
  <1> SUFFICES ASSUME Bad # {} PROVE FALSE
    OBVIOUS
  <1>1. /\ IsFiniteSet(DOMAIN A) /\ Linked(A, G) \subseteq DOMAIN A /\ Ancestors(A, G)
        /\ Shape(Kids, Pointers, A, G) /\ DOMAIN A = DOMAIN node
    BY StateFacts DEF Linked
  <1>2. \A y : Height(A, y) \in Nat
    BY <1>1, HeightType
  <1>3. PICK S : S = {Height(A, y) : y \in Bad}
    OBVIOUS
  <1>4. S \subseteq Nat /\ S # {}
    BY <1>2, <1>3
  <1>5. PICK m \in S : \A i \in S : m <= i
    BY <1>4, LeastOf
  <1>6. PICK y \in Bad : \A x \in Bad : Height(A, y) <= Height(A, x)
    BY <1>3, <1>5
  <1>7. y \in Linked(A, G) \ {base_root} /\ y \notin C /\ y \notin Arriving /\ y \in DOMAIN node
    BY <1>1, <1>6 DEF Closed
  <1>8. PICK p \in Linked(A, G), s \in BOOLEAN :
           Hangs(A, G, p, s, y) /\ ~IS_NULL(Kids[p][s]) /\ Kids[p][s].node = y
    BY <1>1, <1>7, ParentOf
  <1>9. Height(A, y) = Height(A, p) + 1
    BY <1>1, <1>7, <1>8, HeightChild
  <1>10. p \in DOMAIN node
    BY <1>1, <1>8
  <1>11. p \notin Arriving
    <2> SUFFICES ASSUME p \in Arriving PROVE FALSE
      OBVIOUS
    <2>1. Untouched(p)
      BY StateFacts DEF ArrivingOK
    <2>2. ~Has(p, "CHILDCAS")
      BY <2>1 DEF Untouched, NullOp, OpAt, Has, GET_FLAG
    <2>3. Kids[p][s] = ChildOf(node[p], s)
      BY <1>8, <1>10, <2>2 DEF Kids, Child
    <2> QED
      BY <1>8, <2>1, <2>3 DEF Untouched, ChildOf
  <1>12. p \in C
    <2>1. ~(Height(A, y) <= Height(A, p))
      BY <1>2, <1>9
    <2>2. p \notin Bad
      BY <1>6, <2>1
    <2> QED
      BY <1>8, <1>11, <2>2
  <1>13. CASE Pointers[p][s] = Kids[p][s]
    BY <1>7, <1>8, <1>12, <1>13 DEF Closed
  <1>14. CASE \E a : Pending(p, a, s)
    <2>1. PICK a : Pending(p, a, s)
      BY <1>14
    <2>2. CASE IS_NULL(Pointers[p][s])
      <3>1. Kids[p][s] = NodeAt(a) /\ (a \in DOMAIN node => a \in Arriving)
        BY <1>10, <2>1, <2>2, PendingChange
      <3>2. y = a
        BY <1>8, <3>1 DEF NodeAt
      <3> QED
        BY <1>7, <3>1, <3>2
    <2>3. CASE ~IS_NULL(Pointers[p][s])
      <3>1. PICK e : /\ Pointers[p][s] = NodeAt(e)
                     /\ \E z \in BOOLEAN : Pointers[e][z] = Kids[p][s]
        BY <1>8, <1>10, <2>1, <2>3, PendingChange
      <3>2. e \in C
        BY <1>12, <2>3, <3>1 DEF Closed, NodeAt
      <3> QED
        BY <1>7, <1>8, <3>1, <3>2 DEF Closed
    <2> QED
      BY <2>2, <2>3
  <1> QED
    BY <1>10, <1>13, <1>14, PointerOrPending

LEMMA RetireDetached == RetireInv => DetachedAreRetired
  <1> SUFFICES ASSUME RetireInv PROVE DetachedAreRetired
    OBVIOUS
  <1>1. PICK A, G : RetireState(A, G)
    BY DEF RetireInv, RetireState
  <1>2. Reachable = Range(Walk(Pointers, Itself))
    BY DEF Reachable, Pointers, Itself
  <1>3. /\ Reachable \subseteq Linked(A, G) \cup Leaving
        /\ \E C : C \subseteq Reachable /\ Closed(Pointers, C)
    BY <1>1, <1>2, LinkedClosed, WalkCloses, StateFacts
  <1>4. PICK C : C \subseteq Reachable /\ Closed(Pointers, C)
    BY <1>3
  <1>5. (Linked(A, G) \ Arriving) \subseteq C
    BY <1>1, <1>4, ClosedLinked
  <1>6. Leaving \subseteq C
    <2> SUFFICES ASSUME NEW e \in Leaving PROVE e \in C
      OBVIOUS
    <2>1. PICK p \in Linked(A, G) \ Arriving, s \in BOOLEAN : Pointers[p][s] = NodeAt(e)
      BY <1>1, LeavingFrom
    <2>2. p \in C /\ ~IS_NULL(Pointers[p][s]) /\ Pointers[p][s].node = e
      BY <1>5, <2>1 DEF NodeAt, IS_NULL
    <2> QED
      BY <1>4, <2>2 DEF Closed
  <1>7. /\ G \subseteq DOMAIN node /\ DOMAIN A = DOMAIN node /\ \A n \in G : Has(n, "MARK")
        /\ Discarded = G \ Leaving /\ ArrivingOK
    BY <1>1, StateFacts
  <1>8. Node = DOMAIN node \ {base_root} /\ base_root \notin G
    BY <1>1, StateFacts DEF Node, Linked
  <1>9. ASSUME NEW n \in Node, Has(n, "MARK"), n \notin Reachable PROVE n \in Discarded
    <2>1. n \notin Arriving
      BY <1>7, <1>9 DEF ArrivingOK, Untouched, NullOp, OpAt, Has, GET_FLAG
    <2>2. n \in G
      BY <1>4, <1>5, <1>7, <1>8, <1>9, <2>1 DEF Linked
    <2> QED
      BY <1>4, <1>6, <1>7, <1>9, <2>2
  <1>10. ASSUME NEW n \in Discarded PROVE n \in Node /\ Has(n, "MARK") /\ n \notin Reachable
    BY <1>3, <1>7, <1>8 DEF Linked
  <1> QED
    BY <1>9, <1>10 DEF DetachedAreRetired, Discarded

(* When no deleted block is used again, the nodes that are marked and that *)
(* no child pointer leads to are, in every state of every run, just those  *)
(* in the retired nodes lists and those that have been deleted: whoever    *)
(* helps to unlink a node, it is retired, and none is while a pointer of   *)
(* the tree leads to it.                                                   *)
THEOREM AlwaysDetachedRetired ==
    ASSUME ~ReusesBlocks
    PROVE  HistorySpec /\ HazardSpec => []DetachedAreRetired
  <1>1. RetireInv => DetachedAreRetired
    BY RetireDetached
  <1>2. RetireInv /\ [HistoryNext]_hvars /\ [HazardNext]_<<vars, hazards>> => RetireInv'
    BY RetireInvNext
  <1> QED
    BY <1>1, <1>2, RetireInit, PTL DEF HistorySpec, HazardSpec
=============================================================================
