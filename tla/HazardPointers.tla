--------------------------- MODULE HazardPointers ---------------------------
(***************************************************************************)
(* The lock-free tree with hazard_pointers = true: before a thread uses a  *)
(* node it puts its address into its part of the array hp, and a node that *)
(* it has unlinked is deleted when a scan finds it nowhere in hp.          *)
(*                                                                         *)
(* Every step of LockFreeBST is taken as it is.  What the code does in     *)
(* between, at the lines under hazard_pointers, comes first: todo[t] is    *)
(* what t has to read and to publish before its next step, and scan[t] the *)
(* retired nodes that it still has to look at.  One action is one access   *)
(* to shared memory here too.                                              *)
(*                                                                         *)
(* A deleted node keeps its contents and its address is not used again:    *)
(* freed says that what is done with it afterwards is undefined.           *)
(***************************************************************************)
EXTENDS LockFreeTree

CONSTANTS
    HP_THRESHOLD,     \* a longer list of retired nodes is scanned
    NUM_HP_PER_THREAD \* the hazard pointers of a thread

(* Threads are their thread_num; main() builds the tree as number 0. *)
ASSUME NumberAssumption ==
    IsFiniteSet(Worker) /\ Worker # {} /\ Worker = 0 .. Cardinality(Worker) - 1
ASSUME SizeAssumption == HP_THRESHOLD \in Nat /\ NUM_HP_PER_THREAD \in Nat \ {0}

Num(t) == IF t = Main THEN 0 ELSE t
Slots == Cardinality(Worker) * NUM_HP_PER_THREAD
Ring(n) == n * NUM_HP_PER_THREAD .. (n + 1) * NUM_HP_PER_THREAD - 1

VARIABLES
    hp,     \* the hazard pointers of all threads
    hp_off, \* by thread_num: the slot to be written next
    rlist,  \* by thread_num: the nodes retired and not deleted yet
    todo,   \* what each thread reads and publishes before its next step
    scan,   \* the copy of rlist (temp_rlist), from the node looked at on
    slot,   \* the slot to be compared with that node
    kept,   \* history: the slots that have held that node since slot was 0
    freed   \* the nodes that have been deleted

hazards == <<hp, hp_off, rlist, todo, scan, slot, kept, freed>>

HazardInit ==
    /\ Init
    /\ hp = [i \in 0 .. Slots - 1 |-> NodeAt(NoNode)]
    /\ hp_off = [n \in Worker |-> n * NUM_HP_PER_THREAD]
    /\ rlist = [n \in Worker |-> <<>>]
    /\ todo = [t \in Thread |-> <<>>]
    /\ scan = [t \in Thread |-> <<>>]
    /\ slot = [t \in Thread |-> 0]
    /\ kept = [t \in Thread |-> {}]
    /\ freed = {}

-----------------------------------------------------------------------------
(***************************************************************************)
(* Publishing.  A pointer to be published is a local variable, or a child  *)
(* pointer that is read for it; remove() tests the child pointer first.    *)
(***************************************************************************)
Put(ptr) == [do |-> "put", ptr |-> ptr]
Read(n, is_left) == [do |-> "read", node |-> n, is_left |-> is_left]
Test(n, is_left) == [do |-> "test", node |-> n, is_left |-> is_left]

(* The address in a child pointer, tagged or not. *)
UNFLAG_node(ptr) == ptr.node

Reads(item) == item.do \in {"read", "test"}

(* Mutant: the ring does not close. *)
MutNoWrap(n, i) == i + 1

(* The slot after i, in the ring of thread number n. *)
NextSlot(n, i) == IF i + 1 = (n + 1) * NUM_HP_PER_THREAD THEN n * NUM_HP_PER_THREAD ELSE i + 1

add_to_hp_list(n, ptr) ==
    /\ hp' = [hp EXCEPT ![hp_off[n]] = ptr]
    /\ hp_off' = [hp_off EXCEPT ![n] = NextSlot(n, @)]

(* The slots that hold node n. *)
Holders(n) == {i \in DOMAIN hp : UNFLAG_node(hp[i]) = n}

(* History: a slot that now holds something else is no longer kept. *)
Observe(h) == [t \in Thread |-> {i \in kept[t] : UNFLAG_node(h[i]) = Head(scan[t])}]

Publish(t) ==
    /\ todo[t] # <<>> /\ Head(todo[t]).do = "put"
    /\ add_to_hp_list(Num(t), Head(todo[t]).ptr)
    /\ todo' = [todo EXCEPT ![t] = Tail(@)]
    /\ kept' = Observe(hp')
    /\ UNCHANGED <<vars, rlist, scan, slot, freed>>

ReadChild(t) ==
    /\ todo[t] # <<>> /\ Reads(Head(todo[t]))
    /\ LET item == Head(todo[t])
           ptr == ChildOf(node[item.node], item.is_left)
           rest == Tail(todo[t])
       IN  todo' = [todo EXCEPT ![t] =
                      IF item.do = "read" THEN <<Put(ptr)>> \o rest
                      ELSE IF IS_NULL(ptr) THEN rest
                      ELSE <<Read(item.node, item.is_left)>> \o rest]
    /\ UNCHANGED <<vars, hp, hp_off, rlist, scan, slot, kept, freed>>

(* What the step of the tree that t has just taken leaves to be published  *)
(* before its next one.  The newNode of add() gets the address it will     *)
(* have if the CAS that publishes it succeeds.                             *)
ToPublish(t) ==
    LET at == pc'[t]
        l == loc'[t]
        isLeft == l.result = "NOTFOUND_L"
    IN  CASE at = "find" -> <<Put(NodeAt(l.auxRoot))>>
          [] at = "find_next" -> <<Read(l.curr, isLeft)>>
          [] at = "return" /\ pc[t] = "find_curr" /\ l.work.op = "INSERT" ->
                <<Put(NodeAt(loc[t].curr))>>
          [] at = "add_old" ->
                <<Put(NodeAt(l.curr)), Put(NodeAt(<<t, blocks[t]>>)), Read(l.curr, isLeft)>>
          [] at = "rem_right" -> <<Test(l.curr, FALSE), Test(l.curr, TRUE)>>
          [] at = "rem_key" ->
                <<Put(NodeAt(l.pred)), Put(NodeAt(l.auxRoot)), Put(NodeAt(l.curr))>>
          [] at = "child_cas" -> <<Read(l.dest, cas'[l.cas_op].is_left)>>
          [] at \in {"mark_take_left", "mark_take_right"} ->
                <<Read(l.curr, at = "mark_take_left")>>
          [] pc[t] = "reloc_state" -> <<Put(NodeAt(reloc[l.reloc_op].dest))>>
          [] OTHER -> <<>>

-----------------------------------------------------------------------------
(***************************************************************************)
(* Retiring.  The CAS of helpChildCAS() that succeeds retires the node the *)
(* pointer has led to.                                                     *)
(***************************************************************************)
SwingSucceeds(t) ==
    /\ pc[t] = "child_cas"
    /\ LET o == cas[loc[t].cas_op] IN ChildOf(node[loc[t].dest], o.is_left) = o.expected

(* Mutant: what the pointer is set to is retired. *)
MutRetireUpdate(o) == {o.update.node} \ {NoNode}

(* UNFLAG(op->expected), unless it is NULL. *)
Detached(o) == {o.expected.node} \ {NoNode}

(* The list of thread number n after the CAS for o. *)
Retired(n, o) ==
    LET new == Detached(o) \ Range(rlist[n])
    IN  IF new = {} THEN rlist[n] ELSE Append(rlist[n], CHOOSE x \in new : TRUE)

(* Main has built the whole tree: hp_off is set before the workers are     *)
(* created.                                                                *)
FirstSlot(t) ==
    hp_off' = IF t = Main /\ pc[t] = "return" /\ create = <<>>
              THEN [hp_off EXCEPT ![0] = 0] ELSE hp_off

TreeStep(t) ==
    /\ todo[t] = <<>> /\ scan[t] = <<>>
    /\ Step(t) \/ (t = Main /\ CreateTree)
    /\ todo' = [todo EXCEPT ![t] = ToPublish(t)]
    /\ IF SwingSucceeds(t)
       THEN LET n == Num(t)
                retired == Retired(n, cas[loc[t].cas_op])
                full == Len(retired) > HP_THRESHOLD
            IN  /\ rlist' = [rlist EXCEPT ![n] = retired]
                /\ scan' = IF full THEN [scan EXCEPT ![t] = retired] ELSE scan
                /\ kept' = IF full THEN [kept EXCEPT ![t] = Holders(Head(retired))] ELSE kept
       ELSE UNCHANGED <<rlist, scan, kept>>
    /\ FirstSlot(t)
    /\ UNCHANGED <<hp, slot, freed>>
-----------------------------------------------------------------------------
(***************************************************************************)
(* The scan: each retired node is compared with every slot.                *)
(***************************************************************************)
(* Mutant: the last slot is not looked at. *)
MutLastSlotSkipped(t) == slot[t] >= Slots - 1

Compared(t) == slot[t] = Slots

(* Mutant: a node that was deleted stays in rlist. *)
MutNotErased(s, n) == s

(* erase(): the first entry for n is taken out of list s. *)
Erased(s, n) ==
    LET at == CHOOSE i \in DOMAIN s : s[i] = n /\ \A j \in 1 .. i - 1 : s[j] # n
    IN  IF n \notin Range(s) THEN s
        ELSE [i \in 1 .. Len(s) - 1 |-> IF i < at THEN s[i] ELSE s[i + 1]]

(* The scan of t goes on with the next retired node. *)
NextNode(t) ==
    LET rest == Tail(scan[t])
    IN  /\ scan' = [scan EXCEPT ![t] = rest]
        /\ slot' = [slot EXCEPT ![t] = 0]
        /\ kept' = [kept EXCEPT ![t] = IF rest = <<>> THEN {} ELSE Holders(Head(rest))]

CompareSlot(t) ==
    /\ scan[t] # <<>> /\ ~Compared(t)
    /\ IF slot[t] \in Holders(Head(scan[t])) THEN NextNode(t)
       ELSE slot' = [slot EXCEPT ![t] = @ + 1] /\ UNCHANGED <<scan, kept>>
    /\ UNCHANGED <<vars, hp, hp_off, rlist, todo, freed>>

DeleteNode(t) ==
    /\ scan[t] # <<>> /\ Compared(t)
    /\ freed' = freed \cup {Head(scan[t])}
    /\ rlist' = [rlist EXCEPT ![Num(t)] = Erased(@, Head(scan[t]))]
    /\ NextNode(t)
    /\ UNCHANGED <<vars, hp, hp_off, todo>>

HazardStep(t) == Publish(t) \/ ReadChild(t) \/ TreeStep(t) \/ CompareSlot(t) \/ DeleteNode(t)
HazardNext ==
    \/ \E t \in Thread : HazardStep(t)
    \/ Terminated /\ UNCHANGED hazards
HazardSpec == HazardInit /\ [][HazardNext]_<<vars, hazards>>

-----------------------------------------------------------------------------
Item ==
    [do : {"put"}, ptr : NodePtr] \cup [do : {"read", "test"}, node : Addr, is_left : BOOLEAN]

(* Every variable has its type, and a thread writes its own hazard         *)
(* pointers only.                                                          *)
HazardTypeOK ==
    /\ hp \in [0 .. Slots - 1 -> NodePtr]
    /\ hp_off \in [Worker -> 0 .. Slots - 1] /\ \A n \in Worker : hp_off[n] \in Ring(n)
    /\ rlist \in [Worker -> Seq(Addr)]
    /\ todo \in [Thread -> Seq(Item)]
    /\ scan \in [Thread -> Seq(Addr)]
    /\ slot \in [Thread -> 0 .. Slots]
    /\ kept \in [Thread -> SUBSET (0 .. Slots - 1)]
    /\ freed \subseteq Addr

(* A node that some slot holds during the whole of its scan is not         *)
(* deleted: the scan meets it wherever it is, although the other threads   *)
(* go on publishing and the slots are read one by one ("Somebody has a     *)
(* reference to this retired node / Do not delete").                       *)
ScanHonoursHazards == \A t \in Thread : scan[t] # <<>> /\ Compared(t) => kept[t] = {}

(* The nodes that child pointers lead to, whatever operations are pending. *)
Reachable ==
    Range(Walk([n \in DOMAIN node |-> [is_left \in BOOLEAN |-> ChildOf(node[n], is_left)]],
               [n \in DOMAIN node |-> <<n>>]))

(* The thread that detaches a node stores it in its retired nodes list:    *)
(* what has been retired is marked and out of the tree, and of what is out *)
(* of the tree nothing is forgotten, whoever has helped to unlink it.      *)
DetachedAreRetired ==
    {n \in Node : Has(n, "MARK")} \ Reachable = freed \cup UNION {Range(rlist[n]) : n \in Worker}

(* No node is deleted twice. *)
FreedOnce == \A t \in Thread : scan[t] # <<>> /\ Compared(t) => Head(scan[t]) \notin freed

(* The nodes whose fields t accesses in its next step. *)
Accesses(t) ==
    LET l == loc[t]
        at == pc[t]
    IN  IF scan[t] # <<>> THEN {}
        ELSE IF todo[t] # <<>>
             THEN IF Reads(Head(todo[t])) THEN {Head(todo[t]).node} ELSE {}
        ELSE CASE at \in {"find", "rem_recheck"} -> {l.auxRoot}
               [] at = "find_visit" -> {l.next.node}
               [] at = "find_last_right" -> {l.last_right}
               [] at = "reloc_curr" -> {l.curr} \ {reloc[l.reloc_op].dest}
               [] at \in ChildLabel -> {l.dest}
               [] at \in {"mark_side", "mark_cas"} -> {l.pred}
               [] at \in {"reloc_dest", "reloc_key", "reloc_clear"} -> {reloc[l.reloc_op].dest}
               [] at \in {"idle", "return", "reloc_state", "reloc_won", "reloc_lost"} -> {}
               [] OTHER -> {l.curr}

(* "If no thread's hazard pointer list contains the node then it is safe   *)
(* to free the node": no thread reads or changes a node that was deleted.  *)
NoUseAfterFree == \A t \in Thread : Accesses(t) \cap freed = {}
=============================================================================
