---------------------- MODULE LockFreeSet_proofs ----------------------
(***************************************************************************)
(* The lock-free tree implements the atomic set of ConcurrentSet, for any  *)
(* number of threads, initial tree and trace, when no deleted block is     *)
(* used again.                                                             *)
(*                                                                         *)
(* The keys of the set are those that the nodes which are not dead have    *)
(* now (LiveKeys), and LockFreeTree_proofs tells where these nodes hang    *)
(* and what each thread knows of them.  So every step of a call is one of  *)
(* three: it keeps the set and what every call has done (Passes), it has   *)
(* the effect of its own call (TakesEffect), or it decides a relocation    *)
(* and so has the effect of the delete that published it, whoever takes it *)
(* (WonStep).  Which call that is, is in OwnersOK: an undecided relocation *)
(* is minded by the thread in whose block it is.                           *)
(***************************************************************************)
EXTENDS LockFreeSet, LockFreeTree_proofs

-----------------------------------------------------------------------------
(***************************************************************************)
(* The keys of the set are those of the nodes that are not dead.           *)
(***************************************************************************)
LiveKeys == {CurrentKey(n) : n \in {m \in DOMAIN node : Live(m)}}

(* What the tree says of a live node. *)
LEMMA LiveNode ==
    ASSUME NEW A, NEW G, TreeOK(A, G), NEW n \in DOMAIN node, Live(n)
    PROVE  /\ n \in Linked(A, G) /\ n # base_root /\ ~Dead(n)
           /\ CurrentKey(n) \in Int /\ node[n].key \in Int /\ node[n].key <= CurrentKey(n)
  <1>1. n # base_root /\ ~Dead(n)
    BY DEF Live
  <1>2. n \notin G
    BY <1>1 DEF TreeOK, Dead
  <1> QED
    BY <1>1, <1>2, KeyCurrent DEF TreeOK, Linked

LEMMA SetIsLive ==
    ASSUME NEW A, NEW G, TreeOK(A, G)
    PROVE  AbsSet = LiveKeys
  <1>1. Range(InOrder) = Linked(A, G) /\ Linked(A, G) \subseteq DOMAIN node
    BY InOrderLinked, TreeParts
  <1>2. {m \in Range(InOrder) : Live(m)} = {m \in DOMAIN node : Live(m)}
    BY <1>1, LiveNode
  <1> QED
    BY <1>2 DEF AbsSet, LiveKeys

LEMMA SetLive == TreeInv => AbsSet = LiveKeys
  BY SetIsLive DEF TreeInv, HeapInv

LEMMA SetLiveNext == (TreeInv => AbsSet = LiveKeys)'
  BY SetLive, PTL

(* No two live nodes have the same key. *)
LEMMA KeysDistinct ==
    ASSUME NEW A, NEW G, TreeOK(A, G), NEW x \in DOMAIN node, NEW y \in DOMAIN node,
           Live(x), Live(y), CurrentKey(x) = CurrentKey(y)
    PROVE  x = y
  <1> SUFFICES ASSUME x # y PROVE FALSE
    OBVIOUS
  <1>1. x \in Range(InOrder) /\ y \in Range(InOrder) /\ InOrder \in Seq(DOMAIN node)
    BY InOrderLinked, LiveNode
  <1>2. PICK i \in 1 .. Len(InOrder), j \in 1 .. Len(InOrder) : InOrder[i] = x /\ InOrder[j] = y
    BY <1>1 DEF Range
  <1>3. i < j \/ j < i
    BY <1>1, <1>2
  <1>4. <<x, y>> \in LiveBefore \/ <<y, x>> \in LiveBefore
    BY <1>2, <1>3, InOrderLinked
  <1>5. CurrentKey(x) < CurrentKey(y) \/ CurrentKey(y) < CurrentKey(x)
    BY <1>4 DEF LiveBefore
  <1> QED
    BY <1>5, LiveNode

(* A key for which there is room is not in the set. *)
LEMMA VacantAbsent ==
    ASSUME NEW A, NEW G, HeapInv(A, G), NEW n \in DOMAIN node, node[n].op.flag = "NONE",
           NEW s \in BOOLEAN, NEW k \in Int, Vacant(A, n, s, k), Upper(A, Keys, n, k)
    PROVE  k \notin LiveKeys
  <1> SUFFICES ASSUME k \in LiveKeys PROVE FALSE
    OBVIOUS
  <1>1. PICK x \in DOMAIN node : Live(x) /\ CurrentKey(x) = k
    BY DEF LiveKeys
  <1>2. TreeOK(A, G) /\ DOMAIN A = DOMAIN node
    BY DEF HeapInv, TreeOK
  <1>3. /\ x \in Linked(A, G) /\ x # base_root /\ node[x].key \in Int /\ node[x].key <= k
        /\ x \in DOMAIN A /\ n \in DOMAIN A
    BY <1>1, <1>2, LiveNode
  <1>4. /\ n \in Linked(A, G) /\ CurrentKey(n) = node[n].key
        /\ \A q : Child(n, q) = ChildOf(node[n], q)
    BY Unflagged
  <1>5. /\ Below(Kids, A, G) /\ Branches(A, G) /\ FromRoot(A, G) /\ Ancestors(A, G)
        /\ Order(A, G, Keys, CurrentKeys, DeadNodes)
    BY <1>2, TreeParts DEF TreeOK, Shape
  <1>6. /\ IS_NULL(ChildOf(node[n], s)) /\ Lower(A, CurrentKeys, n, k)
        /\ s => n # base_root /\ k < node[n].key
        /\ ~s => n = base_root \/ node[n].key < k
    BY DEF Vacant
  <1>7. \A y \in DOMAIN A :
           /\ Keys[y] = node[y].key /\ CurrentKeys[y] = CurrentKey(y)
           /\ node[y].key \in Int /\ CurrentKey(y) \in Int /\ node[y].key <= CurrentKey(y)
    BY <1>2, KeyCurrent DEF Keys, CurrentKeys
  <1>8. CASE x = n
    BY <1>3, <1>4, <1>1, <1>6, <1>7, <1>8
  <1>9. ASSUME NEW q \in BOOLEAN, <<n, q>> \in A[x] PROVE FALSE
    <2>1. CASE q = s
      <3>1. ~IS_NULL(Kids[n][s])
        BY <1>3, <1>4, <1>5, <1>9, <2>1 DEF Below
      <3>2. Kids[n][s] = ChildOf(node[n], s)
        BY <1>4 DEF Kids
      <3> QED
        BY <3>1, <3>2, <1>6
    <2>2. CASE s /\ ~q
      <3>1. n # base_root /\ <<n, FALSE>> \in A[x]
        BY <1>6, <1>9, <2>2
      <3>2. CurrentKeys[n] <= Keys[x]
        BY <3>1, <1>3, <1>5, <1>2 DEF Order
      <3> QED
        BY <3>2, <1>3, <1>4, <1>6, <1>7, <2>2
    <2>3. CASE ~s /\ q
      <3>1. <<n, TRUE>> \in A[x]
        BY <1>9, <2>3
      <3>2. n # base_root
        BY <3>1, <1>3, <1>5 DEF FromRoot
      <3>3. CurrentKeys[x] < Keys[n]
        BY <3>1, <1>3, <1>5, <1>2 DEF Order
      <3> QED
        BY <3>2, <3>3, <1>1, <1>3, <1>4, <1>6, <1>7, <2>3
    <2> QED
      BY <2>1, <2>2, <2>3
  <1>10. ASSUME NEW q \in BOOLEAN, <<x, q>> \in A[n] PROVE FALSE
    <2>1. CASE q
      <3>1. <<x, TRUE>> \in A[n]
        BY <1>10, <2>1
      <3>2. k < Keys[x]
        BY <3>1, <1>3 DEF Upper
      <3> QED
        BY <3>2, <1>3, <1>7
    <2>2. CASE ~q
      <3>1. <<x, FALSE>> \in A[n]
        BY <1>10, <2>2
      <3>2. CurrentKeys[x] < k
        BY <3>1, <1>3, <1>6 DEF Lower
      <3> QED
        BY <3>2, <1>1, <1>3, <1>7
    <2> QED
      BY <2>1, <2>2
  <1>11. ASSUME NEW q \in BOOLEAN, PartAt(A, x, n, q) PROVE FALSE
    <2>1. PICK z \in DOMAIN A : <<z, q>> \in A[x] /\ <<z, ~q>> \in A[n]
      BY <1>11 DEF PartAt
    <2>2. z \in Linked(A, G)
      BY <2>1, <1>5, <1>3, SideTyped
    <2>3. z # base_root
      BY <2>1, <1>5, <1>3 DEF FromRoot
    <2>4. CASE q
      <3>1. <<z, TRUE>> \in A[x] /\ <<z, FALSE>> \in A[n]
        BY <2>1, <2>4
      <3>2. CurrentKeys[x] < Keys[z]
        BY <3>1, <1>3, <1>5 DEF Order
      <3>3. CurrentKeys[z] < k
        BY <3>1, <2>3, <1>6 DEF Lower
      <3> QED
        BY <3>2, <3>3, <1>1, <1>3, <1>7
    <2>5. CASE ~q
      <3>1. <<z, FALSE>> \in A[x] /\ <<z, TRUE>> \in A[n]
        BY <2>1, <2>5
      <3>2. CurrentKeys[z] <= Keys[x]
        BY <3>1, <2>3, <1>3, <1>5 DEF Order
      <3>3. k < Keys[z]
        BY <3>1 DEF Upper
      <3> QED
        BY <3>2, <3>3, <1>1, <1>3, <1>7
    <2> QED
      BY <2>4, <2>5
  <1>12. x = n \/ \E q \in BOOLEAN : <<n, q>> \in A[x] \/ <<x, q>> \in A[n] \/ PartAt(A, x, n, q)
    <2>1. x = n \/ \E q \in BOOLEAN : <<x, q>> \in A[n] \/ <<n, q>> \in A[x] \/ PartAt(A, x, n, q)
      BY <1>3, <1>4, <1>5 DEF Branches
    <2> QED
      BY <2>1
  <1> QED
    BY <1>8, <1>9, <1>10, <1>11, <1>12

(* A node with an op without a flag is in the set with the key it has. *)
LEMMA FoundPresent ==
    ASSUME NEW A, NEW G, HeapInv(A, G), NEW n \in DOMAIN node \ {base_root}, node[n].op.flag = "NONE"
    PROVE  node[n].key \in LiveKeys
  <1>1. ~Dead(n) /\ CurrentKey(n) = node[n].key
    BY Unflagged
  <1> QED
    BY <1>1 DEF LiveKeys, Live

-----------------------------------------------------------------------------
(***************************************************************************)
(* What the steps of the heap do to the keys of the set.                   *)
(***************************************************************************)
Same(x) == CurrentKey(x)' = CurrentKey(x) /\ Dead(x)' = Dead(x)

LEMMA SameKeysSet ==
    ASSUME DOMAIN node' = DOMAIN node, \A x \in DOMAIN node : Same(x)
    PROVE  LiveKeys' = LiveKeys
  <1>1. \A x \in DOMAIN node : Live(x)' = Live(x) /\ CurrentKey(x)' = CurrentKey(x)
    BY DEF Same, Live
  <1>2. {m \in DOMAIN node' : Live(m)'} = {m \in DOMAIN node : Live(m)}
    BY <1>1
  <1>3. \A m \in {m \in DOMAIN node : Live(m)} : CurrentKey(m)' = CurrentKey(m)
    BY <1>1
  <1> QED
    BY <1>2, <1>3 DEF LiveKeys

LEMMA QuietSet ==
    ASSUME Inv, node' = node, reloc' = reloc
    PROVE  LiveKeys' = LiveKeys
  <1>1. \A x \in DOMAIN node : Same(x)
    BY DEF Same, CurrentKey, Dead, Relocated, Has, PendingRelocation
  <1> QED
    BY <1>1, SameKeysSet

(* Where only n changes. *)
LEMMA ChangeSame ==
    ASSUME Inv, Extends, NEW n, NEW w, OpChange(n, w), Same(n), NEW x \in DOMAIN node
    PROVE  Same(x)
  <1>1. CASE x # n
    <2>1. node'[x] = node[x]
      BY <1>1 DEF OpChange
    <2> QED
      BY <2>1, SameNode DEF Same
  <1>2. CASE x = n
    BY <1>2
  <1> QED
    BY <1>1, <1>2

LEMMA ChangeSet ==
    ASSUME Inv, Extends, NEW n, NEW w, OpChange(n, w), Same(n), DOMAIN node' = DOMAIN node
    PROVE  LiveKeys' = LiveKeys
  BY ChangeSame, SameKeysSet

(* An op that is not the pending relocation of its node, before and after. *)
LEMMA PlainSame ==
    ASSUME NEW n, NEW w, OpChange(n, w), ~Relocated(n), ~Relocated(n)', ~Has(n, "MARK"),
           w.flag # "MARK"
    PROVE  Same(n)
  <1>1. ~Has(n, "MARK")' /\ node'[n].key = node[n].key
    BY DEF OpChange, Has, GET_FLAG
  <1> QED
    BY <1>1 DEF Same, CurrentKey, Dead

LEMMA NotRelocated ==
    ASSUME NEW n, ~Has(n, "RELOCATE") \/ PendingRelocation(n).state # "SUCCESSFUL"
    PROVE  ~Relocated(n)
  BY DEF Relocated

LEMMA SwingSet ==
    ASSUME Inv, NEW d \in DOMAIN node, NEW o, CASChild(d, o), reloc' = reloc
    PROVE  LiveKeys' = LiveKeys
  <1>1. DOMAIN node' = DOMAIN node
    BY DEF CASChild
  <1>2. \A x \in DOMAIN node : node'[x].op = node[x].op /\ node'[x].key = node[x].key
    BY DEF CASChild, Inv, TypeOK, LF_BST_Node
  <1>3. \A x \in DOMAIN node : Same(x)
    BY <1>2 DEF Same, CurrentKey, Dead, Relocated, Has, PendingRelocation
  <1> QED
    BY <1>1, <1>3, SameKeysSet

(* A Child_CAS_OP is cleared. *)
LEMMA ClearSet ==
    ASSUME Inv, NEW d \in DOMAIN node, NEW a, ClearOp(d, a, "CHILDCAS"), cas' = cas, reloc' = reloc
    PROVE  LiveKeys' = LiveKeys
  <1>1. PICK old, w : old = Flagged("CHILDCAS", a) /\ w = Flagged("NONE", a)
    OBVIOUS
  <1>2. CASOp(d, old, w) /\ w # old
    BY <1>1, OpFlags DEF ClearOp, Flag, Flagged
  <1>3. CASE ~Matches(d, old)
    BY <1>2, <1>3, CASOpMissed, QuietSet
  <1>4. CASE Matches(d, old)
    <2>1. OpChange(d, w) /\ DOMAIN node' = DOMAIN node
      BY <1>2, <1>4, CASOpMatched
    <2>2. node[d].op = old /\ node'[d].op = w
      BY <1>4, <2>1 DEF Matches, OpChange
    <2>3. ~Relocated(d) /\ ~Relocated(d)' /\ ~Has(d, "MARK") /\ w.flag # "MARK"
      BY <1>1, <2>2 DEF Relocated, Has, GET_FLAG, Flagged
    <2>4. Same(d)
      BY <2>1, <2>3, PlainSame
    <2> QED
      BY <2>1, <2>4, ChangeSet DEF Extends
  <1> QED
    BY <1>3, <1>4

(* A CAS that replaces an op without a flag with a pending operation. *)
LEMMA PublishSame ==
    ASSUME NEW n, NEW w, OpChange(n, w), node[n].op.flag = "NONE", w.flag \in {"CHILDCAS", "RELOCATE"},
           w.flag = "RELOCATE" => reloc'[w.op].state # "SUCCESSFUL"
    PROVE  Same(n)
  <1>1. node'[n].op = w
    BY DEF OpChange
  <1>2. ~Relocated(n) /\ ~Has(n, "MARK")
    BY DEF Relocated, Has, GET_FLAG
  <1>3. ~Relocated(n)'
    BY <1>1 DEF Relocated, Has, GET_FLAG, PendingRelocation, UNFLAG
  <1> QED
    BY <1>2, <1>3, PlainSame

(* A marked node is unlinked. *)
LEMMA UnlinkSet ==
    ASSUME Inv, OpsInv, NEW n \in DOMAIN node, node[n].op.flag = "NONE", NEW a, a \notin DOMAIN cas,
           node' = [node EXCEPT ![n].op = Flagged("CHILDCAS", a)],
           NEW o, cas' = Store(cas, a, o), reloc' = reloc
    PROVE  LiveKeys' = LiveKeys
  <1>1. PICK w : w = Flagged("CHILDCAS", a)
    OBVIOUS
  <1>2. OpChange(n, w) /\ DOMAIN node' = DOMAIN node
    BY <1>1 DEF OpChange, Inv, TypeOK, LF_BST_Node, Flagged
  <1>3. Extends
    BY DEF Extends, Store
  <1>4. Same(n)
    BY <1>1, <1>2, PublishSame DEF Flagged
  <1> QED
    BY <1>2, <1>3, <1>4, ChangeSet

(* A relocation is published in replace. *)
LEMMA RelocateSet ==
    ASSUME Inv, OpsInv, NEW n \in DOMAIN node, node[n].op.flag = "NONE", NEW a, a \notin DOMAIN reloc,
           node' = [node EXCEPT ![n].op = ToDest(a)],
           NEW r, r.state = "ONGOING", cas' = cas, reloc' = Store(reloc, a, r)
    PROVE  LiveKeys' = LiveKeys
  <1>1. PICK w : w = ToDest(a)
    OBVIOUS
  <1>2. OpChange(n, w) /\ DOMAIN node' = DOMAIN node
    BY <1>1 DEF OpChange, Inv, TypeOK, LF_BST_Node, ToDest, Flagged
  <1>3. Extends /\ reloc'[a].state = "ONGOING"
    BY DEF Extends, Store
  <1>4. Same(n)
    BY <1>1, <1>2, <1>3, PublishSame DEF ToDest, Flagged
  <1> QED
    BY <1>2, <1>3, <1>4, ChangeSet

(* A relocation is installed in dest. *)
LEMMA InstallSet ==
    ASSUME NEW A, NEW G, HeapNow(A, G), StepsSoundly, NEW a \in DOMAIN reloc, NEW d,
           d = reloc[a].dest, d \in DOMAIN node, reloc[a].dest_op.flag = "NONE", DestKey(a),
           CASOp(d, reloc[a].dest_op, ToDest(a)), cas' = cas, reloc' = reloc
    PROVE  LiveKeys' = LiveKeys
  <1>1. PICK old, w : old = reloc[a].dest_op /\ w = ToDest(a)
    OBVIOUS
  <1>2. CASOp(d, old, w) /\ w # old /\ Inv /\ Extends
    BY <1>1 DEF ToDest, Flagged, HeapNow, Extends
  <1>3. CASE ~Matches(d, old)
    BY <1>2, <1>3, CASOpMissed, QuietSet
  <1>4. CASE Matches(d, old)
    <2>1. OpChange(d, w) /\ DOMAIN node' = DOMAIN node
      BY <1>2, <1>4, CASOpMatched
    <2>2. w \notin Had(node, past, d)
      BY <2>1, OpChangePast DEF HeapNow, StepsSoundly
    <2>3. reloc[a].state # "SUCCESSFUL"
      BY <1>1, <2>2 DEF DestKey
    <2>4. node[d].op.flag = "NONE" /\ w.flag = "RELOCATE" /\ w.op = a
      BY <1>1, <1>4 DEF Matches, ToDest, Flagged
    <2>5. Same(d)
      BY <2>1, <2>3, <2>4, PublishSame
    <2> QED
      BY <1>2, <2>1, <2>5, ChangeSet
  <1> QED
    BY <1>3, <1>4

(* The key of dest is replaced: it was dest's current key already. *)
LEMMA KeySet ==
    ASSUME Inv, OpsInv, NEW a \in DOMAIN reloc, NEW d, d = reloc[a].dest, d \in DOMAIN node,
           reloc[a].state = "SUCCESSFUL", DestKey(a), node[d].key \in Int,
           reloc[a].remove_key \in Int, reloc[a].replace_key \in Int,
           CASKey(reloc[a]), reloc' = reloc
    PROVE  LiveKeys' = LiveKeys
  <1>1. CASE node[d].key # reloc[a].remove_key
    <2>1. node' = node
      BY <1>1 DEF CASKey
    <2> QED
      BY <2>1, QuietSet
  <1>2. CASE node[d].key = reloc[a].remove_key
    <2>1. node' = [node EXCEPT ![d].key = reloc[a].replace_key]
      BY <1>2 DEF CASKey
    <2>2. /\ DOMAIN node' = DOMAIN node /\ node'[d].op = node[d].op
          /\ \A x \in DOMAIN node \ {d} : node'[x] = node[x]
      BY <2>1 DEF Inv, TypeOK, LF_BST_Node
    <2>3. ToDest(a) \in Had(node, past, d) /\ ~(reloc[a].replace_key <= node[d].key)
      BY <1>2 DEF DestKey
    <2>4. node[d].op = ToDest(a)
      BY <2>3 DEF DestKey, Had
    <2>5. Relocated(d) /\ Relocated(d)'
      BY <2>2, <2>4 DEF Relocated, Has, GET_FLAG, ToDest, Flagged, PendingRelocation, UNFLAG
    <2>6. PendingRelocation(d) = reloc[a] /\ PendingRelocation(d)' = reloc[a]
      BY <2>2, <2>4 DEF ToDest, Flagged, PendingRelocation, UNFLAG
    <2>7. Has(d, "MARK")' = Has(d, "MARK")
      BY <2>2 DEF Has
    <2>8. Same(d)
      BY <2>5, <2>6, <2>7 DEF Same, CurrentKey, Dead
    <2>9. \A x \in DOMAIN node \ {d} : Same(x)
      BY <2>2 DEF Same, CurrentKey, Dead, Relocated, Has, PendingRelocation
    <2> QED
      BY <2>2, <2>8, <2>9, SameKeysSet
  <1> QED
    BY <1>1, <1>2

(* dest, which has its new key, is released. *)
LEMMA ClearDestSet ==
    ASSUME Inv, NEW a \in DOMAIN reloc, NEW d, d = reloc[a].dest, d \in DOMAIN node,
           reloc[a].state = "SUCCESSFUL",
           Is(d, ToDest(a)) => node[d].key = reloc[a].replace_key,
           CASOp(d, ToDest(a), Flagged("NONE", a)), cas' = cas, reloc' = reloc
    PROVE  LiveKeys' = LiveKeys
  <1>1. PICK old, w : old = ToDest(a) /\ w = Flagged("NONE", a)
    OBVIOUS
  <1>2. CASOp(d, old, w) /\ w # old /\ Extends
    BY <1>1 DEF ToDest, Flagged, Extends
  <1>3. CASE ~Matches(d, old)
    BY <1>2, <1>3, CASOpMissed, QuietSet
  <1>4. CASE Matches(d, old)
    <2>1. OpChange(d, w) /\ DOMAIN node' = DOMAIN node
      BY <1>2, <1>4, CASOpMatched
    <2>2. node[d].op = ToDest(a) /\ node[d].key = reloc[a].replace_key
      BY <1>1, <1>4 DEF Matches, Is
    <2>3. node'[d].op = w /\ node'[d].key = node[d].key
      BY <2>1 DEF OpChange
    <2>4. ~Has(d, "MARK") /\ PendingRelocation(d) = reloc[a]
      BY <2>2 DEF Has, GET_FLAG, ToDest, Flagged, PendingRelocation, UNFLAG
    <2>5. ~Has(d, "MARK")' /\ ~Relocated(d)'
      BY <1>1, <2>3 DEF Has, GET_FLAG, Flagged, Relocated
    <2>6. Same(d)
      BY <2>2, <2>3, <2>4, <2>5 DEF Same, CurrentKey, Dead
    <2> QED
      BY <1>2, <2>1, <2>6, ChangeSet
  <1> QED
    BY <1>3, <1>4

(* Replace is marked when its key has moved, else released. *)
LEMMA ReleaseSet ==
    ASSUME Inv, NEW a \in DOMAIN reloc,
           NEW c \in DOMAIN node, c # reloc[a].dest, NEW f \in {"MARK", "NONE"},
           f = "MARK" => reloc[a].state = "SUCCESSFUL", f = "NONE" => reloc[a].state = "FAILED",
           CASOp(c, ToDest(a), Flagged(f, a)), cas' = cas, reloc' = reloc
    PROVE  LiveKeys' = LiveKeys
  <1>1. PICK old, w : old = ToDest(a) /\ w = Flagged(f, a)
    OBVIOUS
  <1>2. CASOp(c, old, w) /\ w # old /\ Extends
    BY <1>1 DEF ToDest, Flagged, Extends
  <1>3. CASE ~Matches(c, old)
    BY <1>2, <1>3, CASOpMissed, QuietSet
  <1>4. CASE Matches(c, old)
    <2>1. OpChange(c, w) /\ DOMAIN node' = DOMAIN node
      BY <1>2, <1>4, CASOpMatched
    <2>2. node[c].op = ToDest(a)
      BY <1>1, <1>4 DEF Matches
    <2>3. node'[c].op = w /\ node'[c].key = node[c].key
      BY <2>1 DEF OpChange
    <2>4. /\ ~Has(c, "MARK") /\ PendingRelocation(c) = reloc[a] /\ Has(c, "RELOCATE")
      BY <2>2 DEF Has, GET_FLAG, ToDest, Flagged, PendingRelocation, UNFLAG
    <2>5. (Has(c, "MARK")' <=> f = "MARK") /\ ~Relocated(c)'
      BY <1>1, <2>3 DEF Has, GET_FLAG, Flagged, Relocated
    <2>6. Dead(c) <=> f = "MARK"
      BY <2>4 DEF Dead, Relocated
    <2>7. Dead(c)' <=> f = "MARK"
      BY <2>5 DEF Dead
    <2>8. CurrentKey(c) = node[c].key /\ CurrentKey(c)' = node[c].key
      BY <2>3, <2>4, <2>5 DEF CurrentKey
    <2>9. Same(c)
      <3>1. Dead(c)' = Dead(c)
        BY <2>6, <2>7 DEF Dead
      <3> QED
        BY <3>1, <2>8 DEF Same
    <2> QED
      BY <1>2, <2>1, <2>9, ChangeSet
  <1> QED
    BY <1>3, <1>4

(* remove() takes the key of the node that it marks out of the set. *)
LEMMA MarkSet ==
    ASSUME Inv, NEW A, NEW G, HeapInv(A, G), NEW n \in DOMAIN node \ {base_root},
           node[n].op.flag = "NONE", NEW w, w.flag = "MARK", OpChange(n, w),
           DOMAIN node' = DOMAIN node, Extends
    PROVE  node[n].key \in LiveKeys /\ LiveKeys' = LiveKeys \ {node[n].key}
  <1>1. Live(n) /\ CurrentKey(n) = node[n].key /\ TreeOK(A, G)
    BY Unflagged DEF Live, HeapInv
  <1>2. ~Live(n)'
    BY DEF OpChange, Live, Dead, Has, GET_FLAG
  <1>3. \A x \in DOMAIN node \ {n} : Live(x)' = Live(x) /\ CurrentKey(x)' = CurrentKey(x)
    <2> SUFFICES ASSUME NEW x \in DOMAIN node \ {n}
                 PROVE  Live(x)' = Live(x) /\ CurrentKey(x)' = CurrentKey(x)
      OBVIOUS
    <2>1. node'[x] = node[x]
      BY DEF OpChange
    <2> QED
      BY <2>1, SameNode DEF Live
  <1>4. \A x \in DOMAIN node : Live(x) /\ CurrentKey(x) = node[n].key => x = n
    BY <1>1, KeysDistinct
  <1>5. {m \in DOMAIN node' : Live(m)'} = {m \in DOMAIN node : Live(m)} \ {n}
    BY <1>2, <1>3
  <1>6. PICK L : L = {m \in DOMAIN node : Live(m)}
    OBVIOUS
  <1>7. LiveKeys' = {CurrentKey(x)' : x \in L \ {n}}
    BY <1>5, <1>6 DEF LiveKeys
  <1>8. \A x \in L \ {n} : CurrentKey(x)' = CurrentKey(x) /\ CurrentKey(x) # node[n].key
    BY <1>3, <1>4, <1>6
  <1>9. LiveKeys = {CurrentKey(x) : x \in L} /\ n \in L
    BY <1>1, <1>6 DEF LiveKeys
  <1> QED
    BY <1>1, <1>7, <1>8, <1>9

(* add() puts the key of the node that it links into the set. *)
LEMMA InsertSet ==
    ASSUME Inv, NEW n \in DOMAIN node, node[n].op.flag = "NONE", NEW a, a \notin DOMAIN node,
           a # base_root, NEW k,
           node' = [Store(node, a, create_LF_node(k)) EXCEPT ![n].op = Flagged("CHILDCAS", a)],
           Extends
    PROVE  LiveKeys' = LiveKeys \cup {k}
  <1>1. PICK w : w = Flagged("CHILDCAS", a)
    OBVIOUS
  <1>2. /\ DOMAIN node' = DOMAIN node \cup {a} /\ node'[a] = create_LF_node(k)
        /\ OpChange(n, w)
    BY <1>1 DEF OpChange, Inv, TypeOK, LF_BST_Node, Flagged, Store, create_LF_node
  <1>3. Same(n)
    BY <1>1, <1>2, PublishSame DEF Flagged
  <1>4. \A x \in DOMAIN node : Same(x)
    BY <1>2, <1>3, ChangeSame
  <1>5. \A x \in DOMAIN node : Live(x)' = Live(x) /\ CurrentKey(x)' = CurrentKey(x)
    BY <1>4 DEF Same, Live
  <1>6. Live(a)' /\ CurrentKey(a)' = k
    BY <1>2 DEF Live, Dead, Has, GET_FLAG, CurrentKey, Relocated, create_LF_node, NullOp, OpAt
  <1>7. PICK L : L = {m \in DOMAIN node : Live(m)}
    OBVIOUS
  <1>8. {m \in DOMAIN node' : Live(m)'} = L \cup {a}
    BY <1>2, <1>5, <1>6, <1>7
  <1>9. LiveKeys = {CurrentKey(x) : x \in L} /\ LiveKeys' = {CurrentKey(x)' : x \in L \cup {a}}
    BY <1>7, <1>8 DEF LiveKeys
  <1>10. \A x \in L : CurrentKey(x)' = CurrentKey(x)
    BY <1>5, <1>7
  <1> QED
    BY <1>6, <1>9, <1>10

(* A relocation that fails leaves the set alone, ... *)
LEMMA FailSet ==
    ASSUME Inv, NEW a, Decides(a, "FAILED")
    PROVE  LiveKeys' = LiveKeys
  <1>1. \A x \in DOMAIN node : Same(x)
    BY DecidesView DEF Same
  <1>2. DOMAIN node' = DOMAIN node
    BY DEF Decides
  <1> QED
    BY <1>1, <1>2, SameKeysSet

(* ... one that succeeds takes the key of dest out of it: that of the node *)
(* that is replaced is now dest's.                                         *)
LEMMA RelocatedPair ==
    ASSUME NEW A, NEW G, HeapNow(A, G), NEW a, Decides(a, "SUCCESSFUL"),
           NEW d, d = reloc[a].dest, ToDest(a) \in Had(node, past, d)
    PROVE  \E c \in DOMAIN node :
              /\ c # d /\ d \in DOMAIN node \ {base_root} /\ c # base_root
              /\ Is(d, ToDest(a)) /\ Is(c, ToDest(a))
              /\ node[d].key = reloc[a].remove_key /\ node[c].key = reloc[a].replace_key
              /\ reloc[a].remove_key \in Int /\ reloc[a].replace_key \in Int
              /\ reloc[a].remove_key < reloc[a].replace_key
  <1>1. /\ Inv /\ OpsInv /\ RelocationsOK(A) /\ TreeOK(A, G)
        /\ a \in DOMAIN reloc /\ reloc[a].state = "ONGOING"
    BY DEF HeapNow, HeapInv, Decides
  <1>2. DestKey(a) /\ RelocationOK(node, past, reloc, a)
    BY <1>1 DEF RelocationsOK, OpsInv, HeapOps
  <1>3. PICK c : Replaces(a, c)
    BY <1>1 DEF RelocationsOK
  <1>4. Replaced(A, a, c)
    BY <1>1, <1>3 DEF RelocationsOK
  <1>5. Is(d, ToDest(a))
    BY <1>1, <1>2 DEF RelocationOK, Had, Is
  <1>6. c \in DOMAIN node /\ c # d /\ Is(c, ToDest(a))
    BY <1>1, <1>3, <1>4 DEF Replaces, Replaced, Had, Is
  <1>7. node[c].key = reloc[a].replace_key /\ After(A, d, c)
    BY <1>1, <1>4, <1>5, <1>6 DEF Replaced
  <1>8. node[d].key = reloc[a].remove_key /\ reloc[a].remove_key < reloc[a].replace_key
    BY <1>1, <1>2, <1>5 DEF DestKey
  <1>9. /\ d \in DOMAIN node \ {base_root}
        /\ reloc[a].remove_key \in Int /\ reloc[a].replace_key \in Int
    BY <1>1, HeapTypes
  <1>10. c # base_root
    BY <1>1, <1>7, TreeParts DEF After, FromRoot
  <1> QED
    BY <1>5, <1>6, <1>7, <1>8, <1>9, <1>10

LEMMA SucceedSet ==
    ASSUME NEW A, NEW G, HeapNow(A, G), NEW a, Decides(a, "SUCCESSFUL"),
           ToDest(a) \in Had(node, past, reloc[a].dest)
    PROVE  /\ reloc[a].remove_key \in LiveKeys
           /\ LiveKeys' = LiveKeys \ {reloc[a].remove_key}
  <1>1. PICK d, old, new : d = reloc[a].dest /\ old = reloc[a].remove_key /\ new = reloc[a].replace_key
    OBVIOUS
  <1>2. PICK c \in DOMAIN node :
           /\ c # d /\ d \in DOMAIN node \ {base_root} /\ c # base_root
           /\ Is(d, ToDest(a)) /\ Is(c, ToDest(a))
           /\ node[d].key = old /\ node[c].key = new
           /\ old \in Int /\ new \in Int /\ old < new
    BY <1>1, RelocatedPair
  <1>3. TreeOK(A, G) /\ Inv /\ DOMAIN node' = DOMAIN node
    BY DEF HeapNow, HeapInv, Decides
  <1>4. \A x \in DOMAIN node : Is(x, ToDest(a)) =>
           /\ CurrentKey(x) = node[x].key /\ ~Dead(x)
           /\ CurrentKey(x)' = (IF d = x THEN new ELSE node[x].key)
           /\ Dead(x)' = (d # x)
    BY <1>1, DecidesRelocated
  <1>5. Live(d) /\ CurrentKey(d) = old /\ Live(c) /\ CurrentKey(c) = new
    BY <1>2, <1>4 DEF Live
  <1>6. Live(d)' /\ CurrentKey(d)' = new /\ ~Live(c)'
    BY <1>2, <1>4 DEF Live
  <1>7. ASSUME NEW x \in DOMAIN node \ {c, d}
        PROVE  \/ Live(x)' /\ Live(x) /\ CurrentKey(x)' = CurrentKey(x)
               \/ ~Live(x)' /\ ~Live(x)
               \/ Live(x)' = Live(x) /\ CurrentKey(x)' = CurrentKey(x)
    <2>1. CASE Is(x, ToDest(a))
      <3>1. Is(x, ToDest(a)) /\ node[x].key \in Int
        BY <2>1, <1>3, KeyCurrent
      <3>2. ~Dead(x) /\ CurrentKey(x) = node[x].key /\ Dead(x)' /\ ~Live(x)'
        BY <3>1, <1>4 DEF Live
      <3>3. x \in DOMAIN node /\ x # reloc[a].dest /\ Replaces(a, x)
        BY <1>1, <3>1 DEF Replaces, Had, Is
      <3>4. Replaced(A, a, x)
        BY <3>3 DEF HeapNow, HeapInv, RelocationsOK, Decides
      <3>5. node[x].key = new
        BY <3>1, <3>4, <1>1 DEF Replaced
      <3>6. ~Live(x)
        BY <3>2, <3>5, <1>3, <1>5, KeysDistinct
      <3> QED
        BY <3>2, <3>6
    <2>2. CASE ~Is(x, ToDest(a))
      <3>1. CurrentKey(x)' = CurrentKey(x) /\ Dead(x)' = Dead(x)
        BY <1>3, <2>2, DecidesView
      <3> QED
        BY <3>1 DEF Live
    <2> QED
      BY <2>1, <2>2
  <1>8. PICK L : L = {m \in DOMAIN node : Live(m)}
    OBVIOUS
  <1>9. {m \in DOMAIN node' : Live(m)'} = L \ {c}
    BY <1>2, <1>3, <1>5, <1>6, <1>7, <1>8
  <1>10. LiveKeys = {CurrentKey(x) : x \in L} /\ LiveKeys' = {CurrentKey(x)' : x \in L \ {c}}
    BY <1>8, <1>9 DEF LiveKeys
  <1>11. d \in L /\ c \in L /\ d \in L \ {c}
    BY <1>2, <1>5, <1>8
  <1>12. \A x \in L \ {c, d} : CurrentKey(x)' = CurrentKey(x) /\ CurrentKey(x) # old
    <2> SUFFICES ASSUME NEW x \in L \ {c, d} PROVE CurrentKey(x)' = CurrentKey(x) /\ CurrentKey(x) # old
      OBVIOUS
    <2>1. x \in DOMAIN node \ {c, d} /\ Live(x)
      BY <1>8
    <2> QED
      BY <2>1, <1>2, <1>3, <1>5, <1>7, KeysDistinct
  <1>13. old \in LiveKeys /\ new # old
    BY <1>2, <1>5, <1>10, <1>11
  <1>14. ASSUME NEW k \in LiveKeys' PROVE k \in LiveKeys \ {old}
    <2>1. PICK x \in L \ {c} : k = CurrentKey(x)'
      BY <1>10
    <2>2. CASE x = d
      BY <2>1, <2>2, <1>5, <1>6, <1>10, <1>11, <1>13
    <2>3. CASE x # d
      BY <2>1, <2>3, <1>10, <1>12
    <2> QED
      BY <2>2, <2>3
  <1>15. ASSUME NEW k \in LiveKeys \ {old} PROVE k \in LiveKeys'
    <2>1. PICK x \in L : k = CurrentKey(x)
      BY <1>10
    <2>2. CASE x = c
      BY <2>1, <2>2, <1>5, <1>6, <1>10, <1>11
    <2>3. CASE x \in L \ {c, d}
      BY <2>1, <2>3, <1>10, <1>12
    <2>4. x # d
      BY <2>1, <1>5
    <2> QED
      BY <2>1, <2>2, <2>3, <2>4
  <1> QED
    BY <1>1, <1>13, <1>14, <1>15

-----------------------------------------------------------------------------
(***************************************************************************)
(* What a call has done.                                                   *)
(*                                                                         *)
(* A thread that helps with ret = "op" is at its own operation: the one    *)
(* that it has published, or its relocation, which others may decide.      *)
(***************************************************************************)
HelpLabel == ChildLabel \cup MarkLabel \cup RelocLabel
UndecidedLabel == {"reloc_state", "reloc_dest", "reloc_won", "reloc_lost"}

Owner(R, t, l, at) ==
    at \in HelpLabel /\ l.ret = "op" =>
        /\ l.work.op # "SEARCH"
        /\ at \in RelocLabel =>
              /\ l.work.op = "DELETE" /\ l.reloc_op \in DOMAIN R /\ l.reloc_op[1] = t
              /\ R[l.reloc_op].remove_key = l.work.key

(* As long as nothing is decided about its relocation, t is still at it. *)
Minds(R, t, l, at) ==
    \A a \in DOMAIN R : R[a].state = "ONGOING" /\ a[1] = t =>
        at \in UndecidedLabel /\ l.ret = "op" /\ l.reloc_op = a

Owns(t) == Owner(reloc, t, loc[t], pc[t]) /\ Minds(reloc, t, loc[t], pc[t])
OwnersOK == \A t \in Thread : Owns(t)

(* The relocations are decided as they were, unless one has failed. *)
RelocsStand ==
    \A a \in DOMAIN reloc :
        /\ a \in DOMAIN reloc' /\ reloc'[a].remove_key = reloc[a].remove_key
        /\ reloc'[a].state = "SUCCESSFUL" <=> reloc[a].state = "SUCCESSFUL"
        /\ reloc'[a].state = "ONGOING" => reloc[a].state = "ONGOING"

NewMine(t) == \A a \in DOMAIN reloc' \ DOMAIN reloc : a[1] = t

Others(t) == \A u \in Thread \ {t} : pc'[u] = pc[u] /\ loc'[u] = loc[u]

(* An answer without effect is right. *)
Rightly(t) ==
    LET b == loc'[t].answer
        k == loc[t].work.key
    IN  /\ b \in BOOLEAN
        /\ loc[t].work.op = "SEARCH" => (b <=> k \in LiveKeys)
        /\ loc[t].work.op = "INSERT" /\ ~b => k \in LiveKeys
        /\ loc[t].work.op = "DELETE" /\ ~b => k \notin LiveKeys

(* A step of t's call that has no effect. *)
Turns(t) ==
    /\ pc'[t] # "idle" /\ (pc'[t] = "return" => Rightly(t))
    /\ Owns(t)' /\ (Effected(t)' <=> Effected(t))

KeepsSet(t) == LiveKeys' = LiveKeys /\ RelocsStand /\ NewMine(t)

Passes(t) == Turns(t) /\ KeepsSet(t)

SetNow(t, A, G) == TreeNow(t, A, G) /\ OwnersOK

-----------------------------------------------------------------------------
LEMMA SameRelocs ==
    ASSUME NEW t, reloc' = reloc
    PROVE  RelocsStand /\ NewMine(t)
  BY DEF RelocsStand, NewMine

LEMMA KeepsWorkNow ==
    ASSUME Inv, NEW t \in Thread, KeepsWork(t)
    PROVE  loc'[t].work = loc[t].work /\ Others(t)
  <1>1. PICK at, m : Goto(t, at) /\ SetLocals(t, m) /\ m.work = loc[t].work
    BY DEF KeepsWork
  <1> QED
    BY <1>1, OthersStay DEF Others

(* Where the operations of a thread lead. *)
LEMMA GoesTo ==
    ASSUME Inv, NEW t \in Thread, NEW to, NEW m, Goto(t, to), SetLocals(t, m)
    PROVE  pc'[t] = to /\ loc'[t] = m
  BY OthersStay

LEMMA StaysTo ==
    ASSUME Inv, NEW t \in Thread, NEW to, Goto(t, to), loc' = loc
    PROVE  pc'[t] = to /\ loc'[t] = loc[t]
  BY DEF Goto, Inv, TypeOK

LEMMA TurnTo ==
    ASSUME Inv, NEW t \in Thread
    PROVE  /\ RetryFind(t) => pc'[t] = "find"
           /\ Loop(t) => pc'[t] = "find"
           /\ \A b : Answer(t, b) => pc'[t] = "return" /\ loc'[t].answer = b
           /\ \A k \in LocalState : \A o, d, ret : helpChildCAS(t, k, o, d, ret) =>
                 pc'[t] = "child_cas" /\ loc'[t].ret = ret
  <1>1. PICK l : l = loc[t] /\ l \in LocalState
    BY LocalsOf
  <1>2. FindCall(l) \in LocalState /\ Locals(l.work) \in LocalState
    BY <1>1, FindCallType, LocalsWork
  <1>3. RetryFind(t) => pc'[t] = "find"
    BY GoesTo DEF RetryFind
  <1>4. Loop(t) => pc'[t] = "find"
    BY GoesTo DEF Loop
  <1>5. ASSUME NEW b, Answer(t, b) PROVE pc'[t] = "return" /\ loc'[t].answer = b
    <2>1. PICK m : m = [Locals(l.work) EXCEPT !.answer = b]
      OBVIOUS
    <2>2. m.answer = b
      BY <1>2, <2>1 DEF LocalState
    <2> QED
      BY <1>1, <1>5, <2>1, <2>2, GoesTo DEF Answer
  <1>6. ASSUME NEW k \in LocalState, NEW o, NEW d, NEW ret, helpChildCAS(t, k, o, d, ret)
        PROVE  pc'[t] = "child_cas" /\ loc'[t].ret = ret
    <2>1. PICK m : m = [FindCall(k) EXCEPT !.cas_op = o, !.dest = d, !.ret = ret]
      OBVIOUS
    <2>2. m.ret = ret
      BY <2>1, FindCallType DEF LocalState
    <2> QED
      BY <1>6, <2>1, <2>2, GoesTo DEF helpChildCAS
  <1> QED
    BY <1>3, <1>4, <1>5, <1>6

LEMMA TurnToHelp ==
    ASSUME Inv, NEW t \in Thread, NEW l \in LocalState
    PROVE  /\ \A p, o, c, ret : helpMarked(t, l, p, o, c, ret) =>
                 pc'[t] = "mark_left" /\ loc'[t].ret = ret
           /\ \A a, p, o, c, ret : helpRelocate(t, l, a, p, o, c, ret) =>
                 pc'[t] = "reloc_state" /\ loc'[t].ret = ret /\ loc'[t].reloc_op = a
  <1>1. FindCall(l) \in LocalState
    BY FindCallType
  <1>2. ASSUME NEW p, NEW o, NEW c, NEW ret, helpMarked(t, l, p, o, c, ret)
        PROVE  pc'[t] = "mark_left" /\ loc'[t].ret = ret
    <2>1. PICK m : m = [FindCall(l) EXCEPT !.pred = p, !.pred_op = o, !.curr = c, !.ret = ret]
      OBVIOUS
    <2>2. m.ret = ret
      BY <1>1, <2>1 DEF LocalState
    <2> QED
      BY <1>2, <2>1, <2>2, GoesTo DEF helpMarked
  <1>3. ASSUME NEW a, NEW p, NEW o, NEW c, NEW ret, helpRelocate(t, l, a, p, o, c, ret)
        PROVE  pc'[t] = "reloc_state" /\ loc'[t].ret = ret /\ loc'[t].reloc_op = a
    <2>1. PICK m : m = [FindCall(l) EXCEPT !.reloc_op = a, !.pred = p, !.pred_op = o,
                                           !.curr = c, !.ret = ret]
      OBVIOUS
    <2>2. m.ret = ret /\ m.reloc_op = a
      BY <1>1, <2>1 DEF LocalState
    <2> QED
      BY <1>3, <2>1, <2>2, GoesTo DEF helpRelocate
  <1> QED
    BY <1>2, <1>3

-----------------------------------------------------------------------------
(***************************************************************************)
(* The steps of a call, by where they lead.                                *)
(***************************************************************************)
(* At label at, with locals l, a call has had no effect. *)
Plain(l, at) == at \in FindLabel \cup OpLabel \/ (at \in HelpLabel /\ l.ret = "find")

LEMMA PlainIs ==
    ASSUME NEW t, Plain(loc[t], pc[t])
    PROVE  ~Effected(t) /\ (pc[t] \notin UndecidedLabel \/ loc[t].ret # "op")
  BY DEF Plain, Effected, FindLabel, OpLabel, HelpLabel, ChildLabel, MarkLabel, RelocLabel,
         UndecidedLabel

LEMMA PlainNext ==
    ASSUME NEW t, Plain(loc'[t], pc'[t])
    PROVE  ~Effected(t)' /\ pc'[t] \notin {"idle", "return"} /\ Owner(reloc', t, loc'[t], pc'[t])
  BY DEF Plain, Effected, FindLabel, OpLabel, HelpLabel, ChildLabel, MarkLabel, RelocLabel, Owner

(* The relocations stand, and the one that t minds is decided. *)
Standing(t) ==
    /\ RelocsStand /\ DOMAIN reloc' = DOMAIN reloc /\ loc'[t].work = loc[t].work

LEMMA MindsNone ==
    ASSUME NEW t, Owns(t), Standing(t), pc[t] \notin UndecidedLabel \/ loc[t].ret # "op"
    PROVE  Minds(reloc', t, loc'[t], pc'[t])
  BY DEF Owns, Minds, Standing, RelocsStand

LEMMA OwnsNext ==
    ASSUME NEW t, Owner(reloc', t, loc'[t], pc'[t]), Minds(reloc', t, loc'[t], pc'[t])
    PROVE  Owns(t)'
  BY DEF Owns, Owner, Minds

(* The call goes on and has had no effect. *)
LEMMA PlainTurns ==
    ASSUME NEW t, Owns(t), Standing(t), ~Effected(t),
           pc[t] \notin UndecidedLabel \/ loc[t].ret # "op", Plain(loc'[t], pc'[t])
    PROVE  Turns(t)
  BY MindsNone, PlainNext, OwnsNext DEF Turns

(* The call has its answer. *)
LEMMA AnswerTurns ==
    ASSUME NEW t, Owns(t), Standing(t), pc[t] \notin UndecidedLabel \/ loc[t].ret # "op",
           pc'[t] = "return", Rightly(t),
           loc[t].work.op # "SEARCH" /\ loc'[t].answer <=> Effected(t)
    PROVE  Turns(t)
  <1>1. Owner(reloc', t, loc'[t], pc'[t])
    BY DEF Owner, HelpLabel, ChildLabel, MarkLabel, RelocLabel
  <1>2. Effected(t)' <=> Effected(t)
    BY DEF Effected, Standing, ChildLabel, MarkLabel, RelocLabel
  <1> QED
    BY <1>1, <1>2, MindsNone, OwnsNext DEF Turns

(* The call goes on at an operation that it has published, or helps. *)
LEMMA HelpTurns ==
    ASSUME NEW t, Owns(t), Standing(t), pc'[t] \in ChildLabel \cup MarkLabel,
           loc'[t].ret = loc[t].ret, pc[t] \in HelpLabel, pc[t] \notin UndecidedLabel,
           loc[t].ret \in {"find", "op"}, loc[t].ret = "op" => Effected(t)
    PROVE  Turns(t)
  <1>1. CASE loc[t].ret = "find"
    BY <1>1, PlainIs, PlainTurns DEF Plain, HelpLabel
  <1>2. CASE loc[t].ret = "op"
    <2>1. Effected(t) /\ Effected(t)'
      BY <1>2 DEF Effected
    <2>2. pc'[t] \in HelpLabel /\ pc'[t] \notin RelocLabel /\ pc'[t] \notin {"idle", "return"}
      BY DEF HelpLabel, ChildLabel, MarkLabel, RelocLabel
    <2>3. Owner(reloc', t, loc'[t], pc'[t])
      BY <1>2, <2>2 DEF Owner, Owns, Standing
    <2> QED
      BY <2>1, <2>2, <2>3, MindsNone, OwnsNext DEF Turns
  <1> QED
    BY <1>1, <1>2

(* The call goes on in helpRelocate(). *)
LEMMA RelocateTurns ==
    ASSUME NEW t, Owns(t), Standing(t), pc[t] \in RelocLabel, pc'[t] \in RelocLabel,
           loc[t].reloc_op \in DOMAIN reloc,
           loc'[t].ret = loc[t].ret, loc'[t].reloc_op = loc[t].reloc_op,
           reloc'[loc[t].reloc_op].state = "ONGOING" => pc'[t] \in UndecidedLabel
    PROVE  Turns(t)
  <1>1. pc[t] \in HelpLabel /\ pc'[t] \in HelpLabel /\ pc'[t] \notin {"idle", "return"}
    BY DEF HelpLabel, RelocLabel
  <1>2. Owner(reloc', t, loc'[t], pc'[t])
    BY <1>1 DEF Owner, Owns, Standing, RelocsStand
  <1>3. Minds(reloc', t, loc'[t], pc'[t])
    BY DEF Owns, Minds, Standing, RelocsStand
  <1>4. Effected(t)' <=> Effected(t)
    BY DEF Effected, Standing, RelocsStand, RelocLabel, ChildLabel, MarkLabel
  <1> QED
    BY <1>1, <1>2, <1>3, <1>4, OwnsNext DEF Turns

LEMMA HelpedTurns ==
    ASSUME Inv, NEW t \in Thread, Owns(t), Standing(t), Helped(t), pc[t] \in HelpLabel,
           pc[t] \notin UndecidedLabel, loc[t].ret = "op" => Effected(t)
    PROVE  Turns(t)
  <1>1. loc[t].ret \in {"find", "op"}
    BY LocalsOf DEF LocalState
  <1>2. CASE loc[t].ret = "find"
    <2>1. pc'[t] = "find"
      BY <1>2, TurnTo DEF Helped
    <2> QED
      BY <1>2, <2>1, PlainIs, PlainTurns DEF Plain, FindLabel
  <1>3. CASE loc[t].ret = "op"
    <2>1. pc'[t] = "return" /\ loc'[t].answer = TRUE
      BY <1>3, TurnTo DEF Helped
    <2>2. loc[t].work.op # "SEARCH" /\ Effected(t)
      BY <1>3 DEF Owns, Owner
    <2>3. Rightly(t)
      BY <2>1, <2>2 DEF Rightly
    <2> QED
      BY <2>1, <2>2, <2>3, AnswerTurns
  <1> QED
    BY <1>1, <1>2, <1>3

-----------------------------------------------------------------------------
(***************************************************************************)
(* find(): a call that has its answer has seen that it is right.           *)
(***************************************************************************)
LEMMA QuietPasses ==
    ASSUME Inv, NEW t, node' = node, reloc' = reloc, Turns(t)
    PROVE  Passes(t)
  BY QuietSet, SameRelocs DEF Passes, KeepsSet

LEMMA FindPlain ==
    ASSUME Inv, NEW t \in Thread, FindStart(t) \/ FindNext(t) \/ FindVisit(t) \/ FindKey(t)
    PROVE  Plain(loc'[t], pc'[t])
  <1>1. PICK l : l = loc[t] /\ l \in LocalState
    BY LocalsOf
  <1>2. ASSUME pc'[t] \in FindLabel PROVE Plain(loc'[t], pc'[t])
    BY <1>2 DEF Plain
  <1>3. ASSUME pc'[t] \in HelpLabel, loc'[t].ret = "find" PROVE Plain(loc'[t], pc'[t])
    BY <1>3 DEF Plain
  <1>4. CASE FindStart(t)
    <2>1. PICK m : m = [l EXCEPT !.curr = l.auxRoot, !.curr_op = node[l.auxRoot].op,
                                 !.result = "NOTFOUND_R"]
      OBVIOUS
    <2>2. \/ Goto(t, "find_next") /\ SetLocals(t, m)
          \/ helpChildCAS(t, l, UNFLAG(node[l.auxRoot].op), l.auxRoot, "find")
          \/ Loop(t)
      BY <1>1, <1>4, <2>1 DEF FindStart, Abort
    <2>3. \/ pc'[t] = "find_next" \/ pc'[t] = "find"
          \/ pc'[t] = "child_cas" /\ loc'[t].ret = "find"
      BY <1>1, <2>2, GoesTo, TurnTo
    <2> QED
      BY <1>2, <1>3, <2>3 DEF FindLabel, HelpLabel, ChildLabel
  <1>5. CASE FindNext(t)
    <2>1. PICK to \in FindLabel : Goto(t, to) /\ \E m : SetLocals(t, m)
      <3>1. \E m : SetLocals(t, m)
        BY <1>5 DEF FindNext
      <3>2. Goto(t, "find_last_right") \/ Goto(t, "find_visit")
        BY <1>5 DEF FindNext
      <3> QED
        BY <3>1, <3>2 DEF FindLabel
    <2> QED
      BY <1>2, <2>1, GoesTo
  <1>6. CASE FindVisit(t)
    <2>1. PICK c, o : c = l.next.node /\ o = node[c].op
      OBVIOUS
    <2>2. PICK m : m = [l EXCEPT !.pred = l.curr, !.pred_op = l.curr_op, !.curr = c,
                                 !.curr_op = o, !.next = SET_NULL(NoNode)]
      OBVIOUS
    <2>3. c \in Node /\ o.flag \in Flag
      BY <1>1, <1>6, <2>1, LocalsOf, NodeType DEF FindVisit, LocalOK, RefOK, Node, OpPtr
    <2>4. \/ Goto(t, "find_key") /\ SetLocals(t, m)
          \/ helpChildCAS(t, Descended(l), UNFLAG(o), c, "find")
          \/ helpRelocate(t, l, UNFLAG(o), l.curr, l.curr_op, c, "find")
          \/ helpMarked(t, l, l.curr, l.curr_op, c, "find")
      BY <1>1, <1>6, <2>1, <2>2, <2>3 DEF FindVisit, GET_FLAG, Flag
    <2>5. \/ pc'[t] = "find_key"
          \/ pc'[t] \in {"child_cas", "reloc_state", "mark_left"} /\ loc'[t].ret = "find"
      <3>1. Descended(l) \in LocalState
        BY <1>1, <1>6, LocalsOf, DescendedType DEF FindVisit
      <3> QED
        BY <1>1, <2>4, <3>1, GoesTo, TurnTo, TurnToHelp
    <2> QED
      BY <1>2, <1>3, <2>5 DEF FindLabel, HelpLabel, ChildLabel, MarkLabel, RelocLabel
  <1>7. CASE FindKey(t)
    <2>1. PICK to \in FindLabel : Goto(t, to) /\ \E m : SetLocals(t, m)
      <3>1. \E m : SetLocals(t, m)
        BY <1>7 DEF FindKey
      <3>2. Goto(t, "find_curr") \/ Goto(t, "find_next")
        BY <1>7 DEF FindKey
      <3> QED
        BY <3>1, <3>2 DEF FindLabel
    <2> QED
      BY <1>2, <2>1, GoesTo
  <1> QED
    BY <1>4, <1>5, <1>6, <1>7

(* What find() has found when curr has not changed since its op was read.  *)
LEMMA FoundIs ==
    ASSUME NEW t \in Thread, NEW A, NEW G, TreeNow(t, A, G), pc[t] = "find_curr",
           NEW l, l = loc[t], ~CurrChanged(l), l.auxRoot = base_root
    PROVE  (l.work.key \in LiveKeys) <=> l.result = "FOUND"
  <1>1. "find_curr" \in CurrLabel /\ "find_curr" \in FindLabel \ {"find"}
    BY DEF CurrLabel, FindLabel
  <1>2. /\ HeapInv(A, G) /\ l \in LocalState /\ FirstFind(A, G, l, "find_curr")
        /\ Room(A, l, "find_curr") /\ LocalOK(l, "find_curr") /\ l.work.key \in Int
        /\ l.curr \in DOMAIN node /\ l.curr_op.flag = "NONE"
    BY <1>1, FindLocals
  <1>3. Is(l.curr, l.curr_op) /\ node[l.curr].op.flag = "NONE"
    BY <1>2 DEF CurrChanged, Is
  <1>4. CASE l.result = "FOUND"
    <2>1. node[l.curr].key = l.work.key
      BY <1>2, <1>3, <1>4 DEF FirstFind
    <2>2. l.curr \in DOMAIN node \ {base_root}
      BY <1>2, <1>4 DEF LocalOK, Node
    <2> QED
      BY <1>2, <1>3, <1>4, <2>1, <2>2, FoundPresent
  <1>5. CASE l.result # "FOUND"
    <2>1. Vacant(A, l.curr, IsLeft(l), l.work.key) /\ Upper(A, Keys, l.curr, l.work.key)
      BY <1>1, <1>2, <1>3, <1>5 DEF Room, FirstFind
    <2>2. IsLeft(l) \in BOOLEAN
      BY DEF IsLeft
    <2> QED
      BY <1>2, <1>3, <1>5, <2>1, <2>2, VacantAbsent
  <1> QED
    BY <1>4, <1>5

LEMMA FindCurrTurns ==
    ASSUME NEW t \in Thread, NEW A, NEW G, TreeNow(t, A, G), Owns(t), Standing(t), FindCurr(t)
    PROVE  Turns(t)
  <1>1. PICK l : l = loc[t] /\ l \in LocalState /\ Inv
    BY LocalsOf DEF TreeNow, HeapNow
  <1>2. PICK m : m = FoundLocals(l)
    OBVIOUS
  <1>3. l.work.op \in {"INSERT", "SEARCH", "DELETE"}
    BY <1>1 DEF LocalState, Work
  <1>4. pc[t] = "find_curr" /\ ~Effected(t) /\ pc[t] \notin UndecidedLabel
    BY PlainIs DEF FindCurr, Plain, FindLabel, UndecidedLabel
  <1>5. \/ RetryFind(t)
        \/ SetLocals(t, m) /\ (\E at \in {"add_old", "rem_right", "rem_recheck"} : Goto(t, at))
        \/ ~CurrChanged(l) /\ \/ l.work.op = "SEARCH" /\ Answer(t, l.result = "FOUND")
                              \/ l.work.op = "INSERT" /\ l.result = "FOUND" /\ Answer(t, FALSE)
                              \/ /\ l.work.op = "DELETE" /\ l.auxRoot = base_root
                                 /\ l.result # "FOUND" /\ Answer(t, FALSE)
    BY <1>1, <1>2, <1>3 DEF FindCurr, FindReturn, FoundLocals
  <1>6. CASE RetryFind(t)
    BY <1>1, <1>4, <1>6, TurnTo, PlainTurns DEF Plain, FindLabel
  <1>7. CASE SetLocals(t, m) /\ (\E at \in {"add_old", "rem_right", "rem_recheck"} : Goto(t, at))
    BY <1>1, <1>4, <1>7, GoesTo, PlainTurns DEF Plain, OpLabel
  <1>8. ASSUME ~CurrChanged(l), NEW b \in BOOLEAN, Answer(t, b),
               l.work.op # "DELETE" \/ l.auxRoot = base_root,
               l.work.op = "SEARCH" => (b <=> l.result = "FOUND"),
               l.work.op = "INSERT" => ~b /\ l.result = "FOUND",
               l.work.op = "DELETE" => ~b /\ l.result # "FOUND"
        PROVE  Turns(t)
    <2>1. pc'[t] = "return" /\ loc'[t].answer = b
      BY <1>1, <1>8, TurnTo
    <2>2. l.auxRoot = base_root
      <3>1. SecondFind(A, l, "find_curr")
        BY <1>1, <1>4, FindLocals
      <3> QED
        BY <1>8, <3>1 DEF SecondFind
    <2>3. (l.work.key \in LiveKeys) <=> l.result = "FOUND"
      BY <1>1, <1>4, <1>8, <2>2, FoundIs
    <2>4. Rightly(t)
      BY <1>1, <1>8, <2>1, <2>3 DEF Rightly
    <2>5. ~(loc[t].work.op # "SEARCH" /\ loc'[t].answer)
      BY <1>1, <1>3, <1>8, <2>1
    <2> QED
      BY <1>4, <2>1, <2>4, <2>5, AnswerTurns
  <1>9. CASE l.work.op = "SEARCH" /\ ~CurrChanged(l) /\ Answer(t, l.result = "FOUND")
    <2>1. PICK b \in BOOLEAN : b = (l.result = "FOUND")
      OBVIOUS
    <2> QED
      BY <1>9, <1>8, <2>1
  <1>10. CASE ~CurrChanged(l) /\ l.work.op = "INSERT" /\ l.result = "FOUND" /\ Answer(t, FALSE)
    BY <1>10, <1>8
  <1>11. CASE /\ ~CurrChanged(l) /\ l.work.op = "DELETE" /\ l.auxRoot = base_root
              /\ l.result # "FOUND" /\ Answer(t, FALSE)
    BY <1>11, <1>8
  <1> QED
    BY <1>5, <1>6, <1>7, <1>9, <1>10, <1>11

LEMMA FindPasses ==
    ASSUME NEW t \in Thread, NEW A, NEW G, TreeNow(t, A, G), Owns(t), Find(t)
    PROVE  Passes(t)
  <1>1. Inv /\ node' = node /\ reloc' = reloc
    BY DEF TreeNow, HeapNow, Find, FindStart, FindNext, FindVisit, FindKey, FindLastRight,
           FindCurr, heap
  <1>2. Standing(t)
    BY <1>1, FindWork, KeepsWorkNow, SameRelocs DEF Standing
  <1>3. pc[t] \in FindLabel
    BY DEF Find, FindStart, FindNext, FindVisit, FindKey, FindLastRight, FindCurr, FindLabel
  <1>4. ~Effected(t) /\ (pc[t] \notin UndecidedLabel \/ loc[t].ret # "op")
    BY <1>3, PlainIs DEF Plain
  <1>5. CASE FindStart(t) \/ FindNext(t) \/ FindVisit(t) \/ FindKey(t)
    BY <1>1, <1>2, <1>4, <1>5, FindPlain, PlainTurns, QuietPasses
  <1>6. CASE FindLastRight(t)
    <2>1. pc'[t] = "find" \/ pc'[t] = "find_curr"
      BY <1>1, <1>6, TurnTo, StaysTo DEF FindLastRight
    <2> QED
      BY <1>1, <1>2, <1>4, <2>1, PlainTurns, QuietPasses DEF Plain, FindLabel
  <1>7. CASE FindCurr(t)
    BY <1>1, <1>2, <1>7, FindCurrTurns, QuietPasses
  <1> QED
    BY <1>5, <1>6, <1>7 DEF Find

-----------------------------------------------------------------------------
(***************************************************************************)
(* add() and remove(): their calls have an effect, or none yet.            *)
(***************************************************************************)
Works(u) == pc[u] \notin {"idle", "return"}

SetChange(u) ==
    LET k == loc[u].work.key
    IN  \/ loc[u].work.op = "INSERT" /\ k \notin LiveKeys /\ LiveKeys' = LiveKeys \cup {k}
        \/ loc[u].work.op = "DELETE" /\ k \in LiveKeys /\ LiveKeys' = LiveKeys \ {k}

(* The call of u has its effect. *)
Acts(u) == Works(u) /\ Works(u)' /\ ~Effected(u) /\ Effected(u)' /\ SetChange(u)

(* The call of t has its effect in a step of its own. *)
TakesEffect(t) == Acts(t) /\ Owns(t)' /\ RelocsStand /\ NewMine(t)

LEMMA OpPlain ==
    ASSUME NEW t, pc[t] \in OpLabel
    PROVE  ~Effected(t) /\ pc[t] \notin UndecidedLabel /\ Works(t)
  <1>1. Plain(loc[t], pc[t])
    BY DEF Plain
  <1> QED
    BY <1>1, PlainIs DEF Works, OpLabel, UndecidedLabel

(* The call reads on, or starts over. *)
LEMMA ReadPasses ==
    ASSUME Inv, NEW t \in Thread, Owns(t), KeepsWork(t), node' = node, reloc' = reloc,
           pc[t] \in OpLabel, pc'[t] \in FindLabel \cup OpLabel
    PROVE  Passes(t)
  <1>1. Standing(t)
    BY KeepsWorkNow, SameRelocs DEF Standing
  <1>2. Plain(loc'[t], pc'[t])
    BY DEF Plain
  <1> QED
    BY <1>1, <1>2, OpPlain, PlainTurns, QuietPasses

LEMMA OpReads ==
    ASSUME Inv, NEW t \in Thread, Owns(t),
           \/ AddReadOld(t) \/ RemoveReadRight(t) \/ RemoveReadLeft(t) \/ RemoveRecheck(t)
           \/ RemoveReadKey(t)
    PROVE  Passes(t)
  <1>1. node' = node /\ reloc' = reloc
    BY DEF AddReadOld, RemoveReadRight, RemoveReadLeft, RemoveRecheck, RemoveReadKey, heap
  <1>2. KeepsWork(t)
    BY AddRemoveWork DEF Add, Remove
  <1>3. pc[t] \in OpLabel
    BY DEF AddReadOld, RemoveReadRight, RemoveReadLeft, RemoveRecheck, RemoveReadKey, OpLabel
  <1>4. pc'[t] \in FindLabel \cup OpLabel
    <2>1. CASE AddReadOld(t)
      <3>1. Goto(t, "add_cas") /\ \E m : SetLocals(t, m)
        BY <2>1 DEF AddReadOld
      <3> QED
        BY <3>1, GoesTo DEF OpLabel
    <2>2. CASE RemoveReadRight(t)
      <3>1. (Goto(t, "rem_mark") \/ Goto(t, "rem_left")) /\ loc' = loc
        BY <2>2 DEF RemoveReadRight
      <3> QED
        BY <3>1, StaysTo DEF OpLabel
    <2>3. CASE RemoveReadLeft(t)
      <3>1. \/ Goto(t, "rem_mark") /\ loc' = loc
            \/ Goto(t, "find") /\ \E m : SetLocals(t, m)
        BY <2>3 DEF RemoveReadLeft
      <3> QED
        BY <3>1, GoesTo, StaysTo DEF OpLabel, FindLabel
    <2>4. CASE RemoveRecheck(t)
      <3>1. Loop(t) \/ (Goto(t, "rem_key") /\ loc' = loc)
        BY <2>4 DEF RemoveRecheck
      <3> QED
        BY <3>1, TurnTo, StaysTo DEF OpLabel, FindLabel
    <2>5. CASE RemoveReadKey(t)
      <3>1. Goto(t, "rem_reloc") /\ \E m : SetLocals(t, m)
        BY <2>5 DEF RemoveReadKey
      <3> QED
        BY <3>1, GoesTo DEF OpLabel
    <2> QED
      BY <2>1, <2>2, <2>3, <2>4, <2>5
  <1> QED
    BY <1>1, <1>2, <1>3, <1>4, ReadPasses

(* The call has published its operation, or marked its node. *)
LEMMA TakesBy ==
    ASSUME Inv, NEW t \in Thread, Owns(t), KeepsWork(t), pc[t] \in OpLabel, reloc' = reloc,
           pc'[t] \in ChildLabel \cup MarkLabel, loc'[t].ret = "op", SetChange(t)
    PROVE  TakesEffect(t)
  <1>1. Standing(t) /\ RelocsStand /\ NewMine(t)
    BY KeepsWorkNow, SameRelocs DEF Standing
  <1>2. pc'[t] \notin RelocLabel /\ pc'[t] \notin {"idle", "return"}
    BY DEF ChildLabel, MarkLabel, RelocLabel
  <1>3. loc'[t].work.op # "SEARCH"
    BY <1>1 DEF SetChange, Standing
  <1>4. Owner(reloc', t, loc'[t], pc'[t])
    BY <1>2, <1>3 DEF Owner
  <1>5. Owns(t)'
    BY <1>1, <1>4, OpPlain, MindsNone, OwnsNext
  <1> QED
    BY <1>1, <1>2, <1>5, OpPlain DEF TakesEffect, Acts, Works, Effected

LEMMA AddPublishTakes ==
    ASSUME NEW t \in Thread, NEW A, NEW G, TreeNow(t, A, G), Owns(t), AddPublish(t)
    PROVE  Passes(t) \/ TakesEffect(t)
  <1>1. PICK l, a : l = loc[t] /\ a = <<t, blocks[t]>>
    OBVIOUS
  <1>2. /\ pc[t] = "add_cas" /\ reloc' = reloc /\ pc[t] \in OpLabel /\ Inv /\ OpsInv
        /\ HeapInv(A, G) /\ KeepsWork(t)
    BY AddRemoveWork DEF AddPublish, Add, OpLabel, TreeNow, HeapNow
  <1>3. "add_cas" \in CurrLabel
    BY DEF CurrLabel, OpLabel
  <1>4. /\ l \in LocalState /\ FirstFind(A, G, l, "add_cas") /\ OpsFind(A, G, l, "add_cas")
        /\ Room(A, l, "add_cas") /\ l.curr \in DOMAIN node /\ l.curr_op.flag = "NONE"
        /\ l.work.key \in Int
    BY <1>1, <1>2, <1>3, FindLocals
  <1>5. CASE ~Matches(l.curr, l.curr_op)
    <2>1. node' = node /\ Loop(t)
      BY <1>1, <1>5 DEF AddPublish
    <2>2. pc'[t] \in FindLabel
      BY <1>2, <2>1, TurnTo DEF FindLabel
    <2> QED
      BY <1>2, <2>1, <2>2, ReadPasses
  <1>6. CASE Matches(l.curr, l.curr_op)
    <2>1. PICK s : s = l.is_left
      OBVIOUS
    <2>2. Is(l.curr, l.curr_op) /\ node[l.curr].op.flag = "NONE" /\ s \in BOOLEAN
      BY <1>4, <1>6, <2>1 DEF Matches, Is, LocalState
    <2>3. /\ Vacant(A, l.curr, s, l.work.key) /\ Upper(A, Keys, l.curr, l.work.key)
      BY <1>4, <2>1, <2>2 DEF Room, FirstFind
    <2>4. a \notin DOMAIN node /\ a \notin DOMAIN cas /\ a # base_root
      BY <1>1, <1>2, NewBlock DEF Inv, PointersOK, HeapOK, BaseRootOp
    <2>5. SET_FLAG(OpAt(a), "CHILDCAS") = Flagged("CHILDCAS", a)
      BY OpFlags DEF Flag
    <2>6. /\ node' = [Store(node, a, create_LF_node(l.work.key))
                         EXCEPT ![l.curr].op = Flagged("CHILDCAS", a)]
          /\ \E o : cas' = Store(cas, a, o)
          /\ helpChildCAS(t, l, a, l.curr, "op")
      BY <1>1, <1>6, <2>5 DEF AddPublish
    <2>7. Extends
      BY <1>2, <2>4, <2>6 DEF Extends, Store
    <2>8. LiveKeys' = LiveKeys \cup {l.work.key}
      BY <1>2, <1>4, <2>2, <2>4, <2>6, <2>7, InsertSet
    <2>9. l.work.key \notin LiveKeys
      BY <1>2, <1>4, <2>2, <2>3, VacantAbsent
    <2>10. l.work.op = "INSERT"
      BY <1>4 DEF OpsFind
    <2>11. SetChange(t)
      BY <1>1, <2>8, <2>9, <2>10 DEF SetChange
    <2>12. pc'[t] \in ChildLabel /\ loc'[t].ret = "op"
      BY <1>2, <1>4, <2>6, TurnTo DEF ChildLabel
    <2> QED
      BY <1>2, <2>11, <2>12, TakesBy
  <1> QED
    BY <1>5, <1>6

LEMMA RemoveMarkTakes ==
    ASSUME NEW t \in Thread, NEW A, NEW G, TreeNow(t, A, G), Owns(t), RemoveMark(t)
    PROVE  Passes(t) \/ TakesEffect(t)
  <1>1. PICK l, w : l = loc[t] /\ w = SET_FLAG(l.curr_op, "MARK")
    OBVIOUS
  <1>2. /\ pc[t] = "rem_mark" /\ cas' = cas /\ reloc' = reloc
        /\ CASOp(l.curr, l.curr_op, w)
    BY <1>1 DEF RemoveMark
  <1>3. "rem_mark" \in CurrLabel /\ pc[t] \in OpLabel /\ Inv /\ HeapInv(A, G) /\ KeepsWork(t)
    BY <1>2, AddRemoveWork DEF CurrLabel, OpLabel, TreeNow, HeapNow, Remove
  <1>4. /\ OpsFind(A, G, l, "rem_mark") /\ LocalOK(l, "rem_mark") /\ l \in LocalState
        /\ l.curr \in DOMAIN node /\ l.curr_op.flag = "NONE"
    BY <1>1, <1>2, <1>3, FindLocals
  <1>5. CASE ~Matches(l.curr, l.curr_op)
    <2>1. node' = node /\ Loop(t)
      BY <1>1, <1>2, <1>5, CASOpMissed DEF RemoveMark
    <2>2. pc'[t] \in FindLabel
      BY <1>3, <2>1, TurnTo DEF FindLabel
    <2> QED
      BY <1>2, <1>3, <2>1, <2>2, ReadPasses
  <1>6. CASE Matches(l.curr, l.curr_op)
    <2>1. l.curr_op \in OpPtr /\ node[l.curr].op.flag = "NONE" /\ Is(l.curr, l.curr_op)
      BY <1>4, <1>6 DEF LocalState, Matches, Is
    <2>2. w.flag = "MARK" /\ w # l.curr_op
      BY <1>1, <1>4, <2>1, SetFlagType DEF Flag
    <2>3. OpChange(l.curr, w) /\ DOMAIN node' = DOMAIN node
      BY <1>2, <1>3, <1>4, <1>6, <2>2, CASOpMatched
    <2>4. Extends
      BY <1>2 DEF Extends
    <2>5. l.curr \in DOMAIN node \ {base_root} /\ l.work.op = "DELETE" /\ node[l.curr].key = l.work.key
      BY <1>4, <2>1 DEF LocalOK, Node, OpsFind, OpLabel
    <2>6. SetChange(t)
      BY <1>1, <1>3, <2>1, <2>2, <2>3, <2>4, <2>5, MarkSet DEF SetChange
    <2>7. Locals(l.work) \in LocalState
      BY <1>4, LocalsWork
    <2>8. helpMarked(t, Locals(l.work), l.pred, l.pred_op, l.curr, "op")
      BY <1>1, <1>6 DEF RemoveMark
    <2>9. pc'[t] \in MarkLabel /\ loc'[t].ret = "op"
      BY <1>3, <2>7, <2>8, TurnToHelp DEF MarkLabel
    <2> QED
      BY <1>2, <1>3, <2>6, <2>9, TakesBy
  <1> QED
    BY <1>5, <1>6

LEMMA RemovePublishPasses ==
    ASSUME NEW t \in Thread, NEW A, NEW G, TreeNow(t, A, G), ~ReusesBlocks, Owns(t),
           RemovePublish(t)
    PROVE  Passes(t)
  <1>1. PICK l, a : l = loc[t] /\ a = <<t, blocks[t]>>
    OBVIOUS
  <1>2. RelocAddr(t) = a
    BY <1>1 DEF RelocAddr, Recycled
  <1>3. /\ pc[t] = "rem_reloc" /\ cas' = cas
        /\ CASOp(l.curr, l.curr_op, SET_FLAG(OpAt(a), "RELOCATE"))
    BY <1>1, <1>2 DEF RemovePublish
  <1>4. "rem_reloc" \in CurrLabel /\ pc[t] \in OpLabel /\ Inv /\ OpsInv /\ KeepsWork(t)
    BY <1>3, AddRemoveWork DEF CurrLabel, OpLabel, TreeNow, HeapNow, Remove
  <1>5. /\ SecondFind(A, l, "rem_reloc") /\ LocalOK(l, "rem_reloc") /\ l \in LocalState
        /\ l.curr \in DOMAIN node /\ l.curr_op.flag = "NONE"
    BY <1>1, <1>3, <1>4, FindLocals
  <1>6. CASE ~Matches(l.curr, l.curr_op)
    <2>1. node' = node /\ reloc' = reloc /\ Loop(t)
      BY <1>1, <1>3, <1>6, CASOpMissed DEF RemovePublish
    <2>2. pc'[t] \in FindLabel
      BY <1>4, <2>1, TurnTo DEF FindLabel
    <2> QED
      BY <1>4, <2>1, <2>2, ReadPasses
  <1>7. CASE Matches(l.curr, l.curr_op)
    <2>1. node[l.curr].op.flag = "NONE" /\ l.auxRoot # base_root
      BY <1>5, <1>7 DEF Matches, LocalOK, Node
    <2>2. PICK r : r = [state |-> "ONGOING", dest |-> l.auxRoot, dest_op |-> l.auxRoot_op,
                        remove_key |-> l.work.key, replace_key |-> l.replace_key]
      OBVIOUS
    <2>3. r.state = "ONGOING" /\ r.remove_key = l.work.key
      BY <2>2
    <2>4. a \notin DOMAIN reloc /\ a[1] = t
      BY <1>1, <1>4, NewBlock
    <2>5. SET_FLAG(OpAt(a), "RELOCATE") = ToDest(a)
      BY OpFlags DEF Flag, ToDest
    <2>6. node' = [node EXCEPT ![l.curr].op = ToDest(a)]
      BY <1>3, <1>7, <2>5 DEF CASOp
    <2>7. /\ reloc' = Store(reloc, a, r)
          /\ helpRelocate(t, Locals(l.work), a, l.pred, l.pred_op, l.curr, "op")
      BY <1>1, <1>2, <1>7, <2>2 DEF RemovePublish
    <2>8. LiveKeys' = LiveKeys
      BY <1>3, <1>4, <1>5, <2>1, <2>3, <2>4, <2>6, <2>7, RelocateSet
    <2>9. /\ DOMAIN reloc' = DOMAIN reloc \cup {a} /\ reloc'[a] = r
          /\ \A b \in DOMAIN reloc : reloc'[b] = reloc[b]
      BY <2>4, <2>7 DEF Store
    <2>10. RelocsStand /\ NewMine(t)
      BY <2>4, <2>9 DEF RelocsStand, NewMine
    <2>11. Locals(l.work) \in LocalState
      BY <1>5, LocalsWork
    <2>12. pc'[t] = "reloc_state" /\ loc'[t].ret = "op" /\ loc'[t].reloc_op = a
      BY <1>4, <2>7, <2>11, TurnToHelp
    <2>13. loc'[t].work = l.work
      BY <1>1, <1>4, KeepsWorkNow
    <2>14. l.work.op = "DELETE"
      BY <1>5, <2>1 DEF SecondFind
    <2>15. Owner(reloc', t, loc'[t], pc'[t])
      BY <2>3, <2>4, <2>9, <2>12, <2>13, <2>14 DEF Owner
    <2>16. Minds(reloc', t, loc'[t], pc'[t])
      BY <1>4, <2>9, <2>12, OpPlain DEF Minds, Owns, UndecidedLabel
    <2>17. ~Effected(t)' /\ ~Effected(t)
      <3>1. ~Effected(t)
        BY <1>4, OpPlain
      <3>2. ~Effected(t)'
        BY <2>3, <2>9, <2>12 DEF Effected, ChildLabel, MarkLabel
      <3> QED
        BY <3>1, <3>2
    <2> QED
      BY <2>8, <2>10, <2>12, <2>15, <2>16, <2>17, OwnsNext DEF Passes, Turns, KeepsSet
  <1> QED
    BY <1>6, <1>7

LEMMA AddRemoveDoes ==
    ASSUME NEW t \in Thread, NEW A, NEW G, TreeNow(t, A, G), ~ReusesBlocks, Owns(t),
           Add(t) \/ Remove(t)
    PROVE  Passes(t) \/ TakesEffect(t)
  BY OpReads, AddPublishTakes, RemoveMarkTakes, RemovePublishPasses DEF Add, Remove, TreeNow, HeapNow

-----------------------------------------------------------------------------
(***************************************************************************)
(* helpChildCAS() and helpMarked(): the set stays as it is.                *)
(***************************************************************************)
LEMMA HelperIs ==
    ASSUME Inv, NEW t \in Thread, pc[t] \in ChildLabel \cup MarkLabel
    PROVE  /\ pc[t] \in HelpLabel /\ pc[t] \notin UndecidedLabel
           /\ loc[t].ret \in {"find", "op"} /\ (loc[t].ret = "op" => Effected(t))
  <1>1. loc[t].ret \in {"find", "op"}
    BY LocalsOf DEF LocalState
  <1>2. pc[t] \in HelpLabel /\ pc[t] \notin UndecidedLabel
    BY DEF HelpLabel, UndecidedLabel, ChildLabel, MarkLabel
  <1> QED
    BY <1>1, <1>2 DEF Effected

(* The helper goes on, or is done. *)
LEMMA HelperPasses ==
    ASSUME Inv, NEW t \in Thread, Owns(t), KeepsWork(t), reloc' = reloc, LiveKeys' = LiveKeys,
           pc[t] \in ChildLabel \cup MarkLabel,
           \/ Helped(t)
           \/ pc'[t] \in ChildLabel \cup MarkLabel /\ loc'[t].ret = loc[t].ret
    PROVE  Passes(t)
  <1>1. Standing(t) /\ RelocsStand /\ NewMine(t)
    BY KeepsWorkNow, SameRelocs DEF Standing
  <1>2. Turns(t)
    BY <1>1, HelperIs, HelpTurns, HelpedTurns
  <1> QED
    BY <1>1, <1>2 DEF Passes, KeepsSet

LEMMA HelpChildCASPasses ==
    ASSUME NEW t \in Thread, NEW A, NEW G, TreeNow(t, A, G), Owns(t), HelpChildCAS(t)
    PROVE  Passes(t)
  <1>1. PICK l : l = loc[t]
    OBVIOUS
  <1>2. Inv /\ KeepsWork(t)
    BY HelpWork DEF TreeNow, HeapNow
  <1>3. CASE HelpChildCASSwing(t)
    <2>1. /\ pc[t] = "child_cas" /\ reloc' = reloc /\ loc' = loc
          /\ Goto(t, "child_clear") /\ CASChild(l.dest, cas[l.cas_op])
      BY <1>1, <1>3 DEF HelpChildCASSwing
    <2>2. pc[t] \in ChildLabel /\ LocalOK(l, pc[t])
      BY <1>1, <2>1, FindLocals DEF ChildLabel
    <2>3. l.dest \in DOMAIN node
      BY <2>2 DEF LocalOK
    <2>4. LiveKeys' = LiveKeys
      BY <1>2, <2>1, <2>3, SwingSet
    <2>5. pc'[t] \in ChildLabel /\ loc'[t].ret = loc[t].ret
      BY <1>2, <2>1, StaysTo DEF ChildLabel
    <2> QED
      BY <1>2, <2>1, <2>2, <2>4, <2>5, HelperPasses
  <1>4. CASE HelpChildCASClear(t)
    <2>1. /\ pc[t] = "child_clear" /\ cas' = cas /\ reloc' = reloc /\ Helped(t)
          /\ ClearOp(l.dest, l.cas_op, "CHILDCAS")
      BY <1>1, <1>4 DEF HelpChildCASClear
    <2>2. pc[t] \in ChildLabel /\ LocalOK(l, pc[t])
      BY <1>1, <2>1, FindLocals DEF ChildLabel
    <2>3. l.dest \in DOMAIN node
      BY <2>2 DEF LocalOK
    <2>4. LiveKeys' = LiveKeys
      BY <1>2, <2>1, <2>3, ClearSet
    <2> QED
      BY <1>2, <2>1, <2>2, <2>4, HelperPasses
  <1> QED
    BY <1>3, <1>4 DEF HelpChildCAS

LEMMA HelpMarkedReads ==
    ASSUME Inv, NEW t \in Thread,
           HelpMarkedTestLeft(t) \/ HelpMarkedTestRight(t) \/ HelpMarkedTake(t) \/ HelpMarkedSide(t)
    PROVE  /\ node' = node /\ reloc' = reloc /\ pc[t] \in MarkLabel /\ pc'[t] \in MarkLabel
           /\ loc'[t].ret = loc[t].ret
  <1>1. PICK l : l = loc[t] /\ l \in LocalState
    BY LocalsOf
  <1>2. /\ \A x : [l EXCEPT !.new_ref = x].ret = l.ret
        /\ \A x : [l EXCEPT !.is_left = x].ret = l.ret
    BY <1>1 DEF LocalState
  <1>3. node' = node /\ reloc' = reloc /\ pc[t] \in MarkLabel
    BY DEF HelpMarkedTestLeft, HelpMarkedTestRight, HelpMarkedTake, HelpMarkedSide, MarkLabel, heap
  <1>4. CASE HelpMarkedTestLeft(t)
    <2>1. PICK at : at \in MarkLabel /\ Goto(t, at) /\ loc' = loc
      BY <1>4 DEF HelpMarkedTestLeft, MarkLabel
    <2> QED
      BY <1>3, <2>1, StaysTo
  <1>5. CASE HelpMarkedTestRight(t)
    <2>1. CASE IS_NULL(node[l.curr].right)
      <3>1. PICK m : m = [l EXCEPT !.new_ref = SET_NULL(l.curr)]
        OBVIOUS
      <3>2. Goto(t, "mark_side") /\ SetLocals(t, m)
        BY <1>1, <1>5, <2>1, <3>1 DEF HelpMarkedTestRight
      <3>3. pc'[t] = "mark_side" /\ loc'[t] = m
        BY <3>2, GoesTo
      <3> QED
        BY <1>1, <1>2, <1>3, <3>1, <3>3 DEF MarkLabel
    <2>2. CASE ~IS_NULL(node[l.curr].right)
      <3>1. Goto(t, "mark_take_right") /\ loc' = loc
        BY <1>1, <1>5, <2>2 DEF HelpMarkedTestRight
      <3>2. pc'[t] = "mark_take_right" /\ loc'[t] = loc[t]
        BY <3>1, StaysTo
      <3> QED
        BY <1>3, <3>2 DEF MarkLabel
    <2> QED
      BY <2>1, <2>2
  <1>6. CASE HelpMarkedTake(t)
    <2>1. PICK m : m = [l EXCEPT !.new_ref = ChildOf(node[l.curr], pc[t] = "mark_take_left")]
      OBVIOUS
    <2>2. Goto(t, "mark_side") /\ SetLocals(t, m)
      BY <1>1, <1>6, <2>1 DEF HelpMarkedTake
    <2>3. pc'[t] = "mark_side" /\ loc'[t] = m
      BY <2>2, GoesTo
    <2> QED
      BY <1>1, <1>2, <1>3, <2>1, <2>3 DEF MarkLabel
  <1>7. CASE HelpMarkedSide(t)
    <2>1. PICK m : m = [l EXCEPT !.is_left = (node[l.pred].left = NodeAt(l.curr))]
      OBVIOUS
    <2>2. Goto(t, "mark_cas") /\ SetLocals(t, m)
      BY <1>1, <1>7, <2>1 DEF HelpMarkedSide
    <2>3. pc'[t] = "mark_cas" /\ loc'[t] = m
      BY <2>2, GoesTo
    <2> QED
      BY <1>1, <1>2, <1>3, <2>1, <2>3 DEF MarkLabel
  <1> QED
    BY <1>4, <1>5, <1>6, <1>7

LEMMA HelpMarkedPublishPasses ==
    ASSUME NEW t \in Thread, NEW A, NEW G, TreeNow(t, A, G), Owns(t), HelpMarkedPublish(t)
    PROVE  Passes(t)
  <1>1. PICK l, a, w : l = loc[t] /\ a = <<t, blocks[t]>> /\ w = Flagged("CHILDCAS", a)
    OBVIOUS
  <1>2. SET_FLAG(OpAt(a), "CHILDCAS") = w
    BY <1>1, OpFlags DEF Flag
  <1>3. /\ pc[t] = "mark_cas" /\ reloc' = reloc /\ CASOp(l.pred, l.pred_op, w)
        /\ Inv /\ OpsInv /\ KeepsWork(t) /\ pc[t] \in MarkLabel
    BY <1>1, <1>2, HelpWork DEF HelpMarkedPublish, HelpMarked, TreeNow, HeapNow, MarkLabel
  <1>4. l \in LocalState /\ LocalOK(l, "mark_cas") /\ l.pred_op.flag = "NONE"
    BY <1>1, <1>3, FindLocals
  <1>5. CASE ~Matches(l.pred, l.pred_op)
    <2>1. node' = node /\ Helped(t)
      BY <1>1, <1>3, <1>5, CASOpMissed DEF HelpMarkedPublish
    <2>2. LiveKeys' = LiveKeys
      BY <1>3, <2>1, QuietSet
    <2> QED
      BY <1>3, <2>1, <2>2, HelperPasses
  <1>6. CASE Matches(l.pred, l.pred_op)
    <2>1. l.pred \in DOMAIN node /\ node[l.pred].op.flag = "NONE"
      BY <1>4, <1>6 DEF LocalOK, MarkLabel, Matches
    <2>2. a \notin DOMAIN cas
      BY <1>1, <1>3, NewBlock
    <2>3. /\ node' = [node EXCEPT ![l.pred].op = Flagged("CHILDCAS", a)]
          /\ helpChildCAS(t, l, a, l.pred, l.ret)
      BY <1>1, <1>3, <1>6 DEF HelpMarkedPublish, CASOp
    <2>4. PICK o : cas' = Store(cas, a, o)
      BY <1>1, <1>6 DEF HelpMarkedPublish
    <2>5. LiveKeys' = LiveKeys
      BY <1>3, <2>1, <2>2, <2>3, <2>4, UnlinkSet
    <2>6. pc'[t] \in ChildLabel /\ loc'[t].ret = loc[t].ret
      BY <1>1, <1>3, <2>3, LocalsOf, TurnTo DEF ChildLabel
    <2> QED
      BY <1>3, <2>5, <2>6, HelperPasses
  <1> QED
    BY <1>5, <1>6

LEMMA HelpMarkedPasses ==
    ASSUME NEW t \in Thread, NEW A, NEW G, TreeNow(t, A, G), Owns(t), HelpMarked(t)
    PROVE  Passes(t)
  <1>1. Inv /\ KeepsWork(t)
    BY HelpWork DEF TreeNow, HeapNow
  <1>2. CASE HelpMarkedPublish(t)
    BY <1>2, HelpMarkedPublishPasses
  <1>3. CASE HelpMarkedTestLeft(t) \/ HelpMarkedTestRight(t) \/ HelpMarkedTake(t) \/ HelpMarkedSide(t)
    <2>1. /\ node' = node /\ reloc' = reloc /\ pc[t] \in MarkLabel /\ pc'[t] \in MarkLabel
          /\ loc'[t].ret = loc[t].ret
      BY <1>1, <1>3, HelpMarkedReads
    <2>2. LiveKeys' = LiveKeys
      BY <1>1, <2>1, QuietSet
    <2> QED
      BY <1>1, <2>1, <2>2, HelperPasses
  <1> QED
    BY <1>2, <1>3 DEF HelpMarked

-----------------------------------------------------------------------------
(***************************************************************************)
(* helpRelocate(): the set stays as it is, unless the relocation succeeds. *)
(***************************************************************************)
LEMMA RelocatePasses ==
    ASSUME Inv, NEW t \in Thread, Owns(t), KeepsWork(t), reloc' = reloc, LiveKeys' = LiveKeys,
           pc[t] \in RelocLabel, pc'[t] \in RelocLabel, loc[t].reloc_op \in DOMAIN reloc,
           loc'[t].ret = loc[t].ret, loc'[t].reloc_op = loc[t].reloc_op,
           reloc[loc[t].reloc_op].state = "ONGOING" => pc'[t] \in UndecidedLabel
    PROVE  Passes(t)
  <1>1. Standing(t) /\ RelocsStand /\ NewMine(t)
    BY KeepsWorkNow, SameRelocs DEF Standing
  <1>2. Turns(t)
    BY <1>1, RelocateTurns
  <1> QED
    BY <1>1, <1>2 DEF Passes, KeepsSet

LEMMA SeenKept ==
    ASSUME NEW l \in LocalState, NEW s
    PROVE  /\ [l EXCEPT !.seen_state = s].ret = l.ret
           /\ [l EXCEPT !.seen_state = s].reloc_op = l.reloc_op
  BY DEF LocalState

LEMMA HelpRelocateStatePasses ==
    ASSUME NEW t \in Thread, NEW A, NEW G, TreeNow(t, A, G), Owns(t), HelpRelocateState(t)
    PROVE  Passes(t)
  <1>1. PICK l, a, s : l = loc[t] /\ a = l.reloc_op /\ s = reloc[a].state
    OBVIOUS
  <1>2. PICK m : m = [l EXCEPT !.seen_state = s]
    OBVIOUS
  <1>3. /\ pc[t] \in RelocLabel /\ node' = node /\ reloc' = reloc
        /\ Goto(t, AfterState(s)) /\ SetLocals(t, m) /\ Inv /\ KeepsWork(t)
    BY <1>1, <1>2, HelpWork DEF HelpRelocateState, HelpRelocate, RelocLabel, heap, TreeNow, HeapNow
  <1>4. l \in LocalState /\ a \in DOMAIN reloc /\ s \in {"ONGOING", "SUCCESSFUL", "FAILED"}
    BY <1>1, <1>3, RelocHelper
  <1>5. pc'[t] = AfterState(s) /\ loc'[t].ret = l.ret /\ loc'[t].reloc_op = a
    <2>1. pc'[t] = AfterState(s) /\ loc'[t] = m
      BY <1>3, GoesTo
    <2> QED
      BY <1>1, <1>2, <1>4, <2>1, SeenKept
  <1>6. AfterState(s) \in RelocLabel /\ (s = "ONGOING" => AfterState(s) \in UndecidedLabel)
    <2>1. CASE s = "ONGOING"
      BY <2>1 DEF AfterState, RelocLabel, UndecidedLabel
    <2>2. CASE s = "SUCCESSFUL"
      BY <2>2 DEF AfterState, RelocLabel
    <2>3. CASE s = "FAILED"
      BY <2>3 DEF AfterState, RelocLabel
    <2> QED
      BY <1>4, <2>1, <2>2, <2>3
  <1>7. LiveKeys' = LiveKeys
    BY <1>3, QuietSet
  <1> QED
    BY <1>1, <1>3, <1>4, <1>5, <1>6, <1>7, RelocatePasses

LEMMA HelpRelocateDestPasses ==
    ASSUME NEW t \in Thread, NEW A, NEW G, TreeNow(t, A, G), Owns(t), HelpRelocateDest(t)
    PROVE  Passes(t)
  <1>1. PICK l, a, d : l = loc[t] /\ a = l.reloc_op /\ d = reloc[a].dest
    OBVIOUS
  <1>2. SET_FLAG(OpAt(a), "RELOCATE") = ToDest(a)
    BY OpFlags DEF Flag, ToDest
  <1>3. /\ pc[t] \in RelocLabel /\ cas' = cas /\ reloc' = reloc /\ loc' = loc
        /\ CASOp(d, reloc[a].dest_op, ToDest(a)) /\ HeapNow(A, G) /\ Inv /\ StepsSoundly
        /\ KeepsWork(t)
    BY <1>1, <1>2, HelpWork DEF HelpRelocateDest, HelpRelocate, RelocLabel, TreeNow, HeapNow
  <1>4. /\ a \in DOMAIN reloc /\ d \in DOMAIN node /\ reloc[a].dest_op.flag = "NONE" /\ DestKey(a)
    BY <1>1, <1>3, RelocHelper
  <1>5. LiveKeys' = LiveKeys
    BY <1>1, <1>3, <1>4, InstallSet
  <1>6. PICK to : to \in {"reloc_won", "reloc_lost"} /\ Goto(t, to)
    BY <1>1 DEF HelpRelocateDest
  <1>7. pc'[t] = to /\ loc'[t] = loc[t]
    BY <1>3, <1>6, StaysTo
  <1>8. pc'[t] \in RelocLabel /\ pc'[t] \in UndecidedLabel
    BY <1>6, <1>7 DEF RelocLabel, UndecidedLabel
  <1> QED
    BY <1>1, <1>3, <1>4, <1>5, <1>7, <1>8, RelocatePasses

LEMMA HelpRelocateKeyClearPasses ==
    ASSUME NEW t \in Thread, NEW A, NEW G, TreeNow(t, A, G), Owns(t),
           HelpRelocateKey(t) \/ HelpRelocateClear(t)
    PROVE  Passes(t)
  <1>1. PICK l, a, d : l = loc[t] /\ a = l.reloc_op /\ d = reloc[a].dest
    OBVIOUS
  <1>2. /\ pc[t] \in {"reloc_key", "reloc_clear"} /\ cas' = cas /\ reloc' = reloc /\ loc' = loc
        /\ Inv /\ OpsInv /\ KeepsWork(t)
        /\ \E to \in {"reloc_clear", "reloc_curr"} : Goto(t, to)
    BY HelpWork DEF HelpRelocateKey, HelpRelocateClear, HelpRelocate, TreeNow, HeapNow
  <1>3. pc[t] \in RelocLabel
    BY <1>2 DEF RelocLabel
  <1>4. /\ a \in DOMAIN reloc /\ d \in DOMAIN node /\ Knows(node, past, reloc, l, pc[t])
        /\ RelocOutcome(l, pc[t]) /\ DestKey(a)
        /\ reloc[a].remove_key \in Int /\ reloc[a].replace_key \in Int
    BY <1>1, <1>3, RelocHelper
  <1>5. reloc[a].state = "SUCCESSFUL"
    BY <1>1, <1>2, <1>4 DEF Knows
  <1>6. LiveKeys' = LiveKeys
    <2>1. CASE HelpRelocateKey(t)
      <3>1. CASKey(reloc[a])
        BY <1>1, <2>1 DEF HelpRelocateKey
      <3>2. node[d].key \in Int
        BY <1>2, <1>4 DEF Inv, TypeOK, LF_BST_Node
      <3> QED
        BY <1>1, <1>2, <1>4, <1>5, <3>1, <3>2, KeySet
    <2>2. CASE HelpRelocateClear(t)
      <3>1. SET_FLAG(OpAt(a), "RELOCATE") = ToDest(a) /\ SET_FLAG(OpAt(a), "NONE") = Flagged("NONE", a)
        BY OpFlags DEF Flag, ToDest
      <3>2. CASOp(d, ToDest(a), Flagged("NONE", a)) /\ pc[t] = "reloc_clear"
        BY <1>1, <2>2, <3>1 DEF HelpRelocateClear, ClearOp
      <3>3. Is(d, ToDest(a)) => node[d].key = reloc[a].replace_key
        BY <1>1, <1>4, <3>2 DEF RelocOutcome
      <3> QED
        BY <1>1, <1>2, <1>4, <1>5, <3>2, <3>3, ClearDestSet
    <2> QED
      BY <2>1, <2>2
  <1>7. PICK to \in {"reloc_clear", "reloc_curr"} : Goto(t, to)
    BY <1>2
  <1>8. pc'[t] = to /\ loc'[t] = loc[t]
    BY <1>2, <1>7, StaysTo
  <1>9. pc'[t] \in RelocLabel
    BY <1>7, <1>8 DEF RelocLabel
  <1> QED
    BY <1>1, <1>2, <1>3, <1>4, <1>5, <1>6, <1>8, <1>9, RelocatePasses

(* A helper that has lost decides that the relocation fails, unless it is  *)
(* decided.                                                                *)
LEMMA DecideIs ==
    ASSUME Inv, NEW a \in DOMAIN reloc, NEW s \in {"SUCCESSFUL", "FAILED"}, Decide(a, s),
           node' = node, cas' = cas
    PROVE  IF reloc[a].state = "ONGOING" THEN Decides(a, s) ELSE reloc' = reloc
  <1>1. \A b \in DOMAIN reloc : reloc[b] \in Relocate_OP
    BY DEF Inv, TypeOK
  <1>2. CASE reloc[a].state = "ONGOING"
    <2>1. reloc' = [reloc EXCEPT ![a].state = s]
      BY <1>2 DEF Decide
    <2>2. DOMAIN reloc' = DOMAIN reloc
      BY <2>1
    <2>3. ASSUME NEW b \in DOMAIN reloc
          PROVE  /\ reloc'[b].dest = reloc[b].dest /\ reloc'[b].dest_op = reloc[b].dest_op
                 /\ reloc'[b].remove_key = reloc[b].remove_key
                 /\ reloc'[b].replace_key = reloc[b].replace_key
                 /\ reloc'[b].state = IF b = a THEN s ELSE reloc[b].state
      BY <1>1, <2>1, <2>3 DEF Relocate_OP
    <2> QED
      BY <1>2, <2>2, <2>3 DEF Decides
  <1>3. CASE reloc[a].state # "ONGOING"
    BY <1>3 DEF Decide
  <1> QED
    BY <1>2, <1>3

(* The relocation that t helps is not ongoing, or t decides it. *)
LEMMA HelpRelocateDecidePasses ==
    ASSUME NEW t \in Thread, NEW A, NEW G, TreeNow(t, A, G), Owns(t),
           \/ HelpRelocateWon(t) /\ reloc[loc[t].reloc_op].state # "ONGOING"
           \/ HelpRelocateLost(t)
    PROVE  Passes(t)
  <1>1. PICK l, a, s : l = loc[t] /\ a = l.reloc_op /\ s = reloc[a].state
    OBVIOUS
  <1>2. /\ pc[t] \in {"reloc_won", "reloc_lost"} /\ node' = node /\ cas' = cas
        /\ Inv /\ KeepsWork(t)
    BY HelpWork DEF HelpRelocateWon, HelpRelocateLost, HelpRelocate, TreeNow, HeapNow
  <1>3. pc[t] \in RelocLabel
    BY <1>2 DEF RelocLabel
  <1>4. l \in LocalState /\ a \in DOMAIN reloc
    BY <1>1, <1>3, RelocHelper
  <1>5. PICK to, r, m : /\ to \in {"reloc_key", "reloc_curr"} /\ m = [l EXCEPT !.seen_state = r]
                        /\ Goto(t, to) /\ SetLocals(t, m)
    <2>1. CASE HelpRelocateWon(t)
      BY <1>1, <2>1 DEF HelpRelocateWon
    <2>2. CASE HelpRelocateLost(t)
      BY <1>1, <2>2 DEF HelpRelocateLost
    <2> QED
      BY <2>1, <2>2
  <1>6. pc'[t] = to /\ loc'[t].ret = l.ret /\ loc'[t].reloc_op = a
    <2>1. pc'[t] = to /\ loc'[t] = m
      BY <1>2, <1>5, GoesTo
    <2> QED
      BY <1>1, <1>4, <1>5, <2>1, SeenKept
  <1>7. pc'[t] \in RelocLabel
    BY <1>5, <1>6 DEF RelocLabel
  <1>8. CASE s # "ONGOING"
    <2>1. reloc' = reloc
      BY <1>1, <1>8 DEF HelpRelocateWon, HelpRelocateLost, Decide
    <2>2. LiveKeys' = LiveKeys
      BY <1>2, <2>1, QuietSet
    <2> QED
      BY <1>1, <1>2, <1>3, <1>4, <1>6, <1>7, <1>8, <2>1, <2>2, RelocatePasses
  <1>9. CASE s = "ONGOING"
    <2>1. Decide(a, "FAILED")
      BY <1>1, <1>9 DEF HelpRelocateLost
    <2>2. Decides(a, "FAILED")
      BY <1>1, <1>2, <1>4, <1>9, <2>1, DecideIs
    <2>3. LiveKeys' = LiveKeys
      BY <1>2, <2>2, FailSet
    <2>4. RelocsStand /\ NewMine(t) /\ DOMAIN reloc' = DOMAIN reloc /\ reloc'[a].state = "FAILED"
      BY <1>4, <2>2 DEF Decides, RelocsStand, NewMine
    <2>5. Standing(t)
      BY <1>2, <2>4, KeepsWorkNow DEF Standing
    <2>6. Turns(t)
      BY <1>1, <1>3, <1>4, <1>6, <1>7, <2>4, <2>5, RelocateTurns
    <2> QED
      BY <2>3, <2>4, <2>6 DEF Passes, KeepsSet
  <1> QED
    BY <1>8, <1>9

LEMMA HelpRelocateCurrPasses ==
    ASSUME NEW t \in Thread, NEW A, NEW G, TreeNow(t, A, G), Owns(t), HelpRelocateCurr(t)
    PROVE  Passes(t)
  <1>1. PICK l, a, d, c : l = loc[t] /\ a = l.reloc_op /\ d = reloc[a].dest /\ c = l.curr
    OBVIOUS
  <1>2. /\ pc[t] = "reloc_curr" /\ pc[t] \in RelocLabel /\ cas' = cas /\ reloc' = reloc
        /\ Inv /\ KeepsWork(t) /\ pc[t] \in HelpLabel /\ pc[t] \notin UndecidedLabel
    BY HelpWork DEF HelpRelocateCurr, HelpRelocate, RelocLabel, HelpLabel, UndecidedLabel,
       TreeNow, HeapNow
  <1>3. /\ l \in LocalState /\ a \in DOMAIN reloc /\ c \in DOMAIN node
        /\ Knows(node, past, reloc, l, pc[t]) /\ RelocOutcome(l, pc[t])
    BY <1>1, <1>2, RelocHelper
  <1>4. /\ l.seen_state = "SUCCESSFUL" => reloc[a].state = "SUCCESSFUL"
        /\ l.seen_state # "SUCCESSFUL" => reloc[a].state = "FAILED"
    BY <1>1, <1>2, <1>3 DEF Knows, RelocOutcome
  <1>5. Standing(t) /\ RelocsStand /\ NewMine(t)
    BY <1>2, KeepsWorkNow, SameRelocs DEF Standing
  <1>6. l.seen_state = "SUCCESSFUL" /\ l.ret = "op" => Effected(t)
    BY <1>1, <1>2, <1>4 DEF Effected
  <1>7. ASSUME RelocateFailed(t), l.seen_state # "SUCCESSFUL" PROVE Turns(t)
    <2>1. pc'[t] \in FindLabel
      BY <1>2, <1>7, TurnTo DEF RelocateFailed, FindLabel
    <2>2. ~Effected(t)
      BY <1>1, <1>2, <1>4, <1>7 DEF Effected, ChildLabel, MarkLabel
    <2> QED
      BY <1>2, <1>5, <2>1, <2>2, PlainTurns DEF Plain
  <1>8. CASE d = c
    <2>1. node' = node /\ (IF l.seen_state = "SUCCESSFUL" THEN Helped(t) ELSE RelocateFailed(t))
      BY <1>1, <1>8 DEF HelpRelocateCurr
    <2>2. Turns(t)
      BY <1>1, <1>2, <1>5, <1>6, <1>7, <2>1, HelpedTurns
    <2> QED
      BY <1>2, <2>1, <2>2, QuietPasses
  <1>9. CASE d # c /\ l.seen_state # "SUCCESSFUL"
    <2>1. SET_FLAG(OpAt(a), "RELOCATE") = ToDest(a) /\ SET_FLAG(OpAt(a), "NONE") = Flagged("NONE", a)
      BY OpFlags DEF Flag, ToDest
    <2>2. CASOp(c, ToDest(a), Flagged("NONE", a)) /\ RelocateFailed(t)
      BY <1>1, <1>9, <2>1 DEF HelpRelocateCurr, ReplaceFlag
    <2>3. LiveKeys' = LiveKeys
      BY <1>1, <1>2, <1>3, <1>4, <1>9, <2>2, ReleaseSet
    <2> QED
      BY <1>5, <1>7, <1>9, <2>2, <2>3 DEF Passes, KeepsSet
  <1>10. CASE d # c /\ l.seen_state = "SUCCESSFUL"
    <2>1. SET_FLAG(OpAt(a), "RELOCATE") = ToDest(a) /\ SET_FLAG(OpAt(a), "MARK") = Flagged("MARK", a)
      BY OpFlags DEF Flag, ToDest
    <2>2. PICK po : po = UnlinkOp(l, d)
      OBVIOUS
    <2>3. CASOp(c, ToDest(a), Flagged("MARK", a)) /\ helpMarked(t, l, l.pred, po, c, l.ret)
      BY <1>1, <1>10, <2>1, <2>2 DEF HelpRelocateCurr, ReplaceFlag
    <2>4. LiveKeys' = LiveKeys
      BY <1>1, <1>2, <1>3, <1>4, <1>10, <2>3, ReleaseSet
    <2>5. pc'[t] \in MarkLabel /\ loc'[t].ret = l.ret
      BY <1>2, <1>3, <2>3, TurnToHelp DEF MarkLabel
    <2>6. l.ret \in {"find", "op"}
      BY <1>3 DEF LocalState
    <2>7. Turns(t)
      BY <1>1, <1>2, <1>5, <1>6, <1>10, <2>5, <2>6, HelpTurns
    <2> QED
      BY <1>5, <2>4, <2>7 DEF Passes, KeepsSet
  <1> QED
    BY <1>8, <1>9, <1>10

-----------------------------------------------------------------------------
(***************************************************************************)
(* The steps of the calls, of which one may have its effect.               *)
(***************************************************************************)
SameEffects(U) == \A v \in U : Effected(v)' <=> Effected(v)

CallStep(t) ==
    /\ OwnersOK' /\ Others(t) /\ loc'[t].work = loc[t].work /\ Works(t) /\ pc'[t] # "idle"
    /\ \/ LiveKeys' = LiveKeys /\ SameEffects(Thread) /\ (pc'[t] = "return" => Rightly(t))
       \/ Works(t)' /\ \E u \in Thread : Acts(u) /\ SameEffects(Thread \ {u})

LEMMA OthersOwn ==
    ASSUME OwnersOK, NEW t, Others(t), RelocsStand, NewMine(t), NEW v \in Thread \ {t}
    PROVE  Owns(v)' /\ (Effected(v)' <=> Effected(v))
  <1>1. pc'[v] = pc[v] /\ loc'[v] = loc[v] /\ Owns(v)
    BY DEF Others, OwnersOK
  <1>2. PICK l, at : l = loc[v] /\ at = pc[v]
    OBVIOUS
  <1>3. pc'[v] = at /\ loc'[v] = l /\ Owner(reloc, v, l, at) /\ Minds(reloc, v, l, at)
    BY <1>1, <1>2 DEF Owns
  <1>4. Owner(reloc', v, l, at)
    BY <1>3 DEF Owner, RelocsStand
  <1>5. Minds(reloc', v, l, at)
    <2> SUFFICES ASSUME NEW b \in DOMAIN reloc', reloc'[b].state = "ONGOING", b[1] = v
                 PROVE  at \in UndecidedLabel /\ l.ret = "op" /\ l.reloc_op = b
      BY DEF Minds
    <2>1. b \in DOMAIN reloc
      BY DEF NewMine
    <2>2. reloc[b].state = "ONGOING"
      BY <2>1 DEF RelocsStand
    <2> QED
      BY <1>3, <2>1, <2>2 DEF Minds
  <1>6. Owns(v)'
    BY <1>3, <1>4, <1>5, OwnsNext
  <1>7. ASSUME at \in RelocLabel, l.ret = "op"
        PROVE  reloc'[l.reloc_op].state = "SUCCESSFUL" <=> reloc[l.reloc_op].state = "SUCCESSFUL"
    <2>1. l.reloc_op \in DOMAIN reloc
      BY <1>3, <1>7 DEF Owner, HelpLabel
    <2> QED
      BY <2>1 DEF RelocsStand
  <1>8. Effected(v) => Effected(v)'
    BY <1>2, <1>3, <1>7 DEF Effected
  <1>9. Effected(v)' => Effected(v)
    BY <1>2, <1>3, <1>7 DEF Effected
  <1> QED
    BY <1>6, <1>8, <1>9

LEMMA PassesStep ==
    ASSUME Inv, OwnersOK, NEW t \in Thread, KeepsWork(t), Works(t), Passes(t)
    PROVE  CallStep(t)
  <1>1. /\ loc'[t].work = loc[t].work /\ Others(t) /\ RelocsStand /\ NewMine(t)
        /\ LiveKeys' = LiveKeys
        /\ pc'[t] # "idle" /\ (pc'[t] = "return" => Rightly(t))
        /\ Owns(t)' /\ (Effected(t)' <=> Effected(t))
    BY KeepsWorkNow DEF Passes, Turns, KeepsSet
  <1>2. ASSUME NEW v \in Thread PROVE Owns(v)' /\ (Effected(v)' <=> Effected(v))
    BY <1>1, OthersOwn
  <1>3. OwnersOK'
    BY <1>2 DEF OwnersOK
  <1>4. SameEffects(Thread)
    BY <1>2 DEF SameEffects
  <1> QED
    BY <1>1, <1>3, <1>4 DEF CallStep

LEMMA TakesStep ==
    ASSUME Inv, OwnersOK, NEW t \in Thread, KeepsWork(t), TakesEffect(t)
    PROVE  CallStep(t)
  <1>1. /\ loc'[t].work = loc[t].work /\ Others(t) /\ RelocsStand /\ NewMine(t) /\ Acts(t)
        /\ Works(t) /\ Works(t)' /\ Owns(t)'
    BY KeepsWorkNow DEF TakesEffect, Acts
  <1>2. ASSUME NEW v \in Thread \ {t} PROVE Owns(v)' /\ (Effected(v)' <=> Effected(v))
    BY <1>1, OthersOwn
  <1>3. OwnersOK'
    BY <1>1, <1>2 DEF OwnersOK
  <1>4. SameEffects(Thread \ {t})
    BY <1>2 DEF SameEffects
  <1>5. pc'[t] # "idle"
    BY <1>1 DEF Works
  <1> QED
    BY <1>1, <1>3, <1>4, <1>5 DEF CallStep

(***************************************************************************)
(* A helper decides a relocation for the remove() that published it.       *)
(***************************************************************************)
LEMMA DecidedOwns ==
    ASSUME OwnersOK, NEW t \in Thread, NEW a, a = loc[t].reloc_op, Decides(a, "SUCCESSFUL"),
           Others(t), loc'[t].work = loc[t].work, loc'[t].ret = loc[t].ret, loc'[t].reloc_op = a,
           pc[t] \in RelocLabel, pc'[t] \in RelocLabel
    PROVE  OwnersOK'
  <1>1. /\ a \in DOMAIN reloc /\ DOMAIN reloc' = DOMAIN reloc /\ reloc'[a].state = "SUCCESSFUL"
        /\ \A b \in DOMAIN reloc :
              /\ reloc'[b].remove_key = reloc[b].remove_key
              /\ b # a => reloc'[b].state = reloc[b].state
    BY DEF Decides
  <1> SUFFICES ASSUME NEW v \in Thread PROVE Owns(v)'
    BY DEF OwnersOK
  <1>2. /\ loc'[v].work = loc[v].work /\ loc'[v].ret = loc[v].ret /\ loc'[v].reloc_op = loc[v].reloc_op
        /\ pc[v] \in HelpLabel <=> pc'[v] \in HelpLabel
        /\ pc[v] \in RelocLabel <=> pc'[v] \in RelocLabel
        /\ v # t => pc'[v] = pc[v]
    BY DEF Others, HelpLabel
  <1>3. Owner(reloc, v, loc[v], pc[v]) /\ Minds(reloc, v, loc[v], pc[v])
    BY DEF OwnersOK, Owns
  <1>4. Owner(reloc', v, loc'[v], pc'[v])
    BY <1>1, <1>2, <1>3 DEF Owner
  <1>5. Minds(reloc', v, loc'[v], pc'[v])
    <2> SUFFICES ASSUME NEW b \in DOMAIN reloc', reloc'[b].state = "ONGOING", b[1] = v
                 PROVE  pc'[v] \in UndecidedLabel /\ loc'[v].ret = "op" /\ loc'[v].reloc_op = b
      BY DEF Minds
    <2>1. b # a /\ b \in DOMAIN reloc /\ reloc[b].state = "ONGOING"
      BY <1>1
    <2>2. pc[v] \in UndecidedLabel /\ loc[v].ret = "op" /\ loc[v].reloc_op = b
      BY <1>3, <2>1 DEF Minds
    <2>3. v # t
      BY <2>1, <2>2
    <2> QED
      BY <1>2, <2>2, <2>3
  <1> QED
    BY <1>4, <1>5, OwnsNext

LEMMA WonStep ==
    ASSUME NEW t \in Thread, NEW A, NEW G, TreeNow(t, A, G), OwnersOK, HelpRelocateWon(t),
           reloc[loc[t].reloc_op].state = "ONGOING"
    PROVE  CallStep(t)
  <1>1. PICK l, a, u : l = loc[t] /\ a = l.reloc_op /\ u = a[1]
    OBVIOUS
  <1>2. PICK m : m = [l EXCEPT !.seen_state = "SUCCESSFUL"]
    OBVIOUS
  <1>3. /\ pc[t] = "reloc_won" /\ node' = node /\ cas' = cas /\ Decide(a, "SUCCESSFUL")
        /\ Goto(t, "reloc_key") /\ SetLocals(t, m) /\ Inv /\ HeapNow(A, G) /\ KeepsWork(t)
    BY <1>1, <1>2, HelpWork DEF HelpRelocateWon, HelpRelocate, TreeNow, HeapNow
  <1>4. pc[t] \in RelocLabel /\ "reloc_key" \in RelocLabel
    BY <1>3 DEF RelocLabel
  <1>5. l \in LocalState /\ a \in DOMAIN reloc /\ Knows(node, past, reloc, l, pc[t])
    BY <1>1, <1>4, RelocHelper
  <1>6. ToDest(a) \in Had(node, past, reloc[a].dest)
    BY <1>1, <1>3, <1>5 DEF Knows
  <1>7. Decides(a, "SUCCESSFUL")
    BY <1>1, <1>3, <1>5, DecideIs
  <1>8. pc'[t] = "reloc_key" /\ loc'[t] = m
    BY <1>3, GoesTo
  <1>9. loc'[t].ret = l.ret /\ loc'[t].reloc_op = a
    BY <1>1, <1>2, <1>5, <1>8, SeenKept
  <1>10. loc'[t].work = l.work /\ Others(t)
    BY <1>1, <1>3, KeepsWorkNow
  <1>11. OwnersOK'
    BY <1>1, <1>4, <1>7, <1>8, <1>9, <1>10, DecidedOwns
  <1>12. u \in Thread
    <2>1. a \in Thread \X Nat
      BY <1>3, <1>5 DEF Inv, TypeOK, Addr
    <2> QED
      BY <1>1, <2>1
  <1>13. /\ reloc[a].state = "ONGOING" /\ reloc'[a].state = "SUCCESSFUL"
         /\ \A b \in DOMAIN reloc : b # a => reloc'[b].state = reloc[b].state
    BY <1>7 DEF Decides
  <1>14. pc[u] \in UndecidedLabel /\ loc[u].ret = "op" /\ loc[u].reloc_op = a
    BY <1>1, <1>5, <1>12, <1>13 DEF OwnersOK, Owns, Minds
  <1>15. /\ pc[u] \in RelocLabel /\ pc[u] \notin {"idle", "return"}
         /\ pc[u] \notin ChildLabel \cup MarkLabel
    BY <1>14 DEF UndecidedLabel, RelocLabel, ChildLabel, MarkLabel
  <1>16. pc'[u] \in RelocLabel /\ loc'[u].ret = "op" /\ loc'[u].reloc_op = a
    BY <1>1, <1>4, <1>8, <1>9, <1>10, <1>12, <1>14, <1>15 DEF Others
  <1>17. pc'[u] \notin {"idle", "return"} /\ pc'[t] \notin {"idle", "return"}
    BY <1>8, <1>16 DEF RelocLabel
  <1>18. ~Effected(u) /\ Effected(u)'
    BY <1>13, <1>14, <1>15, <1>16 DEF Effected
  <1>19. SetChange(u)
    <2>1. loc[u].work.op = "DELETE" /\ loc[u].work.key = reloc[a].remove_key
      BY <1>12, <1>14, <1>15 DEF OwnersOK, Owns, Owner, HelpLabel
    <2>2. reloc[a].remove_key \in LiveKeys /\ LiveKeys' = LiveKeys \ {reloc[a].remove_key}
      BY <1>3, <1>6, <1>7, SucceedSet
    <2> QED
      BY <2>1, <2>2 DEF SetChange
  <1>20. ASSUME NEW v \in Thread \ {u} PROVE Effected(v)' <=> Effected(v)
    <2>1. /\ pc'[v] = pc[v] \/ (pc[v] = "reloc_won" /\ pc'[v] = "reloc_key")
          /\ loc'[v].ret = loc[v].ret /\ loc'[v].reloc_op = loc[v].reloc_op
          /\ loc'[v].work = loc[v].work
          /\ v # t => loc'[v] = loc[v]
      BY <1>1, <1>3, <1>8, <1>9, <1>10 DEF Others
    <2>2. ASSUME pc[v] \in RelocLabel, loc[v].ret = "op"
          PROVE  reloc'[loc[v].reloc_op].state = reloc[loc[v].reloc_op].state
      <3>1. loc[v].reloc_op \in DOMAIN reloc /\ loc[v].reloc_op[1] = v
        BY <2>2 DEF OwnersOK, Owns, Owner, HelpLabel
      <3>2. loc[v].reloc_op # a
        BY <1>1, <3>1
      <3> QED
        BY <1>13, <3>1, <3>2
    <2>3. CASE pc[v] \in RelocLabel
      <3>1. pc'[v] \in RelocLabel
        BY <2>1, <2>3 DEF RelocLabel
      <3>2. ASSUME NEW at \in RelocLabel PROVE at # "return" /\ at \notin ChildLabel \cup MarkLabel
        BY <3>2 DEF RelocLabel, ChildLabel, MarkLabel
      <3>3. Effected(v) <=> loc[v].ret = "op" /\ reloc[loc[v].reloc_op].state = "SUCCESSFUL"
        BY <2>3, <3>2 DEF Effected
      <3>4. Effected(v)' <=> loc'[v].ret = "op" /\ reloc'[loc'[v].reloc_op].state = "SUCCESSFUL"
        BY <3>1, <3>2 DEF Effected
      <3> QED
        BY <2>1, <2>2, <2>3, <3>3, <3>4
    <2>4. CASE pc[v] \notin RelocLabel
      <3>1. v # t /\ pc'[v] = pc[v]
        BY <1>4, <2>1, <2>4 DEF RelocLabel
      <3>2. loc'[v] = loc[v]
        BY <2>1, <3>1
      <3> QED
        BY <2>4, <3>1, <3>2 DEF Effected
    <2> QED
      BY <2>3, <2>4
  <1>21. Acts(u)
    BY <1>15, <1>17, <1>18, <1>19 DEF Acts, Works
  <1>22. SameEffects(Thread \ {u})
    BY <1>20 DEF SameEffects
  <1>23. Works(t) /\ Works(t)' /\ pc'[t] # "idle"
    BY <1>3, <1>17 DEF Works
  <1> QED
    BY <1>1, <1>10, <1>11, <1>12, <1>21, <1>22, <1>23 DEF CallStep

LEMMA HelpRelocateStep ==
    ASSUME NEW t \in Thread, NEW A, NEW G, TreeNow(t, A, G), OwnersOK, HelpRelocate(t)
    PROVE  CallStep(t)
  <1>1. Inv /\ KeepsWork(t) /\ Owns(t)
    BY HelpWork DEF TreeNow, HeapNow, OwnersOK
  <1>2. Works(t)
    BY DEF HelpRelocate, HelpRelocateState, HelpRelocateDest, HelpRelocateWon, HelpRelocateLost,
       HelpRelocateKey, HelpRelocateClear, HelpRelocateCurr, Works
  <1>3. CASE HelpRelocateWon(t) /\ reloc[loc[t].reloc_op].state = "ONGOING"
    BY <1>3, WonStep
  <1>4. CASE ~(HelpRelocateWon(t) /\ reloc[loc[t].reloc_op].state = "ONGOING")
    <2>1. Passes(t)
      BY <1>1, <1>4, HelpRelocateStatePasses, HelpRelocateDestPasses, HelpRelocateDecidePasses,
         HelpRelocateKeyClearPasses, HelpRelocateCurrPasses DEF HelpRelocate
    <2> QED
      BY <1>1, <1>2, <2>1, PassesStep
  <1> QED
    BY <1>3, <1>4

(* Every step of a thread in a call is one of these. *)
Goes(t) ==
    Find(t) \/ Add(t) \/ Remove(t) \/ HelpChildCAS(t) \/ HelpMarked(t) \/ HelpRelocate(t)

LEMMA GoesWork ==
    ASSUME NEW t, Goes(t)
    PROVE  Works(t)
  <1>1. CASE Find(t) \/ Add(t)
    BY <1>1 DEF Find, FindStart, FindNext, FindVisit, FindKey, FindLastRight, FindCurr,
       Add, AddReadOld, AddPublish, Works
  <1>2. CASE Remove(t)
    BY <1>2 DEF Remove, RemoveReadRight, RemoveReadLeft, RemoveMark, RemoveRecheck,
       RemoveReadKey, RemovePublish, Works
  <1>3. CASE HelpChildCAS(t) \/ HelpMarked(t)
    BY <1>3 DEF HelpChildCAS, HelpChildCASSwing, HelpChildCASClear, HelpMarked,
       HelpMarkedTestLeft, HelpMarkedTestRight, HelpMarkedTake, HelpMarkedSide,
       HelpMarkedPublish, Works
  <1>4. CASE HelpRelocate(t)
    BY <1>4 DEF HelpRelocate, HelpRelocateState, HelpRelocateDest, HelpRelocateWon,
       HelpRelocateLost, HelpRelocateKey, HelpRelocateClear, HelpRelocateCurr, Works
  <1> QED
    BY <1>1, <1>2, <1>3, <1>4 DEF Goes

LEMMA GoesStep ==
    ASSUME NEW t \in Thread, NEW A, NEW G, TreeNow(t, A, G), OwnersOK, ~ReusesBlocks, Goes(t)
    PROVE  CallStep(t)
  <1>1. Inv /\ Owns(t) /\ Works(t)
    BY GoesWork DEF TreeNow, HeapNow, OwnersOK
  <1>2. CASE Find(t)
    BY <1>1, <1>2, FindPasses, FindWork, PassesStep
  <1>3. CASE Add(t) \/ Remove(t)
    <2>1. Passes(t) \/ TakesEffect(t)
      BY <1>1, <1>3, AddRemoveDoes
    <2> QED
      BY <1>1, <1>3, <2>1, AddRemoveWork, PassesStep, TakesStep
  <1>4. CASE HelpChildCAS(t) \/ HelpMarked(t)
    BY <1>1, <1>4, HelpChildCASPasses, HelpMarkedPasses, HelpWork, PassesStep
  <1>5. CASE HelpRelocate(t)
    BY <1>5, HelpRelocateStep
  <1> QED
    BY <1>2, <1>3, <1>4, <1>5 DEF Goes

-----------------------------------------------------------------------------
(***************************************************************************)
(* The invariant.                                                          *)
(***************************************************************************)
CallOn == [op : {"INSERT", "SEARCH", "DELETE"}, key : Key]

(* All work is about keys of the files. *)
CallsOK ==
    /\ create \in Seq(Key) /\ queue \in Seq(CallOn)
    /\ \A t \in Thread : InCall(t) => loc[t].work \in CallOn

(* What a call has seen includes what is so now. *)
SeenOK ==
    /\ seen = [t \in Thread |-> seen[t]]
    /\ \A t \in Thread :
          IF InCall(t) THEN (loc[t].work.key \in AbsSet) \in seen[t] ELSE seen[t] = {}

SetInv == TreeInv /\ OwnersOK /\ CallsOK /\ SeenOK

BothNext == [HistoryNext]_hvars /\ [SeenNext]_<<vars, seen>>

(* A thread takes up a call, or returns. *)
Invokes(t, c) ==
    /\ t \in Thread /\ pc[t] = "idle" /\ c \in CallOn
    /\ Goto(t, "find") /\ SetLocals(t, Locals(c)) /\ UNCHANGED heap

Returns(t) ==
    /\ t \in Thread /\ pc[t] = "return"
    /\ Goto(t, "idle") /\ SetLocals(t, Locals(NoWork)) /\ UNCHANGED heap

LEMMA ThreadSteps ==
    ASSUME Inv, CallsOK, Next
    PROVE  \/ UNCHANGED vars
           \/ \E t \in Thread : (\E c : Invokes(t, c)) \/ Returns(t) \/ Goes(t)
  <1>1. ASSUME CreateTree PROVE \E c : Invokes(Main, c)
    <2>1. Head(create) \in Key /\ Main \in Thread
      BY <1>1 DEF CallsOK, CreateTree, Thread
    <2>2. [op |-> "INSERT", key |-> Head(create)] \in CallOn
      BY <2>1 DEF CallOn
    <2> QED
      BY <1>1, <2>1, <2>2 DEF CreateTree, Invokes
  <1>2. ASSUME NEW t \in Thread, TakeWork(t) PROVE \E c : Invokes(t, c)
    <2>1. Head(queue) \in CallOn
      BY <1>2 DEF CallsOK, TakeWork
    <2> QED
      BY <1>2, <2>1 DEF TakeWork, Invokes
  <1>3. ASSUME NEW t \in Thread, Return(t) PROVE Returns(t)
    BY <1>3 DEF Return, Returns
  <1>4. Main \in Thread
    BY DEF Thread
  <1> QED
    BY <1>1, <1>2, <1>3, <1>4 DEF Next, Step, Terminated, Goes

(* A step between calls keeps the set and what the calls have done. *)
LEMMA BetweenCalls ==
    ASSUME Inv, OwnersOK, NEW t \in Thread, pc[t] \in {"idle", "return"}, NEW to \in {"idle", "find"},
           NEW m, Goto(t, to), SetLocals(t, m), UNCHANGED heap
    PROVE  /\ OwnersOK' /\ Others(t) /\ pc'[t] = to /\ loc'[t] = m /\ LiveKeys' = LiveKeys
           /\ SameEffects(Thread \ {t})
  <1>1. node' = node /\ reloc' = reloc
    BY DEF heap
  <1>2. pc'[t] = to /\ loc'[t] = m /\ Others(t)
    BY OthersStay DEF Others
  <1>3. LiveKeys' = LiveKeys
    BY <1>1, QuietSet
  <1>4. \A v \in Thread \ {t} : Owns(v)' /\ (Effected(v)' <=> Effected(v))
    BY <1>1, <1>2, SameRelocs, OthersOwn
  <1>5. Owns(t)'
    <2>1. pc[t] \notin UndecidedLabel /\ to \notin HelpLabel
      BY DEF UndecidedLabel, HelpLabel, ChildLabel, MarkLabel, RelocLabel
    <2>2. Minds(reloc, t, loc[t], pc[t])
      BY DEF OwnersOK, Owns
    <2>3. Minds(reloc', t, m, to)
      BY <1>1, <2>1, <2>2 DEF Minds
    <2>4. Owner(reloc', t, m, to)
      BY <2>1 DEF Owner
    <2> QED
      BY <1>2, <2>3, <2>4, OwnsNext
  <1>6. OwnersOK'
    BY <1>4, <1>5 DEF OwnersOK
  <1> QED
    BY <1>2, <1>3, <1>4, <1>6 DEF SameEffects

LEMMA InvokesStep ==
    ASSUME Inv, OwnersOK, NEW t, NEW c, Invokes(t, c)
    PROVE  /\ t \in Thread /\ OwnersOK' /\ Others(t) /\ LiveKeys' = LiveKeys
           /\ SameEffects(Thread \ {t}) /\ pc'[t] = "find" /\ loc'[t].work = c
  <1>1. PICK m : m = Locals(c)
    OBVIOUS
  <1>2. /\ t \in Thread /\ pc[t] \in {"idle", "return"} /\ "find" \in {"idle", "find"}
        /\ Goto(t, "find") /\ SetLocals(t, m) /\ UNCHANGED heap
    BY <1>1 DEF Invokes
  <1>3. m.work = c
    BY <1>1 DEF Locals
  <1> QED
    BY <1>2, <1>3, BetweenCalls

LEMMA ReturnsStep ==
    ASSUME Inv, OwnersOK, NEW t, Returns(t)
    PROVE  /\ t \in Thread /\ OwnersOK' /\ Others(t) /\ LiveKeys' = LiveKeys
           /\ SameEffects(Thread \ {t}) /\ pc'[t] = "idle"
  <1>1. /\ t \in Thread /\ pc[t] \in {"idle", "return"} /\ "idle" \in {"idle", "find"}
        /\ Goto(t, "idle") /\ SetLocals(t, Locals(NoWork)) /\ UNCHANGED heap
    BY DEF Returns
  <1> QED
    BY <1>1, BetweenCalls

LEMMA SoundSteps ==
    ASSUME TreeInv, ~ReusesBlocks, [HistoryNext]_hvars
    PROVE  TreeInv' /\ Inv /\ StepsSoundly
  <1>1. Inv /\ OpsInv
    BY DEF TreeInv
  <1>2. TreeInv'
    BY TreeNext
  <1>3. Inv' /\ OpsInv'
    BY <1>2 DEF TreeInv
  <1>4. Recorded
    <2>1. CASE HistoryNext
      BY <2>1 DEF HistoryNext, Remembered, Recorded
    <2>2. CASE UNCHANGED hvars
      <3>1. past' = past /\ node' = node
        BY <2>2 DEF hvars, vars, heap
      <3>2. Remembered(node, past, node') = past
        BY <1>1, <3>1, SameOpsHistory DEF OpsInv, HeapOps, SameOps
      <3> QED
        BY <3>1, <3>2 DEF Recorded
    <2> QED
      BY <2>1, <2>2
  <1> QED
    BY <1>1, <1>2, <1>3, <1>4 DEF StepsSoundly

LEMMA GoesCall ==
    ASSUME TreeInv, OwnersOK, ~ReusesBlocks, [HistoryNext]_hvars, NEW t \in Thread, Goes(t)
    PROVE  CallStep(t)
  <1>1. PICK A, G : HeapInv(A, G) /\ \A u \in Thread : ThreadInv(A, G, loc[u], pc[u])
    BY DEF TreeInv
  <1>2. TreeNow(t, A, G)
    BY <1>1, SoundSteps DEF TreeNow, HeapNow, TreeInv
  <1> QED
    BY <1>2, GoesStep

LEMMA GoesFiles ==
    ASSUME NEW t, Goes(t)
    PROVE  create' = create /\ queue' = queue
  <1>1. CASE Find(t)
    BY <1>1 DEF Find, FindStart, FindNext, FindVisit, FindKey, FindLastRight, FindCurr, files
  <1>2. CASE Add(t) \/ Remove(t)
    BY <1>2 DEF Add, AddReadOld, AddPublish, Remove, RemoveReadRight, RemoveReadLeft,
       RemoveMark, RemoveRecheck, RemoveReadKey, RemovePublish, files
  <1>3. CASE HelpChildCAS(t) \/ HelpMarked(t)
    BY <1>3 DEF HelpChildCAS, HelpChildCASSwing, HelpChildCASClear, HelpMarked,
       HelpMarkedTestLeft, HelpMarkedTestRight, HelpMarkedTake, HelpMarkedSide,
       HelpMarkedPublish, files
  <1>4. CASE HelpRelocate(t)
    BY <1>4 DEF HelpRelocate, HelpRelocateState, HelpRelocateDest, HelpRelocateWon,
       HelpRelocateLost, HelpRelocateKey, HelpRelocateClear, HelpRelocateCurr, files
  <1> QED
    BY <1>1, <1>2, <1>3, <1>4 DEF Goes

LEMMA CallsNext ==
    ASSUME TreeInv, OwnersOK, CallsOK, ~ReusesBlocks, [HistoryNext]_hvars
    PROVE  OwnersOK' /\ CallsOK'
  <1>1. Inv /\ [Next]_vars
    BY DEF TreeInv, HistoryNext, hvars
  <1>2. create' \in Seq(Key) /\ queue' \in Seq(CallOn)
    <2>1. CASE UNCHANGED <<create, queue>>
      BY <2>1 DEF CallsOK
    <2>2. CASE CreateTree
      BY <2>2 DEF CreateTree, CallsOK
    <2>3. ASSUME NEW t \in Thread, TakeWork(t)
          PROVE  create' \in Seq(Key) /\ queue' \in Seq(CallOn)
      BY <2>3 DEF TakeWork, CallsOK
    <2>4. ASSUME NEW t \in Thread, Goes(t) \/ Return(t) PROVE UNCHANGED <<create, queue>>
      BY <2>4, GoesFiles DEF Return, files
    <2> QED
      BY <1>1, <2>1, <2>2, <2>3, <2>4 DEF Next, Step, Terminated, vars, files, Goes
  <1>3. ASSUME NEW t \in Thread, OwnersOK', Others(t), InCall(t)' => loc'[t].work \in CallOn
        PROVE  OwnersOK' /\ CallsOK'
    <2>1. \A u \in Thread : InCall(u)' => loc'[u].work \in CallOn
      BY <1>3 DEF CallsOK, InCall, Others
    <2> QED
      BY <1>2, <1>3, <2>1 DEF CallsOK
  <1>4. CASE UNCHANGED vars
    <2>1. pc' = pc /\ loc' = loc /\ reloc' = reloc
      BY <1>4 DEF vars, heap
    <2>2. OwnersOK'
      BY <2>1 DEF OwnersOK, Owns
    <2>3. \A u \in Thread : InCall(u)' => loc'[u].work \in CallOn
      BY <2>1 DEF CallsOK, InCall
    <2> QED
      BY <1>2, <2>2, <2>3 DEF CallsOK
  <1>5. ASSUME NEW t, NEW c, Invokes(t, c) PROVE OwnersOK' /\ CallsOK'
    <2>1. c \in CallOn
      BY <1>5 DEF Invokes
    <2> QED
      BY <1>1, <1>3, <1>5, <2>1, InvokesStep
  <1>6. ASSUME NEW t, Returns(t) PROVE OwnersOK' /\ CallsOK'
    <2>1. t \in Thread /\ OwnersOK' /\ Others(t) /\ pc'[t] = "idle"
      BY <1>1, <1>6, ReturnsStep
    <2>2. ~InCall(t)'
      BY <2>1 DEF InCall
    <2> QED
      BY <1>3, <2>1, <2>2
  <1>7. ASSUME NEW t \in Thread, Goes(t) PROVE OwnersOK' /\ CallsOK'
    <2>1. OwnersOK' /\ Others(t) /\ loc'[t].work = loc[t].work /\ Works(t)
      BY <1>7, GoesCall DEF CallStep
    <2>2. loc[t].work \in CallOn
      BY <2>1 DEF CallsOK, InCall, Works
    <2> QED
      BY <1>3, <2>1, <2>2
  <1> QED
    BY <1>1, <1>4, <1>5, <1>6, <1>7, ThreadSteps

LEMMA SetInvNext ==
    ASSUME SetInv, ~ReusesBlocks, BothNext
    PROVE  SetInv'
  <1>1. TreeInv' /\ OwnersOK' /\ CallsOK'
    BY SoundSteps, CallsNext DEF SetInv, BothNext
  <1>2. SeenOK'
    <2>1. CASE UNCHANGED <<vars, seen>>
      <3>1. node' = node /\ reloc' = reloc /\ pc' = pc /\ loc' = loc /\ seen' = seen
        BY <2>1 DEF vars, heap
      <3>2. LiveKeys' = LiveKeys
        BY <3>1, QuietSet DEF SetInv, TreeInv
      <3>3. AbsSet' = AbsSet
        BY <1>1, <3>2, SetLive, SetLiveNext DEF SetInv
      <3> QED
        BY <3>1, <3>3 DEF SetInv, SeenOK, InCall
    <2>2. CASE SeenNext
      BY <2>2 DEF SeenNext, SeenOK
    <2> QED
      BY <2>1, <2>2 DEF BothNext
  <1> QED
    BY <1>1, <1>2 DEF SetInv

LEMMA CallsInit ==
    ASSUME Init
    PROVE  CallsOK
  <1>1. create \in Seq(Int) /\ queue \in Seq(Work) /\ create \in CreateFiles /\ queue \in Traces
    BY FileAssumption DEF Init
  <1>2. \A i \in 1 .. Len(create) : create[i] \in Key
    <2>1. \A i \in 1 .. Len(create) : create[i] \in Range(create)
      BY <1>1 DEF Range
    <2> QED
      BY <1>1, <2>1 DEF Key
  <1>3. \A i \in 1 .. Len(queue) : queue[i] \in CallOn
    <2> SUFFICES ASSUME NEW i \in 1 .. Len(queue) PROVE queue[i] \in CallOn
      OBVIOUS
    <2>1. queue[i] \in Range(queue) /\ queue[i] \in Work
      BY <1>1 DEF Range
    <2>2. queue[i] \in UNION {Range(q) : q \in Traces}
      BY <1>1, <2>1
    <2>3. queue[i].key \in Key
      BY <2>2 DEF Key
    <2> QED
      BY <2>1, <2>3 DEF Work, CallOn
  <1>4. \A t \in Thread : ~InCall(t)
    BY DEF Init, InCall
  <1>5. create \in Seq(Key)
    BY <1>1, <1>2
  <1>6. queue \in Seq(CallOn)
    BY <1>1, <1>3
  <1> QED
    BY <1>4, <1>5, <1>6 DEF CallsOK

LEMMA SetInvInit ==
    ASSUME HistoryInit, SeenInit
    PROVE  SetInv
  <1>1. \A t \in Thread : pc[t] = "idle"
    BY InitHeap
  <1>2. SeenOK
    BY <1>1 DEF SeenInit, SeenOK, InCall
  <1>3. DOMAIN reloc = {}
    BY InitHeap
  <1>4. OwnersOK
    <2>1. "idle" \notin HelpLabel
      BY DEF HelpLabel, ChildLabel, MarkLabel, RelocLabel
    <2> QED
      BY <1>1, <1>3, <2>1 DEF OwnersOK, Owns, Owner, Minds
  <1> QED
    BY <1>2, <1>4, TreeInit, CallsInit DEF SeenInit, SetInv

-----------------------------------------------------------------------------
(***************************************************************************)
(* The steps of the set.                                                   *)
(***************************************************************************)
Calls == [u \in Thread |-> CallOf(u)]
Effects == [u \in Thread |-> Effected(u)]
Answers == [u \in Thread |-> Answered(u)]

Both == SetInv /\ SetInv' /\ SeenNext /\ ~ReusesBlocks /\ [HistoryNext]_hvars

LEMMA EffectedIs == \A u : Effected(u) \in BOOLEAN
  BY DEF Effected

LEMMA EffectedIsNext == (\A u : Effected(u) \in BOOLEAN)'
  BY EffectedIs, PTL

LEMMA SameEffected ==
    ASSUME NEW u, Effected(u)' <=> Effected(u)
    PROVE  Effected(u)' = Effected(u)
  BY EffectedIs, EffectedIsNext

(* What the steps of t leave alone. *)
LEMMA OthersKeep ==
    ASSUME NEW t \in Thread, Others(t)
    PROVE  /\ Calls' = [Calls EXCEPT ![t] = CallOf(t)']
           /\ Answers' = [Answers EXCEPT ![t] = Answered(t)']
           /\ CallOf(t)' = CallOf(t) => Calls' = Calls
           /\ Answered(t)' = Answered(t) => Answers' = Answers
  <1>1. \A u \in Thread \ {t} : CallOf(u)' = CallOf(u) /\ Answered(u)' = Answered(u)
    BY DEF Others, CallOf, Answered, InCall
  <1> QED
    BY <1>1 DEF Calls, Answers

LEMMA EffectsKeep ==
    ASSUME NEW t \in Thread, SameEffects(Thread \ {t})
    PROVE  /\ Effects' = [Effects EXCEPT ![t] = Effected(t)']
           /\ Effected(t)' = Effected(t) => Effects' = Effects
  <1>1. \A u \in Thread \ {t} : Effected(u)' = Effected(u)
    BY SameEffected DEF SameEffects
  <1> QED
    BY <1>1 DEF Effects

LEMMA SetNextIs ==
    ASSUME Both
    PROVE  AbsSet = LiveKeys /\ AbsSet' = LiveKeys'
  BY SetLive, SetLiveNext DEF Both, SetInv

(* What calls are. *)
LEMMA CallTypes ==
    ASSUME Inv, NEW u \in Thread
    PROVE  /\ InCall(u) <=> CallOf(u).op # "NONE"
           /\ InCall(u) => CallOf(u) = loc[u].work /\ CallOf(u).key = loc[u].work.key
           /\ ~InCall(u) => CallOf(u) = Set!NoCall
  <1>1. loc[u] \in LocalState
    BY LocalsOf
  <1> QED
    BY <1>1 DEF CallOf, LocalState, Work, Set!NoCall

LEMMA CallTypesNext ==
    ASSUME Inv', NEW u \in Thread
    PROVE  /\ InCall(u)' <=> CallOf(u)'.op # "NONE"
           /\ InCall(u)' => CallOf(u)' = loc'[u].work /\ CallOf(u)'.key = loc'[u].work.key
           /\ ~InCall(u)' => CallOf(u)' = Set!NoCall
  <1>1. loc'[u] \in LocalState
    BY DEF Inv, TypeOK
  <1> QED
    BY <1>1 DEF CallOf, LocalState, Work, Set!NoCall

(* Every call sees what the history records. *)
LEMMA Observed ==
    ASSUME Inv', SeenNext
    PROVE  Set!Observe
  <1>1. seen' = [u \in Thread |-> IF InCall(u)' THEN seen[u] \cup {loc'[u].work.key \in AbsSet'}
                                  ELSE {}]
    BY DEF SeenNext
  <1>2. ASSUME NEW u \in Thread
        PROVE  (IF InCall(u)' THEN seen[u] \cup {loc'[u].work.key \in AbsSet'} ELSE {})
               = (IF Calls'[u].op = "NONE" THEN {}
                  ELSE seen[u] \cup {Calls'[u].key \in AbsSet'})
    BY CallTypesNext DEF Calls
  <1> QED
    BY <1>1, <1>2 DEF Set!Observe, Calls

(* A step that changes neither the set nor any call. *)
LEMMA Stutters ==
    ASSUME Both, LiveKeys' = LiveKeys, Calls' = Calls, Effects' = Effects, Answers' = Answers
    PROVE  UNCHANGED Set!vars
  <1>1. AbsSet' = AbsSet /\ Inv /\ Inv'
    BY SetNextIs DEF Both, SetInv, TreeInv
  <1>2. seen' = [u \in Thread |-> IF InCall(u)' THEN seen[u] \cup {loc'[u].work.key \in AbsSet'}
                                  ELSE {}]
    BY DEF Both, SeenNext
  <1>3. ASSUME NEW u \in Thread
        PROVE  (IF InCall(u)' THEN seen[u] \cup {loc'[u].work.key \in AbsSet'} ELSE {}) = seen[u]
    <2>1. CallOf(u)' = CallOf(u)
      BY DEF Calls
    <2>2. /\ InCall(u) <=> CallOf(u).op # "NONE"
          /\ InCall(u) => CallOf(u) = loc[u].work
      BY <1>1, CallTypes
    <2>3. /\ InCall(u)' <=> CallOf(u)'.op # "NONE"
          /\ InCall(u)' => CallOf(u)' = loc'[u].work
      BY <1>1, CallTypesNext
    <2>4. (InCall(u)' <=> InCall(u)) /\ (InCall(u) => loc'[u].work = loc[u].work)
      BY <2>1, <2>2, <2>3
    <2> QED
      BY <1>1, <2>4 DEF Both, SetInv, SeenOK
  <1>4. seen' = seen
    BY <1>2, <1>3 DEF Both, SetInv, SeenOK
  <1> QED
    BY <1>1, <1>4 DEF Set!vars, Calls, Effects, Answers

LEMMA InvokesMaps ==
    ASSUME Both, NEW t, NEW c, Invokes(t, c)
    PROVE  Set!Invoke(t, c)
  <1>1. Inv /\ Inv' /\ OwnersOK
    BY DEF Both, SetInv, TreeInv
  <1>2. /\ t \in Thread /\ Others(t) /\ LiveKeys' = LiveKeys
        /\ SameEffects(Thread \ {t}) /\ pc'[t] = "find" /\ loc'[t].work = c /\ pc[t] = "idle"
    BY <1>1, InvokesStep DEF Invokes
  <1>3. Calls[t] = Set!NoCall
    BY <1>1, <1>2, CallTypes DEF InCall, Calls
  <1>4. CallOf(t)' = c /\ Answered(t)' = Answered(t)
    BY <1>2 DEF CallOf, InCall, Answered
  <1>5. Effected(t)' = Effected(t)
    <2>1. ~Effected(t) /\ ~Effected(t)'
      BY <1>2 DEF Effected, ChildLabel, MarkLabel, RelocLabel
    <2> QED
      BY <2>1, SameEffected
  <1>6. Calls' = [Calls EXCEPT ![t] = c] /\ Effects' = Effects /\ Answers' = Answers
    BY <1>2, <1>4, <1>5, OthersKeep, EffectsKeep
  <1>7. AbsSet' = AbsSet
    BY <1>2, SetNextIs
  <1>8. Set!Observe
    BY <1>1, Observed DEF Both
  <1> QED
    BY <1>3, <1>6, <1>7, <1>8 DEF Set!Invoke, Calls, Effects, Answers

LEMMA ReturnsMaps ==
    ASSUME Both, NEW t, Returns(t)
    PROVE  Set!Return(t)
  <1>1. Inv /\ Inv' /\ OwnersOK
    BY DEF Both, SetInv, TreeInv
  <1>2. /\ t \in Thread /\ Others(t) /\ LiveKeys' = LiveKeys
        /\ SameEffects(Thread \ {t}) /\ pc'[t] = "idle" /\ pc[t] = "return"
    BY <1>1, ReturnsStep DEF Returns
  <1>3. Answers[t] # {}
    BY <1>2 DEF Answers, Answered
  <1>4. CallOf(t)' = Set!NoCall /\ Answered(t)' = {}
    BY <1>2 DEF CallOf, InCall, Answered, Set!NoCall
  <1>5. Effected(t)' = FALSE
    <2>1. ~Effected(t)'
      BY <1>2 DEF Effected, ChildLabel, MarkLabel, RelocLabel
    <2> QED
      BY <2>1, EffectedIsNext
  <1>6. /\ Calls' = [Calls EXCEPT ![t] = Set!NoCall]
        /\ Effects' = [Effects EXCEPT ![t] = FALSE]
        /\ Answers' = [Answers EXCEPT ![t] = {}]
    BY <1>2, <1>4, <1>5, OthersKeep, EffectsKeep
  <1>7. AbsSet' = AbsSet
    BY <1>2, SetNextIs
  <1>8. Set!Observe
    BY <1>1, Observed DEF Both
  <1> QED
    BY <1>3, <1>6, <1>7, <1>8 DEF Set!Return, Calls, Effects, Answers

LEMMA Truth ==
    ASSUME NEW b \in BOOLEAN, NEW x, NEW y, NEW S, (x \in y) \in S, b <=> x \in y
    PROVE  b \in S
  <1>1. CASE b
    <2>1. b = TRUE /\ (x \in y) = TRUE
      BY <1>1
    <2> QED
      BY <2>1, Zenon
  <1>2. CASE ~b
    <2>1. b = FALSE /\ (x \in y) = FALSE
      BY <1>2
    <2> QED
      BY <2>1, Zenon
  <1> QED
    BY <1>1, <1>2

(* The call has its answer. *)
LEMMA AnswerMaps ==
    ASSUME Both, NEW t \in Thread, Others(t), Works(t), loc'[t].work = loc[t].work,
           LiveKeys' = LiveKeys, SameEffects(Thread), pc'[t] = "return", Rightly(t)
    PROVE  \E b \in BOOLEAN : Set!Answer(t, b)
  <1>1. Inv /\ Inv'
    BY DEF Both, SetInv, TreeInv
  <1>2. PICK b \in BOOLEAN : b = loc'[t].answer
    BY DEF Rightly
  <1>3. PICK k, w : w = loc[t].work /\ k = w.key
    OBVIOUS
  <1>4. w.op \in {"INSERT", "SEARCH", "DELETE"}
    BY <1>1, <1>3, LocalsOf DEF LocalState, Work
  <1>5. /\ w.op = "SEARCH" => (b <=> k \in LiveKeys)
        /\ w.op = "INSERT" /\ ~b => k \in LiveKeys
        /\ w.op = "DELETE" /\ ~b => k \notin LiveKeys
    BY <1>2, <1>3 DEF Rightly
  <1>6. InCall(t) /\ InCall(t)' /\ pc[t] # "return"
    BY DEF Works, InCall
  <1>7. CallOf(t) = w /\ CallOf(t)' = w /\ Answered(t) = {} /\ Answered(t)' = {b}
    BY <1>2, <1>3, <1>6 DEF CallOf, Answered
  <1>8. /\ Calls[t] = w /\ Calls' = Calls /\ Answers[t] = {}
        /\ Answers' = [Answers EXCEPT ![t] = {b}]
    BY <1>7, OthersKeep DEF Calls, Answers
  <1>9. Effected(t) <=> w.op # "SEARCH" /\ b
    <2>1. Effected(t)' <=> w.op # "SEARCH" /\ b
      BY <1>2, <1>3 DEF Effected, ChildLabel, MarkLabel, RelocLabel
    <2> QED
      BY <2>1 DEF SameEffects
  <1>10. Effects' = Effects
    <2>1. Effected(t)' = Effected(t) /\ SameEffects(Thread \ {t})
      BY SameEffected DEF SameEffects
    <2> QED
      BY <2>1, EffectsKeep
  <1>11. w.op # "SEARCH" => Effects[t] = b
    <2>1. Effects[t] = Effected(t)
      BY DEF Effects
    <2> QED
      BY <1>9, <2>1, EffectedIs
  <1>12. (k \in AbsSet) \in seen[t] /\ AbsSet = LiveKeys /\ AbsSet' = LiveKeys'
    BY <1>3, <1>6, SetNextIs DEF Both, SetInv, SeenOK
  <1>13. Set!Right(t, b)
    <2>1. CASE w.op = "SEARCH"
      <3>1. b \in seen[t]
        BY <1>5, <1>12, <2>1, Truth
      <3> QED
        BY <1>8, <2>1, <3>1 DEF Set!Right, Calls, Effects
    <2>2. CASE w.op = "INSERT"
      <3>1. b \/ TRUE \in seen[t]
        BY <1>5, <1>12, <2>2, Truth
      <3>2. b = Effects[t]
        BY <1>11, <2>2
      <3> QED
        BY <1>8, <2>2, <3>1, <3>2 DEF Set!Right, Calls, Effects
    <2>3. CASE w.op = "DELETE"
      <3>1. b \/ FALSE \in seen[t]
        BY <1>5, <1>12, <2>3, Truth
      <3>2. b = Effects[t]
        BY <1>11, <2>3
      <3> QED
        BY <1>8, <2>3, <3>1, <3>2 DEF Set!Right, Calls, Effects
    <2> QED
      BY <1>4, <2>1, <2>2, <2>3
  <1>14. Set!Running(t)
    BY <1>4, <1>8 DEF Set!Running, Calls, Answers
  <1>15. Set!Observe
    BY <1>1, Observed DEF Both
  <1>16. Set!Answer(t, b)
    BY <1>8, <1>10, <1>12, <1>13, <1>14, <1>15 DEF Set!Answer, Calls, Effects, Answers
  <1> QED
    BY <1>16

(* The call of u has its effect in a step of t. *)
LEMMA EffectMaps ==
    ASSUME Both, NEW t \in Thread, Others(t), Works(t), Works(t)', loc'[t].work = loc[t].work,
           NEW u \in Thread, Acts(u), SameEffects(Thread \ {u})
    PROVE  Set!Effect(u)
  <1>1. Inv /\ Inv'
    BY DEF Both, SetInv, TreeInv
  <1>2. PICK k, w : w = loc[u].work /\ k = w.key
    OBVIOUS
  <1>3. w.op \in {"INSERT", "SEARCH", "DELETE"}
    BY <1>1, <1>2, LocalsOf DEF LocalState, Work
  <1>4. /\ InCall(t) /\ InCall(t)' /\ pc[t] # "return" /\ pc'[t] # "return"
        /\ InCall(u) /\ pc[u] # "return" /\ ~Effected(u) /\ Effected(u)'
    BY DEF Works, InCall, Acts
  <1>5. CallOf(t)' = CallOf(t) /\ Answered(t)' = Answered(t)
    BY <1>4 DEF CallOf, Answered
  <1>6. CallOf(u) = w /\ Answered(u) = {}
    BY <1>2, <1>4 DEF CallOf, Answered
  <1>7. Calls' = Calls /\ Answers' = Answers /\ Calls[u] = w /\ Answers[u] = {}
    BY <1>5, <1>6, OthersKeep DEF Calls, Answers
  <1>8. Effected(u) = FALSE /\ Effected(u)' = TRUE
    BY <1>4, EffectedIs, EffectedIsNext
  <1>9. Effects[u] = FALSE /\ Effects' = [Effects EXCEPT ![u] = TRUE]
    BY <1>8, EffectsKeep DEF Effects
  <1>10. AbsSet = LiveKeys /\ AbsSet' = LiveKeys'
    BY SetNextIs
  <1>11. \/ w.op = "INSERT" /\ k \notin AbsSet /\ AbsSet' = AbsSet \cup {k}
         \/ w.op = "DELETE" /\ k \in AbsSet /\ AbsSet' = AbsSet \ {k}
    BY <1>2, <1>10 DEF Acts, SetChange
  <1>12. Set!Running(u)
    BY <1>3, <1>7 DEF Set!Running, Calls, Answers
  <1>13. Set!Observe
    BY <1>1, Observed DEF Both
  <1> QED
    BY <1>2, <1>7, <1>9, <1>11, <1>12, <1>13 DEF Set!Effect, Calls, Effects, Answers

LEMMA GoesMaps ==
    ASSUME Both, NEW t \in Thread, Goes(t)
    PROVE  \/ UNCHANGED Set!vars
           \/ \E u \in Thread : Set!Effect(u)
           \/ \E b \in BOOLEAN : Set!Answer(t, b)
  <1>1. CallStep(t)
    BY GoesCall DEF Both, SetInv
  <1>2. Others(t) /\ loc'[t].work = loc[t].work /\ Works(t) /\ pc'[t] # "idle"
    BY <1>1 DEF CallStep
  <1>3. CASE LiveKeys' = LiveKeys /\ SameEffects(Thread) /\ pc'[t] # "return"
    <2>1. CallOf(t)' = CallOf(t) /\ Answered(t)' = Answered(t)
      BY <1>2, <1>3 DEF CallOf, Answered, Works, InCall
    <2>2. Effected(t)' = Effected(t) /\ SameEffects(Thread \ {t})
      BY <1>3, SameEffected DEF SameEffects
    <2>3. Calls' = Calls /\ Effects' = Effects /\ Answers' = Answers
      BY <1>2, <2>1, <2>2, OthersKeep, EffectsKeep
    <2> QED
      BY <1>3, <2>3, Stutters
  <1>4. CASE LiveKeys' = LiveKeys /\ SameEffects(Thread) /\ pc'[t] = "return" /\ Rightly(t)
    BY <1>2, <1>4, AnswerMaps
  <1>5. CASE Works(t)' /\ \E u \in Thread : Acts(u) /\ SameEffects(Thread \ {u})
    BY <1>2, <1>5, EffectMaps
  <1> QED
    BY <1>1, <1>3, <1>4, <1>5 DEF CallStep

LEMMA InitMaps ==
    ASSUME HistoryInit, SeenInit
    PROVE  Set!Init
  <1>1. AbsSet = {}
    <2>1. AbsSet = LiveKeys /\ Inv
      BY TreeInit, SetLive DEF TreeInv
    <2>2. DOMAIN node = {base_root}
      BY InitHeap
    <2>3. ~Live(base_root)
      BY DEF Live
    <2> QED
      BY <2>1, <2>2, <2>3 DEF LiveKeys
  <1>2. \A t \in Thread : pc[t] = "idle"
    BY InitHeap
  <1>3. \A t \in Thread : CallOf(t) = Set!NoCall /\ Effected(t) = FALSE /\ Answered(t) = {}
    <2> SUFFICES ASSUME NEW t \in Thread
                 PROVE  CallOf(t) = Set!NoCall /\ Effected(t) = FALSE /\ Answered(t) = {}
      OBVIOUS
    <2>1. ~Effected(t)
      BY <1>2 DEF Effected, ChildLabel, MarkLabel, RelocLabel
    <2>2. Effected(t) = FALSE
      BY <2>1, EffectedIs
    <2> QED
      BY <1>2, <2>2 DEF CallOf, InCall, Answered, Set!NoCall
  <1> QED
    BY <1>1, <1>3 DEF SeenInit, Set!Init

LEMMA NextMaps ==
    ASSUME SetInv, SetInv', ~ReusesBlocks, BothNext
    PROVE  [Set!Next]_(Set!vars)
  <1>1. Inv
    BY DEF SetInv, TreeInv
  <1>2. ASSUME UNCHANGED vars
        PROVE  LiveKeys' = LiveKeys /\ Calls' = Calls /\ Effects' = Effects /\ Answers' = Answers
    <2>1. node' = node /\ reloc' = reloc /\ pc' = pc /\ loc' = loc
      BY <1>2 DEF vars, heap
    <2> QED
      BY <1>1, <2>1, QuietSet DEF Calls, Effects, Answers, CallOf, InCall, Effected, Answered
  <1>3. CASE UNCHANGED <<vars, seen>>
    <2>1. AbsSet' = AbsSet
      BY <1>2, <1>3, SetLive, SetLiveNext DEF SetInv
    <2> QED
      BY <1>2, <1>3, <2>1 DEF Set!vars, Calls, Effects, Answers
  <1>4. CASE SeenNext
    <2>1. Both
      BY <1>4 DEF Both, BothNext
    <2>2. Next /\ CallsOK
      BY <1>4 DEF SeenNext, SetInv
    <2>3. CASE UNCHANGED vars
      BY <1>2, <2>1, <2>3, Stutters
    <2>4. ASSUME NEW t, NEW c, Invokes(t, c) PROVE Set!Next
      <3>1. t \in Thread /\ c \in Set!Call
        BY <2>4 DEF Invokes, CallOn, Set!Call
      <3> QED
        BY <2>1, <2>4, <3>1, InvokesMaps DEF Set!Next
    <2>5. ASSUME NEW t, Returns(t) PROVE Set!Next
      BY <2>1, <2>5, ReturnsMaps DEF Set!Next, Returns
    <2>6. ASSUME NEW t \in Thread, Goes(t) PROVE [Set!Next]_(Set!vars)
      BY <2>1, <2>6, GoesMaps DEF Set!Next
    <2> QED
      BY <1>1, <2>2, <2>3, <2>4, <2>5, <2>6, ThreadSteps
  <1> QED
    BY <1>3, <1>4 DEF BothNext

(* When no deleted block is used again, the calls of add(), remove() and   *)
(* find() on the lock-free tree are those of an atomic set, whoever helps  *)
(* them: any number of threads, initial trees and traces.                  *)
THEOREM AlwaysLinearizable ==
    ASSUME ~ReusesBlocks
    PROVE  HistorySpec /\ SeenSpec => Linearizable
  <1>1. HistoryInit /\ SeenInit => SetInv /\ Set!Init
    BY SetInvInit, InitMaps
  <1>2. SetInv /\ BothNext => SetInv'
    BY SetInvNext
  <1>3. SetInv /\ SetInv' /\ BothNext => [Set!Next]_(Set!vars)
    BY NextMaps
  <1> QED
    BY <1>1, <1>2, <1>3, PTL DEF HistorySpec, SeenSpec, BothNext, Linearizable, Set!Spec
=============================================================================
