----------------------- MODULE FineGrainedBST_proofs -----------------------
(***************************************************************************)
(* The locking of the fine-grained tree and the shape it keeps, for any    *)
(* number of threads, initial tree and trace.                              *)
(*                                                                         *)
(* The inductive invariant Inv says of each thread what it has locked and  *)
(* how it got to the node that it waits for (OnPath), and of the tree that *)
(* parents and children agree (Shape).  A step of a thread changes values  *)
(* and children of nodes that it has locked only (Untouched), so the rest  *)
(* of the threads are where they were (OtherThread).                       *)
(***************************************************************************)
EXTENDS FineGrainedBST, TLAPS

-----------------------------------------------------------------------------
(***************************************************************************)
(* Heaps: what an update of a field changes, and what it leaves alone.     *)
(***************************************************************************)
FG_BST_Node ==
    [value : Int, left : Nat, right : Nat, parent : Nat, lock : Thread \cup {NoThread}]
Heap == Seq(FG_BST_Node)

(* k is h with the owner x of the lock of a. *)
LockIs(h, k, a, x) ==
    /\ k \in Heap /\ Len(k) = Len(h) /\ DOMAIN k = DOMAIN h
    /\ \A b \in DOMAIN h :
          /\ k[b].value = h[b].value /\ k[b].parent = h[b].parent
          /\ \A s \in Side : k[b][s] = h[b][s]
          /\ k[b].lock = IF b = a THEN x ELSE h[b].lock

(* k is h with the child c of a on that side. *)
ChildIs(h, k, a, side, c) ==
    /\ k \in Heap /\ Len(k) = Len(h) /\ DOMAIN k = DOMAIN h
    /\ \A b \in DOMAIN h :
          /\ k[b].value = h[b].value /\ k[b].parent = h[b].parent
          /\ k[b].lock = h[b].lock
          /\ \A s \in Side : (b = a /\ s = side) \/ k[b][s] = h[b][s]
    /\ k[a][side] = c

(* k is h with the node n at its end. *)
NodeAdded(h, k, n) ==
    /\ k \in Heap /\ Len(k) = Len(h) + 1 /\ DOMAIN k = DOMAIN h \cup {Len(h) + 1}
    /\ k[Len(h) + 1] = n /\ \A b \in DOMAIN h : k[b] = h[b]

(* k is h with the node n at a. *)
NodeIs(h, k, a, n) ==
    /\ k \in Heap /\ Len(k) = Len(h) /\ DOMAIN k = DOMAIN h
    /\ k[a] = n /\ \A b \in DOMAIN h : b # a => k[b] = h[b]

WithNode(h, a, n) == [h EXCEPT ![a] = n]

LEMMA NodeType ==
    ASSUME NEW h \in Heap, NEW a \in DOMAIN h
    PROVE  h[a] \in FG_BST_Node
  BY DEF Heap

LEMMA NodeSet ==
    ASSUME NEW h \in Heap, NEW a \in DOMAIN h, NEW n \in FG_BST_Node,
           NEW k, k = WithNode(h, a, n)
    PROVE  NodeIs(h, k, a, n)
  <1>1. \A b \in DOMAIN h : k[b] = IF b = a THEN n ELSE h[b]
    BY DEF WithNode
  <1>2. Len(h) \in Nat /\ DOMAIN h = 1 .. Len(h) /\ \A b \in DOMAIN h : h[b] \in FG_BST_Node
    BY DEF Heap
  <1>3. k = [b \in 1 .. Len(h) |-> IF b = a THEN n ELSE h[b]]
    BY <1>2 DEF WithNode
  <1>4. k \in [1 .. Len(h) -> FG_BST_Node]
    BY <1>2, <1>3
  <1>5. k \in Heap /\ Len(k) = Len(h) /\ DOMAIN k = DOMAIN h
    BY <1>2, <1>4 DEF Heap
  <1> QED
    BY <1>1, <1>5 DEF NodeIs

LEMMA LockSet ==
    ASSUME NEW h \in Heap, NEW a \in DOMAIN h, NEW t \in Thread \cup {NoThread},
           NEW k, k = Locked(h, a, t)
    PROVE  LockIs(h, k, a, t)
  <1>1. PICK n : n = [h[a] EXCEPT !.lock = t]
    OBVIOUS
  <1>2. /\ n \in FG_BST_Node /\ n.value = h[a].value /\ n.parent = h[a].parent
        /\ n.lock = t /\ \A s \in Side : n[s] = h[a][s]
    BY <1>1, NodeType DEF FG_BST_Node, Side
  <1>3. k = WithNode(h, a, n)
    BY <1>1 DEF Locked, WithNode
  <1>4. NodeIs(h, k, a, n)
    BY <1>2, <1>3, NodeSet
  <1> QED
    BY <1>2, <1>4 DEF NodeIs, LockIs

LEMMA UnlockSet ==
    ASSUME NEW h \in Heap, NEW a \in DOMAIN h, NEW k, k = Unlocked(h, a)
    PROVE  LockIs(h, k, a, NoThread)
  <1>1. k = Locked(h, a, NoThread)
    BY DEF Locked, Unlocked
  <1> QED
    BY <1>1, LockSet

WithChild(h, a, side, c) == [h EXCEPT ![a][side] = c]

LEMMA SideSet ==
    ASSUME NEW h \in Heap, NEW a \in DOMAIN h, NEW side \in Side, NEW c \in Nat,
           NEW k, k = WithChild(h, a, side, c)
    PROVE  ChildIs(h, k, a, side, c)
  <1>1. h[a] \in FG_BST_Node
    BY NodeType
  <1>2. PICK n : n = [h[a] EXCEPT ![side] = c]
    OBVIOUS
  <1>3. /\ n \in FG_BST_Node
        /\ n.value = h[a].value /\ n.parent = h[a].parent /\ n.lock = h[a].lock
        /\ \A s \in Side : n[s] = IF s = side THEN c ELSE h[a][s]
    <2>1. CASE side = "left"
      BY <1>1, <1>2, <2>1 DEF FG_BST_Node, Side
    <2>2. CASE side = "right"
      BY <1>1, <1>2, <2>2 DEF FG_BST_Node, Side
    <2> QED
      BY <2>1, <2>2 DEF Side
  <1>4. k = WithNode(h, a, n)
    BY <1>2 DEF WithChild, WithNode
  <1>5. NodeIs(h, k, a, n)
    BY <1>3, <1>4, NodeSet
  <1> QED
    BY <1>3, <1>5 DEF NodeIs, ChildIs

LEMMA AppendNode ==
    ASSUME NEW h \in Heap, NEW n \in FG_BST_Node, NEW k, k = Append(h, n)
    PROVE  NodeAdded(h, k, n)
  <1>1. k \in Heap /\ Len(k) = Len(h) + 1 /\ Len(h) \in Nat /\ DOMAIN h = 1 .. Len(h)
    BY DEF Heap
  <1>2. DOMAIN k = DOMAIN h \cup {Len(h) + 1}
    BY <1>1 DEF Heap
  <1>3. k[Len(h) + 1] = n /\ \A b \in DOMAIN h : k[b] = h[b]
    BY <1>1 DEF Heap
  <1> QED
    BY <1>1, <1>2, <1>3 DEF NodeAdded

-----------------------------------------------------------------------------
(***************************************************************************)
(* The invariant.  h is a heap, r its root and L the nodes of the tree.    *)
(***************************************************************************)
Live == DOMAIN node \ freed

RootOK(h, r, L) == r = NULL \/ (r \in L /\ h[r].parent = NULL)

ChildrenOK(h, L) ==
    \A a \in L, s \in Side :
        h[a][s] # NULL => h[a][s] \in L /\ h[h[a][s]].parent = a

SidesDiffer(h, L) ==
    \A a \in L : h[a]["left"] = h[a]["right"] => h[a]["left"] = NULL

ParentsOK(h, r, L) ==
    \A a \in L : a # r => h[a].parent \in L /\ \E s \in Side : h[h[a].parent][s] = a

(* Parents and children agree. *)
Shape(h, r, L) ==
    RootOK(h, r, L) /\ ChildrenOK(h, L) /\ SidesDiffer(h, L) /\ ParentsOK(h, r, L)

Mine(h, L, t) == {a \in L : h[a].lock = t}

(* Held(t) of a thread that is at label at, with local variables l. *)
HeldAt(h, at, l) ==
    CASE at = "child" -> {l.root}
      [] at = "side" -> {l.to_be_deleted}
      [] at = "first" -> {l.to_be_deleted, l.parent}
      [] at = "successor" -> {l.to_be_deleted, h[l.next].parent}
      [] at = "orphan" -> {l.to_be_deleted, l.parent, l.successor}
      [] OTHER -> {}

Place(p, d, side) == IF p = d THEN side ELSE Opposite(side)

(* How a thread got to the node that it waits for. *)
OnPath(h, r, at, l) ==
    /\ at = "root" => l.next = r /\ r # NULL
    /\ at \in {"child", "side", "first", "successor", "orphan"} => l.next # NULL
    /\ at = "child" => l.next = ChildFor(h, l.root, l.work.key)
    /\ at = "side" => l.next = h[l.to_be_deleted][l.side]
    /\ at = "first" => l.parent # l.to_be_deleted
                       /\ l.next = h[l.parent][Opposite(l.side)]
    /\ at = "successor" =>
          LET q == h[l.next].parent
          IN  q # l.to_be_deleted /\ l.next = h[q][Opposite(l.side)]
    /\ at = "orphan" =>
          /\ l.successor # l.parent /\ l.successor # l.to_be_deleted
          /\ l.successor = h[l.parent][Place(l.parent, l.to_be_deleted, l.side)]
          /\ l.next = h[l.successor][l.side]
          /\ h[l.successor][Opposite(l.side)] = NULL

TreeLockOK(t) ==
    tree_lock = t <=> pc[t] = "root" \/ (pc[t] = "child" /\ loc[t].work.op = "DELETE")

ThreadOK(t) ==
    /\ pc[t] # "abort" => Mine(node, Live, t) = HeldAt(node, pc[t], loc[t])
    /\ TreeLockOK(t)
    /\ OnPath(node, g_root, pc[t], loc[t])

Inv == TypeOK /\ Shape(node, g_root, Live) /\ \A t \in Thread : ThreadOK(t)

-----------------------------------------------------------------------------
(***************************************************************************)
(* Changes that keep the shape.                                            *)
(***************************************************************************)
LEMMA SidesOf ==
    /\ "left" \in Side /\ "right" \in Side
    /\ \A s \in Side : Opposite(s) \in Side /\ Opposite(s) # s
    /\ \A s, z \in Side : z = s \/ z = Opposite(s)
  BY DEF Side, Opposite

LEMMA SameShape ==
    ASSUME NEW h, NEW k, NEW r, NEW L, Shape(h, r, L), 0 \notin L,
           \A b \in L : /\ k[b].parent = h[b].parent
                        /\ \A s \in Side : k[b][s] = h[b][s]
    PROVE  Shape(k, r, L)
  BY DEF Shape, RootOK, ChildrenOK, SidesDiffer, ParentsOK, Side, NULL

(* From h to k, c becomes the child of p at place and p the parent of o. *)
Linking(h, k, L, p, place, c, o) ==
    \A b \in L : /\ k[b].parent = IF b = o THEN p ELSE h[b].parent
                 /\ \A s \in Side :
                       k[b][s] = IF b = p /\ s = place THEN c ELSE h[b][s]

(* The new node a, without children, becomes a child of p. *)
LEMMA NewChild ==
    ASSUME NEW h, NEW k, NEW r, NEW L, Shape(h, r, L), 0 \notin L,
           NEW p \in L, NEW place \in Side, h[p][place] = NULL,
           NEW a, a \notin L, a # 0,
           Linking(h, k, L, p, place, a, NULL),
           k[a].parent = p, \A s \in Side : k[a][s] = NULL
    PROVE  Shape(k, r, L \cup {a})
  <1> USE DEF Linking, NULL
  <1>1. RootOK(k, r, L \cup {a})
    BY DEF Shape, RootOK
  <1>2. ChildrenOK(k, L \cup {a})
    BY DEF Shape, ChildrenOK, NULL
  <1>3. SidesDiffer(k, L \cup {a})
    BY SidesOf DEF Shape, SidesDiffer, ChildrenOK, NULL
  <1>4. ParentsOK(k, r, L \cup {a})
    <2>1. ASSUME NEW b \in L, b # r
          PROVE  k[b].parent \in L \cup {a} /\ \E s \in Side : k[k[b].parent][s] = b
      <3>1. h[b].parent \in L /\ k[b].parent = h[b].parent
        BY <2>1 DEF Shape, ParentsOK
      <3>2. PICK s \in Side : h[h[b].parent][s] = b
        BY <2>1 DEF Shape, ParentsOK
      <3>3. k[h[b].parent][s] = b
        BY <3>1, <3>2 DEF NULL
      <3> QED
        BY <3>1, <3>3
    <2>2. k[a].parent \in L \cup {a} /\ \E s \in Side : k[k[a].parent][s] = a
      OBVIOUS
    <2> QED
      BY <2>1, <2>2 DEF ParentsOK
  <1> QED
    BY <1>1, <1>2, <1>3, <1>4 DEF Shape

(* The node s below p goes: its child o takes its place. *)
LEMMA Unlinked ==
    ASSUME NEW h, NEW k, NEW r, NEW L, Shape(h, r, L), 0 \notin L,
           NEW p \in L, NEW s \in L, s # p, NEW place \in Side, NEW side \in Side,
           h[p][place] = s, NEW o, o = h[s][side], h[s][Opposite(side)] = NULL, o # s,
           Linking(h, k, L, p, place, o, o)
    PROVE  Shape(k, r, L \ {s})
  <1> USE DEF Linking
  <1>1. h[s].parent = p /\ (o # NULL => o \in L /\ h[o].parent = s) /\ s # NULL
    BY DEF Shape, ChildrenOK, NULL
  <1>2. RootOK(k, r, L \ {s})
    BY <1>1 DEF Shape, RootOK, NULL
  <1>3. ChildrenOK(k, L \ {s})
    <2> SUFFICES ASSUME NEW a \in L \ {s}, NEW z \in Side, k[a][z] # NULL
                 PROVE  k[a][z] \in L \ {s} /\ k[k[a][z]].parent = a
      BY DEF ChildrenOK
    <2>1. CASE a = p /\ z = place
      BY <2>1, <1>1
    <2>2. CASE ~(a = p /\ z = place)
      <3>1. k[a][z] = h[a][z] /\ h[a][z] \in L /\ h[h[a][z]].parent = a
        BY <2>2 DEF Shape, ChildrenOK
      <3>2. h[a][z] # s
        <4> SUFFICES ASSUME h[a][z] = s PROVE FALSE
          OBVIOUS
        <4>1. a = p /\ z # place
          BY <3>1, <1>1, <2>2
        <4>2. h[p]["left"] = h[p]["right"]
          BY <4>1 DEF Side
        <4> QED
          BY <4>1, <4>2, <1>1 DEF Shape, SidesDiffer, Side
      <3>3. h[a][z] # o
        BY <3>1, <1>1, <2>2
      <3> QED
        BY <3>1, <3>2, <3>3
    <2> QED
      BY <2>1, <2>2
  <1>4. SidesDiffer(k, L \ {s})
    <2> SUFFICES ASSUME NEW a \in L \ {s}, k[a]["left"] = k[a]["right"]
                 PROVE  k[a]["left"] = NULL
      BY DEF SidesDiffer
    <2>1. CASE a # p
      BY <2>1, SidesOf DEF Shape, SidesDiffer
    <2>2. CASE a = p
      <3>1. o = h[p][Opposite(place)]
        BY <2>2 DEF Side, Opposite
      <3>2. o # NULL => h[o].parent = p
        BY <3>1, SidesOf DEF Shape, ChildrenOK
      <3>3. o = NULL
        BY <3>2, <1>1
      <3> QED
        BY <3>3, <2>2, <3>1 DEF Side, Opposite
    <2> QED
      BY <2>1, <2>2
  <1>5. ParentsOK(k, r, L \ {s})
    <2> SUFFICES ASSUME NEW a \in L \ {s}, a # r
                 PROVE  k[a].parent \in L \ {s} /\ \E z \in Side : k[k[a].parent][z] = a
      BY DEF ParentsOK
    <2>1. CASE a = o
      BY <2>1
    <2>2. CASE a # o
      <3>1. k[a].parent = h[a].parent /\ h[a].parent \in L
        BY <2>2 DEF Shape, ParentsOK
      <3>2. PICK z \in Side : h[h[a].parent][z] = a
        BY DEF Shape, ParentsOK
      <3>3. h[a].parent # s
        BY <2>2, <3>2, SidesOf DEF NULL
      <3>4. ~(h[a].parent = p /\ z = place)
        BY <3>2
      <3> QED
        BY <3>1, <3>2, <3>3, <3>4
    <2> QED
      BY <2>1, <2>2
  <1> QED
    BY <1>2, <1>3, <1>4, <1>5 DEF Shape

-----------------------------------------------------------------------------
(***************************************************************************)
(* What other threads have locked is theirs.  From (h, L) to (k, M), t has *)
(* changed no value and no child of a node that another thread has locked, *)
(* and has locked or unlocked no node for another.                         *)
(***************************************************************************)
Untouched(h, L, k, M, t) ==
    /\ \A a \in L : h[a].lock \notin {t, NoThread} =>
          /\ a \in M /\ k[a].lock = h[a].lock /\ k[a].value = h[a].value
          /\ \A s \in Side : k[a][s] = h[a][s]
    /\ \A a \in M : k[a].lock \notin {t, NoThread} => a \in L /\ h[a].lock = k[a].lock

LEMMA UntouchedToo ==
    ASSUME NEW n, NEW h, NEW k, NEW L, NEW M, NEW t,
           Untouched(n, L, h, L, t), Untouched(h, L, k, M, t)
    PROVE  Untouched(n, L, k, M, t)
  BY DEF Untouched

Label == {"idle", "tree", "root", "child", "side", "first", "successor",
          "orphan", "return", "abort"}

(* The place of another thread u is as good after a step of t as before. *)
LEMMA OtherThread ==
    ASSUME NEW t, NEW u \in Thread, u # t, NEW h, NEW k, NEW r, NEW r2, NEW L, NEW M,
           0 \notin L, Shape(k, r2, M), Untouched(h, L, k, M, t),
           NEW at \in Label, NEW l \in LocalState, at = "root" => r2 = r, at # "abort",
           Mine(h, L, u) = HeldAt(h, at, l), OnPath(h, r, at, l)
    PROVE  Mine(k, M, u) = HeldAt(k, at, l) /\ OnPath(k, r2, at, l)
  <1>1. u # NoThread
    BY ThreadAssumption
  <1>2. Mine(k, M, u) = Mine(h, L, u)
    BY <1>1 DEF Mine, Untouched
  <1>3. \A a \in HeldAt(h, at, l) :
           a \in M /\ k[a].value = h[a].value /\ \A s \in Side : k[a][s] = h[a][s]
    BY <1>1 DEF Mine, Untouched
  <1>4. l.side \in Side /\ Opposite(l.side) \in Side
    BY SidesOf DEF LocalState
  <1>5. CASE at \in {"idle", "tree", "root", "return"}
    BY <1>2, <1>5 DEF HeldAt, OnPath
  <1>6. CASE at = "child"
    BY <1>2, <1>3, <1>6 DEF HeldAt, OnPath, ChildFor, Side
  <1>7. CASE at = "side"
    BY <1>2, <1>3, <1>4, <1>7 DEF HeldAt, OnPath
  <1>8. CASE at = "first"
    BY <1>2, <1>3, <1>4, <1>8 DEF HeldAt, OnPath
  <1>9. CASE at = "successor"
    <2> DEFINE q == h[l.next].parent
    <2>1. /\ q \in HeldAt(h, at, l) /\ q # l.to_be_deleted
          /\ l.next = h[q][Opposite(l.side)] /\ l.next # NULL
      BY <1>9 DEF HeldAt, OnPath
    <2>2. q \in M /\ k[q][Opposite(l.side)] = l.next
      BY <2>1, <1>3, <1>4
    <2>3. k[l.next].parent = q
      BY <2>1, <2>2, <1>4 DEF Shape, ChildrenOK
    <2> QED
      BY <1>2, <1>9, <2>1, <2>2, <2>3 DEF HeldAt, OnPath
  <1>10. CASE at = "orphan"
    <2>1. Place(l.parent, l.to_be_deleted, l.side) \in Side
      BY <1>4 DEF Place
    <2> QED
      BY <1>2, <1>3, <1>4, <1>10, <2>1 DEF HeldAt, OnPath
  <1> QED
    BY <1>5, <1>6, <1>7, <1>8, <1>9, <1>10 DEF Label

(* A step of t on the tree, after which it is at label at. *)
TreeStep(t, at, l) ==
    /\ at \in Label /\ l \in LocalState /\ Goto(t, at) /\ SetLocals(t, l)
    /\ node' \in Heap /\ g_root' \in 0 .. Len(node') /\ freed' \subseteq 1 .. Len(node')
    /\ Shape(node', g_root', Live') /\ Untouched(node, Live, node', Live', t)
    /\ at # "abort" => Mine(node', Live', t) = HeldAt(node', at, l)
    /\ OnPath(node', g_root', at, l)

LEMMA LiveType ==
    ASSUME Inv
    PROVE  /\ node \in Heap /\ DOMAIN node = 1 .. Len(node) /\ Len(node) \in Nat
           /\ 0 \notin Live /\ Live \subseteq DOMAIN node
           /\ \A t \in Thread : pc[t] \in Label /\ loc[t] \in LocalState
  BY DEF Inv, TypeOK, Heap, FG_BST_Node, Live, Label

LEMMA StepInv ==
    ASSUME Inv, ~Aborted, NEW t \in Thread, NEW at, NEW l, TreeStep(t, at, l),
           create' \in Seq(Int), queue' \in Seq(Work),
           tree_lock' \in {tree_lock, t, NoThread},
           tree_lock' = tree_lock \/ tree_lock \in {t, NoThread},
           g_root' = g_root \/ tree_lock \in {t, NoThread},
           tree_lock' = t <=> at = "root" \/ (at = "child" /\ l.work.op = "DELETE")
    PROVE  Inv'
  <1>1. TypeOK'
    BY DEF Inv, TypeOK, TreeStep, Goto, SetLocals, Heap, FG_BST_Node, Label
  <1>2. pc'[t] = at /\ loc'[t] = l
    BY DEF Inv, TypeOK, TreeStep, Goto, SetLocals
  <1>3. ThreadOK(t)'
    BY <1>2 DEF ThreadOK, TreeLockOK, TreeStep
  <1>4. ASSUME NEW u \in Thread, u # t
        PROVE  ThreadOK(u)'
    <2>1. pc'[u] = pc[u] /\ loc'[u] = loc[u]
      BY <1>4 DEF Inv, TypeOK, TreeStep, Goto, SetLocals
    <2>2. pc[u] # "abort" /\ ThreadOK(u) /\ u # NoThread
      BY ThreadAssumption DEF Aborted, Inv
    <2>3. TreeLockOK(u)'
      BY <1>4, <2>1, <2>2 DEF ThreadOK, TreeLockOK
    <2>4. pc[u] = "root" => g_root' = g_root
      BY <1>4, <2>2 DEF ThreadOK, TreeLockOK
    <2>5. Mine(node', Live', u) = HeldAt(node', pc[u], loc[u])
          /\ OnPath(node', g_root', pc[u], loc[u])
      <3>1. /\ 0 \notin Live /\ pc[u] \in Label /\ loc[u] \in LocalState
            /\ Shape(node', g_root', Live') /\ Untouched(node, Live, node', Live', t)
            /\ Mine(node, Live, u) = HeldAt(node, pc[u], loc[u])
            /\ OnPath(node, g_root, pc[u], loc[u])
        BY <2>2, LiveType DEF ThreadOK, TreeStep
      <3> QED
        BY <1>4, <2>2, <2>4, <3>1, OtherThread
    <2> QED
      BY <2>1, <2>3, <2>5 DEF ThreadOK
  <1> QED
    BY <1>1, <1>3, <1>4 DEF Inv, TreeStep

-----------------------------------------------------------------------------
(***************************************************************************)
(* The heap in the midst of a step of t, which has the nodes of M locked.  *)
(***************************************************************************)
Ready(t, h, M) ==
    /\ h \in Heap /\ Len(h) = Len(node) /\ Shape(h, g_root, Live)
    /\ Untouched(node, Live, h, Live, t) /\ Mine(h, Live, t) = M

LEMMA FieldTypes ==
    ASSUME NEW h \in Heap
    PROVE  /\ Len(h) \in Nat /\ DOMAIN h = 1 .. Len(h)
           /\ \A a \in DOMAIN h :
                 /\ h[a].value \in Int /\ h[a].parent \in Nat
                 /\ \A s \in Side : h[a][s] \in Nat
  <1>1. Len(h) \in Nat /\ DOMAIN h = 1 .. Len(h) /\ \A a \in DOMAIN h : h[a] \in FG_BST_Node
    BY DEF Heap
  <1>2. \A a \in DOMAIN h : /\ h[a].value \in Int /\ h[a].parent \in Nat
                            /\ \A s \in Side : h[a][s] \in Nat
    BY <1>1 DEF FG_BST_Node, Side
  <1> QED
    BY <1>1, <1>2

LEMMA ReadyFacts ==
    ASSUME Inv, NEW t \in Thread, NEW h, NEW M, Ready(t, h, M)
    PROVE  /\ h \in Heap /\ Len(h) = Len(node) /\ Len(node) \in Nat
           /\ DOMAIN h = DOMAIN node /\ DOMAIN node = 1 .. Len(node)
           /\ M \subseteq Live /\ Live \subseteq DOMAIN h /\ 0 \notin Live
           /\ \A a \in Live : a \in Nat /\ (h[a].lock = t <=> a \in M)
  <1>1. h \in Heap /\ Len(h) = Len(node) /\ Mine(h, Live, t) = M
    BY DEF Ready
  <1>2. DOMAIN h = DOMAIN node /\ Live \subseteq DOMAIN h
    BY <1>1, LiveType, FieldTypes
  <1> QED
    BY <1>1, <1>2, LiveType DEF Mine

LEMMA LockedReady ==
    ASSUME Inv, NEW t \in Thread, NEW a \in Live, CanLock(a),
           NEW h, h = Locked(node, a, t)
    PROVE  /\ Ready(t, h, Mine(node, Live, t) \cup {a})
           /\ LockIs(node, h, a, t) /\ a \notin Mine(node, Live, t)
  <1>1. t # NoThread /\ a \in DOMAIN node /\ node \in Heap /\ node[a].lock = NoThread
    BY ThreadAssumption, LiveType DEF CanLock
  <1>2. LockIs(node, h, a, t)
    BY <1>1, LockSet
  <1>3. Shape(h, g_root, Live)
    BY <1>2, LiveType, SameShape DEF Inv, LockIs
  <1>4. Untouched(node, Live, h, Live, t)
    BY <1>1, <1>2, LiveType DEF Untouched, LockIs
  <1>5. Mine(h, Live, t) = Mine(node, Live, t) \cup {a} /\ a \notin Mine(node, Live, t)
    BY <1>1, <1>2, LiveType DEF Mine, LockIs
  <1> QED
    BY <1>2, <1>3, <1>4, <1>5 DEF Ready, LockIs

LEMMA UnlockedReady ==
    ASSUME Inv, NEW t \in Thread, NEW h, NEW M, Ready(t, h, M), NEW a \in M,
           NEW k, k = Unlocked(h, a)
    PROVE  Ready(t, k, M \ {a}) /\ LockIs(h, k, a, NoThread)
  <1>1. /\ t # NoThread /\ a \in Live /\ h \in Heap /\ h[a].lock = t
        /\ DOMAIN h = DOMAIN node /\ Live \subseteq DOMAIN h
    BY ThreadAssumption, ReadyFacts
  <1>2. LockIs(h, k, a, NoThread)
    BY <1>1, UnlockSet
  <1>3. Shape(k, g_root, Live)
    BY <1>1, <1>2, LiveType, SameShape DEF Ready, LockIs
  <1>4. Untouched(node, Live, k, Live, t)
    <2>1. Untouched(h, Live, k, Live, t)
      BY <1>1, <1>2 DEF Untouched, LockIs
    <2> QED
      BY <2>1, UntouchedToo DEF Ready
  <1>5. Mine(k, Live, t) = M \ {a}
    BY <1>1, <1>2 DEF Mine, Ready, LockIs
  <1> QED
    BY <1>2, <1>3, <1>4, <1>5 DEF Ready, LockIs

-----------------------------------------------------------------------------
(***************************************************************************)
(* The ends of the operations.                                             *)
(***************************************************************************)
LEMMA LocalsType ==
    ASSUME NEW w \in Work
    PROVE  /\ Locals(w) \in LocalState /\ Locals(w).work = w
           /\ \A b \in BOOLEAN : [Locals(w) EXCEPT !.answer = b] \in LocalState
           /\ \A d \in Nat, s \in Side :
                 [Locals(w) EXCEPT !.to_be_deleted = d, !.side = s] \in LocalState
  BY DEF Locals, LocalState, Side, NULL

LEMMA AnswerStep ==
    ASSUME Inv, NEW t \in Thread, NEW b \in BOOLEAN, Answer(t, b), node' \in Heap,
           g_root' \in 0 .. Len(node'), freed' \subseteq 1 .. Len(node'),
           Shape(node', g_root', Live'), Untouched(node, Live, node', Live', t),
           Mine(node', Live', t) = {}
    PROVE  \E l : TreeStep(t, "return", l)
  <1> DEFINE l == [Locals(loc[t].work) EXCEPT !.answer = b]
  <1>1. l \in LocalState
    BY LiveType, LocalsType DEF LocalState
  <1>2. Goto(t, "return") /\ SetLocals(t, l)
    BY DEF Answer
  <1> HIDE DEF l
  <1>3. TreeStep(t, "return", l)
    BY <1>1, <1>2 DEF TreeStep, Label, HeldAt, OnPath
  <1> QED
    BY <1>3

LEMMA ReadyHeap ==
    ASSUME Inv, NEW t \in Thread, NEW h, NEW M, Ready(t, h, M), node' = h,
           UNCHANGED <<g_root, freed>>
    PROVE  /\ node' \in Heap /\ g_root' \in 0 .. Len(node')
           /\ freed' \subseteq 1 .. Len(node') /\ Live' = Live
           /\ Shape(node', g_root', Live') /\ Untouched(node, Live, node', Live', t)
           /\ Mine(node', Live', t) = M
  <1>1. DOMAIN h = DOMAIN node
    BY LiveType, FieldTypes DEF Ready
  <1>2. Live' = Live
    BY <1>1 DEF Live
  <1> QED
    BY <1>2, LiveType DEF Ready, Inv, TypeOK

LEMMA ChildStep ==
    ASSUME Inv, NEW t \in Thread, NEW h, NEW a, Ready(t, h, {a}),
           ChildFor(h, a, loc[t].work.key) # NULL, LockChildOf(t, h, a)
    PROVE  \E l : TreeStep(t, "child", l) /\ l.work = loc[t].work
  <1> DEFINE c == ChildFor(h, a, loc[t].work.key)
             l == [loc[t] EXCEPT !.root = a, !.next = c]
  <1>1. a \in Live /\ a \in Nat /\ h \in Heap /\ DOMAIN h = DOMAIN node
    BY ReadyFacts
  <1>2. c \in Nat
    BY <1>1, LiveType, FieldTypes, SidesOf DEF ChildFor
  <1>3. l \in LocalState /\ l.root = a /\ l.next = c /\ l.work = loc[t].work
    BY <1>1, <1>2, LiveType DEF LocalState
  <1>4. Goto(t, "child") /\ SetLocals(t, l)
    BY DEF LockChildOf, LockNext
  <1>5. node' = h /\ UNCHANGED <<g_root, freed>>
    BY DEF LockChildOf, Waiting
  <1>6. OnPath(node', g_root', "child", l) /\ HeldAt(node', "child", l) = {a}
    BY <1>3, <1>5 DEF OnPath, HeldAt
  <1>7. TreeStep(t, "child", l)
    <2> HIDE DEF l
    <2> QED
      BY <1>3, <1>4, <1>5, <1>6, ReadyHeap DEF TreeStep, Label
  <1> QED
    BY <1>3, <1>7

LEMMA SearchStep ==
    ASSUME Inv, NEW t \in Thread, NEW h, NEW a, Ready(t, h, {a}), Search(t, h, a)
    PROVE  /\ \E at \in {"child", "return"} : \E l :
                 TreeStep(t, at, l) /\ (at = "child" => l.work = loc[t].work)
           /\ g_root' = g_root
  <1>1. CASE loc[t].work.key # h[a].value /\ ChildFor(h, a, loc[t].work.key) # NULL
    BY <1>1, ChildStep DEF Search, LockChildOf
  <1>2. CASE ~(loc[t].work.key # h[a].value /\ ChildFor(h, a, loc[t].work.key) # NULL)
    <2>1. /\ node' = Unlocked(h, a) /\ UNCHANGED <<g_root, freed>>
          /\ Answer(t, loc[t].work.key = h[a].value)
      BY <1>2 DEF Search
    <2>2. Ready(t, node', {})
      BY <2>1, UnlockedReady
    <2>3. \E l : TreeStep(t, "return", l)
      BY <2>1, <2>2, ReadyHeap, AnswerStep
    <2> QED
      BY <2>1, <2>3
  <1> QED
    BY <1>1, <1>2

(* insert() puts the new node n below a, and a is unlocked. *)
ChildAdded(h, k, a, side, n, val) ==
    /\ k \in Heap /\ Len(k) = Len(h) + 1 /\ DOMAIN k = DOMAIN h \cup {n}
    /\ \A b \in DOMAIN h :
          /\ k[b].value = h[b].value /\ k[b].parent = h[b].parent
          /\ b # a => k[b].lock = h[b].lock
          /\ \A s \in Side : (b = a /\ s = side) \/ k[b][s] = h[b][s]
    /\ k[a].lock = NoThread /\ k[a][side] = n
    /\ k[n].value = val /\ k[n].parent = a /\ k[n].lock = NoThread
    /\ \A s \in Side : k[n][s] = NULL

LEMMA ChildAppended ==
    ASSUME NEW h \in Heap, NEW a \in DOMAIN h, NEW side \in Side, NEW val \in Int,
           NEW n, n = Len(h) + 1,
           NEW k, k = Append(Unlocked(WithChild(h, a, side, n), a), createNode(val, a))
    PROVE  ChildAdded(h, k, a, side, n, val)
  <1>1. Len(h) \in Nat /\ DOMAIN h = 1 .. Len(h) /\ n \in Nat /\ a \in Nat /\ n # a
    BY FieldTypes
  <1>2. PICK w : w = WithChild(h, a, side, n)
    OBVIOUS
  <1>3. PICK u : u = Unlocked(w, a)
    OBVIOUS
  <1>4. ChildIs(h, w, a, side, n)
    BY <1>1, <1>2, SideSet
  <1>5. LockIs(w, u, a, NoThread)
    <2>1. w \in Heap /\ a \in DOMAIN w
      BY <1>4 DEF ChildIs
    <2> QED
      BY <1>3, <2>1, UnlockSet
  <1>6. createNode(val, a) \in FG_BST_Node
    BY <1>1 DEF createNode, FG_BST_Node, NULL
  <1>7. NodeAdded(u, k, createNode(val, a))
    <2>1. u \in Heap /\ k = Append(u, createNode(val, a))
      BY <1>2, <1>3, <1>5 DEF LockIs
    <2> QED
      BY <1>6, <2>1, AppendNode
  <1>8. /\ u \in Heap /\ Len(u) = Len(h) /\ DOMAIN u = DOMAIN h
        /\ \A b \in DOMAIN h :
              /\ u[b].value = h[b].value /\ u[b].parent = h[b].parent
              /\ u[b].lock = IF b = a THEN NoThread ELSE h[b].lock
              /\ \A s \in Side : (b = a /\ s = side) \/ u[b][s] = h[b][s]
        /\ u[a][side] = n
    BY <1>4, <1>5 DEF ChildIs, LockIs
  <1>9. /\ k \in Heap /\ Len(k) = Len(h) + 1 /\ DOMAIN k = DOMAIN h \cup {n}
        /\ k[n] = createNode(val, a) /\ \A b \in DOMAIN h : k[b] = u[b]
    BY <1>7, <1>8 DEF NodeAdded
  <1>10. /\ k[n].value = val /\ k[n].parent = a /\ k[n].lock = NoThread
         /\ \A s \in Side : k[n][s] = NULL
    BY <1>9 DEF createNode, Side, NULL
  <1> QED
    BY <1>8, <1>9, <1>10 DEF ChildAdded

LEMMA InsertNew ==
    ASSUME Inv, NEW t \in Thread, NEW h, NEW a, Ready(t, h, {a}),
           NEW side \in Side, h[a][side] = NULL, NEW val \in Int,
           node' = Append(Unlocked(WithChild(h, a, side, Len(h) + 1), a),
                          createNode(val, a)),
           Answer(t, TRUE), UNCHANGED <<g_root, freed>>
    PROVE  \E l : TreeStep(t, "return", l)
  <1>1. PICK n : n = Len(h) + 1
    OBVIOUS
  <1>2. /\ h \in Heap /\ a \in Live /\ a \in DOMAIN h /\ h[a].lock = t
        /\ DOMAIN h = DOMAIN node /\ Len(h) \in Nat /\ Len(h) = Len(node)
        /\ Live \subseteq DOMAIN h /\ n \notin DOMAIN h /\ n # 0
    BY <1>1, ReadyFacts
  <1>3. ChildAdded(h, node', a, side, n, val)
    BY <1>1, <1>2, ChildAppended
  <1>4. g_root \in 0 .. Len(node) /\ freed \subseteq 1 .. Len(node)
    BY DEF Inv, TypeOK
  <1>5. Live' = Live \cup {n}
    <2>1. DOMAIN node' = DOMAIN node \cup {n} /\ n \notin freed
      BY <1>2, <1>3, <1>4, LiveType DEF ChildAdded
    <2> QED
      BY <2>1 DEF Live
  <1>6. Shape(node', g_root', Live')
    <2>1. Shape(h, g_root, Live) /\ n \notin Live /\ 0 \notin Live
      BY <1>2, LiveType DEF Ready
    <2>2. Linking(h, node', Live, a, side, n, NULL)
      BY <1>2, <1>3, <2>1 DEF Linking, ChildAdded, NULL
    <2>3. node'[n].parent = a /\ \A s \in Side : node'[n][s] = NULL
      BY <1>3 DEF ChildAdded
    <2>4. Shape(node', g_root, Live \cup {n})
      BY <1>2, <2>1, <2>2, <2>3, NewChild
    <2> QED
      BY <1>5, <2>4
  <1>7. Untouched(node, Live, node', Live', t)
    <2>1. Untouched(h, Live, node', Live', t)
      BY <1>2, <1>3, <1>5 DEF Untouched, ChildAdded
    <2> QED
      BY <2>1, UntouchedToo DEF Ready
  <1>8. Mine(node', Live', t) = {}
    BY ThreadAssumption, <1>2, <1>3, <1>5 DEF Mine, Ready, ChildAdded
  <1>9. node' \in Heap /\ g_root' \in 0 .. Len(node') /\ freed' \subseteq 1 .. Len(node')
    <2>1. Len(node) \in Nat /\ Len(node') = Len(node) + 1 /\ node' \in Heap
      BY <1>2, <1>3 DEF ChildAdded
    <2> QED
      BY <1>4, <2>1
  <1> QED
    BY <1>6, <1>7, <1>8, <1>9, AnswerStep

LEMMA InsertStep ==
    ASSUME Inv, NEW t \in Thread, NEW h, NEW a, Ready(t, h, {a}), Insert(t, h, a)
    PROVE  /\ \E at \in {"child", "return", "abort"} : \E l :
                 TreeStep(t, at, l) /\ (at = "child" => l.work = loc[t].work)
           /\ g_root' = g_root
  <1> DEFINE val == loc[t].work.key
             new == Len(h) + 1
             side == IF val < h[a].value THEN "left" ELSE "right"
  <1>1. CASE val = h[a].value
    <2>1. node' = h /\ Goto(t, "abort") /\ UNCHANGED <<g_root, freed, loc>>
      BY <1>1 DEF Insert
    <2>2. SetLocals(t, loc[t]) /\ loc[t] \in LocalState
      BY <2>1, LiveType DEF SetLocals, Inv, TypeOK
    <2>3. TreeStep(t, "abort", loc[t])
      BY <2>1, <2>2, ReadyHeap DEF TreeStep, Label, OnPath
    <2> QED
      BY <2>1, <2>3
  <1>2. CASE val # h[a].value /\ ChildFor(h, a, val) # NULL
    BY <1>2, ChildStep DEF Insert, LockChildOf
  <1>3. CASE val # h[a].value /\ ChildFor(h, a, val) = NULL
    <2>1. /\ node' = Append(Unlocked([h EXCEPT ![a][side] = new], a), createNode(val, a))
          /\ Answer(t, TRUE) /\ UNCHANGED <<g_root, freed>>
      BY <1>3 DEF Insert
    <2>2. side \in Side /\ h[a][side] = NULL /\ val \in Int
      BY <1>3, LiveType DEF ChildFor, Side, LocalState, Work
    <2>3. node' = Append(Unlocked(WithChild(h, a, side, new), a), createNode(val, a))
      BY <2>1 DEF WithChild
    <2> HIDE DEF side, val
    <2>4. \E l : TreeStep(t, "return", l)
      BY <2>1, <2>2, <2>3, InsertNew
    <2> QED
      BY <2>1, <2>4
  <1> QED
    BY <1>1, <1>2, <1>3

-----------------------------------------------------------------------------
(***************************************************************************)
(* remove(), when the replacement has been found.                          *)
(***************************************************************************)
WithValue(h, a, v) == [h EXCEPT ![a].value = v]

(* successor s and its parent p, with the child o of s, after Replaced. *)
SuccessorGone(h, k, d, s, p, place, o) ==
    /\ k \in Heap /\ Len(k) = Len(h) /\ DOMAIN k = DOMAIN h
    /\ \A b \in DOMAIN h :
          /\ k[b].value = IF b = d THEN h[s].value ELSE h[b].value
          /\ k[b].parent = IF b = o THEN p ELSE h[b].parent
          /\ k[b].lock = IF b \in {p, d} THEN NoThread ELSE h[b].lock
          /\ \A z \in Side : k[b][z] = IF b = p /\ z = place THEN o ELSE h[b][z]

(* k is h with the value v of a. *)
ValueIs(h, k, a, v) ==
    /\ k \in Heap /\ Len(k) = Len(h) /\ DOMAIN k = DOMAIN h
    /\ \A b \in DOMAIN h :
          /\ k[b].value = IF b = a THEN v ELSE h[b].value
          /\ k[b].parent = h[b].parent /\ k[b].lock = h[b].lock
          /\ \A s \in Side : k[b][s] = h[b][s]

(* k is h with the parent p of a. *)
ParentIs(h, k, a, p) ==
    /\ k \in Heap /\ Len(k) = Len(h) /\ DOMAIN k = DOMAIN h
    /\ \A b \in DOMAIN h :
          /\ k[b].value = h[b].value /\ k[b].lock = h[b].lock
          /\ k[b].parent = IF b = a THEN p ELSE h[b].parent
          /\ \A s \in Side : k[b][s] = h[b][s]

LEMMA ValueSet ==
    ASSUME NEW h \in Heap, NEW a \in DOMAIN h, NEW v \in Int,
           NEW k, k = WithValue(h, a, v)
    PROVE  ValueIs(h, k, a, v)
  <1>1. PICK n : n = [h[a] EXCEPT !.value = v]
    OBVIOUS
  <1>2. /\ n \in FG_BST_Node /\ n.parent = h[a].parent /\ n.lock = h[a].lock
        /\ n.value = v /\ \A s \in Side : n[s] = h[a][s]
    BY <1>1, NodeType DEF FG_BST_Node, Side
  <1>3. k = WithNode(h, a, n)
    BY <1>1 DEF WithValue, WithNode
  <1>4. NodeIs(h, k, a, n)
    BY <1>2, <1>3, NodeSet
  <1> QED
    BY <1>2, <1>4 DEF NodeIs, ValueIs

LEMMA ParentSet ==
    ASSUME NEW h \in Heap, NEW a \in DOMAIN h, NEW p \in Nat, NEW k, k = Adopted(h, a, p)
    PROVE  ParentIs(h, k, a, p)
  <1>1. PICK n : n = [h[a] EXCEPT !.parent = p]
    OBVIOUS
  <1>2. /\ n \in FG_BST_Node /\ n.value = h[a].value /\ n.lock = h[a].lock
        /\ n.parent = p /\ \A s \in Side : n[s] = h[a][s]
    BY <1>1, NodeType DEF FG_BST_Node, Side
  <1>3. k = WithNode(h, a, n)
    BY <1>1 DEF Adopted, WithNode
  <1>4. NodeIs(h, k, a, n)
    BY <1>2, <1>3, NodeSet
  <1> QED
    BY <1>2, <1>4 DEF NodeIs, ParentIs

LEMMA ReplacedHeap ==
    ASSUME NEW h \in Heap, NEW d \in DOMAIN h, NEW s \in DOMAIN h, NEW p \in DOMAIN h,
           NEW side \in Side, NEW o, o = h[s][side], o = NULL \/ o \in DOMAIN h,
           NEW k, k = Unlocked(Unlocked(Replaced(h, d, s, p, side), p), d)
    PROVE  SuccessorGone(h, k, d, s, p, Place(p, d, side), o)
  <1> DEFINE place == Place(p, d, side)
  <1>1. /\ Len(h) \in Nat /\ DOMAIN h = 1 .. Len(h) /\ o \in Nat /\ p \in Nat
        /\ h[s].value \in Int /\ place \in Side
    BY FieldTypes, SidesOf DEF Place, NULL
  <1>2. PICK v : v = WithValue(h, d, h[s].value)
    OBVIOUS
  <1>3. PICK w : w = WithChild(v, p, place, o)
    OBVIOUS
  <1>4. PICK x : x = Replaced(h, d, s, p, side)
    OBVIOUS
  <1>5. PICK y : y = Unlocked(x, p)
    OBVIOUS
  <1>6. x = IF o = NULL THEN w ELSE Adopted(w, o, p)
    <2>1. w = [h EXCEPT ![d].value = h[s].value, ![p][place] = o]
      BY <1>2, <1>3 DEF WithValue, WithChild
    <2> QED
      BY <1>4, <2>1 DEF Replaced, Place
  <1> HIDE DEF place
  <1>7. /\ v \in Heap /\ Len(v) = Len(h) /\ DOMAIN v = DOMAIN h
        /\ \A b \in DOMAIN h :
              /\ v[b].value = IF b = d THEN h[s].value ELSE h[b].value
              /\ v[b].parent = h[b].parent /\ v[b].lock = h[b].lock
              /\ \A z \in Side : v[b][z] = h[b][z]
    <2>1. ValueIs(h, v, d, h[s].value)
      BY <1>1, <1>2, ValueSet
    <2> QED
      BY <2>1 DEF ValueIs
  <1>8. ChildIs(v, w, p, place, o)
    BY <1>1, <1>3, <1>7, SideSet
  <1>9. /\ w \in Heap /\ Len(w) = Len(h) /\ DOMAIN w = DOMAIN h
        /\ \A b \in DOMAIN h :
              /\ w[b].value = IF b = d THEN h[s].value ELSE h[b].value
              /\ w[b].parent = h[b].parent /\ w[b].lock = h[b].lock
              /\ \A z \in Side : w[b][z] = IF b = p /\ z = place THEN o ELSE h[b][z]
    BY <1>7, <1>8 DEF ChildIs
  <1>10. /\ x \in Heap /\ Len(x) = Len(h) /\ DOMAIN x = DOMAIN h
         /\ \A b \in DOMAIN h :
               /\ x[b].value = w[b].value /\ x[b].lock = w[b].lock
               /\ x[b].parent = IF b = o THEN p ELSE w[b].parent
               /\ \A z \in Side : x[b][z] = w[b][z]
    <2>1. CASE o = NULL
      BY <1>1, <1>6, <1>9, <2>1 DEF NULL
    <2>2. CASE o # NULL
      <3>1. x = Adopted(w, o, p) /\ o \in DOMAIN w
        BY <1>6, <1>9, <2>2
      <3>2. ParentIs(w, x, o, p)
        BY <1>1, <1>9, <3>1, ParentSet
      <3> QED
        BY <1>9, <3>2 DEF ParentIs
    <2> QED
      BY <2>1, <2>2
  <1>11. LockIs(x, y, p, NoThread)
    BY <1>5, <1>10, UnlockSet
  <1>12. LockIs(y, k, d, NoThread)
    <2>1. y \in Heap /\ d \in DOMAIN y /\ k = Unlocked(y, d)
      BY <1>4, <1>5, <1>10, <1>11 DEF LockIs
    <2> QED
      BY <2>1, UnlockSet
  <1>13. /\ k \in Heap /\ Len(k) = Len(h) /\ DOMAIN k = DOMAIN h
         /\ \A b \in DOMAIN h :
               /\ k[b].value = x[b].value /\ k[b].parent = x[b].parent
               /\ k[b].lock = IF b \in {p, d} THEN NoThread ELSE x[b].lock
               /\ \A z \in Side : k[b][z] = x[b][z]
    BY <1>10, <1>11, <1>12 DEF LockIs
  <1>14. SuccessorGone(h, k, d, s, p, place, o)
    BY <1>9, <1>10, <1>13 DEF SuccessorGone
  <1> QED
    BY <1>14 DEF place

(* Where the successor s, its parent p and its child o are in the heap h. *)
Found(h, d, s, p, side) ==
    /\ s # p /\ s # d /\ h[p][Place(p, d, side)] = s
    /\ h[s][Opposite(side)] = NULL

LEMMA ReplacedStep ==
    ASSUME Inv, NEW t \in Thread, NEW h, NEW d, NEW s, NEW p, NEW side \in Side,
           Ready(t, h, {d, p, s}), Found(h, d, s, p, side), h[s][side] # s,
           node' = Unlocked(Unlocked(Replaced(h, d, s, p, side), p), d),
           freed' = freed \cup {s}, g_root' = g_root, Answer(t, TRUE)
    PROVE  \E l : TreeStep(t, "return", l)
  <1>1. PICK o : o = h[s][side]
    OBVIOUS
  <1>2. PICK place : place = Place(p, d, side) /\ place \in Side
    BY SidesOf DEF Place
  <1>3. /\ h \in Heap /\ DOMAIN h = DOMAIN node /\ Len(h) = Len(node)
        /\ {d, p, s} \subseteq Live /\ Live \subseteq DOMAIN h /\ 0 \notin Live
        /\ \A a \in Live : h[a].lock = t <=> a \in {d, p, s}
    BY ReadyFacts
  <1>4. o = NULL \/ o \in Live
    BY <1>1, <1>3 DEF Ready, Shape, ChildrenOK
  <1>5. SuccessorGone(h, node', d, s, p, place, o)
    BY <1>1, <1>2, <1>3, <1>4, ReplacedHeap
  <1>6. Live' = Live \ {s}
    BY <1>3, <1>5 DEF Live, SuccessorGone
  <1>7. Shape(node', g_root', Live')
    <2>1. Linking(h, node', Live, p, place, o, o)
      BY <1>3, <1>5 DEF Linking, SuccessorGone
    <2>2. Shape(node', g_root, Live \ {s})
      BY <1>1, <1>2, <1>3, <2>1, Unlinked DEF Ready, Found
    <2> QED
      BY <1>6, <2>2
  <1>8. Untouched(node, Live, node', Live', t)
    <2>1. Untouched(h, Live, node', Live', t)
      BY <1>3, <1>5, <1>6 DEF Untouched, SuccessorGone
    <2> QED
      BY <2>1, UntouchedToo DEF Ready
  <1>9. Mine(node', Live', t) = {}
    BY ThreadAssumption, <1>3, <1>5, <1>6 DEF Mine, SuccessorGone
  <1>10. node' \in Heap /\ g_root' \in 0 .. Len(node') /\ freed' \subseteq 1 .. Len(node')
    <2>1. g_root \in 0 .. Len(node) /\ freed \subseteq 1 .. Len(node)
      BY DEF Inv, TypeOK
    <2>2. node' \in Heap /\ Len(node') = Len(node) /\ s \in 1 .. Len(node)
      BY <1>3, <1>5, LiveType DEF SuccessorGone
    <2> QED
      BY <2>1, <2>2
  <1> QED
    BY <1>7, <1>8, <1>9, <1>10, AnswerStep

LEMMA ReplaceStep ==
    ASSUME Inv, NEW t \in Thread, NEW h, NEW s, NEW p, NEW d, d = loc[t].to_be_deleted,
           Ready(t, h, {d, p, s}), Found(h, d, s, p, loc[t].side),
           h[s][loc[t].side] # s, Replace(t, h, s, p), g_root' = g_root
    PROVE  \E at \in {"orphan", "return"} : \E l : TreeStep(t, at, l)
  <1>1. PICK side : side = loc[t].side /\ side \in Side
    BY LiveType DEF LocalState
  <1>2. PICK o : o = h[s][side]
    OBVIOUS
  <1>3. CASE o = NULL
    <2>1. /\ node' = Unlocked(Unlocked(Replaced(h, d, s, p, side), p), d)
          /\ freed' = freed \cup {s} /\ Answer(t, TRUE)
      BY <1>1, <1>2, <1>3 DEF Replace
    <2>2. \E l : TreeStep(t, "return", l)
      BY <1>1, <2>1, ReplacedStep
    <2> QED
      BY <2>2
  <1>4. CASE o # NULL
    <2> DEFINE l == [[loc[t] EXCEPT !.successor = s, !.parent = p] EXCEPT !.next = o]
    <2>1. /\ node' = h /\ UNCHANGED <<g_root, freed>>
          /\ Goto(t, "orphan") /\ SetLocals(t, l)
      BY <1>1, <1>2, <1>4 DEF Replace, LockNext
    <2>2. {d, p, s} \subseteq Live /\ h \in Heap /\ DOMAIN h = DOMAIN node
      BY ReadyFacts
    <2>3. s \in Nat /\ p \in Nat /\ o \in Nat
      BY <1>1, <1>2, <2>2, LiveType, FieldTypes
    <2>4. /\ l \in LocalState /\ l.next = o /\ l.successor = s /\ l.parent = p
          /\ l.to_be_deleted = d /\ l.side = side
      BY <1>1, <2>3, LiveType DEF LocalState
    <2> HIDE DEF l
    <2>5. HeldAt(node', "orphan", l) = {d, p, s}
      BY <2>4 DEF HeldAt
    <2>6. OnPath(node', g_root', "orphan", l)
      BY <1>1, <1>2, <1>4, <2>1, <2>4 DEF OnPath, Found
    <2>7. TreeStep(t, "orphan", l)
      BY <2>1, <2>4, <2>5, <2>6, ReadyHeap DEF TreeStep, Label
    <2> QED
      BY <2>7
  <1> QED
    BY <1>3, <1>4

-----------------------------------------------------------------------------
(***************************************************************************)
(* remove(), when the node to be deleted has been found.                   *)
(***************************************************************************)
LEMMA DeleteRoot ==
    ASSUME Inv, NEW t \in Thread, NEW h, NEW d, Ready(t, h, {d}), h[d].parent = NULL,
           h[d].left = NULL, h[d].right = NULL, node' = h, g_root' = NULL,
           freed' = freed \cup {d}, Answer(t, TRUE)
    PROVE  \E l : TreeStep(t, "return", l)
  <1>1. /\ h \in Heap /\ DOMAIN h = DOMAIN node /\ d \in Live /\ 0 \notin Live
        /\ \A a \in Live : h[a].lock = t <=> a = d
    BY ReadyFacts
  <1>2. Live' = Live \ {d}
    BY <1>1 DEF Live
  <1>3. d = g_root /\ \A s \in Side : h[d][s] = NULL
    BY <1>1 DEF Ready, Shape, ParentsOK, NULL, Side
  <1>4. Shape(node', g_root', Live')
    <2>1. RootOK(h, NULL, Live \ {d}) /\ SidesDiffer(h, Live \ {d})
      BY DEF Ready, Shape, RootOK, SidesDiffer
    <2>2. ChildrenOK(h, Live \ {d})
      BY <1>1 DEF Ready, Shape, ChildrenOK, NULL
    <2>3. ParentsOK(h, NULL, Live \ {d})
      BY <1>1, <1>3 DEF Ready, Shape, ParentsOK, NULL
    <2> QED
      BY <1>2, <2>1, <2>2, <2>3 DEF Shape
  <1>5. Untouched(node, Live, node', Live', t)
    <2>1. Untouched(h, Live, node', Live', t)
      BY <1>1, <1>2 DEF Untouched
    <2> QED
      BY <2>1, UntouchedToo DEF Ready
  <1>6. Mine(node', Live', t) = {}
    BY <1>1, <1>2 DEF Mine
  <1>7. node' \in Heap /\ g_root' \in 0 .. Len(node') /\ freed' \subseteq 1 .. Len(node')
    <2>1. freed \subseteq 1 .. Len(node) /\ d \in 1 .. Len(node)
      BY <1>1, LiveType DEF Inv, TypeOK
    <2>2. node' \in Heap /\ Len(node') = Len(node) /\ Len(node) \in Nat
      BY <1>1, LiveType DEF Ready
    <2> QED
      BY <2>1, <2>2 DEF NULL
  <1> QED
    BY <1>4, <1>5, <1>6, <1>7, AnswerStep

(* k is h without the child of p at place, and p is unlocked. *)
ChildGone(h, k, p, place) ==
    /\ k \in Heap /\ Len(k) = Len(h) /\ DOMAIN k = DOMAIN h
    /\ \A b \in DOMAIN h :
          /\ k[b].value = h[b].value /\ k[b].parent = h[b].parent
          /\ k[b].lock = IF b = p THEN NoThread ELSE h[b].lock
          /\ \A s \in Side : k[b][s] = IF b = p /\ s = place THEN NULL ELSE h[b][s]

LEMMA ChildCut ==
    ASSUME NEW h \in Heap, NEW p \in DOMAIN h, NEW place \in Side,
           NEW k, k = Unlocked(WithChild(h, p, place, NULL), p)
    PROVE  ChildGone(h, k, p, place)
  <1>1. PICK w : w = WithChild(h, p, place, NULL)
    OBVIOUS
  <1>2. ChildIs(h, w, p, place, NULL)
    BY <1>1, SideSet DEF NULL
  <1>3. LockIs(w, k, p, NoThread)
    <2>1. w \in Heap /\ p \in DOMAIN w /\ k = Unlocked(w, p)
      BY <1>1, <1>2 DEF ChildIs
    <2> QED
      BY <2>1, UnlockSet
  <1> QED
    BY <1>2, <1>3 DEF ChildIs, LockIs, ChildGone

LEMMA DeleteLeaf ==
    ASSUME Inv, NEW t \in Thread, NEW h, NEW d, NEW p, p # d, p # NULL, Ready(t, h, {d, p}),
           h[d].left = NULL, h[d].right = NULL, NEW place \in Side, h[p][place] = d,
           node' = Unlocked(WithChild(h, p, place, NULL), p), g_root' = g_root,
           freed' = freed \cup {d}, Answer(t, TRUE)
    PROVE  \E l : TreeStep(t, "return", l)
  <1>1. /\ h \in Heap /\ DOMAIN h = DOMAIN node /\ Len(h) = Len(node)
        /\ {d, p} \subseteq Live /\ Live \subseteq DOMAIN h /\ 0 \notin Live
        /\ \A a \in Live : h[a].lock = t <=> a \in {d, p}
        /\ h[d]["left"] = NULL /\ h[d]["right"] = NULL
    BY ReadyFacts
  <1>2. /\ node' \in Heap /\ Len(node') = Len(h) /\ DOMAIN node' = DOMAIN h
        /\ \A b \in DOMAIN h :
              /\ node'[b].value = h[b].value /\ node'[b].parent = h[b].parent
              /\ node'[b].lock = IF b = p THEN NoThread ELSE h[b].lock
              /\ \A s \in Side :
                    node'[b][s] = IF b = p /\ s = place THEN NULL ELSE h[b][s]
    <2>1. p \in DOMAIN h
      BY <1>1
    <2>2. ChildGone(h, node', p, place)
      BY <1>1, <2>1, ChildCut
    <2> QED
      BY <2>2 DEF ChildGone
  <1>3. Live' = Live \ {d}
    BY <1>1, <1>2 DEF Live
  <1>4. Shape(node', g_root', Live')
    <2>1. Linking(h, node', Live, p, place, NULL, NULL)
      BY <1>1, <1>2 DEF Linking, NULL
    <2>2. h[d]["left"] = NULL /\ h[d][Opposite("left")] = NULL /\ d # NULL
      BY <1>1 DEF Opposite, NULL
    <2>3. Shape(node', g_root, Live \ {d})
      <3>1. PICK o : o = NULL
        OBVIOUS
      <3>2. Linking(h, node', Live, p, place, o, o)
        BY <2>1, <3>1
      <3>3. o = h[d]["left"] /\ h[d][Opposite("left")] = NULL /\ o # d /\ "left" \in Side
        BY <2>2, <3>1, SidesOf
      <3>4. Shape(h, g_root, Live) /\ 0 \notin Live /\ p \in Live /\ d \in Live
        BY <1>1 DEF Ready
      <3> QED
        BY <3>2, <3>3, <3>4, Unlinked
    <2> QED
      BY <1>3, <2>3
  <1>5. Untouched(node, Live, node', Live', t)
    <2>1. Untouched(h, Live, node', Live', t)
      BY <1>1, <1>2, <1>3 DEF Untouched
    <2> QED
      BY <2>1, UntouchedToo DEF Ready
  <1>6. Mine(node', Live', t) = {}
    BY ThreadAssumption, <1>1, <1>2, <1>3 DEF Mine
  <1>7. node' \in Heap /\ g_root' \in 0 .. Len(node') /\ freed' \subseteq 1 .. Len(node')
    <2>1. g_root \in 0 .. Len(node) /\ freed \subseteq 1 .. Len(node)
      BY DEF Inv, TypeOK
    <2>2. Len(node') = Len(node) /\ d \in 1 .. Len(node)
      BY <1>1, <1>2, LiveType
    <2> QED
      BY <1>2, <2>1, <2>2
  <1> QED
    BY <1>4, <1>5, <1>6, <1>7, AnswerStep

(* The parent of a, if there is one, is locked and has a for a child. *)
ParentLocked(t, h, a) ==
    LET p == h[a].parent
    IN  /\ Ready(t, h, IF p = NULL THEN {a} ELSE {a, p})
        /\ p # NULL => /\ p # a
                       /\ h[p][IF h[a].value < h[p].value THEN "left" ELSE "right"] = a

LEMMA DeleteInner ==
    ASSUME Inv, NEW t \in Thread, NEW h, NEW d, ParentLocked(t, h, d),
           NEW side \in Side, h[d][side] # NULL, node' = ParentUnlocked(h, h[d].parent),
           LockNext(t, "side", [Locals(loc[t].work) EXCEPT !.to_be_deleted = d,
                                                           !.side = side], h[d][side]),
           UNCHANGED <<g_root, freed>>
    PROVE  \E l : TreeStep(t, "side", l)
  <1> DEFINE p == h[d].parent
             l == [[Locals(loc[t].work) EXCEPT !.to_be_deleted = d, !.side = side]
                      EXCEPT !.next = h[d][side]]
  <1>1. d \in Live /\ d \in Nat /\ h \in Heap /\ DOMAIN h = DOMAIN node
    BY LiveType, FieldTypes DEF ParentLocked, Ready, Mine
  <1>2. Ready(t, node', {d}) /\ node'[d][side] = h[d][side]
    <2>1. CASE p = NULL
      BY <2>1 DEF ParentLocked, ParentUnlocked
    <2>2. CASE p # NULL
      <3>1. node' = Unlocked(h, p) /\ Ready(t, h, {d, p}) /\ p # d
        BY <2>2 DEF ParentLocked, ParentUnlocked
      <3>2. Ready(t, node', {d, p} \ {p}) /\ LockIs(h, node', p, NoThread)
        BY <3>1, UnlockedReady
      <3>3. {d, p} \ {p} = {d}
        BY <3>1
      <3> QED
        BY <1>1, <3>2, <3>3, LiveType DEF LockIs
    <2> QED
      BY <2>1, <2>2
  <1>3. h[d][side] \in Nat /\ loc[t].work \in Work
    BY <1>1, LiveType, FieldTypes DEF LocalState
  <1>4. /\ l \in LocalState /\ l.to_be_deleted = d /\ l.side = side
        /\ l.next = h[d][side]
    BY <1>1, <1>3 DEF Locals, LocalState, NULL
  <1>5. Goto(t, "side") /\ SetLocals(t, l)
    BY DEF LockNext
  <1> HIDE DEF l
  <1>6. HeldAt(node', "side", l) = {d} /\ OnPath(node', g_root', "side", l)
    BY <1>2, <1>4 DEF HeldAt, OnPath
  <1>7. TreeStep(t, "side", l)
    BY <1>2, <1>4, <1>5, <1>6, ReadyHeap DEF TreeStep, Label
  <1> QED
    BY <1>7

LEMMA DeleteStep ==
    ASSUME Inv, NEW t \in Thread, NEW h, NEW d, ParentLocked(t, h, d), Delete(t, h, d)
    PROVE  /\ \E at \in {"side", "return"} : \E l : TreeStep(t, at, l)
           /\ tree_lock' = NoThread
  <1> DEFINE p == h[d].parent
             side == IF h[d].right # NULL THEN "right" ELSE "left"
             place == IF h[d].value < h[p].value THEN "left" ELSE "right"
  <1>1. tree_lock' = NoThread
    BY DEF Delete
  <1>2. CASE ~(h[d].left = NULL /\ h[d].right = NULL)
    <2>1. side \in Side /\ h[d][side] # NULL
      BY <1>2 DEF Side
    <2>2. \E l : TreeStep(t, "side", l)
      BY <1>2, <2>1, DeleteInner DEF Delete, Waiting
    <2> QED
      BY <1>1, <2>2
  <1>3. CASE h[d].left = NULL /\ h[d].right = NULL /\ p = NULL
    <2>1. node' = h /\ g_root' = NULL /\ freed' = freed \cup {d} /\ Answer(t, TRUE)
      BY <1>3 DEF Delete
    <2>2. \E l : TreeStep(t, "return", l)
      BY <1>3, <2>1, DeleteRoot DEF ParentLocked
    <2> QED
      BY <1>1, <2>2
  <1>4. CASE h[d].left = NULL /\ h[d].right = NULL /\ p # NULL
    <2>1. /\ node' = Unlocked(WithChild(h, p, place, NULL), p) /\ g_root' = g_root
          /\ freed' = freed \cup {d} /\ Answer(t, TRUE)
      BY <1>4 DEF Delete, WithChild
    <2>2. /\ place \in Side /\ h[p][place] = d /\ p # d /\ Ready(t, h, {d, p})
      BY <1>4 DEF ParentLocked, Side
    <2>3. \E l : TreeStep(t, "return", l)
      BY <1>4, <2>1, <2>2, DeleteLeaf
    <2> QED
      BY <1>1, <2>3
  <1> QED
    BY <1>2, <1>3, <1>4

LEMMA DelSearchStep ==
    ASSUME Inv, NEW t \in Thread, NEW h, NEW a, del_search(t, h, a),
           loc[t].work.key = h[a].value => ParentLocked(t, h, a),
           loc[t].work.key # h[a].value => Ready(t, h, {a})
    PROVE  \E at \in {"child", "side", "return"} : \E l :
              /\ TreeStep(t, at, l)
              /\ IF at = "child" THEN l.work = loc[t].work /\ tree_lock' = tree_lock
                 ELSE tree_lock' = NoThread
  <1>1. CASE loc[t].work.key = h[a].value
    BY <1>1, DeleteStep DEF del_search
  <1>2. CASE loc[t].work.key # h[a].value /\ ChildFor(h, a, loc[t].work.key) # NULL
    <2>1. LockChildOf(t, h, a) /\ tree_lock' = tree_lock
      BY <1>2 DEF del_search
    <2>2. \E l : TreeStep(t, "child", l) /\ l.work = loc[t].work
      BY <1>2, <2>1, ChildStep
    <2> QED
      BY <2>1, <2>2
  <1>3. CASE loc[t].work.key # h[a].value /\ ChildFor(h, a, loc[t].work.key) = NULL
    <2>1. /\ node' = Unlocked(h, a) /\ UNCHANGED <<g_root, freed>>
          /\ Answer(t, FALSE) /\ tree_lock' = NoThread
      BY <1>3 DEF del_search
    <2>2. Ready(t, node', {})
      BY <1>3, <2>1, UnlockedReady
    <2>3. \E l : TreeStep(t, "return", l)
      BY <2>1, <2>2, ReadyHeap, AnswerStep
    <2> QED
      BY <2>1, <2>3
  <1> QED
    BY <1>1, <1>2, <1>3

-----------------------------------------------------------------------------
(***************************************************************************)
(* The actions.                                                            *)
(***************************************************************************)
LEMMA NodeReady ==
    ASSUME Inv, NEW t \in Thread
    PROVE  Ready(t, node, Mine(node, Live, t))
  BY LiveType DEF Ready, Inv, Untouched

LEMMA NotSelf ==
    ASSUME NEW h, NEW r, NEW L, Shape(h, r, L), 0 \notin L, NEW s \in L, h[s].parent # s,
           NEW z \in Side
    PROVE  h[s][z] # s
  BY DEF Shape, ChildrenOK, NULL

LEMMA CreateTreeInv ==
    ASSUME Inv, ~Aborted, CreateTree
    PROVE  Inv'
  <1> DEFINE w == [op |-> "INSERT", key |-> Head(create)]
  <1>1. Main \in Thread /\ w \in Work /\ create' \in Seq(Int) /\ queue' \in Seq(Work)
    BY DEF Thread, CreateTree, Work, Inv, TypeOK, files
  <1>2. UNCHANGED <<node, g_root, tree_lock, freed>> /\ pc[Main] = "idle"
    BY DEF CreateTree, tree
  <1>3. Goto(Main, "tree") /\ SetLocals(Main, Locals(w)) /\ Locals(w) \in LocalState
    BY <1>1, LocalsType DEF CreateTree
  <1>4. Mine(node, Live, Main) = {} /\ tree_lock # Main
    BY <1>1, <1>2 DEF Inv, ThreadOK, TreeLockOK, HeldAt
  <1> HIDE DEF w
  <1>5. TreeStep(Main, "tree", Locals(w))
    BY <1>1, <1>2, <1>3, <1>4, NodeReady, ReadyHeap DEF TreeStep, Label, HeldAt, OnPath
  <1> QED
    BY <1>1, <1>2, <1>4, <1>5, StepInv

LEMMA TakeWorkInv ==
    ASSUME Inv, ~Aborted, NEW t \in Thread, TakeWork(t)
    PROVE  Inv'
  <1>1. /\ Head(queue) \in Work /\ create' \in Seq(Int) /\ queue' \in Seq(Work)
    BY DEF TakeWork, Inv, TypeOK
  <1>2. UNCHANGED <<node, g_root, tree_lock, freed>> /\ pc[t] = "idle"
    BY DEF TakeWork, tree
  <1>3. /\ Goto(t, "tree") /\ SetLocals(t, Locals(Head(queue)))
        /\ Locals(Head(queue)) \in LocalState
    BY <1>1, LocalsType DEF TakeWork
  <1>4. Mine(node, Live, t) = {} /\ tree_lock # t
    BY <1>2 DEF Inv, ThreadOK, TreeLockOK, HeldAt
  <1>5. TreeStep(t, "tree", Locals(Head(queue)))
    BY <1>2, <1>3, <1>4, NodeReady, ReadyHeap DEF TreeStep, Label, HeldAt, OnPath
  <1> QED
    BY <1>1, <1>2, <1>4, <1>5, StepInv

LEMMA ReturnInv ==
    ASSUME Inv, ~Aborted, NEW t \in Thread, Return(t)
    PROVE  Inv'
  <1>1. create' \in Seq(Int) /\ queue' \in Seq(Work) /\ NoWork \in Work
    BY DEF Return, Inv, TypeOK, files, NoWork, Work
  <1>2. UNCHANGED <<node, g_root, tree_lock, freed>> /\ pc[t] = "return"
    BY DEF Return, tree
  <1>3. Goto(t, "idle") /\ SetLocals(t, Locals(NoWork)) /\ Locals(NoWork) \in LocalState
    BY <1>1, LocalsType DEF Return
  <1>4. Mine(node, Live, t) = {} /\ tree_lock # t
    BY <1>2 DEF Inv, ThreadOK, TreeLockOK, HeldAt
  <1>5. TreeStep(t, "idle", Locals(NoWork))
    BY <1>2, <1>3, <1>4, NodeReady, ReadyHeap DEF TreeStep, Label, HeldAt, OnPath
  <1> QED
    BY <1>1, <1>2, <1>4, <1>5, StepInv

LEMMA LockTreeInv ==
    ASSUME Inv, ~Aborted, NEW t \in Thread, LockTree(t)
    PROVE  Inv'
  <1>1. create' \in Seq(Int) /\ queue' \in Seq(Work) /\ t # NoThread
    BY ThreadAssumption DEF LockTree, Inv, TypeOK, files
  <1>2. /\ Mine(node, Live, t) = {} /\ tree_lock = NoThread /\ Ready(t, node, {})
        /\ loc[t] \in LocalState /\ loc[t].work.key \in Int
    BY NodeReady, LiveType DEF LockTree, Inv, ThreadOK, HeldAt, LocalState, Work
  <1>3. CASE g_root # NULL
    <2> DEFINE l == [loc[t] EXCEPT !.next = g_root]
    <2>1. /\ tree_lock' = t /\ UNCHANGED <<node, g_root, freed>>
          /\ Goto(t, "root") /\ SetLocals(t, l)
      BY <1>3 DEF LockTree, LockNext
    <2>2. l \in LocalState /\ l.next = g_root
      <3>1. g_root \in Nat
        BY LiveType DEF Inv, TypeOK
      <3> QED
        BY <1>2, <3>1 DEF LocalState
    <2> HIDE DEF l
    <2>3. TreeStep(t, "root", l)
      BY <1>2, <1>3, <2>1, <2>2, ReadyHeap DEF TreeStep, Label, HeldAt, OnPath
    <2> QED
      BY <1>1, <1>2, <2>1, <2>3, StepInv
  <1>4. CASE g_root = NULL /\ loc[t].work.op = "INSERT"
    <2> DEFINE n == createNode(loc[t].work.key, NULL)
    <2>1. /\ node' = Append(node, n) /\ g_root' = Len(node')
          /\ Answer(t, TRUE) /\ UNCHANGED <<tree_lock, freed>>
      BY <1>4 DEF LockTree
    <2>2. /\ n \in FG_BST_Node /\ n.parent = NULL /\ n.lock = NoThread
          /\ \A s \in Side : n[s] = NULL
      BY <1>2 DEF createNode, FG_BST_Node, NULL, Side
    <2> HIDE DEF n
    <2>3. NodeAdded(node, node', n)
      BY <2>1, <2>2, LiveType, AppendNode
    <2>4. PICK new : new = Len(node) + 1
      OBVIOUS
    <2>5. /\ node' \in Heap /\ g_root' = new /\ new # 0 /\ new \in Nat
          /\ Len(node') = new /\ DOMAIN node' = DOMAIN node \cup {new}
          /\ new \notin DOMAIN node /\ node'[new] = n
          /\ \A b \in DOMAIN node : node'[b] = node[b]
      BY <2>1, <2>3, <2>4, LiveType DEF NodeAdded
    <2>6. freed \subseteq 1 .. Len(node) /\ new \notin freed
      BY <2>5, LiveType DEF Inv, TypeOK
    <2>7. Live' = Live \cup {new}
      BY <2>1, <2>5, <2>6 DEF Live
    <2>8. Shape(node', new, Live \cup {new})
      <3>1. Shape(node, NULL, Live) /\ 0 \notin Live /\ Live \subseteq DOMAIN node
        BY <1>4, LiveType DEF Inv
      <3>2. RootOK(node', new, Live \cup {new}) /\ SidesDiffer(node', Live \cup {new})
        BY <2>2, <2>5, <3>1 DEF Shape, RootOK, SidesDiffer, Side
      <3>3. ChildrenOK(node', Live \cup {new})
        BY <2>2, <2>5, <3>1 DEF Shape, ChildrenOK
      <3>4. ParentsOK(node', new, Live \cup {new})
        BY <2>5, <3>1 DEF Shape, ParentsOK, NULL
      <3> QED
        BY <3>2, <3>3, <3>4 DEF Shape
    <2>9. Untouched(node, Live, node', Live', t)
      BY <2>2, <2>5, <2>7, LiveType DEF Untouched
    <2>10. Mine(node', Live', t) = {}
      BY <1>1, <1>2, <2>2, <2>5, <2>7, LiveType DEF Mine
    <2>11. g_root' \in 0 .. Len(node') /\ freed' \subseteq 1 .. Len(node')
      BY <2>1, <2>4, <2>5, <2>6, LiveType
    <2>12. \E l : TreeStep(t, "return", l)
      BY <2>1, <2>5, <2>7, <2>8, <2>9, <2>10, <2>11, AnswerStep
    <2> QED
      BY <1>1, <1>2, <2>1, <2>12, StepInv
  <1>5. CASE g_root = NULL /\ loc[t].work.op # "INSERT"
    <2>1. UNCHANGED <<node, g_root, tree_lock, freed>> /\ Answer(t, FALSE)
      BY <1>5 DEF LockTree
    <2>2. \E l : TreeStep(t, "return", l)
      BY <1>2, <2>1, ReadyHeap, AnswerStep
    <2> QED
      BY <1>1, <1>2, <2>1, <2>2, StepInv
  <1> QED
    BY <1>3, <1>4, <1>5

(* t gets the lock of the root. *)
LEMMA RootReached ==
    ASSUME Inv, NEW t \in Thread, LockRoot(t), NEW h, h = Locked(node, g_root, t)
    PROVE  /\ tree_lock = t /\ loc[t].next = g_root /\ g_root \in Live
           /\ Ready(t, h, {g_root}) /\ LockIs(node, h, g_root, t)
           /\ ParentLocked(t, h, g_root)
  <1>1. /\ Mine(node, Live, t) = {} /\ tree_lock = t /\ loc[t].next = g_root
        /\ g_root \in Live /\ node[g_root].parent = NULL /\ CanLock(g_root)
    BY DEF LockRoot, Inv, ThreadOK, TreeLockOK, HeldAt, OnPath, Shape, RootOK
  <1>2. Ready(t, h, {g_root}) /\ LockIs(node, h, g_root, t)
    <2>1. Ready(t, h, Mine(node, Live, t) \cup {g_root}) /\ LockIs(node, h, g_root, t)
      BY <1>1, LockedReady
    <2>2. Mine(node, Live, t) \cup {g_root} = {g_root}
      BY <1>1
    <2> QED
      BY <2>1, <2>2
  <1>3. ParentLocked(t, h, g_root)
    BY <1>1, <1>2, LiveType DEF ParentLocked, LockIs
  <1> QED
    BY <1>1, <1>2, <1>3

LEMMA LockRootInv ==
    ASSUME Inv, ~Aborted, NEW t \in Thread, LockRoot(t)
    PROVE  Inv'
  <1>1. create' \in Seq(Int) /\ queue' \in Seq(Work) /\ t # NoThread
    BY ThreadAssumption DEF LockRoot, Inv, TypeOK, files
  <1>2. PICK h : h = Locked(node, g_root, t)
    OBVIOUS
  <1>3. /\ tree_lock = t /\ loc[t].next = g_root /\ g_root \in Live
        /\ Ready(t, h, {g_root}) /\ ParentLocked(t, h, g_root)
    BY <1>2, RootReached
  <1>4. CASE /\ loc[t].work.op # "DELETE" /\ tree_lock' = NoThread
             /\ Search(t, h, g_root) \/ Insert(t, h, g_root)
    BY <1>1, <1>3, <1>4, SearchStep, InsertStep, StepInv
  <1>5. CASE loc[t].work.op = "DELETE" /\ del_search(t, h, g_root)
    <2>1. PICK at \in {"child", "side", "return"} : \E l :
              /\ TreeStep(t, at, l)
              /\ IF at = "child" THEN l.work = loc[t].work /\ tree_lock' = tree_lock
                 ELSE tree_lock' = NoThread
      BY <1>3, <1>5, DelSearchStep
    <2> QED
      BY <1>1, <1>3, <1>5, <2>1, StepInv
  <1> QED
    BY <1>3, <1>2, <1>4, <1>5 DEF LockRoot

(* t gets the lock of the child s of a: with that of a it has h, and then k. *)
ChildLocked(t, s, a, key, h, k) ==
    /\ tree_lock = t <=> loc[t].work.op = "DELETE"
    /\ a \in Live /\ s \in Live /\ node[a].lock = t
    /\ \E z \in Side : node[a][z] = s
    /\ LockIs(node, h, s, t) /\ LockIs(h, k, a, NoThread)
    /\ Ready(t, k, {s}) /\ k[s].value = h[s].value
    /\ h[s].value = key => ParentLocked(t, h, s)

LEMMA ChildReached ==
    ASSUME Inv, NEW t \in Thread, LockChild(t),
           NEW s, s = loc[t].next, NEW a, a = loc[t].root, NEW key, key = loc[t].work.key,
           NEW h, h = Locked(node, s, t), NEW k, k = Unlocked(h, a)
    PROVE  ChildLocked(t, s, a, key, h, k)
  <1>1. /\ Mine(node, Live, t) = {a} /\ s # NULL /\ s = ChildFor(node, a, key)
        /\ tree_lock = t <=> loc[t].work.op = "DELETE"
        /\ CanLock(s)
    BY DEF LockChild, Inv, ThreadOK, TreeLockOK, HeldAt, OnPath
  <1>2. a \in Live /\ s \in Live /\ node[s].parent = a
        /\ node[a].lock = t /\ \E z \in Side : node[a][z] = s
    BY <1>1 DEF Mine, ChildFor, Inv, Shape, ChildrenOK, Side
  <1>3. Ready(t, h, {s, a}) /\ LockIs(node, h, s, t) /\ s # a
    <2>1. /\ Ready(t, h, Mine(node, Live, t) \cup {s}) /\ LockIs(node, h, s, t)
          /\ s \notin Mine(node, Live, t)
      BY <1>1, <1>2, LockedReady
    <2>2. Mine(node, Live, t) \cup {s} = {s, a}
      BY <1>1
    <2> QED
      BY <1>1, <2>1, <2>2
  <1>4. Ready(t, k, {s}) /\ LockIs(h, k, a, NoThread)
    <2>1. Ready(t, k, {s, a} \ {a}) /\ LockIs(h, k, a, NoThread)
      BY <1>3, UnlockedReady
    <2>2. {s, a} \ {a} = {s}
      BY <1>3
    <2> QED
      BY <2>1, <2>2
  <1>5. k[s].value = h[s].value
    BY <1>2, <1>3, <1>4, LiveType DEF LockIs
  <1>6. h[s].value = key => ParentLocked(t, h, s)
    <2>1. /\ h[s].parent = a /\ h[s].value = node[s].value /\ h[a].value = node[a].value
          /\ \A z \in Side : h[a][z] = node[a][z]
      BY <1>2, <1>3, LiveType DEF LockIs
    <2>2. a # NULL
      BY <1>2, LiveType DEF NULL
    <2>3. h[s].value = key =>
             h[a][IF h[s].value < h[a].value THEN "left" ELSE "right"] = s
      BY <1>1, <2>1, SidesOf DEF ChildFor
    <2> QED
      BY <1>3, <2>1, <2>2, <2>3 DEF ParentLocked
  <1> QED
    BY <1>1, <1>2, <1>3, <1>4, <1>5, <1>6 DEF ChildLocked

LEMMA LockChildInv ==
    ASSUME Inv, ~Aborted, NEW t \in Thread, LockChild(t)
    PROVE  Inv'
  <1>1. create' \in Seq(Int) /\ queue' \in Seq(Work) /\ t # NoThread
    BY ThreadAssumption DEF LockChild, Inv, TypeOK, files
  <1>2. PICK s, a, key : s = loc[t].next /\ a = loc[t].root /\ key = loc[t].work.key
    OBVIOUS
  <1>3. PICK h, k : h = Locked(node, s, t) /\ k = Unlocked(h, a)
    OBVIOUS
  <1>4. ChildLocked(t, s, a, key, h, k)
    BY <1>2, <1>3, ChildReached
  <1>5. (tree_lock = t <=> loc[t].work.op = "DELETE") /\ Ready(t, k, {s})
    BY <1>4 DEF ChildLocked
  <1>6. CASE /\ loc[t].work.op # "DELETE" /\ tree_lock' = tree_lock
             /\ Search(t, k, s) \/ Insert(t, k, s)
    <2>1. PICK at, l :
              /\ at \in {"child", "return", "abort"} /\ TreeStep(t, at, l)
              /\ at = "child" => l.work = loc[t].work
      BY <1>5, <1>6, SearchStep, InsertStep
    <2>2. g_root' = g_root
      BY <1>5, <1>6, SearchStep, InsertStep
    <2>3. tree_lock' = t <=> at = "root" \/ (at = "child" /\ l.work.op = "DELETE")
      BY <1>5, <1>6, <2>1
    <2> QED
      BY <1>1, <1>6, <2>1, <2>2, <2>3, StepInv
  <1>7. CASE /\ loc[t].work.op = "DELETE"
             /\ del_search(t, IF h[s].value = key THEN h ELSE k, s)
    <2>1. PICK at \in {"child", "side", "return"} : \E l :
              /\ TreeStep(t, at, l)
              /\ IF at = "child" THEN l.work = loc[t].work /\ tree_lock' = tree_lock
                 ELSE tree_lock' = NoThread
      BY <1>2, <1>4, <1>7, DelSearchStep DEF ChildLocked
    <2> QED
      BY <1>1, <1>5, <1>7, <2>1, StepInv
  <1> QED
    BY <1>2, <1>3, <1>6, <1>7 DEF LockChild

(* t gets the lock of the child s of to_be_deleted. *)
LEMMA SideReached ==
    ASSUME Inv, NEW t \in Thread, LockSide(t),
           NEW s, s = loc[t].next, NEW d, d = loc[t].to_be_deleted,
           NEW side, side = loc[t].side, NEW h, h = Locked(node, s, t)
    PROVE  /\ side \in Side /\ Opposite(side) \in Side
           /\ d \in Live /\ s \in Live /\ s # d /\ node[d].lock = t
           /\ node[d][side] = s /\ node[s].parent = d /\ tree_lock # t
           /\ Ready(t, h, {d, s}) /\ LockIs(node, h, s, t)
  <1>1. side \in Side /\ Opposite(side) \in Side
    BY LiveType, SidesOf DEF LocalState
  <1>2. /\ Mine(node, Live, t) = {d} /\ s # NULL /\ s = node[d][side]
        /\ tree_lock # t /\ CanLock(s)
    BY DEF LockSide, Inv, ThreadOK, TreeLockOK, HeldAt, OnPath
  <1>3. d \in Live /\ s \in Live /\ node[s].parent = d
        /\ node[d].lock = t
    BY <1>1, <1>2 DEF Mine, Inv, Shape, ChildrenOK
  <1>4. Ready(t, h, {d, s}) /\ LockIs(node, h, s, t) /\ s # d
    <2>1. /\ Ready(t, h, Mine(node, Live, t) \cup {s}) /\ LockIs(node, h, s, t)
          /\ s \notin Mine(node, Live, t)
      BY <1>2, <1>3, LockedReady
    <2>2. Mine(node, Live, t) \cup {s} = {d, s}
      BY <1>2
    <2> QED
      BY <1>2, <2>1, <2>2
  <1> QED
    BY <1>1, <1>2, <1>3, <1>4

LEMMA LockSideInv ==
    ASSUME Inv, ~Aborted, NEW t \in Thread, LockSide(t)
    PROVE  Inv'
  <1>1. create' \in Seq(Int) /\ queue' \in Seq(Work) /\ t # NoThread
    BY ThreadAssumption DEF LockSide, Inv, TypeOK, files
  <1>2. PICK s, d, side : s = loc[t].next /\ d = loc[t].to_be_deleted /\ side = loc[t].side
    OBVIOUS
  <1>3. PICK h : h = Locked(node, s, t)
    OBVIOUS
  <1>4. /\ side \in Side /\ Opposite(side) \in Side
        /\ d \in Live /\ s \in Live /\ s # d
        /\ node[d][side] = s /\ node[s].parent = d /\ tree_lock # t
        /\ Ready(t, h, {d, s}) /\ LockIs(node, h, s, t)
    BY <1>2, <1>3, SideReached
  <1>5. UNCHANGED <<g_root, tree_lock>>
    BY DEF LockSide
  <1>6. CASE h[s][Opposite(side)] = NULL
    <2>1. Replace(t, h, s, d)
      BY <1>2, <1>3, <1>6 DEF LockSide, Inner
    <2>2. h[d][side] = s /\ h[s].parent = d
      BY <1>4, LiveType DEF LockIs
    <2>3. h[s][side] # s
      BY <1>4, <2>2, LiveType, NotSelf DEF Ready
    <2>4. Found(h, d, s, d, side) /\ {d, d, s} = {d, s}
      BY <1>4, <1>6, <2>2 DEF Found, Place
    <2>5. \E at \in {"orphan", "return"} : \E l : TreeStep(t, at, l)
      BY <1>2, <1>4, <1>5, <2>1, <2>3, <2>4, ReplaceStep
    <2> QED
      BY <1>1, <1>4, <1>5, <2>5, StepInv
  <1>7. CASE h[s][Opposite(side)] # NULL
    <2>1. PICK inner : inner = h[s][Opposite(side)]
      OBVIOUS
    <2> DEFINE l == [[loc[t] EXCEPT !.parent = s] EXCEPT !.next = inner]
    <2>2. /\ node' = h /\ UNCHANGED <<g_root, freed>>
          /\ Goto(t, "first") /\ SetLocals(t, l)
      BY <1>2, <1>3, <1>5, <1>7, <2>1 DEF LockSide, Inner, Waiting, LockNext
    <2>3. inner \in Nat /\ s \in Nat
      BY <1>4, <2>1, LiveType, FieldTypes DEF Ready
    <2>4. /\ l \in LocalState /\ l.parent = s /\ l.next = inner
          /\ l.to_be_deleted = d /\ l.side = side
      BY <1>2, <2>3, LiveType DEF LocalState
    <2> HIDE DEF l
    <2>5. HeldAt(node', "first", l) = {d, s}
      BY <2>4 DEF HeldAt
    <2>6. OnPath(node', g_root', "first", l)
      BY <1>4, <1>7, <2>1, <2>2, <2>4 DEF OnPath
    <2>7. TreeStep(t, "first", l)
      BY <1>4, <2>2, <2>4, <2>5, <2>6, ReadyHeap DEF TreeStep, Label
    <2> QED
      BY <1>1, <1>4, <1>5, <2>7, StepInv
  <1> QED
    BY <1>6, <1>7

(* The parent of the node that get_inorder_successor() waits for. *)
Above(t) == IF pc[t] = "first" THEN loc[t].parent ELSE node[loc[t].next].parent

(* t gets the lock of the child s of q, further on the way. *)
LEMMA SuccessorReached ==
    ASSUME Inv, NEW t \in Thread, LockSuccessor(t),
           NEW s, s = loc[t].next, NEW d, d = loc[t].to_be_deleted,
           NEW side, side = loc[t].side, NEW h, h = Locked(node, s, t),
           NEW q, q = Above(t)
    PROVE  /\ side \in Side /\ Opposite(side) \in Side
           /\ d \in Live /\ q \in Live /\ s \in Live /\ s # d /\ s # q /\ q # d
           /\ node[d].lock = t /\ node[q].lock = t /\ node[q][Opposite(side)] = s
           /\ tree_lock # t /\ Ready(t, h, {d, q, s}) /\ LockIs(node, h, s, t)
           /\ h[q][Opposite(side)] = s /\ h[s].parent = q
  <1>1. side \in Side /\ Opposite(side) \in Side /\ Opposite(side) # side
    BY LiveType, SidesOf DEF LocalState
  <1>2. /\ Mine(node, Live, t) = {d, q} /\ s # NULL /\ s = node[q][Opposite(side)]
        /\ q # d /\ tree_lock # t /\ CanLock(s)
    BY DEF LockSuccessor, Inv, ThreadOK, TreeLockOK, HeldAt, OnPath, Above
  <1>3. d \in Live /\ q \in Live /\ s \in Live /\ node[s].parent = q
    BY <1>1, <1>2 DEF Mine, Inv, Shape, ChildrenOK
  <1>4. node[d].lock = t /\ node[q].lock = t
    BY <1>2 DEF Mine
  <1>5. Ready(t, h, {d, q, s}) /\ LockIs(node, h, s, t) /\ s # d /\ s # q
    <2>1. /\ Ready(t, h, Mine(node, Live, t) \cup {s}) /\ LockIs(node, h, s, t)
          /\ s \notin Mine(node, Live, t)
      BY <1>2, <1>3, LockedReady
    <2>2. Mine(node, Live, t) \cup {s} = {d, q, s}
      BY <1>2
    <2> QED
      BY <1>2, <2>1, <2>2
  <1>6. h[q][Opposite(side)] = s /\ h[s].parent = q
    BY <1>1, <1>2, <1>3, <1>5, LiveType DEF LockIs
  <1> QED
    BY <1>1, <1>2, <1>3, <1>4, <1>5, <1>6

LEMMA LockSuccessorInv ==
    ASSUME Inv, ~Aborted, NEW t \in Thread, LockSuccessor(t)
    PROVE  Inv'
  <1>1. create' \in Seq(Int) /\ queue' \in Seq(Work) /\ t # NoThread
    BY ThreadAssumption DEF LockSuccessor, Inv, TypeOK, files
  <1>2. PICK s, d, side : s = loc[t].next /\ d = loc[t].to_be_deleted /\ side = loc[t].side
    OBVIOUS
  <1>3. PICK q : q = Above(t)
    OBVIOUS
  <1>4. PICK h : h = Locked(node, s, t)
    OBVIOUS
  <1>5. /\ side \in Side /\ Opposite(side) \in Side
        /\ d \in Live /\ q \in Live /\ s \in Live /\ s # d /\ s # q /\ q # d
        /\ tree_lock # t /\ Ready(t, h, {d, q, s}) /\ LockIs(node, h, s, t)
        /\ h[q][Opposite(side)] = s /\ h[s].parent = q
    BY <1>2, <1>3, <1>4, SuccessorReached
  <1>6. UNCHANGED <<g_root, tree_lock>>
    BY DEF LockSuccessor
  <1>7. CASE h[s][Opposite(side)] = NULL
    <2>1. Replace(t, h, s, q)
      BY <1>2, <1>4, <1>5, <1>7 DEF LockSuccessor, Inner
    <2>2. h[s][side] # s
      BY <1>5, LiveType, NotSelf DEF Ready
    <2>3. Found(h, d, s, q, side)
      BY <1>5, <1>7 DEF Found, Place
    <2>4. \E at \in {"orphan", "return"} : \E l : TreeStep(t, at, l)
      BY <1>2, <1>5, <1>6, <2>1, <2>2, <2>3, ReplaceStep
    <2> QED
      BY <1>1, <1>5, <1>6, <2>4, StepInv
  <1>8. CASE h[s][Opposite(side)] # NULL
    <2>1. PICK inner : inner = h[s][Opposite(side)]
      OBVIOUS
    <2> DEFINE l == [[loc[t] EXCEPT !.parent = NULL] EXCEPT !.next = inner]
    <2>2. /\ node' = Unlocked(h, q) /\ UNCHANGED <<g_root, freed>>
          /\ Goto(t, "successor") /\ SetLocals(t, l)
      BY <1>2, <1>3, <1>4, <1>5, <1>6, <1>8, <2>1
         DEF LockSuccessor, Inner, Waiting, LockNext, Above
    <2>3. inner \in Nat
      BY <1>5, <2>1, LiveType, FieldTypes DEF Ready
    <2>4. l \in LocalState /\ l.next = inner /\ l.to_be_deleted = d /\ l.side = side
      BY <1>2, <2>3, LiveType DEF LocalState, NULL
    <2> HIDE DEF l
    <2>5. Ready(t, node', {d, s}) /\ LockIs(h, node', q, NoThread)
      <3>1. Ready(t, node', {d, q, s} \ {q}) /\ LockIs(h, node', q, NoThread)
        BY <1>5, <2>2, UnlockedReady
      <3>2. {d, q, s} \ {q} = {d, s}
        BY <1>5
      <3> QED
        BY <3>1, <3>2
    <2>6. node'[s][Opposite(side)] = inner /\ node'[inner].parent = s
      <3>1. node'[s][Opposite(side)] = inner
        BY <1>5, <2>1, <2>5, LiveType DEF LockIs
      <3> QED
        BY <1>5, <1>8, <2>1, <2>5, <3>1 DEF Ready, Shape, ChildrenOK
    <2>7. HeldAt(node', "successor", l) = {d, s}
      BY <2>4, <2>6 DEF HeldAt
    <2>8. OnPath(node', g_root', "successor", l)
      BY <1>5, <1>8, <2>1, <2>4, <2>6 DEF OnPath
    <2>9. TreeStep(t, "successor", l)
      BY <2>2, <2>4, <2>5, <2>7, <2>8, ReadyHeap DEF TreeStep, Label
    <2> QED
      BY <1>1, <1>5, <1>6, <2>9, StepInv
  <1> QED
    BY <1>7, <1>8

(* t gets the lock of the child of the successor s. *)
LEMMA OrphanReached ==
    ASSUME Inv, NEW t \in Thread, LockOrphan(t),
           NEW s, s = loc[t].successor, NEW d, d = loc[t].to_be_deleted,
           NEW p, p = loc[t].parent, NEW side, side = loc[t].side
    PROVE  /\ side \in Side /\ Found(node, d, s, p, side) /\ node[s][side] # s
           /\ tree_lock # t /\ Ready(t, node, {d, p, s})
  <1>1. side \in Side /\ t # NoThread
    BY LiveType, ThreadAssumption DEF LocalState
  <1>2. /\ Mine(node, Live, t) = {d, p, s} /\ Found(node, d, s, p, side)
        /\ tree_lock # t /\ CanLock(node[s][side])
    BY DEF LockOrphan, Inv, ThreadOK, TreeLockOK, HeldAt, OnPath, Found
  <1>3. node[s][side] # s
    BY <1>1, <1>2 DEF Mine, CanLock
  <1>4. Ready(t, node, {d, p, s})
    BY <1>2, NodeReady
  <1> QED
    BY <1>1, <1>2, <1>3, <1>4

LEMMA LockOrphanInv ==
    ASSUME Inv, ~Aborted, NEW t \in Thread, LockOrphan(t)
    PROVE  Inv'
  <1>1. create' \in Seq(Int) /\ queue' \in Seq(Work) /\ t # NoThread
    BY ThreadAssumption DEF LockOrphan, Inv, TypeOK, files
  <1>2. PICK s, d, p, side :
           /\ s = loc[t].successor /\ d = loc[t].to_be_deleted
           /\ p = loc[t].parent /\ side = loc[t].side
    OBVIOUS
  <1>3. /\ side \in Side /\ Found(node, d, s, p, side) /\ node[s][side] # s
        /\ tree_lock # t /\ Ready(t, node, {d, p, s})
    BY <1>2, OrphanReached
  <1>4. /\ node' = Unlocked(Unlocked(Replaced(node, d, s, p, side), p), d)
        /\ freed' = freed \cup {s} /\ UNCHANGED <<g_root, tree_lock>> /\ Answer(t, TRUE)
    BY <1>2 DEF LockOrphan
  <1>5. \E l : TreeStep(t, "return", l)
    BY <1>3, <1>4, ReplacedStep
  <1> QED
    BY <1>1, <1>3, <1>4, <1>5, StepInv

LEMMA InitInv == Init => Inv
  <1> SUFFICES ASSUME Init PROVE Inv
    OBVIOUS
  <1>1. NoWork \in Work /\ Locals(NoWork) \in LocalState
    <2>1. NoWork \in Work
      BY DEF NoWork, Work
    <2> QED
      BY <2>1, LocalsType
  <1>2. node \in Seq([value : Int, left : Nat, right : Nat, parent : Nat,
                      lock : Thread \cup {NoThread}])
        /\ Len(node) = 0 /\ DOMAIN node = {}
    BY DEF Init
  <1>3. create \in Seq(Int) /\ queue \in Seq(Work)
    BY FileAssumption DEF Init
  <1>4. TypeOK
    BY <1>1, <1>2, <1>3 DEF Init, TypeOK, NULL
  <1>5. Live = {}
    BY <1>2 DEF Live
  <1>6. Shape(node, g_root, Live)
    BY <1>5 DEF Init, Shape, RootOK, ChildrenOK, SidesDiffer, ParentsOK
  <1>7. ASSUME NEW t \in Thread PROVE ThreadOK(t)
    BY <1>5, ThreadAssumption DEF Init, ThreadOK, TreeLockOK, Mine, HeldAt, OnPath
  <1> QED
    BY <1>4, <1>6, <1>7 DEF Inv

LEMMA NextInv == Inv /\ [Next]_vars => Inv'
  <1> SUFFICES ASSUME Inv, [Next]_vars PROVE Inv'
    OBVIOUS
  <1>1. CASE UNCHANGED vars
    <2>1. /\ node' = node /\ g_root' = g_root /\ tree_lock' = tree_lock
          /\ freed' = freed /\ create' = create /\ queue' = queue
          /\ pc' = pc /\ loc' = loc
      BY <1>1 DEF vars, tree, files
    <2>2. TypeOK'
      BY <2>1 DEF Inv, TypeOK
    <2>3. Shape(node', g_root', Live')
      BY <2>1 DEF Inv, Live
    <2>4. \A t \in Thread : ThreadOK(t)'
      BY <2>1 DEF Inv, ThreadOK, TreeLockOK, Live
    <2> QED
      BY <2>2, <2>3, <2>4 DEF Inv
  <1>2. CASE ~Aborted /\ CreateTree
    BY <1>2, CreateTreeInv
  <1>3. ASSUME ~Aborted, NEW t \in Thread, Step(t)
        PROVE  Inv'
    <2>1. CASE TakeWork(t)
      BY <1>3, <2>1, TakeWorkInv
    <2>2. CASE LockTree(t)
      BY <1>3, <2>2, LockTreeInv
    <2>3. CASE LockRoot(t)
      BY <1>3, <2>3, LockRootInv
    <2>4. CASE LockChild(t)
      BY <1>3, <2>4, LockChildInv
    <2>5. CASE LockSide(t)
      BY <1>3, <2>5, LockSideInv
    <2>6. CASE LockSuccessor(t)
      BY <1>3, <2>6, LockSuccessorInv
    <2>7. CASE LockOrphan(t)
      BY <1>3, <2>7, LockOrphanInv
    <2>8. CASE Return(t)
      BY <1>3, <2>8, ReturnInv
    <2> QED
      BY <1>3, <2>1, <2>2, <2>3, <2>4, <2>5, <2>6, <2>7, <2>8 DEF Step, Lock
  <1> QED
    BY <1>1, <1>2, <1>3 DEF Next, Terminated

THEOREM Invariant == Spec => []Inv
  BY InitInv, NextInv, PTL DEF Spec

-----------------------------------------------------------------------------
(* Every variable has its type, whatever the threads do.                   *)
THEOREM TypeCorrect == Spec => []TypeOK
  <1>1. Inv => TypeOK
    BY DEF Inv
  <1> QED
    BY <1>1, Invariant, PTL

(* A thread of the fine-grained tree accesses only nodes that it has       *)
(* locked, and it leaves no lock behind (hand-over-hand locking).          *)
THEOREM OnlyLocked == Spec => []LocksHeld
  <1>1. ASSUME Inv PROVE LocksHeld
    <2>1. ASSUME NEW t \in Thread
          PROVE  Held(t) = HeldAt(node, pc[t], loc[t])
      BY DEF Held, HeldAt
    <2>2. ASSUME NEW t \in Thread, pc[t] # "abort"
          PROVE  {a \in DOMAIN node \ freed : node[a].lock = t} = Held(t)
      BY <1>1, <2>1, <2>2 DEF Inv, ThreadOK, Mine, HeldAt, Live
    <2>3. ASSUME NEW t \in Thread, NEW a \in Held(t)
          PROVE  Linked(a) /\ node[a].lock = t
      <3>1. pc[t] # "abort"
        BY <2>3 DEF Held
      <3> QED
        BY <2>2, <2>3, <3>1 DEF Linked
    <2>4. ASSUME NEW t \in Thread
          PROVE  tree_lock = t <=>
                    pc[t] = "root" \/ (pc[t] = "child" /\ loc[t].work.op = "DELETE")
      BY <1>1 DEF Inv, ThreadOK, TreeLockOK
    <2> QED
      BY <2>2, <2>3, <2>4 DEF LocksHeld
  <1> QED
    BY <1>1, Invariant, PTL

(* The node whose lock is waited for stays in the tree, below a node that  *)
(* the waiting thread has locked.                                          *)
THEOREM NextStaysChild == Spec => []WaitsForChild
  <1>1. ASSUME Inv PROVE WaitsForChild
    <2> SUFFICES ASSUME NEW t \in Thread, Waits(t)
                 PROVE  /\ Linked(loc[t].next)
                        /\ IF pc[t] = "root" THEN loc[t].next = g_root
                           ELSE /\ node[loc[t].next].parent \in Held(t)
                                /\ loc[t].next \in
                                      {node[a][side] : a \in Held(t), side \in Side}
      BY DEF WaitsForChild
    <2> DEFINE l == loc[t]
    <2>1. l.side \in Side /\ Opposite(l.side) \in Side
      BY <1>1, LiveType, SidesOf DEF LocalState
    <2>2. /\ Mine(node, Live, t) = Held(t) /\ OnPath(node, g_root, pc[t], l)
          /\ Shape(node, g_root, Live)
      BY <1>1 DEF Inv, ThreadOK, Held, HeldAt, Waits
    <2>3. CASE pc[t] = "root"
      BY <2>2, <2>3 DEF OnPath, Shape, RootOK, Linked, Live
    <2>4. CASE pc[t] # "root"
      <3>1. l.next # NULL
        BY <2>2, <2>4 DEF OnPath, Waits
      <3>2. \E a \in Held(t), side \in Side : l.next = node[a][side]
        <4>1. CASE pc[t] = "child"
          BY <2>2, <4>1 DEF OnPath, Held, ChildFor, Side
        <4>2. CASE pc[t] = "side"
          BY <2>1, <2>2, <4>2 DEF OnPath, Held
        <4>3. CASE pc[t] = "first"
          BY <2>1, <2>2, <4>3 DEF OnPath, Held
        <4>4. CASE pc[t] = "successor"
          BY <2>1, <2>2, <4>4 DEF OnPath, Held
        <4>5. CASE pc[t] = "orphan"
          BY <2>1, <2>2, <4>5 DEF OnPath, Held
        <4> QED
          BY <2>4, <4>1, <4>2, <4>3, <4>4, <4>5 DEF Waits
      <3>3. PICK a \in Held(t), side \in Side : l.next = node[a][side]
        BY <3>2
      <3>4. a \in Live
        BY <2>2 DEF Mine
      <3>5. l.next \in Live /\ node[l.next].parent = a
        BY <2>2, <3>1, <3>3, <3>4 DEF Shape, ChildrenOK
      <3> QED
        BY <2>4, <3>3, <3>5 DEF Linked, Live
    <2> QED
      BY <2>3, <2>4
  <1> QED
    BY <1>1, Invariant, PTL

(* The parent pointer that remove() goes by leads to the node that has     *)
(* this one for a child: it is kept right by all that moves a node.        *)
THEOREM ParentsAgree == Spec => []ParentPointers
  <1>1. ASSUME Inv PROVE ParentPointers
    <2> SUFFICES ASSUME NEW a \in Live
                 PROVE  IF a = g_root THEN node[a].parent = NULL
                        ELSE /\ Linked(node[a].parent)
                             /\ \E side \in Side : node[node[a].parent][side] = a
      BY DEF ParentPointers, Live
    <2>1. CASE a = g_root
      BY <1>1, <2>1, LiveType DEF Inv, Shape, RootOK, NULL
    <2>2. CASE a # g_root
      BY <1>1, <2>2 DEF Inv, Shape, ParentsOK, Linked, Live
    <2> QED
      BY <2>1, <2>2
  <1> QED
    BY <1>1, Invariant, PTL
=============================================================================
