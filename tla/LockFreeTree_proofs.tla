------------------------ MODULE LockFreeTree_proofs ------------------------
(***************************************************************************)
(* The lock-free tree as a whole, for any number of threads, any initial   *)
(* tree and any trace, when malloc() does not hand out a deleted           *)
(* Relocate_OP again.                                                      *)
(*                                                                         *)
(* The tree is described without recursion, by two values that exist in    *)
(* every state: the set G of the nodes that have been unlinked and the     *)
(* ancestors A[n] of every node n, with the side of each that n is on.     *)
(* The tree that they describe is the one that the operations which have   *)
(* been published will leave behind, so that a step of a helper that       *)
(* finishes what another thread has begun changes neither A nor G; only    *)
(* three steps do: an insert adds a node to A, the publication of the CAS  *)
(* that unlinks a marked node adds it to G, and a relocation that becomes  *)
(* SUCCESSFUL moves a key up, which must be the next larger one.           *)
(*                                                                         *)
(* The invariant has three parts.  TreeOK: linked nodes hang together, in  *)
(* order of their current keys.  Swings and RelocationsOK: what has been   *)
(* published can be done only once, since no child pointer and no op ever  *)
(* comes back.  ThreadInv: what a thread has read of the tree, as long as  *)
(* the op of the node it has read it from is the same.                     *)
(*                                                                         *)
(* Two invariants rest on it: AllServed, that every operation published in *)
(* a node has a thread that is still to clear it, and KeysInv, that no key *)
(* but that of base_root is negative.  With them the tree that the harness *)
(* walks at the end is the tree that the operations have left behind.      *)
(***************************************************************************)
EXTENDS LockFreeHistory_proofs, FiniteSetTheorems, WellFoundedInduction,
        SequenceTheorems

-----------------------------------------------------------------------------
(***************************************************************************)
(* Trees without recursion.  G are the nodes that have been unlinked, and  *)
(* A[n] the ancestors of node n, each with the side of it that n is on:    *)
(* those it has, or had when it was unlinked, without those that have been *)
(* unlinked themselves.  K[n][s] is the child of n on side s as the        *)
(* operation in progress at n will leave it, P[n][s] the pointer to it     *)
(* that is stored.                                                         *)
(***************************************************************************)
Linked(A, G) == DOMAIN A \ G

(* c is, or was when one of them was unlinked, the child on that side of n. *)
Hangs(A, G, n, s, c) == A[c] = A[n] \cup (IF n \in G THEN {} ELSE {<<n, s>>})

Ancestors(A, G) ==
    /\ base_root \in DOMAIN A /\ G \subseteq DOMAIN A \ {base_root}
    /\ \A n \in DOMAIN A : A[n] \subseteq (DOMAIN A \ G) \X BOOLEAN
    /\ \A n, x \in DOMAIN A, s \in BOOLEAN : <<x, s>> \in A[n] =>
          x # n /\ A[x] \subseteq A[n] /\ <<x, ~s>> \notin A[n]

(* All nodes are on the right of base_root. *)
FromRoot(A, G) ==
    /\ A[base_root] = {}
    /\ \A n \in DOMAIN A : <<base_root, TRUE>> \notin A[n]
    /\ \A n \in Linked(A, G) \ {base_root} : <<base_root, FALSE>> \in A[n]

Children(K, A, G) ==
    \A n \in Linked(A, G), s \in BOOLEAN : ~IS_NULL(K[n][s]) =>
        K[n][s].node \in Linked(A, G) /\ Hangs(A, G, n, s, K[n][s].node)

PointersHang(P, A, G) ==
    \A n \in DOMAIN A, s \in BOOLEAN : ~IS_NULL(P[n][s]) =>
        P[n][s].node \in DOMAIN A /\ Hangs(A, G, n, s, P[n][s].node)

(* What is below n is its child, or below that. *)
Below(K, A, G) ==
    \A n, y \in Linked(A, G), s \in BOOLEAN : <<n, s>> \in A[y] =>
        /\ ~IS_NULL(K[n][s])
        /\ K[n][s].node = y \/ \E z \in BOOLEAN : <<K[n][s].node, z>> \in A[y]

(* Of two nodes one is below the other, or they part at some node. *)
PartAt(A, x, y, s) == \E z \in DOMAIN A : <<z, s>> \in A[x] /\ <<z, ~s>> \in A[y]
Branches(A, G) ==
    \A x, y \in Linked(A, G) :
        x = y \/ \E s \in BOOLEAN : <<x, s>> \in A[y] \/ <<y, s>> \in A[x] \/ PartAt(A, x, y, s)

Shape(K, P, A, G) ==
    /\ Ancestors(A, G) /\ FromRoot(A, G) /\ Children(K, A, G) /\ PointersHang(P, A, G)
    /\ Below(K, A, G) /\ Branches(A, G)

LEMMA AboveOne ==
    ASSUME NEW A, NEW G, Ancestors(A, G), NEW n \in DOMAIN A, NEW x, NEW s, <<x, s>> \in A[n]
    PROVE  /\ s \in BOOLEAN /\ x \in DOMAIN A /\ x \notin G /\ x # n /\ A[x] \subseteq A[n]
           /\ <<x, ~s>> \notin A[n] /\ \A q \in BOOLEAN : <<n, q>> \notin A[x]
  <1>1. s \in BOOLEAN /\ x \in DOMAIN A /\ x \notin G
    BY DEF Ancestors
  <1>2. x # n /\ A[x] \subseteq A[n] /\ <<x, ~s>> \notin A[n]
    BY <1>1 DEF Ancestors
  <1>3. ASSUME NEW q \in BOOLEAN, <<n, q>> \in A[x] PROVE FALSE
    <2>1. A[n] \subseteq A[x]
      BY <1>1, <1>3 DEF Ancestors
    <2> QED
      BY <1>1, <2>1 DEF Ancestors
  <1> QED
    BY <1>1, <1>2, <1>3

(* A node has one parent, on one side. *)
LEMMA OneParent ==
    ASSUME NEW A, NEW G, Ancestors(A, G), NEW c \in DOMAIN A,
           NEW p \in Linked(A, G), NEW s \in BOOLEAN, Hangs(A, G, p, s, c),
           NEW q \in Linked(A, G), NEW z \in BOOLEAN, Hangs(A, G, q, z, c)
    PROVE  p = q /\ s = z
  <1>1. /\ p \in DOMAIN A /\ q \in DOMAIN A
        /\ A[c] = A[p] \cup {<<p, s>>} /\ A[c] = A[q] \cup {<<q, z>>}
    BY DEF Linked, Hangs
  <1>2. <<p, s>> \in A[c] /\ <<q, z>> \in A[c]
    BY <1>1
  <1>3. p = q
    <2> SUFFICES ASSUME p # q PROVE FALSE
      OBVIOUS
    <2>1. <<p, s>> \in A[q] /\ <<q, z>> \in A[p]
      BY <1>1, <1>2
    <2> QED
      BY <1>1, <2>1, AboveOne
  <1>4. s = z
    <2> SUFFICES ASSUME s # z PROVE FALSE
      OBVIOUS
    <2>1. z = ~s
      OBVIOUS
    <2> QED
      BY <1>2, <1>3, <2>1 DEF Ancestors, Linked
  <1> QED
    BY <1>3, <1>4

(* A linked node that hangs from another is its child. *)
LEMMA HangsIsChild ==
    ASSUME NEW K, NEW P, NEW A, NEW G, Shape(K, P, A, G), NEW p \in Linked(A, G),
           NEW c \in Linked(A, G), NEW s \in BOOLEAN, Hangs(A, G, p, s, c)
    PROVE  ~IS_NULL(K[p][s]) /\ K[p][s].node = c
  <1>1. Ancestors(A, G) /\ Children(K, A, G) /\ Below(K, A, G)
    BY DEF Shape
  <1>2. p \in DOMAIN A /\ c \in DOMAIN A /\ A[c] = A[p] \cup {<<p, s>>}
    BY DEF Linked, Hangs
  <1>3. ~IS_NULL(K[p][s])
    BY <1>1, <1>2 DEF Below
  <1>4. PICK x : x = K[p][s].node
    OBVIOUS
  <1>5. x \in Linked(A, G) /\ x \in DOMAIN A /\ A[x] = A[p] \cup {<<p, s>>}
    BY <1>1, <1>3, <1>4 DEF Children, Linked, Hangs
  <1>6. x = c \/ \E z \in BOOLEAN : <<x, z>> \in A[c]
    BY <1>1, <1>2, <1>4 DEF Below
  <1>7. A[x] = A[c]
    BY <1>2, <1>5
  <1>8. ASSUME NEW z \in BOOLEAN, <<x, z>> \in A[x] PROVE FALSE
    BY <1>1, <1>5, <1>8, AboveOne
  <1> QED
    BY <1>3, <1>4, <1>6, <1>7, <1>8

LEMMA ParentLinked ==
    ASSUME NEW A, NEW G, Ancestors(A, G), NEW p \in Linked(A, G), NEW c \in DOMAIN A,
           NEW s \in BOOLEAN, Hangs(A, G, p, s, c)
    PROVE  <<p, s>> \in A[c]
  BY DEF Hangs, Linked

-----------------------------------------------------------------------------
(* A step that links and unlinks nothing. *)
LEMMA ShapeKept ==
    ASSUME NEW K, NEW P, NEW A, NEW G, Shape(K, P, A, G), NEW L, NEW Q,
           \A n \in Linked(A, G) : L[n] = K[n],
           \A n \in DOMAIN A, s \in BOOLEAN :
              Q[n][s] = P[n][s] \/ (n \notin G /\ Q[n][s] = K[n][s])
    PROVE  Shape(L, Q, A, G)
  <1>1. /\ Ancestors(A, G) /\ FromRoot(A, G) /\ Children(K, A, G) /\ PointersHang(P, A, G)
        /\ Below(K, A, G) /\ Branches(A, G)
    BY DEF Shape
  <1>2. Children(L, A, G) /\ Below(L, A, G)
    BY <1>1 DEF Children, Below
  <1>3. PointersHang(Q, A, G)
    BY <1>1 DEF Children, PointersHang, Linked
  <1> QED
    BY <1>1, <1>2, <1>3 DEF Shape

-----------------------------------------------------------------------------
(* A step that links a new node a below n. *)
Grown(A, n, s, a) ==
    [x \in DOMAIN A \cup {a} |-> IF x = a THEN A[n] \cup {<<n, s>>} ELSE A[x]]

LEMMA GrownAncestors ==
    ASSUME NEW A, NEW G, Ancestors(A, G), FromRoot(A, G), Branches(A, G),
           NEW n \in Linked(A, G), NEW s \in BOOLEAN, n = base_root => s = FALSE,
           \A y \in Linked(A, G) : <<n, s>> \notin A[y],
           NEW a, a \notin DOMAIN A, NEW B, B = Grown(A, n, s, a)
    PROVE  Ancestors(B, G) /\ FromRoot(B, G) /\ Branches(B, G)
  <1>1. /\ DOMAIN B = DOMAIN A \cup {a} /\ B[a] = A[n] \cup {<<n, s>>}
        /\ \A x \in DOMAIN A : B[x] = A[x] /\ x # a
        /\ n \in DOMAIN A /\ n \notin G
    BY DEF Grown, Linked
  <1>2. \A x \in DOMAIN A : \A q : <<a, q>> \notin A[x]
    BY DEF Ancestors
  <1>3. Ancestors(B, G)
    <2>1. base_root \in DOMAIN B /\ G \subseteq DOMAIN B \ {base_root}
      BY <1>1 DEF Ancestors
    <2>2. ASSUME NEW x \in DOMAIN B PROVE B[x] \subseteq (DOMAIN B \ G) \X BOOLEAN
      BY <1>1 DEF Ancestors
    <2>3. ASSUME NEW y \in DOMAIN B, NEW x \in DOMAIN B, NEW q \in BOOLEAN, <<x, q>> \in B[y]
          PROVE  x # y /\ B[x] \subseteq B[y] /\ <<x, ~q>> \notin B[y]
      <3>1. x # a /\ x \in DOMAIN A
        BY <1>1, <1>2, <2>3
      <3>2. CASE y # a
        BY <1>1, <2>3, <3>1, <3>2 DEF Ancestors
      <3>3. CASE y = a /\ x = n
        BY <1>1, <2>3, <3>3 DEF Ancestors
      <3>4. CASE y = a /\ x # n
        BY <1>1, <2>3, <3>1, <3>4 DEF Ancestors
      <3> QED
        BY <3>2, <3>3, <3>4
    <2> QED
      BY <2>1, <2>2, <2>3 DEF Ancestors
  <1>4. FromRoot(B, G)
    <2>1. base_root \in DOMAIN A /\ B[base_root] = {}
      BY <1>1 DEF FromRoot, Ancestors
    <2>2. <<base_root, TRUE>> \notin B[a]
      BY <1>1 DEF FromRoot
    <2>3. <<base_root, FALSE>> \in B[a]
      BY <1>1 DEF FromRoot
    <2> QED
      BY <1>1, <2>1, <2>2, <2>3 DEF FromRoot, Linked
  <1>5. ASSUME NEW y \in Linked(A, G)
        PROVE  \E q \in BOOLEAN : <<y, q>> \in B[a] \/ PartAt(B, a, y, q)
    <2>1. y \in DOMAIN A /\ B[y] = A[y]
      BY <1>1 DEF Linked
    <2>2. CASE y = n
      BY <1>1, <2>2
    <2>3. ASSUME NEW q \in BOOLEAN, <<n, q>> \in A[y] PROVE PartAt(B, a, y, s)
      <3>1. q = ~s
        BY <2>3
      <3> QED
        BY <1>1, <2>1, <2>3, <3>1 DEF PartAt
    <2>4. ASSUME NEW q \in BOOLEAN, <<y, q>> \in A[n] PROVE <<y, q>> \in B[a]
      BY <1>1, <2>4
    <2>5. ASSUME NEW q \in BOOLEAN, PartAt(A, n, y, q) PROVE PartAt(B, a, y, q)
      BY <1>1, <2>1, <2>5 DEF PartAt
    <2>6. y = n \/ \E q \in BOOLEAN : <<n, q>> \in A[y] \/ <<y, q>> \in A[n] \/ PartAt(A, n, y, q)
      BY DEF Branches
    <2> QED
      BY <2>2, <2>3, <2>4, <2>5, <2>6
  <1>6. \A x, y, q : PartAt(A, x, y, q) /\ x \in DOMAIN A /\ y \in DOMAIN A => PartAt(B, x, y, q)
    BY <1>1 DEF PartAt
  <1>7. \A x, y, q \in BOOLEAN : PartAt(B, x, y, q) => PartAt(B, y, x, ~q)
    BY DEF PartAt
  <1>8. Branches(B, G)
    <2> SUFFICES ASSUME NEW x \in Linked(B, G), NEW y \in Linked(B, G), x # y
                 PROVE  \E q \in BOOLEAN :
                          <<x, q>> \in B[y] \/ <<y, q>> \in B[x] \/ PartAt(B, x, y, q)
      BY DEF Branches
    <2>1. CASE x = a
      BY <1>1, <1>5, <2>1 DEF Linked
    <2>2. CASE y = a
      <3>1. x \in Linked(A, G)
        BY <1>1, <2>2 DEF Linked
      <3>2. PICK q \in BOOLEAN : <<x, q>> \in B[a] \/ PartAt(B, a, x, q)
        BY <1>5, <3>1
      <3>3. PartAt(B, a, x, q) => PartAt(B, x, a, ~q)
        BY DEF PartAt
      <3> QED
        BY <2>2, <3>2, <3>3
    <2>3. CASE x # a /\ y # a
      <3>1. x \in Linked(A, G) /\ y \in Linked(A, G) /\ B[x] = A[x] /\ B[y] = A[y]
        BY <1>1, <2>3 DEF Linked
      <3>2. PICK q \in BOOLEAN : <<x, q>> \in A[y] \/ <<y, q>> \in A[x] \/ PartAt(A, x, y, q)
        BY <3>1 DEF Branches
      <3> QED
        BY <1>6, <3>1, <3>2 DEF Linked
    <2> QED
      BY <2>1, <2>2, <2>3
  <1> QED
    BY <1>3, <1>4, <1>8

(* The new node a becomes the child of n on side s. *)
Attach(K, P, L, Q, A, n, s, a) ==
    /\ n = base_root => s = FALSE
    /\ IS_NULL(K[n][s]) /\ ~IS_NULL(L[n][s]) /\ L[n][s].node = a /\ L[n][~s] = K[n][~s]
    /\ \A x \in DOMAIN A \ {n} : L[x] = K[x]
    /\ \A x \in DOMAIN A : Q[x] = P[x]
    /\ \A q \in BOOLEAN : IS_NULL(L[a][q]) /\ IS_NULL(Q[a][q])

LEMMA ShapeGrown ==
    ASSUME NEW K, NEW P, NEW A, NEW G, Shape(K, P, A, G), NEW n \in Linked(A, G),
           NEW s \in BOOLEAN, NEW a, a \notin DOMAIN A, NEW L, NEW Q,
           Attach(K, P, L, Q, A, n, s, a)
    PROVE  Shape(L, Q, Grown(A, n, s, a), G)
  <1>0. /\ n = base_root => s = FALSE
        /\ IS_NULL(K[n][s]) /\ ~IS_NULL(L[n][s]) /\ L[n][s].node = a /\ L[n][~s] = K[n][~s]
        /\ \A x \in DOMAIN A \ {n} : L[x] = K[x]
        /\ \A x \in DOMAIN A : Q[x] = P[x]
        /\ \A q \in BOOLEAN : IS_NULL(L[a][q]) /\ IS_NULL(Q[a][q])
    BY DEF Attach
  <1> USE <1>0
  <1>1. /\ Ancestors(A, G) /\ FromRoot(A, G) /\ Children(K, A, G) /\ PointersHang(P, A, G)
        /\ Below(K, A, G) /\ Branches(A, G)
    BY DEF Shape
  <1>2. PICK B : B = Grown(A, n, s, a)
    OBVIOUS
  <1>3. /\ DOMAIN B = DOMAIN A \cup {a} /\ B[a] = A[n] \cup {<<n, s>>}
        /\ \A x \in DOMAIN A : B[x] = A[x] /\ x # a
        /\ n \in DOMAIN A /\ n \notin G /\ a \notin G
    BY <1>1, <1>2 DEF Grown, Linked, Ancestors
  <1>4. \A y \in Linked(A, G) : <<n, s>> \notin A[y]
    BY <1>1 DEF Below
  <1>5. Ancestors(B, G) /\ FromRoot(B, G) /\ Branches(B, G)
    BY <1>1, <1>2, <1>4, GrownAncestors
  <1>6. \A x \in DOMAIN A, q \in BOOLEAN : (x = n /\ q = s) \/ L[x][q] = K[x][q]
    <2>1. \A q \in BOOLEAN : q = s \/ q = ~s
      OBVIOUS
    <2> QED
      BY <2>1
  <1>7. \A x, c \in DOMAIN A : \A q : Hangs(A, G, x, q, c) => Hangs(B, G, x, q, c)
    BY <1>3 DEF Hangs
  <1>8. Hangs(B, G, n, s, a)
    BY <1>3 DEF Hangs
  <1>9. Children(L, B, G)
    <2> SUFFICES ASSUME NEW x \in Linked(B, G), NEW q \in BOOLEAN, ~IS_NULL(L[x][q])
                 PROVE  L[x][q].node \in Linked(B, G) /\ Hangs(B, G, x, q, L[x][q].node)
      BY DEF Children
    <2>1. x \in DOMAIN A /\ x \in Linked(A, G)
      BY <1>3 DEF Linked
    <2>2. CASE x = n /\ q = s
      BY <1>3, <1>8, <2>2 DEF Linked
    <2>3. CASE L[x][q] = K[x][q]
      <3>1. K[x][q].node \in Linked(A, G) /\ Hangs(A, G, x, q, K[x][q].node)
        BY <1>1, <2>1, <2>3 DEF Children
      <3> QED
        BY <1>3, <1>7, <2>1, <2>3, <3>1 DEF Linked
    <2> QED
      BY <1>6, <2>1, <2>2, <2>3
  <1>10. PointersHang(Q, B, G)
    BY <1>1, <1>3, <1>7 DEF PointersHang
  <1>11. Below(L, B, G)
    <2> SUFFICES ASSUME NEW x \in Linked(B, G), NEW y \in Linked(B, G), NEW q \in BOOLEAN,
                        <<x, q>> \in B[y]
                 PROVE  /\ ~IS_NULL(L[x][q])
                        /\ L[x][q].node = y \/ \E z \in BOOLEAN : <<L[x][q].node, z>> \in B[y]
      BY DEF Below
    <2>1. x # a /\ x \in DOMAIN A /\ x \in Linked(A, G)
      <3>1. x # a
        <4>1. y \in DOMAIN B
          BY DEF Linked
        <4>2. CASE y = a
          BY <1>5, <4>1, <4>2 DEF Ancestors, Linked
        <4>3. CASE y # a
          BY <1>1, <1>3, <4>1, <4>3 DEF Ancestors
        <4> QED
          BY <4>2, <4>3
      <3> QED
        BY <1>3, <3>1 DEF Linked
    <2>2. CASE x = n /\ q = s
      <3>1. y = a
        BY <1>3, <1>4, <2>2 DEF Linked
      <3> QED
        BY <2>2, <3>1
    <2>3. CASE L[x][q] = K[x][q] /\ y # a
      <3>1. y \in Linked(A, G) /\ B[y] = A[y]
        BY <1>3, <2>3 DEF Linked
      <3>2. /\ ~IS_NULL(K[x][q])
            /\ K[x][q].node = y \/ \E z \in BOOLEAN : <<K[x][q].node, z>> \in A[y]
        BY <1>1, <2>1, <3>1 DEF Below
      <3> QED
        BY <2>3, <3>1, <3>2
    <2>4. CASE L[x][q] = K[x][q] /\ y = a /\ ~(x = n /\ q = s)
      <3>1. <<x, q>> \in A[n] /\ A[n] \subseteq B[y]
        BY <1>3, <2>4
      <3>2. /\ ~IS_NULL(K[x][q])
            /\ K[x][q].node = n \/ \E z \in BOOLEAN : <<K[x][q].node, z>> \in A[n]
        BY <1>1, <2>1, <3>1 DEF Below
      <3> QED
        BY <1>3, <2>4, <3>1, <3>2
    <2> QED
      BY <1>6, <2>1, <2>2, <2>3, <2>4
  <1> QED
    BY <1>2, <1>5, <1>9, <1>10, <1>11 DEF Shape

-----------------------------------------------------------------------------
(* A step that unlinks c, the child of p on side s, which has at most one  *)
(* child itself.                                                           *)
Cut(A, c) == [x \in DOMAIN A |-> {e \in A[x] : e[1] # c}]

LEMMA CutPairs ==
    ASSUME NEW A, NEW G, Ancestors(A, G), NEW c, NEW x \in DOMAIN A
    PROVE  /\ Cut(A, c)[x] \subseteq A[x]
           /\ \A y, q : <<y, q>> \in Cut(A, c)[x] <=> <<y, q>> \in A[x] /\ y # c
  <1>1. Cut(A, c)[x] = {e \in A[x] : e[1] # c}
    BY DEF Cut
  <1>2. \A e \in A[x] : e = <<e[1], e[2]>>
    BY DEF Ancestors
  <1> QED
    BY <1>1, <1>2

LEMMA CutAncestors ==
    ASSUME NEW A, NEW G, Ancestors(A, G), FromRoot(A, G), NEW c \in Linked(A, G) \ {base_root}
    PROVE  Ancestors(Cut(A, c), G \cup {c}) /\ FromRoot(Cut(A, c), G \cup {c})
  <1>1. PICK B : B = Cut(A, c)
    OBVIOUS
  <1>2. DOMAIN B = DOMAIN A
    BY <1>1 DEF Cut
  <1>3. \A x \in DOMAIN A : /\ B[x] \subseteq A[x]
                            /\ \A y, q : <<y, q>> \in B[x] <=> <<y, q>> \in A[x] /\ y # c
    BY <1>1, CutPairs
  <1>4. ASSUME NEW x \in DOMAIN A, NEW y \in DOMAIN A, A[x] \subseteq A[y]
        PROVE  B[x] \subseteq B[y]
    BY <1>1, <1>2, <1>4 DEF Cut
  <1>5. Ancestors(B, G \cup {c})
    <2>1. base_root \in DOMAIN B /\ G \cup {c} \subseteq DOMAIN B \ {base_root}
      BY <1>2 DEF Ancestors, Linked
    <2>2. ASSUME NEW n \in DOMAIN B
          PROVE  B[n] \subseteq (DOMAIN B \ (G \cup {c})) \X BOOLEAN
      <3>1. A[n] \subseteq (DOMAIN A \ G) \X BOOLEAN /\ B[n] = {e \in A[n] : e[1] # c}
        BY <1>1, <1>2, <2>2 DEF Ancestors, Cut
      <3> QED
        BY <1>2, <3>1
    <2>3. ASSUME NEW n \in DOMAIN B, NEW x \in DOMAIN B, NEW s \in BOOLEAN, <<x, s>> \in B[n]
          PROVE  x # n /\ B[x] \subseteq B[n] /\ <<x, ~s>> \notin B[n]
      <3>1. <<x, s>> \in A[n] /\ n \in DOMAIN A /\ x \in DOMAIN A
        BY <1>2, <1>3, <2>3
      <3>2. x # n /\ A[x] \subseteq A[n] /\ <<x, ~s>> \notin A[n]
        BY <3>1 DEF Ancestors
      <3> QED
        BY <1>3, <1>4, <3>1, <3>2
    <2> QED
      BY <2>1, <2>2, <2>3 DEF Ancestors
  <1>6. FromRoot(B, G \cup {c})
    <2>1. base_root \in DOMAIN A /\ B[base_root] \subseteq A[base_root]
      BY <1>3 DEF Ancestors
    <2> QED
      BY <1>2, <1>3, <2>1 DEF FromRoot, Linked
  <1> QED
    BY <1>1, <1>5, <1>6

LEMMA CutHangs ==
    ASSUME NEW A, NEW G, Ancestors(A, G), NEW c \in Linked(A, G),
           NEW x \in DOMAIN A, NEW y \in DOMAIN A, NEW s, Hangs(A, G, x, s, y)
    PROVE  Hangs(Cut(A, c), G \cup {c}, x, s, y)
  <1>1. /\ Cut(A, c)[x] = {e \in A[x] : e[1] # c} /\ Cut(A, c)[y] = {e \in A[y] : e[1] # c}
    BY DEF Cut
  <1>2. c \notin G
    BY DEF Linked
  <1>3. CASE x \in G
    BY <1>1, <1>3 DEF Hangs
  <1>4. CASE x = c
    <2>1. A[y] = A[x] \cup {<<c, s>>}
      BY <1>2, <1>4 DEF Hangs
    <2>2. {e \in A[y] : e[1] # c} = {e \in A[x] : e[1] # c}
      BY <2>1
    <2> QED
      BY <1>1, <1>4, <2>2 DEF Hangs
  <1>5. CASE x \notin G /\ x # c
    <2>1. A[y] = A[x] \cup {<<x, s>>}
      BY <1>5 DEF Hangs
    <2>2. {e \in A[y] : e[1] # c} = {e \in A[x] : e[1] # c} \cup {<<x, s>>}
      BY <1>5, <2>1
    <2> QED
      BY <1>1, <1>5, <2>2 DEF Hangs
  <1> QED
    BY <1>3, <1>4, <1>5

(* c, the child of p on side s, has no child but the one that takes its    *)
(* place, if any.                                                          *)
Bypass(K, L, p, s, c) ==
    /\ ~IS_NULL(K[p][s]) /\ K[p][s].node = c
    /\ L[p][~s] = K[p][~s]
    /\ \A q \in BOOLEAN : ~IS_NULL(K[c][q]) => IS_NULL(K[c][~q]) /\ L[p][s] = K[c][q]
    /\ ~IS_NULL(L[p][s]) => \E q \in BOOLEAN : L[p][s] = K[c][q]

Elsewhere(K, L, A, p) == \A x \in DOMAIN A \ {p} : L[x] = K[x]

LEMMA CutChildren ==
    ASSUME NEW K, NEW P, NEW A, NEW G, Shape(K, P, A, G), NEW p \in Linked(A, G),
           NEW s \in BOOLEAN, NEW c, NEW L, Bypass(K, L, p, s, c), Elsewhere(K, L, A, p)
    PROVE  /\ c \in Linked(A, G) \ {base_root} /\ Hangs(A, G, p, s, c) /\ <<p, s>> \in A[c]
           /\ Children(L, Cut(A, c), G \cup {c})
           /\ Below(L, Cut(A, c), G \cup {c})
  <1>1. Ancestors(A, G) /\ FromRoot(A, G) /\ Children(K, A, G) /\ Below(K, A, G)
    BY DEF Shape
  <1>2. c \in Linked(A, G) /\ Hangs(A, G, p, s, c)
    BY <1>1 DEF Bypass, Children
  <1>3. <<p, s>> \in A[c] /\ p \in DOMAIN A /\ c \in DOMAIN A /\ c \notin G /\ p \notin G
    BY <1>1, <1>2, ParentLinked DEF Linked
  <1>4. c # base_root /\ c # p
    BY <1>1, <1>3, AboveOne DEF FromRoot
  <1>5. PICK B, H : B = Cut(A, c) /\ H = G \cup {c}
    OBVIOUS
  <1>6. /\ DOMAIN B = DOMAIN A
        /\ \A x \in DOMAIN A : \A y, q : <<y, q>> \in B[x] <=> <<y, q>> \in A[x] /\ y # c
    BY <1>1, <1>5, CutPairs DEF Cut
  <1>7. \A x : x \in Linked(B, H) <=> x \in Linked(A, G) /\ x # c
    BY <1>5, <1>6 DEF Linked
  <1>8. \A x, y \in DOMAIN A : \A q : Hangs(A, G, x, q, y) => Hangs(B, H, x, q, y)
    BY <1>1, <1>2, <1>5, CutHangs
  <1>9. ASSUME NEW x \in DOMAIN A, NEW q \in BOOLEAN, ~(x = p /\ q = s)
        PROVE  L[x][q] = K[x][q]
    BY <1>9 DEF Bypass, Elsewhere
  <1>10. ASSUME NEW q \in BOOLEAN, ~IS_NULL(K[c][q])
         PROVE  /\ K[c][q].node \in Linked(B, H) /\ K[c][q].node \in DOMAIN A
                /\ Hangs(B, H, p, s, K[c][q].node)
    <2>1. PICK x : x = K[c][q].node
      OBVIOUS
    <2>2. x \in Linked(A, G) /\ Hangs(A, G, c, q, x)
      BY <1>1, <1>2, <1>10, <2>1 DEF Children
    <2>3. x \in DOMAIN A /\ A[x] = A[c] \cup {<<c, q>>}
      BY <1>3, <2>2 DEF Linked, Hangs
    <2>4. x # c
      BY <1>1, <2>3, AboveOne
    <2>5. A[c] = A[p] \cup {<<p, s>>}
      BY <1>2, <1>3 DEF Hangs
    <2>6. {e \in A[x] : e[1] # c} = {e \in A[p] : e[1] # c} \cup {<<p, s>>}
      BY <1>4, <2>3, <2>5
    <2>7. Hangs(B, H, p, s, x)
      BY <1>3, <1>4, <1>5, <2>3, <2>6 DEF Hangs, Cut
    <2> QED
      BY <1>7, <2>1, <2>2, <2>3, <2>4, <2>7
  <1>11. Children(L, B, H)
    <2> SUFFICES ASSUME NEW x \in Linked(B, H), NEW q \in BOOLEAN, ~IS_NULL(L[x][q])
                 PROVE  L[x][q].node \in Linked(B, H) /\ Hangs(B, H, x, q, L[x][q].node)
      BY DEF Children
    <2>1. x \in Linked(A, G) /\ x # c /\ x \in DOMAIN A
      BY <1>7 DEF Linked
    <2>2. CASE x = p /\ q = s
      BY <1>10, <2>2 DEF Bypass
    <2>3. CASE ~(x = p /\ q = s)
      <3>1. L[x][q] = K[x][q]
        BY <1>9, <2>1, <2>3
      <3>2. PICK y : y = K[x][q].node
        OBVIOUS
      <3>3. y \in Linked(A, G) /\ Hangs(A, G, x, q, y) /\ y \in DOMAIN A
        BY <1>1, <2>1, <3>1, <3>2 DEF Children, Linked
      <3>4. y # c
        BY <1>1, <1>2, <1>3, <2>1, <2>3, <3>3, OneParent
      <3> QED
        BY <1>7, <1>8, <2>1, <3>1, <3>2, <3>3, <3>4
    <2> QED
      BY <2>2, <2>3
  <1>12. Below(L, B, H)
    <2> SUFFICES ASSUME NEW x \in Linked(B, H), NEW y \in Linked(B, H), NEW q \in BOOLEAN,
                        <<x, q>> \in B[y]
                 PROVE  /\ ~IS_NULL(L[x][q])
                        /\ L[x][q].node = y \/ \E z \in BOOLEAN : <<L[x][q].node, z>> \in B[y]
      BY DEF Below
    <2>1. /\ x \in Linked(A, G) /\ x # c /\ x \in DOMAIN A
          /\ y \in Linked(A, G) /\ y # c /\ y \in DOMAIN A
      BY <1>7 DEF Linked
    <2>2. <<x, q>> \in A[y]
      BY <1>6, <2>1
    <2>3. CASE x = p /\ q = s
      <3>1. PICK z \in BOOLEAN : <<c, z>> \in A[y]
        <4>1. K[p][s].node = y \/ \E z \in BOOLEAN : <<K[p][s].node, z>> \in A[y]
          BY <1>1, <2>1, <2>2, <2>3 DEF Below
        <4>2. K[p][s].node = c
          BY DEF Bypass
        <4> QED
          BY <2>1, <4>1, <4>2
      <3>2. /\ ~IS_NULL(K[c][z])
            /\ K[c][z].node = y \/ \E v \in BOOLEAN : <<K[c][z].node, v>> \in A[y]
        BY <1>1, <1>2, <2>1, <3>1 DEF Below
      <3>3. L[p][s] = K[c][z] /\ K[c][z].node # c
        BY <1>7, <1>10, <3>2 DEF Bypass
      <3> QED
        BY <1>6, <2>1, <2>3, <3>2, <3>3
    <2>4. CASE ~(x = p /\ q = s)
      <3>1. L[x][q] = K[x][q]
        BY <1>9, <2>1, <2>4
      <3>2. /\ ~IS_NULL(K[x][q])
            /\ K[x][q].node = y \/ \E z \in BOOLEAN : <<K[x][q].node, z>> \in A[y]
        BY <1>1, <2>1, <2>2 DEF Below
      <3>3. PICK w : w = K[x][q].node
        OBVIOUS
      <3>4. w # c
        <4>1. w \in Linked(A, G) /\ Hangs(A, G, x, q, w)
          BY <1>1, <2>1, <3>2, <3>3 DEF Children
        <4> QED
          BY <1>1, <1>2, <1>3, <2>1, <2>4, <4>1, OneParent
      <3> QED
        BY <1>6, <2>1, <3>1, <3>2, <3>3, <3>4
    <2> QED
      BY <2>3, <2>4
  <1> QED
    BY <1>2, <1>3, <1>4, <1>5, <1>11, <1>12

LEMMA ShapeCut ==
    ASSUME NEW K, NEW P, NEW A, NEW G, Shape(K, P, A, G), NEW p \in Linked(A, G),
           NEW s \in BOOLEAN, NEW c, NEW L, NEW Q, Bypass(K, L, p, s, c),
           Elsewhere(K, L, A, p), \A x \in DOMAIN A : Q[x] = P[x]
    PROVE  Shape(L, Q, Cut(A, c), G \cup {c})
  <1>1. /\ Ancestors(A, G) /\ FromRoot(A, G) /\ PointersHang(P, A, G)
        /\ Below(K, A, G) /\ Branches(A, G)
    BY DEF Shape
  <1>2. /\ c \in Linked(A, G) \ {base_root}
        /\ Children(L, Cut(A, c), G \cup {c}) /\ Below(L, Cut(A, c), G \cup {c})
    BY CutChildren
  <1>3. Ancestors(Cut(A, c), G \cup {c}) /\ FromRoot(Cut(A, c), G \cup {c})
    BY <1>1, <1>2, CutAncestors
  <1>4. PICK B, H : B = Cut(A, c) /\ H = G \cup {c}
    OBVIOUS
  <1>5. DOMAIN B = DOMAIN A
    BY <1>4 DEF Cut
  <1>6. PointersHang(Q, B, H)
    <2> SUFFICES ASSUME NEW x \in DOMAIN B, NEW q \in BOOLEAN, ~IS_NULL(Q[x][q])
                 PROVE  Q[x][q].node \in DOMAIN B /\ Hangs(B, H, x, q, Q[x][q].node)
      BY DEF PointersHang
    <2>1. x \in DOMAIN A /\ Q[x] = P[x]
      BY <1>5
    <2>2. PICK y : y = P[x][q].node
      OBVIOUS
    <2>3. y \in DOMAIN A /\ Hangs(A, G, x, q, y)
      BY <1>1, <2>1, <2>2 DEF PointersHang
    <2>4. Hangs(B, H, x, q, y)
      BY <1>1, <1>2, <1>4, <2>1, <2>3, CutHangs
    <2> QED
      BY <1>5, <2>1, <2>2, <2>3, <2>4
  <1>7. Branches(B, H)
    <2> SUFFICES ASSUME NEW x \in Linked(B, H), NEW y \in Linked(B, H), x # y
                 PROVE  \E q \in BOOLEAN :
                          <<x, q>> \in B[y] \/ <<y, q>> \in B[x] \/ PartAt(B, x, y, q)
      BY DEF Branches
    <2>1. /\ x \in Linked(A, G) /\ x # c /\ x \in DOMAIN A
          /\ y \in Linked(A, G) /\ y # c /\ y \in DOMAIN A
      BY <1>4, <1>5 DEF Linked
    <2>2. \A w \in DOMAIN A : \A v, q : <<v, q>> \in B[w] <=> <<v, q>> \in A[w] /\ v # c
      BY <1>1, <1>4, CutPairs
    <2>3. ASSUME NEW q \in BOOLEAN, PartAt(A, x, y, q) PROVE PartAt(B, x, y, q)
      <3>1. PICK z \in DOMAIN A : <<z, q>> \in A[x] /\ <<z, ~q>> \in A[y]
        BY <2>3 DEF PartAt
      <3>2. z # c
        <4> SUFFICES ASSUME z = c PROVE FALSE
          OBVIOUS
        <4>1. ~IS_NULL(K[c][q]) /\ ~IS_NULL(K[c][~q])
          BY <1>1, <1>2, <2>1, <3>1 DEF Below
        <4> QED
          BY <4>1 DEF Bypass
      <3> QED
        BY <1>5, <2>1, <2>2, <3>1, <3>2 DEF PartAt
    <2>4. PICK q \in BOOLEAN : <<x, q>> \in A[y] \/ <<y, q>> \in A[x] \/ PartAt(A, x, y, q)
      BY <1>1, <2>1 DEF Branches
    <2> QED
      BY <2>1, <2>2, <2>3, <2>4
  <1> QED
    BY <1>2, <1>3, <1>4, <1>6, <1>7 DEF Shape

-----------------------------------------------------------------------------
(***************************************************************************)
(* The order of the keys.  h[n] is the key of n, v[n] its current key and  *)
(* D are the dead nodes.                                                   *)
(***************************************************************************)
Order(A, G, h, v, D) ==
    /\ \A n \in DOMAIN A : h[n] \in Int /\ v[n] \in Int /\ h[n] <= v[n]
    /\ \A n \in Linked(A, G), x \in DOMAIN A : <<x, TRUE>> \in A[n] => v[n] < h[x]
    /\ \A n \in Linked(A, G), x \in DOMAIN A \ {base_root} : <<x, FALSE>> \in A[n] =>
          v[x] <= h[n] /\ (n \notin D => v[x] < h[n])

(* Left of n there is nothing that is not left of m, but m. *)
Chain(A, m, n) ==
    \A x \in DOMAIN A : <<x, FALSE>> \in A[n] => x = m \/ <<x, FALSE>> \in A[m]

(* n is on the way to the node that follows d in order. *)
After(A, d, n) == <<d, FALSE>> \in A[n] /\ Chain(A, d, n)

(* The bounds that the keys above n set to those below it. *)
Upper(A, h, n, k) == \A x \in DOMAIN A : <<x, TRUE>> \in A[n] => k < h[x]
Lower(A, v, n, k) == \A x \in DOMAIN A \ {base_root} : <<x, FALSE>> \in A[n] => v[x] < k

(* A node on the right of d comes after the one that follows d. *)
LEMMA NextInOrder ==
    ASSUME NEW K, NEW P, NEW A, NEW G, Shape(K, P, A, G), NEW d \in Linked(A, G),
           NEW c \in Linked(A, G), After(A, d, c), IS_NULL(K[c][TRUE]),
           NEW n \in Linked(A, G), n # c, <<d, FALSE>> \in A[n]
    PROVE  \/ <<n, TRUE>> \in A[c]
           \/ <<c, FALSE>> \in A[n]
           \/ \E z \in DOMAIN A : <<z, TRUE>> \in A[c] /\ <<z, FALSE>> \in A[n]
  <1>1. Ancestors(A, G) /\ Below(K, A, G) /\ Branches(A, G)
    BY DEF Shape
  <1>2. n \in DOMAIN A /\ c \in DOMAIN A /\ d \in DOMAIN A /\ A[d] \subseteq A[n]
        /\ n # d /\ (\A q \in BOOLEAN : <<n, q>> \notin A[d]) /\ <<d, TRUE>> \notin A[n]
    <2>1. n \in DOMAIN A /\ c \in DOMAIN A /\ d \in DOMAIN A
      BY DEF Linked
    <2>2. TRUE = ~FALSE
      OBVIOUS
    <2> QED
      BY <1>1, <2>1, <2>2, AboveOne
  <1>3. <<c, TRUE>> \notin A[n]
    BY <1>1 DEF Below
  <1>4. <<n, FALSE>> \notin A[c]
    BY <1>2 DEF After, Chain
  <1>5. ASSUME NEW z \in DOMAIN A, <<z, FALSE>> \in A[c] PROVE <<z, TRUE>> \notin A[n]
    <2>1. z = d \/ <<z, FALSE>> \in A[d]
      BY <1>5 DEF After, Chain
    <2>2. <<z, FALSE>> \in A[n]
      BY <1>2, <2>1
    <2>3. FALSE \in BOOLEAN /\ ~FALSE = TRUE
      OBVIOUS
    <2> QED
      BY <1>1, <1>2, <2>2, <2>3, AboveOne
  <1>6. PICK q \in BOOLEAN : <<c, q>> \in A[n] \/ <<n, q>> \in A[c] \/ PartAt(A, c, n, q)
    BY <1>1 DEF Branches
  <1>7. q = TRUE \/ q = FALSE
    OBVIOUS
  <1>8. CASE PartAt(A, c, n, q)
    <2>1. PICK z \in DOMAIN A : <<z, q>> \in A[c] /\ <<z, ~q>> \in A[n]
      BY <1>8 DEF PartAt
    <2>2. q = TRUE
      <3> SUFFICES ASSUME q = FALSE PROVE FALSE
        BY <1>7
      <3>1. <<z, FALSE>> \in A[c] /\ <<z, TRUE>> \in A[n]
        BY <2>1
      <3> QED
        BY <1>5, <3>1
    <2>3. <<z, TRUE>> \in A[c] /\ <<z, FALSE>> \in A[n]
      BY <2>1, <2>2
    <2> QED
      BY <2>3
  <1>9. CASE <<c, q>> \in A[n] \/ <<n, q>> \in A[c]
    BY <1>3, <1>4, <1>7, <1>9
  <1> QED
    BY <1>6, <1>8, <1>9

LEMMA SideTyped ==
    ASSUME NEW A, NEW G, Ancestors(A, G), NEW n \in DOMAIN A, NEW x, NEW s, <<x, s>> \in A[n]
    PROVE  x \in Linked(A, G) /\ x \in DOMAIN A
  BY AboveOne DEF Linked

(* The key of c may move to d if c follows d in order. *)
MayMove(K, A, G, h, v, d, c) ==
    /\ d \in Linked(A, G) \ {base_root} /\ c \in Linked(A, G)
    /\ After(A, d, c) /\ IS_NULL(K[c][TRUE]) /\ v[c] = h[c] /\ h[d] < h[c]

Moved(A, v, w, d, k) == w[d] = k /\ \A x \in DOMAIN A \ {d} : w[x] = v[x]

Buried(D, E, c) == D \subseteq E /\ c \in E

LEMMA OrderMoved ==
    ASSUME NEW K, NEW P, NEW A, NEW G, Shape(K, P, A, G), NEW h, NEW v, NEW D,
           Order(A, G, h, v, D), NEW d, NEW c, MayMove(K, A, G, h, v, d, c),
           NEW w, Moved(A, v, w, d, h[c]), NEW E, Buried(D, E, c)
    PROVE  Order(A, G, h, w, E)
  <1> USE DEF MayMove, Moved, Buried
  <1>1. Ancestors(A, G) /\ FromRoot(A, G)
    BY DEF Shape
  <1>2. /\ d \in DOMAIN A /\ c \in DOMAIN A /\ h[d] \in Int /\ h[c] \in Int /\ v[d] \in Int
        /\ A[d] \subseteq A[c]
    BY <1>1, AboveOne DEF Linked, Order, After
  <1>3. \A n \in DOMAIN A : h[n] \in Int /\ w[n] \in Int /\ h[n] <= w[n]
    BY <1>2 DEF Order
  <1>4. ASSUME NEW n \in Linked(A, G), NEW x \in DOMAIN A, <<x, TRUE>> \in A[n]
        PROVE  w[n] < h[x]
    <2>1. CASE n = d
      <3>1. v[c] < h[x]
        BY <1>2, <1>4, <2>1 DEF Order
      <3> QED
        BY <2>1, <3>1
    <2>2. CASE n # d
      BY <1>4, <2>2 DEF Order, Linked
    <2> QED
      BY <2>1, <2>2
  <1>5. ASSUME NEW n \in Linked(A, G), NEW x \in DOMAIN A \ {base_root}, <<x, FALSE>> \in A[n]
        PROVE  w[x] <= h[n] /\ (n \notin E => w[x] < h[n])
    <2>1. n \in DOMAIN A /\ h[n] \in Int /\ v[n] \in Int
      BY DEF Linked, Order
    <2>2. CASE x # d
      BY <1>5, <2>1, <2>2 DEF Order
    <2>3. CASE x = d /\ n = c
      BY <1>2, <2>3
    <2>4. CASE x = d /\ n # c
      <3>1. CASE <<n, TRUE>> \in A[c]
        <4>1. v[c] < h[n]
          BY <2>1, <3>1 DEF Order
        <4> QED
          BY <1>2, <2>1, <2>4, <4>1
      <3>2. CASE <<c, FALSE>> \in A[n]
        <4>1. c # base_root
          BY <1>1, <1>2 DEF FromRoot, After
        <4>2. v[c] <= h[n] /\ (n \notin D => v[c] < h[n])
          BY <1>2, <3>2, <4>1 DEF Order
        <4> QED
          BY <2>4, <4>2
      <3>3. ASSUME NEW z \in DOMAIN A, <<z, TRUE>> \in A[c], <<z, FALSE>> \in A[n]
            PROVE  w[x] <= h[n] /\ (n \notin E => w[x] < h[n])
        <4>1. z # base_root
          BY <1>1, <1>2, <3>3 DEF FromRoot
        <4>2. v[c] < h[z] /\ v[z] <= h[n] /\ h[z] <= v[z] /\ h[z] \in Int /\ v[z] \in Int
          BY <1>2, <3>3, <4>1 DEF Order
        <4>3. h[c] < h[n]
          BY <1>2, <2>1, <4>2
        <4> QED
          BY <1>2, <2>1, <2>4, <4>3
      <3> QED
        BY <1>5, <2>4, <3>1, <3>2, <3>3, NextInOrder
    <2> QED
      BY <2>2, <2>3, <2>4
  <1> QED
    BY <1>3, <1>4, <1>5 DEF Order

(* The keys below n on side s that are free stay so when the key of c      *)
(* moves to d: n is not c.                                                 *)
LEMMA VacantMoved ==
    ASSUME NEW K, NEW P, NEW A, NEW G, Shape(K, P, A, G), NEW h, NEW v, NEW D,
           Order(A, G, h, v, D), NEW d, NEW c, MayMove(K, A, G, h, v, d, c),
           NEW w, Moved(A, v, w, d, h[c]),
           NEW n \in Linked(A, G), n # c, NEW s \in BOOLEAN, NEW k \in Int,
           IS_NULL(K[n][s]), Lower(A, v, n, k), s \/ n = base_root \/ h[n] < k
    PROVE  Lower(A, w, n, k)
  <1> USE DEF MayMove, Moved
  <1>1. Ancestors(A, G) /\ FromRoot(A, G) /\ Below(K, A, G)
    BY DEF Shape
  <1>2. /\ d \in DOMAIN A /\ c \in DOMAIN A /\ n \in DOMAIN A /\ h[n] \in Int /\ h[c] \in Int
    BY DEF Linked, Order
  <1> SUFFICES ASSUME <<d, FALSE>> \in A[n] PROVE h[c] < k
    BY DEF Lower
  <1>3. CASE <<n, TRUE>> \in A[c]
    <2>1. s # TRUE
      BY <1>1, <1>3 DEF Below
    <2>2. n # base_root
      BY <1>1, <1>2, <1>3 DEF FromRoot
    <2>3. v[c] < h[n] /\ h[n] < k
      BY <1>2, <1>3, <2>1, <2>2 DEF Order
    <2> QED
      BY <1>2, <2>3
  <1>4. CASE <<c, FALSE>> \in A[n]
    <2>1. c # base_root
      BY <1>1, <1>2 DEF FromRoot, After
    <2> QED
      BY <1>2, <1>4, <2>1 DEF Lower
  <1>5. ASSUME NEW z \in DOMAIN A, <<z, TRUE>> \in A[c], <<z, FALSE>> \in A[n] PROVE h[c] < k
    <2>1. z # base_root
      BY <1>1, <1>2, <1>5 DEF FromRoot
    <2>2. v[c] < h[z] /\ h[z] <= v[z] /\ v[z] < k /\ h[z] \in Int /\ v[z] \in Int
      BY <1>2, <1>5, <2>1 DEF Order, Lower
    <2> QED
      BY <1>2, <2>2
  <1> QED
    BY <1>3, <1>4, <1>5, NextInOrder

(* Keys grow, nothing is moved, nodes die and are unlinked. *)
LEMMA OrderKept ==
    ASSUME NEW A, NEW G, Ancestors(A, G), NEW h, NEW v, NEW D, Order(A, G, h, v, D),
           NEW B, NEW H, DOMAIN B = DOMAIN A, \A n \in DOMAIN A : B[n] \subseteq A[n],
           G \subseteq H, NEW i, NEW w, NEW E, D \subseteq E,
           \A n \in DOMAIN A : i[n] \in Int /\ h[n] <= i[n] /\ i[n] <= w[n] /\ w[n] = v[n]
    PROVE  Order(B, H, i, w, E)
  <1>1. \A n \in DOMAIN A : /\ h[n] \in Int /\ v[n] \in Int /\ i[n] \in Int
                            /\ h[n] <= i[n] /\ i[n] <= w[n] /\ w[n] = v[n]
    BY DEF Order
  <1>2. \A n \in Linked(B, H) : n \in Linked(A, G) /\ n \in DOMAIN A
    BY DEF Linked
  <1>3. ASSUME NEW n \in Linked(B, H), NEW x \in DOMAIN B, <<x, TRUE>> \in B[n]
        PROVE  w[n] < i[x]
    <2>1. v[n] < h[x]
      BY <1>2, <1>3 DEF Order
    <2> QED
      BY <1>1, <1>2, <2>1
  <1>4. ASSUME NEW n \in Linked(B, H), NEW x \in DOMAIN B \ {base_root}, <<x, FALSE>> \in B[n]
        PROVE  w[x] <= i[n] /\ (n \notin E => w[x] < i[n])
    <2>1. v[x] <= h[n] /\ (n \notin D => v[x] < h[n])
      BY <1>2, <1>4 DEF Order
    <2> QED
      BY <1>1, <1>2, <2>1
  <1> QED
    BY <1>1, <1>3, <1>4 DEF Order

(* A new node with a key for which there is room. *)
LEMMA OrderGrown ==
    ASSUME NEW A, NEW G, Ancestors(A, G), NEW h, NEW v, NEW D, Order(A, G, h, v, D),
           NEW n \in Linked(A, G), NEW s \in BOOLEAN, NEW a, a \notin DOMAIN A,
           NEW k \in Int, Upper(A, h, n, k), Lower(A, v, n, k),
           s => k < h[n], ~s => n = base_root \/ v[n] < k,
           NEW i, NEW w, i[a] = k, w[a] = k,
           \A x \in DOMAIN A : i[x] = h[x] /\ w[x] = v[x], NEW E, D \subseteq E
    PROVE  Order(Grown(A, n, s, a), G, i, w, E)
  <1>1. PICK B : B = Grown(A, n, s, a)
    OBVIOUS
  <1>2. /\ DOMAIN B = DOMAIN A \cup {a} /\ B[a] = A[n] \cup {<<n, s>>}
        /\ \A x \in DOMAIN A : B[x] = A[x] /\ x # a
        /\ n \in DOMAIN A /\ n \notin G
    BY <1>1 DEF Grown, Linked
  <1>3. \A x \in DOMAIN A : \A q : <<a, q>> \notin A[x]
    BY DEF Ancestors
  <1>4. \A x \in DOMAIN B : i[x] \in Int /\ w[x] \in Int /\ i[x] <= w[x]
    BY <1>2 DEF Order
  <1>5. \A x \in Linked(B, G) : x = a \/ x \in Linked(A, G)
    BY <1>2 DEF Linked
  <1>6. ASSUME NEW y \in Linked(B, G), NEW x \in DOMAIN B, <<x, TRUE>> \in B[y]
        PROVE  w[y] < i[x]
    <2>1. CASE y = a
      <3>1. x \in DOMAIN A /\ (<<x, TRUE>> \in A[n] \/ (x = n /\ s))
        BY <1>2, <1>3, <1>6, <2>1
      <3> QED
        BY <2>1, <3>1 DEF Upper
    <2>2. CASE y # a
      <3>1. y \in Linked(A, G) /\ y \in DOMAIN A
        BY <1>2, <1>5, <2>2 DEF Linked
      <3>2. <<x, TRUE>> \in A[y] /\ x \in DOMAIN A
        BY <1>2, <1>3, <1>6, <3>1
      <3> QED
        BY <3>1, <3>2 DEF Order
    <2> QED
      BY <2>1, <2>2
  <1>7. ASSUME NEW y \in Linked(B, G), NEW x \in DOMAIN B \ {base_root}, <<x, FALSE>> \in B[y]
        PROVE  w[x] <= i[y] /\ (y \notin E => w[x] < i[y])
    <2>1. CASE y = a
      <3>1. x \in DOMAIN A /\ (<<x, FALSE>> \in A[n] \/ (x = n /\ ~s))
        BY <1>2, <1>3, <1>7, <2>1
      <3>2. v[x] < k /\ v[x] \in Int
        BY <3>1 DEF Lower, Order
      <3> QED
        BY <2>1, <3>1, <3>2
    <2>2. CASE y # a
      <3>1. y \in Linked(A, G) /\ y \in DOMAIN A
        BY <1>2, <1>5, <2>2 DEF Linked
      <3>2. <<x, FALSE>> \in A[y] /\ x \in DOMAIN A \ {base_root}
        BY <1>2, <1>3, <1>7, <3>1
      <3> QED
        BY <3>1, <3>2 DEF Order
    <2> QED
      BY <2>1, <2>2
  <1> QED
    BY <1>1, <1>4, <1>6, <1>7 DEF Order

-----------------------------------------------------------------------------
(***************************************************************************)
(* The heap.                                                               *)
(***************************************************************************)
Is(n, o) == node[n].op = o

Kids == [n \in DOMAIN node |-> [s \in BOOLEAN |-> Child(n, s)]]
Pointers == [n \in DOMAIN node |-> [s \in BOOLEAN |-> ChildOf(node[n], s)]]
Keys == [n \in DOMAIN node |-> node[n].key]
CurrentKeys == [n \in DOMAIN node |-> CurrentKey(n)]
DeadNodes == {n \in DOMAIN node : Dead(n)}

TreeOK(A, G) ==
    /\ DOMAIN A = DOMAIN node /\ IsFiniteSet(DOMAIN node)
    /\ Shape(Kids, Pointers, A, G)
    /\ \A n \in G : Has(n, "MARK")
    /\ Order(A, G, Keys, CurrentKeys, DeadNodes)
    /\ MarkedHasSpareChild

(***************************************************************************)
(* Child pointers: none ever comes back, so that a late swing fails.       *)
(***************************************************************************)
NullOK(G, ptr) == IS_NULL(ptr) => ptr.node \in G \cup {NoNode}

CasOK(G, o) ==
    /\ NullOK(G, o.expected) /\ NullOK(G, o.update)
    /\ ~IS_NULL(o.expected) => o.expected.node \in G
    /\ o.update # o.expected

Swings(G) ==
    /\ \A n \in DOMAIN node, s \in BOOLEAN : NullOK(G, ChildOf(node[n], s))
    /\ \A a \in DOMAIN cas : CasOK(G, cas[a])
    /\ \A n \in DOMAIN node : Has(n, "CHILDCAS") =>
          ChildOf(node[n], PendingCAS(n).is_left) \in {PendingCAS(n).expected, PendingCAS(n).update}
    /\ \A n \in DOMAIN node, a \in DOMAIN cas : Flagged("CHILDCAS", a) \in past[n] =>
          /\ ChildOf(node[n], cas[a].is_left) # cas[a].expected
          /\ Child(n, cas[a].is_left) # cas[a].expected

(***************************************************************************)
(* Relocations.                                                            *)
(***************************************************************************)
Replaces(a, c) ==
    c \in DOMAIN node /\ c # reloc[a].dest /\ ToDest(a) \in Had(node, past, c)

DestKey(a) ==
    LET o == reloc[a]
        d == o.dest
    IN  /\ o.remove_key < o.replace_key
        /\ Is(d, o.dest_op) => node[d].key = o.remove_key
        /\ Is(d, ToDest(a)) =>
              \/ node[d].key = o.remove_key
              \/ o.state = "SUCCESSFUL" /\ node[d].key = o.replace_key
        /\ ToDest(a) \in past[d] =>
              o.replace_key <= node[d].key /\ Flagged("NONE", a) \in Had(node, past, d)
        /\ o.state = "SUCCESSFUL" => ToDest(a) \in Had(node, past, d)

Replaced(A, a, c) ==
    LET o == reloc[a]
        d == o.dest
    IN  /\ Is(c, ToDest(a)) => node[c].key = o.replace_key /\ IS_NULL(node[c].left)
        /\ Is(c, ToDest(a)) /\ o.state = "ONGOING" /\ (Is(d, o.dest_op) \/ Is(d, ToDest(a))) =>
              After(A, d, c)
        /\ ToDest(a) \in past[c] =>
              o.state # "ONGOING" /\ (o.state = "SUCCESSFUL" => Has(c, "MARK"))

RelocationsOK(A) ==
    \A a \in DOMAIN reloc :
        /\ DestKey(a)
        /\ \E c : Replaces(a, c)
        /\ \A c : Replaces(a, c) => Replaced(A, a, c)

HeapInv(A, G) == TreeOK(A, G) /\ Swings(G) /\ RelocationsOK(A)

-----------------------------------------------------------------------------
(***************************************************************************)
(* What a thread knows of the tree.                                        *)
(***************************************************************************)
(* po is what pred's op has been, and curr was its child then. *)
Pair(A, G, p, po, c) ==
    /\ p \in DOMAIN node /\ po \in Had(node, past, p)
    /\ \E s \in BOOLEAN : Hangs(A, G, p, s, c)
    /\ c \in G => ~Is(p, po)

IsLeft(l) == l.result = "NOTFOUND_L"

NotAbove(l, m) ==
    \/ m = base_root \/ node[m].key < l.work.key
    \/ m = l.auxRoot /\ (node[m].key = l.work.key \/ ~Is(m, l.auxRoot_op))

(* There is room for k below n on side s. *)
Vacant(A, n, s, k) ==
    /\ IS_NULL(ChildOf(node[n], s))
    /\ Lower(A, CurrentKeys, n, k)
    /\ s => n # base_root /\ k < node[n].key
    /\ ~s => n = base_root \/ node[n].key < k

(* What is known where there is room, as long as curr has the op that was  *)
(* read.                                                                   *)
Room(A, l, at) ==
    /\ at = "find_curr" /\ l.result # "FOUND" /\ Is(l.curr, l.curr_op) /\ l.auxRoot = base_root =>
          Vacant(A, l.curr, IsLeft(l), l.work.key)
    /\ at = "add_old" /\ Is(l.curr, l.curr_op) => Vacant(A, l.curr, IsLeft(l), l.work.key)
    /\ at = "add_cas" /\ Is(l.curr, l.curr_op) => Vacant(A, l.curr, l.is_left, l.work.key)

FirstFind(A, G, l, at) ==
    LET k == l.work.key
        curr == l.curr
        unchanged == Is(curr, l.curr_op)
    IN  /\ at \in (FindLabel \ {"find"}) \cup {"add_old", "add_cas", "rem_right", "rem_left"} =>
              Upper(A, Keys, curr, k)
        /\ at \in {"find_next", "find_visit", "find_last_right"} /\ IsLeft(l) =>
              curr # base_root /\ k < node[curr].key
        /\ at = "find_next" /\ ~IsLeft(l) /\ unchanged => NotAbove(l, curr)
        /\ at \in {"find_visit", "find_last_right"} /\ ~IsLeft(l) =>
              l.last_right = curr /\ l.last_right_op = l.curr_op
        /\ \/ at \in {"find_visit", "find_key", "find_last_right"}
           \/ at = "find_next" /\ IsLeft(l)
           => /\ l.last_right_op \in Had(node, past, l.last_right)
              /\ l.last_right_op.flag = "NONE"
              /\ Chain(A, l.last_right, curr)
              /\ Is(l.last_right, l.last_right_op) => NotAbove(l, l.last_right)
        /\ at = "find_visit" =>
              /\ Hangs(A, G, curr, IsLeft(l), l.next.node)
              /\ l.next.node \in G => ~unchanged
        /\ at = "find_last_right" /\ unchanged => IS_NULL(ChildOf(node[curr], IsLeft(l)))
        /\ at = "find_curr" /\ l.result = "FOUND" /\ unchanged => node[curr].key = k

SecondFind(A, l, at) ==
    LET k == l.work.key
        curr == l.curr
        r == l.auxRoot
        unchanged == Is(curr, l.curr_op)
        rootUnchanged == Is(r, l.auxRoot_op)
    IN  r # base_root =>
        /\ l.work.op = "DELETE" /\ Upper(A, Keys, r, k)
        /\ rootUnchanged => node[r].key = k /\ ~IS_NULL(node[r].right)
        /\ at \in (FindLabel \ {"find"}) \cup {"rem_recheck"} /\ rootUnchanged =>
              \/ curr = r /\ at \in {"find_next", "find_visit"} /\ ~IsLeft(l)
              \/ /\ curr # r /\ After(A, r, curr) /\ k < node[curr].key
                 /\ at # "find_key" => IsLeft(l)
        /\ at \in {"find_curr", "rem_recheck"} /\ unchanged /\ rootUnchanged =>
              IS_NULL(node[curr].left)
        /\ at \in {"rem_key", "rem_reloc"} =>
              /\ curr # r /\ k < node[curr].key
              /\ unchanged => IS_NULL(node[curr].left)
              /\ rootUnchanged => After(A, r, curr)
        /\ at = "rem_reloc" =>
              k < l.replace_key /\ (unchanged => l.replace_key = node[curr].key)

OpsFind(A, G, l, at) ==
    LET k == l.work.key
        curr == l.curr
        unchanged == Is(curr, l.curr_op)
    IN  /\ at \in (FindLabel \ {"find"}) \cup (OpLabel \ {"add_old", "add_cas"})
           /\ curr # l.auxRoot => Pair(A, G, l.pred, l.pred_op, curr)
        /\ at \in {"add_old", "add_cas", "rem_right", "rem_left", "rem_mark"} => l.auxRoot = base_root
        /\ at \in {"add_old", "add_cas"} => l.work.op = "INSERT"
        /\ at = "add_cas" /\ unchanged => l.old = ChildOf(node[curr], l.is_left)
        /\ at \in {"rem_right", "rem_left", "rem_mark"} => l.work.op = "DELETE"
        /\ at \in {"rem_right", "rem_left", "rem_mark"} /\ unchanged => node[curr].key = k
        /\ at = "rem_left" /\ unchanged => ~IS_NULL(node[curr].right)
        /\ at = "rem_mark" /\ unchanged => IS_NULL(node[curr].left) \/ IS_NULL(node[curr].right)

TheChild(n) ==
    IF ~IS_NULL(node[n].left) THEN node[n].left
    ELSE IF ~IS_NULL(node[n].right) THEN node[n].right ELSE SET_NULL(n)

HelpsMarked(A, G, l, at) ==
    /\ at \in MarkLabel => Has(l.curr, "MARK") /\ Pair(A, G, l.pred, l.pred_op, l.curr)
    /\ at = "mark_take_left" => ~IS_NULL(node[l.curr].left)
    /\ at \in {"mark_right", "mark_take_right"} => IS_NULL(node[l.curr].left)
    /\ at = "mark_take_right" => ~IS_NULL(node[l.curr].right)
    /\ at \in {"mark_side", "mark_cas"} => l.new_ref = TheChild(l.curr)
    /\ at = "mark_cas" /\ Is(l.pred, l.pred_op) =>
          ChildOf(node[l.pred], l.is_left) = NodeAt(l.curr)

HelpsChildCAS(l, at) ==
    /\ at \in ChildLabel => Flagged("CHILDCAS", l.cas_op) \in Had(node, past, l.dest)
    /\ at = "child_clear" /\ Is(l.dest, Flagged("CHILDCAS", l.cas_op)) =>
          ChildOf(node[l.dest], cas[l.cas_op].is_left) = cas[l.cas_op].update

HelpsRelocate(A, G, l, at) ==
    LET a == l.reloc_op
        d == reloc[a].dest
    IN  /\ at \in RelocLabel => ToDest(a) \in Had(node, past, l.curr)
        /\ at \in RelocLabel /\ l.curr # d =>
              /\ Pair(A, G, l.pred, l.pred_op, l.curr)
              /\ l.curr \in G /\ l.pred = d =>
                   ~Is(d, reloc[a].dest_op) /\ ~Is(d, ToDest(a)) /\ ~Is(d, Flagged("NONE", a))
        /\ at \in {"reloc_key", "reloc_clear"} => l.seen_state = "SUCCESSFUL"
        /\ at = "reloc_clear" /\ Is(d, ToDest(a)) => node[d].key = reloc[a].replace_key
        /\ at = "reloc_curr" /\ l.seen_state # "SUCCESSFUL" => reloc[a].state = "FAILED"
        /\ at = "reloc_curr" /\ l.seen_state = "SUCCESSFUL" =>
              Flagged("NONE", a) \in Had(node, past, d)

Helps(A, G, l, at) ==
    HelpsMarked(A, G, l, at) /\ HelpsChildCAS(l, at) /\ HelpsRelocate(A, G, l, at)

ThreadInv(A, G, l, at) ==
    /\ Room(A, l, at) /\ FirstFind(A, G, l, at) /\ SecondFind(A, l, at)
    /\ OpsFind(A, G, l, at) /\ Helps(A, G, l, at)

TreeInv ==
    /\ Inv /\ OpsInv
    /\ \E A, G : HeapInv(A, G) /\ \A t \in Thread : ThreadInv(A, G, loc[t], pc[t])

-----------------------------------------------------------------------------
(***************************************************************************)
(* What every step of the heap is like.  B and H are A and G after it.     *)
(***************************************************************************)
Trimmed(A, G, B, H) ==
    /\ DOMAIN A \subseteq DOMAIN B /\ G \subseteq H
    /\ \A n \in DOMAIN A : B[n] = {e \in A[n] : e[1] \notin H}

(* A node changes with its op, or by the operation that is in its op. *)
NodeLater(n) ==
    /\ n \in DOMAIN node'
    /\ node[n].key \in Int /\ node'[n].key \in Int /\ node[n].key <= node'[n].key
    /\ Had(node, past, n) \subseteq Had(node', past', n)
    /\ node'[n].op # node[n].op => node'[n].op \notin Had(node, past, n) /\ ~Has(n, "MARK")
    /\ node'[n].op = node[n].op /\ node[n].op.flag \in {"NONE", "MARK"} => node'[n] = node[n]
    /\ node'[n].op = node[n].op /\ Has(n, "CHILDCAS") => \A s \in BOOLEAN :
          ChildOf(node'[n], s) = ChildOf(node[n], s) \/ ChildOf(node'[n], s) = PendingCAS(n).update
    /\ \A a : Is(n, ToDest(a)) /\ node'[n].op = node[n].op /\ reloc[a].dest = n
                 /\ node[n].key = reloc[a].replace_key
              => node'[n].key = node[n].key

RelocationLater(a) ==
    LET d == reloc[a].dest
    IN  /\ reloc[a].dest_op \in Had(node, past, d) /\ reloc[a].dest_op.flag = "NONE"
        /\ reloc[a].state = "SUCCESSFUL" => ToDest(a) \in Had(node, past, d)
        /\ a \in DOMAIN reloc' /\ reloc'[a].dest = d /\ reloc'[a].dest_op = reloc[a].dest_op
        /\ reloc'[a].replace_key = reloc[a].replace_key
        /\ reloc'[a].remove_key = reloc[a].remove_key
        /\ reloc'[a].state = reloc[a].state \/ reloc[a].state = "ONGOING"
        /\ node'[d].op = ToDest(a) => Is(d, ToDest(a)) \/ Is(d, reloc[a].dest_op)
        /\ node'[d].op = Flagged("NONE", a) => Is(d, Flagged("NONE", a)) \/ Is(d, ToDest(a))

(* A node is unlinked by an operation at its parent. *)
UnlinkedBy(A, G, H) ==
    \A p \in DOMAIN node \ G, c \in H \ G, s \in BOOLEAN :
        Hangs(A, G, p, s, c) => node'[p].op # node[p].op /\ node'[p].op.flag = "CHILDCAS"

Later(A, G, B, H) ==
    /\ Ancestors(A, G) /\ DOMAIN A = DOMAIN node /\ DOMAIN B = DOMAIN node'
    /\ Trimmed(A, G, B, H) /\ UnlinkedBy(A, G, H)
    /\ \A n \in G : Has(n, "MARK")
    /\ \A n \in H : node'[n].op.flag = "MARK"
    /\ \A n \in DOMAIN node : NodeLater(n)
    /\ \A a \in DOMAIN reloc : reloc[a].dest \in DOMAIN node /\ RelocationLater(a)
    /\ \A a \in DOMAIN cas :
          a \in DOMAIN cas' /\ cas'[a] = cas[a] /\ cas[a].is_left \in BOOLEAN

(* The room that is known to be somewhere remains. *)
RoomLater(A, B) ==
    \A n \in DOMAIN node, s \in BOOLEAN, k \in Int :
        /\ node[n].op.flag = "NONE" /\ node'[n].op = node[n].op /\ Vacant(A, n, s, k)
        => Vacant(B, n, s, k)'

-----------------------------------------------------------------------------
LEMMA LaterNode ==
    ASSUME NEW A, NEW G, NEW B, NEW H, Later(A, G, B, H), NEW n \in DOMAIN node
    PROVE  /\ n \in DOMAIN node' /\ n \in DOMAIN A /\ n \in DOMAIN B
           /\ B[n] = {e \in A[n] : e[1] \notin H}
           /\ node[n].key \in Int /\ node'[n].key \in Int /\ node[n].key <= node'[n].key
           /\ Had(node, past, n) \subseteq Had(node', past', n)
           /\ n \in G => n \in H /\ node'[n].op.flag = "MARK" /\ Has(n, "MARK")
           /\ n \in H => node'[n].op.flag = "MARK"
  BY DEF Later, Trimmed, NodeLater

(* What the op of a node has been it is only if it was so before. *)
LEMMA OpKept ==
    ASSUME NEW A, NEW G, NEW B, NEW H, Later(A, G, B, H), NEW n \in DOMAIN node,
           NEW o \in Had(node, past, n), node'[n].op = o
    PROVE  /\ node[n].op = o /\ (o.flag = "NONE" => node'[n] = node[n] /\ n \notin H /\ n \notin G)
  <1>1. NodeLater(n)
    BY DEF Later
  <1>2. node[n].op = o
    BY <1>1 DEF NodeLater
  <1>3. o.flag = "NONE" => node'[n] = node[n]
    BY <1>1, <1>2 DEF NodeLater
  <1> QED
    BY <1>2, <1>3, LaterNode

LEMMA MarkKept ==
    ASSUME NEW A, NEW G, NEW B, NEW H, Later(A, G, B, H), NEW n \in DOMAIN node, Has(n, "MARK")
    PROVE  node'[n] = node[n]
  <1>1. NodeLater(n)
    BY DEF Later
  <1> QED
    BY <1>1 DEF NodeLater, Has, GET_FLAG

LEMMA UpperLater ==
    ASSUME NEW A, NEW G, NEW B, NEW H, Later(A, G, B, H), NEW n \in DOMAIN node, NEW k \in Int,
           Upper(A, Keys, n, k)
    PROVE  Upper(B, Keys, n, k)'
  <1>1. ASSUME NEW x, <<x, TRUE>> \in B[n] PROVE k < node'[x].key
    <2>1. <<x, TRUE>> \in A[n]
      BY <1>1, LaterNode
    <2>2. x \in DOMAIN node
      BY <2>1, LaterNode, AboveOne DEF Later
    <2>3. k < node[x].key
      BY <2>1, <2>2 DEF Upper, Keys, Later
    <2> QED
      BY <2>2, <2>3, LaterNode
  <1> QED
    BY <1>1 DEF Upper, Keys, Later

LEMMA ChainLater ==
    ASSUME NEW A, NEW G, NEW B, NEW H, Later(A, G, B, H), NEW m \in DOMAIN node,
           NEW n \in DOMAIN node, Chain(A, m, n)
    PROVE  Chain(B, m, n)
  <1>1. ASSUME NEW x, <<x, FALSE>> \in B[n] PROVE x = m \/ <<x, FALSE>> \in B[m]
    <2>1. <<x, FALSE>> \in A[n] /\ x \notin H
      BY <1>1, LaterNode
    <2>2. x \in DOMAIN A
      BY <2>1, LaterNode, AboveOne DEF Later
    <2>3. x = m \/ <<x, FALSE>> \in A[m]
      BY <2>1, <2>2 DEF Chain
    <2> QED
      BY <2>1, <2>3, LaterNode
  <1> QED
    BY <1>1 DEF Chain

LEMMA AfterLater ==
    ASSUME NEW A, NEW G, NEW B, NEW H, Later(A, G, B, H), NEW d \in DOMAIN node \ H,
           NEW n \in DOMAIN node, After(A, d, n)
    PROVE  After(B, d, n)
  BY ChainLater, LaterNode DEF After

LEMMA HangsLater ==
    ASSUME NEW A, NEW G, NEW B, NEW H, Later(A, G, B, H), NEW n \in DOMAIN node,
           NEW c \in DOMAIN node, NEW s, Hangs(A, G, n, s, c)
    PROVE  Hangs(B, H, n, s, c)
  <1>1. G \subseteq H
    BY DEF Later, Trimmed
  <1>2. B[c] = {e \in A[c] : e[1] \notin H} /\ B[n] = {e \in A[n] : e[1] \notin H}
    BY LaterNode
  <1> QED
    BY <1>1, <1>2 DEF Hangs

LEMMA PairLater ==
    ASSUME NEW A, NEW G, NEW B, NEW H, Later(A, G, B, H), NEW p,
           NEW c \in DOMAIN node, NEW po, po.flag = "NONE", Pair(A, G, p, po, c)
    PROVE  Pair(B, H, p, po, c)'
  <1>1. /\ p \in DOMAIN node /\ p \in DOMAIN node'
        /\ po \in Had(node, past, p) /\ po \in Had(node', past', p)
    BY LaterNode DEF Pair
  <1>2. PICK s \in BOOLEAN : Hangs(A, G, p, s, c)
    BY DEF Pair
  <1>3. Hangs(B, H, p, s, c)
    BY <1>1, <1>2, HangsLater
  <1>4. ASSUME c \in H, node'[p].op = po PROVE FALSE
    <2>1. node[p].op = po /\ p \notin G
      BY <1>1, <1>4, OpKept
    <2>2. c \notin G
      BY <2>1 DEF Pair, Is
    <2> QED
      BY <1>1, <1>2, <1>4, <2>1, <2>2 DEF Later, UnlinkedBy
  <1> QED
    BY <1>1, <1>3, <1>4 DEF Pair, Is

-----------------------------------------------------------------------------
(***************************************************************************)
(* What a thread that waits knows of the tree remains true.                *)
(***************************************************************************)
Stands(l, at) ==
    l \in LocalState /\ LocalOK(l, at) /\ ThreadOps(node, past, reloc, l, at)

LEMMA StandsFacts ==
    ASSUME NEW l, NEW at, Stands(l, at)
    PROVE  /\ l.work.key \in Int /\ IsLeft(l) \in BOOLEAN /\ l.is_left \in BOOLEAN
           /\ l.auxRoot \in DOMAIN node
           /\ l.auxRoot # base_root => l.auxRoot_op \in Had(node, past, l.auxRoot)
           /\ l.auxRoot_op.flag = "NONE" /\ l.pred_op.flag = "NONE" /\ l.curr_op.flag = "NONE"
           /\ at \in CurrLabel => l.curr \in DOMAIN node /\ l.curr_op \in Had(node, past, l.curr)
  <1>1. l.work \in Work /\ l.is_left \in BOOLEAN
    BY DEF Stands, LocalState
  <1>2. l.work.key \in Int
    BY <1>1 DEF Work
  <1>3. IsLeft(l) \in BOOLEAN
    BY DEF IsLeft
  <1> QED
    BY <1>1, <1>2, <1>3 DEF Stands, LocalOK, ThreadOps, ReadOps

(* A node with an op that was read is as it was. *)
LEMMA CurrKept ==
    ASSUME NEW A, NEW G, NEW B, NEW H, Later(A, G, B, H), NEW l, NEW at, Stands(l, at),
           at \in CurrLabel, Is(l.curr, l.curr_op)'
    PROVE  Is(l.curr, l.curr_op) /\ node'[l.curr] = node[l.curr] /\ l.curr \notin H
  BY StandsFacts, OpKept DEF Is

LEMMA RootKept ==
    ASSUME NEW A, NEW G, NEW B, NEW H, Later(A, G, B, H), NEW l, NEW at, Stands(l, at),
           l.auxRoot # base_root, Is(l.auxRoot, l.auxRoot_op)'
    PROVE  /\ Is(l.auxRoot, l.auxRoot_op) /\ node'[l.auxRoot] = node[l.auxRoot]
           /\ l.auxRoot \notin H
  BY StandsFacts, OpKept DEF Is

LEMMA NotAboveLater ==
    ASSUME NEW A, NEW G, NEW B, NEW H, Later(A, G, B, H), NEW l, NEW at, Stands(l, at),
           NEW m \in DOMAIN node, node'[m] = node[m], NotAbove(l, m)
    PROVE  NotAbove(l, m)'
  BY RootKept DEF NotAbove, Is

LEMMA VacantLater ==
    ASSUME NEW A, NEW G, NEW B, NEW H, Later(A, G, B, H), RoomLater(A, B),
           NEW l, NEW at, Stands(l, at), at \in CurrLabel, Is(l.curr, l.curr_op)',
           NEW s \in BOOLEAN, Vacant(A, l.curr, s, l.work.key)
    PROVE  Vacant(B, l.curr, s, l.work.key)'
  <1>1. /\ l.curr \in DOMAIN node /\ l.work.key \in Int /\ l.curr_op.flag = "NONE"
        /\ node[l.curr].op = l.curr_op /\ node'[l.curr] = node[l.curr]
    BY CurrKept, StandsFacts DEF Is
  <1> QED
    BY <1>1 DEF RoomLater

LEMMA RoomKept ==
    ASSUME NEW A, NEW G, NEW B, NEW H, Later(A, G, B, H), RoomLater(A, B),
           NEW l, NEW at, Stands(l, at), Room(A, l, at)
    PROVE  Room(B, l, at)'
  <1>1. at \in {"find_curr", "add_old", "add_cas"} => at \in CurrLabel
    BY DEF CurrLabel, FindLabel, OpLabel
  <1>2. IsLeft(l) \in BOOLEAN /\ l.is_left \in BOOLEAN
    BY StandsFacts
  <1>3. ASSUME at = "find_curr", l.result # "FOUND", Is(l.curr, l.curr_op)', l.auxRoot = base_root
        PROVE  Vacant(B, l.curr, IsLeft(l), l.work.key)'
    <2>1. Vacant(A, l.curr, IsLeft(l), l.work.key)
      BY <1>1, <1>3, CurrKept DEF Room
    <2> QED
      BY <1>1, <1>2, <1>3, <2>1, VacantLater
  <1>4. ASSUME at = "add_old", Is(l.curr, l.curr_op)'
        PROVE  Vacant(B, l.curr, IsLeft(l), l.work.key)'
    <2>1. Vacant(A, l.curr, IsLeft(l), l.work.key)
      BY <1>1, <1>4, CurrKept DEF Room
    <2> QED
      BY <1>1, <1>2, <1>4, <2>1, VacantLater
  <1>5. ASSUME at = "add_cas", Is(l.curr, l.curr_op)'
        PROVE  Vacant(B, l.curr, l.is_left, l.work.key)'
    <2>1. Vacant(A, l.curr, l.is_left, l.work.key)
      BY <1>1, <1>5, CurrKept DEF Room
    <2> QED
      BY <1>1, <1>2, <1>5, <2>1, VacantLater
  <1> QED
    BY <1>3, <1>4, <1>5 DEF Room

LastRightLabel(l, at) ==
    \/ at \in {"find_visit", "find_key", "find_last_right"}
    \/ at = "find_next" /\ IsLeft(l)

LEMMA FirstFindKept ==
    ASSUME NEW A, NEW G, NEW B, NEW H, Later(A, G, B, H),
           NEW l, NEW at, Stands(l, at), FirstFind(A, G, l, at)
    PROVE  FirstFind(B, H, l, at)'
  <1>1. /\ (FindLabel \ {"find"}) \cup {"add_old", "add_cas", "rem_right", "rem_left"} \subseteq CurrLabel
        /\ {"find_next", "find_visit", "find_last_right", "find_curr", "find_key"} \subseteq CurrLabel
    BY DEF CurrLabel, FindLabel, OpLabel
  <1>2. l.work.key \in Int /\ (at \in CurrLabel => l.curr \in DOMAIN node)
    BY StandsFacts
  <1>3. ASSUME at \in (FindLabel \ {"find"}) \cup {"add_old", "add_cas", "rem_right", "rem_left"}
        PROVE  Upper(B, Keys, l.curr, l.work.key)'
    <2>1. Upper(A, Keys, l.curr, l.work.key)
      BY <1>3 DEF FirstFind
    <2> QED
      BY <1>1, <1>2, <1>3, <2>1, UpperLater
  <1>4. ASSUME at \in {"find_next", "find_visit", "find_last_right"}, IsLeft(l)
        PROVE  l.curr # base_root /\ l.work.key < node'[l.curr].key
    <2>1. l.curr # base_root /\ l.work.key < node[l.curr].key
      BY <1>4 DEF FirstFind
    <2>2. l.curr \in DOMAIN node
      BY <1>1, <1>2, <1>4
    <2> QED
      BY <1>2, <2>1, <2>2, LaterNode
  <1>5. ASSUME at = "find_next", ~IsLeft(l), Is(l.curr, l.curr_op)'
        PROVE  NotAbove(l, l.curr)'
    <2>1. at \in CurrLabel
      BY <1>1, <1>5
    <2>2. Is(l.curr, l.curr_op) /\ node'[l.curr] = node[l.curr]
      BY <1>5, <2>1, CurrKept
    <2>3. NotAbove(l, l.curr)
      BY <1>5, <2>2 DEF FirstFind
    <2> QED
      BY <1>2, <2>1, <2>2, <2>3, NotAboveLater
  <1>6. ASSUME LastRightLabel(l, at)
        PROVE  /\ l.last_right_op \in Had(node', past', l.last_right)
               /\ l.last_right_op.flag = "NONE"
               /\ Chain(B, l.last_right, l.curr)
               /\ Is(l.last_right, l.last_right_op)' => NotAbove(l, l.last_right)'
    <2>1. /\ l.last_right_op \in Had(node, past, l.last_right)
          /\ l.last_right_op.flag = "NONE"
          /\ Chain(A, l.last_right, l.curr)
          /\ Is(l.last_right, l.last_right_op) => NotAbove(l, l.last_right)
      BY <1>6 DEF FirstFind, LastRightLabel
    <2>2. at \in CurrLabel /\ l.curr \in DOMAIN node
      BY <1>1, <1>2, <1>6 DEF LastRightLabel
    <2>3. l.last_right \in DOMAIN node
      BY <1>6 DEF LastRightLabel, IsLeft, Stands, LocalOK
    <2>4. ASSUME Is(l.last_right, l.last_right_op)' PROVE NotAbove(l, l.last_right)'
      <3>1. Is(l.last_right, l.last_right_op) /\ node'[l.last_right] = node[l.last_right]
        BY <2>1, <2>3, <2>4, OpKept DEF Is
      <3> QED
        BY <2>1, <2>3, <3>1, NotAboveLater
    <2> QED
      BY <2>1, <2>2, <2>3, <2>4, ChainLater, LaterNode
  <1>7. ASSUME at = "find_visit"
        PROVE  /\ Hangs(B, H, l.curr, IsLeft(l), l.next.node)
               /\ l.next.node \in H => ~Is(l.curr, l.curr_op)'
    <2>1. /\ Hangs(A, G, l.curr, IsLeft(l), l.next.node)
          /\ l.next.node \in G => ~Is(l.curr, l.curr_op)
      BY <1>7 DEF FirstFind
    <2>2. l.next.node \in DOMAIN node
      BY <1>7 DEF Stands, LocalOK, RefOK, Node
    <2>3. at \in CurrLabel /\ l.curr \in DOMAIN node /\ IsLeft(l) \in BOOLEAN
      BY <1>1, <1>2, <1>7, StandsFacts
    <2>4. ASSUME l.next.node \in H, Is(l.curr, l.curr_op)' PROVE FALSE
      <3>1. Is(l.curr, l.curr_op) /\ node'[l.curr] = node[l.curr] /\ l.curr \notin H
        BY <2>3, <2>4, CurrKept
      <3>2. l.curr \notin G /\ l.next.node \notin G
        BY <2>1, <2>3, <3>1, LaterNode
      <3> QED
        BY <2>1, <2>3, <2>4, <3>1, <3>2 DEF Later, UnlinkedBy
    <2> QED
      BY <2>1, <2>2, <2>3, <2>4, HangsLater
  <1>8. ASSUME at = "find_last_right", Is(l.curr, l.curr_op)'
        PROVE  IS_NULL(ChildOf(node'[l.curr], IsLeft(l)))
    <2>1. at \in CurrLabel
      BY <1>1, <1>8
    <2>2. Is(l.curr, l.curr_op) /\ node'[l.curr] = node[l.curr]
      BY <1>8, <2>1, CurrKept
    <2> QED
      BY <1>8, <2>2 DEF FirstFind
  <1>9. ASSUME at = "find_curr", l.result = "FOUND", Is(l.curr, l.curr_op)'
        PROVE  node'[l.curr].key = l.work.key
    <2>1. at \in CurrLabel
      BY <1>1, <1>9
    <2>2. Is(l.curr, l.curr_op) /\ node'[l.curr] = node[l.curr]
      BY <1>9, <2>1, CurrKept
    <2> QED
      BY <1>9, <2>2 DEF FirstFind
  <1>10. at \in {"find_visit", "find_last_right"} /\ ~IsLeft(l) =>
              l.last_right = l.curr /\ l.last_right_op = l.curr_op
    BY DEF FirstFind
  <1> QED
    BY <1>3, <1>4, <1>5, <1>6, <1>7, <1>8, <1>9, <1>10 DEF FirstFind, LastRightLabel, IsLeft

LEMMA SecondFindKept ==
    ASSUME NEW A, NEW G, NEW B, NEW H, Later(A, G, B, H),
           NEW l, NEW at, Stands(l, at), SecondFind(A, l, at)
    PROVE  SecondFind(B, l, at)'
  <1> SUFFICES ASSUME l.auxRoot # base_root PROVE SecondFind(B, l, at)'
    BY DEF SecondFind
  <1>1. /\ (FindLabel \ {"find"}) \cup {"rem_recheck"} \subseteq CurrLabel
        /\ {"find_next", "find_visit", "find_curr", "rem_recheck", "rem_key", "rem_reloc"} \subseteq CurrLabel
    BY DEF CurrLabel, FindLabel, OpLabel
  <1>2. /\ l.work.key \in Int /\ l.auxRoot \in DOMAIN node
        /\ at \in CurrLabel => l.curr \in DOMAIN node
    BY StandsFacts
  <1>3. l.work.op = "DELETE" /\ Upper(A, Keys, l.auxRoot, l.work.key)
    BY DEF SecondFind
  <1>4. Upper(B, Keys, l.auxRoot, l.work.key)'
    BY <1>2, <1>3, UpperLater
  <1>5. ASSUME Is(l.auxRoot, l.auxRoot_op)'
        PROVE  /\ Is(l.auxRoot, l.auxRoot_op) /\ node'[l.auxRoot] = node[l.auxRoot]
               /\ l.auxRoot \notin H
    BY <1>5, RootKept
  <1>6. Is(l.auxRoot, l.auxRoot_op)' =>
              node'[l.auxRoot].key = l.work.key /\ ~IS_NULL(node'[l.auxRoot].right)
    BY <1>5 DEF SecondFind
  <1>7. ASSUME at \in (FindLabel \ {"find"}) \cup {"rem_recheck"}, Is(l.auxRoot, l.auxRoot_op)'
        PROVE  \/ l.curr = l.auxRoot /\ at \in {"find_next", "find_visit"} /\ ~IsLeft(l)
               \/ /\ l.curr # l.auxRoot /\ After(B, l.auxRoot, l.curr)
                  /\ l.work.key < node'[l.curr].key
                  /\ at # "find_key" => IsLeft(l)
    <2>1. \/ l.curr = l.auxRoot /\ at \in {"find_next", "find_visit"} /\ ~IsLeft(l)
          \/ /\ l.curr # l.auxRoot /\ After(A, l.auxRoot, l.curr)
             /\ l.work.key < node[l.curr].key
             /\ at # "find_key" => IsLeft(l)
      BY <1>5, <1>7 DEF SecondFind
    <2>2. at \in CurrLabel /\ l.curr \in DOMAIN node
      BY <1>1, <1>2, <1>7
    <2> QED
      BY <1>2, <1>5, <1>7, <2>1, <2>2, AfterLater, LaterNode
  <1>8. ASSUME at \in {"find_curr", "rem_recheck"}, Is(l.curr, l.curr_op)',
               Is(l.auxRoot, l.auxRoot_op)'
        PROVE  IS_NULL(node'[l.curr].left)
    <2>1. at \in CurrLabel
      BY <1>1, <1>8
    <2>2. Is(l.curr, l.curr_op) /\ node'[l.curr] = node[l.curr]
      BY <1>8, <2>1, CurrKept
    <2> QED
      BY <1>5, <1>8, <2>2 DEF SecondFind
  <1>9. ASSUME at \in {"rem_key", "rem_reloc"}
        PROVE  /\ l.curr # l.auxRoot /\ l.work.key < node'[l.curr].key
               /\ Is(l.curr, l.curr_op)' => IS_NULL(node'[l.curr].left)
               /\ Is(l.auxRoot, l.auxRoot_op)' => After(B, l.auxRoot, l.curr)
               /\ at = "rem_reloc" =>
                    /\ l.work.key < l.replace_key
                    /\ Is(l.curr, l.curr_op)' => l.replace_key = node'[l.curr].key
    <2>1. /\ l.curr # l.auxRoot /\ l.work.key < node[l.curr].key
          /\ Is(l.curr, l.curr_op) => IS_NULL(node[l.curr].left)
          /\ Is(l.auxRoot, l.auxRoot_op) => After(A, l.auxRoot, l.curr)
          /\ at = "rem_reloc" =>
               /\ l.work.key < l.replace_key
               /\ Is(l.curr, l.curr_op) => l.replace_key = node[l.curr].key
      BY <1>9 DEF SecondFind
    <2>2. at \in CurrLabel /\ l.curr \in DOMAIN node
      BY <1>1, <1>2, <1>9
    <2>3. l.work.key < node'[l.curr].key
      BY <1>2, <2>1, <2>2, LaterNode
    <2>4. Is(l.curr, l.curr_op)' => Is(l.curr, l.curr_op) /\ node'[l.curr] = node[l.curr]
      BY <2>2, CurrKept
    <2> QED
      BY <1>2, <1>5, <2>1, <2>2, <2>3, <2>4, AfterLater
  <1> QED
    BY <1>3, <1>4, <1>6, <1>7, <1>8, <1>9 DEF SecondFind

LEMMA OpsFindKept ==
    ASSUME NEW A, NEW G, NEW B, NEW H, Later(A, G, B, H),
           NEW l, NEW at, Stands(l, at), OpsFind(A, G, l, at)
    PROVE  OpsFind(B, H, l, at)'
  <1>1. /\ OpLabel \subseteq CurrLabel
        /\ {"add_cas", "rem_right", "rem_left", "rem_mark"} \subseteq CurrLabel
    BY DEF CurrLabel, OpLabel
  <1>2. at \in CurrLabel /\ Is(l.curr, l.curr_op)' =>
           Is(l.curr, l.curr_op) /\ node'[l.curr] = node[l.curr]
    BY CurrKept
  <1>3. ASSUME at \in (FindLabel \ {"find"}) \cup (OpLabel \ {"add_old", "add_cas"}),
               l.curr # l.auxRoot
        PROVE  Pair(B, H, l.pred, l.pred_op, l.curr)'
    <2>1. Pair(A, G, l.pred, l.pred_op, l.curr)
      BY <1>3 DEF OpsFind
    <2>2. at \in CurrLabel
      BY <1>1, <1>3 DEF CurrLabel
    <2>3. l.pred_op.flag = "NONE" /\ l.curr \in DOMAIN node
      BY <2>2, StandsFacts
    <2> QED
      BY <2>1, <2>3, PairLater
  <1> QED
    BY <1>1, <1>2, <1>3 DEF OpsFind

LEMMA HelpsMarkedKept ==
    ASSUME NEW A, NEW G, NEW B, NEW H, Later(A, G, B, H),
           NEW l, NEW at, Stands(l, at), HelpsMarked(A, G, l, at)
    PROVE  HelpsMarked(B, H, l, at)'
  <1>1. {"mark_take_left", "mark_right", "mark_take_right", "mark_side", "mark_cas"} \subseteq MarkLabel
    BY DEF MarkLabel
  <1> SUFFICES ASSUME at \in MarkLabel PROVE HelpsMarked(B, H, l, at)'
    BY <1>1 DEF HelpsMarked
  <1>2. Has(l.curr, "MARK") /\ Pair(A, G, l.pred, l.pred_op, l.curr)
    BY DEF HelpsMarked
  <1>3. l.curr \in DOMAIN node /\ l.pred \in DOMAIN node /\ l.pred_op.flag = "NONE"
    BY DEF Stands, LocalOK, Node
  <1>4. node'[l.curr] = node[l.curr]
    BY <1>2, <1>3, MarkKept
  <1>5. Has(l.curr, "MARK")' /\ TheChild(l.curr)' = TheChild(l.curr)
    BY <1>2, <1>4 DEF Has, TheChild
  <1>6. Pair(B, H, l.pred, l.pred_op, l.curr)'
    BY <1>2, <1>3, PairLater
  <1>7. Is(l.pred, l.pred_op)' => Is(l.pred, l.pred_op) /\ node'[l.pred] = node[l.pred]
    BY <1>2, <1>3, OpKept DEF Is, Pair
  <1> QED
    BY <1>4, <1>5, <1>6, <1>7 DEF HelpsMarked

LEMMA HelpsChildCASKept ==
    ASSUME NEW A, NEW G, NEW B, NEW H, Later(A, G, B, H),
           NEW l, NEW at, Stands(l, at), HelpsChildCAS(l, at)
    PROVE  HelpsChildCAS(l, at)'
  <1> SUFFICES ASSUME at \in ChildLabel PROVE HelpsChildCAS(l, at)'
    BY DEF HelpsChildCAS, ChildLabel
  <1>1. l.cas_op \in DOMAIN cas /\ l.dest \in DOMAIN node /\ cas'[l.cas_op] = cas[l.cas_op]
    BY DEF Stands, LocalOK, Later
  <1>2. Flagged("CHILDCAS", l.cas_op) \in Had(node, past, l.dest)
    BY DEF HelpsChildCAS
  <1>3. Flagged("CHILDCAS", l.cas_op) \in Had(node', past', l.dest)
    BY <1>1, <1>2, LaterNode
  <1>4. ASSUME at = "child_clear", Is(l.dest, Flagged("CHILDCAS", l.cas_op))'
        PROVE  ChildOf(node'[l.dest], cas[l.cas_op].is_left) = cas[l.cas_op].update
    <2>1. Is(l.dest, Flagged("CHILDCAS", l.cas_op)) /\ node'[l.dest].op = node[l.dest].op
      BY <1>1, <1>2, <1>4, OpKept DEF Is
    <2>2. Has(l.dest, "CHILDCAS") /\ PendingCAS(l.dest) = cas[l.cas_op]
      BY <2>1 DEF Is, Has, GET_FLAG, PendingCAS, UNFLAG, Flagged
    <2>3. cas[l.cas_op].is_left \in BOOLEAN
      BY <1>1 DEF Later
    <2> QED
      BY <1>1, <1>4, <2>1, <2>2, <2>3 DEF HelpsChildCAS, Later, NodeLater
  <1> QED
    BY <1>1, <1>3, <1>4 DEF HelpsChildCAS

LEMMA HelpsRelocateKept ==
    ASSUME NEW A, NEW G, NEW B, NEW H, Later(A, G, B, H),
           NEW l, NEW at, Stands(l, at), HelpsRelocate(A, G, l, at)
    PROVE  HelpsRelocate(B, H, l, at)'
  <1> SUFFICES ASSUME at \in RelocLabel PROVE HelpsRelocate(B, H, l, at)'
    BY DEF HelpsRelocate, RelocLabel
  <1> DEFINE a == l.reloc_op
             d == reloc[a].dest
  <1>1. /\ a \in DOMAIN reloc /\ d \in DOMAIN node /\ RelocationLater(a) /\ NodeLater(d)
        /\ l.curr \in DOMAIN node /\ l.pred \in DOMAIN node /\ l.pred_op.flag = "NONE"
    BY DEF Stands, LocalOK, Later, Node
  <1>2. reloc'[a].dest = d /\ reloc'[a].dest_op = reloc[a].dest_op
        /\ reloc'[a].replace_key = reloc[a].replace_key
        /\ (reloc[a].state # "ONGOING" => reloc'[a].state = reloc[a].state)
        /\ reloc[a].dest_op \in Had(node, past, d) /\ reloc[a].dest_op.flag = "NONE"
    BY <1>1 DEF RelocationLater
  <1>3. ToDest(a) \in Had(node, past, l.curr)
    BY DEF HelpsRelocate
  <1>4. ToDest(a) \in Had(node', past', l.curr)
    BY <1>1, <1>3, LaterNode
  <1>5. ASSUME l.curr # d
        PROVE  /\ Pair(B, H, l.pred, l.pred_op, l.curr)'
               /\ l.curr \in H /\ l.pred = d =>
                     /\ node'[d].op # reloc[a].dest_op /\ node'[d].op # ToDest(a)
                     /\ node'[d].op # Flagged("NONE", a)
    <2>1. /\ Pair(A, G, l.pred, l.pred_op, l.curr)
          /\ l.curr \in G /\ l.pred = d =>
                ~Is(d, reloc[a].dest_op) /\ ~Is(d, ToDest(a)) /\ ~Is(d, Flagged("NONE", a))
      BY <1>5 DEF HelpsRelocate
    <2>2. Pair(B, H, l.pred, l.pred_op, l.curr)'
      BY <1>1, <2>1, PairLater
    <2>3. CASE l.curr \in G /\ l.pred = d
      <3>1. /\ node'[d].op = ToDest(a) => Is(d, ToDest(a)) \/ Is(d, reloc[a].dest_op)
            /\ node'[d].op = Flagged("NONE", a) => Is(d, Flagged("NONE", a)) \/ Is(d, ToDest(a))
        BY <1>1 DEF RelocationLater
      <3>2. node'[d].op = reloc[a].dest_op => Is(d, reloc[a].dest_op)
        BY <1>1, <1>2, OpKept DEF Is
      <3> QED
        BY <2>1, <2>2, <2>3, <3>1, <3>2
    <2>4. CASE l.curr \in H \ G /\ l.pred = d /\ d \notin G
      <3>1. PICK s \in BOOLEAN : Hangs(A, G, d, s, l.curr)
        BY <2>1, <2>4 DEF Pair
      <3>2. node'[d].op.flag = "CHILDCAS"
        BY <1>1, <2>4, <3>1 DEF Later, UnlinkedBy
      <3> QED
        BY <1>2, <2>2, <3>2 DEF ToDest, Flagged
    <2>5. CASE l.pred = d /\ d \in G
      <3>1. node'[d].op.flag = "MARK"
        BY <1>1, <2>5, LaterNode
      <3> QED
        BY <1>2, <2>2, <3>1 DEF ToDest, Flagged
    <2> QED
      BY <2>2, <2>3, <2>4, <2>5
  <1>6. ASSUME at = "reloc_clear", node'[d].op = ToDest(a)
        PROVE  node'[d].key = reloc[a].replace_key
    <2>1. reloc[a].state = "SUCCESSFUL"
      BY <1>6 DEF Stands, ThreadOps, Knows
    <2>2. ToDest(a) \in Had(node, past, d)
      BY <1>1, <2>1 DEF RelocationLater
    <2>3. node[d].op = ToDest(a)
      BY <1>1, <1>6, <2>2, OpKept
    <2>4. node[d].key = reloc[a].replace_key
      BY <1>6, <2>3 DEF HelpsRelocate, Is
    <2> QED
      BY <1>1, <1>6, <2>3, <2>4 DEF NodeLater, Is
  <1>7. at = "reloc_curr" /\ l.seen_state # "SUCCESSFUL" => reloc'[a].state = "FAILED"
    BY <1>2 DEF HelpsRelocate
  <1>8. at = "reloc_curr" /\ l.seen_state = "SUCCESSFUL" =>
              Flagged("NONE", a) \in Had(node', past', d)
    BY <1>1, LaterNode DEF HelpsRelocate
  <1>9. at \in {"reloc_key", "reloc_clear"} => l.seen_state = "SUCCESSFUL"
    BY DEF HelpsRelocate
  <1> QED
    BY <1>2, <1>4, <1>5, <1>6, <1>7, <1>8, <1>9 DEF HelpsRelocate, Is

LEMMA ThreadKept ==
    ASSUME NEW A, NEW G, NEW B, NEW H, Later(A, G, B, H), RoomLater(A, B),
           NEW l, NEW at, Stands(l, at), ThreadInv(A, G, l, at)
    PROVE  ThreadInv(B, H, l, at)'
  BY RoomKept, FirstFindKept, SecondFindKept, OpsFindKept, HelpsMarkedKept,
     HelpsChildCASKept, HelpsRelocateKept DEF ThreadInv, Helps

-----------------------------------------------------------------------------
(***************************************************************************)
(* The heap after a step.                                                  *)
(***************************************************************************)
Recorded == past' = Remembered(node, past, node')

Extends ==
    /\ \A a \in DOMAIN cas : a \in DOMAIN cas' /\ cas'[a] = cas[a]
    /\ \A a \in DOMAIN reloc : a \in DOMAIN reloc' /\ reloc'[a] = reloc[a]

HeapLater ==
    /\ \A n \in DOMAIN node : NodeLater(n)
    /\ \A a \in DOMAIN reloc : reloc[a].dest \in DOMAIN node /\ RelocationLater(a)
    /\ \A a \in DOMAIN cas : a \in DOMAIN cas' /\ cas'[a] = cas[a] /\ cas[a].is_left \in BOOLEAN

LEMMA HeapTypes ==
    ASSUME Inv, OpsInv, NEW A, RelocationsOK(A)
    PROVE  /\ \A n \in DOMAIN node : node[n].key \in Int /\ node[n] \in LF_BST_Node
           /\ \A a \in DOMAIN cas : cas[a].is_left \in BOOLEAN
           /\ \A a \in DOMAIN reloc :
                 /\ reloc[a].dest \in DOMAIN node \ {base_root}
                 /\ reloc[a].dest_op \in Had(node, past, reloc[a].dest)
                 /\ reloc[a].dest_op.flag = "NONE"
                 /\ reloc[a].state = "SUCCESSFUL" => ToDest(a) \in Had(node, past, reloc[a].dest)
                 /\ reloc[a].remove_key \in Int /\ reloc[a].replace_key \in Int
  <1>1. \A n \in DOMAIN node : node[n] \in LF_BST_Node /\ node[n].key \in Int
    BY DEF Inv, TypeOK, LF_BST_Node
  <1>2. \A a \in DOMAIN cas : cas[a].is_left \in BOOLEAN
    BY DEF Inv, TypeOK, Child_CAS_OP
  <1>3. \A a \in DOMAIN reloc : reloc[a].remove_key \in Int /\ reloc[a].replace_key \in Int
    BY DEF Inv, TypeOK, Relocate_OP
  <1>4. \A a \in DOMAIN reloc :
            reloc[a].dest \in DOMAIN node \ {base_root} /\ reloc[a].dest_op.flag = "NONE"
    BY DEF Inv, PointersOK, HeapOK, Node
  <1>5. \A a \in DOMAIN reloc : reloc[a].dest_op \in Had(node, past, reloc[a].dest)
    BY DEF OpsInv, HeapOps, RelocationOK
  <1>6. \A a \in DOMAIN reloc :
            reloc[a].state = "SUCCESSFUL" => ToDest(a) \in Had(node, past, reloc[a].dest)
    BY DEF RelocationsOK, DestKey
  <1> QED
    BY <1>1, <1>2, <1>3, <1>4, <1>5, <1>6

LEMMA LaterBy ==
    ASSUME HeapLater, NEW A, NEW G, NEW B, NEW H, Ancestors(A, G), G \subseteq H,
           DOMAIN A = DOMAIN node, DOMAIN B = DOMAIN node',
           \A n \in DOMAIN A : n \in DOMAIN B /\ B[n] = {e \in A[n] : e[1] \notin H},
           UnlinkedBy(A, G, H), \A n \in G : Has(n, "MARK"), \A n \in H : Has(n, "MARK")'
    PROVE  Later(A, G, B, H)
  BY DEF Later, HeapLater, Trimmed, Has, GET_FLAG

(* Nothing is linked or unlinked. *)
LEMMA LaterSame ==
    ASSUME HeapLater, NEW A, NEW G, TreeOK(A, G), DOMAIN node' = DOMAIN node
    PROVE  Later(A, G, A, G)
  <1>1. Ancestors(A, G) /\ DOMAIN A = DOMAIN node /\ \A n \in G : Has(n, "MARK")
    BY DEF TreeOK, Shape
  <1>2. \A n \in DOMAIN A : A[n] = {e \in A[n] : e[1] \notin G}
    BY <1>1 DEF Ancestors
  <1>3. \A n \in G : Has(n, "MARK")'
    BY <1>1 DEF HeapLater, NodeLater, Has, GET_FLAG, Ancestors
  <1>4. UnlinkedBy(A, G, G)
    BY DEF UnlinkedBy
  <1> QED
    BY <1>1, <1>2, <1>3, <1>4, LaterBy

(* The room for a key stays where no current key changes. *)
LEMMA RoomBy ==
    ASSUME HeapLater, NEW A, NEW G, NEW B, Ancestors(A, G), DOMAIN A = DOMAIN node,
           \A n \in DOMAIN A : B[n] \subseteq A[n],
           \A n \in DOMAIN node : CurrentKey(n)' = CurrentKey(n)
    PROVE  RoomLater(A, B)
  <1> SUFFICES ASSUME NEW n \in DOMAIN node, NEW s \in BOOLEAN, NEW k \in Int,
                      node[n].op.flag = "NONE", node'[n].op = node[n].op, Vacant(A, n, s, k)
               PROVE  Vacant(B, n, s, k)'
    BY DEF RoomLater
  <1>1. node'[n] = node[n]
    BY DEF HeapLater, NodeLater
  <1>2. ASSUME NEW x \in DOMAIN B \ {base_root}, <<x, FALSE>> \in B[n] PROVE CurrentKeys'[x] < k
    <2>1. <<x, FALSE>> \in A[n]
      BY <1>2
    <2>2. x \in DOMAIN A
      BY <2>1, AboveOne
    <2>3. CurrentKeys[x] < k /\ CurrentKeys[x] = CurrentKey(x)
      BY <2>1, <2>2, <1>2 DEF Vacant, Lower, CurrentKeys
    <2>4. x \in DOMAIN node' /\ CurrentKeys'[x] = CurrentKey(x)'
      BY <2>2 DEF HeapLater, NodeLater, CurrentKeys
    <2> QED
      BY <2>2, <2>3, <2>4
  <1> QED
    BY <1>1, <1>2 DEF Vacant, Lower

-----------------------------------------------------------------------------
(***************************************************************************)
(* The op of a node n changes to w.                                        *)
(***************************************************************************)
OpChange(n, w) ==
    /\ n \in DOMAIN node /\ DOMAIN node \subseteq DOMAIN node'
    /\ node'[n].op = w /\ w # node[n].op
    /\ node'[n].key = node[n].key /\ node'[n].left = node[n].left
    /\ node'[n].right = node[n].right
    /\ \A x \in DOMAIN node \ {n} : node'[x] = node[x]
    /\ \A x \in DOMAIN node' \ DOMAIN node : node'[x].op = NullOp

LEMMA OpChangePast ==
    ASSUME OpsInv, OpsInv', Recorded, NEW n, NEW w, OpChange(n, w)
    PROVE  /\ past'[n] = Had(node, past, n) /\ Had(node', past', n) = Had(node, past, n) \cup {w}
           /\ \A x \in DOMAIN node \ {n} :
                 past'[x] = past[x] /\ Had(node', past', x) = Had(node, past, x)
           /\ \A x \in DOMAIN node' \ DOMAIN node : past'[x] = {} /\ Had(node', past', x) = {NullOp}
           /\ w \notin Had(node, past, n) /\ node[n].op.flag # "MARK"
           /\ node[n].op \notin past[n]
  <1>1. past'[n] = Had(node, past, n) /\ Had(node', past', n) = Had(node, past, n) \cup {w}
    BY DEF Recorded, Remembered, OpChange, Had
  <1>2. \A x \in DOMAIN node \ {n} :
           past'[x] = past[x] /\ Had(node', past', x) = Had(node, past, x)
    BY DEF Recorded, Remembered, OpChange, Had
  <1>3. \A x \in DOMAIN node' \ DOMAIN node : past'[x] = {} /\ Had(node', past', x) = {NullOp}
    BY DEF Recorded, Remembered, OpChange, Had
  <1>4. w \notin Had(node, past, n)
    BY <1>1 DEF OpsInv, HeapOps, NoneRepeats, OpChange
  <1>5. node[n].op.flag # "MARK"
    <2>1. node[n].op \in past'[n] /\ node[n].op \in Had(node', past', n) /\ n \in DOMAIN node'
      BY <1>1 DEF Had, OpChange
    <2> QED
      BY <2>1 DEF OpsInv, HeapOps, Traced
  <1>6. node[n].op \notin past[n]
    BY DEF OpsInv, HeapOps, NoneRepeats, OpChange
  <1> QED
    BY <1>1, <1>2, <1>3, <1>4, <1>5, <1>6

(* What w must be as far as relocations go. *)
MayBecome(n, w) ==
    \A b \in DOMAIN reloc :
        LET d == reloc[b].dest
        IN  /\ w = ToDest(b) => n = d /\ Is(n, reloc[b].dest_op)
            /\ w = Flagged("NONE", b) /\ n = d => Is(n, ToDest(b))
            /\ Is(n, ToDest(b)) /\ n = d =>
                  w = Flagged("NONE", b) /\ node[n].key = reloc[b].replace_key
            /\ Is(n, ToDest(b)) /\ n # d =>
                  reloc[b].state # "ONGOING" /\ (reloc[b].state = "SUCCESSFUL" => w.flag = "MARK")

LEMMA OpChangeLater ==
    ASSUME Inv, Inv', OpsInv, OpsInv', Recorded, Extends, NEW A, RelocationsOK(A),
           NEW n, NEW w, OpChange(n, w), MayBecome(n, w)
    PROVE  HeapLater
  <1>1. ASSUME NEW x \in DOMAIN node PROVE NodeLater(x)
    <2>1. x \in DOMAIN node' /\ node[x].key \in Int /\ node'[x].key = node[x].key
      BY HeapTypes DEF OpChange
    <2>2. CASE x # n
      <3>1. node'[x] = node[x] /\ Had(node', past', x) = Had(node, past, x)
        BY <2>2, OpChangePast DEF OpChange
      <3> QED
        BY <2>1, <3>1 DEF NodeLater
    <2>3. CASE x = n
      <3>1. /\ Had(node, past, x) \subseteq Had(node', past', x) /\ node'[x].op # node[x].op
            /\ node'[x].op \notin Had(node, past, x) /\ node[x].op.flag # "MARK"
        BY <2>3, OpChangePast DEF OpChange
      <3> QED
        BY <2>1, <3>1 DEF NodeLater, Has, GET_FLAG
    <2> QED
      BY <2>2, <2>3
  <1>2. ASSUME NEW a \in DOMAIN reloc PROVE reloc[a].dest \in DOMAIN node /\ RelocationLater(a)
    <2>1. PICK d : d = reloc[a].dest
      OBVIOUS
    <2>2. /\ d \in DOMAIN node /\ reloc[a].dest_op \in Had(node, past, d)
          /\ reloc[a].dest_op.flag = "NONE"
          /\ reloc[a].state = "SUCCESSFUL" => ToDest(a) \in Had(node, past, d)
      BY <2>1, HeapTypes
    <2>3. node'[d].op = ToDest(a) => Is(d, ToDest(a)) \/ Is(d, reloc[a].dest_op)
      BY <2>1, <2>2 DEF OpChange, MayBecome, Is
    <2>4. node'[d].op = Flagged("NONE", a) => Is(d, Flagged("NONE", a)) \/ Is(d, ToDest(a))
      BY <2>1, <2>2 DEF OpChange, MayBecome, Is
    <2>5. a \in DOMAIN reloc' /\ reloc'[a] = reloc[a]
      BY DEF Extends
    <2> QED
      BY <2>1, <2>2, <2>3, <2>4, <2>5 DEF RelocationLater
  <1>3. \A a \in DOMAIN cas : a \in DOMAIN cas' /\ cas'[a] = cas[a] /\ cas[a].is_left \in BOOLEAN
    BY HeapTypes DEF Extends
  <1> QED
    BY <1>1, <1>2, <1>3 DEF HeapLater

LEMMA OpChangeDestKey ==
    ASSUME Inv, OpsInv, OpsInv', Recorded, Extends, NEW A, RelocationsOK(A),
           NEW n, NEW w, OpChange(n, w), MayBecome(n, w), NEW b \in DOMAIN reloc
    PROVE  DestKey(b)'
  <1>1. PICK d : d = reloc[b].dest
    OBVIOUS
  <1>2. /\ d \in DOMAIN node /\ reloc[b].dest_op \in Had(node, past, d)
        /\ reloc'[b] = reloc[b] /\ node'[d].key = node[d].key
        /\ node[d].key \in Int /\ reloc[b].replace_key \in Int
    BY <1>1, HeapTypes DEF OpChange, Extends
  <1>3. DestKey(b)
    BY DEF RelocationsOK
  <1>4. Had(node, past, d) \subseteq Had(node', past', d) /\ past[d] \subseteq past'[d]
    BY <1>2, OpChangePast DEF Had
  <1>5. node'[d].op = reloc[b].dest_op => node[d].key = reloc[b].remove_key
    <2>1. node'[d].op = reloc[b].dest_op => node[d].op = reloc[b].dest_op
      BY <1>2, OpChangePast DEF OpChange
    <2> QED
      BY <1>1, <1>3, <2>1 DEF DestKey, Is
  <1>6. node'[d].op = ToDest(b) =>
              \/ node[d].key = reloc[b].remove_key
              \/ reloc[b].state = "SUCCESSFUL" /\ node[d].key = reloc[b].replace_key
    <2>1. node'[d].op = ToDest(b) => Is(d, ToDest(b)) \/ Is(d, reloc[b].dest_op)
      BY <1>1, <1>2 DEF OpChange, MayBecome, Is
    <2> QED
      BY <1>1, <1>3, <2>1 DEF DestKey
  <1>7. ToDest(b) \in past'[d] =>
              reloc[b].replace_key <= node[d].key /\ Flagged("NONE", b) \in Had(node', past', d)
    <2>1. CASE ToDest(b) \in past[d]
      BY <1>1, <1>3, <1>4, <2>1 DEF DestKey
    <2>2. CASE d = n /\ Is(n, ToDest(b))
      <3>1. w = Flagged("NONE", b) /\ node[d].key = reloc[b].replace_key
        BY <1>1, <2>2 DEF MayBecome
      <3> QED
        BY <1>2, <2>2, <3>1, OpChangePast
    <2>3. ToDest(b) \in past'[d] => ToDest(b) \in past[d] \/ (d = n /\ Is(n, ToDest(b)))
      BY <1>2, OpChangePast DEF Had, Is
    <2> QED
      BY <2>1, <2>2, <2>3
  <1> QED
    BY <1>1, <1>2, <1>3, <1>4, <1>5, <1>6, <1>7 DEF DestKey, Is

LEMMA OpChangeReplaced ==
    ASSUME Inv, OpsInv, OpsInv', Recorded, Extends, NEW A, NEW G, NEW B, NEW H,
           RelocationsOK(A), Later(A, G, B, H), NEW n, NEW w, OpChange(n, w), MayBecome(n, w),
           NEW b \in DOMAIN reloc
    PROVE  (\E c : Replaces(b, c))' /\ (\A c : Replaces(b, c) => Replaced(B, b, c))'
  <1>1. PICK d : d = reloc[b].dest
    OBVIOUS
  <1>2. /\ d \in DOMAIN node /\ reloc[b].dest_op \in Had(node, past, d)
        /\ reloc[b].dest_op.flag = "NONE" /\ reloc'[b] = reloc[b]
    BY <1>1, HeapTypes DEF Extends
  <1>3. PICK c : Replaces(b, c)
    BY DEF RelocationsOK
  <1>4. Replaces(b, c)'
    BY <1>2, <1>3, LaterNode DEF Replaces
  <1>5. ASSUME NEW e, Replaces(b, e)' PROVE Replaced(B, b, e)'
    <2>1. e \in DOMAIN node' /\ e # d /\ ToDest(b) \in Had(node', past', e)
      BY <1>1, <1>2, <1>5 DEF Replaces
    <2>2. e \in DOMAIN node
      BY <2>1, OpChangePast DEF ToDest, Flagged, NullOp, OpAt
    <2>3. ToDest(b) \in Had(node, past, e)
      <3>1. w = ToDest(b) => n = d
        BY <1>1 DEF MayBecome
      <3> QED
        BY <2>1, <2>2, <3>1, OpChangePast
    <2>4. Replaces(b, e) /\ Replaced(A, b, e)
      BY <1>1, <2>1, <2>2, <2>3 DEF Replaces, RelocationsOK
    <2>5. node'[e].op = ToDest(b) => node[e].op = ToDest(b)
      BY <2>2, <2>3, OpKept
    <2>6. node'[e].op = ToDest(b) => node'[e].key = reloc[b].replace_key /\ IS_NULL(node'[e].left)
      <3>1. node'[e].key = node[e].key /\ node'[e].left = node[e].left
        BY <2>2 DEF OpChange
      <3> QED
        BY <2>4, <2>5, <3>1 DEF Replaced, Is
    <2>7. ASSUME node'[e].op = ToDest(b), reloc[b].state = "ONGOING",
                 node'[d].op = reloc[b].dest_op \/ node'[d].op = ToDest(b)
          PROVE  After(B, d, e)
      <3>1. Is(d, reloc[b].dest_op) \/ Is(d, ToDest(b))
        BY <1>1, <1>2, <2>7, OpKept DEF Later, RelocationLater, Is
      <3>2. After(A, d, e)
        BY <1>1, <2>4, <2>5, <2>7, <3>1 DEF Replaced, Is
      <3>3. d \notin H
        BY <1>2, <2>7, LaterNode DEF ToDest, Flagged
      <3> QED
        BY <1>2, <2>2, <3>2, <3>3, AfterLater
    <2>8. ASSUME ToDest(b) \in past'[e]
          PROVE  reloc[b].state # "ONGOING" /\ (reloc[b].state = "SUCCESSFUL" => Has(e, "MARK")')
      <3>1. CASE ToDest(b) \in past[e]
        <4>1. reloc[b].state # "ONGOING" /\ (reloc[b].state = "SUCCESSFUL" => Has(e, "MARK"))
          BY <2>4, <3>1 DEF Replaced
        <4>2. Has(e, "MARK") => Has(e, "MARK")'
          BY <2>2, MarkKept DEF Has
        <4> QED
          BY <4>1, <4>2
      <3>2. CASE e = n /\ Is(n, ToDest(b))
        <4>1. reloc[b].state # "ONGOING" /\ (reloc[b].state = "SUCCESSFUL" => w.flag = "MARK")
          BY <1>1, <2>1, <3>2 DEF MayBecome
        <4> QED
          BY <3>2, <4>1 DEF OpChange, Has, GET_FLAG
      <3> QED
        BY <2>2, <2>8, <3>1, <3>2, OpChangePast DEF Had, Is
    <2> QED
      BY <1>1, <1>2, <2>6, <2>7, <2>8 DEF Replaced, Is
  <1> QED
    BY <1>4, <1>5

-----------------------------------------------------------------------------
(***************************************************************************)
(* Steps of the heap that link and unlink nothing.                         *)
(***************************************************************************)
Stepped(A, G, B, H) == HeapInv(B, H)' /\ Later(A, G, B, H) /\ RoomLater(A, B)

HeapNow(A, G) == Inv /\ OpsInv /\ HeapInv(A, G)
StepsSoundly == Inv' /\ OpsInv' /\ Recorded

(* Of a node whose op has not changed the operation has not, either. *)
LEMMA SameNode ==
    ASSUME Inv, Extends, NEW x \in DOMAIN node, node'[x] = node[x]
    PROVE  /\ \A s : Child(x, s)' = Child(x, s)
           /\ CurrentKey(x)' = CurrentKey(x) /\ Dead(x)' = Dead(x)
           /\ \A f : Has(x, f)' = Has(x, f)
  <1>1. \A f : Has(x, f)' <=> Has(x, f)
    BY DEF Has
  <1>2. Has(x, "CHILDCAS") => PendingCAS(x)' = PendingCAS(x)
    <2>1. Has(x, "CHILDCAS") => UNFLAG(node[x].op) \in DOMAIN cas
      BY DEF Inv, PointersOK, HeapOK, OpOK, Has
    <2> QED
      BY <2>1 DEF PendingCAS, Extends
  <1>3. Has(x, "RELOCATE") => PendingRelocation(x)' = PendingRelocation(x)
    <2>1. Has(x, "RELOCATE") => UNFLAG(node[x].op) \in DOMAIN reloc
      BY DEF Inv, PointersOK, HeapOK, OpOK, Has, GET_FLAG
    <2> QED
      BY <2>1 DEF PendingRelocation, Extends
  <1>4. \A s : Child(x, s)' = Child(x, s)
    BY <1>1, <1>2 DEF Child
  <1>5. Relocated(x)' <=> Relocated(x)
    BY <1>1, <1>3 DEF Relocated
  <1>6. CurrentKey(x)' = CurrentKey(x) /\ (Dead(x)' <=> Dead(x))
    BY <1>1, <1>3, <1>5 DEF CurrentKey, Dead, Relocated
  <1>7. Dead(x)' = Dead(x) /\ \A f : Has(x, f)' = Has(x, f)
    BY <1>1, <1>6 DEF Dead, Has
  <1> QED
    BY <1>4, <1>6, <1>7

(* What node n stands for in the tree does not change. *)
SameView(n) ==
    /\ \A s \in BOOLEAN : Child(n, s)' = Child(n, s)
    /\ CurrentKey(n)' = CurrentKey(n) /\ (Dead(n) => Dead(n)')

LEMMA ViewTree ==
    ASSUME Inv, Inv', NEW A, NEW G, TreeOK(A, G), HeapLater, DOMAIN node' = DOMAIN node,
           \A x \in DOMAIN node : SameView(x),
           \A x \in DOMAIN node, s \in BOOLEAN :
              \/ ChildOf(node'[x], s) = ChildOf(node[x], s)
              \/ ~Has(x, "MARK") /\ ChildOf(node'[x], s) = Child(x, s),
           \A x \in DOMAIN node : node'[x].key <= CurrentKey(x),
           MarkedHasSpareChild'
    PROVE  TreeOK(A, G)'
  <1>1. /\ DOMAIN A = DOMAIN node /\ IsFiniteSet(DOMAIN node) /\ Shape(Kids, Pointers, A, G)
        /\ \A n \in G : Has(n, "MARK")
        /\ Order(A, G, Keys, CurrentKeys, DeadNodes) /\ Ancestors(A, G)
    BY DEF TreeOK, Shape
  <1>2. Shape(Kids', Pointers', A, G)
    <2>1. \A n \in Linked(A, G) : Kids'[n] = Kids[n]
      BY <1>1 DEF Kids, SameView, Linked
    <2>2. \A n \in DOMAIN A, s \in BOOLEAN :
              Pointers'[n][s] = Pointers[n][s] \/ (n \notin G /\ Pointers'[n][s] = Kids[n][s])
      BY <1>1 DEF Kids, Pointers
    <2> QED
      BY <1>1, <2>1, <2>2, ShapeKept
  <1>3. \A n \in G : Has(n, "MARK")'
    BY <1>1 DEF HeapLater, NodeLater, Has, GET_FLAG, Ancestors
  <1>4. Order(A, G, Keys', CurrentKeys', DeadNodes')
    <2>1. DeadNodes \subseteq DeadNodes'
      BY DEF DeadNodes, SameView
    <2>2. \A n \in DOMAIN A : /\ Keys'[n] \in Int /\ Keys[n] <= Keys'[n]
                              /\ Keys'[n] <= CurrentKeys'[n]
                              /\ CurrentKeys'[n] = CurrentKeys[n]
      BY <1>1 DEF Keys, CurrentKeys, HeapLater, NodeLater, SameView
    <2>3. \A n \in DOMAIN A : A[n] \subseteq A[n]
      OBVIOUS
    <2> QED
      BY <1>1, <2>1, <2>2, <2>3, OrderKept
  <1> QED
    BY <1>1, <1>2, <1>3, <1>4 DEF TreeOK

(* The current key is not below the key. *)
LEMMA KeyCurrent ==
    ASSUME NEW A, NEW G, TreeOK(A, G), NEW x \in DOMAIN node
    PROVE  node[x].key \in Int /\ CurrentKey(x) \in Int /\ node[x].key <= CurrentKey(x)
  BY DEF TreeOK, Order, Keys, CurrentKeys

(* Nothing is published: w ends an operation, installs one that is known,  *)
(* or marks n.                                                             *)
LEMMA OpChangeTree ==
    ASSUME Inv, Inv', NEW A, NEW G, TreeOK(A, G), HeapLater, Extends, NEW n, NEW w,
           OpChange(n, w), DOMAIN node' = DOMAIN node, SameView(n),
           w.flag = "MARK" => IS_NULL(node[n].left) \/ IS_NULL(node[n].right)
    PROVE  TreeOK(A, G)' /\ \A x \in DOMAIN node : SameView(x)
  <1>1. ASSUME NEW x \in DOMAIN node PROVE SameView(x)
    <2>1. CASE x = n
      BY <2>1
    <2>2. CASE x # n
      <3>1. node'[x] = node[x]
        BY <2>2 DEF OpChange
      <3> QED
        BY <3>1, SameNode DEF SameView
    <2> QED
      BY <2>1, <2>2
  <1>2. \A x \in DOMAIN node, s \in BOOLEAN : ChildOf(node'[x], s) = ChildOf(node[x], s)
    BY DEF OpChange, ChildOf
  <1>3. ASSUME NEW x \in DOMAIN node PROVE node'[x].key <= CurrentKey(x)
    <2>1. node'[x].key = node[x].key
      BY DEF OpChange
    <2> QED
      BY <2>1, KeyCurrent
  <1>4. MarkedHasSpareChild'
    <2> SUFFICES ASSUME NEW x \in Node', Has(x, "MARK")'
                 PROVE  IS_NULL(node'[x].left) \/ IS_NULL(node'[x].right)
      BY DEF MarkedHasSpareChild
    <2>1. x \in DOMAIN node /\ x \in Node
      BY DEF Node
    <2>2. CASE x = n
      BY <2>2 DEF OpChange, Has, GET_FLAG
    <2>3. CASE x # n
      <3>1. node'[x] = node[x]
        BY <2>1, <2>3 DEF OpChange
      <3> QED
        BY <2>1, <3>1 DEF TreeOK, MarkedHasSpareChild, Has
    <2> QED
      BY <2>2, <2>3
  <1> QED
    BY <1>1, <1>2, <1>3, <1>4, ViewTree

LEMMA OpChangeSwings ==
    ASSUME Inv, OpsInv, OpsInv', Recorded, NEW G, Swings(G), Extends, NEW n, NEW w,
           OpChange(n, w), DOMAIN node' = DOMAIN node, cas' = cas, w.flag # "CHILDCAS",
           \A x \in DOMAIN node : SameView(x),
           \A a \in DOMAIN cas : Is(n, Flagged("CHILDCAS", a)) =>
              ChildOf(node[n], cas[a].is_left) = cas[a].update
    PROVE  Swings(G)'
  <1>1. \A x \in DOMAIN node : \A s : ChildOf(node'[x], s) = ChildOf(node[x], s)
    BY DEF OpChange, ChildOf
  <1>2. \A x \in DOMAIN node', s \in BOOLEAN : NullOK(G, ChildOf(node'[x], s))
    BY <1>1 DEF Swings
  <1>3. \A a \in DOMAIN cas' : CasOK(G, cas'[a])
    BY DEF Swings
  <1>4. ASSUME NEW x \in DOMAIN node', Has(x, "CHILDCAS")'
        PROVE  /\ node'[x] = node[x] /\ Has(x, "CHILDCAS")
               /\ PendingCAS(x)' = PendingCAS(x)
    <2>1. x # n
      BY <1>4 DEF OpChange, Has, GET_FLAG
    <2>2. node'[x] = node[x]
      BY <2>1 DEF OpChange
    <2> QED
      BY <1>4, <2>2 DEF Has, PendingCAS
  <1>5. ASSUME NEW x \in DOMAIN node', NEW a \in DOMAIN cas', Flagged("CHILDCAS", a) \in past'[x]
        PROVE  /\ ChildOf(node'[x], cas[a].is_left) # cas[a].expected
               /\ Child(x, cas[a].is_left)' # cas[a].expected
    <2>1. cas[a].is_left \in BOOLEAN /\ a \in DOMAIN cas /\ x \in DOMAIN node
      BY DEF Inv, TypeOK, Child_CAS_OP
    <2>2. Child(x, cas[a].is_left)' = Child(x, cas[a].is_left)
      BY <2>1 DEF SameView
    <2>3. CASE Flagged("CHILDCAS", a) \in past[x]
      BY <1>1, <2>1, <2>2, <2>3 DEF Swings
    <2>4. CASE x = n /\ Is(n, Flagged("CHILDCAS", a))
      <3>1. ChildOf(node[x], cas[a].is_left) = cas[a].update
        BY <2>1, <2>4
      <3>2. Child(x, cas[a].is_left) = cas[a].update
        BY <2>1, <2>4 DEF Child, Has, GET_FLAG, PendingCAS, UNFLAG, Is, Flagged
      <3>3. cas[a].update # cas[a].expected
        BY <2>1 DEF Swings, CasOK
      <3> QED
        BY <1>1, <2>1, <2>2, <3>1, <3>2, <3>3
    <2> QED
      BY <1>5, <2>1, <2>3, <2>4, OpChangePast DEF Had, Is
  <1> QED
    BY <1>1, <1>2, <1>3, <1>4, <1>5 DEF Swings

(* The step as a whole. *)
LEMMA OpChangeStepped ==
    ASSUME NEW A, NEW G, HeapNow(A, G), StepsSoundly, NEW n, NEW w, OpChange(n, w), MayBecome(n, w),
           DOMAIN node' = DOMAIN node, cas' = cas, reloc' = reloc,
           SameView(n), w.flag # "CHILDCAS",
           w.flag = "MARK" => IS_NULL(node[n].left) \/ IS_NULL(node[n].right),
           \A a \in DOMAIN cas : Is(n, Flagged("CHILDCAS", a)) =>
              ChildOf(node[n], cas[a].is_left) = cas[a].update
    PROVE  Stepped(A, G, A, G)
  <1>1. /\ Inv /\ OpsInv /\ TreeOK(A, G) /\ Swings(G) /\ RelocationsOK(A)
        /\ Inv' /\ OpsInv' /\ Recorded
    BY DEF HeapNow, HeapInv, StepsSoundly
  <1>2. Extends
    BY DEF Extends
  <1>3. HeapLater
    BY <1>1, <1>2, OpChangeLater
  <1>4. Later(A, G, A, G)
    BY <1>1, <1>3, LaterSame
  <1>5. TreeOK(A, G)' /\ \A x \in DOMAIN node : SameView(x)
    BY <1>1, <1>2, <1>3, OpChangeTree
  <1>6. Swings(G)'
    BY <1>1, <1>2, <1>5, OpChangeSwings
  <1>7. ASSUME NEW b \in DOMAIN reloc'
        PROVE  DestKey(b)' /\ (\E c : Replaces(b, c))' /\ (\A c : Replaces(b, c) => Replaced(A, b, c))'
    BY <1>1, <1>2, <1>4, <1>7, OpChangeDestKey, OpChangeReplaced
  <1>8. RelocationsOK(A)'
    BY <1>7 DEF RelocationsOK
  <1>9. RoomLater(A, A)
    <2>1. Ancestors(A, G) /\ DOMAIN A = DOMAIN node
      BY <1>1 DEF TreeOK, Shape
    <2>2. \A x \in DOMAIN node : CurrentKey(x)' = CurrentKey(x)
      BY <1>5 DEF SameView
    <2>3. \A x \in DOMAIN A : A[x] \subseteq A[x]
      OBVIOUS
    <2> QED
      BY <1>3, <2>1, <2>2, <2>3, RoomBy
  <1> QED
    BY <1>4, <1>5, <1>6, <1>8, <1>9 DEF Stepped, HeapInv

(* The heap does not change. *)
LEMMA QuietStepped ==
    ASSUME NEW A, NEW G, HeapNow(A, G), StepsSoundly, node' = node, cas' = cas, reloc' = reloc
    PROVE  Stepped(A, G, A, G)
  <1>1. /\ Inv /\ OpsInv /\ TreeOK(A, G) /\ Swings(G) /\ RelocationsOK(A)
        /\ Inv' /\ OpsInv' /\ Recorded
    BY DEF HeapNow, HeapInv, StepsSoundly
  <1>2. past' = past
    BY <1>1, SameOpsHistory DEF OpsInv, HeapOps, SameOps, Recorded
  <1>3. \A n \in DOMAIN node : /\ \A s : Child(n, s)' = Child(n, s)
                               /\ CurrentKey(n)' = CurrentKey(n) /\ Dead(n)' = Dead(n)
                               /\ \A f : Has(n, f)' = Has(n, f)
    BY <1>1, SameNode DEF Extends
  <1>4. HeapLater
    <2>1. ASSUME NEW n \in DOMAIN node PROVE NodeLater(n)
      BY <1>1, <1>2, HeapTypes DEF NodeLater
    <2>2. ASSUME NEW a \in DOMAIN reloc PROVE reloc[a].dest \in DOMAIN node /\ RelocationLater(a)
      BY <1>1, HeapTypes DEF RelocationLater, Is
    <2> QED
      BY <1>1, <2>1, <2>2, HeapTypes DEF HeapLater
  <1>5. Later(A, G, A, G)
    BY <1>1, <1>4, LaterSame
  <1>6. MarkedHasSpareChild'
    BY <1>1 DEF TreeOK, MarkedHasSpareChild, Has, Node
  <1>7. TreeOK(A, G)'
    <2>1. \A x \in DOMAIN node : SameView(x)
      BY <1>3 DEF SameView
    <2>2. \A x \in DOMAIN node : node'[x].key <= CurrentKey(x)
      BY <1>1, KeyCurrent
    <2> QED
      BY <1>1, <1>4, <1>6, <2>1, <2>2, ViewTree
  <1>8. Swings(G)'
    BY <1>1, <1>2, <1>3 DEF Swings, PendingCAS, Inv, TypeOK, Child_CAS_OP
  <1>9. RelocationsOK(A)'
    BY <1>1, <1>2, <1>3 DEF RelocationsOK, DestKey, Replaces, Replaced, Is, Has
  <1>10. RoomLater(A, A)
    BY <1>1, <1>3, <1>4, RoomBy DEF TreeOK, Shape
  <1> QED
    BY <1>5, <1>7, <1>8, <1>9, <1>10 DEF Stepped, HeapInv

-----------------------------------------------------------------------------
(***************************************************************************)
(* A child pointer or a key is replaced.                                   *)
(***************************************************************************)
(* A node d of which another field than the op has changed, where the op   *)
(* is that of an operation.                                                *)
FieldChange(d) ==
    /\ d \in DOMAIN node /\ DOMAIN node' = DOMAIN node /\ node'[d].op = node[d].op
    /\ \A x \in DOMAIN node \ {d} : node'[x] = node[x]
    /\ node[d].op.flag \in {"CHILDCAS", "RELOCATE"}
    /\ cas' = cas /\ reloc' = reloc

LEMMA FieldChangePast ==
    ASSUME OpsInv, Recorded, NEW d, FieldChange(d)
    PROVE  past' = past /\ \A n \in DOMAIN node : node'[n].op = node[n].op
  <1>1. SameOps(node, node')
    BY DEF FieldChange, SameOps
  <1> QED
    BY <1>1, SameOpsHistory DEF OpsInv, HeapOps, Recorded, SameOps

LEMMA FieldChangeLater ==
    ASSUME Inv, OpsInv, Recorded, NEW A, RelocationsOK(A), NEW d, FieldChange(d),
           node'[d].key \in Int, node[d].key <= node'[d].key,
           Has(d, "CHILDCAS") => \A s \in BOOLEAN :
              ChildOf(node'[d], s) = ChildOf(node[d], s) \/ ChildOf(node'[d], s) = PendingCAS(d).update,
           \A a : Is(d, ToDest(a)) /\ reloc[a].dest = d /\ node[d].key = reloc[a].replace_key
              => node'[d].key = node[d].key
    PROVE  HeapLater
  <1>1. past' = past /\ \A n \in DOMAIN node : node'[n].op = node[n].op
    BY FieldChangePast
  <1>2. ASSUME NEW n \in DOMAIN node PROVE NodeLater(n)
    <2>1. node[n].key \in Int
      BY HeapTypes
    <2>2. CASE n # d
      <3>1. node'[n] = node[n] /\ n \in DOMAIN node' /\ Had(node, past, n) \subseteq Had(node', past', n)
        BY <1>1, <2>2 DEF FieldChange, Had
      <3> QED
        BY <2>1, <3>1 DEF NodeLater
    <2>3. CASE n = d
      <3>1. d \in DOMAIN node' /\ node'[d].op = node[d].op /\ node[d].key \in Int
            /\ Had(node, past, d) \subseteq Had(node', past', d)
            /\ node[d].op.flag \notin {"NONE", "MARK"}
        BY <1>1, <2>1, <2>3 DEF FieldChange, Had
      <3>2. NodeLater(d)
        BY <3>1 DEF NodeLater
      <3> QED
        BY <2>3, <3>2
    <2> QED
      BY <2>2, <2>3
  <1>3. ASSUME NEW a \in DOMAIN reloc PROVE reloc[a].dest \in DOMAIN node /\ RelocationLater(a)
    BY <1>1, HeapTypes DEF RelocationLater, Is, FieldChange
  <1> QED
    BY <1>2, <1>3, HeapTypes DEF HeapLater, FieldChange

LEMMA FieldChangeRelocations ==
    ASSUME Inv, OpsInv, Recorded, NEW A, NEW G, Later(A, G, A, G), RelocationsOK(A),
           NEW d, FieldChange(d), \A b \in DOMAIN reloc : reloc[b].dest = d => DestKey(b)',
           \A b : Is(d, ToDest(b)) /\ reloc[b].dest # d =>
              node'[d].key = node[d].key /\ node'[d].left = node[d].left
    PROVE  RelocationsOK(A)'
  <1>1. past' = past /\ \A n \in DOMAIN node : node'[n].op = node[n].op
    BY FieldChangePast
  <1>2. reloc' = reloc /\ DOMAIN node' = DOMAIN node
        /\ \A x \in DOMAIN node \ {d} : node'[x] = node[x]
    BY DEF FieldChange
  <1>3. ASSUME NEW b \in DOMAIN reloc, reloc[b].dest # d PROVE DestKey(b)'
    <2>1. reloc[b].dest \in DOMAIN node /\ DestKey(b)
      BY HeapTypes DEF RelocationsOK
    <2> QED
      BY <1>1, <1>2, <1>3, <2>1 DEF DestKey, Is, Had
  <1>4. ASSUME NEW b \in DOMAIN reloc PROVE (\E c : Replaces(b, c))'
    BY <1>1, <1>2 DEF RelocationsOK, Replaces, Had
  <1>5. ASSUME NEW b \in DOMAIN reloc, NEW c, Replaces(b, c)' PROVE Replaced(A, b, c)'
    <2>1. Replaces(b, c) /\ c \in DOMAIN node /\ c # reloc[b].dest /\ reloc[b].dest \in DOMAIN node
      BY <1>1, <1>2, <1>5, HeapTypes DEF Replaces, Had
    <2>2. Replaced(A, b, c)
      BY <2>1 DEF RelocationsOK
    <2>3. Has(c, "MARK") => Has(c, "MARK")'
      BY <1>1, <2>1 DEF Has
    <2>4. Is(c, ToDest(b)) => node'[c].key = node[c].key /\ node'[c].left = node[c].left
      BY <1>2, <2>1
    <2> QED
      BY <1>1, <1>2, <2>1, <2>2, <2>3, <2>4 DEF Replaced, Is
  <1> QED
    BY <1>2, <1>3, <1>4, <1>5 DEF RelocationsOK

LEMMA SwingStepped ==
    ASSUME NEW A, NEW G, HeapNow(A, G), StepsSoundly, NEW d \in DOMAIN node, NEW a \in DOMAIN cas,
           Flagged("CHILDCAS", a) \in Had(node, past, d), CASChild(d, cas[a]),
           cas' = cas, reloc' = reloc
    PROVE  /\ Stepped(A, G, A, G)
           /\ Is(d, Flagged("CHILDCAS", a))' => ChildOf(node'[d], cas[a].is_left) = cas[a].update
  <1>1. /\ Inv /\ OpsInv /\ TreeOK(A, G) /\ Swings(G) /\ RelocationsOK(A)
        /\ Inv' /\ OpsInv' /\ Recorded
    BY DEF HeapNow, HeapInv, StepsSoundly
  <1>2. PICK o : o = cas[a]
    OBVIOUS
  <1>3. o.is_left \in BOOLEAN /\ node[d] \in LF_BST_Node
    BY <1>1, <1>2, HeapTypes
  <1>4. Is(d, Flagged("CHILDCAS", a)) => Has(d, "CHILDCAS") /\ PendingCAS(d) = o
    BY <1>2 DEF Is, Flagged, Has, GET_FLAG, PendingCAS, UNFLAG
  <1>5. CASE ChildOf(node[d], o.is_left) # o.expected
    <2>1. node' = node
      BY <1>2, <1>5 DEF CASChild
    <2>2. Stepped(A, G, A, G)
      BY <2>1, QuietStepped
    <2>3. Is(d, Flagged("CHILDCAS", a)) => ChildOf(node[d], o.is_left) \in {o.expected, o.update}
      BY <1>1, <1>4 DEF Swings
    <2> QED
      BY <1>2, <1>5, <2>1, <2>2, <2>3 DEF Is
  <1>6. CASE ChildOf(node[d], o.is_left) = o.expected
    <2>1. Is(d, Flagged("CHILDCAS", a))
      BY <1>1, <1>2, <1>6 DEF Swings, Had, Is
    <2>2. /\ DOMAIN node' = DOMAIN node /\ \A x \in DOMAIN node \ {d} : node'[x] = node[x]
          /\ node'[d].op = node[d].op /\ node'[d].key = node[d].key
          /\ ChildOf(node'[d], o.is_left) = o.update
          /\ ChildOf(node'[d], ~o.is_left) = ChildOf(node[d], ~o.is_left)
      BY <1>2, <1>3, <1>6 DEF CASChild, ChildOf, LF_BST_Node
    <2>3. \A s \in BOOLEAN : s = o.is_left \/ s = ~o.is_left
      BY <1>3
    <2>4. FieldChange(d)
      BY <2>1, <2>2 DEF FieldChange, Is, Flagged
    <2>5. past' = past /\ \A n \in DOMAIN node : node'[n].op = node[n].op
      BY <1>1, <2>4, FieldChangePast
    <2>6. HeapLater
      <3>1. node[d].key \in Int /\ node[d].key <= node'[d].key
        BY <1>1, <2>2, HeapTypes
      <3>2. \A b : ~Is(d, ToDest(b))
        BY <2>1 DEF Is, ToDest, Flagged
      <3>3. \A s \in BOOLEAN : \/ ChildOf(node'[d], s) = ChildOf(node[d], s)
                               \/ ChildOf(node'[d], s) = PendingCAS(d).update
        BY <1>4, <2>1, <2>2, <2>3
      <3> QED
        BY <1>1, <2>2, <2>4, <3>1, <3>2, <3>3, FieldChangeLater
    <2>7. Later(A, G, A, G)
      BY <1>1, <2>2, <2>6, LaterSame
    <2>8. Has(d, "CHILDCAS") /\ PendingCAS(d) = o /\ Has(d, "CHILDCAS")' /\ PendingCAS(d)' = o
      BY <1>4, <2>1, <2>2 DEF Has, PendingCAS
    <2>9. ASSUME NEW x \in DOMAIN node PROVE SameView(x)
      <3>1. CASE x # d
        BY <1>1, <2>2, <3>1, SameNode DEF SameView, Extends
      <3>2. CASE x = d
        <4>1. \A s \in BOOLEAN : Child(d, s)' = Child(d, s)
          BY <2>2, <2>3, <2>8 DEF Child
        <4>2. ~Has(d, "RELOCATE") /\ ~Has(d, "RELOCATE")' /\ ~Has(d, "MARK")
          BY <2>8 DEF Has
        <4> QED
          BY <2>2, <3>2, <4>1, <4>2 DEF SameView, CurrentKey, Dead, Relocated
      <3> QED
        BY <3>1, <3>2
    <2>10. TreeOK(A, G)'
      <3>1. ASSUME NEW x \in DOMAIN node, NEW s \in BOOLEAN
            PROVE  \/ ChildOf(node'[x], s) = ChildOf(node[x], s)
                   \/ ~Has(x, "MARK") /\ ChildOf(node'[x], s) = Child(x, s)
        BY <2>2, <2>3, <2>8 DEF Child, Has
      <3>2. \A x \in DOMAIN node : node'[x].key = node[x].key
        BY <2>2
      <3>3. \A x \in DOMAIN node : node'[x].key <= CurrentKey(x)
        BY <1>1, <3>2, KeyCurrent
      <3>4. MarkedHasSpareChild'
        <4>1. \A x \in DOMAIN node : Has(x, "MARK")' => Has(x, "MARK") /\ node'[x] = node[x]
          BY <2>2, <2>8 DEF Has
        <4> QED
          BY <1>1, <2>2, <4>1 DEF MarkedHasSpareChild, Node, TreeOK
      <3> QED
        BY <1>1, <2>2, <2>6, <2>9, <3>1, <3>3, <3>4, ViewTree
    <2>11. Swings(G)'
      <3>1. CasOK(G, o)
        BY <1>1, <1>2 DEF Swings
      <3>2. \A x \in DOMAIN node', s \in BOOLEAN : NullOK(G, ChildOf(node'[x], s))
        BY <1>1, <2>2, <2>3, <3>1 DEF Swings, CasOK
      <3>3. \A b \in DOMAIN cas' : CasOK(G, cas'[b])
        BY <1>1 DEF Swings
      <3>4. ASSUME NEW x \in DOMAIN node', Has(x, "CHILDCAS")'
            PROVE  ChildOf(node'[x], PendingCAS(x)'.is_left)
                       \in {PendingCAS(x)'.expected, PendingCAS(x)'.update}
        <4>1. CASE x = d
          BY <2>2, <2>8, <4>1
        <4>2. CASE x # d
          BY <1>1, <2>2, <3>4, <4>2 DEF Swings, Has, PendingCAS
        <4> QED
          BY <4>1, <4>2
      <3>5. ASSUME NEW x \in DOMAIN node', NEW b \in DOMAIN cas', Flagged("CHILDCAS", b) \in past'[x]
            PROVE  /\ ChildOf(node'[x], cas[b].is_left) # cas[b].expected
                   /\ Child(x, cas[b].is_left)' # cas[b].expected
        <4>1. cas[b].is_left \in BOOLEAN /\ x \in DOMAIN node /\ b \in DOMAIN cas
          BY <1>1, <2>2, HeapTypes
        <4>2. /\ ChildOf(node[x], cas[b].is_left) # cas[b].expected
              /\ Child(x, cas[b].is_left) # cas[b].expected
          BY <1>1, <2>5, <3>5, <4>1 DEF Swings
        <4>3. Child(x, cas[b].is_left)' = Child(x, cas[b].is_left)
          BY <2>9, <4>1 DEF SameView
        <4>4. \/ ChildOf(node'[x], cas[b].is_left) = ChildOf(node[x], cas[b].is_left)
              \/ ChildOf(node'[x], cas[b].is_left) = Child(x, cas[b].is_left)
          BY <2>2, <2>3, <2>8, <4>1 DEF Child
        <4> QED
          BY <4>2, <4>3, <4>4
      <3> QED
        BY <3>2, <3>3, <3>4, <3>5 DEF Swings
    <2>12. RelocationsOK(A)'
      <3>1. \A b : ~Is(d, ToDest(b))
        BY <2>1 DEF Is, ToDest, Flagged
      <3>2. ASSUME NEW b \in DOMAIN reloc, reloc[b].dest = d PROVE DestKey(b)'
        <4>1. DestKey(b)
          BY <1>1 DEF RelocationsOK
        <4> QED
          BY <2>2, <2>5, <3>2, <4>1 DEF DestKey, Is, Had
      <3> QED
        BY <1>1, <2>4, <2>7, <3>1, <3>2, FieldChangeRelocations
    <2>13. RoomLater(A, A)
      BY <1>1, <2>6, <2>9, RoomBy DEF TreeOK, Shape, SameView
    <2> QED
      BY <1>2, <2>2, <2>7, <2>10, <2>11, <2>12, <2>13 DEF Stepped, HeapInv
  <1> QED
    BY <1>5, <1>6

LEMMA KeyStepped ==
    ASSUME NEW A, NEW G, HeapNow(A, G), StepsSoundly, NEW a \in DOMAIN reloc,
           reloc[a].state = "SUCCESSFUL", CASKey(reloc[a]), cas' = cas, reloc' = reloc
    PROVE  /\ Stepped(A, G, A, G)
           /\ Is(reloc[a].dest, ToDest(a))' => node'[reloc[a].dest].key = reloc[a].replace_key
  <1>1. /\ Inv /\ OpsInv /\ TreeOK(A, G) /\ Swings(G) /\ RelocationsOK(A)
        /\ Inv' /\ OpsInv' /\ Recorded
    BY DEF HeapNow, HeapInv, StepsSoundly
  <1>2. PICK o, d : o = reloc[a] /\ d = reloc[a].dest
    OBVIOUS
  <1>3. /\ d \in DOMAIN node /\ node[d] \in LF_BST_Node /\ node[d].key \in Int
        /\ o.remove_key \in Int /\ o.replace_key \in Int
    BY <1>1, <1>2, HeapTypes
  <1>4. DestKey(a)
    BY <1>1 DEF RelocationsOK
  <1>5. CASE node[d].key # o.remove_key
    <2>1. node' = node
      BY <1>2, <1>5 DEF CASKey
    <2>2. Stepped(A, G, A, G)
      BY <2>1, QuietStepped
    <2>3. Is(d, ToDest(a)) => node[d].key = o.replace_key
      BY <1>2, <1>4, <1>5 DEF DestKey
    <2> QED
      BY <1>2, <2>1, <2>2, <2>3 DEF Is
  <1>6. CASE node[d].key = o.remove_key
    <2>1. o.remove_key < o.replace_key /\ ToDest(a) \in Had(node, past, d)
      BY <1>2, <1>4 DEF DestKey
    <2>2. Is(d, ToDest(a))
      <3>1. ToDest(a) \notin past[d]
        BY <1>2, <1>3, <1>4, <1>6, <2>1 DEF DestKey
      <3> QED
        BY <2>1, <3>1 DEF Had, Is
    <2>3. /\ DOMAIN node' = DOMAIN node /\ \A x \in DOMAIN node \ {d} : node'[x] = node[x]
          /\ node'[d].op = node[d].op /\ node'[d].key = o.replace_key
          /\ node'[d].left = node[d].left /\ node'[d].right = node[d].right
      BY <1>2, <1>3, <1>6 DEF CASKey, LF_BST_Node
    <2>4. node[d].op.flag = "RELOCATE" /\ node[d].op.op = a
      BY <2>2 DEF Is, ToDest, Flagged
    <2>5. FieldChange(d)
      BY <1>3, <2>3, <2>4 DEF FieldChange
    <2>6. past' = past /\ \A n \in DOMAIN node : node'[n].op = node[n].op
      BY <1>1, <2>5, FieldChangePast
    <2>7. \A b : Is(d, ToDest(b)) => b = a
      BY <2>4 DEF Is, ToDest, Flagged
    <2>8. HeapLater
      <3>1. node'[d].key \in Int /\ node[d].key <= node'[d].key
        BY <1>3, <1>6, <2>1, <2>3
      <3>2. ~Has(d, "CHILDCAS")
        BY <2>4 DEF Has, GET_FLAG
      <3>3. \A b : Is(d, ToDest(b)) => node[d].key # reloc[b].replace_key
        BY <1>2, <1>3, <1>6, <2>1, <2>7
      <3> QED
        BY <1>1, <2>5, <3>1, <3>2, <3>3, FieldChangeLater
    <2>9. Later(A, G, A, G)
      BY <1>1, <2>3, <2>8, LaterSame
    <2>10. /\ Has(d, "RELOCATE") /\ PendingRelocation(d) = o
           /\ Has(d, "RELOCATE")' /\ PendingRelocation(d)' = o
      BY <1>2, <2>3, <2>4 DEF Has, GET_FLAG, PendingRelocation, UNFLAG
    <2>11. CurrentKey(d) = o.replace_key /\ CurrentKey(d)' = o.replace_key
      BY <1>2, <2>10 DEF CurrentKey, Relocated
    <2>12. \A x \in DOMAIN node, s \in BOOLEAN : ChildOf(node'[x], s) = ChildOf(node[x], s)
      BY <2>3 DEF ChildOf
    <2>13. ASSUME NEW x \in DOMAIN node PROVE SameView(x)
      <3>1. CASE x # d
        BY <1>1, <2>3, <3>1, SameNode DEF SameView, Extends
      <3>2. CASE x = d
        <4>1. \A s \in BOOLEAN : Child(d, s)' = Child(d, s)
          BY <1>3, <2>10, <2>12 DEF Child, Has
        <4>2. ~Dead(d)
          BY <1>2, <2>10 DEF Dead, Has
        <4> QED
          BY <2>11, <3>2, <4>1, <4>2 DEF SameView
      <3> QED
        BY <3>1, <3>2
    <2>14. TreeOK(A, G)'
      <3>1. ASSUME NEW x \in DOMAIN node PROVE node'[x].key <= CurrentKey(x)
        <4>1. CASE x = d
          BY <1>3, <2>3, <2>11, <4>1
        <4>2. CASE x # d
          <5>1. node'[x] = node[x]
            BY <2>3, <4>2
          <5> QED
            BY <1>1, <5>1, KeyCurrent
        <4> QED
          BY <4>1, <4>2
      <3>2. MarkedHasSpareChild'
        <4>1. \A x \in DOMAIN node : Has(x, "MARK")' => Has(x, "MARK") /\ node'[x] = node[x]
          BY <2>3, <2>10 DEF Has
        <4> QED
          BY <1>1, <2>3, <4>1 DEF MarkedHasSpareChild, Node, TreeOK
      <3> QED
        BY <1>1, <2>3, <2>8, <2>12, <2>13, <3>1, <3>2, ViewTree
    <2>15. Swings(G)'
      <3>1. \A x \in DOMAIN node, s \in BOOLEAN : Child(x, s)' = Child(x, s)
        BY <2>13 DEF SameView
      <3>2. \A x \in DOMAIN node : /\ Has(x, "CHILDCAS")' <=> Has(x, "CHILDCAS")
                                   /\ PendingCAS(x)' = PendingCAS(x)
        BY <2>6 DEF Has, PendingCAS
      <3>3. /\ \A x \in DOMAIN node : Has(x, "CHILDCAS") => PendingCAS(x).is_left \in BOOLEAN
            /\ \A b \in DOMAIN cas : cas[b].is_left \in BOOLEAN
        BY <1>1, HeapTypes DEF Inv, PointersOK, HeapOK, OpOK, Has, PendingCAS
      <3> QED
        BY <1>1, <2>3, <2>6, <2>12, <3>1, <3>2, <3>3 DEF Swings
    <2>16. RelocationsOK(A)'
      <3>1. ASSUME NEW b \in DOMAIN reloc, reloc[b].dest = d PROVE DestKey(b)'
        <4>1. DestKey(b) /\ reloc[b].replace_key \in Int /\ reloc[b].dest_op.flag = "NONE"
          BY <1>1, HeapTypes DEF RelocationsOK
        <4>2. ~Is(d, reloc[b].dest_op)
          BY <2>4, <4>1 DEF Is
        <4>3. node'[d].op = ToDest(b) => b = a
          BY <2>3, <2>7 DEF Is
        <4>4. Had(node', past', d) = Had(node, past, d)
          BY <1>3, <2>6 DEF Had
        <4>5. ToDest(b) \in past[d] => reloc[b].replace_key <= node'[d].key
          BY <1>3, <1>6, <2>1, <2>3, <3>1, <4>1 DEF DestKey
        <4> QED
          BY <1>2, <2>3, <2>6, <3>1, <4>1, <4>2, <4>3, <4>4, <4>5 DEF DestKey, Is
      <3>2. \A b : Is(d, ToDest(b)) => reloc[b].dest = d
        BY <1>2, <2>7
      <3> QED
        BY <1>1, <2>5, <2>9, <3>1, <3>2, FieldChangeRelocations
    <2>17. RoomLater(A, A)
      BY <1>1, <2>8, <2>13, RoomBy DEF TreeOK, Shape, SameView
    <2> QED
      BY <1>2, <2>3, <2>9, <2>14, <2>15, <2>16, <2>17 DEF Stepped, HeapInv
  <1> QED
    BY <1>5, <1>6

-----------------------------------------------------------------------------
(***************************************************************************)
(* A relocation is decided.                                                *)
(***************************************************************************)
(* It was undecided before. *)
Decides(a, s) ==
    /\ a \in DOMAIN reloc /\ reloc[a].state = "ONGOING" /\ s \in {"SUCCESSFUL", "FAILED"}
    /\ DOMAIN reloc' = DOMAIN reloc
    /\ \A b \in DOMAIN reloc :
          /\ reloc'[b].dest = reloc[b].dest /\ reloc'[b].dest_op = reloc[b].dest_op
          /\ reloc'[b].remove_key = reloc[b].remove_key
          /\ reloc'[b].replace_key = reloc[b].replace_key
          /\ reloc'[b].state = IF b = a THEN s ELSE reloc[b].state
    /\ node' = node /\ cas' = cas

LEMMA DecidesLater ==
    ASSUME Inv, OpsInv, Recorded, NEW A, RelocationsOK(A), NEW a, NEW s, Decides(a, s)
    PROVE  HeapLater /\ past' = past
  <1>1. past' = past
    BY SameOpsHistory DEF OpsInv, HeapOps, SameOps, Recorded, Decides
  <1>2. ASSUME NEW n \in DOMAIN node PROVE NodeLater(n)
    BY <1>1, HeapTypes DEF NodeLater, Decides
  <1>3. ASSUME NEW b \in DOMAIN reloc PROVE reloc[b].dest \in DOMAIN node /\ RelocationLater(b)
    BY HeapTypes DEF RelocationLater, Is, Decides
  <1> QED
    BY <1>1, <1>2, <1>3, HeapTypes DEF HeapLater, Decides

(* Where the relocation is not SUCCESSFUL nothing changes. *)
LEMMA DecidesView ==
    ASSUME Inv, NEW a, NEW s, Decides(a, s), NEW x \in DOMAIN node,
           s = "SUCCESSFUL" => ~Is(x, ToDest(a))
    PROVE  CurrentKey(x)' = CurrentKey(x) /\ Dead(x)' = Dead(x)
  <1>1. \A f : Has(x, f)' = Has(x, f)
    BY DEF Has, Decides
  <1>2. node[x].op \in OpPtr
    BY DEF Inv, TypeOK, LF_BST_Node
  <1>3. PICK b : b = UNFLAG(node[x].op)
    OBVIOUS
  <1>4. Has(x, "RELOCATE") => b \in DOMAIN reloc /\ Is(x, ToDest(b))
    BY <1>2, <1>3 DEF Inv, PointersOK, HeapOK, OpOK, Has, GET_FLAG, UNFLAG, Is, ToDest, Flagged, OpPtr
  <1>5. PendingRelocation(x) = reloc[b] /\ PendingRelocation(x)' = reloc'[b]
    BY <1>3 DEF PendingRelocation, Decides
  <1>6. Has(x, "RELOCATE") => (reloc'[b].state = "SUCCESSFUL" <=> reloc[b].state = "SUCCESSFUL")
    BY <1>4 DEF Decides
  <1>7. Relocated(x)' = Relocated(x)
    BY <1>1, <1>5, <1>6 DEF Relocated
  <1>8. Has(x, "RELOCATE") => /\ reloc'[b].dest = reloc[b].dest
                              /\ reloc'[b].replace_key = reloc[b].replace_key
    BY <1>4 DEF Decides
  <1>9. CurrentKey(x)' = CurrentKey(x)
    BY <1>5, <1>7, <1>8 DEF CurrentKey, Relocated, Decides
  <1>10. Dead(x)' = Dead(x)
    BY <1>1, <1>5, <1>7, <1>8 DEF Dead, Relocated
  <1> QED
    BY <1>9, <1>10

LEMMA DecidesSwings ==
    ASSUME Inv, NEW G, Swings(G), NEW a, NEW s, Decides(a, s), past' = past
    PROVE  Swings(G)' /\ \A x \in DOMAIN node : \A q : Child(x, q)' = Child(x, q)
  <1>1. \A x \in DOMAIN node : \A q : Child(x, q)' = Child(x, q)
    BY DEF Child, Has, PendingCAS, Decides
  <1> QED
    BY <1>1 DEF Swings, Has, PendingCAS, Decides

LEMMA DecidesRelocations ==
    ASSUME Inv, OpsInv, NEW A, NEW G, RelocationsOK(A), NEW a, NEW s, Decides(a, s),
           past' = past, s = "SUCCESSFUL" => ToDest(a) \in Had(node, past, reloc[a].dest)
    PROVE  RelocationsOK(A)'
  <1>1. ASSUME NEW b \in DOMAIN reloc' PROVE DestKey(b)'
    <2>1. b \in DOMAIN reloc /\ DestKey(b)
      BY DEF RelocationsOK, Decides
    <2> QED
      BY <2>1 DEF DestKey, Is, Decides
  <1>2. ASSUME NEW b \in DOMAIN reloc' PROVE (\E c : Replaces(b, c))'
    BY DEF RelocationsOK, Replaces, Decides
  <1>3. ASSUME NEW b \in DOMAIN reloc', NEW c, Replaces(b, c)' PROVE Replaced(A, b, c)'
    <2>1. b \in DOMAIN reloc /\ Replaces(b, c)
      BY <1>3 DEF Replaces, Decides
    <2>2. Replaced(A, b, c)
      BY <2>1 DEF RelocationsOK
    <2> QED
      BY <2>1, <2>2 DEF Replaced, Is, Has, Decides
  <1> QED
    BY <1>1, <1>2, <1>3 DEF RelocationsOK

(* A node whose op is the relocation that becomes SUCCESSFUL. *)
LEMMA DecidesRelocated ==
    ASSUME NEW a, Decides(a, "SUCCESSFUL"), NEW x, Is(x, ToDest(a))
    PROVE  /\ CurrentKey(x) = node[x].key /\ ~Dead(x)
           /\ CurrentKey(x)' = IF reloc[a].dest = x THEN reloc[a].replace_key ELSE node[x].key
           /\ Dead(x)' = (reloc[a].dest # x)
  <1>1. Has(x, "RELOCATE") /\ ~Has(x, "MARK") /\ UNFLAG(node[x].op) = a
    BY DEF Is, ToDest, Flagged, Has, GET_FLAG, UNFLAG
  <1>2. Has(x, "RELOCATE")' /\ ~Has(x, "MARK")' /\ UNFLAG(node'[x].op) = a
    BY <1>1 DEF Has, Decides
  <1>3. PendingRelocation(x) = reloc[a] /\ PendingRelocation(x)' = reloc'[a]
    BY <1>1, <1>2 DEF PendingRelocation
  <1>4. reloc[a].state = "ONGOING" /\ reloc'[a].state = "SUCCESSFUL"
        /\ reloc'[a].dest = reloc[a].dest /\ reloc'[a].replace_key = reloc[a].replace_key
    BY DEF Decides
  <1>5. ~Relocated(x) /\ Relocated(x)'
    BY <1>1, <1>2, <1>3, <1>4 DEF Relocated
  <1>6. CurrentKey(x) = node[x].key /\ ~Dead(x)
    BY <1>1, <1>5 DEF CurrentKey, Dead
  <1>7. CurrentKey(x)' = IF reloc[a].dest = x THEN reloc[a].replace_key ELSE node[x].key
    BY <1>3, <1>4, <1>5 DEF CurrentKey, Decides
  <1>8. Dead(x)' = (reloc[a].dest # x)
    BY <1>2, <1>3, <1>4, <1>5 DEF Dead
  <1> QED
    BY <1>6, <1>7, <1>8

LEMMA DecideStepped ==
    ASSUME NEW A, NEW G, HeapNow(A, G), StepsSoundly, NEW a \in DOMAIN reloc,
           NEW s \in {"SUCCESSFUL", "FAILED"}, Decide(a, s), node' = node, cas' = cas,
           s = "SUCCESSFUL" => ToDest(a) \in Had(node, past, reloc[a].dest)
    PROVE  Stepped(A, G, A, G)
  <1>1. /\ Inv /\ OpsInv /\ TreeOK(A, G) /\ Swings(G) /\ RelocationsOK(A)
        /\ Inv' /\ OpsInv' /\ Recorded
    BY DEF HeapNow, HeapInv, StepsSoundly
  <1>2. CASE reloc[a].state # "ONGOING"
    <2>1. reloc' = reloc
      BY <1>2 DEF Decide
    <2> QED
      BY <2>1, QuietStepped
  <1> SUFFICES ASSUME reloc[a].state = "ONGOING" PROVE Stepped(A, G, A, G)
    BY <1>2
  <1>3. Decides(a, s)
    <2>1. \A b \in DOMAIN reloc : reloc[b] \in Relocate_OP
      BY <1>1 DEF Inv, TypeOK
    <2>2. /\ DOMAIN reloc' = DOMAIN reloc
          /\ reloc'[a] = [reloc[a] EXCEPT !.state = s]
          /\ \A b \in DOMAIN reloc : b # a => reloc'[b] = reloc[b]
      BY DEF Decide
    <2> QED
      BY <2>1, <2>2 DEF Decides, Relocate_OP
  <1>4. HeapLater /\ past' = past
    BY <1>1, <1>3, DecidesLater
  <1>5. node' = node
    BY <1>3 DEF Decides
  <1>6. Later(A, G, A, G)
    BY <1>1, <1>4, <1>5, LaterSame
  <1>7. Swings(G)' /\ \A x \in DOMAIN node : \A q : Child(x, q)' = Child(x, q)
    BY <1>1, <1>3, <1>4, DecidesSwings
  <1>8. RelocationsOK(A)'
    BY <1>1, <1>3, <1>4, DecidesRelocations
  <1>9. MarkedHasSpareChild'
    BY <1>1, <1>5 DEF TreeOK, MarkedHasSpareChild, Has, Node
  <1>10. CASE s = "FAILED"
    <2>1. \A x \in DOMAIN node : SameView(x)
      BY <1>1, <1>3, <1>7, <1>10, DecidesView DEF SameView
    <2>2. \A x \in DOMAIN node : node'[x].key <= CurrentKey(x)
      BY <1>1, <1>5, KeyCurrent
    <2>3. TreeOK(A, G)'
      BY <1>1, <1>4, <1>5, <1>9, <2>1, <2>2, ViewTree
    <2>4. RoomLater(A, A)
      BY <1>1, <1>4, <2>1, RoomBy DEF TreeOK, Shape, SameView
    <2> QED
      BY <1>6, <1>7, <1>8, <2>3, <2>4 DEF Stepped, HeapInv
  <1>11. CASE s = "SUCCESSFUL"
    <2>1. PICK o, d : o = reloc[a] /\ d = reloc[a].dest
      OBVIOUS
    <2>2. PICK c : Replaces(a, c)
      BY <1>1 DEF RelocationsOK
    <2>3. Replaced(A, a, c) /\ DestKey(a)
      BY <1>1, <2>2 DEF RelocationsOK
    <2>4. Is(c, ToDest(a)) /\ c \in DOMAIN node /\ c # d
      BY <2>1, <2>2, <2>3 DEF Replaces, Replaced, Had, Is
    <2>5. Is(d, ToDest(a)) /\ d \in DOMAIN node /\ d # base_root
      <3>1. ToDest(a) \notin past[d]
        BY <1>1, <2>1 DEF OpsInv, HeapOps, RelocationOK
      <3> QED
        BY <1>1, <1>11, <2>1, <3>1, HeapTypes DEF Had, Is
    <2>6. /\ node[c].key = o.replace_key /\ IS_NULL(node[c].left) /\ After(A, d, c)
          /\ node[d].key = o.remove_key /\ o.remove_key < o.replace_key
      BY <2>1, <2>3, <2>4, <2>5 DEF Replaced, DestKey
    <2>7. Decides(a, "SUCCESSFUL")
      BY <1>3, <1>11
    <2>8. \A x \in DOMAIN node \ {d} : CurrentKey(x)' = CurrentKey(x)
      <3> SUFFICES ASSUME NEW x \in DOMAIN node \ {d} PROVE CurrentKey(x)' = CurrentKey(x)
        OBVIOUS
      <3>1. CASE Is(x, ToDest(a))
        BY <2>1, <2>7, <3>1, DecidesRelocated
      <3>2. CASE ~Is(x, ToDest(a))
        BY <1>1, <1>3, <3>2, DecidesView
      <3> QED
        BY <3>1, <3>2
    <2>9. CurrentKey(d)' = node[c].key /\ CurrentKey(d) = node[d].key
      BY <2>1, <2>5, <2>6, <2>7, DecidesRelocated
    <2>10. CurrentKey(c) = node[c].key /\ Dead(c)'
      BY <2>1, <2>4, <2>7, DecidesRelocated
    <2>11. \A x \in DOMAIN node : Dead(x) => Dead(x)'
      <3> SUFFICES ASSUME NEW x \in DOMAIN node, Dead(x) PROVE Dead(x)'
        OBVIOUS
      <3>1. ~Is(x, ToDest(a))
        BY <2>7, DecidesRelocated
      <3> QED
        BY <1>1, <1>3, <3>1, DecidesView
    <2>12. /\ DOMAIN A = DOMAIN node /\ Shape(Kids, Pointers, A, G) /\ Ancestors(A, G)
           /\ Order(A, G, Keys, CurrentKeys, DeadNodes) /\ \A n \in G : Has(n, "MARK")
      BY <1>1 DEF TreeOK, Shape
    <2>13. d \in Linked(A, G) \ {base_root} /\ c \in Linked(A, G)
      <3>1. ~Has(d, "MARK") /\ ~Has(c, "MARK")
        BY <2>4, <2>5 DEF Is, Has, GET_FLAG, ToDest, Flagged
      <3> QED
        BY <2>4, <2>5, <2>12, <3>1 DEF Linked
    <2>14. IS_NULL(Kids[c][TRUE])
      <3>1. ~Has(c, "CHILDCAS")
        BY <2>4 DEF Is, Has, GET_FLAG, ToDest, Flagged
      <3>2. Child(c, TRUE) = node[c].left
        BY <3>1 DEF Child, ChildOf
      <3>3. Kids[c][TRUE] = Child(c, TRUE)
        BY <2>4 DEF Kids
      <3> QED
        BY <2>6, <3>2, <3>3
    <2>15. /\ CurrentKeys[c] = Keys[c] /\ Keys[d] < Keys[c] /\ CurrentKeys'[d] = Keys[c]
           /\ \A x \in DOMAIN A \ {d} : CurrentKeys'[x] = CurrentKeys[x]
      BY <1>5, <2>4, <2>5, <2>6, <2>8, <2>9, <2>10, <2>12 DEF CurrentKeys, Keys
    <2>16. DeadNodes \subseteq DeadNodes' /\ c \in DeadNodes'
      BY <1>5, <2>4, <2>10, <2>11 DEF DeadNodes
    <2>17. /\ MayMove(Kids, A, G, Keys, CurrentKeys, d, c)
           /\ Moved(A, CurrentKeys, CurrentKeys', d, Keys[c]) /\ Buried(DeadNodes, DeadNodes', c)
      BY <2>6, <2>13, <2>14, <2>15, <2>16 DEF MayMove, Moved, Buried
    <2>18. Order(A, G, Keys, CurrentKeys', DeadNodes')
      BY <2>12, <2>17, OrderMoved
    <2>19. TreeOK(A, G)'
      <3>1. Kids' = Kids /\ Pointers' = Pointers /\ Keys' = Keys
        BY <1>5, <1>7 DEF Kids, Pointers, Keys
      <3>2. \A n \in G : Has(n, "MARK")'
        BY <1>5, <2>12 DEF Has
      <3> QED
        BY <1>1, <1>5, <1>9, <2>12, <2>18, <3>1, <3>2 DEF TreeOK
    <2>20. RoomLater(A, A)
      <3> SUFFICES ASSUME NEW n \in DOMAIN node, NEW q \in BOOLEAN, NEW k \in Int,
                          node[n].op.flag = "NONE", Vacant(A, n, q, k)
                   PROVE  Vacant(A, n, q, k)'
        BY DEF RoomLater
      <3>1. n # c /\ n \in Linked(A, G) /\ IS_NULL(Kids[n][q])
        <4>1. ~Has(n, "MARK") /\ ~Has(n, "CHILDCAS")
          BY DEF Has, GET_FLAG
        <4>2. Child(n, q) = ChildOf(node[n], q)
          BY <4>1 DEF Child
        <4>3. n # c
          BY <2>4 DEF Is, ToDest, Flagged
        <4> QED
          BY <2>12, <4>1, <4>2, <4>3 DEF Linked, Kids, Vacant
      <3>2. Lower(A, CurrentKeys, n, k) /\ (q \/ n = base_root \/ Keys[n] < k)
        BY DEF Vacant, Keys
      <3>3. Lower(A, CurrentKeys', n, k)
        BY <2>12, <2>17, <3>1, <3>2, VacantMoved
      <3> QED
        BY <1>5, <3>3 DEF Vacant
    <2> QED
      BY <1>6, <1>7, <1>8, <2>19, <2>20 DEF Stepped, HeapInv
  <1> QED
    BY <1>10, <1>11

-----------------------------------------------------------------------------
(***************************************************************************)
(* An operation a is published in the op of n.                             *)
(***************************************************************************)
PublishedCAS(n, a, o) ==
    /\ OpChange(n, Flagged("CHILDCAS", a)) /\ node[n].op.flag = "NONE"
    /\ a \notin DOMAIN cas /\ cas' = Store(cas, a, o) /\ reloc' = reloc
    /\ o.is_left \in BOOLEAN /\ ChildOf(node[n], o.is_left) = o.expected

LEMMA PublishedFacts ==
    ASSUME Inv, NEW n, NEW a, NEW o, PublishedCAS(n, a, o)
    PROVE  /\ Extends /\ MayBecome(n, Flagged("CHILDCAS", a))
           /\ DOMAIN cas' = DOMAIN cas \cup {a} /\ cas'[a] = o
           /\ Has(n, "CHILDCAS")' /\ PendingCAS(n)' = o
           /\ \A s \in BOOLEAN :
                 /\ Child(n, s) = ChildOf(node[n], s)
                 /\ Child(n, s)' = IF s = o.is_left THEN o.update ELSE Child(n, s)
           /\ CurrentKey(n) = node[n].key /\ CurrentKey(n)' = node[n].key /\ ~Dead(n) /\ ~Has(n, "MARK")
  <1>1. DOMAIN cas' = DOMAIN cas \cup {a} /\ cas'[a] = o /\ \A b \in DOMAIN cas : cas'[b] = cas[b]
    BY DEF PublishedCAS, Store
  <1>2. Extends
    BY <1>1 DEF Extends, PublishedCAS
  <1>3. node'[n].op.flag = "CHILDCAS" /\ node'[n].op.op = a /\ node[n].op.flag = "NONE"
        /\ node'[n].key = node[n].key
    BY DEF PublishedCAS, OpChange, Flagged
  <1>4. MayBecome(n, Flagged("CHILDCAS", a))
    BY <1>3 DEF MayBecome, Is, Flagged, ToDest
  <1>5. /\ Has(n, "CHILDCAS")' /\ PendingCAS(n)' = o /\ ~Has(n, "CHILDCAS") /\ ~Has(n, "MARK")
        /\ ~Has(n, "RELOCATE") /\ ~Has(n, "RELOCATE")'
    BY <1>1, <1>3 DEF Has, GET_FLAG, PendingCAS, UNFLAG
  <1>6. \A s \in BOOLEAN : ChildOf(node'[n], s) = ChildOf(node[n], s)
    BY DEF PublishedCAS, OpChange, ChildOf
  <1>7. \A s \in BOOLEAN :
                 /\ Child(n, s) = ChildOf(node[n], s)
                 /\ Child(n, s)' = IF s = o.is_left THEN o.update ELSE Child(n, s)
    BY <1>5, <1>6 DEF Child
  <1>8. CurrentKey(n) = node[n].key /\ CurrentKey(n)' = node[n].key /\ ~Dead(n)
    BY <1>3, <1>5 DEF CurrentKey, Relocated, Dead
  <1> QED
    BY <1>1, <1>2, <1>4, <1>5, <1>7, <1>8

LEMMA PublishedSwings ==
    ASSUME Inv, OpsInv, OpsInv', Recorded, NEW G, NEW H, Swings(G), G \subseteq H,
           NEW n, NEW a, NEW o, PublishedCAS(n, a, o), CasOK(H, o),
           o.update.node \notin G \cup {NoNode},
           \A x \in DOMAIN node' \ DOMAIN node, s \in BOOLEAN :
              ChildOf(node'[x], s) = SET_NULL(NoNode)
    PROVE  Swings(H)'
  <1>1. OpChange(n, Flagged("CHILDCAS", a)) /\ o.is_left \in BOOLEAN
        /\ ChildOf(node[n], o.is_left) = o.expected /\ node[n].op.flag = "NONE" /\ a \notin DOMAIN cas
    BY DEF PublishedCAS
  <1>0. \A s \in BOOLEAN : Child(n, s)' = IF s = o.is_left THEN o.update ELSE Child(n, s)
    BY PublishedFacts
  <1>2. /\ Extends /\ DOMAIN cas' = DOMAIN cas \cup {a} /\ cas'[a] = o
        /\ \A b \in DOMAIN cas : cas'[b] = cas[b] /\ b # a /\ cas[b].is_left \in BOOLEAN
    BY <1>1, PublishedFacts DEF Extends, Inv, TypeOK, Child_CAS_OP
  <1>3. \A x \in DOMAIN node : /\ x \in DOMAIN node'
                               /\ \A s : ChildOf(node'[x], s) = ChildOf(node[x], s)
    BY <1>1 DEF OpChange, ChildOf
  <1>4. \A ptr : NullOK(G, ptr) => NullOK(H, ptr)
    BY DEF NullOK
  <1>5. \A x \in DOMAIN node', s \in BOOLEAN : NullOK(H, ChildOf(node'[x], s))
    <2> SUFFICES ASSUME NEW x \in DOMAIN node', NEW s \in BOOLEAN
                 PROVE  NullOK(H, ChildOf(node'[x], s))
      OBVIOUS
    <2>1. CASE x \in DOMAIN node
      BY <1>3, <1>4, <2>1 DEF Swings
    <2>2. CASE x \notin DOMAIN node
      BY <2>2 DEF NullOK, SET_NULL
    <2> QED
      BY <2>1, <2>2
  <1>6. ASSUME NEW b \in DOMAIN cas' PROVE CasOK(H, cas'[b])
    <2>1. CASE b = a
      BY <1>2, <2>1
    <2>2. CASE b \in DOMAIN cas
      <3>1. CasOK(G, cas[b])
        BY <2>2 DEF Swings
      <3> QED
        BY <1>2, <1>4, <2>2, <3>1 DEF CasOK
    <2> QED
      BY <1>2, <2>1, <2>2
  <1>7. ASSUME NEW x \in DOMAIN node', Has(x, "CHILDCAS")'
        PROVE  ChildOf(node'[x], PendingCAS(x)'.is_left) \in {PendingCAS(x)'.expected, PendingCAS(x)'.update}
    <2>1. CASE x = n
      <3>1. PendingCAS(n)' = o
        BY PublishedFacts
      <3>2. ChildOf(node'[n], o.is_left) = o.expected
        BY <1>1, <1>3 DEF OpChange
      <3> QED
        BY <2>1, <3>1, <3>2
    <2>2. CASE x \in DOMAIN node \ {n}
      <3>1. node'[x] = node[x] /\ Has(x, "CHILDCAS")
        BY <1>1, <1>7, <2>2 DEF OpChange, Has
      <3>2. PendingCAS(x)' = PendingCAS(x)
        BY <1>2, <2>2, <3>1 DEF PendingCAS, Has, Inv, PointersOK, HeapOK, OpOK
      <3> QED
        BY <2>2, <3>1, <3>2 DEF Swings
    <2>3. CASE x \notin DOMAIN node
      BY <1>1, <1>7, <2>3 DEF OpChange, Has, GET_FLAG, NullOp, OpAt
    <2> QED
      BY <2>1, <2>2, <2>3
  <1>8. ASSUME NEW x \in DOMAIN node', NEW b \in DOMAIN cas', Flagged("CHILDCAS", b) \in past'[x]
        PROVE  /\ ChildOf(node'[x], cas'[b].is_left) # cas'[b].expected
               /\ Child(x, cas[b].is_left)' # cas'[b].expected
    <2>1. x \in DOMAIN node
      BY <1>1, <1>8, OpChangePast
    <2>2. Flagged("CHILDCAS", b) \in past[x]
      <3>1. node[n].op # Flagged("CHILDCAS", b)
        BY <1>1 DEF Flagged
      <3> QED
        BY <1>1, <1>8, <2>1, <3>1, OpChangePast DEF Had
    <2>3. b \in DOMAIN cas
      <3>1. Flagged("CHILDCAS", b) \in Had(node, past, x)
        BY <2>2 DEF Had
      <3>2. Flagged("CHILDCAS", b).flag = "CHILDCAS" /\ Flagged("CHILDCAS", b).op = b
        BY DEF Flagged
      <3> QED
        BY <2>1, <3>1, <3>2 DEF OpsInv, HeapOps, Traced
    <2>4. PICK s, e : s \in BOOLEAN /\ s = cas[b].is_left /\ e = cas[b].expected
      BY <1>2, <2>3
    <2>5. ChildOf(node[x], s) # e /\ Child(x, s) # e /\ CasOK(G, cas[b])
      BY <2>1, <2>2, <2>3, <2>4 DEF Swings
    <2>6. Child(x, s)' # e
      <3>1. CASE x # n
        <4>1. node'[x] = node[x]
          BY <1>1, <2>1, <3>1 DEF OpChange
        <4> QED
          BY <1>2, <2>1, <2>5, <4>1, SameNode
      <3>2. CASE x = n /\ s = o.is_left
        <4>0. Child(n, s)' = o.update
          BY <1>0, <2>4, <3>2
        <4>1. Child(x, s)' = o.update
          BY <3>2, <4>0
        <4>2. e.node \in G \cup {NoNode}
          BY <2>4, <2>5 DEF CasOK, NullOK
        <4> QED
          BY <4>1, <4>2
      <3>3. CASE x = n /\ s # o.is_left
        <4>1. Child(n, s)' = Child(n, s)
          BY <2>4, <3>3, PublishedFacts
        <4> QED
          BY <2>5, <3>3, <4>1
      <3> QED
        BY <3>1, <3>2, <3>3
    <2>7. cas'[b].is_left = s /\ cas'[b].expected = e
      BY <1>2, <2>3, <2>4
    <2> QED
      BY <1>3, <2>1, <2>4, <2>5, <2>6, <2>7
  <1> QED
    BY <1>5, <1>6, <1>7, <1>8 DEF Swings

LEMMA PublishedRelocations ==
    ASSUME Inv, OpsInv, OpsInv', Recorded, NEW A, NEW G, NEW B, NEW H, RelocationsOK(A),
           Later(A, G, B, H), NEW n, NEW a, NEW o, PublishedCAS(n, a, o)
    PROVE  RelocationsOK(B)'
  <1>1. OpChange(n, Flagged("CHILDCAS", a)) /\ reloc' = reloc
    BY DEF PublishedCAS
  <1>2. Extends /\ MayBecome(n, Flagged("CHILDCAS", a))
    BY PublishedFacts
  <1>3. ASSUME NEW b \in DOMAIN reloc
        PROVE  DestKey(b)' /\ (\E c : Replaces(b, c))' /\ (\A c : Replaces(b, c) => Replaced(B, b, c))'
    BY <1>1, <1>2, OpChangeDestKey, OpChangeReplaced
  <1> QED
    BY <1>1, <1>3 DEF RelocationsOK

LEMMA InsertStepped ==
    ASSUME NEW A, NEW G, HeapNow(A, G), StepsSoundly, NEW n \in DOMAIN node, NEW s \in BOOLEAN,
           NEW k \in Int, node[n].op.flag = "NONE", Vacant(A, n, s, k), Upper(A, Keys, n, k),
           NEW a \in Addr, a \notin DOMAIN node, a \notin DOMAIN cas,
           node' = [Store(node, a, create_LF_node(k)) EXCEPT ![n].op = Flagged("CHILDCAS", a)],
           cas' = Store(cas, a, [is_left |-> s, expected |-> ChildOf(node[n], s),
                                 update |-> NodeAt(a)]),
           reloc' = reloc
    PROVE  Stepped(A, G, Grown(A, n, s, a), G)
  <1>1. /\ Inv /\ OpsInv /\ TreeOK(A, G) /\ Swings(G) /\ RelocationsOK(A)
        /\ Inv' /\ OpsInv' /\ Recorded
    BY DEF HeapNow, HeapInv, StepsSoundly
  <1>2. PICK o, w : /\ o = [is_left |-> s, expected |-> ChildOf(node[n], s), update |-> NodeAt(a)]
                    /\ w = Flagged("CHILDCAS", a)
    OBVIOUS
  <1>3. /\ DOMAIN node' = DOMAIN node \cup {a} /\ a # n
        /\ node'[n].op = w /\ node'[n].key = node[n].key
        /\ node'[n].left = node[n].left /\ node'[n].right = node[n].right
        /\ \A x \in DOMAIN node \ {n} : node'[x] = node[x]
        /\ node'[a] = create_LF_node(k)
    <2>1. node[n] \in LF_BST_Node /\ a # n
      BY <1>1 DEF Inv, TypeOK
    <2>2. /\ DOMAIN Store(node, a, create_LF_node(k)) = DOMAIN node \cup {a}
          /\ Store(node, a, create_LF_node(k))[a] = create_LF_node(k)
          /\ \A x \in DOMAIN node : Store(node, a, create_LF_node(k))[x] = node[x]
      BY DEF Store
    <2> QED
      BY <1>2, <2>1, <2>2 DEF LF_BST_Node
  <1>4. OpChange(n, w)
    BY <1>2, <1>3 DEF OpChange, Flagged, create_LF_node
  <1>5. PublishedCAS(n, a, o)
    BY <1>2, <1>4 DEF PublishedCAS
  <1>6. /\ Extends /\ MayBecome(n, w)
        /\ \A q \in BOOLEAN :
              /\ Child(n, q) = ChildOf(node[n], q)
              /\ Child(n, q)' = IF q = s THEN NodeAt(a) ELSE Child(n, q)
        /\ CurrentKey(n) = node[n].key /\ CurrentKey(n)' = node[n].key /\ ~Dead(n) /\ ~Has(n, "MARK")
    <2>1. o.is_left = s /\ o.update = NodeAt(a) /\ w = Flagged("CHILDCAS", a)
      BY <1>2
    <2>2. /\ Extends /\ MayBecome(n, Flagged("CHILDCAS", a))
          /\ \A q \in BOOLEAN :
                /\ Child(n, q) = ChildOf(node[n], q)
                /\ Child(n, q)' = IF q = o.is_left THEN o.update ELSE Child(n, q)
          /\ CurrentKey(n) = node[n].key /\ CurrentKey(n)' = node[n].key /\ ~Dead(n) /\ ~Has(n, "MARK")
      BY <1>1, <1>5, PublishedFacts
    <2> QED
      BY <2>1, <2>2
  <1>7. HeapLater
    BY <1>1, <1>4, <1>6, OpChangeLater
  <1>8. /\ DOMAIN A = DOMAIN node /\ IsFiniteSet(DOMAIN node) /\ Shape(Kids, Pointers, A, G)
        /\ \A x \in G : Has(x, "MARK")
        /\ Order(A, G, Keys, CurrentKeys, DeadNodes) /\ Ancestors(A, G)
        /\ n \in Linked(A, G) /\ a \notin G
    BY <1>1, <1>6 DEF TreeOK, Shape, Linked, Ancestors
  <1>9. PICK B : B = Grown(A, n, s, a)
    OBVIOUS
  <1>10. DOMAIN B = DOMAIN node' /\ \A x \in DOMAIN A : x \in DOMAIN B /\ B[x] = A[x]
    BY <1>3, <1>8, <1>9 DEF Grown
  <1>11. /\ \A q \in BOOLEAN : Child(a, q)' = SET_NULL(NoNode) /\ ChildOf(node'[a], q) = SET_NULL(NoNode)
         /\ CurrentKey(a)' = k
    BY <1>3 DEF Child, ChildOf, Has, GET_FLAG, CurrentKey, Relocated, create_LF_node, NullOp, OpAt
  <1>12. \A x \in DOMAIN node \ {n} :
            /\ \A q : Child(x, q)' = Child(x, q)
            /\ CurrentKey(x)' = CurrentKey(x) /\ Dead(x)' = Dead(x)
            /\ \A f : Has(x, f)' = Has(x, f)
    BY <1>1, <1>3, <1>6, SameNode
  <1>13. \A x \in DOMAIN node : CurrentKey(x)' = CurrentKey(x)
    BY <1>6, <1>12
  <1>14. Later(A, G, B, G)
    <2>1. \A x \in DOMAIN A : B[x] = {e \in A[x] : e[1] \notin G}
      BY <1>8, <1>10 DEF Ancestors
    <2>2. \A x \in G : Has(x, "MARK")'
      <3>1. \A x \in G : x \in DOMAIN node \ {n}
        BY <1>6, <1>8 DEF Ancestors
      <3> QED
        BY <1>8, <1>12, <3>1
    <2>3. UnlinkedBy(A, G, G)
      BY DEF UnlinkedBy
    <2> QED
      BY <1>7, <1>8, <1>10, <2>1, <2>2, <2>3, LaterBy
  <1>15. RoomLater(A, B)
    BY <1>7, <1>8, <1>10, <1>13, RoomBy
  <1>16. Shape(Kids', Pointers', B, G)
    <2>1. n = base_root => s = FALSE
      BY DEF Vacant
    <2>2. IS_NULL(Kids[n][s])
      BY <1>6 DEF Vacant, Kids
    <2>3. ~IS_NULL(Kids'[n][s]) /\ Kids'[n][s].node = a /\ Kids'[n][~s] = Kids[n][~s]
      <3>0. Kids'[n][s] = NodeAt(a)
        BY <1>3, <1>6 DEF Kids
      <3>1. (~s) \in BOOLEAN /\ (~s) # s
        OBVIOUS
      <3>2. Kids'[n][~s] = Child(n, ~s)' /\ Kids[n][~s] = Child(n, ~s)
        BY <1>3, <3>1 DEF Kids
      <3>3. Child(n, ~s)' = Child(n, ~s)
        BY <1>6, <3>1
      <3> QED
        BY <3>0, <3>2, <3>3 DEF NodeAt, IS_NULL
    <2>4. \A x \in DOMAIN A \ {n} : Kids'[x] = Kids[x]
      BY <1>3, <1>8, <1>12 DEF Kids
    <2>5. \A x \in DOMAIN A : Pointers'[x] = Pointers[x]
      BY <1>3, <1>8 DEF Pointers, ChildOf
    <2>6. \A q \in BOOLEAN : IS_NULL(Kids'[a][q]) /\ IS_NULL(Pointers'[a][q])
      BY <1>3, <1>11 DEF Kids, Pointers, SET_NULL, IS_NULL
    <2>7. Attach(Kids, Pointers, Kids', Pointers', A, n, s, a)
      BY <2>1, <2>2, <2>3, <2>4, <2>5, <2>6 DEF Attach
    <2>8. a \notin DOMAIN A
      BY <1>8
    <2> QED
      BY <1>8, <1>9, <2>7, <2>8, ShapeGrown
  <1>17. Order(B, G, Keys', CurrentKeys', DeadNodes')
    <2>1. Lower(A, CurrentKeys, n, k)
      BY DEF Vacant
    <2>2. s => k < Keys[n]
      BY DEF Vacant, Keys
    <2>3. ~s => n = base_root \/ CurrentKeys[n] < k
      BY <1>6 DEF Vacant, CurrentKeys
    <2>4. Keys'[a] = k /\ CurrentKeys'[a] = k
      BY <1>3, <1>11 DEF Keys, CurrentKeys, create_LF_node
    <2>5. \A x \in DOMAIN A : Keys'[x] = Keys[x] /\ CurrentKeys'[x] = CurrentKeys[x]
      BY <1>3, <1>8, <1>13 DEF Keys, CurrentKeys
    <2>6. DeadNodes \subseteq DeadNodes'
      BY <1>3, <1>6, <1>12 DEF DeadNodes
    <2> QED
      BY <1>8, <1>9, <2>1, <2>2, <2>3, <2>4, <2>5, <2>6, OrderGrown
  <1>18. TreeOK(B, G)'
    <2>1. IsFiniteSet(DOMAIN node')
      BY <1>3, <1>8, FS_AddElement
    <2>2. MarkedHasSpareChild'
      <3> SUFFICES ASSUME NEW x \in Node', Has(x, "MARK")'
                   PROVE  IS_NULL(node'[x].left) \/ IS_NULL(node'[x].right)
        BY DEF MarkedHasSpareChild
      <3>1. x # a
        BY <1>3 DEF Has, GET_FLAG, create_LF_node, NullOp, OpAt
      <3>2. x # n
        BY <1>2, <1>3 DEF Has, GET_FLAG, Flagged
      <3>3. x \in DOMAIN node \ {n} /\ x \in Node
        BY <1>3, <3>1, <3>2 DEF Node
      <3> QED
        BY <1>1, <1>3, <1>12, <3>3 DEF TreeOK, MarkedHasSpareChild
    <2>3. \A x \in G : Has(x, "MARK")'
      BY <1>14 DEF Later, Has, GET_FLAG
    <2> QED
      BY <1>10, <1>16, <1>17, <2>1, <2>2, <2>3 DEF TreeOK
  <1>19. Swings(G)'
    <2>1. NullOK(G, ChildOf(node[n], s))
      BY <1>1 DEF Swings
    <2>2. CasOK(G, o)
      BY <1>2, <2>1 DEF CasOK, NullOK, NodeAt, IS_NULL, Vacant
    <2>3. o.update.node \notin G \cup {NoNode}
      BY <1>2, <1>8, NullAssumption DEF NodeAt
    <2>4. \A x \in DOMAIN node' \ DOMAIN node, q \in BOOLEAN : ChildOf(node'[x], q) = SET_NULL(NoNode)
      BY <1>3, <1>11
    <2> QED
      BY <1>1, <1>5, <2>2, <2>3, <2>4, PublishedSwings
  <1>20. RelocationsOK(B)'
    BY <1>1, <1>5, <1>14, PublishedRelocations
  <1> QED
    BY <1>9, <1>14, <1>15, <1>18, <1>19, <1>20 DEF Stepped, HeapInv

LEMMA UnlinkStepped ==
    ASSUME NEW A, NEW G, HeapNow(A, G), StepsSoundly, NEW p \in DOMAIN node, NEW c \in DOMAIN node \ G,
           NEW s \in BOOLEAN, node[p].op.flag = "NONE", Has(c, "MARK"),
           ChildOf(node[p], s) = NodeAt(c), NEW a, a \notin DOMAIN cas,
           node' = [node EXCEPT ![p].op = Flagged("CHILDCAS", a)],
           cas' = Store(cas, a, [is_left |-> s, expected |-> NodeAt(c), update |-> TheChild(c)]),
           reloc' = reloc
    PROVE  Stepped(A, G, Cut(A, c), G \cup {c})
  <1>1. /\ Inv /\ OpsInv /\ TreeOK(A, G) /\ Swings(G) /\ RelocationsOK(A)
        /\ Inv' /\ OpsInv' /\ Recorded
    BY DEF HeapNow, HeapInv, StepsSoundly
  <1>2. PICK o, w, u : /\ o = [is_left |-> s, expected |-> NodeAt(c), update |-> u]
                       /\ w = Flagged("CHILDCAS", a) /\ u = TheChild(c)
    OBVIOUS
  <1>3. /\ DOMAIN node' = DOMAIN node
        /\ node'[p].op = w /\ node'[p].key = node[p].key
        /\ node'[p].left = node[p].left /\ node'[p].right = node[p].right
        /\ \A x \in DOMAIN node \ {p} : node'[x] = node[x]
    BY <1>1, <1>2 DEF Inv, TypeOK, LF_BST_Node
  <1>4. OpChange(p, w)
    BY <1>2, <1>3 DEF OpChange, Flagged
  <1>5. PublishedCAS(p, a, o)
    BY <1>2, <1>4 DEF PublishedCAS
  <1>6. /\ Extends /\ MayBecome(p, w)
        /\ \A q \in BOOLEAN :
              /\ Child(p, q) = ChildOf(node[p], q)
              /\ Child(p, q)' = IF q = s THEN u ELSE Child(p, q)
        /\ CurrentKey(p) = node[p].key /\ CurrentKey(p)' = node[p].key /\ ~Dead(p) /\ ~Has(p, "MARK")
    <2>1. o.is_left = s /\ o.update = u /\ w = Flagged("CHILDCAS", a)
      BY <1>2
    <2>2. /\ Extends /\ MayBecome(p, Flagged("CHILDCAS", a))
          /\ \A q \in BOOLEAN :
                /\ Child(p, q) = ChildOf(node[p], q)
                /\ Child(p, q)' = IF q = o.is_left THEN o.update ELSE Child(p, q)
          /\ CurrentKey(p) = node[p].key /\ CurrentKey(p)' = node[p].key /\ ~Dead(p) /\ ~Has(p, "MARK")
      BY <1>1, <1>5, PublishedFacts
    <2> QED
      BY <2>1, <2>2
  <1>7. HeapLater
    BY <1>1, <1>4, <1>6, OpChangeLater
  <1>8. /\ DOMAIN A = DOMAIN node /\ IsFiniteSet(DOMAIN node) /\ Shape(Kids, Pointers, A, G)
        /\ \A x \in G : Has(x, "MARK")
        /\ Order(A, G, Keys, CurrentKeys, DeadNodes) /\ Ancestors(A, G) /\ Children(Kids, A, G)
        /\ p \in Linked(A, G) /\ c \in Linked(A, G) /\ c # p
    BY <1>1, <1>6 DEF TreeOK, Shape, Linked, Ancestors
  <1>9. \A x \in DOMAIN node \ {p} :
            /\ \A q : Child(x, q)' = Child(x, q)
            /\ CurrentKey(x)' = CurrentKey(x) /\ Dead(x)' = Dead(x)
            /\ \A f : Has(x, f)' = Has(x, f)
    BY <1>1, <1>3, <1>6, SameNode
  <1>10. \A x \in DOMAIN node : CurrentKey(x)' = CurrentKey(x)
    BY <1>6, <1>9
  <1>11. Elsewhere(Kids, Kids', A, p) /\ \A x \in DOMAIN A : Pointers'[x] = Pointers[x]
    BY <1>3, <1>8, <1>9 DEF Kids, Pointers, ChildOf, Elsewhere
  <1>12. \A q \in BOOLEAN : Kids[c][q] = ChildOf(node[c], q)
    BY <1>8 DEF Kids, Child, Has, GET_FLAG
  <1>13. Kids[p][s] = NodeAt(c) /\ Kids'[p][s] = u /\ Kids'[p][~s] = Kids[p][~s]
    BY <1>3, <1>6 DEF Kids
  <1>14. c # base_root /\ Hangs(A, G, p, s, c)
    <2>1. c \in Linked(A, G) /\ Hangs(A, G, p, s, c)
      BY <1>8, <1>13 DEF Children, NodeAt, IS_NULL
    <2>2. <<p, s>> \in A[c]
      BY <1>8, <2>1, ParentLinked DEF Linked
    <2> QED
      BY <1>8, <2>1, <2>2 DEF Shape, FromRoot
  <1>15. IS_NULL(node[c].left) \/ IS_NULL(node[c].right)
    BY <1>1, <1>14 DEF TreeOK, MarkedHasSpareChild, Node
  <1>16. \/ u = node[c].left /\ ~IS_NULL(u) /\ IS_NULL(node[c].right)
         \/ u = node[c].right /\ ~IS_NULL(u) /\ IS_NULL(node[c].left)
         \/ u = SET_NULL(c) /\ IS_NULL(node[c].left) /\ IS_NULL(node[c].right)
    BY <1>2, <1>15 DEF TheChild
  <1>17. Bypass(Kids, Kids', p, s, c)
    <2>1. Kids[c][TRUE] = node[c].left /\ Kids[c][FALSE] = node[c].right
      BY <1>12 DEF ChildOf
    <2>2. \A q \in BOOLEAN : ~IS_NULL(Kids[c][q]) => IS_NULL(Kids[c][~q]) /\ u = Kids[c][q]
      <3> SUFFICES ASSUME NEW q \in BOOLEAN, ~IS_NULL(Kids[c][q])
                   PROVE  IS_NULL(Kids[c][~q]) /\ u = Kids[c][q]
        OBVIOUS
      <3>1. CASE q = TRUE
        BY <1>16, <2>1, <3>1 DEF SET_NULL, IS_NULL
      <3>2. CASE q = FALSE
        BY <1>16, <2>1, <3>2 DEF SET_NULL, IS_NULL
      <3> QED
        BY <3>1, <3>2
    <2>3. ~IS_NULL(u) => \E q \in BOOLEAN : u = Kids[c][q]
      <3>1. ~IS_NULL(u) => u = node[c].left \/ u = node[c].right
        BY <1>16 DEF SET_NULL, IS_NULL
      <3>2. TRUE \in BOOLEAN /\ FALSE \in BOOLEAN
        OBVIOUS
      <3> QED
        BY <2>1, <3>1, <3>2
    <2>4. ~IS_NULL(Kids[p][s]) /\ Kids[p][s].node = c
      BY <1>13 DEF NodeAt, IS_NULL
    <2> QED
      BY <1>13, <2>2, <2>3, <2>4 DEF Bypass
  <1>18. PICK B, H : B = Cut(A, c) /\ H = G \cup {c}
    OBVIOUS
  <1>19. Shape(Kids', Pointers', B, H) /\ Hangs(A, G, p, s, c)
    <2>1. Shape(Kids', Pointers', Cut(A, c), G \cup {c})
      BY <1>8, <1>11, <1>17, ShapeCut
    <2> QED
      BY <1>14, <1>18, <2>1
  <1>20. DOMAIN B = DOMAIN A /\ \A x \in DOMAIN A : B[x] \subseteq A[x]
    BY <1>8, <1>18, CutPairs DEF Cut
  <1>21. \A x \in H : Has(x, "MARK")'
    <2>1. \A x \in H : x \in DOMAIN node \ {p} /\ Has(x, "MARK")
      BY <1>6, <1>8, <1>18 DEF Ancestors
    <2> QED
      BY <1>9, <2>1
  <1>22. Later(A, G, B, H)
    <2>1. \A x \in DOMAIN A : B[x] = {e \in A[x] : e[1] \notin H}
      BY <1>8, <1>18 DEF Ancestors, Cut
    <2>2. UnlinkedBy(A, G, H)
      <3> SUFFICES ASSUME NEW q \in DOMAIN node \ G, NEW x \in H \ G, NEW z \in BOOLEAN,
                          Hangs(A, G, q, z, x)
                   PROVE  node'[q].op # node[q].op /\ node'[q].op.flag = "CHILDCAS"
        BY DEF UnlinkedBy
      <3>1. x = c
        BY <1>18
      <3>2. q = p
        BY <1>8, <1>19, <3>1, OneParent DEF Linked
      <3> QED
        BY <1>2, <1>3, <3>2 DEF Flagged
    <2> QED
      BY <1>3, <1>7, <1>8, <1>18, <1>20, <1>21, <2>1, <2>2, LaterBy
  <1>23. RoomLater(A, B)
    BY <1>7, <1>8, <1>10, <1>20, RoomBy
  <1>24. Order(B, H, Keys', CurrentKeys', DeadNodes')
    <2>1. DeadNodes \subseteq DeadNodes'
      BY <1>3, <1>6, <1>9 DEF DeadNodes
    <2>2. \A x \in DOMAIN A : /\ Keys'[x] \in Int /\ Keys[x] <= Keys'[x] /\ Keys'[x] <= CurrentKeys'[x]
                              /\ CurrentKeys'[x] = CurrentKeys[x]
      <3>1. \A x \in DOMAIN A : Keys'[x] = Keys[x] /\ CurrentKeys'[x] = CurrentKeys[x]
        BY <1>3, <1>8, <1>10 DEF Keys, CurrentKeys
      <3>2. \A x \in DOMAIN A : Keys[x] \in Int /\ Keys[x] <= CurrentKeys[x]
        BY <1>8 DEF Order
      <3> QED
        BY <3>1, <3>2
    <2> QED
      BY <1>8, <1>18, <1>20, <2>1, <2>2, OrderKept
  <1>25. TreeOK(B, H)'
    <2>1. MarkedHasSpareChild'
      <3> SUFFICES ASSUME NEW x \in Node', Has(x, "MARK")'
                   PROVE  IS_NULL(node'[x].left) \/ IS_NULL(node'[x].right)
        BY DEF MarkedHasSpareChild
      <3>1. x # p
        BY <1>2, <1>3 DEF Has, GET_FLAG, Flagged
      <3>2. x \in DOMAIN node \ {p} /\ x \in Node
        BY <1>3, <3>1 DEF Node
      <3> QED
        BY <1>1, <1>3, <1>9, <3>2 DEF TreeOK, MarkedHasSpareChild
    <2> QED
      BY <1>3, <1>8, <1>19, <1>20, <1>21, <1>24, <2>1 DEF TreeOK
  <1>26. Swings(H)'
    <2>1. u.node \notin G \cup {NoNode} /\ u # NodeAt(c)
      <3>1. CASE u = SET_NULL(c)
        BY <1>1, <3>1, NullAssumption DEF SET_NULL, NodeAt, Inv, TypeOK
      <3>2. ASSUME NEW q \in BOOLEAN, u = Kids[c][q], ~IS_NULL(u) PROVE u.node \notin G \cup {NoNode} /\ u # NodeAt(c)
        <4>1. u.node \in Linked(A, G) /\ Hangs(A, G, c, q, u.node)
          BY <1>8, <3>2 DEF Children
        <4>2. u.node \in DOMAIN A /\ <<c, q>> \in A[u.node]
          BY <1>8, <4>1, ParentLinked DEF Linked
        <4>3. u.node # c
          BY <1>8, <4>2, AboveOne
        <4>4. u.node # NoNode
          BY <1>1, <1>8, <4>2, NullAssumption DEF Inv, TypeOK
        <4> QED
          BY <4>1, <4>3, <4>4 DEF Linked, NodeAt
      <3>3. \A q \in BOOLEAN : Kids[c][q] = ChildOf(node[c], q)
        BY <1>12
      <3> QED
        BY <1>16, <3>1, <3>2, <3>3 DEF ChildOf
    <2>2. CasOK(H, o)
      <3>1. IS_NULL(u) => u.node = c
        BY <1>16 DEF SET_NULL
      <3> QED
        BY <1>2, <1>18, <2>1, <3>1 DEF CasOK, NullOK, NodeAt, IS_NULL
    <2>3. o.update.node \notin G \cup {NoNode}
      BY <1>2, <2>1
    <2>4. G \subseteq H /\ DOMAIN node' \ DOMAIN node = {}
      BY <1>3, <1>18
    <2> QED
      BY <1>1, <1>5, <2>2, <2>3, <2>4, PublishedSwings
  <1>27. RelocationsOK(B)'
    BY <1>1, <1>5, <1>22, PublishedRelocations
  <1> QED
    BY <1>18, <1>22, <1>23, <1>25, <1>26, <1>27 DEF Stepped, HeapInv

LEMMA RelocateStepped ==
    ASSUME NEW A, NEW G, HeapNow(A, G), StepsSoundly, NEW c \in DOMAIN node, node[c].op.flag = "NONE",
           NEW a, a \notin DOMAIN reloc, NEW r, r.state = "ONGOING",
           r.dest \in DOMAIN node, r.dest # c, r.dest_op \in Had(node, past, r.dest),
           r.remove_key < r.replace_key, r.replace_key = node[c].key, IS_NULL(node[c].left),
           Is(r.dest, r.dest_op) => node[r.dest].key = r.remove_key /\ After(A, r.dest, c),
           node' = [node EXCEPT ![c].op = ToDest(a)], cas' = cas, reloc' = Store(reloc, a, r)
    PROVE  Stepped(A, G, A, G)
  <1>1. /\ Inv /\ OpsInv /\ TreeOK(A, G) /\ Swings(G) /\ RelocationsOK(A)
        /\ Inv' /\ OpsInv' /\ Recorded
    BY DEF HeapNow, HeapInv, StepsSoundly
  <1>2. PICK w, d : w = ToDest(a) /\ d = r.dest
    OBVIOUS
  <1>3. w.flag = "RELOCATE" /\ w.op = a /\ \A b : w = ToDest(b) => b = a
    BY <1>2 DEF ToDest, Flagged
  <1>4. /\ DOMAIN node' = DOMAIN node
        /\ node'[c].op = w /\ node'[c].key = node[c].key
        /\ node'[c].left = node[c].left /\ node'[c].right = node[c].right
        /\ \A x \in DOMAIN node \ {c} : node'[x] = node[x]
    BY <1>1, <1>2 DEF Inv, TypeOK, LF_BST_Node
  <1>5. OpChange(c, w)
    BY <1>3, <1>4 DEF OpChange
  <1>6. /\ DOMAIN reloc' = DOMAIN reloc \cup {a} /\ reloc'[a] = r
        /\ \A b \in DOMAIN reloc : reloc'[b] = reloc[b]
    BY DEF Store
  <1>7. Extends
    BY <1>6 DEF Extends
  <1>8. MayBecome(c, w)
    BY <1>3 DEF MayBecome, Is, Flagged, ToDest
  <1>9. HeapLater
    BY <1>1, <1>5, <1>7, <1>8, OpChangeLater
  <1>10. Later(A, G, A, G)
    BY <1>1, <1>4, <1>9, LaterSame
  <1>11. SameView(c)
    <2>1. ~Has(c, "CHILDCAS") /\ ~Has(c, "MARK") /\ ~Has(c, "RELOCATE")
      BY DEF Has, GET_FLAG
    <2>2. Has(c, "RELOCATE")' /\ ~Has(c, "CHILDCAS")' /\ PendingRelocation(c)' = r
      BY <1>3, <1>4, <1>6 DEF Has, GET_FLAG, PendingRelocation, UNFLAG
    <2>3. ~Relocated(c) /\ ~Relocated(c)' /\ ~Dead(c)
      BY <2>1, <2>2 DEF Relocated, Dead
    <2> QED
      BY <1>4, <2>1, <2>2, <2>3 DEF SameView, Child, ChildOf, CurrentKey
  <1>12. TreeOK(A, G)' /\ \A x \in DOMAIN node : SameView(x)
    BY <1>1, <1>3, <1>4, <1>5, <1>7, <1>9, <1>11, OpChangeTree
  <1>13. Swings(G)'
    <2>1. \A b \in DOMAIN cas : ~Is(c, Flagged("CHILDCAS", b))
      BY DEF Is, Flagged
    <2> QED
      BY <1>1, <1>3, <1>4, <1>5, <1>7, <1>12, <2>1, OpChangeSwings
  <1>14. \A x \in DOMAIN node : w \notin Had(node, past, x)
    BY <1>1, <1>3 DEF OpsInv, HeapOps, Traced
  <1>15. /\ past'[d] = past[d] /\ Had(node', past', d) = Had(node, past, d) /\ node'[d] = node[d]
         /\ past'[c] = Had(node, past, c) /\ Had(node', past', c) = Had(node, past, c) \cup {w}
         /\ \A x \in DOMAIN node \ {c} : Had(node', past', x) = Had(node, past, x)
    <2>1. /\ past'[c] = Had(node, past, c) /\ Had(node', past', c) = Had(node, past, c) \cup {w}
          /\ \A x \in DOMAIN node \ {c} :
                past'[x] = past[x] /\ Had(node', past', x) = Had(node, past, x)
      BY <1>1, <1>5, OpChangePast
    <2>2. d \in DOMAIN node \ {c}
      BY <1>2
    <2>3. node'[d] = node[d]
      BY <1>4, <2>2
    <2> QED
      BY <2>1, <2>2, <2>3
  <1>16. DestKey(a)'
    <2>1. node'[d].op # w /\ w \notin past'[d]
      BY <1>2, <1>14, <1>15 DEF Had
    <2> QED
      BY <1>2, <1>6, <1>15, <2>1 DEF DestKey, Is
  <1>17. (\E x : Replaces(a, x))'
    BY <1>2, <1>4, <1>6, <1>15 DEF Replaces
  <1>18. ASSUME NEW x, Replaces(a, x)' PROVE Replaced(A, a, x)'
    <2>1. x = c
      BY <1>2, <1>4, <1>14, <1>15, <1>18 DEF Replaces
    <2>2. w \notin past'[c] /\ node'[d].op # w
      BY <1>2, <1>14, <1>15 DEF Had
    <2>3. Replaced(A, a, c)'
      BY <1>2, <1>4, <1>6, <1>15, <2>2 DEF Replaced, Is
    <2> QED
      BY <2>1, <2>3
  <1>19. ASSUME NEW b \in DOMAIN reloc
         PROVE  DestKey(b)' /\ (\E x : Replaces(b, x))' /\ (\A x : Replaces(b, x) => Replaced(A, b, x))'
    BY <1>1, <1>5, <1>7, <1>8, <1>10, OpChangeDestKey, OpChangeReplaced
  <1>20. RelocationsOK(A)'
    BY <1>6, <1>16, <1>17, <1>18, <1>19 DEF RelocationsOK
  <1>21. RoomLater(A, A)
    <2>1. Ancestors(A, G) /\ DOMAIN A = DOMAIN node
      BY <1>1 DEF TreeOK, Shape
    <2>2. \A x \in DOMAIN node : CurrentKey(x)' = CurrentKey(x)
      BY <1>12 DEF SameView
    <2>3. \A x \in DOMAIN A : A[x] \subseteq A[x]
      OBVIOUS
    <2> QED
      BY <1>9, <2>1, <2>2, <2>3, RoomBy
  <1> QED
    BY <1>10, <1>12, <1>13, <1>20, <1>21 DEF Stepped, HeapInv

-----------------------------------------------------------------------------
(***************************************************************************)
(* A step of thread t: it changes the heap, and t knows what it needs next.*)
(***************************************************************************)
Advanced(t, A, G) ==
    \E B, H : Stepped(A, G, B, H) /\ ThreadInv(B, H, loc[t], pc[t])'

TreeNow(t, A, G) == HeapNow(A, G) /\ ThreadInv(A, G, loc[t], pc[t]) /\ StepsSoundly

Outside == {"idle", "return", "find"}
Apart == Outside \cup ChildLabel \cup MarkLabel \cup RelocLabel

(* m is a thread's l with another place in the tree, or none. *)
Continues(l, m) == SameRoot(l, m) /\ (m.auxRoot # base_root => m.work = l.work)

LEMMA ApartLabels ==
    ASSUME NEW to \in Apart
    PROVE  /\ to \notin CurrLabel
           /\ to \notin FindLabel \ {"find"} /\ to \notin OpLabel
           /\ to \in Outside => to \notin ChildLabel \cup MarkLabel \cup RelocLabel
  BY DEF Apart, Outside, ChildLabel, MarkLabel, RelocLabel, CurrLabel, FindLabel, OpLabel

(* A thread that is not in find(), nor where it led to, knows its root. *)
LEMMA ApartKnows ==
    ASSUME NEW A, NEW G, NEW l, NEW at, NEW m, NEW to \in Apart,
           SecondFind(A, l, at), Continues(l, m)
    PROVE  Room(A, m, to) /\ FirstFind(A, G, m, to) /\ SecondFind(A, m, to) /\ OpsFind(A, G, m, to)
  <1>1. /\ to \notin FindLabel \ {"find"} /\ to \notin OpLabel
        /\ to \notin {"find_next", "find_visit", "find_key", "find_last_right", "find_curr"}
        /\ to \notin {"add_old", "add_cas", "rem_right", "rem_left", "rem_mark", "rem_recheck", "rem_key", "rem_reloc"}
    BY ApartLabels DEF FindLabel, OpLabel
  <1>2. Room(A, m, to) /\ FirstFind(A, G, m, to) /\ OpsFind(A, G, m, to)
    BY <1>1 DEF Room, FirstFind, OpsFind
  <1>3. SecondFind(A, m, to)
    BY <1>1 DEF SecondFind, Continues, SameRoot
  <1> QED
    BY <1>2, <1>3

LEMMA ApartKnowsNext ==
    ASSUME NEW A, NEW G, NEW l, NEW at, NEW m, NEW to \in Apart,
           SecondFind(A, l, at)', Continues(l, m)
    PROVE  (Room(A, m, to) /\ FirstFind(A, G, m, to) /\ SecondFind(A, m, to) /\ OpsFind(A, G, m, to))'
  <1>1. /\ to \notin FindLabel \ {"find"} /\ to \notin OpLabel
        /\ to \notin {"find_next", "find_visit", "find_key", "find_last_right", "find_curr"}
        /\ to \notin {"add_old", "add_cas", "rem_right", "rem_left", "rem_mark", "rem_recheck", "rem_key", "rem_reloc"}
    BY ApartLabels DEF FindLabel, OpLabel
  <1>2. (Room(A, m, to) /\ FirstFind(A, G, m, to) /\ OpsFind(A, G, m, to))'
    BY <1>1 DEF Room, FirstFind, OpsFind
  <1>3. SecondFind(A, m, to)'
    BY <1>1 DEF SecondFind, Continues, SameRoot
  <1> QED
    BY <1>2, <1>3

LEMMA OutsideKnows ==
    ASSUME NEW A, NEW G, NEW l, NEW at, NEW m, NEW to \in Outside,
           SecondFind(A, l, at), Continues(l, m)
    PROVE  ThreadInv(A, G, m, to)
  <1>1. to \in Apart /\ to \notin ChildLabel \cup MarkLabel \cup RelocLabel
    BY ApartLabels DEF Apart
  <1>2. Helps(A, G, m, to)
    BY <1>1 DEF Helps, HelpsMarked, HelpsChildCAS, HelpsRelocate, ChildLabel, MarkLabel, RelocLabel
  <1> QED
    BY <1>1, <1>2, ApartKnows DEF ThreadInv

-----------------------------------------------------------------------------
(* What t knows after the step is what it knew already. *)
LEMMA KnownAdvanced ==
    ASSUME NEW t \in Thread, NEW A, NEW G, TreeNow(t, A, G), NEW B, NEW H, Stepped(A, G, B, H),
           NEW to, NEW m, Goto(t, to), SetLocals(t, m), Stands(m, to), ThreadInv(A, G, m, to)
    PROVE  Advanced(t, A, G)
  <1>1. loc'[t] = m /\ pc'[t] = to
    BY OthersStay DEF TreeNow, HeapNow
  <1>2. ThreadInv(B, H, m, to)'
    BY ThreadKept DEF Stepped
  <1> QED
    BY <1>1, <1>2 DEF Advanced

LEMMA NextAdvanced ==
    ASSUME NEW t \in Thread, NEW A, NEW G, TreeNow(t, A, G), NEW B, NEW H, Stepped(A, G, B, H),
           NEW to, NEW m, Goto(t, to), SetLocals(t, m), ThreadInv(B, H, m, to)'
    PROVE  Advanced(t, A, G)
  <1>1. loc'[t] = m /\ pc'[t] = to
    BY OthersStay DEF TreeNow, HeapNow
  <1> QED
    BY <1>1 DEF Advanced

(* A step that only reads. *)
LEMMA QuietAdvanced ==
    ASSUME NEW t \in Thread, NEW A, NEW G, TreeNow(t, A, G), node' = node, cas' = cas, reloc' = reloc,
           NEW to, NEW m, Goto(t, to), SetLocals(t, m), ThreadInv(A, G, m, to)
    PROVE  Advanced(t, A, G)
  <1>1. Stepped(A, G, A, G)
    BY QuietStepped DEF TreeNow
  <1>2. loc'[t] = m /\ pc'[t] = to
    BY OthersStay DEF TreeNow, HeapNow
  <1>3. past' = past
    BY SameOpsHistory DEF TreeNow, HeapNow, StepsSoundly, Recorded, OpsInv, HeapOps, SameOps
  <1>4. m \in LocalState /\ LocalOK(m, to)'
    <2>1. TypeOK' /\ (PointersOK)'
      BY DEF TreeNow, StepsSoundly, Inv
    <2>2. loc'[t] \in LocalState
      BY <2>1 DEF TypeOK
    <2>3. LocalOK(loc[t], pc[t])'
      BY <2>1 DEF PointersOK
    <2> QED
      BY <1>2, <2>2, <2>3
  <1>5. LocalOK(m, to)
    BY <1>4 DEF LocalOK, RefOK, Node
  <1>6. ThreadOps(node', past', reloc', m, to)
    BY <1>2 DEF TreeNow, StepsSoundly, OpsInv
  <1>7. Stands(m, to)
    BY <1>3, <1>4, <1>5, <1>6 DEF Stands
  <1> QED
    BY <1>1, <1>7, KnownAdvanced

LEMMA StandsNow ==
    ASSUME NEW t \in Thread, Inv, OpsInv
    PROVE  Stands(loc[t], pc[t])
  BY LocalsOf DEF OpsInv, Stands

(* Where no op has been read. *)
LEMMA FreeStands ==
    ASSUME NEW t \in Thread, Inv, OpsInv, NEW m \in LocalState, NEW to \in Outside, LocalOK(m, to),
           SameRoot(loc[t], m)
    PROVE  Stands(m, to)
  <1>1. ReadOps(node, past, reloc, loc[t], pc[t])
    BY DEF OpsInv, ThreadOps
  <1>2. to \notin CurrLabel
    BY ApartLabels DEF Apart
  <1>3. ReadOps(node, past, reloc, m, to)
    BY <1>1, <1>2 DEF ReadOps, SameRoot
  <1>4. Knows(node, past, reloc, m, to)
    BY DEF Outside, Knows
  <1> QED
    BY <1>3, <1>4 DEF Stands, ThreadOps

LEMMA OutsideAdvanced ==
    ASSUME NEW t \in Thread, NEW A, NEW G, TreeNow(t, A, G), NEW B, NEW H, Stepped(A, G, B, H),
           NEW to \in Outside, NEW m \in LocalState, Goto(t, to), SetLocals(t, m), LocalOK(m, to),
           Continues(loc[t], m)
    PROVE  Advanced(t, A, G)
  <1>1. SecondFind(A, loc[t], pc[t])
    BY DEF TreeNow, ThreadInv
  <1>2. ThreadInv(A, G, m, to)
    BY <1>1, OutsideKnows
  <1>3. Stands(m, to)
    BY FreeStands DEF TreeNow, HeapNow, Continues
  <1> QED
    BY <1>2, <1>3, KnownAdvanced

LEMMA NewLocalsAdvanced ==
    ASSUME NEW t \in Thread, NEW A, NEW G, TreeNow(t, A, G), NEW B, NEW H, Stepped(A, G, B, H),
           NEW w \in Work, NEW to \in {"idle", "find"}, Goto(t, to), SetLocals(t, Locals(w))
    PROVE  Advanced(t, A, G)
  <1>1. Locals(w) \in LocalState /\ LocalOK(Locals(w), to)
    BY NewLocalsOK DEF TreeNow, HeapNow
  <1>2. Locals(w).auxRoot = base_root
    BY DEF Locals
  <1>3. Continues(loc[t], Locals(w)) /\ to \in Outside
    BY <1>2 DEF Continues, SameRoot, Outside
  <1> QED
    BY <1>1, <1>3, OutsideAdvanced

LEMMA LoopAdvanced ==
    ASSUME NEW t \in Thread, NEW A, NEW G, TreeNow(t, A, G), NEW B, NEW H, Stepped(A, G, B, H),
           Loop(t)
    PROVE  Advanced(t, A, G)
  <1>1. loc[t].work \in Work
    BY LocalsOf, WorkType DEF TreeNow, HeapNow
  <1> QED
    BY <1>1, NewLocalsAdvanced DEF Loop

LEMMA AnswerAdvanced ==
    ASSUME NEW t \in Thread, NEW A, NEW G, TreeNow(t, A, G), NEW B, NEW H, Stepped(A, G, B, H),
           NEW b \in BOOLEAN, Answer(t, b)
    PROVE  Advanced(t, A, G)
  <1>1. loc[t].work \in Work
    BY LocalsOf, WorkType DEF TreeNow, HeapNow
  <1>2. PICK m : m = [Locals(loc[t].work) EXCEPT !.answer = b]
    OBVIOUS
  <1>3. m \in LocalState /\ LocalOK(m, "return")
    BY <1>1, <1>2, NewLocalsOK DEF TreeNow, HeapNow
  <1>4. m.auxRoot = base_root
    BY <1>2 DEF Locals
  <1>5. Continues(loc[t], m) /\ "return" \in Outside
    BY <1>4 DEF Continues, SameRoot, Outside
  <1> QED
    BY <1>2, <1>3, <1>5, OutsideAdvanced DEF Answer

LEMMA FindCallContinues ==
    ASSUME NEW l \in LocalState
    PROVE  /\ Continues(l, FindCall(l)) /\ FindCall(l).work = l.work
           /\ FindCall(l).auxRoot = l.auxRoot
  <1>1. FindCall(l).work = l.work
    <2>1. l.work \in Work
      BY WorkType
    <2>2. Locals(l.work) \in LocalState /\ Locals(l.work).work = l.work
      BY <2>1, NewLocalsType DEF Locals
    <2> QED
      BY <2>2 DEF FindCall, LocalState
  <1> QED
    BY <1>1, FindCallRoot, FindCallType DEF Continues

LEMMA RetryFindAdvanced ==
    ASSUME NEW t \in Thread, NEW A, NEW G, TreeNow(t, A, G), NEW B, NEW H, Stepped(A, G, B, H),
           RetryFind(t)
    PROVE  Advanced(t, A, G)
  <1>1. loc[t] \in LocalState /\ LocalOK(loc[t], pc[t])
    BY LocalsOf DEF TreeNow, HeapNow
  <1>2. FindCall(loc[t]) \in LocalState /\ LocalOK(FindCall(loc[t]), "find")
    BY <1>1, FindCallType, FindCallOK
  <1>3. Continues(loc[t], FindCall(loc[t])) /\ "find" \in Outside
    BY <1>1, FindCallContinues DEF Outside
  <1> QED
    BY <1>2, <1>3, OutsideAdvanced DEF RetryFind

LEMMA HelpedAdvanced ==
    ASSUME NEW t \in Thread, NEW A, NEW G, TreeNow(t, A, G), NEW B, NEW H, Stepped(A, G, B, H),
           Helped(t)
    PROVE  Advanced(t, A, G)
  BY RetryFindAdvanced, AnswerAdvanced DEF Helped

-----------------------------------------------------------------------------
(***************************************************************************)
(* Calls of the helpers.                                                   *)
(***************************************************************************)
LEMMA RootKnown ==
    ASSUME NEW t \in Thread, NEW A, NEW G, TreeNow(t, A, G), NEW B, NEW H, Stepped(A, G, B, H),
           NEW m, NEW to \in Apart, Continues(loc[t], m)
    PROVE  (Room(B, m, to) /\ FirstFind(B, H, m, to) /\ SecondFind(B, m, to) /\ OpsFind(B, H, m, to))'
  <1>1. PICK l, at : l = loc[t] /\ at = pc[t]
    OBVIOUS
  <1>2. Stands(l, at) /\ ThreadInv(A, G, l, at)
    BY <1>1, StandsNow DEF TreeNow, HeapNow
  <1>3. ThreadInv(B, H, l, at)'
    BY <1>2, ThreadKept DEF Stepped
  <1>4. SecondFind(B, l, at)'
    BY <1>3 DEF ThreadInv
  <1>5. Continues(l, m)
    BY <1>1
  <1> QED
    BY <1>4, <1>5, ApartKnowsNext

LEMMA ContinuesOn ==
    ASSUME NEW l, NEW k \in LocalState, Continues(l, k), NEW m,
           m.auxRoot = FindCall(k).auxRoot, m.auxRoot_op = FindCall(k).auxRoot_op,
           m.work = FindCall(k).work
    PROVE  Continues(l, m)
  BY FindCallContinues DEF Continues, SameRoot

LEMMA helpChildCASAdvanced ==
    ASSUME NEW t \in Thread, NEW A, NEW G, TreeNow(t, A, G), NEW B, NEW H, Stepped(A, G, B, H),
           NEW l \in LocalState, Continues(loc[t], l), NEW o, NEW d, NEW ret,
           helpChildCAS(t, l, o, d, ret), Flagged("CHILDCAS", o) \in Had(node', past', d)
    PROVE  Advanced(t, A, G)
  <1>1. PICK m : m = [FindCall(l) EXCEPT !.cas_op = o, !.dest = d, !.ret = ret]
    OBVIOUS
  <1>2. FindCall(l) \in LocalState
    BY FindCallType
  <1>3. /\ m.cas_op = o /\ m.dest = d /\ m.auxRoot = FindCall(l).auxRoot
        /\ m.auxRoot_op = FindCall(l).auxRoot_op /\ m.work = FindCall(l).work
    BY <1>1, <1>2 DEF LocalState
  <1>5. Continues(loc[t], m) /\ "child_cas" \in Apart
    BY <1>3, ContinuesOn DEF Apart, ChildLabel
  <1>6. (Room(B, m, "child_cas") /\ FirstFind(B, H, m, "child_cas")
            /\ SecondFind(B, m, "child_cas") /\ OpsFind(B, H, m, "child_cas"))'
    BY <1>5, RootKnown
  <1>7. Helps(B, H, m, "child_cas")'
    BY <1>3 DEF Helps, HelpsMarked, HelpsChildCAS, HelpsRelocate, MarkLabel, RelocLabel
  <1>8. ThreadInv(B, H, m, "child_cas")'
    BY <1>6, <1>7 DEF ThreadInv
  <1> QED
    BY <1>1, <1>8, NextAdvanced DEF helpChildCAS

LEMMA helpMarkedAdvanced ==
    ASSUME NEW t \in Thread, NEW A, NEW G, TreeNow(t, A, G), NEW B, NEW H, Stepped(A, G, B, H),
           NEW l \in LocalState, Continues(loc[t], l), NEW p, NEW po, NEW c, NEW ret,
           helpMarked(t, l, p, po, c, ret), Has(c, "MARK")', Pair(B, H, p, po, c)'
    PROVE  Advanced(t, A, G)
  <1>1. PICK m : m = [FindCall(l) EXCEPT !.pred = p, !.pred_op = po, !.curr = c, !.ret = ret]
    OBVIOUS
  <1>2. FindCall(l) \in LocalState
    BY FindCallType
  <1>3. /\ m.pred = p /\ m.pred_op = po /\ m.curr = c /\ m.auxRoot = FindCall(l).auxRoot
        /\ m.auxRoot_op = FindCall(l).auxRoot_op /\ m.work = FindCall(l).work
    BY <1>1, <1>2 DEF LocalState
  <1>5. Continues(loc[t], m) /\ "mark_left" \in Apart
    BY <1>3, ContinuesOn DEF Apart, MarkLabel
  <1>6. (Room(B, m, "mark_left") /\ FirstFind(B, H, m, "mark_left")
            /\ SecondFind(B, m, "mark_left") /\ OpsFind(B, H, m, "mark_left"))'
    BY <1>5, RootKnown
  <1>7. Helps(B, H, m, "mark_left")'
    BY <1>3 DEF Helps, HelpsMarked, HelpsChildCAS, HelpsRelocate, ChildLabel, RelocLabel
  <1>8. ThreadInv(B, H, m, "mark_left")'
    BY <1>6, <1>7 DEF ThreadInv
  <1> QED
    BY <1>1, <1>8, NextAdvanced DEF helpMarked

(* What a helper of relocation a knows of replace, which is c. *)
RelocPair(A, G, a, p, po, c) ==
    LET d == reloc[a].dest
    IN  /\ ToDest(a) \in Had(node, past, c)
        /\ c # d =>
              /\ Pair(A, G, p, po, c)
              /\ c \in G /\ p = d =>
                   ~Is(d, reloc[a].dest_op) /\ ~Is(d, ToDest(a)) /\ ~Is(d, Flagged("NONE", a))

LEMMA helpRelocateAdvanced ==
    ASSUME NEW t \in Thread, NEW A, NEW G, TreeNow(t, A, G), NEW B, NEW H, Stepped(A, G, B, H),
           NEW l \in LocalState, Continues(loc[t], l), NEW a, NEW p, NEW po, NEW c, NEW ret,
           helpRelocate(t, l, a, p, po, c, ret), RelocPair(B, H, a, p, po, c)'
    PROVE  Advanced(t, A, G)
  <1>1. PICK m : m = [FindCall(l) EXCEPT !.reloc_op = a, !.pred = p, !.pred_op = po, !.curr = c,
                                         !.ret = ret]
    OBVIOUS
  <1>2. FindCall(l) \in LocalState
    BY FindCallType
  <1>3. /\ m.reloc_op = a /\ m.pred = p /\ m.pred_op = po /\ m.curr = c
        /\ m.auxRoot = FindCall(l).auxRoot
        /\ m.auxRoot_op = FindCall(l).auxRoot_op /\ m.work = FindCall(l).work
    BY <1>1, <1>2 DEF LocalState
  <1>5. Continues(loc[t], m) /\ "reloc_state" \in Apart
    BY <1>3, ContinuesOn DEF Apart, RelocLabel
  <1>6. (Room(B, m, "reloc_state") /\ FirstFind(B, H, m, "reloc_state")
            /\ SecondFind(B, m, "reloc_state") /\ OpsFind(B, H, m, "reloc_state"))'
    BY <1>5, RootKnown
  <1>7. HelpsRelocate(B, H, m, "reloc_state")'
    BY <1>3 DEF RelocPair, HelpsRelocate
  <1>8. Helps(B, H, m, "reloc_state")'
    BY <1>7 DEF Helps, HelpsMarked, HelpsChildCAS, ChildLabel, MarkLabel
  <1>9. ThreadInv(B, H, m, "reloc_state")'
    BY <1>6, <1>8 DEF ThreadInv
  <1> QED
    BY <1>1, <1>9, NextAdvanced DEF helpRelocate

-----------------------------------------------------------------------------
(***************************************************************************)
(* The threads, and find().                                                *)
(***************************************************************************)
LEMMA CallAdvanced ==
    ASSUME NEW t \in Thread, NEW A, NEW G, TreeNow(t, A, G),
           TakeWork(t) \/ (t = Main /\ CreateTree) \/ Return(t)
    PROVE  Advanced(t, A, G)
  <1>1. node' = node /\ cas' = cas /\ reloc' = reloc
    BY DEF TakeWork, CreateTree, Return, heap
  <1>2. Stepped(A, G, A, G)
    BY <1>1, QuietStepped DEF TreeNow
  <1>3. queue \in Seq(Work) /\ create \in Seq(Int)
    BY DEF TreeNow, HeapNow, Inv, TypeOK
  <1>4. CASE TakeWork(t)
    BY <1>2, <1>3, <1>4, NewLocalsAdvanced DEF TakeWork
  <1>5. CASE t = Main /\ CreateTree
    <2>1. [op |-> "INSERT", key |-> Head(create)] \in Work
      BY <1>3, <1>5 DEF CreateTree, Work
    <2> QED
      BY <1>2, <1>5, <2>1, NewLocalsAdvanced DEF CreateTree
  <1>6. CASE Return(t)
    BY <1>2, <1>6, NewLocalsAdvanced DEF Return, NoWork, Work
  <1> QED
    BY <1>4, <1>5, <1>6

(* What the heap is like for a thread that has read an op without a flag. *)
LEMMA Unflagged ==
    ASSUME NEW A, NEW G, HeapInv(A, G), NEW n \in DOMAIN node, node[n].op.flag = "NONE"
    PROVE  /\ n \in Linked(A, G) /\ ~Dead(n) /\ CurrentKey(n) = node[n].key
           /\ \A s : Child(n, s) = ChildOf(node[n], s)
           /\ \A c \in {c \in DOMAIN node : node[c].op.flag = "NONE"} : c \notin G
  <1>1. DOMAIN A = DOMAIN node /\ \A x \in G : Has(x, "MARK")
    BY DEF HeapInv, TreeOK
  <1> QED
    BY <1>1 DEF Linked, Has, GET_FLAG, Dead, Relocated, CurrentKey, Child

LEMMA ChildFound ==
    ASSUME NEW A, NEW G, HeapInv(A, G), NEW n \in DOMAIN node, NEW s \in BOOLEAN,
           ~IS_NULL(ChildOf(node[n], s))
    PROVE  LET c == ChildOf(node[n], s).node
           IN  /\ c \in DOMAIN node /\ Hangs(A, G, n, s, c)
               /\ node[n].op.flag = "NONE" => c \notin G
  <1>1. Shape(Kids, Pointers, A, G) /\ DOMAIN A = DOMAIN node
    BY DEF HeapInv, TreeOK
  <1>2. Pointers[n][s] = ChildOf(node[n], s) /\ Kids[n][s] = Child(n, s)
    BY DEF Pointers, Kids
  <1>3. ChildOf(node[n], s).node \in DOMAIN A /\ Hangs(A, G, n, s, ChildOf(node[n], s).node)
    BY <1>1, <1>2 DEF Shape, PointersHang
  <1>4. ASSUME node[n].op.flag = "NONE" PROVE ChildOf(node[n], s).node \notin G
    <2>1. n \in Linked(A, G) /\ Child(n, s) = ChildOf(node[n], s)
      BY <1>4, Unflagged
    <2>2. Kids[n][s].node \in Linked(A, G)
      BY <1>1, <1>2, <2>1 DEF Shape, Children
    <2> QED
      BY <1>2, <2>1, <2>2 DEF Linked
  <1> QED
    BY <1>1, <1>3, <1>4

(* Below n, the keys are larger than those on whose right they are. *)
LEMMA KeysInOrder ==
    ASSUME NEW A, NEW G, HeapInv(A, G), NEW n \in Linked(A, G), ~Dead(n),
           NEW x \in DOMAIN node \ {base_root}, <<x, FALSE>> \in A[n]
    PROVE  CurrentKey(x) < node[n].key /\ CurrentKey(x) \in Int
  <1>1. Order(A, G, Keys, CurrentKeys, DeadNodes) /\ DOMAIN A = DOMAIN node
    BY DEF HeapInv, TreeOK
  <1>2. n \in DOMAIN A /\ n \in DOMAIN node /\ n \notin DeadNodes
    BY <1>1 DEF Linked, DeadNodes
  <1>3. CurrentKeys[x] < Keys[n] /\ CurrentKeys[x] \in Int
    BY <1>1, <1>2 DEF Order
  <1> QED
    BY <1>2, <1>3 DEF CurrentKeys, Keys

LEMMA HelpsNobody ==
    ASSUME NEW A, NEW G, NEW m, NEW to \in CurrLabel
    PROVE  Helps(A, G, m, to)
  <1>1. to \notin ChildLabel \cup MarkLabel \cup RelocLabel
    BY DEF CurrLabel, FindLabel, OpLabel, ChildLabel, MarkLabel, RelocLabel
  <1> QED
    BY <1>1 DEF Helps, HelpsMarked, HelpsChildCAS, HelpsRelocate, ChildLabel, MarkLabel, RelocLabel

(* What a thread in find() has, by name. *)
LEMMA FindLocals ==
    ASSUME NEW t \in Thread, NEW A, NEW G, TreeNow(t, A, G), NEW l, l = loc[t]
    PROVE  /\ HeapInv(A, G) /\ Stands(l, pc[t]) /\ l \in LocalState
           /\ Room(A, l, pc[t]) /\ FirstFind(A, G, l, pc[t]) /\ SecondFind(A, l, pc[t])
           /\ OpsFind(A, G, l, pc[t]) /\ Helps(A, G, l, pc[t])
           /\ LocalOK(l, pc[t]) /\ l.work.key \in Int /\ l.auxRoot \in DOMAIN node
           /\ l.auxRoot_op.flag = "NONE" /\ l.pred_op.flag = "NONE" /\ l.curr_op.flag = "NONE"
           /\ pc[t] \in CurrLabel => l.curr \in DOMAIN node /\ l.curr_op \in Had(node, past, l.curr)
  BY StandsNow, StandsFacts DEF TreeNow, HeapNow, ThreadInv, Stands

LEMMA FindStartAdvanced ==
    ASSUME NEW t \in Thread, NEW A, NEW G, TreeNow(t, A, G), FindStart(t)
    PROVE  Advanced(t, A, G)
  <1>1. PICK l, o : l = loc[t] /\ o = node[l.auxRoot].op
    OBVIOUS
  <1>2. pc[t] = "find" /\ node' = node /\ cas' = cas /\ reloc' = reloc
    BY DEF FindStart, heap
  <1>3. Stepped(A, G, A, G)
    BY <1>2, QuietStepped DEF TreeNow
  <1>4. /\ HeapInv(A, G) /\ l \in LocalState /\ SecondFind(A, l, "find") /\ l.work.key \in Int
        /\ l.auxRoot \in DOMAIN node
    BY <1>1, <1>2, FindLocals
  <1>5. CASE GET_FLAG(o) = "NONE"
    <2>1. PICK m : m = [l EXCEPT !.curr = l.auxRoot, !.curr_op = o, !.result = "NOTFOUND_R"]
      OBVIOUS
    <2>2. /\ m.curr = l.auxRoot /\ m.curr_op = o /\ ~IsLeft(m) /\ m.auxRoot = l.auxRoot
          /\ m.auxRoot_op = l.auxRoot_op /\ m.work = l.work
      BY <1>4, <2>1 DEF LocalState, IsLeft
    <2>3. Upper(A, Keys, l.auxRoot, l.work.key)
      <3>1. A[base_root] = {}
        BY <1>4 DEF HeapInv, TreeOK, Shape, FromRoot
      <3> QED
        BY <1>4, <3>1 DEF SecondFind, Upper
    <2>4. NotAbove(m, l.auxRoot)
      BY <1>4, <2>2 DEF NotAbove, SecondFind
    <2>5. FirstFind(A, G, m, "find_next")
      BY <2>2, <2>3, <2>4 DEF FirstFind
    <2>6. SecondFind(A, m, "find_next")
      BY <1>4, <2>2 DEF SecondFind
    <2>7. Room(A, m, "find_next") /\ OpsFind(A, G, m, "find_next")
      BY <2>2 DEF Room, OpsFind, OpLabel
    <2>8. Helps(A, G, m, "find_next")
      BY HelpsNobody DEF CurrLabel, FindLabel
    <2>9. ThreadInv(A, G, m, "find_next")
      BY <2>5, <2>6, <2>7, <2>8 DEF ThreadInv
    <2>10. Goto(t, "find_next") /\ SetLocals(t, m)
      BY <1>1, <1>5, <2>1 DEF FindStart
    <2> QED
      BY <1>2, <2>9, <2>10, QuietAdvanced
  <1>6. CASE GET_FLAG(o) # "NONE" /\ HelpsRoot(l)
    <2>1. l.auxRoot = base_root /\ o.flag = "CHILDCAS" /\ o \in OpPtr
      BY <1>1, <1>4, <1>6, NodeType DEF HelpsRoot, GET_FLAG, TreeNow, HeapNow, Inv, PointersOK, HeapOK, BaseRootOp
    <2>2. o = Flagged("CHILDCAS", UNFLAG(o))
      BY <2>1 DEF OpPtr, Flagged, UNFLAG
    <2>3. Flagged("CHILDCAS", UNFLAG(o)) \in Had(node', past', l.auxRoot)
      BY <1>1, <1>2, <2>2 DEF Had
    <2>4. helpChildCAS(t, l, UNFLAG(o), l.auxRoot, "find")
      BY <1>1, <1>6 DEF FindStart
    <2>5. l \in LocalState /\ Continues(loc[t], l)
      BY <1>1, LocalsOf DEF TreeNow, HeapNow, Continues, SameRoot
    <2> QED
      BY <1>3, <2>3, <2>4, <2>5, helpChildCASAdvanced
  <1>7. CASE GET_FLAG(o) # "NONE" /\ ~HelpsRoot(l)
    BY <1>1, <1>3, <1>7, LoopAdvanced DEF FindStart, Abort
  <1> QED
    BY <1>5, <1>6, <1>7

LEMMA FindNextAdvanced ==
    ASSUME NEW t \in Thread, NEW A, NEW G, TreeNow(t, A, G), FindNext(t)
    PROVE  Advanced(t, A, G)
  <1>1. PICK l, child : l = loc[t] /\ child = ChildOf(node[l.curr], IsLeft(l))
    OBVIOUS
  <1>2. pc[t] = "find_next" /\ node' = node /\ cas' = cas /\ reloc' = reloc
    BY DEF FindNext, heap
  <1>3. "find_next" \in CurrLabel /\ IsLeft(l) \in BOOLEAN
    BY DEF CurrLabel, FindLabel, IsLeft
  <1>4. /\ HeapInv(A, G) /\ l \in LocalState /\ FirstFind(A, G, l, "find_next")
        /\ SecondFind(A, l, "find_next") /\ OpsFind(A, G, l, "find_next")
        /\ l.curr \in DOMAIN node /\ l.curr_op \in Had(node, past, l.curr)
        /\ l.curr_op.flag = "NONE"
    BY <1>1, <1>2, <1>3, FindLocals
  <1>5. PICK m, to :
           /\ m = IF IsLeft(l) THEN [l EXCEPT !.next = child]
                  ELSE [l EXCEPT !.next = child, !.last_right = l.curr, !.last_right_op = l.curr_op]
           /\ to = IF IS_NULL(child) THEN "find_last_right" ELSE "find_visit"
    OBVIOUS
  <1>6. Goto(t, to) /\ SetLocals(t, m)
    BY <1>1, <1>5 DEF FindNext, IsLeft
  <1>7. /\ m.curr = l.curr /\ m.curr_op = l.curr_op /\ IsLeft(m) = IsLeft(l) /\ m.auxRoot = l.auxRoot
        /\ m.auxRoot_op = l.auxRoot_op /\ m.work = l.work /\ m.next = child
        /\ m.pred = l.pred /\ m.pred_op = l.pred_op
        /\ IsLeft(l) => m.last_right = l.last_right /\ m.last_right_op = l.last_right_op
        /\ ~IsLeft(l) => m.last_right = l.curr /\ m.last_right_op = l.curr_op
    <2>1. CASE IsLeft(l)
      <3>1. m = [l EXCEPT !.next = child]
        BY <1>5, <2>1
      <3> QED
        BY <1>4, <2>1, <3>1 DEF LocalState, IsLeft
    <2>2. CASE ~IsLeft(l)
      <3>1. m = [l EXCEPT !.next = child, !.last_right = l.curr, !.last_right_op = l.curr_op]
        BY <1>5, <2>2
      <3> QED
        BY <1>4, <2>2, <3>1 DEF LocalState, IsLeft
    <2> QED
      BY <2>1, <2>2
  <1>8. to \in {"find_last_right", "find_visit"} /\ to \in CurrLabel
    BY <1>5 DEF CurrLabel, FindLabel
  <1>9. FirstFind(A, G, m, to)
    <2>1. Upper(A, Keys, m.curr, m.work.key) /\ (IsLeft(m) => m.curr # base_root /\ m.work.key < node[m.curr].key)
      BY <1>4, <1>7 DEF FirstFind, FindLabel
    <2>4. /\ m.last_right_op \in Had(node, past, m.last_right)
          /\ m.last_right_op.flag = "NONE" /\ Chain(A, m.last_right, m.curr)
          /\ Is(m.last_right, m.last_right_op) => NotAbove(m, m.last_right)
      <3>1. CASE IsLeft(l)
        <4>1. /\ l.last_right_op \in Had(node, past, l.last_right)
              /\ l.last_right_op.flag = "NONE" /\ Chain(A, l.last_right, l.curr)
              /\ Is(l.last_right, l.last_right_op) => NotAbove(l, l.last_right)
          BY <1>4, <3>1 DEF FirstFind
        <4> QED
          BY <1>7, <3>1, <4>1 DEF NotAbove
      <3>2. CASE ~IsLeft(l)
        <4>1. Is(l.curr, l.curr_op) => NotAbove(l, l.curr)
          BY <1>4, <3>2 DEF FirstFind
        <4>2. Chain(A, l.curr, l.curr)
          BY DEF Chain
        <4> QED
          BY <1>4, <1>7, <3>2, <4>1, <4>2 DEF NotAbove
      <3> QED
        BY <3>1, <3>2
    <2>5. to = "find_visit" =>
             /\ Hangs(A, G, m.curr, IsLeft(m), m.next.node)
             /\ m.next.node \in G => ~Is(m.curr, m.curr_op)
      BY <1>1, <1>3, <1>4, <1>5, <1>7, ChildFound DEF Is
    <2>6. to = "find_last_right" => IS_NULL(ChildOf(node[m.curr], IsLeft(m)))
      BY <1>1, <1>5, <1>7
    <2> QED
      BY <1>7, <1>8, <2>1, <2>4, <2>5, <2>6 DEF FirstFind
  <1>10. SecondFind(A, m, to)
    <2> SUFFICES ASSUME l.auxRoot # base_root PROVE SecondFind(A, m, to)
      BY <1>7 DEF SecondFind
    <2>1. /\ l.work.op = "DELETE" /\ Upper(A, Keys, l.auxRoot, l.work.key)
          /\ Is(l.auxRoot, l.auxRoot_op) =>
               /\ node[l.auxRoot].key = l.work.key /\ ~IS_NULL(node[l.auxRoot].right)
               /\ \/ l.curr = l.auxRoot /\ ~IsLeft(l)
                  \/ /\ l.curr # l.auxRoot /\ After(A, l.auxRoot, l.curr)
                     /\ l.work.key < node[l.curr].key /\ IsLeft(l)
      BY <1>4 DEF SecondFind, FindLabel
    <2>2. l.curr = l.auxRoot /\ ~IsLeft(l) /\ Is(l.auxRoot, l.auxRoot_op) => to = "find_visit"
      BY <1>1, <1>5, <2>1 DEF ChildOf
    <2> QED
      BY <1>7, <1>8, <2>1, <2>2 DEF SecondFind
  <1>11. Room(A, m, to) /\ OpsFind(A, G, m, to)
    <2>1. m.curr # m.auxRoot => Pair(A, G, m.pred, m.pred_op, m.curr)
      BY <1>4, <1>7 DEF OpsFind, FindLabel
    <2> QED
      BY <1>8, <2>1 DEF Room, OpsFind, OpLabel
  <1>12. ThreadInv(A, G, m, to)
    BY <1>8, <1>9, <1>10, <1>11, HelpsNobody DEF ThreadInv
  <1> QED
    BY <1>2, <1>6, <1>12, QuietAdvanced

(* find() steps to a child that it has found. *)
LEMMA StepDown ==
    ASSUME NEW A, NEW G, HeapInv(A, G), NEW l, NEW c \in DOMAIN node, l.curr \in DOMAIN node,
           l.work.key \in Int, FirstFind(A, G, l, "find_visit"), SecondFind(A, l, "find_visit"),
           Hangs(A, G, l.curr, IsLeft(l), c), node[c].op.flag = "NONE", l.auxRoot \in DOMAIN node,
           l.auxRoot_op.flag = "NONE"
    PROVE  /\ Upper(A, Keys, c, l.work.key) /\ Chain(A, l.last_right, c)
           /\ l.auxRoot # base_root /\ Is(l.auxRoot, l.auxRoot_op) =>
                c # l.auxRoot /\ After(A, l.auxRoot, c) /\ l.work.key < node[c].key
  <1>1. DOMAIN A = DOMAIN node /\ Ancestors(A, G)
    BY DEF HeapInv, TreeOK, Shape
  <1>2. A[c] \subseteq A[l.curr] \cup {<<l.curr, IsLeft(l)>>}
    BY DEF Hangs
  <1>3. Upper(A, Keys, l.curr, l.work.key) /\ (IsLeft(l) => l.work.key < node[l.curr].key)
    BY DEF FirstFind, FindLabel
  <1>4. Keys[l.curr] = node[l.curr].key
    BY DEF Keys
  <1>5. Upper(A, Keys, c, l.work.key)
    BY <1>2, <1>3, <1>4 DEF Upper
  <1>6. Chain(A, l.last_right, l.curr) /\ (~IsLeft(l) => l.last_right = l.curr)
    BY DEF FirstFind
  <1>7. \A x : <<x, FALSE>> \in A[c] => <<x, FALSE>> \in A[l.curr] \/ (x = l.curr /\ ~IsLeft(l))
    BY <1>2
  <1>8. Chain(A, l.last_right, c)
    BY <1>6, <1>7 DEF Chain
  <1>9. ASSUME l.auxRoot # base_root, Is(l.auxRoot, l.auxRoot_op)
        PROVE  c # l.auxRoot /\ After(A, l.auxRoot, c) /\ l.work.key < node[c].key
    <2> DEFINE r == l.auxRoot
    <2>1. /\ node[r].key = l.work.key
          /\ \/ l.curr = r /\ ~IsLeft(l)
             \/ l.curr # r /\ After(A, r, l.curr) /\ IsLeft(l)
      BY <1>9 DEF SecondFind, FindLabel
    <2>2. node[r].op.flag = "NONE"
      BY <1>9 DEF Is
    <2>3. r \notin G /\ CurrentKey(r) = node[r].key /\ c \in Linked(A, G) /\ ~Dead(c)
      BY <2>2, Unflagged DEF Linked
    <2>4. <<r, FALSE>> \in A[c]
      <3>1. CASE l.curr = r /\ ~IsLeft(l)
        <4>1. IsLeft(l) = FALSE
          BY <3>1 DEF IsLeft
        <4>2. A[c] = A[r] \cup {<<r, FALSE>>}
          BY <2>3, <3>1, <4>1 DEF Hangs
        <4> QED
          BY <4>2
      <3>2. CASE After(A, r, l.curr)
        BY <3>2 DEF After, Hangs
      <3> QED
        BY <2>1, <3>1, <3>2
    <2>5. Chain(A, r, c)
      <3>1. CASE l.curr = r /\ ~IsLeft(l)
        BY <1>7, <3>1 DEF Chain
      <3>2. CASE After(A, r, l.curr) /\ IsLeft(l)
        BY <1>7, <3>2 DEF After, Chain
      <3> QED
        BY <2>1, <3>1, <3>2
    <2>6. c # r
      BY <1>1, <2>4, AboveOne
    <2>7. l.work.key < node[c].key
      BY <1>9, <2>1, <2>3, <2>4, KeysInOrder
    <2> QED
      BY <2>4, <2>5, <2>6, <2>7 DEF After
  <1> QED
    BY <1>5, <1>8, <1>9

LEMMA FindVisitAdvanced ==
    ASSUME NEW t \in Thread, NEW A, NEW G, TreeNow(t, A, G), FindVisit(t)
    PROVE  Advanced(t, A, G)
  <1>1. PICK l, c, o : l = loc[t] /\ c = l.next.node /\ o = node[c].op
    OBVIOUS
  <1>2. pc[t] = "find_visit" /\ node' = node /\ cas' = cas /\ reloc' = reloc
    BY DEF FindVisit, heap
  <1>3. Stepped(A, G, A, G)
    BY <1>2, QuietStepped DEF TreeNow
  <1>4. /\ HeapInv(A, G) /\ l \in LocalState /\ FirstFind(A, G, l, "find_visit")
        /\ SecondFind(A, l, "find_visit") /\ OpsFind(A, G, l, "find_visit")
        /\ l.curr \in DOMAIN node /\ l.curr_op \in Had(node, past, l.curr)
        /\ l.curr_op.flag = "NONE" /\ l.auxRoot_op.flag = "NONE" /\ LocalOK(l, "find_visit")
        /\ l.work.key \in Int /\ l.auxRoot \in DOMAIN node
    <2>1. "find_visit" \in CurrLabel
      BY DEF CurrLabel, FindLabel
    <2> QED
      BY <1>1, <1>2, <2>1, FindLocals
  <1>5. c \in DOMAIN node /\ o \in OpPtr
    BY <1>1, <1>4, NodeType DEF LocalOK, RefOK, Node, TreeNow, HeapNow
  <1>6. /\ Hangs(A, G, l.curr, IsLeft(l), c) /\ (c \in G => ~Is(l.curr, l.curr_op))
        /\ IsLeft(l) \in BOOLEAN
    BY <1>1, <1>4 DEF FirstFind, IsLeft
  <1>7. Pair(A, G, l.curr, l.curr_op, c)
    BY <1>4, <1>6 DEF Pair
  <1>8. past' = past
    BY <1>2, SameOpsHistory DEF TreeNow, HeapNow, StepsSoundly, Recorded, OpsInv, HeapOps, SameOps
  <1>9. Pair(A, G, l.curr, l.curr_op, c)'
    BY <1>3, <1>4, <1>5, <1>7, PairLater DEF Stepped
  <1>10. Continues(loc[t], l)
    BY <1>1 DEF Continues, SameRoot
  <1>11. CASE GET_FLAG(o) = "NONE"
    <2>1. PICK m : m = [l EXCEPT !.pred = l.curr, !.pred_op = l.curr_op, !.curr = c, !.curr_op = o,
                                 !.next = SET_NULL(NoNode)]
      OBVIOUS
    <2>2. /\ m.curr = c /\ m.curr_op = o /\ m.pred = l.curr /\ m.pred_op = l.curr_op
          /\ m.auxRoot = l.auxRoot /\ m.auxRoot_op = l.auxRoot_op /\ m.work = l.work
          /\ m.last_right = l.last_right /\ m.last_right_op = l.last_right_op
      BY <1>4, <2>1 DEF LocalState
    <2>3. /\ Upper(A, Keys, c, l.work.key) /\ Chain(A, l.last_right, c)
          /\ l.auxRoot # base_root /\ Is(l.auxRoot, l.auxRoot_op) =>
                c # l.auxRoot /\ After(A, l.auxRoot, c) /\ l.work.key < node[c].key
      BY <1>1, <1>4, <1>5, <1>6, <1>11, StepDown DEF GET_FLAG
    <2>4. FirstFind(A, G, m, "find_key")
      <3>1. /\ l.last_right_op \in Had(node, past, l.last_right)
            /\ l.last_right_op.flag = "NONE"
            /\ Is(l.last_right, l.last_right_op) => NotAbove(l, l.last_right)
        BY <1>4 DEF FirstFind
      <3> QED
        BY <2>2, <2>3, <3>1 DEF FirstFind, NotAbove
    <2>5. SecondFind(A, m, "find_key")
      BY <1>4, <2>2, <2>3 DEF SecondFind
    <2>6. Room(A, m, "find_key") /\ OpsFind(A, G, m, "find_key")
      BY <1>7, <2>2 DEF Room, OpsFind, OpLabel
    <2>7. ThreadInv(A, G, m, "find_key")
      BY <2>4, <2>5, <2>6, HelpsNobody DEF ThreadInv, CurrLabel, FindLabel
    <2>8. Goto(t, "find_key") /\ SetLocals(t, m)
      BY <1>1, <1>11, <2>1 DEF FindVisit
    <2> QED
      BY <1>2, <2>7, <2>8, QuietAdvanced
  <1>12. CASE GET_FLAG(o) = "CHILDCAS"
    <2>1. o = Flagged("CHILDCAS", UNFLAG(o))
      BY <1>5, <1>12 DEF OpPtr, Flagged, UNFLAG, GET_FLAG
    <2>2. Flagged("CHILDCAS", UNFLAG(o)) \in Had(node', past', c)
      BY <1>1, <1>2, <2>1 DEF Had
    <2>3. helpChildCAS(t, Descended(l), UNFLAG(o), c, "find")
      BY <1>1, <1>12 DEF FindVisit
    <2>4. Descended(l) \in LocalState /\ Continues(loc[t], Descended(l))
      BY <1>1, <1>4, DescendedType DEF Continues, SameRoot
    <2> QED
      BY <1>3, <2>2, <2>3, <2>4, helpChildCASAdvanced
  <1>13. CASE GET_FLAG(o) = "RELOCATE"
    <2>1. o = ToDest(UNFLAG(o))
      BY <1>5, <1>13 DEF OpPtr, Flagged, ToDest, UNFLAG, GET_FLAG
    <2>2. ToDest(UNFLAG(o)) \in Had(node', past', c)
      BY <1>1, <1>2, <2>1 DEF Had
    <2>3. c \notin G
      BY <1>1, <1>4, <1>13 DEF HeapInv, TreeOK, Has, GET_FLAG
    <2>4. RelocPair(A, G, UNFLAG(o), l.curr, l.curr_op, c)'
      BY <1>9, <2>2, <2>3 DEF RelocPair
    <2>5. helpRelocate(t, l, UNFLAG(o), l.curr, l.curr_op, c, "find")
      BY <1>1, <1>13 DEF FindVisit
    <2> QED
      BY <1>3, <1>4, <1>10, <2>4, <2>5, helpRelocateAdvanced
  <1>14. CASE GET_FLAG(o) = "MARK"
    <2>1. Has(c, "MARK")'
      BY <1>1, <1>2, <1>14 DEF Has
    <2>2. helpMarked(t, l, l.curr, l.curr_op, c, "find")
      BY <1>1, <1>14 DEF FindVisit
    <2> QED
      BY <1>3, <1>4, <1>9, <1>10, <2>1, <2>2, helpMarkedAdvanced
  <1> QED
    BY <1>5, <1>11, <1>12, <1>13, <1>14 DEF OpPtr, Flag, GET_FLAG

LEMMA FindKeyAdvanced ==
    ASSUME NEW t \in Thread, NEW A, NEW G, TreeNow(t, A, G), FindKey(t)
    PROVE  Advanced(t, A, G)
  <1>1. PICK l : l = loc[t]
    OBVIOUS
  <1>2. pc[t] = "find_key" /\ node' = node /\ cas' = cas /\ reloc' = reloc
    BY DEF FindKey, heap
  <1>3. /\ HeapInv(A, G) /\ l \in LocalState /\ FirstFind(A, G, l, "find_key")
        /\ SecondFind(A, l, "find_key") /\ OpsFind(A, G, l, "find_key")
        /\ l.curr \in DOMAIN node /\ LocalOK(l, "find_key") /\ l.work.key \in Int
    <2>1. "find_key" \in CurrLabel
      BY DEF CurrLabel, FindLabel
    <2> QED
      BY <1>1, <1>2, <2>1, FindLocals
  <1>4. l.curr # base_root /\ node[l.curr].key \in Int
    BY <1>3, NodeType DEF LocalOK, Node, TreeNow, HeapNow
  <1>5. PICK k : k = node[l.curr].key
    OBVIOUS
  <1>6. PICK res, m, to :
           /\ res = IF l.work.key < k THEN "NOTFOUND_L"
                    ELSE IF l.work.key > k THEN "NOTFOUND_R" ELSE "FOUND"
           /\ m = [l EXCEPT !.result = res]
           /\ to = IF res = "FOUND" THEN "find_curr" ELSE "find_next"
    OBVIOUS
  <1>7. Goto(t, to) /\ SetLocals(t, m)
    BY <1>1, <1>5, <1>6 DEF FindKey
  <1>8. /\ m.curr = l.curr /\ m.curr_op = l.curr_op /\ m.result = res /\ m.auxRoot = l.auxRoot
        /\ m.auxRoot_op = l.auxRoot_op /\ m.work = l.work
        /\ m.pred = l.pred /\ m.pred_op = l.pred_op
        /\ m.last_right = l.last_right /\ m.last_right_op = l.last_right_op
    BY <1>3, <1>6 DEF LocalState
  <1>9. /\ res = "NOTFOUND_L" => l.work.key < node[l.curr].key /\ to = "find_next"
        /\ res = "NOTFOUND_R" => node[l.curr].key < l.work.key /\ to = "find_next"
        /\ res = "FOUND" => node[l.curr].key = l.work.key /\ to = "find_curr"
        /\ res \in {"NOTFOUND_L", "NOTFOUND_R", "FOUND"} /\ to \in CurrLabel
    BY <1>3, <1>4, <1>5, <1>6 DEF CurrLabel, FindLabel
  <1>10. IsLeft(m) <=> res = "NOTFOUND_L"
    BY <1>8 DEF IsLeft
  <1>11. FirstFind(A, G, m, to)
    <2>1. /\ Upper(A, Keys, l.curr, l.work.key)
          /\ l.last_right_op \in Had(node, past, l.last_right)
          /\ l.last_right_op.flag = "NONE" /\ Chain(A, l.last_right, l.curr)
          /\ Is(l.last_right, l.last_right_op) => NotAbove(l, l.last_right)
      BY <1>3 DEF FirstFind, FindLabel
    <2>2. Is(m.last_right, m.last_right_op) => NotAbove(m, m.last_right)
      BY <1>8, <2>1 DEF NotAbove
    <2>3. res = "NOTFOUND_R" => NotAbove(m, m.curr)
      BY <1>8, <1>9 DEF NotAbove
    <2>4. CASE res = "NOTFOUND_L"
      BY <1>4, <1>8, <1>9, <1>10, <2>1, <2>2, <2>4 DEF FirstFind
    <2>5. CASE res = "NOTFOUND_R"
      BY <1>8, <1>9, <1>10, <2>1, <2>3, <2>5 DEF FirstFind
    <2>6. CASE res = "FOUND"
      BY <1>8, <1>9, <1>10, <2>1, <2>6 DEF FirstFind
    <2> QED
      BY <1>9, <2>4, <2>5, <2>6
  <1>12. SecondFind(A, m, to)
    <2> SUFFICES ASSUME l.auxRoot # base_root PROVE SecondFind(A, m, to)
      BY <1>8 DEF SecondFind
    <2>1. /\ l.work.op = "DELETE" /\ Upper(A, Keys, l.auxRoot, l.work.key)
          /\ Is(l.auxRoot, l.auxRoot_op) =>
               /\ node[l.auxRoot].key = l.work.key /\ ~IS_NULL(node[l.auxRoot].right)
               /\ l.curr # l.auxRoot /\ After(A, l.auxRoot, l.curr)
               /\ l.work.key < node[l.curr].key
      BY <1>3 DEF SecondFind, FindLabel
    <2>2. Is(l.auxRoot, l.auxRoot_op) => res = "NOTFOUND_L" /\ to = "find_next"
      BY <1>3, <1>4, <1>9, <2>1
    <2>3. to \in {"find_next", "find_curr"}
      BY <1>9
    <2> QED
      BY <1>8, <1>10, <2>1, <2>2, <2>3 DEF SecondFind
  <1>13. Room(A, m, to) /\ OpsFind(A, G, m, to)
    <2>1. m.curr # m.auxRoot => Pair(A, G, m.pred, m.pred_op, m.curr)
      BY <1>3, <1>8 DEF OpsFind, FindLabel
    <2> QED
      BY <1>8, <1>9, <2>1 DEF Room, OpsFind, OpLabel
  <1>14. ThreadInv(A, G, m, to)
    BY <1>9, <1>11, <1>12, <1>13, HelpsNobody DEF ThreadInv
  <1> QED
    BY <1>2, <1>7, <1>14, QuietAdvanced

(* The key that find() looks for is absent if neither the node where it    *)
(* ends nor the last one where it went right has changed.                  *)
LEMMA RoomFound ==
    ASSUME NEW A, NEW G, HeapInv(A, G), NEW l, l.curr \in DOMAIN node, l.work.key \in Int,
           \A n \in DOMAIN node : node[n].key \in Int,
           FirstFind(A, G, l, "find_last_right"), l.auxRoot = base_root,
           l.last_right \in DOMAIN node, Is(l.curr, l.curr_op), Is(l.last_right, l.last_right_op)
    PROVE  Vacant(A, l.curr, IsLeft(l), l.work.key)
  <1> DEFINE k == l.work.key
             r == l.last_right
  <1>1. /\ IS_NULL(ChildOf(node[l.curr], IsLeft(l))) /\ l.last_right_op.flag = "NONE"
        /\ Chain(A, r, l.curr) /\ NotAbove(l, r)
        /\ IsLeft(l) => l.curr # base_root /\ k < node[l.curr].key
        /\ ~IsLeft(l) => r = l.curr
    BY DEF FirstFind
  <1>2. r = base_root \/ node[r].key < k
    BY <1>1 DEF NotAbove
  <1>3. r \in Linked(A, G) /\ ~Dead(r) /\ CurrentKey(r) = node[r].key
    BY <1>1, Unflagged DEF Is
  <1>4. ASSUME NEW x \in DOMAIN A \ {base_root}, <<x, FALSE>> \in A[l.curr]
        PROVE  CurrentKeys[x] < k
    <2>1. x \in DOMAIN node /\ A[base_root] = {}
      BY <1>4 DEF HeapInv, TreeOK, Shape, FromRoot
    <2>2. CurrentKeys[x] = CurrentKey(x)
      BY <2>1 DEF CurrentKeys
    <2>3. CASE x = r
      BY <1>2, <1>3, <1>4, <2>2, <2>3
    <2>4. CASE x # r
      <3>1. <<x, FALSE>> \in A[r]
        BY <1>1, <1>4, <2>4 DEF Chain
      <3>2. r # base_root /\ node[r].key < k /\ node[r].key \in Int
        BY <1>2, <2>1, <3>1
      <3>3. CurrentKey(x) < node[r].key /\ CurrentKey(x) \in Int
        BY <1>3, <1>4, <2>1, <3>1, KeysInOrder
      <3> QED
        BY <2>2, <3>2, <3>3
    <2> QED
      BY <2>3, <2>4
  <1>5. Lower(A, CurrentKeys, l.curr, k)
    BY <1>4 DEF Lower
  <1>6. ~IsLeft(l) => l.curr = base_root \/ node[l.curr].key < k
    BY <1>1, <1>2
  <1> QED
    BY <1>1, <1>5, <1>6 DEF Vacant

LEMMA FindLastRightAdvanced ==
    ASSUME NEW t \in Thread, NEW A, NEW G, TreeNow(t, A, G), FindLastRight(t)
    PROVE  Advanced(t, A, G)
  <1>1. PICK l : l = loc[t]
    OBVIOUS
  <1>2. pc[t] = "find_last_right" /\ node' = node /\ cas' = cas /\ reloc' = reloc
    BY DEF FindLastRight, heap
  <1>3. CASE LastRightChanged(l)
    <2>1. Stepped(A, G, A, G)
      BY <1>2, QuietStepped DEF TreeNow
    <2> QED
      BY <1>1, <1>3, <2>1, RetryFindAdvanced DEF FindLastRight
  <1>4. CASE ~LastRightChanged(l)
    <2>1. /\ HeapInv(A, G) /\ l \in LocalState /\ FirstFind(A, G, l, "find_last_right")
          /\ SecondFind(A, l, "find_last_right") /\ OpsFind(A, G, l, "find_last_right")
          /\ l.curr \in DOMAIN node /\ LocalOK(l, "find_last_right") /\ l.work.key \in Int
      <3>1. "find_last_right" \in CurrLabel
        BY DEF CurrLabel, FindLabel
      <3> QED
        BY <1>1, <1>2, <3>1, FindLocals
    <2>2. Is(l.last_right, l.last_right_op) /\ l.last_right \in DOMAIN node /\ l.result # "FOUND"
      BY <1>4, <2>1 DEF LastRightChanged, Is, LocalOK
    <2>3. Room(A, l, "find_curr")
      <3>1. \A n \in DOMAIN node : node[n].key \in Int
        BY NodeType DEF TreeNow, HeapNow
      <3>2. l.auxRoot = base_root /\ Is(l.curr, l.curr_op) => Vacant(A, l.curr, IsLeft(l), l.work.key)
        BY <2>1, <2>2, <3>1, RoomFound
      <3> QED
        BY <3>2 DEF Room
    <2>4. FirstFind(A, G, l, "find_curr")
      BY <2>1, <2>2 DEF FirstFind, FindLabel
    <2>5. SecondFind(A, l, "find_curr")
      <3> SUFFICES ASSUME l.auxRoot # base_root PROVE SecondFind(A, l, "find_curr")
        BY DEF SecondFind
      <3>1. /\ l.work.op = "DELETE" /\ Upper(A, Keys, l.auxRoot, l.work.key)
            /\ Is(l.auxRoot, l.auxRoot_op) =>
                 /\ node[l.auxRoot].key = l.work.key /\ ~IS_NULL(node[l.auxRoot].right)
                 /\ l.curr # l.auxRoot /\ After(A, l.auxRoot, l.curr)
                 /\ l.work.key < node[l.curr].key /\ IsLeft(l)
        BY <2>1 DEF SecondFind, FindLabel
      <3>2. Is(l.curr, l.curr_op) => IS_NULL(ChildOf(node[l.curr], IsLeft(l)))
        BY <2>1 DEF FirstFind
      <3>3. Is(l.curr, l.curr_op) /\ Is(l.auxRoot, l.auxRoot_op) => IS_NULL(node[l.curr].left)
        BY <3>1, <3>2 DEF ChildOf
      <3> QED
        BY <3>1, <3>3 DEF SecondFind
    <2>6. OpsFind(A, G, l, "find_curr")
      BY <2>1 DEF OpsFind, FindLabel, OpLabel
    <2>7. ThreadInv(A, G, l, "find_curr")
      BY <2>3, <2>4, <2>5, <2>6, HelpsNobody DEF ThreadInv, CurrLabel, FindLabel
    <2>8. Goto(t, "find_curr") /\ SetLocals(t, l)
      <3>1. loc \in [Thread -> LocalState] /\ loc' = loc /\ Goto(t, "find_curr")
        BY <1>1, <1>4 DEF FindLastRight, TreeNow, HeapNow, Inv, TypeOK
      <3> QED
        BY <1>1, <3>1 DEF SetLocals
    <2> QED
      BY <1>2, <2>7, <2>8, QuietAdvanced
  <1> QED
    BY <1>3, <1>4

LEMMA FindCurrAdvanced ==
    ASSUME NEW t \in Thread, NEW A, NEW G, TreeNow(t, A, G), FindCurr(t)
    PROVE  Advanced(t, A, G)
  <1>1. PICK l : l = loc[t]
    OBVIOUS
  <1>2. pc[t] = "find_curr" /\ node' = node /\ cas' = cas /\ reloc' = reloc
    BY DEF FindCurr, heap
  <1>3. Stepped(A, G, A, G)
    BY <1>2, QuietStepped DEF TreeNow
  <1>4. CASE CurrChanged(l)
    BY <1>1, <1>3, <1>4, RetryFindAdvanced DEF FindCurr
  <1>5. ASSUME ~CurrChanged(l), NEW b \in BOOLEAN, Answer(t, b) PROVE Advanced(t, A, G)
    BY <1>3, <1>5, AnswerAdvanced
  <1>6. ASSUME ~CurrChanged(l), NEW to, Goto(t, to), SetLocals(t, FoundLocals(l)),
               \/ to = "add_old" /\ l.work.op = "INSERT" /\ l.result # "FOUND"
               \/ to = "rem_recheck" /\ l.work.op = "DELETE" /\ l.auxRoot # base_root
               \/ to = "rem_right" /\ l.work.op = "DELETE" /\ l.auxRoot = base_root
                     /\ l.result = "FOUND"
        PROVE  Advanced(t, A, G)
    <2>1. /\ HeapInv(A, G) /\ l \in LocalState /\ FirstFind(A, G, l, "find_curr")
          /\ SecondFind(A, l, "find_curr") /\ OpsFind(A, G, l, "find_curr")
          /\ Room(A, l, "find_curr")
          /\ l.curr \in DOMAIN node /\ LocalOK(l, "find_curr") /\ l.work.key \in Int
      <3>1. "find_curr" \in CurrLabel
        BY DEF CurrLabel, FindLabel
      <3> QED
        BY <1>1, <1>2, <3>1, FindLocals
    <2>2. PICK m : m = FoundLocals(l)
      OBVIOUS
    <2>3. /\ m.pred = l.pred /\ m.pred_op = l.pred_op /\ m.curr = l.curr
          /\ m.curr_op = l.curr_op /\ m.result = l.result /\ m.auxRoot = l.auxRoot
          /\ m.work = l.work /\ (l.auxRoot # base_root => m.auxRoot_op = l.auxRoot_op)
      <3>1. /\ m.pred = l.pred /\ m.pred_op = l.pred_op /\ m.curr = l.curr
            /\ m.curr_op = l.curr_op /\ m.result = l.result
            /\ m.auxRoot = FindCall(l).auxRoot /\ m.auxRoot_op = FindCall(l).auxRoot_op
        BY <2>1, <2>2, FoundFields
      <3>2. /\ FindCall(l) \in LocalState /\ FindCall(l).work = l.work
            /\ FindCall(l).auxRoot = l.auxRoot /\ Continues(l, FindCall(l))
        BY <2>1, FindCallContinues, FindCallType
      <3>3. m.work = FindCall(l).work
        BY <2>2, <3>2 DEF FoundLocals, LocalState
      <3> QED
        BY <3>1, <3>2, <3>3 DEF Continues, SameRoot
    <2>4. Is(l.curr, l.curr_op) /\ to \in CurrLabel /\ (IsLeft(m) <=> IsLeft(l))
      BY <1>6, <2>3 DEF CurrChanged, Is, CurrLabel, OpLabel, IsLeft
    <2>5. l.auxRoot # base_root => l.work.op = "DELETE"
      BY <2>1 DEF SecondFind
    <2>6. Upper(A, Keys, l.curr, l.work.key)
      BY <2>1 DEF FirstFind, FindLabel
    <2>7. l.curr # l.auxRoot => Pair(A, G, l.pred, l.pred_op, l.curr)
      BY <2>1 DEF OpsFind, FindLabel
    <2>8. CASE to = "add_old" /\ l.work.op = "INSERT" /\ l.result # "FOUND"
      <3>1. l.auxRoot = base_root
        BY <2>5, <2>8
      <3>2. Vacant(A, l.curr, IsLeft(l), l.work.key) /\ IsLeft(m) = IsLeft(l)
        BY <2>1, <2>3, <2>4, <2>8, <3>1 DEF Room, IsLeft
      <3>3. Room(A, m, to) /\ FirstFind(A, G, m, to) /\ SecondFind(A, m, to)
        BY <2>3, <2>6, <2>8, <3>1, <3>2 DEF Room, FirstFind, SecondFind
      <3>4. OpsFind(A, G, m, to)
        BY <2>3, <2>8, <3>1 DEF OpsFind, FindLabel
      <3> QED
        BY <1>2, <1>6, <2>2, <2>4, <3>3, <3>4, HelpsNobody, QuietAdvanced DEF ThreadInv
    <2>9. CASE to = "rem_recheck" /\ l.work.op = "DELETE" /\ l.auxRoot # base_root
      <3>1. Room(A, m, to) /\ FirstFind(A, G, m, to)
        BY <2>9 DEF Room, FirstFind, FindLabel
      <3>2. SecondFind(A, m, to)
        <4>1. /\ l.work.op = "DELETE" /\ Upper(A, Keys, l.auxRoot, l.work.key)
              /\ Is(l.auxRoot, l.auxRoot_op) =>
                   /\ node[l.auxRoot].key = l.work.key /\ ~IS_NULL(node[l.auxRoot].right)
                   /\ l.curr # l.auxRoot /\ After(A, l.auxRoot, l.curr)
                   /\ l.work.key < node[l.curr].key /\ IsLeft(l)
                   /\ IS_NULL(node[l.curr].left)
          BY <2>1, <2>4, <2>9 DEF SecondFind, FindLabel
        <4> QED
          BY <2>3, <2>4, <2>9, <4>1 DEF SecondFind
      <3>3. OpsFind(A, G, m, to)
        BY <2>3, <2>7, <2>9 DEF OpsFind
      <3> QED
        BY <1>2, <1>6, <2>2, <2>4, <3>1, <3>2, <3>3, HelpsNobody, QuietAdvanced DEF ThreadInv
    <2>10. CASE to = "rem_right" /\ l.work.op = "DELETE" /\ l.auxRoot = base_root
                   /\ l.result = "FOUND"
      <3>1. node[l.curr].key = l.work.key
        BY <2>1, <2>4, <2>10 DEF FirstFind
      <3>2. Room(A, m, to) /\ FirstFind(A, G, m, to) /\ SecondFind(A, m, to)
        BY <2>3, <2>6, <2>10 DEF Room, FirstFind, SecondFind
      <3>3. OpsFind(A, G, m, to)
        BY <2>3, <2>7, <2>10, <3>1 DEF OpsFind
      <3> QED
        BY <1>2, <1>6, <2>2, <2>4, <3>2, <3>3, HelpsNobody, QuietAdvanced DEF ThreadInv
    <2> QED
      BY <1>6, <2>8, <2>9, <2>10
  <1>7. l.work \in Work
    BY <1>1, LocalsOf, WorkType DEF TreeNow, HeapNow
  <1>8. ~CurrChanged(l) => FindReturn(t)
    BY <1>1 DEF FindCurr
  <1>9. CASE ~CurrChanged(l) /\ l.work.op = "SEARCH"
    <2>1. PICK b \in BOOLEAN : b = (l.result = "FOUND")
      OBVIOUS
    <2> QED
      BY <1>1, <1>5, <1>8, <1>9, <2>1 DEF FindReturn
  <1>10. CASE ~CurrChanged(l) /\ l.work.op = "INSERT"
    BY <1>1, <1>5, <1>6, <1>8, <1>10 DEF FindReturn, FoundLocals
  <1>11. CASE ~CurrChanged(l) /\ l.work.op = "DELETE"
    BY <1>1, <1>5, <1>6, <1>8, <1>11 DEF FindReturn, FoundLocals
  <1> QED
    BY <1>4, <1>7, <1>9, <1>10, <1>11 DEF Work

-----------------------------------------------------------------------------
(***************************************************************************)
(* add()                                                                   *)
(***************************************************************************)
LEMMA AddReadOldAdvanced ==
    ASSUME NEW t \in Thread, NEW A, NEW G, TreeNow(t, A, G), AddReadOld(t)
    PROVE  Advanced(t, A, G)
  <1>1. PICK l, s : l = loc[t] /\ s = IsLeft(l)
    OBVIOUS
  <1>2. pc[t] = "add_old" /\ node' = node /\ cas' = cas /\ reloc' = reloc
    BY DEF AddReadOld, heap
  <1>3. /\ l \in LocalState /\ FirstFind(A, G, l, "add_old") /\ OpsFind(A, G, l, "add_old")
        /\ Room(A, l, "add_old")
    BY <1>1, <1>2, FindLocals
  <1>4. PICK m : m = [Locals(l.work) EXCEPT !.curr = l.curr, !.curr_op = l.curr_op,
                           !.is_left = s, !.old = ChildOf(node[l.curr], s)]
    OBVIOUS
  <1>5. Goto(t, "add_cas") /\ SetLocals(t, m)
    BY <1>1, <1>4 DEF AddReadOld, IsLeft
  <1>6. /\ m.curr = l.curr /\ m.curr_op = l.curr_op /\ m.is_left = s
        /\ m.old = ChildOf(node[l.curr], s) /\ m.auxRoot = base_root /\ m.work = l.work
    BY <1>4 DEF Locals
  <1>7. Room(A, m, "add_cas") /\ SecondFind(A, m, "add_cas")
    BY <1>1, <1>3, <1>6 DEF Room, SecondFind
  <1>8. FirstFind(A, G, m, "add_cas")
    BY <1>3, <1>6 DEF FirstFind, FindLabel
  <1>9. OpsFind(A, G, m, "add_cas")
    BY <1>3, <1>6 DEF OpsFind, FindLabel
  <1>10. ThreadInv(A, G, m, "add_cas")
    BY <1>7, <1>8, <1>9, HelpsNobody DEF ThreadInv, CurrLabel, OpLabel
  <1> QED
    BY <1>2, <1>5, <1>10, QuietAdvanced

LEMMA AddPublishAdvanced ==
    ASSUME NEW t \in Thread, NEW A, NEW G, TreeNow(t, A, G), AddPublish(t)
    PROVE  Advanced(t, A, G)
  <1>1. PICK l, a : l = loc[t] /\ a = <<t, blocks[t]>>
    OBVIOUS
  <1>2. pc[t] = "add_cas" /\ reloc' = reloc
    BY DEF AddPublish
  <1>3. "add_cas" \in CurrLabel
    BY DEF CurrLabel, OpLabel
  <1>4. /\ l \in LocalState /\ FirstFind(A, G, l, "add_cas") /\ OpsFind(A, G, l, "add_cas")
        /\ Room(A, l, "add_cas") /\ l.curr \in DOMAIN node /\ l.curr_op.flag = "NONE"
        /\ l.work.key \in Int
    BY <1>1, <1>2, <1>3, FindLocals
  <1>5. CASE ~Matches(l.curr, l.curr_op)
    <2>1. node' = node /\ cas' = cas /\ Loop(t)
      BY <1>1, <1>5 DEF AddPublish
    <2>2. Stepped(A, G, A, G)
      BY <1>2, <2>1, QuietStepped DEF TreeNow
    <2> QED
      BY <2>1, <2>2, LoopAdvanced
  <1>6. CASE Matches(l.curr, l.curr_op)
    <2>1. PICK s : s = l.is_left
      OBVIOUS
    <2>2. Is(l.curr, l.curr_op) /\ node[l.curr].op.flag = "NONE" /\ s \in BOOLEAN
      BY <1>4, <1>6, <2>1 DEF Matches, Is, LocalState
    <2>3. /\ Vacant(A, l.curr, s, l.work.key) /\ Upper(A, Keys, l.curr, l.work.key)
          /\ l.old = ChildOf(node[l.curr], s)
      BY <1>4, <2>1, <2>2 DEF Room, FirstFind, OpsFind
    <2>4. a \in Addr /\ a \notin DOMAIN node /\ a \notin DOMAIN cas
      BY <1>1, NewBlock DEF TreeNow, HeapNow
    <2>5. SET_FLAG(OpAt(a), "CHILDCAS") = Flagged("CHILDCAS", a)
      BY OpFlags DEF Flag
    <2>6. /\ node' = [Store(node, a, create_LF_node(l.work.key))
                         EXCEPT ![l.curr].op = Flagged("CHILDCAS", a)]
          /\ cas' = Store(cas, a, [is_left |-> s, expected |-> ChildOf(node[l.curr], s),
                                   update |-> NodeAt(a)])
          /\ helpChildCAS(t, l, a, l.curr, "op")
      BY <1>1, <1>6, <2>1, <2>3, <2>5 DEF AddPublish
    <2>7. Stepped(A, G, Grown(A, l.curr, s, a), G)
      BY <1>2, <1>4, <2>2, <2>3, <2>4, <2>6, InsertStepped DEF TreeNow
    <2>8. l.curr \in DOMAIN Store(node, a, create_LF_node(l.work.key))
      BY <1>4 DEF Store
    <2>9. node'[l.curr].op = Flagged("CHILDCAS", a)
      BY <1>4, <2>4, <2>6, <2>8, NodeType DEF TreeNow, HeapNow, LF_BST_Node, Store
    <2>10. Flagged("CHILDCAS", a) \in Had(node', past', l.curr)
      BY <2>9 DEF Had
    <2>11. Continues(loc[t], l)
      BY <1>1 DEF Continues, SameRoot
    <2> QED
      BY <1>4, <2>6, <2>7, <2>10, <2>11, helpChildCASAdvanced
  <1> QED
    BY <1>5, <1>6

-----------------------------------------------------------------------------
(***************************************************************************)
(* remove()                                                                *)
(***************************************************************************)
LEMMA StayLocals ==
    ASSUME Inv, NEW t \in Thread, UNCHANGED loc
    PROVE  SetLocals(t, loc[t])
  BY DEF SetLocals, Inv, TypeOK

LEMMA RemoveReadRightAdvanced ==
    ASSUME NEW t \in Thread, NEW A, NEW G, TreeNow(t, A, G), RemoveReadRight(t)
    PROVE  Advanced(t, A, G)
  <1>1. PICK l, to : l = loc[t] /\ to = IF IS_NULL(node[l.curr].right) THEN "rem_mark" ELSE "rem_left"
    OBVIOUS
  <1>2. pc[t] = "rem_right" /\ node' = node /\ cas' = cas /\ reloc' = reloc /\ loc' = loc /\ Goto(t, to)
    BY <1>1 DEF RemoveReadRight, heap
  <1>3. SetLocals(t, l)
    BY <1>1, <1>2, StayLocals DEF TreeNow, HeapNow
  <1>4. FirstFind(A, G, l, "rem_right") /\ OpsFind(A, G, l, "rem_right") /\ SecondFind(A, l, "rem_right")
    BY <1>1, <1>2, FindLocals
  <1>5. to \in {"rem_mark", "rem_left"} /\ to \in CurrLabel
    BY <1>1 DEF CurrLabel, OpLabel
  <1>6. Room(A, l, to) /\ FirstFind(A, G, l, to)
    BY <1>4, <1>5 DEF Room, FirstFind, FindLabel
  <1>7. SecondFind(A, l, to)
    BY <1>4, <1>5 DEF SecondFind, FindLabel
  <1>8. OpsFind(A, G, l, to)
    BY <1>1, <1>4, <1>5 DEF OpsFind, FindLabel, OpLabel
  <1>9. ThreadInv(A, G, l, to)
    BY <1>5, <1>6, <1>7, <1>8, HelpsNobody DEF ThreadInv
  <1> QED
    BY <1>2, <1>3, <1>9, QuietAdvanced

LEMMA RemoveReadLeftAdvanced ==
    ASSUME NEW t \in Thread, NEW A, NEW G, TreeNow(t, A, G), RemoveReadLeft(t)
    PROVE  Advanced(t, A, G)
  <1>1. PICK l : l = loc[t]
    OBVIOUS
  <1>2. pc[t] = "rem_left" /\ node' = node /\ cas' = cas /\ reloc' = reloc
    BY DEF RemoveReadLeft, heap
  <1>3. /\ FirstFind(A, G, l, "rem_left") /\ OpsFind(A, G, l, "rem_left")
        /\ SecondFind(A, l, "rem_left") /\ l \in LocalState
    BY <1>1, <1>2, FindLocals
  <1>4. CASE IS_NULL(node[l.curr].left)
    <2>1. Goto(t, "rem_mark") /\ SetLocals(t, l)
      BY <1>1, <1>4, StayLocals DEF RemoveReadLeft, TreeNow, HeapNow
    <2>2. Room(A, l, "rem_mark") /\ FirstFind(A, G, l, "rem_mark")
      BY <1>3 DEF Room, FirstFind, FindLabel
    <2>3. SecondFind(A, l, "rem_mark")
      BY <1>3 DEF SecondFind, FindLabel
    <2>4. OpsFind(A, G, l, "rem_mark")
      BY <1>3, <1>4 DEF OpsFind, FindLabel, OpLabel
    <2>5. ThreadInv(A, G, l, "rem_mark")
      BY <2>2, <2>3, <2>4, HelpsNobody DEF ThreadInv, CurrLabel, OpLabel
    <2> QED
      BY <1>2, <2>1, <2>5, QuietAdvanced
  <1>5. CASE ~IS_NULL(node[l.curr].left)
    <2>1. PICK k : k = [l EXCEPT !.auxRoot = l.curr, !.auxRoot_op = l.curr_op]
      OBVIOUS
    <2>2. PICK m : m = FindCall(k)
      OBVIOUS
    <2>3. k \in LocalState /\ k.auxRoot = l.curr /\ k.auxRoot_op = l.curr_op /\ k.work = l.work
      <3>1. "rem_left" \in CurrLabel
        BY DEF CurrLabel, OpLabel
      <3>2. l.curr \in DOMAIN node
        BY <1>1, <1>2, <3>1, FindLocals
      <3>3. l.curr \in Addr /\ l.curr_op \in OpPtr
        BY <1>3, <3>2, NodeType DEF TreeNow, HeapNow, LocalState
      <3> QED
        BY <1>3, <2>1, <3>3 DEF LocalState
    <2>4. /\ m.auxRoot = l.curr /\ m.work = l.work /\ (l.curr # base_root => m.auxRoot_op = l.curr_op)
      BY <2>2, <2>3, FindCallContinues DEF Continues, SameRoot
    <2>5. Goto(t, "find") /\ SetLocals(t, m)
      BY <1>1, <1>5, <2>1, <2>2 DEF RemoveReadLeft
    <2>6. /\ l.work.op = "DELETE" /\ Upper(A, Keys, l.curr, l.work.key)
          /\ Is(l.curr, l.curr_op) => node[l.curr].key = l.work.key /\ ~IS_NULL(node[l.curr].right)
      BY <1>3 DEF OpsFind, FirstFind
    <2>7. SecondFind(A, m, "find")
      BY <2>4, <2>6 DEF SecondFind, FindLabel
    <2>8. "find" \in Outside /\ Continues(m, m)
      BY DEF Outside, Continues, SameRoot
    <2>9. ThreadInv(A, G, m, "find")
      BY <2>7, <2>8, OutsideKnows
    <2> QED
      BY <1>2, <2>5, <2>9, QuietAdvanced
  <1> QED
    BY <1>4, <1>5

LEMMA RemoveRecheckAdvanced ==
    ASSUME NEW t \in Thread, NEW A, NEW G, TreeNow(t, A, G), RemoveRecheck(t)
    PROVE  Advanced(t, A, G)
  <1>1. PICK l : l = loc[t]
    OBVIOUS
  <1>2. pc[t] = "rem_recheck" /\ node' = node /\ cas' = cas /\ reloc' = reloc
    BY DEF RemoveRecheck, heap
  <1>3. Stepped(A, G, A, G)
    BY <1>2, QuietStepped DEF TreeNow
  <1>4. CASE RootChanged(l)
    BY <1>1, <1>3, <1>4, LoopAdvanced DEF RemoveRecheck
  <1>5. CASE ~RootChanged(l)
    <2>1. /\ OpsFind(A, G, l, "rem_recheck") /\ SecondFind(A, l, "rem_recheck")
          /\ LocalOK(l, "rem_recheck")
      BY <1>1, <1>2, FindLocals
    <2>2. Goto(t, "rem_key") /\ SetLocals(t, l)
      BY <1>1, <1>5, StayLocals DEF RemoveRecheck, TreeNow, HeapNow
    <2>3. l.auxRoot # base_root /\ Is(l.auxRoot, l.auxRoot_op)
      BY <1>5, <2>1 DEF LocalOK, Node, RootChanged, Is
    <2>4. SecondFind(A, l, "rem_key")
      BY <2>1, <2>3 DEF SecondFind, FindLabel
    <2>5. Room(A, l, "rem_key") /\ FirstFind(A, G, l, "rem_key")
      BY DEF Room, FirstFind, FindLabel
    <2>6. OpsFind(A, G, l, "rem_key")
      BY <2>1 DEF OpsFind, FindLabel, OpLabel
    <2>7. ThreadInv(A, G, l, "rem_key")
      BY <2>4, <2>5, <2>6, HelpsNobody DEF ThreadInv, CurrLabel, OpLabel
    <2> QED
      BY <1>2, <2>2, <2>7, QuietAdvanced
  <1> QED
    BY <1>4, <1>5

LEMMA RemoveReadKeyAdvanced ==
    ASSUME NEW t \in Thread, NEW A, NEW G, TreeNow(t, A, G), RemoveReadKey(t)
    PROVE  Advanced(t, A, G)
  <1>1. PICK l, m : l = loc[t] /\ m = [l EXCEPT !.replace_key = node[l.curr].key]
    OBVIOUS
  <1>2. /\ pc[t] = "rem_key" /\ node' = node /\ cas' = cas /\ reloc' = reloc
        /\ Goto(t, "rem_reloc") /\ SetLocals(t, m)
    BY <1>1 DEF RemoveReadKey, heap
  <1>3. /\ OpsFind(A, G, l, "rem_key") /\ SecondFind(A, l, "rem_key")
        /\ LocalOK(l, "rem_key") /\ l \in LocalState
    BY <1>1, <1>2, FindLocals
  <1>4. /\ m.pred = l.pred /\ m.pred_op = l.pred_op /\ m.curr = l.curr
        /\ m.curr_op = l.curr_op /\ m.auxRoot = l.auxRoot /\ m.auxRoot_op = l.auxRoot_op
        /\ m.work = l.work /\ m.replace_key = node[l.curr].key
    BY <1>1, <1>3 DEF LocalState
  <1>5. SecondFind(A, m, "rem_reloc")
    BY <1>3, <1>4 DEF SecondFind, FindLabel
  <1>6. Room(A, m, "rem_reloc") /\ FirstFind(A, G, m, "rem_reloc")
    BY DEF Room, FirstFind, FindLabel
  <1>7. OpsFind(A, G, m, "rem_reloc")
    BY <1>3, <1>4 DEF OpsFind, FindLabel, OpLabel
  <1>8. ThreadInv(A, G, m, "rem_reloc")
    BY <1>5, <1>6, <1>7, HelpsNobody DEF ThreadInv, CurrLabel, OpLabel
  <1> QED
    BY <1>2, <1>8, QuietAdvanced

LEMMA CASOpMatched ==
    ASSUME Inv, NEW n \in DOMAIN node, NEW old, NEW w, CASOp(n, old, w), Matches(n, old), w # old
    PROVE  OpChange(n, w) /\ DOMAIN node' = DOMAIN node
  <1>1. node' = [node EXCEPT ![n].op = w] /\ node[n].op = old
    BY DEF CASOp, Matches
  <1>2. node[n] \in LF_BST_Node
    BY NodeType
  <1>3. /\ DOMAIN node' = DOMAIN node /\ node'[n] = [node[n] EXCEPT !.op = w]
        /\ \A x \in DOMAIN node \ {n} : node'[x] = node[x]
    BY <1>1 DEF Inv, TypeOK
  <1>4. /\ node'[n].op = w /\ node'[n].key = node[n].key /\ node'[n].left = node[n].left
        /\ node'[n].right = node[n].right
    BY <1>2, <1>3 DEF LF_BST_Node
  <1> QED
    BY <1>1, <1>3, <1>4 DEF OpChange

LEMMA CASOpMissed ==
    ASSUME NEW n, NEW old, NEW w, CASOp(n, old, w), ~Matches(n, old)
    PROVE  node' = node
  BY DEF CASOp

(* An op without a flag and a relocation that is not decided show nothing. *)
LEMMA PlainView ==
    ASSUME NEW n, NEW w, OpChange(n, w), node[n].op.flag = "NONE", w.flag = "MARK"
    PROVE  SameView(n)
  <1>1. /\ ~Has(n, "CHILDCAS") /\ ~Has(n, "CHILDCAS")' /\ ~Has(n, "RELOCATE") /\ ~Has(n, "RELOCATE")'
        /\ Has(n, "MARK")' /\ ~Has(n, "MARK")
    BY DEF OpChange, Has, GET_FLAG
  <1>2. node'[n].key = node[n].key /\ node'[n].left = node[n].left /\ node'[n].right = node[n].right
    BY DEF OpChange
  <1> QED
    BY <1>1, <1>2 DEF SameView, Child, ChildOf, CurrentKey, Relocated, Dead

LEMMA RemoveMarkAdvanced ==
    ASSUME NEW t \in Thread, NEW A, NEW G, TreeNow(t, A, G), RemoveMark(t)
    PROVE  Advanced(t, A, G)
  <1>1. PICK l, w : l = loc[t] /\ w = SET_FLAG(l.curr_op, "MARK")
    OBVIOUS
  <1>2. /\ pc[t] = "rem_mark" /\ cas' = cas /\ reloc' = reloc
        /\ CASOp(l.curr, l.curr_op, w)
    BY <1>1 DEF RemoveMark
  <1>3. "rem_mark" \in CurrLabel
    BY DEF CurrLabel, OpLabel
  <1>4. /\ OpsFind(A, G, l, "rem_mark") /\ LocalOK(l, "rem_mark") /\ l \in LocalState
        /\ l.curr \in DOMAIN node /\ l.curr_op.flag = "NONE" /\ l.pred_op.flag = "NONE"
    BY <1>1, <1>2, <1>3, FindLocals
  <1>5. CASE ~Matches(l.curr, l.curr_op)
    <2>1. node' = node
      BY <1>2, <1>5, CASOpMissed
    <2>2. Stepped(A, G, A, G)
      BY <1>2, <2>1, QuietStepped DEF TreeNow
    <2> QED
      BY <1>1, <1>5, <2>2, LoopAdvanced DEF RemoveMark
  <1>6. CASE Matches(l.curr, l.curr_op)
    <2>1. l.curr_op \in OpPtr /\ l.work \in Work /\ node[l.curr].op.flag = "NONE" /\ Is(l.curr, l.curr_op)
      BY <1>4, <1>6, WorkType DEF LocalState, Matches, Is
    <2>2. w.flag = "MARK" /\ w # l.curr_op
      BY <1>1, <1>4, <2>1, SetFlagType DEF Flag
    <2>3. OpChange(l.curr, w) /\ DOMAIN node' = DOMAIN node
      BY <1>2, <1>4, <1>6, <2>2, CASOpMatched DEF TreeNow, HeapNow
    <2>4. MayBecome(l.curr, w)
      BY <2>1, <2>2 DEF MayBecome, Is, ToDest, Flagged
    <2>5. SameView(l.curr)
      BY <2>1, <2>2, <2>3, PlainView
    <2>6. IS_NULL(node[l.curr].left) \/ IS_NULL(node[l.curr].right)
      BY <1>4, <2>1 DEF OpsFind
    <2>7. \A a \in DOMAIN cas : ~Is(l.curr, Flagged("CHILDCAS", a))
      BY <2>1 DEF Is, Flagged
    <2>8. Stepped(A, G, A, G)
      BY <1>2, <2>2, <2>3, <2>4, <2>5, <2>6, <2>7, OpChangeStepped DEF TreeNow
    <2>9. Has(l.curr, "MARK")'
      BY <2>2, <2>3 DEF OpChange, Has, GET_FLAG
    <2>10. Pair(A, G, l.pred, l.pred_op, l.curr)
      <3>1. l.curr # l.auxRoot
        BY <1>4 DEF OpsFind, LocalOK, Node, OpLabel
      <3> QED
        BY <1>4, <3>1 DEF OpsFind, OpLabel
    <2>11. Pair(A, G, l.pred, l.pred_op, l.curr)'
      BY <1>4, <2>8, <2>10, PairLater DEF Stepped
    <2>12. PICK k : k = Locals(l.work)
      OBVIOUS
    <2>13. k \in LocalState /\ Continues(loc[t], k)
      <3>1. k.auxRoot = base_root
        BY <2>12 DEF Locals
      <3> QED
        BY <2>1, <2>12, <3>1, NewLocalsType DEF Continues, SameRoot
    <2>14. helpMarked(t, k, l.pred, l.pred_op, l.curr, "op")
      BY <1>1, <1>6, <2>12 DEF RemoveMark
    <2> QED
      BY <2>8, <2>9, <2>11, <2>13, <2>14, helpMarkedAdvanced
  <1> QED
    BY <1>5, <1>6

LEMMA RemovePublishAdvanced ==
    ASSUME NEW t \in Thread, NEW A, NEW G, TreeNow(t, A, G), ~ReusesBlocks, RemovePublish(t)
    PROVE  Advanced(t, A, G)
  <1>1. PICK l, a : l = loc[t] /\ a = <<t, blocks[t]>>
    OBVIOUS
  <1>2. RelocAddr(t) = a
    BY <1>1 DEF RelocAddr, Recycled
  <1>3. /\ pc[t] = "rem_reloc" /\ cas' = cas
        /\ CASOp(l.curr, l.curr_op, SET_FLAG(OpAt(a), "RELOCATE"))
    BY <1>1, <1>2 DEF RemovePublish
  <1>4. "rem_reloc" \in CurrLabel
    BY DEF CurrLabel, OpLabel
  <1>5. /\ OpsFind(A, G, l, "rem_reloc") /\ SecondFind(A, l, "rem_reloc")
        /\ LocalOK(l, "rem_reloc") /\ l \in LocalState /\ Stands(l, "rem_reloc")
        /\ l.curr \in DOMAIN node /\ l.curr_op.flag = "NONE" /\ l.pred_op.flag = "NONE"
        /\ l.auxRoot \in DOMAIN node
    BY <1>1, <1>3, <1>4, FindLocals
  <1>6. CASE ~Matches(l.curr, l.curr_op)
    <2>1. node' = node /\ reloc' = reloc /\ Loop(t)
      BY <1>1, <1>3, <1>6, CASOpMissed DEF RemovePublish
    <2>2. Stepped(A, G, A, G)
      BY <1>3, <2>1, QuietStepped DEF TreeNow
    <2> QED
      BY <2>1, <2>2, LoopAdvanced
  <1>7. CASE Matches(l.curr, l.curr_op)
    <2>1. Is(l.curr, l.curr_op) /\ node[l.curr].op.flag = "NONE" /\ l.auxRoot # base_root
      BY <1>5, <1>7 DEF Matches, Is, LocalOK, Node
    <2>2. PICK r : r = [state |-> "ONGOING", dest |-> l.auxRoot, dest_op |-> l.auxRoot_op,
                        remove_key |-> l.work.key, replace_key |-> l.replace_key]
      OBVIOUS
    <2>3. /\ r.state = "ONGOING" /\ r.dest = l.auxRoot /\ r.dest_op = l.auxRoot_op
          /\ r.remove_key = l.work.key /\ r.replace_key = l.replace_key
      BY <2>2
    <2>4. /\ l.curr # l.auxRoot /\ l.work.key < l.replace_key /\ l.replace_key = node[l.curr].key
          /\ IS_NULL(node[l.curr].left)
          /\ Is(l.auxRoot, l.auxRoot_op) =>
                node[l.auxRoot].key = l.work.key /\ After(A, l.auxRoot, l.curr)
      BY <1>5, <2>1 DEF SecondFind
    <2>5. l.auxRoot_op \in Had(node, past, l.auxRoot)
      BY <1>5, <2>1, StandsFacts
    <2>6. a \notin DOMAIN reloc
      BY <1>1, NewBlock DEF TreeNow, HeapNow
    <2>7. SET_FLAG(OpAt(a), "RELOCATE") = ToDest(a)
      BY OpFlags DEF Flag, ToDest
    <2>8. node' = [node EXCEPT ![l.curr].op = ToDest(a)]
      BY <1>3, <1>7, <2>7 DEF CASOp
    <2>9. reloc' = Store(reloc, a, r) /\ helpRelocate(t, Locals(l.work), a, l.pred, l.pred_op, l.curr, "op")
      BY <1>1, <1>2, <1>7, <2>2 DEF RemovePublish
    <2>10. Stepped(A, G, A, G)
      <3>1. r.remove_key < r.replace_key /\ r.replace_key = node[l.curr].key
        BY <2>3, <2>4
      <3>2. r.dest \in DOMAIN node /\ r.dest # l.curr /\ r.dest_op \in Had(node, past, r.dest)
        BY <1>5, <2>3, <2>4, <2>5
      <3>3. Is(r.dest, r.dest_op) => node[r.dest].key = r.remove_key /\ After(A, r.dest, l.curr)
        BY <2>3, <2>4
      <3> QED
        BY <1>3, <1>5, <2>1, <2>3, <2>4, <2>6, <2>8, <2>9, <3>1, <3>2, <3>3, RelocateStepped DEF TreeNow
    <2>11. OpChange(l.curr, ToDest(a))
      BY <1>3, <1>5, <1>7, <2>7, CASOpMatched DEF TreeNow, HeapNow, ToDest, Flagged
    <2>12. node'[l.curr].op = ToDest(a) /\ ToDest(a) \in Had(node', past', l.curr)
      BY <2>11 DEF OpChange, Had
    <2>13. l.curr \notin G
      <3>1. \A n \in G : node'[n].op.flag = "MARK"
        BY <2>10 DEF Stepped, Later
      <3> QED
        BY <2>12, <3>1 DEF ToDest, Flagged
    <2>14. Pair(A, G, l.pred, l.pred_op, l.curr)
      BY <1>5, <2>4 DEF OpsFind, OpLabel
    <2>15. Pair(A, G, l.pred, l.pred_op, l.curr)'
      BY <1>5, <2>10, <2>14, PairLater DEF Stepped
    <2>16. RelocPair(A, G, a, l.pred, l.pred_op, l.curr)'
      BY <2>12, <2>13, <2>15 DEF RelocPair
    <2>17. PICK k : k = Locals(l.work)
      OBVIOUS
    <2>18. k \in LocalState /\ Continues(loc[t], k)
      <3>1. k.auxRoot = base_root
        BY <2>17 DEF Locals
      <3>2. l.work \in Work
        BY <1>5, WorkType
      <3> QED
        BY <2>17, <3>1, <3>2, NewLocalsType DEF Continues, SameRoot
    <2> QED
      BY <2>9, <2>10, <2>16, <2>17, <2>18, helpRelocateAdvanced
  <1> QED
    BY <1>6, <1>7

-----------------------------------------------------------------------------
(***************************************************************************)
(* helpChildCAS() and helpMarked().                                        *)
(***************************************************************************)
LEMMA HelpsLater ==
    ASSUME NEW t \in Thread, NEW A, NEW G, TreeNow(t, A, G), NEW B, NEW H, Stepped(A, G, B, H),
           NEW l, l = loc[t], NEW at, at = pc[t]
    PROVE  Helps(B, H, l, at)'
  <1>1. Stands(l, at) /\ ThreadInv(A, G, l, at)
    BY StandsNow DEF TreeNow, HeapNow
  <1>2. ThreadInv(B, H, l, at)'
    BY <1>1, ThreadKept DEF Stepped
  <1> QED
    BY <1>2 DEF ThreadInv

LEMMA HelperAdvanced ==
    ASSUME NEW t \in Thread, NEW A, NEW G, TreeNow(t, A, G), NEW B, NEW H, Stepped(A, G, B, H),
           NEW to \in Apart, NEW m, Goto(t, to), SetLocals(t, m), Continues(loc[t], m),
           Helps(B, H, m, to)'
    PROVE  Advanced(t, A, G)
  <1>1. (Room(B, m, to) /\ FirstFind(B, H, m, to) /\ SecondFind(B, m, to) /\ OpsFind(B, H, m, to))'
    BY RootKnown
  <1>2. ThreadInv(B, H, m, to)'
    BY <1>1 DEF ThreadInv
  <1> QED
    BY <1>2, NextAdvanced

LEMMA ContinuesSame ==
    ASSUME NEW l
    PROVE  Continues(l, l)
  BY DEF Continues, SameRoot

LEMMA HelpChildCASSwingAdvanced ==
    ASSUME NEW t \in Thread, NEW A, NEW G, TreeNow(t, A, G), HelpChildCASSwing(t)
    PROVE  Advanced(t, A, G)
  <1>1. PICK l, at, a, d : l = loc[t] /\ at = pc[t] /\ a = l.cas_op /\ d = l.dest
    OBVIOUS
  <1>2. /\ at = "child_cas" /\ pc[t] = "child_cas" /\ cas' = cas /\ reloc' = reloc /\ loc' = loc
        /\ Goto(t, "child_clear") /\ CASChild(d, cas[a])
    BY <1>1 DEF HelpChildCASSwing
  <1>3. /\ HelpsChildCAS(l, "child_cas") /\ LocalOK(l, "child_cas")
    BY <1>1, <1>2, FindLocals DEF Helps
  <1>4. a \in DOMAIN cas /\ d \in DOMAIN node /\ Flagged("CHILDCAS", a) \in Had(node, past, d)
    BY <1>1, <1>3 DEF LocalOK, HelpsChildCAS, ChildLabel
  <1>5. /\ Stepped(A, G, A, G)
        /\ Is(d, Flagged("CHILDCAS", a))' => ChildOf(node'[d], cas[a].is_left) = cas[a].update
    BY <1>2, <1>4, SwingStepped DEF TreeNow
  <1>6. HelpsChildCAS(l, "child_cas")'
    <2>1. Helps(A, G, l, at)'
      BY <1>1, <1>5, HelpsLater
    <2> QED
      BY <1>2, <2>1 DEF Helps
  <1>7. HelpsChildCAS(l, "child_clear")'
    BY <1>1, <1>2, <1>5, <1>6 DEF HelpsChildCAS, ChildLabel
  <1>8. Helps(A, G, l, "child_clear")'
    BY <1>7 DEF Helps, HelpsMarked, HelpsRelocate, MarkLabel, RelocLabel
  <1>9. "child_clear" \in Apart
    BY DEF Apart, ChildLabel
  <1>10. SetLocals(t, l)
    BY <1>1, <1>2, StayLocals DEF TreeNow, HeapNow
  <1> QED
    BY <1>1, <1>2, <1>5, <1>8, <1>9, <1>10, ContinuesSame, HelperAdvanced

(* Clearing a Child_CAS_OP that has been carried out changes nothing else. *)
LEMMA ClearSwingStepped ==
    ASSUME NEW A, NEW G, HeapNow(A, G), StepsSoundly, NEW d \in DOMAIN node, NEW a \in DOMAIN cas,
           ClearOp(d, a, "CHILDCAS"), cas' = cas, reloc' = reloc,
           Is(d, Flagged("CHILDCAS", a)) => ChildOf(node[d], cas[a].is_left) = cas[a].update
    PROVE  Stepped(A, G, A, G)
  <1>1. PICK w, v : v = Flagged("CHILDCAS", a) /\ w = Flagged("NONE", a)
    OBVIOUS
  <1>2. CASOp(d, v, w)
    BY <1>1, OpFlags DEF ClearOp, Flag
  <1>3. v.flag = "CHILDCAS" /\ v.op = a /\ w.flag = "NONE" /\ w.op = a /\ w # v
    BY <1>1 DEF Flagged
  <1>4. CASE ~Matches(d, v)
    BY <1>2, <1>4, CASOpMissed, QuietStepped
  <1>5. CASE Matches(d, v)
    <2>1. node[d].op = v /\ ChildOf(node[d], cas[a].is_left) = cas[a].update
      BY <1>1, <1>5 DEF Matches, Is
    <2>2. OpChange(d, w) /\ DOMAIN node' = DOMAIN node
      BY <1>2, <1>3, <1>5, CASOpMatched DEF HeapNow
    <2>3. a \notin DOMAIN reloc
      BY DEF HeapNow, OpsInv, HeapOps, Fresh
    <2>4. MayBecome(d, w)
      BY <1>3, <2>1, <2>3 DEF MayBecome, Is, ToDest, Flagged
    <2>5. SameView(d)
      <3>1. /\ Has(d, "CHILDCAS") /\ PendingCAS(d) = cas[a] /\ ~Has(d, "CHILDCAS")'
            /\ ~Has(d, "RELOCATE") /\ ~Has(d, "RELOCATE")' /\ ~Has(d, "MARK")
        BY <1>3, <2>1, <2>2 DEF OpChange, Has, GET_FLAG, PendingCAS, UNFLAG
      <3>2. node'[d].key = node[d].key /\ node'[d].left = node[d].left /\ node'[d].right = node[d].right
        BY <2>2 DEF OpChange
      <3>3. ASSUME NEW s \in BOOLEAN PROVE Child(d, s)' = Child(d, s)
        <4>1. Child(d, s) = IF cas[a].is_left = s THEN cas[a].update ELSE ChildOf(node[d], s)
          BY <3>1 DEF Child
        <4>2. Child(d, s)' = ChildOf(node[d], s)
          BY <3>1, <3>2 DEF Child, ChildOf
        <4> QED
          BY <2>1, <4>1, <4>2
      <3> QED
        BY <3>1, <3>2, <3>3 DEF SameView, CurrentKey, Relocated, Dead
    <2>6. \A b \in DOMAIN cas : Is(d, Flagged("CHILDCAS", b)) =>
              ChildOf(node[d], cas[b].is_left) = cas[b].update
      BY <1>3, <2>1 DEF Is, Flagged
    <2> QED
      BY <1>3, <2>2, <2>4, <2>5, <2>6, OpChangeStepped
  <1> QED
    BY <1>4, <1>5

LEMMA HelpChildCASClearAdvanced ==
    ASSUME NEW t \in Thread, NEW A, NEW G, TreeNow(t, A, G), HelpChildCASClear(t)
    PROVE  Advanced(t, A, G)
  <1>1. PICK l : l = loc[t]
    OBVIOUS
  <1>2. /\ pc[t] = "child_clear" /\ cas' = cas /\ reloc' = reloc /\ Helped(t)
        /\ ClearOp(l.dest, l.cas_op, "CHILDCAS")
    BY <1>1 DEF HelpChildCASClear
  <1>3. /\ HelpsChildCAS(l, "child_clear") /\ LocalOK(l, "child_clear")
    BY <1>1, <1>2, FindLocals DEF Helps
  <1>4. /\ l.cas_op \in DOMAIN cas /\ l.dest \in DOMAIN node
        /\ Is(l.dest, Flagged("CHILDCAS", l.cas_op)) =>
              ChildOf(node[l.dest], cas[l.cas_op].is_left) = cas[l.cas_op].update
    BY <1>3 DEF LocalOK, HelpsChildCAS, ChildLabel
  <1>5. Stepped(A, G, A, G)
    BY <1>2, <1>4, ClearSwingStepped DEF TreeNow
  <1> QED
    BY <1>2, <1>5, HelpedAdvanced

(* A helper of a marked node that reads. *)
LEMMA MarkedAdvanced ==
    ASSUME NEW t \in Thread, NEW A, NEW G, TreeNow(t, A, G), node' = node, cas' = cas, reloc' = reloc,
           NEW to \in MarkLabel, NEW m, Goto(t, to), SetLocals(t, m), Continues(loc[t], m),
           HelpsMarked(A, G, m, to)
    PROVE  Advanced(t, A, G)
  <1>1. SecondFind(A, loc[t], pc[t]) /\ to \in Apart
    BY DEF TreeNow, ThreadInv, Apart
  <1>2. Room(A, m, to) /\ FirstFind(A, G, m, to) /\ SecondFind(A, m, to) /\ OpsFind(A, G, m, to)
    BY <1>1, ApartKnows
  <1>3. Helps(A, G, m, to)
    BY DEF Helps, HelpsChildCAS, HelpsRelocate, ChildLabel, MarkLabel, RelocLabel
  <1>4. ThreadInv(A, G, m, to)
    BY <1>2, <1>3 DEF ThreadInv
  <1> QED
    BY <1>4, QuietAdvanced

LEMMA HelpMarkedReadAdvanced ==
    ASSUME NEW t \in Thread, NEW A, NEW G, TreeNow(t, A, G),
           HelpMarkedTestLeft(t) \/ HelpMarkedTestRight(t) \/ HelpMarkedTake(t)
    PROVE  Advanced(t, A, G)
  <1>1. PICK l, at : l = loc[t] /\ at = pc[t]
    OBVIOUS
  <1>2. node' = node /\ cas' = cas /\ reloc' = reloc
    BY DEF HelpMarkedTestLeft, HelpMarkedTestRight, HelpMarkedTake, heap
  <1>3. /\ at \in {"mark_left", "mark_right", "mark_take_left", "mark_take_right"} /\ at \in MarkLabel
    BY <1>1 DEF HelpMarkedTestLeft, HelpMarkedTestRight, HelpMarkedTake, MarkLabel
  <1>4. HelpsMarked(A, G, l, at) /\ l \in LocalState
    BY <1>1, FindLocals DEF Helps
  <1>5. Has(l.curr, "MARK") /\ Pair(A, G, l.pred, l.pred_op, l.curr)
    BY <1>3, <1>4 DEF HelpsMarked
  <1>6. ASSUME NEW to \in {"mark_right", "mark_take_left", "mark_take_right"}, loc' = loc, Goto(t, to),
               HelpsMarked(A, G, l, to)
        PROVE  Advanced(t, A, G)
    <2>1. SetLocals(t, l) /\ to \in MarkLabel
      BY <1>1, <1>6, StayLocals DEF TreeNow, HeapNow, MarkLabel
    <2> QED
      BY <1>1, <1>2, <1>6, <2>1, ContinuesSame, MarkedAdvanced
  <1>7. ASSUME NEW r, r = TheChild(l.curr), Goto(t, "mark_side"),
               SetLocals(t, [l EXCEPT !.new_ref = r])
        PROVE  Advanced(t, A, G)
    <2>1. PICK m : m = [l EXCEPT !.new_ref = r]
      OBVIOUS
    <2>2. /\ m.new_ref = r /\ m.curr = l.curr /\ m.pred = l.pred /\ m.pred_op = l.pred_op
          /\ m.auxRoot = l.auxRoot /\ m.auxRoot_op = l.auxRoot_op /\ m.work = l.work
      BY <1>4, <2>1 DEF LocalState
    <2>3. HelpsMarked(A, G, m, "mark_side")
      BY <1>5, <1>7, <2>2 DEF HelpsMarked
    <2>4. Continues(loc[t], m) /\ "mark_side" \in MarkLabel
      BY <1>1, <2>2 DEF Continues, SameRoot, MarkLabel
    <2> QED
      BY <1>2, <1>7, <2>1, <2>3, <2>4, MarkedAdvanced
  <1>8. CASE HelpMarkedTestLeft(t)
    <2>1. PICK to : to = IF IS_NULL(node[l.curr].left) THEN "mark_right" ELSE "mark_take_left"
      OBVIOUS
    <2>2. loc' = loc /\ Goto(t, to)
      BY <1>1, <1>8, <2>1 DEF HelpMarkedTestLeft
    <2>3. HelpsMarked(A, G, l, to) /\ to \in {"mark_right", "mark_take_left", "mark_take_right"}
      BY <1>5, <2>1 DEF HelpsMarked
    <2> QED
      BY <1>6, <2>2, <2>3
  <1>9. CASE HelpMarkedTestRight(t)
    <2>1. at = "mark_right" /\ IS_NULL(node[l.curr].left)
      BY <1>1, <1>4, <1>9 DEF HelpMarkedTestRight, HelpsMarked
    <2>2. CASE IS_NULL(node[l.curr].right)
      BY <1>1, <1>7, <1>9, <2>1, <2>2 DEF HelpMarkedTestRight, TheChild
    <2>3. CASE ~IS_NULL(node[l.curr].right)
      <3>1. loc' = loc /\ Goto(t, "mark_take_right")
        BY <1>1, <1>9, <2>3 DEF HelpMarkedTestRight
      <3>2. HelpsMarked(A, G, l, "mark_take_right")
        BY <1>5, <2>1, <2>3 DEF HelpsMarked
      <3> QED
        BY <1>6, <3>1, <3>2
    <2> QED
      BY <2>2, <2>3
  <1>10. CASE HelpMarkedTake(t)
    <2>1. /\ at \in {"mark_take_left", "mark_take_right"} /\ Goto(t, "mark_side")
          /\ SetLocals(t, [l EXCEPT !.new_ref = ChildOf(node[l.curr], at = "mark_take_left")])
      BY <1>1, <1>10 DEF HelpMarkedTake
    <2>2. ChildOf(node[l.curr], at = "mark_take_left") = TheChild(l.curr)
      <3>1. CASE at = "mark_take_left"
        BY <1>4, <3>1 DEF HelpsMarked, TheChild, ChildOf
      <3>2. CASE at = "mark_take_right"
        BY <1>4, <3>2 DEF HelpsMarked, TheChild, ChildOf
      <3> QED
        BY <2>1, <3>1, <3>2
    <2> QED
      BY <1>7, <2>1, <2>2
  <1> QED
    BY <1>8, <1>9, <1>10

LEMMA HelpMarkedSideAdvanced ==
    ASSUME NEW t \in Thread, NEW A, NEW G, TreeNow(t, A, G), HelpMarkedSide(t)
    PROVE  Advanced(t, A, G)
  <1>1. PICK l, s : l = loc[t] /\ s = (node[l.pred].left = NodeAt(l.curr))
    OBVIOUS
  <1>2. PICK m : m = [l EXCEPT !.is_left = s]
    OBVIOUS
  <1>3. /\ pc[t] = "mark_side" /\ node' = node /\ cas' = cas /\ reloc' = reloc
        /\ Goto(t, "mark_cas") /\ SetLocals(t, m)
    BY <1>1, <1>2 DEF HelpMarkedSide, heap
  <1>4. /\ HeapInv(A, G) /\ HelpsMarked(A, G, l, "mark_side") /\ l \in LocalState
        /\ LocalOK(l, "mark_side") /\ l.pred_op.flag = "NONE"
    BY <1>1, <1>3, FindLocals DEF Helps
  <1>5. /\ m.is_left = s /\ m.new_ref = l.new_ref /\ m.curr = l.curr /\ m.pred = l.pred
        /\ m.pred_op = l.pred_op
        /\ m.auxRoot = l.auxRoot /\ m.auxRoot_op = l.auxRoot_op /\ m.work = l.work
    BY <1>2, <1>4 DEF LocalState
  <1>6. /\ Has(l.curr, "MARK") /\ Pair(A, G, l.pred, l.pred_op, l.curr)
        /\ l.new_ref = TheChild(l.curr) /\ l.pred \in DOMAIN node /\ l.curr \in DOMAIN node
    BY <1>4 DEF HelpsMarked, MarkLabel, LocalOK, Node
  <1>7. ASSUME Is(l.pred, l.pred_op) PROVE ChildOf(node[l.pred], s) = NodeAt(l.curr)
    <2>1. PICK q \in BOOLEAN : Hangs(A, G, l.pred, q, l.curr)
      BY <1>6 DEF Pair
    <2>2. l.curr \notin G /\ node[l.pred].op.flag = "NONE"
      BY <1>4, <1>6, <1>7 DEF Pair, Is
    <2>3. l.pred \in Linked(A, G) /\ Child(l.pred, q) = ChildOf(node[l.pred], q)
      BY <1>4, <1>6, <2>2, Unflagged
    <2>4. Shape(Kids, Pointers, A, G) /\ l.curr \in Linked(A, G)
      BY <1>4, <1>6, <2>2 DEF HeapInv, TreeOK, Linked
    <2>5. ~IS_NULL(Kids[l.pred][q]) /\ Kids[l.pred][q].node = l.curr
      BY <2>1, <2>3, <2>4, HangsIsChild
    <2>6. Kids[l.pred][q] = ChildOf(node[l.pred], q)
      BY <1>6, <2>3 DEF Kids
    <2>7. ChildOf(node[l.pred], q) \in NodePtr
      BY <1>6, NodeType DEF TreeNow, HeapNow
    <2>8. ChildOf(node[l.pred], q) = NodeAt(l.curr)
      BY <2>5, <2>6, <2>7 DEF NodePtr, NodeAt, IS_NULL
    <2>9. CASE node[l.pred].left = NodeAt(l.curr)
      BY <1>1, <2>9 DEF ChildOf
    <2>10. CASE node[l.pred].left # NodeAt(l.curr)
      BY <1>1, <2>8, <2>10 DEF ChildOf
    <2> QED
      BY <2>9, <2>10
  <1>8. HelpsMarked(A, G, m, "mark_cas")
    BY <1>5, <1>6, <1>7 DEF HelpsMarked
  <1>9. Continues(loc[t], m) /\ "mark_cas" \in MarkLabel
    BY <1>1, <1>5 DEF Continues, SameRoot, MarkLabel
  <1> QED
    BY <1>3, <1>8, <1>9, MarkedAdvanced

LEMMA HelpMarkedPublishAdvanced ==
    ASSUME NEW t \in Thread, NEW A, NEW G, TreeNow(t, A, G), HelpMarkedPublish(t)
    PROVE  Advanced(t, A, G)
  <1>1. PICK l, a, w : l = loc[t] /\ a = <<t, blocks[t]>> /\ w = Flagged("CHILDCAS", a)
    OBVIOUS
  <1>2. SET_FLAG(OpAt(a), "CHILDCAS") = w
    BY <1>1, OpFlags DEF Flag
  <1>3. /\ pc[t] = "mark_cas" /\ reloc' = reloc /\ CASOp(l.pred, l.pred_op, w)
    BY <1>1, <1>2 DEF HelpMarkedPublish
  <1>4. /\ HelpsMarked(A, G, l, "mark_cas") /\ l \in LocalState
        /\ LocalOK(l, "mark_cas") /\ l.pred_op.flag = "NONE"
    BY <1>1, <1>3, FindLocals DEF Helps
  <1>5. CASE ~Matches(l.pred, l.pred_op)
    <2>1. node' = node /\ cas' = cas /\ Helped(t)
      BY <1>1, <1>3, <1>5, CASOpMissed DEF HelpMarkedPublish
    <2>2. Stepped(A, G, A, G)
      BY <1>3, <2>1, QuietStepped DEF TreeNow
    <2> QED
      BY <2>1, <2>2, HelpedAdvanced
  <1>6. CASE Matches(l.pred, l.pred_op)
    <2>1. PICK c, s : c = l.curr /\ s = l.is_left
      OBVIOUS
    <2>2. Is(l.pred, l.pred_op) /\ node[l.pred].op.flag = "NONE" /\ s \in BOOLEAN
      BY <1>4, <1>6, <2>1 DEF Matches, Is, LocalState
    <2>3. /\ Has(c, "MARK") /\ Pair(A, G, l.pred, l.pred_op, c)
          /\ l.new_ref = TheChild(c) /\ l.pred \in DOMAIN node /\ c \in DOMAIN node
          /\ ChildOf(node[l.pred], s) = NodeAt(c)
      BY <1>4, <2>1, <2>2 DEF HelpsMarked, MarkLabel, LocalOK, Node
    <2>4. c \in DOMAIN node \ G
      BY <2>2, <2>3 DEF Pair
    <2>5. a \notin DOMAIN cas
      BY <1>1, NewBlock DEF TreeNow, HeapNow
    <2>6. /\ node' = [node EXCEPT ![l.pred].op = Flagged("CHILDCAS", a)]
          /\ cas' = Store(cas, a, [is_left |-> s, expected |-> NodeAt(c), update |-> TheChild(c)])
          /\ helpChildCAS(t, l, a, l.pred, l.ret)
      BY <1>1, <1>3, <1>6, <2>1, <2>3 DEF HelpMarkedPublish, CASOp
    <2>7. Stepped(A, G, Cut(A, c), G \cup {c})
      BY <1>3, <2>2, <2>3, <2>4, <2>5, <2>6, UnlinkStepped DEF TreeNow
    <2>8. OpChange(l.pred, w)
      BY <1>1, <1>3, <1>4, <1>6, <2>3, CASOpMatched DEF TreeNow, HeapNow, Flagged
    <2>9. Flagged("CHILDCAS", a) \in Had(node', past', l.pred)
      BY <1>1, <2>8 DEF OpChange, Had
    <2>10. Continues(loc[t], l)
      BY <1>1 DEF Continues, SameRoot
    <2> QED
      BY <1>4, <2>6, <2>7, <2>9, <2>10, helpChildCASAdvanced
  <1> QED
    BY <1>5, <1>6

-----------------------------------------------------------------------------
(***************************************************************************)
(* helpRelocate().                                                         *)
(***************************************************************************)
(* What a helper knows of the relocation, apart from its place. *)
RelocOutcome(l, at) ==
    LET a == l.reloc_op
        d == reloc[a].dest
    IN  /\ at \in {"reloc_key", "reloc_clear"} => l.seen_state = "SUCCESSFUL"
        /\ at = "reloc_clear" /\ Is(d, ToDest(a)) => node[d].key = reloc[a].replace_key
        /\ at = "reloc_curr" /\ l.seen_state # "SUCCESSFUL" => reloc[a].state = "FAILED"
        /\ at = "reloc_curr" /\ l.seen_state = "SUCCESSFUL" =>
              Flagged("NONE", a) \in Had(node, past, d)

LEMMA RelocKnown ==
    ASSUME NEW A, NEW G, NEW l, NEW at \in RelocLabel
    PROVE  HelpsRelocate(A, G, l, at) <=>
              RelocPair(A, G, l.reloc_op, l.pred, l.pred_op, l.curr) /\ RelocOutcome(l, at)
  BY DEF HelpsRelocate, RelocPair, RelocOutcome

LEMMA RelocKnownNext ==
    ASSUME NEW A, NEW G, NEW l, NEW at \in RelocLabel
    PROVE  HelpsRelocate(A, G, l, at)' <=>
              RelocPair(A, G, l.reloc_op, l.pred, l.pred_op, l.curr)' /\ RelocOutcome(l, at)'
  BY DEF HelpsRelocate, RelocPair, RelocOutcome

(* What a helper at label at with locals l can count on. *)
LEMMA RelocHelper ==
    ASSUME NEW t \in Thread, NEW A, NEW G, TreeNow(t, A, G), pc[t] \in RelocLabel,
           NEW l, l = loc[t], NEW a, a = l.reloc_op, NEW d, d = reloc[a].dest
    PROVE  /\ l \in LocalState /\ a \in DOMAIN reloc /\ d \in DOMAIN node /\ d # base_root
           /\ l.curr \in DOMAIN node /\ l.pred \in DOMAIN node /\ l.pred_op.flag = "NONE"
           /\ reloc[a].dest_op.flag = "NONE"
           /\ reloc[a].state \in {"ONGOING", "SUCCESSFUL", "FAILED"}
           /\ reloc[a].remove_key \in Int /\ reloc[a].replace_key \in Int
           /\ RelocationOK(node, past, reloc, a) /\ Knows(node, past, reloc, l, pc[t])
           /\ RelocPair(A, G, a, l.pred, l.pred_op, l.curr) /\ RelocOutcome(l, pc[t])
           /\ DestKey(a) /\ (l.curr # d => Replaced(A, a, l.curr))
  <1>1. Inv /\ OpsInv /\ RelocationsOK(A)
    BY DEF TreeNow, HeapNow, HeapInv
  <1>2. /\ l \in LocalState /\ a \in DOMAIN reloc /\ d \in DOMAIN node /\ d # base_root
        /\ l.curr \in DOMAIN node /\ l.pred \in DOMAIN node /\ l.pred_op.flag = "NONE"
    BY <1>1, RelocLocals
  <1>3. /\ reloc[a].dest_op.flag = "NONE"
        /\ reloc[a].state \in {"ONGOING", "SUCCESSFUL", "FAILED"}
        /\ reloc[a].remove_key \in Int /\ reloc[a].replace_key \in Int
        /\ RelocationOK(node, past, reloc, a) /\ Knows(node, past, reloc, l, pc[t])
    BY <1>1, HelpedRelocation
  <1>4. HelpsRelocate(A, G, l, pc[t])
    BY FindLocals DEF Helps
  <1>5. RelocPair(A, G, a, l.pred, l.pred_op, l.curr) /\ RelocOutcome(l, pc[t])
    BY <1>4, RelocKnown
  <1>6. ToDest(a) \in Had(node, past, l.curr)
    BY <1>5 DEF RelocPair
  <1>7. DestKey(a) /\ (l.curr # d => Replaced(A, a, l.curr))
    BY <1>1, <1>2, <1>6 DEF RelocationsOK, Replaces
  <1> QED
    BY <1>2, <1>3, <1>5, <1>7

LEMMA RelocHelperAdvanced ==
    ASSUME NEW t \in Thread, NEW A, NEW G, TreeNow(t, A, G), pc[t] \in RelocLabel,
           NEW B, NEW H, Stepped(A, G, B, H), NEW to \in RelocLabel, NEW m, Goto(t, to),
           SetLocals(t, m), m.reloc_op = loc[t].reloc_op, m.curr = loc[t].curr,
           m.pred = loc[t].pred, m.pred_op = loc[t].pred_op, m.auxRoot = loc[t].auxRoot,
           m.auxRoot_op = loc[t].auxRoot_op, m.work = loc[t].work, RelocOutcome(m, to)'
    PROVE  Advanced(t, A, G)
  <1>1. PICK l, at : l = loc[t] /\ at = pc[t]
    OBVIOUS
  <1>2. HelpsRelocate(B, H, l, at)'
    BY <1>1, HelpsLater DEF Helps
  <1>3. RelocPair(B, H, l.reloc_op, l.pred, l.pred_op, l.curr)'
    BY <1>1, <1>2, RelocKnownNext
  <1>4. /\ m.reloc_op = l.reloc_op /\ m.curr = l.curr /\ m.pred = l.pred /\ m.pred_op = l.pred_op
    BY <1>1
  <1>5. RelocPair(B, H, m.reloc_op, m.pred, m.pred_op, m.curr)'
    BY <1>3, <1>4
  <1>6. HelpsRelocate(B, H, m, to)'
    BY <1>5, RelocKnownNext
  <1>7. /\ to \in Apart /\ to \notin MarkLabel /\ to \notin ChildLabel
        /\ to \notin {"mark_take_left", "mark_right", "mark_take_right", "mark_side", "mark_cas",
                      "child_clear"}
    BY DEF Apart, RelocLabel, MarkLabel, ChildLabel
  <1>8. Helps(B, H, m, to)'
    BY <1>6, <1>7 DEF Helps, HelpsMarked, HelpsChildCAS
  <1>9. Continues(loc[t], m)
    BY DEF Continues, SameRoot
  <1> QED
    BY <1>7, <1>8, <1>9, HelperAdvanced

LEMMA HelpRelocateStateAdvanced ==
    ASSUME NEW t \in Thread, NEW A, NEW G, TreeNow(t, A, G), HelpRelocateState(t)
    PROVE  Advanced(t, A, G)
  <1>1. PICK l, a, d, s : l = loc[t] /\ a = l.reloc_op /\ d = reloc[a].dest /\ s = reloc[a].state
    OBVIOUS
  <1>2. /\ pc[t] \in RelocLabel /\ node' = node /\ cas' = cas /\ reloc' = reloc
        /\ Goto(t, AfterState(s)) /\ SetLocals(t, [l EXCEPT !.seen_state = s])
    BY <1>1 DEF HelpRelocateState, RelocLabel, heap
  <1>3. l \in LocalState /\ s \in {"ONGOING", "SUCCESSFUL", "FAILED"}
    BY <1>1, <1>2, RelocHelper
  <1>4. PICK m, to : m = [l EXCEPT !.seen_state = s] /\ to = AfterState(s)
    OBVIOUS
  <1>5. /\ m.seen_state = s /\ m.reloc_op = a /\ m.curr = l.curr /\ m.pred = l.pred
        /\ m.pred_op = l.pred_op /\ m.auxRoot = l.auxRoot /\ m.auxRoot_op = l.auxRoot_op
        /\ m.work = l.work
    BY <1>1, <1>3, <1>4 DEF LocalState
  <1>6. /\ to \in {"reloc_dest", "reloc_key", "reloc_curr"}
        /\ to = "reloc_key" => s = "SUCCESSFUL"
        /\ to = "reloc_curr" => s = "FAILED"
    BY <1>3, <1>4 DEF AfterState
  <1>7. RelocOutcome(m, to)'
    BY <1>1, <1>2, <1>5, <1>6 DEF RelocOutcome
  <1>8. Stepped(A, G, A, G)
    BY <1>2, QuietStepped DEF TreeNow
  <1>9. to \in RelocLabel
    BY <1>6 DEF RelocLabel
  <1> QED
    BY <1>1, <1>2, <1>4, <1>5, <1>7, <1>8, <1>9, RelocHelperAdvanced

(* Installing a Relocate_OP in dest. *)
LEMMA InstallStepped ==
    ASSUME NEW A, NEW G, HeapNow(A, G), StepsSoundly, NEW a \in DOMAIN reloc, NEW d,
           d = reloc[a].dest, d \in DOMAIN node, reloc[a].dest_op.flag = "NONE", DestKey(a),
           CASOp(d, reloc[a].dest_op, ToDest(a)), cas' = cas, reloc' = reloc
    PROVE  Stepped(A, G, A, G)
  <1>1. PICK w : w = ToDest(a)
    OBVIOUS
  <1>2. w.flag = "RELOCATE" /\ w.op = a /\ w # reloc[a].dest_op
    BY <1>1 DEF ToDest, Flagged
  <1>3. CASE ~Matches(d, reloc[a].dest_op)
    BY <1>3, CASOpMissed, QuietStepped
  <1>4. CASE Matches(d, reloc[a].dest_op)
    <2>1. Is(d, reloc[a].dest_op) /\ node[d].op.flag = "NONE"
      BY <1>4 DEF Matches, Is
    <2>2. OpChange(d, w) /\ DOMAIN node' = DOMAIN node
      BY <1>1, <1>2, <1>4, CASOpMatched DEF HeapNow
    <2>3. MayBecome(d, w)
      <3>1. \A b \in DOMAIN reloc : w = ToDest(b) => b = a
        BY <1>2 DEF ToDest, Flagged
      <3>2. \A b \in DOMAIN reloc : w # Flagged("NONE", b) /\ ~Is(d, ToDest(b))
        BY <1>2, <2>1 DEF Is, ToDest, Flagged
      <3> QED
        BY <2>1, <3>1, <3>2 DEF MayBecome
    <2>4. reloc[a].state # "SUCCESSFUL"
      <3>1. w \notin Had(node, past, d)
        BY <2>2, OpChangePast DEF HeapNow, StepsSoundly
      <3> QED
        BY <1>1, <3>1 DEF DestKey
    <2>5. SameView(d)
      <3>1. /\ ~Has(d, "CHILDCAS") /\ ~Has(d, "RELOCATE") /\ ~Has(d, "MARK")
            /\ ~Has(d, "CHILDCAS")' /\ PendingRelocation(d)' = reloc[a] /\ ~Has(d, "MARK")'
        BY <1>2, <2>1, <2>2 DEF OpChange, Has, GET_FLAG, PendingRelocation, UNFLAG
      <3>2. node'[d].key = node[d].key /\ node'[d].left = node[d].left /\ node'[d].right = node[d].right
        BY <2>2 DEF OpChange
      <3>3. ~Relocated(d) /\ ~Relocated(d)'
        BY <2>4, <3>1 DEF Relocated
      <3>4. \A s \in BOOLEAN : Child(d, s)' = Child(d, s)
        BY <3>1, <3>2 DEF Child, ChildOf
      <3>5. CurrentKey(d)' = CurrentKey(d) /\ ~Dead(d)
        BY <3>1, <3>2, <3>3 DEF CurrentKey, Dead
      <3> QED
        BY <3>4, <3>5 DEF SameView
    <2>6. \A b \in DOMAIN cas : ~Is(d, Flagged("CHILDCAS", b))
      BY <2>1 DEF Is, Flagged
    <2> QED
      BY <1>2, <2>2, <2>3, <2>5, <2>6, OpChangeStepped
  <1> QED
    BY <1>3, <1>4

LEMMA HelpRelocateDestAdvanced ==
    ASSUME NEW t \in Thread, NEW A, NEW G, TreeNow(t, A, G), HelpRelocateDest(t)
    PROVE  Advanced(t, A, G)
  <1>1. PICK l, a, d : l = loc[t] /\ a = l.reloc_op /\ d = reloc[a].dest
    OBVIOUS
  <1>2. SET_FLAG(OpAt(a), "RELOCATE") = ToDest(a)
    BY OpFlags DEF Flag, ToDest
  <1>3. /\ pc[t] \in RelocLabel /\ cas' = cas /\ reloc' = reloc /\ loc' = loc
        /\ CASOp(d, reloc[a].dest_op, ToDest(a))
        /\ \E to \in {"reloc_won", "reloc_lost"} : Goto(t, to)
    BY <1>1, <1>2 DEF HelpRelocateDest, RelocLabel
  <1>4. /\ a \in DOMAIN reloc /\ d \in DOMAIN node /\ reloc[a].dest_op.flag = "NONE" /\ DestKey(a)
    BY <1>1, <1>3, RelocHelper
  <1>5. Stepped(A, G, A, G)
    BY <1>1, <1>3, <1>4, InstallStepped DEF TreeNow
  <1>6. PICK to \in {"reloc_won", "reloc_lost"} : Goto(t, to)
    BY <1>3
  <1>7. RelocOutcome(l, to)'
    BY <1>6 DEF RelocOutcome
  <1>8. to \in RelocLabel /\ SetLocals(t, l)
    BY <1>1, <1>3, StayLocals DEF TreeNow, HeapNow, RelocLabel
  <1> QED
    BY <1>1, <1>3, <1>5, <1>6, <1>7, <1>8, RelocHelperAdvanced

LEMMA HelpRelocateWonAdvanced ==
    ASSUME NEW t \in Thread, NEW A, NEW G, TreeNow(t, A, G), HelpRelocateWon(t)
    PROVE  Advanced(t, A, G)
  <1>1. PICK l, a, d : l = loc[t] /\ a = l.reloc_op /\ d = reloc[a].dest
    OBVIOUS
  <1>2. /\ pc[t] = "reloc_won" /\ pc[t] \in RelocLabel /\ node' = node /\ cas' = cas
        /\ Decide(a, "SUCCESSFUL") /\ Goto(t, "reloc_key")
        /\ SetLocals(t, [l EXCEPT !.seen_state = "SUCCESSFUL"])
    BY <1>1 DEF HelpRelocateWon, RelocLabel
  <1>3. l \in LocalState /\ a \in DOMAIN reloc /\ Knows(node, past, reloc, l, pc[t])
    BY <1>1, <1>2, RelocHelper
  <1>4. ToDest(a) \in Had(node, past, d)
    BY <1>1, <1>2, <1>3 DEF Knows
  <1>5. Stepped(A, G, A, G)
    BY <1>1, <1>2, <1>3, <1>4, DecideStepped DEF TreeNow
  <1>6. PICK m : m = [l EXCEPT !.seen_state = "SUCCESSFUL"]
    OBVIOUS
  <1>7. /\ m.seen_state = "SUCCESSFUL" /\ m.reloc_op = a /\ m.curr = l.curr /\ m.pred = l.pred
        /\ m.pred_op = l.pred_op /\ m.auxRoot = l.auxRoot /\ m.auxRoot_op = l.auxRoot_op
        /\ m.work = l.work
    BY <1>1, <1>3, <1>6 DEF LocalState
  <1>8. RelocOutcome(m, "reloc_key")'
    BY <1>7 DEF RelocOutcome
  <1>9. "reloc_key" \in RelocLabel
    BY DEF RelocLabel
  <1> QED
    BY <1>1, <1>2, <1>5, <1>6, <1>7, <1>8, <1>9, RelocHelperAdvanced

LEMMA HelpRelocateLostAdvanced ==
    ASSUME NEW t \in Thread, NEW A, NEW G, TreeNow(t, A, G), HelpRelocateLost(t)
    PROVE  Advanced(t, A, G)
  <1>1. PICK l, a, d, s : l = loc[t] /\ a = l.reloc_op /\ d = reloc[a].dest /\ s = reloc[a].state
    OBVIOUS
  <1>2. /\ pc[t] \in RelocLabel /\ node' = node /\ cas' = cas /\ Decide(a, "FAILED")
        /\ Goto(t, IF s = "SUCCESSFUL" THEN "reloc_key" ELSE "reloc_curr")
        /\ SetLocals(t, [l EXCEPT !.seen_state = s])
    BY <1>1 DEF HelpRelocateLost, RelocLabel
  <1>3. l \in LocalState /\ a \in DOMAIN reloc /\ s \in {"ONGOING", "SUCCESSFUL", "FAILED"}
    BY <1>1, <1>2, RelocHelper
  <1>4. Stepped(A, G, A, G)
    BY <1>1, <1>2, <1>3, DecideStepped DEF TreeNow
  <1>5. PICK m, to : /\ m = [l EXCEPT !.seen_state = s]
                     /\ to = IF s = "SUCCESSFUL" THEN "reloc_key" ELSE "reloc_curr"
    OBVIOUS
  <1>6. /\ m.seen_state = s /\ m.reloc_op = a /\ m.curr = l.curr /\ m.pred = l.pred
        /\ m.pred_op = l.pred_op /\ m.auxRoot = l.auxRoot /\ m.auxRoot_op = l.auxRoot_op
        /\ m.work = l.work
    BY <1>1, <1>3, <1>5 DEF LocalState
  <1>7. s # "SUCCESSFUL" => reloc'[a].state = "FAILED"
    <2>1. reloc[a] = [reloc[a] EXCEPT !.state = reloc[a].state] /\ reloc[a] \in Relocate_OP
      BY <1>1, <1>2, RelocLocals DEF TreeNow, HeapNow, Relocate_OP
    <2> QED
      BY <1>1, <1>2, <1>3, <2>1 DEF Decide, Relocate_OP
  <1>8. RelocOutcome(m, to)'
    BY <1>5, <1>6, <1>7 DEF RelocOutcome
  <1>9. to \in RelocLabel
    BY <1>5 DEF RelocLabel
  <1> QED
    BY <1>1, <1>2, <1>4, <1>5, <1>6, <1>8, <1>9, RelocHelperAdvanced

LEMMA HelpRelocateKeyAdvanced ==
    ASSUME NEW t \in Thread, NEW A, NEW G, TreeNow(t, A, G), HelpRelocateKey(t)
    PROVE  Advanced(t, A, G)
  <1>1. PICK l, a, d : l = loc[t] /\ a = l.reloc_op /\ d = reloc[a].dest
    OBVIOUS
  <1>2. /\ pc[t] = "reloc_key" /\ pc[t] \in RelocLabel /\ cas' = cas /\ reloc' = reloc /\ loc' = loc
        /\ CASKey(reloc[a]) /\ Goto(t, "reloc_clear")
    BY <1>1 DEF HelpRelocateKey, RelocLabel
  <1>3. /\ a \in DOMAIN reloc /\ Knows(node, past, reloc, l, pc[t]) /\ RelocOutcome(l, pc[t])
    BY <1>1, <1>2, RelocHelper
  <1>4. reloc[a].state = "SUCCESSFUL" /\ l.seen_state = "SUCCESSFUL"
    BY <1>1, <1>2, <1>3 DEF Knows, RelocOutcome
  <1>5. /\ Stepped(A, G, A, G)
        /\ Is(d, ToDest(a))' => node'[d].key = reloc[a].replace_key
    BY <1>1, <1>2, <1>3, <1>4, KeyStepped DEF TreeNow, Is
  <1>6. RelocOutcome(l, "reloc_clear")'
    BY <1>1, <1>2, <1>4, <1>5 DEF RelocOutcome, Is
  <1>7. "reloc_clear" \in RelocLabel /\ SetLocals(t, l)
    BY <1>1, <1>2, StayLocals DEF TreeNow, HeapNow, RelocLabel
  <1> QED
    BY <1>1, <1>2, <1>5, <1>6, <1>7, RelocHelperAdvanced

(* Clearing dest of a relocation that has given it its key. *)
LEMMA ClearDestStepped ==
    ASSUME NEW A, NEW G, HeapNow(A, G), StepsSoundly, NEW a \in DOMAIN reloc, NEW d,
           d = reloc[a].dest, d \in DOMAIN node, reloc[a].state = "SUCCESSFUL", DestKey(a),
           Is(d, ToDest(a)) => node[d].key = reloc[a].replace_key,
           CASOp(d, ToDest(a), Flagged("NONE", a)), cas' = cas, reloc' = reloc
    PROVE  Stepped(A, G, A, G) /\ Flagged("NONE", a) \in Had(node', past', d)
  <1>1. PICK v, w : v = ToDest(a) /\ w = Flagged("NONE", a)
    OBVIOUS
  <1>2. v.flag = "RELOCATE" /\ v.op = a /\ w.flag = "NONE" /\ w.op = a /\ w # v
    BY <1>1 DEF ToDest, Flagged
  <1>3. CASE ~Matches(d, v)
    <2>1. node' = node
      BY <1>1, <1>3, CASOpMissed
    <2>2. v \in past[d]
      BY <1>1, <1>3 DEF DestKey, Had, Matches
    <2>3. w \in Had(node, past, d)
      BY <1>1, <2>2 DEF DestKey
    <2>4. Stepped(A, G, A, G)
      BY <2>1, QuietStepped
    <2> QED
      BY <1>1, <2>3, <2>4, LaterNode DEF Stepped
  <1>4. CASE Matches(d, v)
    <2>1. Is(d, v) /\ node[d].op = v /\ node[d].key = reloc[a].replace_key
      BY <1>1, <1>4 DEF Matches, Is
    <2>2. OpChange(d, w) /\ DOMAIN node' = DOMAIN node
      BY <1>1, <1>2, <1>4, CASOpMatched DEF HeapNow
    <2>3. MayBecome(d, w)
      <3>1. \A b \in DOMAIN reloc : w # ToDest(b)
        BY <1>2 DEF ToDest, Flagged
      <3>2. \A b \in DOMAIN reloc : w = Flagged("NONE", b) \/ Is(d, ToDest(b)) => b = a
        BY <1>2, <2>1 DEF Is, ToDest, Flagged
      <3> QED
        BY <1>1, <2>1, <3>1, <3>2 DEF MayBecome
    <2>4. SameView(d)
      <3>1. /\ ~Has(d, "CHILDCAS") /\ ~Has(d, "MARK") /\ Has(d, "RELOCATE")
            /\ PendingRelocation(d) = reloc[a]
            /\ ~Has(d, "CHILDCAS")' /\ ~Has(d, "RELOCATE")'
        BY <1>2, <2>1, <2>2 DEF OpChange, Has, GET_FLAG, PendingRelocation, UNFLAG
      <3>2. node'[d].key = node[d].key /\ node'[d].left = node[d].left /\ node'[d].right = node[d].right
        BY <2>2 DEF OpChange
      <3>3. \A s \in BOOLEAN : Child(d, s)' = Child(d, s)
        BY <3>1, <3>2 DEF Child, ChildOf
      <3>4. CurrentKey(d)' = CurrentKey(d) /\ ~Dead(d)
        BY <2>1, <3>1, <3>2 DEF CurrentKey, Dead, Relocated
      <3> QED
        BY <3>3, <3>4 DEF SameView
    <2>5. \A b \in DOMAIN cas : ~Is(d, Flagged("CHILDCAS", b))
      BY <1>2, <2>1 DEF Is, Flagged
    <2>6. Stepped(A, G, A, G)
      BY <1>2, <2>2, <2>3, <2>4, <2>5, OpChangeStepped
    <2>7. w \in Had(node', past', d)
      BY <2>2 DEF OpChange, Had
    <2> QED
      BY <1>1, <2>6, <2>7
  <1> QED
    BY <1>3, <1>4

LEMMA HelpRelocateClearAdvanced ==
    ASSUME NEW t \in Thread, NEW A, NEW G, TreeNow(t, A, G), HelpRelocateClear(t)
    PROVE  Advanced(t, A, G)
  <1>1. PICK l, a, d : l = loc[t] /\ a = l.reloc_op /\ d = reloc[a].dest
    OBVIOUS
  <1>2. SET_FLAG(OpAt(a), "RELOCATE") = ToDest(a) /\ SET_FLAG(OpAt(a), "NONE") = Flagged("NONE", a)
    BY OpFlags DEF Flag, ToDest
  <1>3. /\ pc[t] = "reloc_clear" /\ pc[t] \in RelocLabel /\ cas' = cas /\ reloc' = reloc /\ loc' = loc
        /\ CASOp(d, ToDest(a), Flagged("NONE", a)) /\ Goto(t, "reloc_curr")
    BY <1>1, <1>2 DEF HelpRelocateClear, ClearOp, RelocLabel
  <1>4. /\ a \in DOMAIN reloc /\ d \in DOMAIN node /\ Knows(node, past, reloc, l, pc[t])
        /\ RelocOutcome(l, pc[t]) /\ DestKey(a)
    BY <1>1, <1>3, RelocHelper
  <1>5. /\ reloc[a].state = "SUCCESSFUL" /\ l.seen_state = "SUCCESSFUL"
        /\ Is(d, ToDest(a)) => node[d].key = reloc[a].replace_key
    BY <1>1, <1>3, <1>4 DEF Knows, RelocOutcome
  <1>6. Stepped(A, G, A, G) /\ Flagged("NONE", a) \in Had(node', past', d)
    BY <1>1, <1>3, <1>4, <1>5, ClearDestStepped DEF TreeNow
  <1>7. RelocOutcome(l, "reloc_curr")'
    BY <1>1, <1>3, <1>5, <1>6 DEF RelocOutcome
  <1>8. "reloc_curr" \in RelocLabel /\ SetLocals(t, l)
    BY <1>1, <1>3, StayLocals DEF TreeNow, HeapNow, RelocLabel
  <1> QED
    BY <1>1, <1>3, <1>6, <1>7, <1>8, RelocHelperAdvanced

(* Replace is marked when its key has moved, else released. *)
LEMMA ReleaseStepped ==
    ASSUME NEW A, NEW G, HeapNow(A, G), StepsSoundly, NEW a \in DOMAIN reloc,
           NEW c \in DOMAIN node, c # reloc[a].dest, Replaced(A, a, c),
           ToDest(a) \in Had(node, past, c), NEW f \in {"MARK", "NONE"},
           f = "MARK" => reloc[a].state = "SUCCESSFUL", f = "NONE" => reloc[a].state = "FAILED",
           CASOp(c, ToDest(a), Flagged(f, a)), cas' = cas, reloc' = reloc
    PROVE  Stepped(A, G, A, G) /\ (f = "MARK" => Has(c, "MARK")')
  <1>1. PICK v, w : v = ToDest(a) /\ w = Flagged(f, a)
    OBVIOUS
  <1>2. v.flag = "RELOCATE" /\ v.op = a /\ w.flag = f /\ w.op = a /\ w # v
    BY <1>1 DEF ToDest, Flagged
  <1>3. CASE ~Matches(c, v)
    <2>1. node' = node
      BY <1>1, <1>3, CASOpMissed
    <2>2. v \in past[c]
      BY <1>1, <1>3 DEF Had, Matches
    <2>3. f = "MARK" => Has(c, "MARK")
      BY <1>1, <2>2 DEF Replaced
    <2>4. Stepped(A, G, A, G)
      BY <2>1, QuietStepped
    <2> QED
      BY <2>1, <2>3, <2>4 DEF Has
  <1>4. CASE Matches(c, v)
    <2>1. Is(c, v) /\ node[c].op = v
      BY <1>4 DEF Matches, Is
    <2>2. OpChange(c, w) /\ DOMAIN node' = DOMAIN node
      BY <1>1, <1>2, <1>4, CASOpMatched DEF HeapNow
    <2>3. MayBecome(c, w)
      <3>1. \A b \in DOMAIN reloc : w # ToDest(b)
        BY <1>2 DEF ToDest, Flagged
      <3>2. \A b \in DOMAIN reloc : w = Flagged("NONE", b) \/ Is(c, ToDest(b)) => b = a
        BY <1>2, <2>1 DEF Is, ToDest, Flagged
      <3> QED
        BY <1>2, <3>1, <3>2 DEF MayBecome
    <2>4. SameView(c)
      <3>1. /\ ~Has(c, "CHILDCAS") /\ ~Has(c, "MARK") /\ Has(c, "RELOCATE")
            /\ PendingRelocation(c) = reloc[a]
            /\ ~Has(c, "CHILDCAS")' /\ ~Has(c, "RELOCATE")' /\ (f = "MARK" => Has(c, "MARK")')
        BY <1>2, <2>1, <2>2 DEF OpChange, Has, GET_FLAG, PendingRelocation, UNFLAG
      <3>2. node'[c].key = node[c].key /\ node'[c].left = node[c].left /\ node'[c].right = node[c].right
        BY <2>2 DEF OpChange
      <3>3. \A s \in BOOLEAN : Child(c, s)' = Child(c, s)
        BY <3>1, <3>2 DEF Child, ChildOf
      <3>4. CurrentKey(c)' = CurrentKey(c)
        BY <3>1, <3>2 DEF CurrentKey, Relocated
      <3>5. Dead(c) => Dead(c)'
        BY <3>1 DEF Dead, Relocated
      <3> QED
        BY <3>3, <3>4, <3>5 DEF SameView
    <2>5. \A b \in DOMAIN cas : ~Is(c, Flagged("CHILDCAS", b))
      BY <1>2, <2>1 DEF Is, Flagged
    <2>6. IS_NULL(node[c].left)
      BY <1>1, <2>1 DEF Replaced
    <2>7. Stepped(A, G, A, G)
      BY <1>2, <2>2, <2>3, <2>4, <2>5, <2>6, OpChangeStepped
    <2>8. f = "MARK" => Has(c, "MARK")'
      BY <1>2, <2>2 DEF OpChange, Has, GET_FLAG
    <2> QED
      BY <2>7, <2>8
  <1> QED
    BY <1>3, <1>4

LEMMA RelocateFailedAdvanced ==
    ASSUME NEW t \in Thread, NEW A, NEW G, TreeNow(t, A, G), NEW B, NEW H, Stepped(A, G, B, H),
           RelocateFailed(t)
    PROVE  Advanced(t, A, G)
  <1>1. RetryFind(t) \/ Loop(t)
    BY DEF RelocateFailed
  <1> QED
    BY <1>1, RetryFindAdvanced, LoopAdvanced

LEMMA HelpRelocateCurrAdvanced ==
    ASSUME NEW t \in Thread, NEW A, NEW G, TreeNow(t, A, G), HelpRelocateCurr(t)
    PROVE  Advanced(t, A, G)
  <1>1. PICK l, a, d, c : l = loc[t] /\ a = l.reloc_op /\ d = reloc[a].dest /\ c = l.curr
    OBVIOUS
  <1>2. /\ pc[t] = "reloc_curr" /\ pc[t] \in RelocLabel /\ cas' = cas /\ reloc' = reloc
    BY DEF HelpRelocateCurr, RelocLabel
  <1>3. /\ l \in LocalState /\ a \in DOMAIN reloc /\ d \in DOMAIN node
        /\ c \in DOMAIN node /\ l.pred \in DOMAIN node /\ l.pred_op.flag = "NONE"
        /\ Knows(node, past, reloc, l, pc[t])
        /\ RelocPair(A, G, a, l.pred, l.pred_op, c) /\ RelocOutcome(l, pc[t])
        /\ (c # d => Replaced(A, a, c))
    BY <1>1, <1>2, RelocHelper
  <1>4. CASE d = c
    <2>1. node' = node /\ (Helped(t) \/ RelocateFailed(t))
      BY <1>1, <1>4 DEF HelpRelocateCurr
    <2>2. Stepped(A, G, A, G)
      BY <1>2, <2>1, QuietStepped DEF TreeNow
    <2> QED
      BY <2>1, <2>2, HelpedAdvanced, RelocateFailedAdvanced
  <1>5. CASE d # c /\ l.seen_state # "SUCCESSFUL"
    <2>1. SET_FLAG(OpAt(a), "RELOCATE") = ToDest(a) /\ SET_FLAG(OpAt(a), "NONE") = Flagged("NONE", a)
      BY OpFlags DEF Flag, ToDest
    <2>2. CASOp(c, ToDest(a), Flagged("NONE", a)) /\ RelocateFailed(t)
      BY <1>1, <1>5, <2>1 DEF HelpRelocateCurr, ReplaceFlag
    <2>3. reloc[a].state = "FAILED" /\ ToDest(a) \in Had(node, past, c)
      BY <1>1, <1>2, <1>3, <1>5 DEF RelocOutcome, RelocPair
    <2>4. Stepped(A, G, A, G)
      BY <1>1, <1>2, <1>3, <1>5, <2>2, <2>3, ReleaseStepped DEF TreeNow
    <2> QED
      BY <2>2, <2>4, RelocateFailedAdvanced
  <1>6. CASE d # c /\ l.seen_state = "SUCCESSFUL"
    <2>1. SET_FLAG(OpAt(a), "RELOCATE") = ToDest(a) /\ SET_FLAG(OpAt(a), "MARK") = Flagged("MARK", a)
      BY OpFlags DEF Flag, ToDest
    <2>2. PICK po : po = UnlinkOp(l, d)
      OBVIOUS
    <2>3. CASOp(c, ToDest(a), Flagged("MARK", a)) /\ helpMarked(t, l, l.pred, po, c, l.ret)
      BY <1>1, <1>6, <2>1, <2>2 DEF HelpRelocateCurr, ReplaceFlag
    <2>4. /\ reloc[a].state = "SUCCESSFUL" /\ ToDest(a) \in Had(node, past, c)
          /\ Flagged("NONE", a) \in Had(node, past, d)
          /\ Pair(A, G, l.pred, l.pred_op, c)
          /\ c \in G /\ l.pred = d => ~Is(d, Flagged("NONE", a))
      BY <1>1, <1>2, <1>3, <1>6 DEF RelocOutcome, RelocPair, Knows
    <2>5. Stepped(A, G, A, G) /\ Has(c, "MARK")'
      BY <1>1, <1>2, <1>3, <1>6, <2>3, <2>4, ReleaseStepped DEF TreeNow
    <2>6. Pair(A, G, l.pred, po, c) /\ po.flag = "NONE"
      <3>1. CASE l.pred # d
        <4>1. po = l.pred_op
          BY <2>2, <3>1 DEF UnlinkOp
        <4> QED
          BY <1>3, <2>4, <4>1
      <3>2. CASE l.pred = d
        <4>1. po = Flagged("NONE", a)
          BY <1>1, <2>2, <3>2, OpFlags DEF UnlinkOp, Flag
        <4>2. po.flag = "NONE"
          BY <4>1 DEF Flagged
        <4> QED
          BY <2>4, <3>2, <4>1, <4>2 DEF Pair
      <3> QED
        BY <3>1, <3>2
    <2>7. Pair(A, G, l.pred, po, c)'
      BY <1>3, <2>5, <2>6, PairLater DEF Stepped
    <2> QED
      BY <1>1, <1>3, <2>3, <2>5, <2>7, ContinuesSame, helpMarkedAdvanced
  <1> QED
    BY <1>4, <1>5, <1>6

-----------------------------------------------------------------------------
(***************************************************************************)
(* The steps of a thread and of the program.                               *)
(***************************************************************************)
LEMMA FindAddAdvanced ==
    ASSUME NEW t \in Thread, NEW A, NEW G, TreeNow(t, A, G), Find(t) \/ Add(t)
    PROVE  Advanced(t, A, G)
  <1>1. CASE Find(t)
    BY <1>1, FindStartAdvanced, FindNextAdvanced, FindVisitAdvanced, FindKeyAdvanced,
       FindLastRightAdvanced, FindCurrAdvanced DEF Find
  <1>2. CASE Add(t)
    BY <1>2, AddReadOldAdvanced, AddPublishAdvanced DEF Add
  <1> QED
    BY <1>1, <1>2

LEMMA RemoveAdvanced ==
    ASSUME NEW t \in Thread, NEW A, NEW G, TreeNow(t, A, G), ~ReusesBlocks, Remove(t)
    PROVE  Advanced(t, A, G)
  BY RemoveReadRightAdvanced, RemoveReadLeftAdvanced, RemoveMarkAdvanced,
     RemoveRecheckAdvanced, RemoveReadKeyAdvanced, RemovePublishAdvanced DEF Remove

LEMMA HelpAdvanced ==
    ASSUME NEW t \in Thread, NEW A, NEW G, TreeNow(t, A, G),
           HelpChildCAS(t) \/ HelpMarked(t) \/ HelpRelocate(t)
    PROVE  Advanced(t, A, G)
  <1>1. CASE HelpChildCAS(t)
    BY <1>1, HelpChildCASSwingAdvanced, HelpChildCASClearAdvanced DEF HelpChildCAS
  <1>2. CASE HelpMarked(t)
    BY <1>2, HelpMarkedReadAdvanced, HelpMarkedSideAdvanced, HelpMarkedPublishAdvanced
       DEF HelpMarked
  <1>3. CASE HelpRelocate(t)
    BY <1>3, HelpRelocateStateAdvanced, HelpRelocateDestAdvanced, HelpRelocateWonAdvanced,
       HelpRelocateLostAdvanced, HelpRelocateKeyAdvanced, HelpRelocateClearAdvanced,
       HelpRelocateCurrAdvanced DEF HelpRelocate
  <1> QED
    BY <1>1, <1>2, <1>3

LEMMA StepAdvanced ==
    ASSUME NEW t \in Thread, NEW A, NEW G, TreeNow(t, A, G), ~ReusesBlocks,
           Step(t) \/ (t = Main /\ CreateTree)
    PROVE  Advanced(t, A, G)
  BY CallAdvanced, FindAddAdvanced, RemoveAdvanced, HelpAdvanced DEF Step

(* Every action of t moves t alone. *)
MovesOnly(t) == \E at, m : Goto(t, at) /\ SetLocals(t, m)

LEMMA MovesBy ==
    ASSUME NEW t \in Thread
    PROVE  /\ RetryFind(t) => MovesOnly(t)
           /\ Loop(t) => MovesOnly(t)
           /\ \A b : Answer(t, b) => MovesOnly(t)
           /\ Helped(t) => MovesOnly(t)
           /\ RelocateFailed(t) => MovesOnly(t)
           /\ \A l, o, d, ret : helpChildCAS(t, l, o, d, ret) => MovesOnly(t)
           /\ \A l, p, o, c, ret : helpMarked(t, l, p, o, c, ret) => MovesOnly(t)
           /\ \A l, a, p, o, c, ret : helpRelocate(t, l, a, p, o, c, ret) => MovesOnly(t)
  <1>1. RetryFind(t) => MovesOnly(t)
    BY DEF RetryFind, MovesOnly
  <1>2. Loop(t) => MovesOnly(t)
    BY DEF Loop, MovesOnly
  <1>3. \A b : Answer(t, b) => MovesOnly(t)
    BY DEF Answer, MovesOnly
  <1>4. Helped(t) => MovesOnly(t)
    BY <1>1, <1>3 DEF Helped
  <1>5. RelocateFailed(t) => MovesOnly(t)
    BY <1>1, <1>2 DEF RelocateFailed
  <1>6. \A l, o, d, ret : helpChildCAS(t, l, o, d, ret) => MovesOnly(t)
    BY DEF helpChildCAS, MovesOnly
  <1>7. \A l, p, o, c, ret : helpMarked(t, l, p, o, c, ret) => MovesOnly(t)
    BY DEF helpMarked, MovesOnly
  <1>8. \A l, a, p, o, c, ret : helpRelocate(t, l, a, p, o, c, ret) => MovesOnly(t)
    BY DEF helpRelocate, MovesOnly
  <1> QED
    BY <1>1, <1>2, <1>3, <1>4, <1>5, <1>6, <1>7, <1>8

LEMMA StayMovesOnly ==
    ASSUME Inv, NEW t \in Thread, NEW to, Goto(t, to), loc' = loc
    PROVE  MovesOnly(t)
  BY StayLocals DEF MovesOnly

LEMMA CallFindMoves ==
    ASSUME Inv, OpsInv, NEW t \in Thread,
           TakeWork(t) \/ (t = Main /\ CreateTree) \/ Return(t) \/ Find(t)
    PROVE  MovesOnly(t)
  BY CallMoves, FindMoves DEF Moves, MovesOnly

LEMMA AddRemoveMoves ==
    ASSUME Inv, NEW t \in Thread, Add(t) \/ Remove(t)
    PROVE  MovesOnly(t)
  <1>1. CASE AddReadOld(t) \/ RemoveReadKey(t)
    BY <1>1 DEF AddReadOld, RemoveReadKey, MovesOnly
  <1>2. CASE AddPublish(t)
    BY <1>2, MovesBy DEF AddPublish
  <1>3. CASE RemoveReadRight(t) \/ RemoveRecheck(t)
    BY <1>3, MovesBy, StayMovesOnly DEF RemoveReadRight, RemoveRecheck
  <1>4. CASE RemoveReadLeft(t)
    BY <1>4, StayMovesOnly DEF RemoveReadLeft, MovesOnly
  <1>5. CASE RemoveMark(t)
    BY <1>5, MovesBy DEF RemoveMark
  <1>6. CASE RemovePublish(t)
    BY <1>6, MovesBy DEF RemovePublish
  <1> QED
    BY <1>1, <1>2, <1>3, <1>4, <1>5, <1>6 DEF Add, Remove

LEMMA HelpMoves ==
    ASSUME Inv, NEW t \in Thread, HelpChildCAS(t) \/ HelpMarked(t) \/ HelpRelocate(t)
    PROVE  MovesOnly(t)
  <1>1. CASE HelpChildCASSwing(t) \/ HelpMarkedTestLeft(t)
    BY <1>1, StayMovesOnly DEF HelpChildCASSwing, HelpMarkedTestLeft
  <1>2. CASE HelpChildCASClear(t)
    BY <1>2, MovesBy DEF HelpChildCASClear
  <1>3. CASE HelpMarkedTestRight(t)
    BY <1>3, StayMovesOnly DEF HelpMarkedTestRight, MovesOnly
  <1>4. CASE HelpMarkedTake(t) \/ HelpMarkedSide(t)
    BY <1>4 DEF HelpMarkedTake, HelpMarkedSide, MovesOnly
  <1>5. CASE HelpMarkedPublish(t)
    BY <1>5, MovesBy DEF HelpMarkedPublish
  <1>6. CASE HelpRelocateState(t) \/ HelpRelocateWon(t) \/ HelpRelocateLost(t)
    BY <1>6 DEF HelpRelocateState, HelpRelocateWon, HelpRelocateLost, MovesOnly
  <1>7. CASE HelpRelocateDest(t) \/ HelpRelocateKey(t) \/ HelpRelocateClear(t)
    BY <1>7, StayMovesOnly DEF HelpRelocateDest, HelpRelocateKey, HelpRelocateClear
  <1>8. CASE HelpRelocateCurr(t)
    BY <1>8, MovesBy DEF HelpRelocateCurr
  <1> QED
    BY <1>1, <1>2, <1>3, <1>4, <1>5, <1>6, <1>7, <1>8 DEF HelpChildCAS, HelpMarked, HelpRelocate

LEMMA StepMoves ==
    ASSUME Inv, OpsInv, NEW t \in Thread, Step(t) \/ (t = Main /\ CreateTree)
    PROVE  MovesOnly(t)
  BY CallFindMoves, AddRemoveMoves, HelpMoves DEF Step

(* All threads know what they need after a step of one. *)
AllKnow(A, G) == \A t \in Thread : ThreadInv(A, G, loc[t], pc[t])

LEMMA OneStep ==
    ASSUME NEW A, NEW G, HeapNow(A, G), AllKnow(A, G), StepsSoundly, ~ReusesBlocks, NEW t \in Thread,
           Step(t) \/ (t = Main /\ CreateTree)
    PROVE  \E B, H : Stepped(A, G, B, H) /\ AllKnow(B, H)'
  <1>1. Advanced(t, A, G)
    BY StepAdvanced DEF TreeNow, AllKnow
  <1>2. PICK B, H : Stepped(A, G, B, H) /\ ThreadInv(B, H, loc[t], pc[t])'
    BY <1>1 DEF Advanced
  <1>3. PICK to, m : Goto(t, to) /\ SetLocals(t, m)
    BY StepMoves DEF MovesOnly, HeapNow
  <1>4. ASSUME NEW u \in Thread PROVE ThreadInv(B, H, loc[u], pc[u])'
    <2>1. CASE u = t
      BY <1>2, <2>1
    <2>2. CASE u # t
      <3>1. PICK l, at : l = loc[u] /\ at = pc[u]
        OBVIOUS
      <3>2. Stands(l, at) /\ ThreadInv(A, G, l, at)
        BY <3>1, StandsNow DEF HeapNow, AllKnow
      <3>3. ThreadInv(B, H, l, at)'
        BY <1>2, <3>2, ThreadKept DEF Stepped
      <3>4. loc'[u] = l /\ pc'[u] = at
        BY <1>3, <2>2, <3>1, OthersStay DEF HeapNow
      <3> QED
        BY <3>3, <3>4
    <2> QED
      BY <2>1, <2>2
  <1>5. AllKnow(B, H)'
    BY <1>4 DEF AllKnow
  <1> QED
    BY <1>2, <1>5

LEMMA NoStep ==
    ASSUME NEW A, NEW G, HeapNow(A, G), AllKnow(A, G), StepsSoundly, UNCHANGED vars
    PROVE  \E B, H : Stepped(A, G, B, H) /\ AllKnow(B, H)'
  <1>1. node' = node /\ cas' = cas /\ reloc' = reloc /\ loc' = loc /\ pc' = pc
    BY DEF vars, heap
  <1>2. Stepped(A, G, A, G)
    BY <1>1, QuietStepped
  <1>3. ASSUME NEW u \in Thread PROVE ThreadInv(A, G, loc[u], pc[u])'
    <2>1. PICK l, at : l = loc[u] /\ at = pc[u]
      OBVIOUS
    <2>2. Stands(l, at) /\ ThreadInv(A, G, l, at)
      BY <2>1, StandsNow DEF HeapNow, AllKnow
    <2>3. ThreadInv(A, G, l, at)'
      BY <1>2, <2>2, ThreadKept DEF Stepped
    <2>4. loc'[u] = l /\ pc'[u] = at
      BY <1>1, <2>1
    <2> QED
      BY <2>3, <2>4
  <1>4. AllKnow(A, G)'
    BY <1>3 DEF AllKnow
  <1> QED
    BY <1>2, <1>4

(* What every step of the program does to the tree. *)
LEMMA TreeSteps ==
    ASSUME Inv, OpsInv, NEW A, NEW G, HeapInv(A, G), AllKnow(A, G), ~ReusesBlocks,
           [HistoryNext]_hvars
    PROVE  /\ Inv' /\ OpsInv'
           /\ \E B, H : Stepped(A, G, B, H) /\ AllKnow(B, H)'
  <1>1. [Next]_vars
    BY DEF HistoryNext, hvars
  <1>2. Inv' /\ OpsInv'
    BY <1>1, NextInv, NextKeepsOps
  <1>3. Recorded
    <2>1. CASE HistoryNext
      BY <2>1 DEF HistoryNext, Remembered, Recorded
    <2>2. CASE UNCHANGED hvars
      <3>1. past' = past /\ node' = node
        BY <2>2 DEF hvars, vars, heap
      <3>2. Remembered(node, past, node') = past
        BY <3>1, SameOpsHistory DEF OpsInv, HeapOps, SameOps
      <3> QED
        BY <3>1, <3>2 DEF Recorded
    <2> QED
      BY <2>1, <2>2
  <1>4. HeapNow(A, G) /\ StepsSoundly
    BY <1>2, <1>3 DEF HeapNow, StepsSoundly
  <1>5. CASE CreateTree \/ \E t \in Thread : Step(t)
    BY <1>2, <1>4, <1>5, OneStep DEF Thread
  <1>6. CASE UNCHANGED vars
    BY <1>2, <1>4, <1>6, NoStep
  <1> QED
    BY <1>1, <1>2, <1>5, <1>6 DEF Next, Terminated

-----------------------------------------------------------------------------
(***************************************************************************)
(* The first state: base_root alone.                                       *)
(***************************************************************************)
LEMMA InitHeap ==
    ASSUME HistoryInit
    PROVE  /\ DOMAIN node = {base_root} /\ node[base_root] = create_LF_node(-1)
           /\ cas = <<>> /\ reloc = <<>> /\ past[base_root] = {}
           /\ DOMAIN cas = {} /\ DOMAIN reloc = {}
           /\ \A t \in Thread : pc[t] = "idle" /\ loc[t] = Locals(NoWork)
  <1>1. DOMAIN node = {base_root} /\ node[base_root] = create_LF_node(-1)
    BY DEF HistoryInit, Init, Store
  <1> QED
    BY <1>1 DEF HistoryInit, Init

LEMMA InitTree ==
    ASSUME HistoryInit, NEW A, A = [n \in {base_root} |-> {}]
    PROVE  TreeOK(A, {})
  <1>1. /\ DOMAIN node = {base_root} /\ node[base_root] = create_LF_node(-1)
        /\ DOMAIN A = {base_root} /\ A[base_root] = {}
    BY InitHeap
  <1>2. /\ node[base_root].op = NullOp /\ node[base_root].key = -1
        /\ IS_NULL(node[base_root].left) /\ IS_NULL(node[base_root].right)
        /\ NullOp.flag = "NONE"
    BY <1>1 DEF create_LF_node, SET_NULL, IS_NULL, NullOp, OpAt
  <1>3. \A f \in {"MARK", "CHILDCAS", "RELOCATE"} : ~Has(base_root, f)
    BY <1>2 DEF Has, GET_FLAG
  <1>4. \A s \in BOOLEAN : IS_NULL(Child(base_root, s)) /\ IS_NULL(ChildOf(node[base_root], s))
    BY <1>2, <1>3 DEF Child, ChildOf
  <1>5. \A s \in BOOLEAN : IS_NULL(Kids[base_root][s]) /\ IS_NULL(Pointers[base_root][s])
    BY <1>1, <1>4 DEF Kids, Pointers
  <1>6. Ancestors(A, {}) /\ FromRoot(A, {}) /\ Branches(A, {})
    BY <1>1 DEF Ancestors, FromRoot, Branches, Linked
  <1>7. Children(Kids, A, {}) /\ PointersHang(Pointers, A, {}) /\ Below(Kids, A, {})
    BY <1>1, <1>5 DEF Children, PointersHang, Below, Linked
  <1>8. CurrentKey(base_root) = -1
    BY <1>2, <1>3 DEF CurrentKey, Relocated
  <1>9. Order(A, {}, Keys, CurrentKeys, DeadNodes)
    BY <1>1, <1>2, <1>8 DEF Order, Keys, CurrentKeys, Linked
  <1>10. IsFiniteSet(DOMAIN node)
    BY <1>1, FS_Singleton
  <1>11. MarkedHasSpareChild
    BY <1>1 DEF MarkedHasSpareChild, Node
  <1> QED
    BY <1>1, <1>6, <1>7, <1>9, <1>10, <1>11 DEF TreeOK, Shape

LEMMA InitThread ==
    ASSUME HistoryInit, NEW A, NEW G, NEW t \in Thread
    PROVE  ThreadInv(A, G, loc[t], pc[t])
  <1>1. PICK l, at : l = loc[t] /\ at = pc[t]
    OBVIOUS
  <1>2. at = "idle" /\ l.auxRoot = base_root
    BY <1>1, InitHeap DEF Locals
  <1>3. Room(A, l, at) /\ FirstFind(A, G, l, at) /\ SecondFind(A, l, at) /\ OpsFind(A, G, l, at)
    BY <1>2 DEF Room, FirstFind, SecondFind, OpsFind, FindLabel, OpLabel
  <1>4. Helps(A, G, l, at)
    BY <1>2 DEF Helps, HelpsMarked, HelpsChildCAS, HelpsRelocate, ChildLabel, MarkLabel, RelocLabel
  <1> QED
    BY <1>1, <1>3, <1>4 DEF ThreadInv

LEMMA TreeInit == HistoryInit => TreeInv
  <1> SUFFICES ASSUME HistoryInit PROVE TreeInv
    OBVIOUS
  <1>1. PICK A : A = [n \in {base_root} |-> {}]
    OBVIOUS
  <1>2. TreeOK(A, {})
    BY <1>1, InitTree
  <1>3. Swings({})
    <2>1. /\ DOMAIN node = {base_root} /\ node[base_root] = create_LF_node(-1)
          /\ DOMAIN cas = {}
      BY InitHeap
    <2>2. node[base_root].op.flag = "NONE"
      BY <2>1 DEF create_LF_node, NullOp, OpAt
    <2>3. \A s \in BOOLEAN : NullOK({}, ChildOf(node[base_root], s))
      BY <2>1 DEF create_LF_node, SET_NULL, NullOK, ChildOf
    <2> QED
      BY <2>1, <2>2, <2>3 DEF Swings, Has, GET_FLAG
  <1>4. RelocationsOK(A)
    BY InitHeap DEF RelocationsOK
  <1>5. HeapInv(A, {})
    BY <1>2, <1>3, <1>4 DEF HeapInv
  <1>6. Inv /\ OpsInv
    BY InitInv, OpsInit DEF HistoryInit
  <1> QED
    BY <1>5, <1>6, InitThread DEF TreeInv

-----------------------------------------------------------------------------
(***************************************************************************)
(* The theorems.                                                           *)
(***************************************************************************)
LEMMA TreeNext ==
    ASSUME TreeInv, ~ReusesBlocks, [HistoryNext]_hvars
    PROVE  TreeInv' /\ \E A, G, B, H : HeapInv(A, G) /\ Stepped(A, G, B, H)
  <1>1. PICK A, G : HeapInv(A, G) /\ AllKnow(A, G)
    BY DEF TreeInv, AllKnow
  <1>2. Inv /\ OpsInv
    BY DEF TreeInv
  <1>3. /\ Inv' /\ OpsInv'
        /\ \E B, H : Stepped(A, G, B, H) /\ AllKnow(B, H)'
    BY <1>1, <1>2, TreeSteps
  <1>4. PICK B, H : Stepped(A, G, B, H) /\ AllKnow(B, H)'
    BY <1>3
  <1>5. HeapInv(B, H)'
    BY <1>4 DEF Stepped
  <1>6. TreeInv'
    BY <1>3, <1>4, <1>5 DEF TreeInv, AllKnow
  <1> QED
    BY <1>1, <1>4, <1>6

(* When no deleted block is used again, the inductive invariant holds in   *)
(* every state of every run of the tree with its history: the nodes hang   *)
(* together as a search tree whatever operations are under way, and every  *)
(* thread knows of it what its next steps rely on.                         *)
THEOREM AlwaysTreeInv ==
    ASSUME ~ReusesBlocks
    PROVE  HistorySpec => []TreeInv
  <1>1. TreeInv /\ [HistoryNext]_hvars => TreeInv'
    BY TreeNext
  <1> QED
    BY <1>1, TreeInit, PTL DEF HistorySpec

(* When no deleted block is used again, a marked node has a child pointer  *)
(* that is null, in every state of every run: helpMarked() loses nothing   *)
(* when it puts one child in the place of the node.                        *)
THEOREM AlwaysSpareChild ==
    ASSUME ~ReusesBlocks
    PROVE  HistorySpec => []MarkedHasSpareChild
  <1>1. TreeInv => MarkedHasSpareChild
    BY DEF TreeInv, HeapInv, TreeOK
  <1> QED
    BY <1>1, AlwaysTreeInv, PTL

(* When no deleted block is used again, no step lowers the key of a node,  *)
(* not even one of a helper that swaps the key late.                       *)
THEOREM KeysOnlyGrow ==
    ASSUME ~ReusesBlocks
    PROVE  HistorySpec => KeysGrow
  <1>1. ASSUME TreeInv, [HistoryNext]_hvars, NEW n \in DOMAIN node
        PROVE  node'[n].key >= node[n].key
    <2>1. PICK A, G, B, H : Stepped(A, G, B, H)
      BY <1>1, TreeNext
    <2> QED
      BY <1>1, <2>1, LaterNode DEF Stepped
  <1>2. TreeInv /\ [HistoryNext]_hvars => [\A n \in DOMAIN node : node'[n].key >= node[n].key]_vars
    BY <1>1
  <1> QED
    BY <1>2, AlwaysTreeInv, PTL DEF HistorySpec, KeysGrow

(* When no deleted block is used again, no step changes a marked node,     *)
(* neither its op, nor its key, nor its child pointers: no insert is lost  *)
(* below a node that is about to be unlinked, and no late swing revives    *)
(* it.                                                                     *)
THEOREM MarkedStayFrozen ==
    ASSUME ~ReusesBlocks
    PROVE  HistorySpec => MarkedFrozen
  <1>1. ASSUME TreeInv, [HistoryNext]_hvars, NEW n \in DOMAIN node, Has(n, "MARK")
        PROVE  node'[n] = node[n]
    <2>1. PICK A, G, B, H : Stepped(A, G, B, H)
      BY <1>1, TreeNext
    <2> QED
      BY <1>1, <2>1, MarkKept DEF Stepped
  <1>2. TreeInv /\ [HistoryNext]_hvars =>
           [\A n \in DOMAIN node : Has(n, "MARK") => node'[n] = node[n]]_vars
    BY <1>1
  <1> QED
    BY <1>2, AlwaysTreeInv, PTL DEF HistorySpec, MarkedFrozen

-----------------------------------------------------------------------------
(***************************************************************************)
(* The walk, by depth.                                                     *)
(***************************************************************************)
LEMMA LeastOf ==
    ASSUME NEW S, S \subseteq Nat, S # {}
    PROVE  \E m \in S : \A n \in S : m <= n
  <1>1. PICK m \in S : \A n \in S : ~(<<n, m>> \in OpToRel(<, Nat))
    BY NatLessThanWellFounded, WFMin
  <1>2. ASSUME NEW n \in S PROVE m <= n
    <2>1. <<n, m>> \notin {z \in Nat \X Nat : z[1] < z[2]}
      BY <1>1, Zenon DEF OpToRel
    <2>2. ~(n < m)
      BY ONLY <2>1, n \in Nat, m \in Nat
    <2> QED
      BY <2>2
  <1> QED
    BY <1>2

(* The walks from all nodes, given those of one level less. *)
WalkSide(K, f, d, n, s) == IF IS_NULL(K[n][s]) \/ d = 0 THEN <<>> ELSE f[K[n][s].node]

Row(K, E, f, d) ==
    [n \in DOMAIN node |-> WalkSide(K, f, d, n, TRUE) \o E[n] \o WalkSide(K, f, d, n, FALSE)]

WalkTo(K, E, w, n) == w = [depth \in 0 .. n |-> Row(K, E, w[depth - 1], depth)]

LEMMA WalkRow ==
    ASSUME NEW K, NEW E, NEW n \in Nat, NEW w, WalkTo(K, E, w, n), NEW d \in 0 .. n
    PROVE  w[d] = Row(K, E, w[d - 1], d)
  BY DEF WalkTo

LEMMA RowZero ==
    ASSUME NEW K, NEW E, NEW f, NEW g
    PROVE  Row(K, E, f, 0) = Row(K, E, g, 0)
  BY DEF Row, WalkSide

LEMMA WalkMore ==
    ASSUME NEW K, NEW E, NEW n \in Nat, NEW v, n # 0 => WalkTo(K, E, v, n - 1)
    PROVE  \E w : WalkTo(K, E, w, n)
  <1> DEFINE w == [depth \in 0 .. n |-> IF depth = n THEN Row(K, E, v[n - 1], n) ELSE v[depth]]
  <1>1. ASSUME NEW d \in 0 .. n PROVE w[d] = Row(K, E, w[d - 1], d)
    <2>1. CASE d = n /\ n = 0
      <3>1. w[d] = Row(K, E, v[n - 1], 0)
        BY <2>1
      <3>2. Row(K, E, v[n - 1], 0) = Row(K, E, w[d - 1], 0)
        BY RowZero
      <3> QED
        BY <2>1, <3>1, <3>2
    <2>2. CASE d = n /\ n # 0
      <3>1. w[d] = Row(K, E, v[n - 1], n) /\ d - 1 \in 0 .. n /\ d - 1 # n
        BY <2>2
      <3>2. w[d - 1] = v[n - 1]
        BY <2>2, <3>1
      <3> QED
        BY <2>2, <3>1, <3>2
    <2>3. CASE d # n
      <3>1. n # 0 /\ n - 1 \in Nat /\ d \in 0 .. n - 1
        BY <2>3
      <3>2. w[d] = v[d] /\ v[d] = Row(K, E, v[d - 1], d)
        BY <2>3, <3>1, WalkRow
      <3>3. CASE d = 0
        <4>1. Row(K, E, v[d - 1], 0) = Row(K, E, w[d - 1], 0)
          BY RowZero
        <4> QED
          BY <3>2, <3>3, <4>1
      <3>4. CASE d # 0
        <4>1. d - 1 \in 0 .. n /\ d - 1 # n
          BY <3>1, <3>4
        <4>2. w[d - 1] = v[d - 1]
          BY <4>1
        <4> QED
          BY <3>2, <4>2
      <3> QED
        BY <3>3, <3>4
    <2> QED
      BY <2>1, <2>2, <2>3
  <1>2. WalkTo(K, E, [depth \in 0 .. n |-> w[depth]], n)
    <2>1. w = [depth \in 0 .. n |-> w[depth]]
      OBVIOUS
    <2> HIDE DEF w
    <2>2. [depth \in 0 .. n |-> w[depth]] = [depth \in 0 .. n |-> Row(K, E, w[depth - 1], depth)]
      BY <1>1
    <2> QED
      BY <2>1, <2>2 DEF WalkTo
  <1> QED
    BY <1>2

LEMMA WalkExists == \A K, E : \A n \in Nat : \E w : WalkTo(K, E, w, n)
  <1> SUFFICES ASSUME NEW K, NEW E PROVE \A n \in Nat : \E w : WalkTo(K, E, w, n)
    OBVIOUS
  <1> DEFINE Bad == {n \in Nat : ~\E w : WalkTo(K, E, w, n)}
  <1> SUFFICES ASSUME Bad # {} PROVE FALSE
    OBVIOUS
  <1>1. PICK n \in Bad : \A m \in Bad : n <= m
    <2>1. Bad \subseteq Nat
      OBVIOUS
    <2> HIDE DEF Bad
    <2> QED
      BY <2>1, LeastOf
  <1>2. n # 0 => \E v : WalkTo(K, E, v, n - 1)
    <2>1. n # 0 => n - 1 \in Nat /\ ~(n <= n - 1)
      OBVIOUS
    <2> QED
      BY <1>1, <2>1
  <1>3. \E w : WalkTo(K, E, w, n)
    BY <1>2, WalkMore
  <1> QED
    BY <1>1, <1>3

Depth == Cardinality(DOMAIN node)

LEMMA WalkIs ==
    ASSUME NEW K, NEW E, Depth \in Nat
    PROVE  \E w : WalkTo(K, E, w, Depth) /\ Walk(K, E) = w[Depth][base_root]
  <1>1. \E w : WalkTo(K, E, w, Depth)
    BY WalkExists
  <1> QED
    BY <1>1, Zenon DEF WalkTo, Row, WalkSide, Walk, Depth

(***************************************************************************)
(* What is walked from a node: values of V, in order of R.                 *)
(***************************************************************************)
Walked(S, V, R, s) ==
    /\ s \in Seq(S)
    /\ \A i \in 1 .. Len(s) : s[i] \in V
    /\ \A i, j \in 1 .. Len(s) : i < j => <<s[i], s[j]>> \in R

LEMMA WalkedNone == \A S, V, R : Walked(S, V, R, <<>>)
  BY DEF Walked

LEMMA WalkedMore ==
    ASSUME NEW S, NEW V, NEW W, V \subseteq W, NEW R, NEW s, Walked(S, V, R, s)
    PROVE  Walked(S, W, R, s)
  BY DEF Walked

LEMMA JoinedAt ==
    ASSUME NEW S, NEW s \in Seq(S), NEW z \in Seq(S), NEW q, q = s \o z
    PROVE  /\ q \in Seq(S) /\ Len(s) \in Nat /\ Len(z) \in Nat /\ Len(q) = Len(s) + Len(z)
           /\ \A i \in 1 .. Len(q) : q[i] = IF i <= Len(s) THEN s[i] ELSE z[i - Len(s)]
  BY ConcatProperties

LEMMA JoinedIndex ==
    ASSUME NEW S, NEW s \in Seq(S), NEW z \in Seq(S), NEW q, q = s \o z
    PROVE  \A i \in 1 .. Len(q) :
              \/ i \in 1 .. Len(s) /\ q[i] = s[i]
              \/ \E j \in 1 .. Len(z) : i = Len(s) + j /\ q[i] = z[j]
  <1>1. /\ Len(s) \in Nat /\ Len(z) \in Nat /\ Len(q) = Len(s) + Len(z)
        /\ \A i \in 1 .. Len(q) : q[i] = IF i <= Len(s) THEN s[i] ELSE z[i - Len(s)]
    BY JoinedAt
  <1> SUFFICES ASSUME NEW i \in 1 .. Len(q), i > Len(s)
               PROVE  \E j \in 1 .. Len(z) : i = Len(s) + j /\ q[i] = z[j]
    BY <1>1
  <1>2. PICK j : j = i - Len(s)
    OBVIOUS
  <1>3. j \in 1 .. Len(z) /\ i = Len(s) + j /\ q[i] = z[j]
    BY <1>1, <1>2
  <1> QED
    BY <1>3

LEMMA WalkedJoined ==
    ASSUME NEW S, NEW V, NEW V1, NEW V2, V1 \subseteq V, V2 \subseteq V, NEW R,
           \A x \in V1, y \in V2 : <<x, y>> \in R,
           NEW s, Walked(S, V1, R, s), NEW z, Walked(S, V2, R, z)
    PROVE  Walked(S, V, R, s \o z)
  <1>1. s \in Seq(S) /\ z \in Seq(S)
    BY DEF Walked
  <1>2. PICK q : q = s \o z
    OBVIOUS
  <1>3. q \in Seq(S) /\ Len(s) \in Nat /\ Len(z) \in Nat
    BY <1>1, <1>2, JoinedAt
  <1>4. \A i \in 1 .. Len(q) :
              \/ i \in 1 .. Len(s) /\ q[i] = s[i]
              \/ \E j \in 1 .. Len(z) : i = Len(s) + j /\ q[i] = z[j]
    BY <1>1, <1>2, JoinedIndex
  <1>5. (\A i \in 1 .. Len(s) : s[i] \in V1) /\ (\A i \in 1 .. Len(z) : z[i] \in V2)
    BY DEF Walked
  <1>6. ASSUME NEW i \in 1 .. Len(q) PROVE q[i] \in V
    BY <1>4, <1>5
  <1>7. ASSUME NEW i \in 1 .. Len(q), NEW j \in 1 .. Len(q), i < j
        PROVE  <<q[i], q[j]>> \in R
    <2>1. CASE i \in 1 .. Len(s) /\ q[i] = s[i] /\ j \in 1 .. Len(s) /\ q[j] = s[j]
      BY <1>7, <2>1 DEF Walked
    <2>2. CASE /\ i \in 1 .. Len(s) /\ q[i] = s[i]
               /\ \E b \in 1 .. Len(z) : j = Len(s) + b /\ q[j] = z[b]
      BY <1>5, <2>2
    <2>3. CASE \E b \in 1 .. Len(z) : i = Len(s) + b /\ q[i] = z[b]
      <3>1. PICK b \in 1 .. Len(z) : i = Len(s) + b /\ q[i] = z[b]
        BY <2>3
      <3>2. ~(j \in 1 .. Len(s))
        BY <1>3, <1>7, <3>1
      <3>3. PICK c \in 1 .. Len(z) : j = Len(s) + c /\ q[j] = z[c]
        BY <1>4, <3>2
      <3>4. b < c
        BY <1>3, <1>7, <3>1, <3>3
      <3> QED
        BY <3>1, <3>3, <3>4 DEF Walked
    <2> QED
      BY <1>4, <2>1, <2>2, <2>3
  <1> QED
    BY <1>2, <1>3, <1>6, <1>7 DEF Walked

LEMMA WalkedOne ==
    ASSUME NEW S, NEW V, NEW R, NEW a \in S, a \in V
    PROVE  Walked(S, V, R, <<a>>)
  <1>1. <<a>> \in Seq(S) /\ Len(<<a>>) = 1 /\ <<a>>[1] = a
    OBVIOUS
  <1>2. PICK q : q = <<a>>
    OBVIOUS
  <1> QED
    BY <1>1, <1>2 DEF Walked

(* What is met before a, and after it. *)
Between(R, V1, a, V2) ==
    /\ \A x \in V1, y \in V2 : <<x, y>> \in R
    /\ \A x \in V1 : <<x, a>> \in R
    /\ \A y \in V2 : <<a, y>> \in R

LEMMA WalkedJoined3 ==
    ASSUME NEW S, NEW V, NEW V1, NEW V2, V1 \subseteq V, V2 \subseteq V, NEW R,
           NEW a \in S, a \in V,
           Between(R, V1, a, V2),
           NEW s, Walked(S, V1, R, s), NEW z, Walked(S, V2, R, z)
    PROVE  Walked(S, V, R, s \o <<a>> \o z)
  <1>1. PICK W : W = V1 \cup {a}
    OBVIOUS
  <1>2. Walked(S, {a}, R, <<a>>)
    BY WalkedOne
  <1>3. PICK u : u = s \o <<a>>
    OBVIOUS
  <1>4. V1 \subseteq W /\ {a} \subseteq W /\ \A x \in V1, y \in {a} : <<x, y>> \in R
    BY <1>1 DEF Between
  <1>5. Walked(S, W, R, u)
    BY <1>2, <1>3, <1>4, WalkedJoined
  <1>6. W \subseteq V /\ \A x \in W, y \in V2 : <<x, y>> \in R
    BY <1>1 DEF Between
  <1>7. Walked(S, V, R, u \o z)
    BY <1>5, <1>6, WalkedJoined
  <1> QED
    BY <1>3, <1>7

-----------------------------------------------------------------------------
(***************************************************************************)
(* The walk of a tree.                                                     *)
(***************************************************************************)
(* What may be met on side s of n, when V[n] may be met from n on. *)
Route(K, V, n, s) == IF IS_NULL(K[n][s]) THEN {} ELSE V[K[n][s].node]

(* The walk turns round at n, or n is in order with what is on its sides. *)
Takes(S, V, R, K, E, n) ==
    \/ E[n] = <<>> /\ IS_NULL(K[n][TRUE]) /\ IS_NULL(K[n][FALSE])
    \/ \E a \in S : /\ a \in V[n] /\ E[n] = <<a>>
                    /\ Between(R, Route(K, V, n, TRUE), a, Route(K, V, n, FALSE))

Walks(S, V, R, K, E, L) ==
    \A n \in L :
        /\ Takes(S, V, R, K, E, n)
        /\ \A s \in BOOLEAN : ~IS_NULL(K[n][s]) => K[n][s].node \in L /\ V[K[n][s].node] \subseteq V[n]

LEMMA WalkedNext ==
    ASSUME NEW S, NEW V, NEW R, NEW K, NEW E, NEW L, Walks(S, V, R, K, E, L), L \subseteq DOMAIN node,
           NEW f, NEW d, d # 0 => \A n \in L : Walked(S, V[n], R, f[n]), NEW n \in L
    PROVE  Walked(S, V[n], R, Row(K, E, f, d)[n])
  <1>1. ASSUME NEW s \in BOOLEAN
        PROVE  Walked(S, Route(K, V, n, s), R, WalkSide(K, f, d, n, s)) /\ Route(K, V, n, s) \subseteq V[n]
    <2>1. CASE IS_NULL(K[n][s])
      BY <2>1, WalkedNone DEF Route, WalkSide
    <2>2. CASE ~IS_NULL(K[n][s])
      <3>1. Route(K, V, n, s) = V[K[n][s].node] /\ K[n][s].node \in L /\ V[K[n][s].node] \subseteq V[n]
        BY <2>2 DEF Walks, Route
      <3>2. CASE d = 0
        BY <3>1, <3>2, WalkedNone DEF WalkSide
      <3>3. CASE d # 0
        BY <2>2, <3>1, <3>3 DEF WalkSide
      <3> QED
        BY <3>2, <3>3
    <2> QED
      BY <2>1, <2>2
  <1>2. Row(K, E, f, d)[n] = WalkSide(K, f, d, n, TRUE) \o E[n] \o WalkSide(K, f, d, n, FALSE)
    BY DEF Row
  <1>3. CASE E[n] = <<>> /\ IS_NULL(K[n][TRUE]) /\ IS_NULL(K[n][FALSE])
    <2>1. Row(K, E, f, d)[n] = <<>>
      <3>1. WalkSide(K, f, d, n, TRUE) = <<>> /\ WalkSide(K, f, d, n, FALSE) = <<>>
        BY <1>3 DEF WalkSide
      <3>2. <<>> \o <<>> \o <<>> = <<>>
        OBVIOUS
      <3> QED
        BY <1>2, <1>3, <3>1, <3>2
    <2> QED
      BY <2>1, WalkedNone
  <1>4. CASE \E a \in S : /\ a \in V[n] /\ E[n] = <<a>>
                         /\ Between(R, Route(K, V, n, TRUE), a, Route(K, V, n, FALSE))
    <2>1. PICK a \in S : /\ a \in V[n] /\ E[n] = <<a>>
                         /\ Between(R, Route(K, V, n, TRUE), a, Route(K, V, n, FALSE))
      BY <1>4
    <2>2. PICK V1, V2 : V1 = Route(K, V, n, TRUE) /\ V2 = Route(K, V, n, FALSE)
      OBVIOUS
    <2>3. PICK s, z : s = WalkSide(K, f, d, n, TRUE) /\ z = WalkSide(K, f, d, n, FALSE)
      OBVIOUS
    <2>4. /\ Walked(S, V1, R, s) /\ Walked(S, V2, R, z) /\ V1 \subseteq V[n] /\ V2 \subseteq V[n]
      BY <1>1, <2>2, <2>3
    <2>5. Between(R, V1, a, V2)
      BY <2>1, <2>2
    <2>6. PICK W : W = V[n]
      OBVIOUS
    <2>7. Walked(S, W, R, s \o <<a>> \o z)
      BY <2>1, <2>4, <2>5, <2>6, WalkedJoined3
    <2> QED
      BY <1>2, <2>1, <2>3, <2>6, <2>7
  <1> QED
    BY <1>3, <1>4 DEF Walks, Takes

LEMMA WalkedFrom ==
    ASSUME NEW S, NEW V, NEW R, NEW K, NEW E, NEW L, Walks(S, V, R, K, E, L), L \subseteq DOMAIN node,
           NEW N \in Nat, NEW w, WalkTo(K, E, w, N)
    PROVE  \A d \in 0 .. N : \A n \in L : Walked(S, V[n], R, w[d][n])
  <1> DEFINE Bad == {d \in 0 .. N : ~\A n \in L : Walked(S, V[n], R, w[d][n])}
  <1> SUFFICES ASSUME Bad # {} PROVE FALSE
    OBVIOUS
  <1>1. PICK d \in Bad : \A m \in Bad : d <= m
    <2>1. Bad \subseteq Nat
      OBVIOUS
    <2> HIDE DEF Bad
    <2> QED
      BY <2>1, LeastOf
  <1>2. d # 0 => \A n \in L : Walked(S, V[n], R, w[d - 1][n])
    <2>1. d # 0 => d - 1 \in 0 .. N /\ ~(d <= d - 1)
      OBVIOUS
    <2> QED
      BY <1>1, <2>1
  <1>3. w[d] = Row(K, E, w[d - 1], d)
    BY WalkRow
  <1>4. ASSUME NEW n \in L PROVE Walked(S, V[n], R, w[d][n])
    BY <1>2, <1>3, WalkedNext
  <1> QED
    BY <1>1, <1>4

(***************************************************************************)
(* The nodes below a node, and how far down they are.                      *)
(***************************************************************************)
SubOn(A, G, n, s) == {x \in Linked(A, G) : <<n, s>> \in A[x]}
Sub(A, G, n) == {n} \cup SubOn(A, G, n, TRUE) \cup SubOn(A, G, n, FALSE)

LEMMA SubChild ==
    ASSUME NEW A, NEW G, Ancestors(A, G), NEW n \in Linked(A, G), NEW s \in BOOLEAN,
           NEW c \in Linked(A, G), Hangs(A, G, n, s, c)
    PROVE  Sub(A, G, c) \subseteq SubOn(A, G, n, s) /\ SubOn(A, G, n, s) \subseteq Sub(A, G, n)
  <1>1. <<n, s>> \in A[c]
    BY ParentLinked DEF Linked
  <1>2. ASSUME NEW x \in Linked(A, G), NEW z \in BOOLEAN, <<c, z>> \in A[x]
        PROVE  <<n, s>> \in A[x]
    BY <1>1, <1>2, AboveOne DEF Linked
  <1> QED
    BY <1>1, <1>2 DEF Sub, SubOn

(* The nodes above a node. *)
Up(A, n) == {x \in DOMAIN A : \E s \in BOOLEAN : <<x, s>> \in A[n]}
Height(A, n) == Cardinality(Up(A, n))

LEMMA HeightType ==
    ASSUME NEW A, IsFiniteSet(DOMAIN A), NEW n
    PROVE  /\ IsFiniteSet(Up(A, n)) /\ Height(A, n) \in Nat
           /\ Height(A, n) <= Cardinality(DOMAIN A) /\ Cardinality(DOMAIN A) \in Nat
  <1>1. Up(A, n) \subseteq DOMAIN A
    BY DEF Up
  <1> QED
    BY <1>1, FS_Subset, FS_CardinalityType DEF Height

LEMMA HeightBelow ==
    ASSUME NEW A, NEW G, Ancestors(A, G), IsFiniteSet(DOMAIN A),
           NEW n \in DOMAIN A, NEW s \in BOOLEAN, NEW y \in DOMAIN A, <<n, s>> \in A[y]
    PROVE  Height(A, n) + 1 <= Height(A, y)
  <1>1. A[n] \subseteq A[y] /\ n \notin Up(A, n)
    BY AboveOne DEF Up
  <1>2. Up(A, n) \cup {n} \subseteq Up(A, y)
    BY <1>1 DEF Up
  <1>3. IsFiniteSet(Up(A, n)) /\ IsFiniteSet(Up(A, y))
    BY HeightType
  <1>4. Cardinality(Up(A, n) \cup {n}) = Cardinality(Up(A, n)) + 1
    BY <1>1, <1>3, FS_AddElement
  <1>5. Cardinality(Up(A, n) \cup {n}) <= Cardinality(Up(A, y))
    BY <1>2, <1>3, FS_Subset
  <1> QED
    BY <1>4, <1>5 DEF Height

LEMMA HeightChild ==
    ASSUME NEW A, NEW G, Ancestors(A, G), IsFiniteSet(DOMAIN A), NEW n \in Linked(A, G),
           NEW s \in BOOLEAN, NEW c \in Linked(A, G), Hangs(A, G, n, s, c)
    PROVE  Height(A, c) = Height(A, n) + 1
  <1>1. Up(A, c) = Up(A, n) \cup {n}
    BY DEF Up, Hangs, Linked
  <1>2. n \notin Up(A, n)
    BY AboveOne DEF Up, Linked
  <1> QED
    BY <1>1, <1>2, HeightType, FS_AddElement DEF Height

(* Every node below n that is near enough is met. *)
Met(x, q) == \E i \in 1 .. Len(q) : q[i] = x

LEMMA MetJoined ==
    ASSUME NEW S, NEW s \in Seq(S), NEW z \in Seq(S), NEW x, Met(x, s) \/ Met(x, z)
    PROVE  Met(x, s \o z)
  <1>1. PICK q : q = s \o z
    OBVIOUS
  <1>2. /\ Len(s) \in Nat /\ Len(z) \in Nat /\ Len(q) = Len(s) + Len(z)
        /\ \A i \in 1 .. Len(q) : q[i] = IF i <= Len(s) THEN s[i] ELSE z[i - Len(s)]
    BY <1>1, JoinedAt
  <1>3. CASE Met(x, s)
    <2>1. PICK i \in 1 .. Len(s) : s[i] = x
      BY <1>3 DEF Met
    <2>2. i \in 1 .. Len(q) /\ q[i] = x
      BY <1>2, <2>1
    <2> QED
      BY <1>1, <2>2 DEF Met
  <1>4. CASE Met(x, z)
    <2>1. PICK i \in 1 .. Len(z) : z[i] = x
      BY <1>4 DEF Met
    <2>2. PICK j : j = Len(s) + i
      OBVIOUS
    <2>3. j \in 1 .. Len(q) /\ ~(j <= Len(s)) /\ j - Len(s) = i
      BY <1>2, <2>2
    <2>4. q[j] = x
      BY <1>2, <2>1, <2>3
    <2> QED
      BY <1>1, <2>3, <2>4 DEF Met
  <1> QED
    BY <1>3, <1>4

LEMMA MetJoined3 ==
    ASSUME NEW S, NEW s \in Seq(S), NEW z \in Seq(S), NEW a \in S, NEW x,
           x = a \/ Met(x, s) \/ Met(x, z)
    PROVE  Met(x, s \o <<a>> \o z)
  <1>1. <<a>> \in Seq(S) /\ Met(a, <<a>>)
    <2>1. <<a>> \in Seq(S) /\ Len(<<a>>) = 1 /\ <<a>>[1] = a
      OBVIOUS
    <2>2. PICK q : q = <<a>>
      OBVIOUS
    <2> QED
      BY <2>1, <2>2 DEF Met
  <1>2. PICK u : u = s \o <<a>>
    OBVIOUS
  <1>3. u \in Seq(S)
    BY <1>1, <1>2, JoinedAt
  <1>4. x = a \/ Met(x, s) => Met(x, u)
    BY <1>1, <1>2, MetJoined
  <1> QED
    BY <1>2, <1>3, <1>4, MetJoined

-----------------------------------------------------------------------------
(***************************************************************************)
(* The nodes in order: those that are linked, the keys of the live ones    *)
(* increasing.                                                             *)
(***************************************************************************)
Itself == [n \in DOMAIN node |-> <<n>>]
Subs(A, G) == [n \in DOMAIN node |-> Sub(A, G, n)]

LiveBefore ==
    {e \in (DOMAIN node) \X (DOMAIN node) :
        Live(e[1]) /\ Live(e[2]) => CurrentKey(e[1]) < CurrentKey(e[2])}

LEMMA TreeParts ==
    ASSUME NEW A, NEW G, TreeOK(A, G)
    PROVE  /\ DOMAIN A = DOMAIN node /\ IsFiniteSet(DOMAIN node) /\ Linked(A, G) \subseteq DOMAIN node
           /\ Ancestors(A, G) /\ FromRoot(A, G) /\ Children(Kids, A, G) /\ Below(Kids, A, G)
           /\ Order(A, G, Keys, CurrentKeys, DeadNodes)
           /\ base_root \in Linked(A, G) /\ base_root \in DOMAIN node
           /\ Depth \in Nat
  BY FS_CardinalityType DEF TreeOK, Shape, Ancestors, Linked, Depth

(* A linked child of n on side s. *)
LEMMA KidBelow ==
    ASSUME NEW A, NEW G, TreeOK(A, G), NEW n \in Linked(A, G), NEW s \in BOOLEAN, ~IS_NULL(Kids[n][s])
    PROVE  /\ Kids[n][s].node \in Linked(A, G) /\ Hangs(A, G, n, s, Kids[n][s].node)
           /\ Sub(A, G, Kids[n][s].node) \subseteq SubOn(A, G, n, s)
           /\ SubOn(A, G, n, s) \subseteq Sub(A, G, n)
  <1>1. PICK c : c = Kids[n][s].node /\ c \in Linked(A, G) /\ Hangs(A, G, n, s, c)
    BY TreeParts DEF Children
  <1> QED
    BY <1>1, TreeParts, SubChild

LEMMA SideKeys ==
    ASSUME NEW A, NEW G, TreeOK(A, G), NEW n \in Linked(A, G)
    PROVE  /\ CurrentKey(n) \in Int /\ node[n].key \in Int /\ node[n].key <= CurrentKey(n)
           /\ \A x \in SubOn(A, G, n, TRUE) :
                 n # base_root /\ CurrentKey(x) \in Int /\ CurrentKey(x) < node[n].key
           /\ \A x \in SubOn(A, G, n, FALSE) :
                 /\ CurrentKey(x) \in Int /\ node[x].key <= CurrentKey(x) /\ node[x].key \in Int
                 /\ n # base_root /\ ~Dead(x) => CurrentKey(n) < node[x].key
  <1>1. /\ DOMAIN A = DOMAIN node /\ Order(A, G, Keys, CurrentKeys, DeadNodes) /\ FromRoot(A, G)
        /\ n \in DOMAIN node
    BY TreeParts
  <1>2. \A x \in DOMAIN node : Keys[x] = node[x].key /\ CurrentKeys[x] = CurrentKey(x)
    BY DEF Keys, CurrentKeys
  <1>3. \A x \in DOMAIN node : CurrentKey(x) \in Int /\ node[x].key \in Int /\ node[x].key <= CurrentKey(x)
    BY <1>1, <1>2 DEF Order
  <1>4. ASSUME NEW x \in SubOn(A, G, n, TRUE)
        PROVE  n # base_root /\ x \in DOMAIN node /\ CurrentKey(x) < node[n].key
    <2>1. x \in Linked(A, G) /\ x \in DOMAIN node /\ <<n, TRUE>> \in A[x]
      BY <1>1 DEF SubOn, Linked
    <2> QED
      BY <1>1, <1>2, <2>1 DEF Order, FromRoot
  <1>5. ASSUME NEW x \in SubOn(A, G, n, FALSE)
        PROVE  x \in DOMAIN node /\ (n # base_root /\ ~Dead(x) => CurrentKey(n) < node[x].key)
    <2>1. x \in Linked(A, G) /\ x \in DOMAIN node /\ <<n, FALSE>> \in A[x]
      BY <1>1 DEF SubOn, Linked
    <2>2. ~Dead(x) => x \notin DeadNodes
      BY DEF DeadNodes
    <2> QED
      BY <1>1, <1>2, <2>1, <2>2 DEF Order
  <1> QED
    BY <1>1, <1>3, <1>4, <1>5

LEMMA KeyBelow ==
    ASSUME NEW A, NEW G, TreeOK(A, G), NEW n \in Linked(A, G)
    PROVE  /\ \A x \in SubOn(A, G, n, TRUE) : n # base_root /\ CurrentKey(x) < CurrentKey(n)
           /\ \A y \in SubOn(A, G, n, FALSE) :
                 n # base_root /\ ~Dead(y) => CurrentKey(n) < CurrentKey(y)
  <1> DEFINE k == CurrentKey(n)
             m == node[n].key
  <1>1. k \in Int /\ m \in Int /\ m <= k
    BY SideKeys
  <1>2. ASSUME NEW x \in SubOn(A, G, n, TRUE) PROVE n # base_root /\ CurrentKey(x) < CurrentKey(n)
    <2>1. PICK u : u = CurrentKey(x) /\ u \in Int /\ u < m /\ n # base_root
      BY <1>1, SideKeys
    <2> QED
      BY <1>1, <2>1
  <1>3. ASSUME NEW y \in SubOn(A, G, n, FALSE), n # base_root, ~Dead(y)
        PROVE  CurrentKey(n) < CurrentKey(y)
    <2> DEFINE u == CurrentKey(y)
               v == node[y].key
    <2>1. u \in Int /\ v \in Int /\ v <= u /\ k < v
      BY <1>3, SideKeys
    <2> HIDE DEF k, u, v
    <2>2. k < u
      BY <1>1, <2>1
    <2> QED
      BY <2>2 DEF k, u
  <1> QED
    BY <1>2, <1>3

LEMMA SidesInOrder ==
    ASSUME NEW A, NEW G, TreeOK(A, G), NEW n \in Linked(A, G)
    PROVE  Between(LiveBefore, SubOn(A, G, n, TRUE), n, SubOn(A, G, n, FALSE))
  <1>1. /\ \A s \in BOOLEAN : \A x \in SubOn(A, G, n, s) : x \in DOMAIN node
        /\ n \in DOMAIN node
    BY TreeParts DEF SubOn
  <1>2. ASSUME NEW x \in SubOn(A, G, n, TRUE) PROVE <<x, n>> \in LiveBefore
    <2>1. x \in DOMAIN node
      BY <1>1
    <2>2. CurrentKey(x) < CurrentKey(n)
      BY <1>2, KeyBelow
    <2> QED
      BY <1>1, <2>1, <2>2 DEF LiveBefore
  <1>3. ASSUME NEW y \in SubOn(A, G, n, FALSE) PROVE <<n, y>> \in LiveBefore
    <2>1. y \in DOMAIN node
      BY <1>1
    <2>2. Live(n) /\ Live(y) => CurrentKey(n) < CurrentKey(y)
      BY <1>3, KeyBelow DEF Live
    <2> QED
      BY <1>1, <2>1, <2>2 DEF LiveBefore
  <1>4. ASSUME NEW x \in SubOn(A, G, n, TRUE), NEW y \in SubOn(A, G, n, FALSE)
        PROVE  <<x, y>> \in LiveBefore
    <2>1. x \in DOMAIN node /\ y \in DOMAIN node
      BY <1>1
    <2>2. Live(y) => CurrentKey(x) < CurrentKey(y)
      <3>1. CurrentKey(x) < CurrentKey(n) /\ n # base_root
        BY <1>4, KeyBelow
      <3>2. Live(y) => CurrentKey(n) < CurrentKey(y)
        BY <1>4, <3>1, KeyBelow DEF Live
      <3>3. CurrentKey(x) \in Int /\ CurrentKey(n) \in Int /\ CurrentKey(y) \in Int
        BY <1>4, SideKeys
      <3> QED
        BY <3>1, <3>2, <3>3
    <2> QED
      BY <2>1, <2>2 DEF LiveBefore
  <1> QED
    BY <1>2, <1>3, <1>4 DEF Between

LEMMA BetweenFewer ==
    ASSUME NEW R, NEW W1, NEW a, NEW W2, Between(R, W1, a, W2), NEW V1, NEW V2,
           V1 \subseteq W1, V2 \subseteq W2
    PROVE  Between(R, V1, a, V2)
  BY DEF Between

(* In a tree each node comes between what is on its sides. *)
Sorted(R, A, G) ==
    \A n \in Linked(A, G) : Between(R, SubOn(A, G, n, TRUE), n, SubOn(A, G, n, FALSE))

LEMMA InOrderWalks ==
    ASSUME NEW A, NEW G, TreeOK(A, G), NEW R, Sorted(R, A, G)
    PROVE  Walks(DOMAIN node, Subs(A, G), R, Kids, Itself, Linked(A, G))
  <1>1. ASSUME NEW n \in Linked(A, G), NEW s \in BOOLEAN
        PROVE  /\ Route(Kids, Subs(A, G), n, s) \subseteq SubOn(A, G, n, s)
               /\ ~IS_NULL(Kids[n][s]) =>
                     /\ Kids[n][s].node \in Linked(A, G)
                     /\ Subs(A, G)[Kids[n][s].node] \subseteq Subs(A, G)[n]
    <2>1. CASE IS_NULL(Kids[n][s])
      BY <2>1 DEF Route
    <2>2. CASE ~IS_NULL(Kids[n][s])
      <3>1. PICK c : c = Kids[n][s].node
        OBVIOUS
      <3>2. /\ c \in Linked(A, G) /\ c \in DOMAIN node /\ n \in DOMAIN node
            /\ Sub(A, G, c) \subseteq SubOn(A, G, n, s) /\ SubOn(A, G, n, s) \subseteq Sub(A, G, n)
        BY <2>2, <3>1, KidBelow, TreeParts
      <3>3. Subs(A, G)[c] = Sub(A, G, c) /\ Subs(A, G)[n] = Sub(A, G, n)
        BY <3>2 DEF Subs
      <3>4. Route(Kids, Subs(A, G), n, s) = Sub(A, G, c)
        BY <2>2, <3>1, <3>3 DEF Route
      <3> QED
        BY <3>1, <3>2, <3>3, <3>4
    <2> QED
      BY <2>1, <2>2
  <1>2. ASSUME NEW n \in Linked(A, G)
        PROVE  Takes(DOMAIN node, Subs(A, G), R, Kids, Itself, n)
    <2>1. n \in DOMAIN node /\ Itself[n] = <<n>> /\ n \in Subs(A, G)[n]
      BY TreeParts DEF Itself, Subs, Sub
    <2>2. PICK V1, V2 : V1 = Route(Kids, Subs(A, G), n, TRUE) /\ V2 = Route(Kids, Subs(A, G), n, FALSE)
      OBVIOUS
    <2>3. V1 \subseteq SubOn(A, G, n, TRUE) /\ V2 \subseteq SubOn(A, G, n, FALSE)
      BY <1>1, <2>2
    <2>4. Between(R, V1, n, V2)
      BY <2>3, BetweenFewer DEF Sorted
    <2> QED
      BY <2>1, <2>2, <2>4 DEF Takes
  <1> QED
    BY <1>1, <1>2 DEF Walks

(* Every node below n that is near enough is met. *)
Complete(A, G, w, d) ==
    \A n \in Linked(A, G) : \A y \in Sub(A, G, n) :
        Height(A, y) <= Height(A, n) + d => Met(y, w[d][n])

WalksTree(A, G, w) == TreeOK(A, G) /\ Depth \in Nat /\ WalkTo(Kids, Itself, w, Depth)

LEMMA WalkCompleteNext ==
    ASSUME NEW A, NEW G, NEW w, WalksTree(A, G, w), NEW d \in 0 .. Depth,
           d # 0 => Complete(A, G, w, d - 1)
    PROVE  Complete(A, G, w, d)
  <1> SUFFICES ASSUME NEW n \in Linked(A, G), NEW y \in Sub(A, G, n),
                      Height(A, y) <= Height(A, n) + d
               PROVE  Met(y, w[d][n])
    BY DEF Complete
  <1>1. /\ Linked(A, G) \subseteq DOMAIN node /\ DOMAIN A = DOMAIN node /\ IsFiniteSet(DOMAIN A)
        /\ Ancestors(A, G) /\ Below(Kids, A, G) /\ TreeOK(A, G) /\ Depth \in Nat
    BY TreeParts DEF WalksTree
  <1>2. PICK s, z : s = WalkSide(Kids, w[d - 1], d, n, TRUE) /\ z = WalkSide(Kids, w[d - 1], d, n, FALSE)
    OBVIOUS
  <1>3. w[d][n] = s \o <<n>> \o z
    <2>1. w[d] = Row(Kids, Itself, w[d - 1], d)
      BY <1>1, WalkRow DEF WalksTree
    <2> QED
      BY <1>1, <1>2, <2>1 DEF Row, Itself
  <1>4. \A m \in Linked(A, G) : d # 0 => Walked(DOMAIN node, Subs(A, G)[m], LiveBefore, w[d - 1][m])
    <2>1. Walks(DOMAIN node, Subs(A, G), LiveBefore, Kids, Itself, Linked(A, G))
      BY <1>1, InOrderWalks, SidesInOrder DEF Sorted
    <2>2. d # 0 => d - 1 \in 0 .. Depth
      BY <1>1
    <2> QED
      BY <1>1, <2>1, <2>2, WalkedFrom DEF WalksTree
  <1>5. ASSUME NEW q \in BOOLEAN
        PROVE  WalkSide(Kids, w[d - 1], d, n, q) \in Seq(DOMAIN node)
    <2>1. CASE IS_NULL(Kids[n][q]) \/ d = 0
      <3>1. WalkSide(Kids, w[d - 1], d, n, q) = <<>>
        BY <2>1 DEF WalkSide
      <3>2. <<>> \in Seq(DOMAIN node)
        OBVIOUS
      <3> QED
        BY <3>1, <3>2
    <2>2. CASE ~IS_NULL(Kids[n][q]) /\ d # 0
      BY <1>1, <1>4, <2>2, KidBelow DEF WalkSide, Walked
    <2> QED
      BY <2>1, <2>2
  <1>6. s \in Seq(DOMAIN node) /\ z \in Seq(DOMAIN node) /\ n \in DOMAIN node
    BY <1>1, <1>2, <1>5
  <1>7. ASSUME y # n PROVE Met(y, s) \/ Met(y, z)
    <2>1. PICK q \in BOOLEAN : y \in Linked(A, G) /\ <<n, q>> \in A[y]
      BY <1>7 DEF Sub, SubOn
    <2>2. /\ ~IS_NULL(Kids[n][q])
          /\ Kids[n][q].node = y \/ \E x \in BOOLEAN : <<Kids[n][q].node, x>> \in A[y]
      BY <1>1, <2>1 DEF Below
    <2>3. PICK c : c = Kids[n][q].node
      OBVIOUS
    <2>4. c \in Linked(A, G) /\ Hangs(A, G, n, q, c)
      BY <1>1, <2>2, <2>3, KidBelow
    <2>5. y \in Sub(A, G, c)
      BY <2>1, <2>2, <2>3 DEF Sub, SubOn
    <2>6. Height(A, c) = Height(A, n) + 1
      BY <1>1, <2>4, HeightChild
    <2>7. Height(A, n) + 1 <= Height(A, y)
      BY <1>1, <2>1, HeightBelow DEF Linked
    <2>8. Height(A, n) \in Nat /\ Height(A, y) \in Nat
      BY <1>1, HeightType
    <2>9. d # 0 /\ Height(A, y) <= Height(A, c) + (d - 1)
      BY <2>6, <2>7, <2>8
    <2>10. Met(y, w[d - 1][c])
      BY <2>4, <2>5, <2>9 DEF Complete
    <2>11. w[d - 1][c] = WalkSide(Kids, w[d - 1], d, n, q)
      BY <2>2, <2>3, <2>9 DEF WalkSide
    <2> QED
      BY <1>2, <2>10, <2>11
  <1> QED
    BY <1>3, <1>6, <1>7, MetJoined3

LEMMA WalkComplete ==
    ASSUME NEW A, NEW G, NEW w, WalksTree(A, G, w)
    PROVE  \A d \in 0 .. Depth : Complete(A, G, w, d)
  <1> DEFINE Bad == {d \in 0 .. Depth : ~Complete(A, G, w, d)}
  <1> SUFFICES ASSUME Bad # {} PROVE FALSE
    OBVIOUS
  <1>1. PICK d \in Bad : \A m \in Bad : d <= m
    <2>1. Bad \subseteq Nat
      BY DEF WalksTree
    <2> HIDE DEF Bad
    <2> QED
      BY <2>1, LeastOf
  <1>2. d # 0 => Complete(A, G, w, d - 1)
    <2>1. d # 0 => d - 1 \in 0 .. Depth /\ ~(d <= d - 1)
      BY DEF WalksTree
    <2> QED
      BY <1>1, <2>1
  <1> QED
    BY <1>1, <1>2, WalkCompleteNext

LEMMA InOrderBy ==
    ASSUME NEW A, NEW G, TreeOK(A, G), NEW R, Sorted(R, A, G)
    PROVE  /\ InOrder \in Seq(DOMAIN node) /\ Range(InOrder) = Linked(A, G)
           /\ \A i, j \in 1 .. Len(InOrder) : i < j => <<InOrder[i], InOrder[j]>> \in R
  <1>1. Depth \in Nat /\ base_root \in Linked(A, G)
    BY TreeParts
  <1>2. InOrder = Walk(Kids, Itself)
    BY DEF InOrder, Kids, Itself
  <1>3. PICK w : WalkTo(Kids, Itself, w, Depth) /\ InOrder = w[Depth][base_root]
    BY <1>1, <1>2, WalkIs
  <1>4. PICK q : q = InOrder
    OBVIOUS
  <1>5. PICK D \in Nat : D = Depth /\ D \in 0 .. Depth
    BY <1>1
  <1>6. Walked(DOMAIN node, Subs(A, G)[base_root], R, q)
    <2>1. Walks(DOMAIN node, Subs(A, G), R, Kids, Itself, Linked(A, G))
      BY InOrderWalks
    <2> QED
      BY <1>1, <1>3, <1>4, <1>5, <2>1, WalkedFrom, TreeParts
  <1>7. /\ q \in Seq(DOMAIN node) /\ \A i \in 1 .. Len(q) : q[i] \in Linked(A, G)
        /\ \A i, j \in 1 .. Len(q) : i < j => <<q[i], q[j]>> \in R
    <2>1. Subs(A, G)[base_root] \subseteq Linked(A, G)
      BY TreeParts DEF Subs, Sub, SubOn
    <2> QED
      BY <1>6, <2>1 DEF Walked
  <1>8. ASSUME NEW y \in Linked(A, G) PROVE Met(y, q)
    <2>1. y \in Sub(A, G, base_root)
      BY TreeParts DEF FromRoot, Sub, SubOn
    <2>2. Height(A, y) <= Height(A, base_root) + D
      <3>1. IsFiniteSet(DOMAIN A) /\ Cardinality(DOMAIN A) = D
        BY <1>5, TreeParts DEF Depth
      <3> QED
        BY <3>1, HeightType
    <2>3. Complete(A, G, w, D)
      BY <1>1, <1>3, <1>5, WalkComplete DEF WalksTree
    <2> QED
      BY <1>1, <1>3, <1>4, <1>5, <2>1, <2>2, <2>3 DEF Complete
  <1>9. Range(q) = Linked(A, G)
    <2>1. DOMAIN q = 1 .. Len(q)
      BY <1>7
    <2> QED
      BY <1>7, <1>8, <2>1 DEF Range, Met
  <1> QED
    BY <1>4, <1>7, <1>9

LEMMA InOrderLinked ==
    ASSUME NEW A, NEW G, TreeOK(A, G)
    PROVE  /\ InOrder \in Seq(DOMAIN node) /\ Range(InOrder) = Linked(A, G)
           /\ \A i, j \in 1 .. Len(InOrder) : i < j => <<InOrder[i], InOrder[j]>> \in LiveBefore
  BY InOrderBy, SidesInOrder DEF Sorted

(* When no deleted block is used again, the keys of the live nodes         *)
(* increase in order in every state of every run: no insert puts a key     *)
(* where it does not belong, or a second time, and no relocation leaves a  *)
(* key out of order, whatever the searches have read before.               *)
THEOREM AlwaysSearchOrder ==
    ASSUME ~ReusesBlocks
    PROVE  HistorySpec => []SearchOrder
  <1>1. ASSUME TreeInv PROVE SearchOrder
    <2>1. PICK A, G : TreeOK(A, G)
      BY <1>1 DEF TreeInv, HeapInv
    <2>2. PICK q : /\ q = InOrder /\ q \in Seq(DOMAIN node)
                   /\ \A i, j \in 1 .. Len(q) : i < j => <<q[i], q[j]>> \in LiveBefore
      BY <2>1, InOrderLinked
    <2>3. DOMAIN q = 1 .. Len(q)
      BY <2>2
    <2>4. ASSUME NEW i \in DOMAIN q, NEW j \in DOMAIN q, i < j, Live(q[i]), Live(q[j])
          PROVE  CurrentKey(q[i]) < CurrentKey(q[j])
      <3>1. <<q[i], q[j]>> \in LiveBefore
        BY <2>2, <2>3, <2>4
      <3> QED
        BY <2>4, <3>1 DEF LiveBefore
    <2> QED
      BY <2>2, <2>4 DEF SearchOrder
  <1> QED
    BY <1>1, AlwaysTreeInv, PTL

(* When no deleted block is used again, every node that a walk of the tree *)
(* does not meet is marked, in every state of every run: no swing of a     *)
(* child pointer, late or stale, takes a node with it that is in use.      *)
THEOREM AlwaysUnlinkedMarked ==
    ASSUME ~ReusesBlocks
    PROVE  HistorySpec => []UnlinkedAreMarked
  <1>1. ASSUME TreeInv PROVE UnlinkedAreMarked
    <2>1. PICK A, G : TreeOK(A, G)
      BY <1>1 DEF TreeInv, HeapInv
    <2>2. Range(InOrder) = Linked(A, G)
      BY <2>1, InOrderLinked
    <2>3. \A n \in Node : n \in Linked(A, G) \/ Has(n, "MARK")
      BY <2>1, TreeParts DEF TreeOK, Linked, Node
    <2> QED
      BY <2>2, <2>3 DEF UnlinkedAreMarked
  <1> QED
    BY <1>1, AlwaysTreeInv, PTL

-----------------------------------------------------------------------------
(***************************************************************************)
(* What follows a node in order.                                           *)
(***************************************************************************)
LeftOf(A, x, y) ==
    \/ <<y, TRUE>> \in A[x] \/ <<x, FALSE>> \in A[y]
    \/ \E z \in DOMAIN A : <<z, TRUE>> \in A[x] /\ <<z, FALSE>> \in A[y]

Leftwards(A) == {e \in (DOMAIN node) \X (DOMAIN node) : LeftOf(A, e[1], e[2])}

(* A node is on one side only of what is above it. *)
LEMMA OneSide ==
    ASSUME NEW A, NEW G, Ancestors(A, G), NEW n \in DOMAIN A, NEW z, <<z, TRUE>> \in A[n]
    PROVE  <<z, FALSE>> \notin A[n]
  <1>1. TRUE \in BOOLEAN /\ ~TRUE = FALSE
    OBVIOUS
  <1> QED
    BY <1>1, AboveOne

(* What is above x on the left of it and what is above it on the right are *)
(* above one another.                                                      *)
LEMMA AboveOrdered ==
    ASSUME NEW A, NEW G, Ancestors(A, G), Branches(A, G), NEW x \in DOMAIN A,
           NEW z, NEW s, <<z, s>> \in A[x], NEW w, NEW q, <<w, q>> \in A[x], z # w
    PROVE  <<z, s>> \in A[w] \/ <<w, q>> \in A[z]
  <1>1. /\ z \in Linked(A, G) /\ z \in DOMAIN A /\ s \in BOOLEAN /\ A[z] \subseteq A[x]
        /\ <<z, ~s>> \notin A[x]
    BY AboveOne DEF Linked
  <1>2. /\ w \in Linked(A, G) /\ w \in DOMAIN A /\ q \in BOOLEAN /\ A[w] \subseteq A[x]
        /\ <<w, ~q>> \notin A[x]
    BY AboveOne DEF Linked
  <1>3. PICK b \in BOOLEAN : <<z, b>> \in A[w] \/ <<w, b>> \in A[z] \/ PartAt(A, z, w, b)
    BY <1>1, <1>2 DEF Branches
  <1>4. ~PartAt(A, z, w, b)
    <2> SUFFICES ASSUME NEW v \in DOMAIN A, <<v, b>> \in A[z], <<v, ~b>> \in A[w] PROVE FALSE
      BY DEF PartAt
    <2>1. <<v, b>> \in A[x] /\ <<v, ~b>> \in A[x]
      BY <1>1, <1>2
    <2> QED
      BY <2>1, AboveOne
  <1>5. CASE <<z, b>> \in A[w]
    <2>1. <<z, b>> \in A[x]
      BY <1>2, <1>5
    <2>2. b = s
      BY <1>1, <2>1
    <2> QED
      BY <1>5, <2>2
  <1>6. CASE <<w, b>> \in A[z]
    <2>1. <<w, b>> \in A[x]
      BY <1>1, <1>6
    <2>2. b = q
      BY <1>2, <2>1
    <2> QED
      BY <1>6, <2>2
  <1> QED
    BY <1>3, <1>4, <1>5, <1>6

LEMMA LeftOfOneWay ==
    ASSUME NEW A, NEW G, Ancestors(A, G), Branches(A, G), NEW x \in DOMAIN A, NEW y \in DOMAIN A,
           LeftOf(A, x, y)
    PROVE  x # y /\ ~LeftOf(A, y, x)
  <1>1. \A n \in DOMAIN A : \A z, s : <<z, s>> \in A[n] => z # n /\ A[z] \subseteq A[n]
                                /\ (\A q \in BOOLEAN : <<n, q>> \notin A[z])
    BY AboveOne
  <1>2. \A n \in DOMAIN A : \A z : <<z, TRUE>> \in A[n] => <<z, FALSE>> \notin A[n]
    BY OneSide
  <1>3. x # y
    BY <1>1, <1>2 DEF LeftOf
  <1> SUFFICES ASSUME LeftOf(A, y, x) PROVE FALSE
    BY <1>3
  <1>4. CASE <<y, TRUE>> \in A[x]
    BY <1>1, <1>2, <1>4 DEF LeftOf
  <1>5. CASE <<x, FALSE>> \in A[y]
    BY <1>1, <1>2, <1>5 DEF LeftOf
  <1>6. ASSUME NEW z \in DOMAIN A, <<z, TRUE>> \in A[x], <<z, FALSE>> \in A[y] PROVE FALSE
    <2>1. CASE <<x, TRUE>> \in A[y]
      BY <1>1, <1>2, <1>6, <2>1
    <2>2. CASE <<y, FALSE>> \in A[x]
      BY <1>1, <1>2, <1>6, <2>2
    <2>3. ASSUME NEW w \in DOMAIN A, <<w, TRUE>> \in A[y], <<w, FALSE>> \in A[x] PROVE FALSE
      <3>1. z # w
        BY <1>2, <1>6, <2>3
      <3>2. <<z, TRUE>> \in A[w] \/ <<w, FALSE>> \in A[z]
        BY <1>6, <2>3, <3>1, AboveOrdered
      <3>3. A[w] \subseteq A[y] /\ A[z] \subseteq A[y]
        BY <1>1, <1>6, <2>3
      <3> QED
        BY <1>2, <1>6, <2>3, <3>2, <3>3
    <2> QED
      BY <2>1, <2>2, <2>3 DEF LeftOf
  <1> QED
    BY <1>4, <1>5, <1>6 DEF LeftOf

LEMMA LeftwardsSorted ==
    ASSUME NEW A, NEW G, TreeOK(A, G)
    PROVE  Sorted(Leftwards(A), A, G)
  <1> SUFFICES ASSUME NEW n \in Linked(A, G)
               PROVE  Between(Leftwards(A), SubOn(A, G, n, TRUE), n, SubOn(A, G, n, FALSE))
    BY DEF Sorted
  <1>1. n \in DOMAIN node /\ n \in DOMAIN A
    BY TreeParts DEF Linked
  <1>2. \A s \in BOOLEAN : \A x \in SubOn(A, G, n, s) : x \in DOMAIN node /\ <<n, s>> \in A[x]
    BY TreeParts DEF SubOn
  <1> QED
    BY <1>1, <1>2 DEF Between, Leftwards, LeftOf

(* A node between d and c in order, when c is on the way to what follows d *)
(* and has nothing on its left.                                            *)
LEMMA NoneBetween ==
    ASSUME NEW A, NEW G, TreeOK(A, G), NEW d \in Linked(A, G), NEW c \in Linked(A, G),
           After(A, d, c), IS_NULL(Kids[c][TRUE]), NEW n \in Linked(A, G), LeftOf(A, d, n)
    PROVE  ~LeftOf(A, n, c)
  <1>1. /\ Shape(Kids, Pointers, A, G) /\ Ancestors(A, G) /\ Branches(A, G)
        /\ d \in DOMAIN A /\ c \in DOMAIN A /\ n \in DOMAIN A
    BY DEF TreeOK, Shape, Linked
  <1>2. <<d, FALSE>> \in A[c] /\ A[d] \subseteq A[c]
    BY <1>1, AboveOne DEF After
  <1>3. n = c \/ LeftOf(A, c, n)
    <2>1. CASE <<n, TRUE>> \in A[d]
      BY <1>2, <2>1 DEF LeftOf
    <2>2. CASE <<d, FALSE>> \in A[n]
      BY <1>1, <2>2, NextInOrder DEF LeftOf
    <2>3. ASSUME NEW z \in DOMAIN A, <<z, TRUE>> \in A[d], <<z, FALSE>> \in A[n]
          PROVE  LeftOf(A, c, n)
      BY <1>2, <2>3 DEF LeftOf
    <2> QED
      BY <2>1, <2>2, <2>3 DEF LeftOf
  <1> QED
    BY <1>1, <1>3, LeftOfOneWay

LEMMA NextFollows ==
    ASSUME NEW A, NEW G, TreeOK(A, G), NEW d \in Linked(A, G), NEW c \in Linked(A, G),
           After(A, d, c), IS_NULL(Kids[c][TRUE])
    PROVE  Follows(d, c)
  <1>1. Ancestors(A, G) /\ Branches(A, G) /\ Linked(A, G) \subseteq DOMAIN A
    BY DEF TreeOK, Shape, Linked
  <1>2. PICK q : /\ q = InOrder /\ q \in Seq(DOMAIN node) /\ Range(q) = Linked(A, G)
                 /\ \A i, j \in 1 .. Len(q) : i < j => <<q[i], q[j]>> \in Leftwards(A)
    BY LeftwardsSorted, InOrderBy
  <1>3. DOMAIN q = 1 .. Len(q) /\ Len(q) \in Nat
    BY <1>2
  <1>4. \A i, j \in 1 .. Len(q) : i < j => LeftOf(A, q[i], q[j])
    BY <1>2 DEF Leftwards
  <1>5. \A i \in 1 .. Len(q) : q[i] \in Linked(A, G) /\ q[i] \in DOMAIN A
    BY <1>1, <1>2, <1>3 DEF Range
  <1>6. PICK i \in 1 .. Len(q), j \in 1 .. Len(q) : q[i] = d /\ q[j] = c
    BY <1>2, <1>3 DEF Range
  <1>7. LeftOf(A, d, c) /\ d # c
    BY <1>1, LeftOfOneWay DEF After, LeftOf
  <1>8. i < j
    <2>1. i # j
      BY <1>6, <1>7
    <2>2. ~(j < i)
      BY <1>1, <1>4, <1>5, <1>6, <1>7, LeftOfOneWay
    <2> QED
      BY <1>3, <2>1, <2>2
  <1>9. ~(i + 1 < j)
    <2> SUFFICES ASSUME i + 1 < j PROVE FALSE
      OBVIOUS
    <2>1. PICK e \in 1 .. Len(q) : e = i + 1
      BY <1>3
    <2>2. LeftOf(A, d, q[e])
      BY <1>4, <1>6, <2>1
    <2>3. LeftOf(A, q[e], c)
      BY <1>4, <1>6, <2>1
    <2>4. q[e] \in Linked(A, G)
      BY <1>5
    <2> QED
      BY <2>2, <2>3, <2>4, NoneBetween
  <1>10. j = i + 1 /\ i \in 1 .. Len(q) - 1
    BY <1>3, <1>8, <1>9
  <1> QED
    BY <1>2, <1>6, <1>10 DEF Follows

(* A node whose op is not a mark is linked. *)
LEMMA UnmarkedLinked ==
    ASSUME NEW A, NEW G, TreeOK(A, G), NEW n \in DOMAIN node, ~Has(n, "MARK")
    PROVE  n \in Linked(A, G)
  BY TreeParts DEF TreeOK, Linked

(* When no deleted block is used again, the key that remove() moves up is  *)
(* the one that follows in order: so it is when the thread goes to publish *)
(* the relocation, and so it stays while its outcome is open, as long as   *)
(* neither node has got another operation in between.                      *)
THEOREM AlwaysReplaceNext ==
    ASSUME ~ReusesBlocks
    PROVE  HistorySpec => []ReplaceIsNext
  <1>1. ASSUME TreeInv, NEW t \in Thread, pc[t] \in {"rem_key", "rem_reloc"}
        PROVE  /\ loc[t].curr # loc[t].auxRoot
               /\ /\ node[loc[t].auxRoot].op = loc[t].auxRoot_op
                  /\ node[loc[t].curr].op = loc[t].curr_op
                  => Follows(loc[t].auxRoot, loc[t].curr)
    <2>1. PICK l, at : l = loc[t] /\ at = pc[t]
      OBVIOUS
    <2>2. PICK A, G : HeapInv(A, G) /\ ThreadInv(A, G, l, at)
      BY <1>1, <2>1 DEF TreeInv
    <2>3. LocalOK(l, at) /\ l.auxRoot_op.flag = "NONE" /\ l.curr_op.flag = "NONE"
      BY <1>1, <2>1, LocalsOf DEF TreeInv, LocalOK
    <2>4. l.auxRoot # base_root /\ l.auxRoot \in DOMAIN node /\ l.curr \in DOMAIN node
      BY <1>1, <2>1, <2>3 DEF LocalOK, Node, OpLabel
    <2>5. /\ l.curr # l.auxRoot
          /\ Is(l.curr, l.curr_op) => IS_NULL(node[l.curr].left)
          /\ Is(l.auxRoot, l.auxRoot_op) => After(A, l.auxRoot, l.curr)
      BY <1>1, <2>1, <2>2, <2>4 DEF ThreadInv, SecondFind
    <2>6. ASSUME Is(l.auxRoot, l.auxRoot_op), Is(l.curr, l.curr_op)
          PROVE  Follows(l.auxRoot, l.curr)
      <3>1. ~Has(l.auxRoot, "MARK") /\ ~Has(l.curr, "MARK") /\ ~Has(l.curr, "CHILDCAS")
        BY <2>3, <2>6 DEF Is, Has, GET_FLAG
      <3>2. TreeOK(A, G) /\ l.auxRoot \in Linked(A, G) /\ l.curr \in Linked(A, G)
        BY <2>2, <2>4, <3>1, UnmarkedLinked DEF HeapInv
      <3>3. IS_NULL(Kids[l.curr][TRUE])
        BY <2>4, <2>5, <2>6, <3>1 DEF Kids, Child, ChildOf
      <3> QED
        BY <2>5, <2>6, <3>2, <3>3, NextFollows
    <2> QED
      BY <2>1, <2>5, <2>6 DEF Is
  <1>2. ASSUME TreeInv, NEW a \in DOMAIN reloc, NEW c \in Node, NEW d, d = reloc[a].dest,
               reloc[a].state = "ONGOING", c # d, node[c].op = ToDest(a),
               node[d].op \in {reloc[a].dest_op, ToDest(a)}
        PROVE  Follows(d, c)
    <2>1. PICK A, G : HeapInv(A, G)
      BY <1>2 DEF TreeInv
    <2>2. c \in DOMAIN node /\ d \in DOMAIN node /\ reloc[a].dest_op.flag = "NONE"
      BY <1>2 DEF TreeInv, Inv, PointersOK, HeapOK, Node
    <2>3. ~Has(c, "MARK") /\ ~Has(d, "MARK") /\ ~Has(c, "CHILDCAS")
      BY <1>2, <2>2 DEF Has, GET_FLAG, ToDest, Flagged
    <2>4. TreeOK(A, G) /\ d \in Linked(A, G) /\ c \in Linked(A, G)
      BY <2>1, <2>2, <2>3, UnmarkedLinked DEF HeapInv
    <2>5. Replaces(a, c)
      BY <1>2, <2>2 DEF Replaces, Had
    <2>6. IS_NULL(node[c].left) /\ After(A, d, c)
      BY <1>2, <2>1, <2>5 DEF HeapInv, RelocationsOK, Replaced, Is
    <2>7. IS_NULL(Kids[c][TRUE])
      BY <2>2, <2>3, <2>6 DEF Kids, Child, ChildOf
    <2> QED
      BY <2>4, <2>6, <2>7, NextFollows
  <1>3. ASSUME TreeInv PROVE ReplaceIsNext
    <2>1. \A a \in DOMAIN reloc : SET_FLAG(OpAt(a), "RELOCATE") = ToDest(a)
      BY OpFlags DEF Flag, ToDest
    <2> QED
      BY <1>1, <1>2, <1>3, <2>1 DEF ReplaceIsNext
  <1> QED
    BY <1>3, AlwaysTreeInv, PTL

(* When no deleted block is used again, all who help a relocation agree    *)
(* about its outcome: nobody replaces the key, clears dest or marks the    *)
(* replaced node unless the shared state says SUCCESSFUL, and nobody       *)
(* releases that node unless it says FAILED.                               *)
THEOREM HelpersAgree ==
    ASSUME ~ReusesBlocks
    PROVE  HistorySpec => []OneOutcome
  <1>1. ASSUME TreeInv, NEW t \in Thread, NEW l, l = loc[t], NEW s, s = reloc[l.reloc_op].state
        PROVE  /\ \/ pc[t] \in {"reloc_key", "reloc_clear"}
                  \/ pc[t] = "reloc_curr" /\ l.seen_state = "SUCCESSFUL"
                  => s = "SUCCESSFUL"
               /\ pc[t] = "reloc_curr" /\ l.seen_state # "SUCCESSFUL" => s = "FAILED"
    <2>1. Knows(node, past, reloc, l, pc[t])
      BY <1>1 DEF TreeInv, OpsInv, ThreadOps
    <2>2. PICK A, G : HelpsRelocate(A, G, l, pc[t])
      BY <1>1 DEF TreeInv, ThreadInv, Helps
    <2> QED
      BY <1>1, <2>1, <2>2 DEF Knows, HelpsRelocate
  <1>2. TreeInv => OneOutcome
    BY <1>1 DEF OneOutcome
  <1> QED
    BY <1>2, AlwaysTreeInv, PTL

-----------------------------------------------------------------------------
(***************************************************************************)
(* Every operation that is published has a thread that will clear it.      *)
(***************************************************************************)
Busy(n) == node[n].op.flag \in {"CHILDCAS", "RELOCATE"}

(* A thread with l at label at has not yet come to where it clears the op  *)
(* of n: helpRelocate() clears dest before it comes to replace.            *)
Serves(l, at, n) ==
    \/ at \in ChildLabel /\ l.dest = n /\ Is(n, Flagged("CHILDCAS", l.cas_op))
    \/ /\ at \in RelocLabel /\ Is(n, ToDest(l.reloc_op))
       /\ IF reloc[l.reloc_op].dest = n THEN at # "reloc_curr" ELSE l.curr = n

AllServed ==
    \A n \in DOMAIN node : Busy(n) => \E t \in Thread : Serves(loc[t], pc[t], n)

DestsStay == \A a \in DOMAIN reloc : a \in DOMAIN reloc' /\ reloc'[a].dest = reloc[a].dest

SameOp(n) == n \in DOMAIN node /\ node'[n].op = node[n].op

(* t does not leave alone what it serves, or has published. *)
Continued(t) ==
    \A n \in DOMAIN node' : Busy(n)' =>
        \/ SameOp(n) /\ (Serves(loc[t], pc[t], n) => Serves(loc[t], pc[t], n)')
        \/ Serves(loc[t], pc[t], n)'

LEMMA WaitingServes ==
    ASSUME Inv, DestsStay, NEW u \in Thread, pc'[u] = pc[u], loc'[u] = loc[u],
           NEW n, SameOp(n), Serves(loc[u], pc[u], n)
    PROVE  Serves(loc[u], pc[u], n)'
  <1>1. PICK l, at : l = loc[u] /\ at = pc[u]
    OBVIOUS
  <1>2. at \in RelocLabel => l.reloc_op \in DOMAIN reloc
    BY <1>1, LocalsOf DEF LocalOK
  <1>3. at \in RelocLabel => reloc'[l.reloc_op].dest = reloc[l.reloc_op].dest
    BY <1>2 DEF DestsStay
  <1>4. Serves(l, at, n)'
    BY <1>1, <1>3 DEF Serves, SameOp, Is
  <1> QED
    BY <1>1, <1>4

LEMMA ServedOn ==
    ASSUME Inv, AllServed, DestsStay, NEW t \in Thread, MovesOnly(t), Continued(t)
    PROVE  AllServed'
  <1>1. PICK to, m : Goto(t, to) /\ SetLocals(t, m)
    BY DEF MovesOnly
  <1>2. ASSUME NEW n \in DOMAIN node', Busy(n)'
        PROVE  \E u \in Thread : Serves(loc[u], pc[u], n)'
    <2>1. CASE Serves(loc[t], pc[t], n)'
      BY <2>1
    <2>2. CASE SameOp(n) /\ (Serves(loc[t], pc[t], n) => Serves(loc[t], pc[t], n)')
      <3>1. Busy(n) /\ n \in DOMAIN node
        BY <1>2, <2>2 DEF Busy, SameOp
      <3>2. PICK u \in Thread : Serves(loc[u], pc[u], n)
        BY <3>1 DEF AllServed
      <3>3. CASE u = t
        BY <2>2, <3>2, <3>3
      <3>4. CASE u # t
        <4>1. pc'[u] = pc[u] /\ loc'[u] = loc[u]
          BY <1>1, <3>4, OthersStay
        <4> QED
          BY <2>2, <3>2, <4>1, WaitingServes
      <3> QED
        BY <3>3, <3>4
    <2> QED
      BY <1>2, <2>1, <2>2 DEF Continued
  <1> QED
    BY <1>2 DEF AllServed

-----------------------------------------------------------------------------
(* A thread that serves nothing, and publishes nothing. *)
LEMMA IdleContinued ==
    ASSUME NEW t \in Thread, pc[t] \notin ChildLabel \cup RelocLabel,
           \A n \in DOMAIN node' : Busy(n)' => SameOp(n)
    PROVE  Continued(t)
  BY DEF Continued, Serves

LEMMA SameNodesContinued ==
    ASSUME NEW t \in Thread, pc[t] \notin ChildLabel \cup RelocLabel, node' = node
    PROVE  Continued(t)
  BY IdleContinued DEF SameOp

LEMMA FindContinued ==
    ASSUME NEW t \in Thread, TakeWork(t) \/ (t = Main /\ CreateTree) \/ Return(t) \/ Find(t)
    PROVE  Continued(t)
  <1>1. node' = node
    BY DEF TakeWork, CreateTree, Return, Find, FindStart, FindNext, FindVisit, FindKey,
           FindLastRight, FindCurr, heap
  <1>2. pc[t] \in {"idle", "return"} \cup FindLabel
    BY DEF TakeWork, CreateTree, Return, Find, FindStart, FindNext, FindVisit, FindKey,
           FindLastRight, FindCurr, FindLabel
  <1>3. pc[t] \notin ChildLabel \cup RelocLabel
    BY <1>2 DEF FindLabel, ChildLabel, RelocLabel
  <1> QED
    BY <1>1, <1>3, SameNodesContinued

LEMMA ReadsContinued ==
    ASSUME NEW t \in Thread,
           \/ AddReadOld(t) \/ RemoveReadRight(t) \/ RemoveReadLeft(t) \/ RemoveRecheck(t)
           \/ RemoveReadKey(t) \/ HelpMarkedTestLeft(t) \/ HelpMarkedTestRight(t)
           \/ HelpMarkedTake(t) \/ HelpMarkedSide(t)
    PROVE  Continued(t)
  <1>1. node' = node
    BY DEF AddReadOld, RemoveReadRight, RemoveReadLeft, RemoveRecheck, RemoveReadKey,
           HelpMarkedTestLeft, HelpMarkedTestRight, HelpMarkedTake, HelpMarkedSide, heap
  <1>2. pc[t] \in {"add_old", "rem_right", "rem_left", "rem_recheck", "rem_key", "mark_left",
                   "mark_right", "mark_take_left", "mark_take_right", "mark_side"}
    BY DEF AddReadOld, RemoveReadRight, RemoveReadLeft, RemoveRecheck, RemoveReadKey,
           HelpMarkedTestLeft, HelpMarkedTestRight, HelpMarkedTake, HelpMarkedSide
  <1>3. pc[t] \notin ChildLabel \cup RelocLabel
    BY <1>2 DEF ChildLabel, RelocLabel
  <1> QED
    BY <1>1, <1>3, SameNodesContinued

LEMMA RemoveMarkContinued ==
    ASSUME Inv, NEW t \in Thread, RemoveMark(t)
    PROVE  Continued(t)
  <1>1. PICK l : l = loc[t]
    OBVIOUS
  <1>2. pc[t] = "rem_mark" /\ CASOp(l.curr, l.curr_op, SET_FLAG(l.curr_op, "MARK"))
    BY <1>1 DEF RemoveMark
  <1>3. l.curr \in DOMAIN node /\ l.curr_op \in OpPtr /\ l.curr_op.flag = "NONE"
    BY <1>1, <1>2, LocalsOf DEF LocalOK, OpLabel, Node, LocalState
  <1>4. PICK w : w = SET_FLAG(l.curr_op, "MARK")
    OBVIOUS
  <1>5. w.flag = "MARK" /\ w \in OpPtr
    BY <1>3, <1>4, SetFlagType DEF Flag
  <1>6. ASSUME NEW n \in DOMAIN node', Busy(n)' PROVE SameOp(n)
    BY <1>2, <1>3, <1>4, <1>5, <1>6, CASOpChange DEF Changed, SameOps, Busy, SameOp
  <1>7. pc[t] \notin ChildLabel \cup RelocLabel
    BY <1>2 DEF ChildLabel, RelocLabel
  <1> QED
    BY <1>6, <1>7, IdleContinued

-----------------------------------------------------------------------------
(* Who publishes an operation goes on to help it. *)
LEMMA PublishContinued ==
    ASSUME NEW t \in Thread, pc[t] \notin ChildLabel \cup RelocLabel, NEW p,
           \A n \in DOMAIN node' \ {p} : Busy(n)' => SameOp(n),
           Serves(loc[t], pc[t], p)'
    PROVE  Continued(t)
  BY DEF Continued, Serves

LEMMA helpChildCASServes ==
    ASSUME Inv, NEW t \in Thread, NEW l \in LocalState, NEW o, NEW d, NEW ret,
           helpChildCAS(t, l, o, d, ret), Is(d, Flagged("CHILDCAS", o))'
    PROVE  Serves(loc[t], pc[t], d)'
  <1>1. PICK m : m = [FindCall(l) EXCEPT !.cas_op = o, !.dest = d, !.ret = ret]
    OBVIOUS
  <1>2. m.cas_op = o /\ m.dest = d
    BY <1>1, FindCallType DEF LocalState
  <1>3. pc'[t] = "child_cas" /\ loc'[t] = m
    BY <1>1, OthersStay DEF helpChildCAS
  <1>4. Serves(m, "child_cas", d)'
    BY <1>2 DEF Serves, ChildLabel
  <1> QED
    BY <1>3, <1>4

LEMMA helpRelocateServes ==
    ASSUME Inv, NEW t \in Thread, NEW l \in LocalState, NEW a, NEW p, NEW po, NEW c, NEW ret,
           helpRelocate(t, l, a, p, po, c, ret), Is(c, ToDest(a))'
    PROVE  Serves(loc[t], pc[t], c)'
  <1>1. PICK m : m = [FindCall(l) EXCEPT !.reloc_op = a, !.pred = p, !.pred_op = po,
                                         !.curr = c, !.ret = ret]
    OBVIOUS
  <1>2. m.reloc_op = a /\ m.curr = c
    BY <1>1, FindCallType DEF LocalState
  <1>3. pc'[t] = "reloc_state" /\ loc'[t] = m
    BY <1>1, OthersStay DEF helpRelocate
  <1>4. Serves(m, "reloc_state", c)'
    BY <1>2 DEF Serves, RelocLabel
  <1> QED
    BY <1>3, <1>4

LEMMA AddPublishContinued ==
    ASSUME Inv, OpsInv, NEW t \in Thread, AddPublish(t)
    PROVE  Continued(t)
  <1>1. PICK l, a : l = loc[t] /\ a = <<t, blocks[t]>>
    OBVIOUS
  <1>2. pc[t] = "add_cas" /\ pc[t] \notin ChildLabel \cup RelocLabel
    BY DEF AddPublish, ChildLabel, RelocLabel
  <1>3. l.curr \in DOMAIN node
    BY <1>1, <1>2, LocalsOf DEF LocalOK, OpLabel, Node
  <1>4. CASE Matches(l.curr, l.curr_op)
    <2>1. /\ node' = [Store(node, a, create_LF_node(l.work.key))
                        EXCEPT ![l.curr].op = SET_FLAG(OpAt(a), "CHILDCAS")]
          /\ helpChildCAS(t, l, a, l.curr, "op")
      BY <1>1, <1>4 DEF AddPublish
    <2>2. SET_FLAG(OpAt(a), "CHILDCAS") = Flagged("CHILDCAS", a)
      BY OpFlags DEF Flag
    <2>3. a \notin DOMAIN node
      BY <1>1, NewBlock
    <2>4. /\ DOMAIN node' = DOMAIN node \cup {a}
          /\ node'[l.curr].op = Flagged("CHILDCAS", a)
          /\ \A n \in DOMAIN node \ {l.curr} : node'[n] = node[n]
          /\ node'[a].op = NullOp
      BY <1>3, <2>1, <2>2, <2>3 DEF Store, create_LF_node
    <2>5. ASSUME NEW n \in DOMAIN node' \ {l.curr}, Busy(n)' PROVE SameOp(n)
      BY <2>4, <2>5 DEF Busy, SameOp, NullOp, OpAt
    <2>6. Serves(loc[t], pc[t], l.curr)'
      BY <1>1, <2>1, <2>4, LocalsOf, helpChildCASServes DEF Is
    <2> QED
      BY <1>2, <2>5, <2>6, PublishContinued
  <1>5. CASE ~Matches(l.curr, l.curr_op)
    <2>1. node' = node
      BY <1>1, <1>5 DEF AddPublish
    <2> QED
      BY <1>2, <2>1, SameNodesContinued
  <1> QED
    BY <1>4, <1>5

LEMMA HelpMarkedPublishContinued ==
    ASSUME Inv, NEW t \in Thread, HelpMarkedPublish(t)
    PROVE  Continued(t)
  <1>1. PICK l, a : l = loc[t] /\ a = <<t, blocks[t]>>
    OBVIOUS
  <1>2. pc[t] = "mark_cas" /\ pc[t] \notin ChildLabel \cup RelocLabel
    BY DEF HelpMarkedPublish, ChildLabel, RelocLabel
  <1>3. l.pred \in DOMAIN node
    BY <1>1, <1>2, LocalsOf DEF LocalOK, MarkLabel
  <1>4. CASE Matches(l.pred, l.pred_op)
    <2>1. /\ node' = [node EXCEPT ![l.pred].op = SET_FLAG(OpAt(a), "CHILDCAS")]
          /\ helpChildCAS(t, l, a, l.pred, l.ret)
      BY <1>1, <1>4 DEF HelpMarkedPublish, CASOp
    <2>2. SET_FLAG(OpAt(a), "CHILDCAS") = Flagged("CHILDCAS", a)
      BY OpFlags DEF Flag
    <2>3. /\ DOMAIN node' = DOMAIN node /\ node'[l.pred].op = Flagged("CHILDCAS", a)
          /\ \A n \in DOMAIN node \ {l.pred} : node'[n] = node[n]
      BY <1>3, <2>1, <2>2 DEF Inv, TypeOK, LF_BST_Node
    <2>4. Serves(loc[t], pc[t], l.pred)'
      BY <1>1, <2>1, <2>3, LocalsOf, helpChildCASServes DEF Is
    <2> QED
      BY <1>2, <2>3, <2>4, PublishContinued DEF SameOp
  <1>5. CASE ~Matches(l.pred, l.pred_op)
    <2>1. node' = node
      BY <1>1, <1>5 DEF HelpMarkedPublish, CASOp
    <2> QED
      BY <1>2, <2>1, SameNodesContinued
  <1> QED
    BY <1>4, <1>5

LEMMA RemovePublishContinued ==
    ASSUME Inv, NEW t \in Thread, RemovePublish(t)
    PROVE  Continued(t)
  <1>1. PICK l, a : l = loc[t] /\ a = RelocAddr(t)
    OBVIOUS
  <1>2. pc[t] = "rem_reloc" /\ pc[t] \notin ChildLabel \cup RelocLabel
    BY DEF RemovePublish, ChildLabel, RelocLabel
  <1>3. l.curr \in DOMAIN node /\ Locals(l.work) \in LocalState
    BY <1>1, <1>2, LocalsOf, WorkType, NewLocalsType DEF LocalOK, OpLabel, Node
  <1>4. CASE Matches(l.curr, l.curr_op)
    <2>1. /\ node' = [node EXCEPT ![l.curr].op = SET_FLAG(OpAt(a), "RELOCATE")]
          /\ helpRelocate(t, Locals(l.work), a, l.pred, l.pred_op, l.curr, "op")
      BY <1>1, <1>4 DEF RemovePublish, CASOp
    <2>2. SET_FLAG(OpAt(a), "RELOCATE") = ToDest(a)
      BY OpFlags DEF Flag, ToDest
    <2>3. /\ DOMAIN node' = DOMAIN node /\ node'[l.curr].op = ToDest(a)
          /\ \A n \in DOMAIN node \ {l.curr} : node'[n] = node[n]
      BY <1>3, <2>1, <2>2 DEF Inv, TypeOK, LF_BST_Node
    <2>4. Serves(loc[t], pc[t], l.curr)'
      BY <1>3, <2>1, <2>3, helpRelocateServes DEF Is
    <2> QED
      BY <1>2, <2>3, <2>4, PublishContinued DEF SameOp
  <1>5. CASE ~Matches(l.curr, l.curr_op)
    <2>1. node' = node
      BY <1>1, <1>5 DEF RemovePublish, CASOp
    <2> QED
      BY <1>2, <2>1, SameNodesContinued
  <1> QED
    BY <1>4, <1>5

-----------------------------------------------------------------------------
(* A helper that changes no op and remains on its way. *)
LEMMA StayContinued ==
    ASSUME Inv, NEW t \in Thread, NEW to, NEW m, Goto(t, to), SetLocals(t, m),
           \A n \in DOMAIN node' : Busy(n)' =>
              SameOp(n) \/ Serves(m, to, n)',
           \A n \in DOMAIN node : SameOp(n) /\ Serves(loc[t], pc[t], n) => Serves(m, to, n)'
    PROVE  Continued(t)
  <1>1. pc'[t] = to /\ loc'[t] = m
    BY OthersStay
  <1>2. \A n : Serves(m, to, n)' => Serves(loc[t], pc[t], n)'
    BY <1>1 DEF Serves
  <1> QED
    BY <1>2 DEF Continued, SameOp

LEMMA HelpChildCASSwingContinued ==
    ASSUME Inv, NEW t \in Thread, HelpChildCASSwing(t)
    PROVE  Continued(t)
  <1>1. PICK l : l = loc[t]
    OBVIOUS
  <1>2. pc[t] = "child_cas" /\ CASChild(l.dest, cas[l.cas_op]) /\ loc' = loc /\ cas' = cas
    BY <1>1 DEF HelpChildCASSwing
  <1>3. Goto(t, "child_clear") /\ SetLocals(t, l)
    BY <1>1, StayLocals DEF HelpChildCASSwing
  <1>4. l.dest \in DOMAIN node
    BY <1>1, <1>2, LocalsOf DEF LocalOK, ChildLabel
  <1>5. DOMAIN node' = DOMAIN node /\ \A n \in DOMAIN node : node'[n].op = node[n].op
    BY <1>2, <1>4 DEF CASChild, Inv, TypeOK, LF_BST_Node
  <1>6. ASSUME NEW n \in DOMAIN node, Serves(l, "child_cas", n)
        PROVE  Serves(l, "child_clear", n)'
    BY <1>5, <1>6 DEF Serves, ChildLabel, RelocLabel, Is
  <1> QED
    BY <1>1, <1>2, <1>3, <1>5, <1>6, StayContinued DEF SameOp

LEMMA HelpChildCASClearContinued ==
    ASSUME Inv, NEW t \in Thread, HelpChildCASClear(t)
    PROVE  Continued(t)
  <1>1. PICK l, a, d : l = loc[t] /\ a = l.cas_op /\ d = l.dest
    OBVIOUS
  <1>2. pc[t] = "child_clear" /\ a \in DOMAIN cas /\ d \in DOMAIN node
    BY <1>1, LocalsOf DEF HelpChildCASClear, LocalOK, ChildLabel
  <1>3. CASOp(d, Flagged("CHILDCAS", a), Flagged("NONE", a))
    BY <1>1, OpFlags DEF HelpChildCASClear, ClearOp, Flag
  <1>4. Flagged("NONE", a) \in OpPtr
    BY <1>2 DEF Inv, TypeOK, Flagged, OpPtr, Flag
  <1>5. ASSUME NEW n \in DOMAIN node', Busy(n)'
        PROVE  SameOp(n) /\ ~Serves(l, "child_clear", n)
    <2>1. CASE Matches(d, Flagged("CHILDCAS", a))
      <3>1. Changed(node, node', d, Flagged("NONE", a)) /\ DOMAIN node' = DOMAIN node
        BY <1>2, <1>3, <1>4, <2>1, CASOpChange
      <3>2. n # d /\ n \in DOMAIN node
        BY <1>5, <3>1 DEF Changed, Busy, Flagged
      <3> QED
        BY <1>1, <3>1, <3>2 DEF Changed, SameOp, Serves, RelocLabel
    <2>2. CASE ~Matches(d, Flagged("CHILDCAS", a))
      <3>1. node' = node
        BY <1>3, <2>2 DEF CASOp
      <3> QED
        BY <1>1, <1>5, <2>2, <3>1 DEF SameOp, Serves, RelocLabel, Matches, Is
    <2> QED
      BY <2>1, <2>2
  <1> QED
    BY <1>1, <1>2, <1>5 DEF Continued

-----------------------------------------------------------------------------
(* The helpers of relocation a, whose locals are l. *)
Relocates(t, l, a) ==
    /\ l = loc[t] /\ a = l.reloc_op /\ pc[t] \in RelocLabel
    /\ a \in DOMAIN reloc /\ RelocationOK(node, past, reloc, a)
    /\ Knows(node, past, reloc, l, pc[t])
    /\ a \in Addr /\ l.curr \in DOMAIN node /\ reloc[a].dest \in DOMAIN node
    /\ reloc[a].dest_op.flag = "NONE"

LEMMA HelperRelocates ==
    ASSUME Inv, OpsInv, NEW t \in Thread, pc[t] \in RelocLabel, NEW l, l = loc[t], NEW a, a = l.reloc_op
    PROVE  Relocates(t, l, a)
  BY HelpedRelocation DEF Relocates

(* No op changes: t goes on to clear what it serves. *)
LEMMA RelocateStays ==
    ASSUME Inv, DestsStay, NEW t \in Thread, NEW l, NEW a, Relocates(t, l, a),
           NEW to \in RelocLabel, NEW m, Goto(t, to), SetLocals(t, m),
           m.reloc_op = l.reloc_op, m.curr = l.curr,
           DOMAIN node' = DOMAIN node, \A n \in DOMAIN node : node'[n].op = node[n].op,
           to = "reloc_curr" => ~Is(reloc[a].dest, ToDest(a))
    PROVE  Continued(t)
  <1>1. reloc'[a].dest = reloc[a].dest /\ m.reloc_op = a
    BY DEF DestsStay, Relocates
  <1>2. pc[t] \notin ChildLabel /\ to \notin ChildLabel
    BY DEF Relocates, RelocLabel, ChildLabel
  <1>3. ASSUME NEW n \in DOMAIN node, Serves(l, pc[t], n)
        PROVE  Serves(m, to, n)'
    <2>1. Is(n, ToDest(a)) /\ (reloc[a].dest # n => l.curr = n)
      BY <1>2, <1>3 DEF Serves, Relocates
    <2>2. node'[n].op = ToDest(a)
      BY <2>1 DEF Is
    <2>3. CASE reloc[a].dest = n
      <3>1. to # "reloc_curr"
        BY <2>1, <2>3
      <3> QED
        BY <1>1, <2>2, <2>3, <3>1 DEF Serves, Is
    <2>4. CASE reloc[a].dest # n
      BY <1>1, <2>1, <2>2, <2>4 DEF Serves, Is
    <2> QED
      BY <2>3, <2>4
  <1> QED
    BY <1>3, StayContinued DEF SameOp, Relocates

(* A helper that has learnt what the state is, which is s. *)
LEMMA SeenContinued ==
    ASSUME Inv, OpsInv, DestsStay, NEW t \in Thread, NEW l, NEW a, Relocates(t, l, a),
           NEW to \in RelocLabel, NEW s, Goto(t, to), SetLocals(t, [l EXCEPT !.seen_state = s]),
           node' = node, to = "reloc_curr" => ~Is(reloc[a].dest, ToDest(a))
    PROVE  Continued(t)
  <1>1. PICK m : m = [l EXCEPT !.seen_state = s]
    OBVIOUS
  <1>2. m.reloc_op = l.reloc_op /\ m.curr = l.curr
    BY <1>1, LocalsOf DEF LocalState, Relocates
  <1> QED
    BY <1>1, <1>2, RelocateStays

LEMMA HelpRelocateStateContinued ==
    ASSUME Inv, OpsInv, DestsStay, NEW t \in Thread, HelpRelocateState(t)
    PROVE  Continued(t)
  <1>1. PICK l, a, s : l = loc[t] /\ a = l.reloc_op /\ s = reloc[a].state
    OBVIOUS
  <1>2. pc[t] = "reloc_state" /\ Relocates(t, l, a)
    BY <1>1, HelperRelocates DEF HelpRelocateState, RelocLabel
  <1>3. /\ Goto(t, AfterState(s)) /\ SetLocals(t, [l EXCEPT !.seen_state = s])
        /\ node' = node
    BY <1>1 DEF HelpRelocateState, heap
  <1>4. s \in {"ONGOING", "SUCCESSFUL", "FAILED"}
    BY <1>1, <1>2, HelpedRelocation DEF RelocLabel
  <1>5. AfterState(s) \in RelocLabel /\ (AfterState(s) = "reloc_curr" => s = "FAILED")
    BY <1>4 DEF AfterState, RelocLabel
  <1>6. s = "FAILED" => ~Is(reloc[a].dest, ToDest(a))
    BY <1>1, <1>2 DEF Relocates, RelocationOK, Had, Is
  <1> QED
    BY <1>2, <1>3, <1>5, <1>6, SeenContinued

LEMMA HelpRelocateDecideContinued ==
    ASSUME Inv, OpsInv, DestsStay, NEW t \in Thread, HelpRelocateWon(t) \/ HelpRelocateLost(t)
    PROVE  Continued(t)
  <1>1. PICK l, a : l = loc[t] /\ a = l.reloc_op
    OBVIOUS
  <1>2. pc[t] \in {"reloc_won", "reloc_lost"} /\ Relocates(t, l, a) /\ node' = node
    BY <1>1, HelperRelocates DEF HelpRelocateWon, HelpRelocateLost, RelocLabel
  <1>3. CASE HelpRelocateWon(t)
    <2>1. Goto(t, "reloc_key") /\ SetLocals(t, [l EXCEPT !.seen_state = "SUCCESSFUL"])
      BY <1>1, <1>3 DEF HelpRelocateWon
    <2> QED
      BY <1>2, <2>1, SeenContinued DEF RelocLabel
  <1>4. CASE HelpRelocateLost(t)
    <2>1. PICK s : s = reloc[a].state
      OBVIOUS
    <2>2. PICK to : to = IF s = "SUCCESSFUL" THEN "reloc_key" ELSE "reloc_curr"
      OBVIOUS
    <2>3. Goto(t, to) /\ SetLocals(t, [l EXCEPT !.seen_state = s]) /\ pc[t] = "reloc_lost"
      BY <1>1, <1>4, <2>1, <2>2 DEF HelpRelocateLost
    <2>4. ~Is(reloc[a].dest, ToDest(a)) /\ to \in RelocLabel
      BY <1>1, <1>2, <2>2, <2>3 DEF Relocates, Knows, Is, RelocLabel
    <2> QED
      BY <1>2, <2>3, <2>4, SeenContinued
  <1> QED
    BY <1>3, <1>4

LEMMA HelpRelocateKeyContinued ==
    ASSUME Inv, OpsInv, DestsStay, NEW t \in Thread, HelpRelocateKey(t)
    PROVE  Continued(t)
  <1>1. PICK l, a : l = loc[t] /\ a = l.reloc_op
    OBVIOUS
  <1>2. pc[t] = "reloc_key" /\ Relocates(t, l, a)
    BY <1>1, HelperRelocates DEF HelpRelocateKey, RelocLabel
  <1>3. Goto(t, "reloc_clear") /\ SetLocals(t, l) /\ CASKey(reloc[a])
    BY <1>1, StayLocals DEF HelpRelocateKey
  <1>4. DOMAIN node' = DOMAIN node /\ \A n \in DOMAIN node : node'[n].op = node[n].op
    BY <1>2, <1>3 DEF CASKey, Inv, TypeOK, LF_BST_Node, Relocates
  <1> QED
    BY <1>2, <1>3, <1>4, RelocateStays DEF RelocLabel

-----------------------------------------------------------------------------
LEMMA HelpRelocateDestContinued ==
    ASSUME Inv, OpsInv, DestsStay, NEW t \in Thread, HelpRelocateDest(t)
    PROVE  Continued(t)
  <1>1. PICK l, a, d : l = loc[t] /\ a = l.reloc_op /\ d = reloc[a].dest
    OBVIOUS
  <1>2. pc[t] = "reloc_dest" /\ Relocates(t, l, a)
    BY <1>1, HelperRelocates DEF HelpRelocateDest, RelocLabel
  <1>3. CASOp(d, reloc[a].dest_op, ToDest(a))
    BY <1>1, OpFlags DEF HelpRelocateDest, ToDest, Flag
  <1>4. PICK to : to \in {"reloc_won", "reloc_lost"} /\ Goto(t, to)
    BY DEF HelpRelocateDest
  <1>5. SetLocals(t, l)
    BY <1>1, StayLocals DEF HelpRelocateDest
  <1>6. ToDest(a) \in OpPtr
    BY <1>2 DEF Relocates, ToDest, Flagged, OpPtr, Flag
  <1>7. CASE Matches(d, reloc[a].dest_op)
    <2>1. Changed(node, node', d, ToDest(a)) /\ DOMAIN node' = DOMAIN node
      BY <1>1, <1>2, <1>3, <1>6, <1>7, CASOpChange DEF Relocates
    <2>2. reloc'[a].dest = d
      BY <1>1, <1>2 DEF DestsStay, Relocates
    <2>3. Serves(l, to, d)'
      BY <1>1, <1>4, <2>1, <2>2 DEF Serves, RelocLabel, Changed, Is
    <2>4. ASSUME NEW n \in DOMAIN node' PROVE SameOp(n) \/ Serves(l, to, n)'
      BY <2>1, <2>3 DEF Changed, SameOp
    <2>5. ASSUME NEW n \in DOMAIN node, SameOp(n), Serves(l, "reloc_dest", n)
          PROVE  Serves(l, to, n)'
      <3>1. node'[n].op = ToDest(a) /\ (d # n => l.curr = n)
        BY <1>1, <2>5 DEF Serves, SameOp, Is, ChildLabel
      <3> QED
        BY <1>1, <1>4, <2>2, <3>1 DEF Serves, RelocLabel, Is
    <2> QED
      BY <1>1, <1>2, <1>4, <1>5, <2>4, <2>5, StayContinued
  <1>8. CASE ~Matches(d, reloc[a].dest_op)
    <2>1. node' = node
      BY <1>3, <1>8 DEF CASOp
    <2> QED
      BY <1>2, <1>4, <1>5, <2>1, RelocateStays DEF RelocLabel
  <1> QED
    BY <1>7, <1>8

LEMMA HelpRelocateClearContinued ==
    ASSUME Inv, OpsInv, DestsStay, NEW t \in Thread, HelpRelocateClear(t)
    PROVE  Continued(t)
  <1>1. PICK l, a, d : l = loc[t] /\ a = l.reloc_op /\ d = reloc[a].dest
    OBVIOUS
  <1>2. pc[t] = "reloc_clear" /\ Relocates(t, l, a)
    BY <1>1, HelperRelocates DEF HelpRelocateClear, RelocLabel
  <1>3. CASOp(d, ToDest(a), Flagged("NONE", a))
    BY <1>1, OpFlags DEF HelpRelocateClear, ClearOp, ToDest, Flag
  <1>4. Goto(t, "reloc_curr") /\ SetLocals(t, l)
    BY <1>1, StayLocals DEF HelpRelocateClear
  <1>5. Flagged("NONE", a) \in OpPtr
    BY <1>2 DEF Relocates, Flagged, OpPtr, Flag
  <1>6. CASE Matches(d, ToDest(a))
    <2>1. Changed(node, node', d, Flagged("NONE", a)) /\ DOMAIN node' = DOMAIN node
      BY <1>1, <1>2, <1>3, <1>5, <1>6, CASOpChange DEF Relocates
    <2>2. reloc'[a].dest = d
      BY <1>1, <1>2 DEF DestsStay, Relocates
    <2>3. ASSUME NEW n \in DOMAIN node', Busy(n)' PROVE SameOp(n)
      BY <2>1, <2>3 DEF Changed, SameOp, Busy, Flagged
    <2>4. ASSUME NEW n \in DOMAIN node, SameOp(n), Serves(l, "reloc_clear", n)
          PROVE  Serves(l, "reloc_curr", n)'
      <3>1. node'[n].op = ToDest(a) /\ (d # n => l.curr = n)
        BY <1>1, <2>4 DEF Serves, SameOp, Is, ChildLabel
      <3>2. n # d
        BY <2>1, <3>1 DEF Changed, ToDest, Flagged
      <3> QED
        BY <1>1, <2>2, <3>1, <3>2 DEF Serves, RelocLabel, Is
    <2> QED
      BY <1>1, <1>2, <1>4, <2>3, <2>4, StayContinued
  <1>7. CASE ~Matches(d, ToDest(a))
    <2>1. node' = node /\ ~Is(d, ToDest(a))
      BY <1>3, <1>7 DEF CASOp, Matches, Is
    <2> QED
      BY <1>1, <1>2, <1>4, <2>1, RelocateStays DEF RelocLabel
  <1> QED
    BY <1>6, <1>7

LEMMA HelpRelocateCurrContinued ==
    ASSUME Inv, OpsInv, NEW t \in Thread, HelpRelocateCurr(t)
    PROVE  Continued(t)
  <1>1. PICK l, a, d, f :
           /\ l = loc[t] /\ a = l.reloc_op /\ d = reloc[a].dest
           /\ f = ReplaceFlag(l.seen_state = "SUCCESSFUL")
    OBVIOUS
  <1>2. pc[t] = "reloc_curr" /\ Relocates(t, l, a)
    BY <1>1, HelperRelocates DEF HelpRelocateCurr, RelocLabel
  <1>3. f \in {"MARK", "NONE"}
    BY <1>1 DEF ReplaceFlag
  <1>4. \A n : Serves(l, "reloc_curr", n) => Is(n, ToDest(a)) /\ d # n /\ l.curr = n
    BY <1>1 DEF Serves, ChildLabel
  <1>5. CASE d = l.curr
    <2>1. node' = node
      BY <1>1, <1>5 DEF HelpRelocateCurr
    <2> QED
      BY <1>1, <1>2, <1>4, <1>5, <2>1 DEF Continued, SameOp
  <1>6. CASE d # l.curr
    <2>1. CASOp(l.curr, ToDest(a), Flagged(f, a))
      BY <1>1, <1>3, <1>6, OpFlags DEF HelpRelocateCurr, ToDest, Flag
    <2>2. Flagged(f, a) \in OpPtr
      BY <1>2, <1>3 DEF Relocates, Flagged, OpPtr, Flag
    <2>3. ASSUME NEW n \in DOMAIN node', Busy(n)'
          PROVE  SameOp(n) /\ ~Serves(l, "reloc_curr", n)
      <3>1. CASE Matches(l.curr, ToDest(a))
        <4>1. Changed(node, node', l.curr, Flagged(f, a)) /\ DOMAIN node' = DOMAIN node
          BY <1>2, <2>1, <2>2, <3>1, CASOpChange DEF Relocates
        <4> QED
          BY <1>3, <1>4, <2>3, <4>1 DEF Changed, SameOp, Busy, Flagged
      <3>2. CASE ~Matches(l.curr, ToDest(a))
        <4>1. node' = node
          BY <2>1, <3>2 DEF CASOp
        <4> QED
          BY <1>4, <2>3, <3>2, <4>1 DEF SameOp, Matches, Is
      <3> QED
        BY <3>1, <3>2
    <2> QED
      BY <1>1, <1>2, <2>3 DEF Continued
  <1> QED
    BY <1>5, <1>6

-----------------------------------------------------------------------------
LEMMA StepContinued ==
    ASSUME Inv, OpsInv, DestsStay, NEW t \in Thread, Step(t) \/ (t = Main /\ CreateTree)
    PROVE  Continued(t)
  <1>1. CASE TakeWork(t) \/ (t = Main /\ CreateTree) \/ Return(t) \/ Find(t)
    BY <1>1, FindContinued
  <1>2. CASE Add(t) \/ Remove(t)
    BY <1>2, ReadsContinued, AddPublishContinued, RemoveMarkContinued, RemovePublishContinued
    DEF Add, Remove
  <1>3. CASE HelpChildCAS(t)
    BY <1>3, HelpChildCASSwingContinued, HelpChildCASClearContinued DEF HelpChildCAS
  <1>4. CASE HelpMarked(t)
    BY <1>4, ReadsContinued, HelpMarkedPublishContinued DEF HelpMarked
  <1>5. CASE HelpRelocate(t)
    BY <1>5, HelpRelocateStateContinued, HelpRelocateDecideContinued, HelpRelocateKeyContinued,
       HelpRelocateDestContinued, HelpRelocateClearContinued, HelpRelocateCurrContinued
    DEF HelpRelocate
  <1> QED
    BY <1>1, <1>2, <1>3, <1>4, <1>5 DEF Step

LEMMA ServedNext ==
    ASSUME TreeInv, AllServed, ~ReusesBlocks, [HistoryNext]_hvars
    PROVE  AllServed'
  <1>1. Inv /\ OpsInv
    BY DEF TreeInv
  <1>2. DestsStay
    <2>1. PICK A, G, B, H : Stepped(A, G, B, H)
      BY TreeNext
    <2> QED
      BY <2>1 DEF Stepped, Later, RelocationLater, DestsStay
  <1>3. ASSUME NEW t \in Thread, Step(t) \/ (t = Main /\ CreateTree)
        PROVE  AllServed'
    BY <1>1, <1>2, <1>3, StepMoves, StepContinued, ServedOn
  <1>4. CASE CreateTree \/ \E t \in Thread : Step(t)
    BY <1>3, <1>4 DEF Thread
  <1>5. CASE UNCHANGED vars
    BY <1>5 DEF AllServed, Busy, Serves, Is, vars, heap
  <1> QED
    BY <1>4, <1>5 DEF HistoryNext, hvars, Next, Terminated

LEMMA ServedInit == HistoryInit => AllServed
  BY InitHeap DEF AllServed, Busy, create_LF_node, NullOp, OpAt

(* When no deleted block is used again, every operation that is published  *)
(* in some node has a thread, in every state of every run, that is still   *)
(* to clear it: no helper goes on, and none leaves, in the belief that     *)
(* another one will do it.                                                 *)
THEOREM AlwaysServed ==
    ASSUME ~ReusesBlocks
    PROVE  HistorySpec => []AllServed
  <1>1. TreeInv /\ AllServed /\ [HistoryNext]_hvars => AllServed'
    BY ServedNext
  <1> QED
    BY <1>1, AlwaysTreeInv, ServedInit, PTL DEF HistorySpec

(* When no deleted block is used again, no operation is left in the tree   *)
(* when the threads have been joined, in any run: the harness that walks   *)
(* it then sees what the operations have done.                             *)
THEOREM AlwaysQuiescentClean ==
    ASSUME ~ReusesBlocks
    PROVE  HistorySpec => []QuiescentClean
  <1>1. ASSUME TreeInv, AllServed PROVE QuiescentClean
    <2>1. PICK A, G : TreeOK(A, G)
      BY <1>1 DEF TreeInv, HeapInv
    <2>2. Range(InOrder) \subseteq DOMAIN node
      BY <2>1, InOrderLinked DEF TreeOK, Linked
    <2>3. Joined => \A n \in DOMAIN node : ~Busy(n)
      BY <1>1 DEF Joined, AllServed, Serves, ChildLabel, RelocLabel
    <2> QED
      BY <2>2, <2>3 DEF QuiescentClean, Busy, Has, GET_FLAG
  <1> QED
    BY <1>1, AlwaysTreeInv, AlwaysServed, PTL

-----------------------------------------------------------------------------
(***************************************************************************)
(* The keys: base_root keeps its -1, and all others come from the files.   *)
(***************************************************************************)
FilesNatural ==
    /\ \A file \in CreateFiles : \A i \in DOMAIN file : file[i] \in Nat
    /\ \A trace \in Traces : \A i \in DOMAIN trace : trace[i].key \in Nat

KeysInv ==
    /\ \A i \in DOMAIN create : create[i] \in Nat
    /\ \A i \in DOMAIN queue : queue[i].key \in Nat
    /\ \A t \in Thread : loc[t].work.key \in Nat
    /\ node[base_root].key = -1
    /\ \A n \in Node : node[n].key \in Nat

KeepsWork(t) == \E at, m : Goto(t, at) /\ SetLocals(t, m) /\ m.work = loc[t].work

LEMMA WorkBy ==
    ASSUME NEW t, NEW at, NEW m, Goto(t, at), SetLocals(t, m), m.work = loc[t].work
    PROVE  KeepsWork(t)
  BY DEF KeepsWork

LEMMA LocalsWork ==
    ASSUME NEW l \in LocalState
    PROVE  Locals(l.work).work = l.work /\ Locals(l.work) \in LocalState
  BY WorkType, NewLocalsType DEF Locals

LEMMA WorkByCalls ==
    ASSUME Inv, NEW t \in Thread
    PROVE  /\ RetryFind(t) => KeepsWork(t)
           /\ Loop(t) => KeepsWork(t)
           /\ \A b : Answer(t, b) => KeepsWork(t)
           /\ Helped(t) => KeepsWork(t)
           /\ RelocateFailed(t) => KeepsWork(t)
  <1>1. PICK l : l = loc[t] /\ l \in LocalState
    BY LocalsOf
  <1>2. /\ FindCall(l).work = l.work /\ FindCall(l) \in LocalState
        /\ Locals(l.work).work = l.work /\ Locals(l.work) \in LocalState
    BY <1>1, FindCallType, FindCallContinues, LocalsWork
  <1>3. RetryFind(t) => KeepsWork(t)
    BY <1>1, <1>2, WorkBy DEF RetryFind
  <1>4. Loop(t) => KeepsWork(t)
    BY <1>1, <1>2, WorkBy DEF Loop
  <1>5. ASSUME NEW b, Answer(t, b) PROVE KeepsWork(t)
    <2>1. PICK m : m = [Locals(l.work) EXCEPT !.answer = b]
      OBVIOUS
    <2>2. m.work = l.work
      BY <1>2, <2>1 DEF LocalState
    <2> QED
      BY <1>1, <1>5, <2>1, <2>2, WorkBy DEF Answer
  <1>6. Helped(t) => KeepsWork(t)
    BY <1>3, <1>5 DEF Helped
  <1>7. RelocateFailed(t) => KeepsWork(t)
    BY <1>3, <1>4 DEF RelocateFailed
  <1> QED
    BY <1>3, <1>4, <1>5, <1>6, <1>7

LEMMA WorkByHelpers ==
    ASSUME NEW t \in Thread, NEW l \in LocalState, l.work = loc[t].work
    PROVE  /\ \A o, d, ret : helpChildCAS(t, l, o, d, ret) => KeepsWork(t)
           /\ \A p, o, c, ret : helpMarked(t, l, p, o, c, ret) => KeepsWork(t)
           /\ \A a, p, o, c, ret : helpRelocate(t, l, a, p, o, c, ret) => KeepsWork(t)
  <1>1. FindCall(l).work = l.work /\ FindCall(l) \in LocalState
    BY FindCallType, FindCallContinues
  <1>2. ASSUME NEW p, NEW o, NEW c, NEW ret, helpMarked(t, l, p, o, c, ret) PROVE KeepsWork(t)
    <2>1. PICK m : m = [FindCall(l) EXCEPT !.pred = p, !.pred_op = o, !.curr = c, !.ret = ret]
      OBVIOUS
    <2>2. m.work = l.work
      BY <1>1, <2>1 DEF LocalState
    <2> QED
      BY <1>2, <2>1, <2>2, WorkBy DEF helpMarked
  <1>3. ASSUME NEW a, NEW p, NEW o, NEW c, NEW ret, helpRelocate(t, l, a, p, o, c, ret)
        PROVE  KeepsWork(t)
    <2>1. PICK m : m = [FindCall(l) EXCEPT !.reloc_op = a, !.pred = p, !.pred_op = o,
                                           !.curr = c, !.ret = ret]
      OBVIOUS
    <2>2. m.work = l.work
      BY <1>1, <2>1 DEF LocalState
    <2> QED
      BY <1>3, <2>1, <2>2, WorkBy DEF helpRelocate
  <1>4. ASSUME NEW o, NEW d, NEW ret, helpChildCAS(t, l, o, d, ret) PROVE KeepsWork(t)
    <2>1. PICK m : m = [FindCall(l) EXCEPT !.cas_op = o, !.dest = d, !.ret = ret]
      OBVIOUS
    <2>2. m.work = l.work
      BY <1>1, <2>1 DEF LocalState
    <2> QED
      BY <1>4, <2>1, <2>2, WorkBy DEF helpChildCAS
  <1> QED
    BY <1>2, <1>3, <1>4

LEMMA StayWork ==
    ASSUME Inv, NEW t \in Thread, NEW at, Goto(t, at), loc' = loc
    PROVE  KeepsWork(t)
  BY StayLocals, WorkBy

-----------------------------------------------------------------------------
LEMMA FindWork ==
    ASSUME Inv, NEW t \in Thread, Find(t)
    PROVE  KeepsWork(t)
  <1>1. PICK l : l = loc[t] /\ l \in LocalState
    BY LocalsOf
  <1>2. CASE FindStart(t)
    <2>1. PICK m : m = [l EXCEPT !.curr = l.auxRoot, !.curr_op = node[l.auxRoot].op,
                                 !.result = "NOTFOUND_R"]
      OBVIOUS
    <2>2. m.work = l.work
      BY <1>1, <2>1 DEF LocalState
    <2> QED
      BY <1>1, <1>2, <2>1, <2>2, WorkBy, WorkByCalls, WorkByHelpers DEF FindStart, Abort
  <1>3. CASE FindNext(t)
    <2>1. PICK c : c = ChildOf(node[l.curr], l.result = "NOTFOUND_L")
      OBVIOUS
    <2>2. PICK m, k : /\ m = [l EXCEPT !.next = c]
                      /\ k = [l EXCEPT !.next = c, !.last_right = l.curr,
                                       !.last_right_op = l.curr_op]
      OBVIOUS
    <2>3. m.work = l.work /\ k.work = l.work
      BY <1>1, <2>2 DEF LocalState
    <2> QED
      BY <1>1, <1>3, <2>1, <2>2, <2>3, WorkBy DEF FindNext
  <1>4. CASE FindVisit(t)
    <2>1. PICK c, o : c = l.next.node /\ o = node[c].op
      OBVIOUS
    <2>2. PICK m : m = [l EXCEPT !.pred = l.curr, !.pred_op = l.curr_op, !.curr = c,
                                 !.curr_op = o, !.next = SET_NULL(NoNode)]
      OBVIOUS
    <2>3. m.work = l.work
      BY <1>1, <2>2 DEF LocalState
    <2>4. c \in Node /\ o.flag \in Flag
      BY <1>1, <1>4, <2>1, LocalsOf, NodeType DEF FindVisit, LocalOK, RefOK, Node, OpPtr
    <2>5. \/ Goto(t, "find_key") /\ SetLocals(t, m)
          \/ helpChildCAS(t, Descended(l), UNFLAG(o), c, "find")
          \/ helpRelocate(t, l, UNFLAG(o), l.curr, l.curr_op, c, "find")
          \/ helpMarked(t, l, l.curr, l.curr_op, c, "find")
      BY <1>1, <1>4, <2>1, <2>2, <2>4 DEF FindVisit, GET_FLAG, Flag
    <2>6. Descended(l) \in LocalState /\ Descended(l).work = l.work
      BY <1>1, <1>4, LocalsOf, DescendedType DEF FindVisit
    <2> QED
      BY <1>1, <2>3, <2>5, <2>6, WorkBy, WorkByHelpers
  <1>5. CASE FindKey(t)
    <2>1. PICK res : /\ SetLocals(t, [l EXCEPT !.result = res])
                     /\ Goto(t, IF res = "FOUND" THEN "find_curr" ELSE "find_next")
      BY <1>1, <1>5 DEF FindKey
    <2>2. PICK m : m = [l EXCEPT !.result = res]
      OBVIOUS
    <2>3. m.work = l.work
      BY <1>1, <2>2 DEF LocalState
    <2> QED
      BY <1>1, <2>1, <2>2, <2>3, WorkBy
  <1>6. CASE FindLastRight(t)
    BY <1>6, StayWork, WorkByCalls DEF FindLastRight
  <1>7. CASE FindCurr(t)
    <2>1. FindCall(l).work = l.work /\ FindCall(l) \in LocalState
      BY <1>1, FindCallType, FindCallContinues
    <2>2. PICK m : m = FoundLocals(l)
      OBVIOUS
    <2>3. m.work = l.work
      BY <2>1, <2>2 DEF FoundLocals, LocalState
    <2>4. l.work.op \in {"INSERT", "SEARCH", "DELETE"}
      BY <1>1 DEF LocalState, Work
    <2>5. \/ RetryFind(t) \/ Answer(t, l.result = "FOUND") \/ Answer(t, FALSE)
          \/ SetLocals(t, m) /\ (\E at \in {"add_old", "rem_right", "rem_recheck"} : Goto(t, at))
      BY <1>1, <1>7, <2>2, <2>4 DEF FindCurr, FindReturn, FoundLocals
    <2> QED
      BY <1>1, <2>3, <2>5, WorkBy, WorkByCalls
  <1> QED
    BY <1>2, <1>3, <1>4, <1>5, <1>6, <1>7 DEF Find

LEMMA AddRemoveWork ==
    ASSUME Inv, NEW t \in Thread, Add(t) \/ Remove(t)
    PROVE  KeepsWork(t)
  <1>1. PICK l : l = loc[t] /\ l \in LocalState
    BY LocalsOf
  <1>2. Locals(l.work).work = l.work /\ Locals(l.work) \in LocalState
    BY <1>1, LocalsWork
  <1>3. CASE AddReadOld(t)
    <2>1. PICK c, s : s = (l.result = "NOTFOUND_L") /\ c = ChildOf(node[l.curr], s)
      OBVIOUS
    <2>2. PICK m : m = [Locals(l.work) EXCEPT !.curr = l.curr, !.curr_op = l.curr_op,
                                              !.is_left = s, !.old = c]
      OBVIOUS
    <2>3. m.work = l.work
      BY <1>2, <2>2 DEF LocalState
    <2> QED
      BY <1>1, <1>3, <2>1, <2>2, <2>3, WorkBy DEF AddReadOld
  <1>4. CASE AddPublish(t)
    BY <1>1, <1>4, WorkByCalls, WorkByHelpers DEF AddPublish
  <1>5. CASE RemoveReadRight(t) \/ RemoveRecheck(t)
    BY <1>5, StayWork, WorkByCalls DEF RemoveReadRight, RemoveRecheck
  <1>6. CASE RemoveReadLeft(t)
    <2>1. PICK k : k = [l EXCEPT !.auxRoot = l.curr, !.auxRoot_op = l.curr_op]
      OBVIOUS
    <2>2. k \in LocalState /\ k.work = l.work
      <3>1. l.curr \in Addr
        BY <1>1, <1>6, LocalsOf DEF RemoveReadLeft, LocalOK, OpLabel, Inv, TypeOK
      <3> QED
        BY <1>1, <2>1, <3>1 DEF LocalState
    <2>3. FindCall(k).work = l.work
      BY <2>2, FindCallContinues
    <2> QED
      BY <1>1, <1>6, <2>1, <2>3, StayWork, WorkBy DEF RemoveReadLeft
  <1>7. CASE RemoveMark(t)
    BY <1>1, <1>2, <1>7, WorkByCalls, WorkByHelpers DEF RemoveMark
  <1>8. CASE RemoveReadKey(t)
    <2>1. PICK m : m = [l EXCEPT !.replace_key = node[l.curr].key]
      OBVIOUS
    <2>2. m.work = l.work
      BY <1>1, <2>1 DEF LocalState
    <2> QED
      BY <1>1, <1>8, <2>1, <2>2, WorkBy DEF RemoveReadKey
  <1>9. CASE RemovePublish(t)
    BY <1>1, <1>2, <1>9, WorkByCalls, WorkByHelpers DEF RemovePublish
  <1> QED
    BY <1>3, <1>4, <1>5, <1>6, <1>7, <1>8, <1>9 DEF Add, Remove

LEMMA HelpWork ==
    ASSUME Inv, NEW t \in Thread, HelpChildCAS(t) \/ HelpMarked(t) \/ HelpRelocate(t)
    PROVE  KeepsWork(t)
  <1>1. PICK l : l = loc[t] /\ l \in LocalState
    BY LocalsOf
  <1>2. ASSUME NEW at, NEW x, Goto(t, at), SetLocals(t, [l EXCEPT !.new_ref = x])
        PROVE  KeepsWork(t)
    <2>1. [l EXCEPT !.new_ref = x].work = l.work
      BY <1>1 DEF LocalState
    <2> QED
      BY <1>1, <1>2, <2>1, WorkBy
  <1>3. ASSUME NEW at, NEW x, Goto(t, at), SetLocals(t, [l EXCEPT !.is_left = x])
        PROVE  KeepsWork(t)
    <2>1. [l EXCEPT !.is_left = x].work = l.work
      BY <1>1 DEF LocalState
    <2> QED
      BY <1>1, <1>3, <2>1, WorkBy
  <1>4. ASSUME NEW at, NEW x, Goto(t, at), SetLocals(t, [l EXCEPT !.seen_state = x])
        PROVE  KeepsWork(t)
    <2>1. [l EXCEPT !.seen_state = x].work = l.work
      BY <1>1 DEF LocalState
    <2> QED
      BY <1>1, <1>4, <2>1, WorkBy
  <1>5. CASE HelpChildCASSwing(t) \/ HelpMarkedTestLeft(t)
    BY <1>5, StayWork DEF HelpChildCASSwing, HelpMarkedTestLeft
  <1>6. CASE HelpChildCASClear(t)
    BY <1>6, WorkByCalls DEF HelpChildCASClear
  <1>7. CASE HelpMarkedTestRight(t)
    BY <1>1, <1>2, <1>7, StayWork DEF HelpMarkedTestRight
  <1>8. CASE HelpMarkedTake(t)
    BY <1>1, <1>2, <1>8 DEF HelpMarkedTake
  <1>9. CASE HelpMarkedSide(t)
    BY <1>1, <1>3, <1>9 DEF HelpMarkedSide
  <1>10. CASE HelpMarkedPublish(t)
    BY <1>1, <1>10, WorkByCalls, WorkByHelpers DEF HelpMarkedPublish
  <1>11. CASE HelpRelocateState(t) \/ HelpRelocateWon(t) \/ HelpRelocateLost(t)
    BY <1>1, <1>4, <1>11 DEF HelpRelocateState, HelpRelocateWon, HelpRelocateLost
  <1>12. CASE HelpRelocateDest(t) \/ HelpRelocateKey(t) \/ HelpRelocateClear(t)
    BY <1>12, StayWork DEF HelpRelocateDest, HelpRelocateKey, HelpRelocateClear
  <1>13. CASE HelpRelocateCurr(t)
    BY <1>1, <1>13, WorkByCalls, WorkByHelpers DEF HelpRelocateCurr
  <1> QED
    BY <1>5, <1>6, <1>7, <1>8, <1>9, <1>10, <1>11, <1>12, <1>13
    DEF HelpChildCAS, HelpMarked, HelpRelocate

-----------------------------------------------------------------------------
KeepsKeys(t) ==
    /\ node'[base_root].key = node[base_root].key
    /\ \A n \in DOMAIN node' \ DOMAIN node : node'[n].key = loc[t].work.key

LEMMA SameKeys ==
    ASSUME Inv, NEW t, DOMAIN node' = DOMAIN node,
           \A n \in DOMAIN node : node'[n].key = node[n].key
    PROVE  KeepsKeys(t)
  BY DEF KeepsKeys, Inv, PointersOK, HeapOK, BaseRootOp

LEMMA CASOpKeys ==
    ASSUME Inv, NEW t, NEW n \in DOMAIN node, NEW old, NEW new, CASOp(n, old, new)
    PROVE  KeepsKeys(t)
  <1>1. DOMAIN node' = DOMAIN node /\ \A x \in DOMAIN node : node'[x].key = node[x].key
    BY DEF CASOp, Inv, TypeOK, LF_BST_Node
  <1> QED
    BY <1>1, SameKeys

LEMMA ReadsKeys ==
    ASSUME Inv, NEW t \in Thread, node' = node
    PROVE  KeepsKeys(t)
  BY SameKeys

LEMMA AddRemoveKeys ==
    ASSUME Inv, OpsInv, NEW t \in Thread, Add(t) \/ Remove(t)
    PROVE  KeepsKeys(t)
  <1>1. PICK l, a : l = loc[t] /\ a = <<t, blocks[t]>>
    OBVIOUS
  <1>2. pc[t] \in OpLabel => l.curr \in DOMAIN node
    BY <1>1, LocalsOf DEF LocalOK
  <1>3. CASE AddReadOld(t) \/ RemoveReadRight(t) \/ RemoveReadLeft(t) \/ RemoveRecheck(t)
             \/ RemoveReadKey(t)
    BY <1>3, ReadsKeys
    DEF AddReadOld, RemoveReadRight, RemoveReadLeft, RemoveRecheck, RemoveReadKey, heap
  <1>4. CASE AddPublish(t)
    <2>1. l.curr \in DOMAIN node
      BY <1>2, <1>4 DEF AddPublish, OpLabel
    <2>2. CASE Matches(l.curr, l.curr_op)
      <3>1. /\ node' = [Store(node, a, create_LF_node(l.work.key))
                          EXCEPT ![l.curr].op = SET_FLAG(OpAt(a), "CHILDCAS")]
        BY <1>1, <1>4, <2>2 DEF AddPublish
      <3>2. a \notin DOMAIN node
        BY <1>1, NewBlock
      <3>3. /\ DOMAIN node' = DOMAIN node \cup {a} /\ node'[a].key = l.work.key
            /\ \A x \in DOMAIN node : node'[x].key = node[x].key
        BY <2>1, <3>1, <3>2 DEF Store, create_LF_node, Inv, TypeOK, LF_BST_Node
      <3> QED
        BY <1>1, <3>3 DEF KeepsKeys, Inv, PointersOK, HeapOK, BaseRootOp
    <2>3. CASE ~Matches(l.curr, l.curr_op)
      BY <1>1, <1>4, <2>3, ReadsKeys DEF AddPublish
    <2> QED
      BY <2>2, <2>3
  <1>5. CASE RemoveMark(t) \/ RemovePublish(t)
    BY <1>1, <1>2, <1>5, CASOpKeys DEF RemoveMark, RemovePublish, OpLabel
  <1> QED
    BY <1>3, <1>4, <1>5 DEF Add, Remove

LEMMA HelpKeys ==
    ASSUME Inv, OpsInv, NEW t \in Thread, HelpChildCAS(t) \/ HelpMarked(t) \/ HelpRelocate(t)
    PROVE  KeepsKeys(t)
  <1>1. PICK l, a : l = loc[t] /\ a = l.reloc_op
    OBVIOUS
  <1>2. /\ pc[t] \in ChildLabel => l.dest \in DOMAIN node
        /\ pc[t] \in MarkLabel => l.pred \in DOMAIN node
    BY <1>1, LocalsOf DEF LocalOK
  <1>3. pc[t] \in RelocLabel =>
           l.curr \in DOMAIN node /\ reloc[a].dest \in DOMAIN node \ {base_root}
    BY <1>1, LocalsOf DEF LocalOK, Inv, PointersOK, HeapOK, Node
  <1>4. CASE HelpChildCASSwing(t)
    <2>1. CASChild(l.dest, cas[l.cas_op]) /\ l.dest \in DOMAIN node
      BY <1>1, <1>2, <1>4 DEF HelpChildCASSwing, ChildLabel
    <2>2. DOMAIN node' = DOMAIN node /\ \A n \in DOMAIN node : node'[n].key = node[n].key
      BY <2>1 DEF CASChild, Inv, TypeOK, LF_BST_Node
    <2> QED
      BY <2>2, SameKeys
  <1>5. CASE HelpChildCASClear(t)
    BY <1>1, <1>2, <1>5, CASOpKeys DEF HelpChildCASClear, ClearOp, ChildLabel
  <1>6. CASE HelpMarkedTestLeft(t) \/ HelpMarkedTestRight(t) \/ HelpMarkedTake(t) \/ HelpMarkedSide(t)
    BY <1>6, ReadsKeys
    DEF HelpMarkedTestLeft, HelpMarkedTestRight, HelpMarkedTake, HelpMarkedSide, heap
  <1>7. CASE HelpMarkedPublish(t)
    BY <1>1, <1>2, <1>7, CASOpKeys DEF HelpMarkedPublish, MarkLabel
  <1>8. CASE HelpRelocateState(t) \/ HelpRelocateWon(t) \/ HelpRelocateLost(t)
    BY <1>8, ReadsKeys DEF HelpRelocateState, HelpRelocateWon, HelpRelocateLost, heap
  <1>9. CASE HelpRelocateDest(t) \/ HelpRelocateClear(t)
    BY <1>1, <1>3, <1>9, CASOpKeys DEF HelpRelocateDest, HelpRelocateClear, ClearOp, RelocLabel
  <1>10. CASE HelpRelocateKey(t)
    <2>1. CASKey(reloc[a]) /\ reloc[a].dest \in DOMAIN node \ {base_root}
      BY <1>1, <1>3, <1>10 DEF HelpRelocateKey, RelocLabel
    <2>2. DOMAIN node' = DOMAIN node /\ node'[base_root] = node[base_root]
      BY <2>1 DEF CASKey, Inv, TypeOK
    <2> QED
      BY <2>2 DEF KeepsKeys
  <1>11. CASE HelpRelocateCurr(t)
    <2>1. CASE reloc[a].dest = l.curr
      BY <1>1, <1>11, <2>1, ReadsKeys DEF HelpRelocateCurr
    <2>2. CASE reloc[a].dest # l.curr
      BY <1>1, <1>3, <1>11, <2>2, CASOpKeys DEF HelpRelocateCurr, RelocLabel
    <2> QED
      BY <2>1, <2>2
  <1> QED
    BY <1>4, <1>5, <1>6, <1>7, <1>8, <1>9, <1>10, <1>11 DEF HelpChildCAS, HelpMarked, HelpRelocate

-----------------------------------------------------------------------------
(* The keys of the nodes after a step of t, given those before. *)
LEMMA NodeKeysNext ==
    ASSUME TreeInv, KeysInv, ~ReusesBlocks, [HistoryNext]_hvars, NEW t \in Thread, KeepsKeys(t)
    PROVE  node'[base_root].key = -1 /\ \A n \in Node' : node'[n].key \in Nat
  <1>1. PICK A, G, B, H : Stepped(A, G, B, H)
    BY TreeNext
  <1>2. Later(A, G, B, H)
    BY <1>1 DEF Stepped
  <1>3. ASSUME NEW n \in Node' PROVE node'[n].key \in Nat
    <2>1. CASE n \in DOMAIN node
      <3>1. node'[n].key \in Int /\ node[n].key <= node'[n].key
        BY <1>2, <2>1, LaterNode
      <3>2. node[n].key \in Nat
        BY <1>3, <2>1 DEF KeysInv, Node
      <3> QED
        BY <3>1, <3>2
    <2>2. CASE n \notin DOMAIN node
      BY <1>3, <2>2 DEF KeepsKeys, KeysInv, Node
    <2> QED
      BY <2>1, <2>2
  <1> QED
    BY <1>3 DEF KeepsKeys, KeysInv

LEMMA WorkKeysNext ==
    ASSUME Inv, KeysInv, NEW t \in Thread, NEW at, NEW m, Goto(t, at), SetLocals(t, m),
           m.work.key \in Nat
    PROVE  \A u \in Thread : loc'[u].work.key \in Nat
  BY OthersStay DEF KeysInv

LEMMA TailNatural ==
    ASSUME NEW S, NEW q \in Seq(S), q # <<>>
    PROVE  /\ 1 \in DOMAIN q /\ Head(q) = q[1]
           /\ \A i \in DOMAIN Tail(q) : i + 1 \in DOMAIN q /\ Tail(q)[i] = q[i + 1]
  OBVIOUS

LEMMA KeysStep ==
    ASSUME TreeInv, KeysInv, ~ReusesBlocks, [HistoryNext]_hvars, NEW t \in Thread,
           Step(t) \/ (t = Main /\ CreateTree)
    PROVE  KeysInv'
  <1>1. Inv /\ OpsInv
    BY DEF TreeInv
  <1>2. create \in Seq(Int) /\ queue \in Seq(Work)
    BY <1>1 DEF Inv, TypeOK
  <1>3. CASE TakeWork(t)
    <2>1. Head(queue).key \in Nat /\ \A i \in DOMAIN queue' : queue'[i].key \in Nat
      BY <1>2, <1>3, TailNatural DEF TakeWork, KeysInv
    <2>2. PICK w : w = Head(queue)
      OBVIOUS
    <2>3. Locals(w).work = w
      BY DEF Locals
    <2>4. \A u \in Thread : loc'[u].work.key \in Nat
      BY <1>1, <1>3, <2>1, <2>2, <2>3, WorkKeysNext DEF TakeWork
    <2>5. KeepsKeys(t) /\ create' = create
      BY <1>1, <1>3, ReadsKeys DEF TakeWork, heap
    <2> QED
      BY <2>1, <2>4, <2>5, NodeKeysNext DEF KeysInv
  <1>4. CASE t = Main /\ CreateTree
    <2>1. Head(create) \in Nat /\ \A i \in DOMAIN create' : create'[i] \in Nat
      BY <1>2, <1>4, TailNatural DEF CreateTree, KeysInv
    <2>2. PICK w : w = [op |-> "INSERT", key |-> Head(create)]
      OBVIOUS
    <2>3. Locals(w).work = w /\ w.key = Head(create)
      BY <2>2 DEF Locals
    <2>4. \A u \in Thread : loc'[u].work.key \in Nat
      BY <1>1, <1>4, <2>1, <2>2, <2>3, WorkKeysNext DEF CreateTree
    <2>5. KeepsKeys(t) /\ queue' = queue
      BY <1>1, <1>4, ReadsKeys DEF CreateTree, heap
    <2> QED
      BY <2>1, <2>4, <2>5, NodeKeysNext DEF KeysInv
  <1>5. CASE Return(t)
    <2>1. Locals(NoWork).work.key = 0
      BY DEF Locals, NoWork
    <2>2. \A u \in Thread : loc'[u].work.key \in Nat
      BY <1>1, <1>5, <2>1, WorkKeysNext DEF Return
    <2>3. KeepsKeys(t) /\ create' = create /\ queue' = queue
      BY <1>1, <1>5, ReadsKeys DEF Return, heap, files
    <2> QED
      BY <2>2, <2>3, NodeKeysNext DEF KeysInv
  <1>6. CASE Find(t) \/ Add(t) \/ Remove(t) \/ HelpChildCAS(t) \/ HelpMarked(t) \/ HelpRelocate(t)
    <2>1. KeepsWork(t)
      BY <1>1, <1>6, FindWork, AddRemoveWork, HelpWork
    <2>2. PICK at, m : Goto(t, at) /\ SetLocals(t, m) /\ m.work = loc[t].work
      BY <2>1 DEF KeepsWork
    <2>3. \A u \in Thread : loc'[u].work.key \in Nat
      BY <1>1, <2>2, WorkKeysNext DEF KeysInv
    <2>4. KeepsKeys(t)
      <3>1. CASE Find(t)
        BY <1>1, <3>1, ReadsKeys DEF Find, FindStart, FindNext, FindVisit, FindKey, FindLastRight,
           FindCurr, heap
      <3> QED
        BY <1>1, <1>6, <3>1, AddRemoveKeys, HelpKeys
    <2>5. create' = create /\ queue' = queue
      <3>1. CASE Find(t)
        BY <3>1 DEF Find, FindStart, FindNext, FindVisit, FindKey, FindLastRight, FindCurr, files
      <3>2. CASE Add(t) \/ Remove(t)
        BY <3>2 DEF Add, AddReadOld, AddPublish, Remove, RemoveReadRight, RemoveReadLeft,
           RemoveMark, RemoveRecheck, RemoveReadKey, RemovePublish, files
      <3>3. CASE HelpChildCAS(t) \/ HelpMarked(t)
        BY <3>3 DEF HelpChildCAS, HelpChildCASSwing, HelpChildCASClear, HelpMarked,
           HelpMarkedTestLeft, HelpMarkedTestRight, HelpMarkedTake, HelpMarkedSide,
           HelpMarkedPublish, files
      <3>4. CASE HelpRelocate(t)
        BY <3>4 DEF HelpRelocate, HelpRelocateState, HelpRelocateDest, HelpRelocateWon,
           HelpRelocateLost, HelpRelocateKey, HelpRelocateClear, HelpRelocateCurr, files
      <3> QED
        BY <1>6, <3>1, <3>2, <3>3, <3>4
    <2> QED
      BY <2>3, <2>4, <2>5, NodeKeysNext DEF KeysInv
  <1> QED
    BY <1>3, <1>4, <1>5, <1>6 DEF Step

LEMMA KeysNext ==
    ASSUME TreeInv, KeysInv, ~ReusesBlocks, [HistoryNext]_hvars
    PROVE  KeysInv'
  <1>1. CASE CreateTree \/ \E t \in Thread : Step(t)
    BY <1>1, KeysStep DEF Thread
  <1>2. CASE UNCHANGED vars
    BY <1>2 DEF KeysInv, Node, vars, heap, files
  <1> QED
    BY <1>1, <1>2 DEF HistoryNext, hvars, Next, Terminated

LEMMA KeysInit ==
    ASSUME FilesNatural, HistoryInit
    PROVE  KeysInv
  <1>1. /\ \A i \in DOMAIN create : create[i] \in Nat
        /\ \A i \in DOMAIN queue : queue[i].key \in Nat
    BY DEF FilesNatural, HistoryInit, Init
  <1>2. \A t \in Thread : loc[t].work.key = 0
    BY InitHeap DEF Locals, NoWork
  <1>3. node[base_root].key = -1 /\ Node = {}
    BY InitHeap DEF create_LF_node, Node
  <1> QED
    BY <1>1, <1>2, <1>3 DEF KeysInv

(* When no deleted block is used again and no file has a negative key, no  *)
(* node but base_root ever has one.                                        *)
THEOREM AlwaysKeysInv ==
    ASSUME ~ReusesBlocks, FilesNatural
    PROVE  HistorySpec => []KeysInv
  <1>1. TreeInv /\ KeysInv /\ [HistoryNext]_hvars => KeysInv'
    BY KeysNext
  <1>2. HistoryInit => KeysInv
    BY KeysInit
  <1> QED
    BY <1>1, <1>2, AlwaysTreeInv, PTL DEF HistorySpec

-----------------------------------------------------------------------------
(***************************************************************************)
(* The values that check_valid_LF_Tree() meets.                            *)
(***************************************************************************)
TurnKids ==
    [n \in DOMAIN node |-> [is_left \in BOOLEAN |->
        IF Has(n, "MARK") THEN SET_NULL(NoNode) ELSE ChildOf(node[n], is_left)]]
TurnKeys == [n \in DOMAIN node |-> IF Has(n, "MARK") THEN <<>> ELSE <<node[n].key>>]

KeysOf(S) == {node[x].key : x \in {y \in S : ~Has(y, "MARK")}}
SubKeys(A, G) == [n \in DOMAIN node |-> KeysOf(Sub(A, G, n))]
Less == {e \in Int \X Int : e[1] < e[2]}

AtRest == \A n \in DOMAIN node : ~Busy(n)

LEMMA RestingNode ==
    ASSUME AtRest, NEW n \in DOMAIN node
    PROVE  /\ CurrentKey(n) = node[n].key /\ (Dead(n) <=> Has(n, "MARK"))
           /\ \A s \in BOOLEAN :
                 Kids[n][s] = ChildOf(node[n], s) /\ (~Has(n, "MARK") => TurnKids[n][s] = Kids[n][s])
           /\ Has(n, "MARK") => \A s \in BOOLEAN : IS_NULL(TurnKids[n][s])
  <1>1. ~Has(n, "CHILDCAS") /\ ~Has(n, "RELOCATE")
    BY DEF AtRest, Busy, Has, GET_FLAG
  <1>2. CurrentKey(n) = node[n].key /\ (Dead(n) <=> Has(n, "MARK"))
    BY <1>1 DEF CurrentKey, Dead, Relocated
  <1>3. ASSUME NEW s \in BOOLEAN
        PROVE  /\ Kids[n][s] = ChildOf(node[n], s)
               /\ ~Has(n, "MARK") => TurnKids[n][s] = ChildOf(node[n], s)
    BY <1>1 DEF Kids, Child, TurnKids
  <1>4. ASSUME Has(n, "MARK"), NEW s \in BOOLEAN PROVE IS_NULL(TurnKids[n][s])
    BY <1>4 DEF TurnKids, IS_NULL, SET_NULL
  <1> QED
    BY <1>2, <1>3, <1>4

(* What lies on either side of an unmarked node has smaller and larger     *)
(* keys, also at base_root, to which all keys are large.                   *)
LEMMA SideValues ==
    ASSUME NEW A, NEW G, TreeOK(A, G), AtRest, KeysInv, NEW n \in Linked(A, G), ~Has(n, "MARK")
    PROVE  /\ node[n].key \in Int
           /\ \A x \in SubOn(A, G, n, TRUE) : node[x].key \in Int /\ node[x].key < node[n].key
           /\ \A y \in SubOn(A, G, n, FALSE) :
                 node[y].key \in Int /\ (~Has(y, "MARK") => node[n].key < node[y].key)
  <1>1. n \in DOMAIN node /\ \A s \in BOOLEAN : \A x \in SubOn(A, G, n, s) : x \in DOMAIN node
    BY TreeParts DEF SubOn
  <1>2. node[n].key \in Int /\ CurrentKey(n) = node[n].key
    BY <1>1, SideKeys, RestingNode
  <1>3. ASSUME NEW x \in SubOn(A, G, n, TRUE)
        PROVE  node[x].key \in Int /\ node[x].key < node[n].key
    <2>1. x \in DOMAIN node /\ CurrentKey(x) = node[x].key
      BY <1>1, RestingNode
    <2> QED
      BY <2>1, SideKeys
  <1>4. ASSUME NEW y \in SubOn(A, G, n, FALSE)
        PROVE  node[y].key \in Int /\ (~Has(y, "MARK") => node[n].key < node[y].key)
    <2>1. y \in DOMAIN node /\ (Dead(y) <=> Has(y, "MARK"))
      BY <1>1, RestingNode
    <2>2. node[y].key \in Int
      BY <1>4, SideKeys
    <2>3. CASE n # base_root
      <3>1. ~Dead(y) => CurrentKey(n) < node[y].key
        BY <1>4, <2>3, SideKeys
      <3> QED
        BY <1>2, <2>1, <2>2, <3>1
    <2>4. CASE n = base_root
      <3>1. y # base_root
        BY <2>4, TreeParts DEF SubOn, FromRoot
      <3>2. node[y].key \in Nat /\ node[n].key = -1
        BY <2>1, <2>4, <3>1 DEF KeysInv, Node
      <3> QED
        BY <3>2
    <2> QED
      BY <2>3, <2>4
  <1> QED
    BY <1>2, <1>3, <1>4

LEMMA ValuesBetween ==
    ASSUME NEW A, NEW G, TreeOK(A, G), AtRest, KeysInv, NEW n \in Linked(A, G), ~Has(n, "MARK")
    PROVE  Between(Less, KeysOf(SubOn(A, G, n, TRUE)), node[n].key, KeysOf(SubOn(A, G, n, FALSE)))
  <1>1. PICK k : k = node[n].key
    OBVIOUS
  <1>2. k \in Int
    BY <1>1, SideValues
  <1>3. ASSUME NEW u \in KeysOf(SubOn(A, G, n, TRUE)) PROVE u \in Int /\ u < k
    BY <1>1, <1>3, SideValues DEF KeysOf
  <1>4. ASSUME NEW v \in KeysOf(SubOn(A, G, n, FALSE)) PROVE v \in Int /\ k < v
    BY <1>1, <1>4, SideValues DEF KeysOf
  <1>5. ASSUME NEW u \in KeysOf(SubOn(A, G, n, TRUE)), NEW v \in KeysOf(SubOn(A, G, n, FALSE))
        PROVE  <<u, v>> \in Less
    <2>1. u \in Int /\ v \in Int /\ u < k /\ k < v
      BY <1>3, <1>4
    <2>2. u < v
      BY <1>2, <2>1
    <2> QED
      BY <2>1, <2>2 DEF Less
  <1>6. ASSUME NEW u \in KeysOf(SubOn(A, G, n, TRUE)) PROVE <<u, k>> \in Less
    BY <1>2, <1>3 DEF Less
  <1>7. ASSUME NEW v \in KeysOf(SubOn(A, G, n, FALSE)) PROVE <<k, v>> \in Less
    BY <1>2, <1>4 DEF Less
  <1> QED
    BY <1>1, <1>5, <1>6, <1>7 DEF Between

LEMMA TurnsInOrder ==
    ASSUME NEW A, NEW G, TreeOK(A, G), AtRest, KeysInv
    PROVE  Walks(Int, SubKeys(A, G), Less, TurnKids, TurnKeys, Linked(A, G))
  <1>1. ASSUME NEW n \in Linked(A, G), NEW s \in BOOLEAN
        PROVE  /\ Route(TurnKids, SubKeys(A, G), n, s) \subseteq KeysOf(SubOn(A, G, n, s))
               /\ ~IS_NULL(TurnKids[n][s]) =>
                     /\ TurnKids[n][s].node \in Linked(A, G)
                     /\ SubKeys(A, G)[TurnKids[n][s].node] \subseteq SubKeys(A, G)[n]
    <2>1. CASE IS_NULL(TurnKids[n][s])
      BY <2>1 DEF Route
    <2>2. CASE ~IS_NULL(TurnKids[n][s])
      <3>1. n \in DOMAIN node /\ TurnKids[n][s] = Kids[n][s]
        BY <2>2, TreeParts, RestingNode
      <3>2. PICK c : c = TurnKids[n][s].node
        OBVIOUS
      <3>3. /\ c \in Linked(A, G) /\ c \in DOMAIN node
            /\ Sub(A, G, c) \subseteq SubOn(A, G, n, s) /\ SubOn(A, G, n, s) \subseteq Sub(A, G, n)
        BY <2>2, <3>1, <3>2, KidBelow, TreeParts
      <3>4. SubKeys(A, G)[c] = KeysOf(Sub(A, G, c)) /\ SubKeys(A, G)[n] = KeysOf(Sub(A, G, n))
        BY <3>1, <3>3 DEF SubKeys
      <3>5. Route(TurnKids, SubKeys(A, G), n, s) = KeysOf(Sub(A, G, c))
        BY <2>2, <3>2, <3>4 DEF Route
      <3>6. /\ KeysOf(Sub(A, G, c)) \subseteq KeysOf(SubOn(A, G, n, s))
            /\ KeysOf(SubOn(A, G, n, s)) \subseteq KeysOf(Sub(A, G, n))
        BY <3>3 DEF KeysOf
      <3> QED
        BY <3>2, <3>3, <3>4, <3>5, <3>6
    <2> QED
      BY <2>1, <2>2
  <1>2. ASSUME NEW n \in Linked(A, G)
        PROVE  Takes(Int, SubKeys(A, G), Less, TurnKids, TurnKeys, n)
    <2>1. n \in DOMAIN node
      BY TreeParts
    <2>2. CASE Has(n, "MARK")
      BY <2>1, <2>2, RestingNode DEF Takes, TurnKeys
    <2>3. CASE ~Has(n, "MARK")
      <3>1. PICK k : k = node[n].key /\ k \in Int
        BY <2>3, SideValues
      <3>2. TurnKeys[n] = <<k>> /\ k \in SubKeys(A, G)[n]
        BY <2>1, <2>3, <3>1 DEF TurnKeys, SubKeys, KeysOf, Sub
      <3>3. Between(Less, Route(TurnKids, SubKeys(A, G), n, TRUE), k,
                    Route(TurnKids, SubKeys(A, G), n, FALSE))
        BY <1>1, <2>3, <3>1, ValuesBetween, BetweenFewer
      <3> QED
        BY <3>1, <3>2, <3>3 DEF Takes
    <2> QED
      BY <2>2, <2>3
  <1> QED
    BY <1>1, <1>2 DEF Walks

LEMMA ValuesInOrder ==
    ASSUME NEW A, NEW G, TreeOK(A, G), AtRest, KeysInv, NEW q, q = populate_tree_values_LF
    PROVE  /\ q \in Seq(Int)
           /\ \A i, j \in 1 .. Len(q) : i < j => q[i] < q[j]
  <1>1. q = Walk(TurnKids, TurnKeys)
    BY DEF populate_tree_values_LF, TurnKids, TurnKeys
  <1>2. PICK D \in Nat : D = Depth /\ D \in 0 .. Depth
    BY TreeParts
  <1>3. PICK w : WalkTo(TurnKids, TurnKeys, w, Depth) /\ q = w[Depth][base_root]
    BY <1>1, <1>2, WalkIs
  <1>4. PICK V : V = SubKeys(A, G)[base_root]
    OBVIOUS
  <1>5. Walked(Int, V, Less, q)
    BY <1>2, <1>3, <1>4, TreeParts, TurnsInOrder, WalkedFrom
  <1> QED
    BY <1>5 DEF Walked, Less

(* When no deleted block is used again and no file has a negative key, the *)
(* values that the harness meets when the threads have been joined         *)
(* increase, in any run: the assertion of check_valid_LF_Tree() holds.     *)
THEOREM AlwaysHarnessFindsOrder ==
    ASSUME ~ReusesBlocks, FilesNatural
    PROVE  HistorySpec => []HarnessFindsOrder
  <1>1. ASSUME TreeInv, AllServed, KeysInv PROVE HarnessFindsOrder
    <2>1. PICK A, G : TreeOK(A, G)
      BY <1>1 DEF TreeInv, HeapInv
    <2>2. Joined => AtRest
      BY <1>1 DEF Joined, AllServed, Serves, ChildLabel, RelocLabel, AtRest
    <2>3. PICK q : q = populate_tree_values_LF
      OBVIOUS
    <2>4. ASSUME Joined, NEW i \in 1 .. Len(q) - 1 PROVE q[i] < q[i + 1]
      <3>1. q \in Seq(Int) /\ \A j, k \in 1 .. Len(q) : j < k => q[j] < q[k]
        BY <1>1, <2>1, <2>2, <2>3, <2>4, ValuesInOrder
      <3>2. i \in 1 .. Len(q) /\ i + 1 \in 1 .. Len(q) /\ i < i + 1
        BY <3>1
      <3> QED
        BY <3>1, <3>2
    <2> QED
      BY <2>3, <2>4 DEF HarnessFindsOrder
  <1> QED
    BY <1>1, AlwaysTreeInv, AlwaysServed, AlwaysKeysInv, PTL
=============================================================================
