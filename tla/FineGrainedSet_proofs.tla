----------------------- MODULE FineGrainedSet_proofs -----------------------
(***************************************************************************)
(* The fine-grained tree is ordered and implements the atomic set of       *)
(* ConcurrentSet, for any number of threads, initial tree and trace.       *)
(*                                                                         *)
(* R[a] is the set of the keys that a search is led to node a with.  There *)
(* is such an R in every state (Routes): all keys come to the root, and    *)
(* those less (greater) than the value of a node go on to its left (right) *)
(* child.  The key a thread is on its way with is among those of the node  *)
(* it waits for, and remove() is on its way to the node that is next in    *)
(* order to to_be_deleted, along nodes that nobody else has locked         *)
(* (Routed).  Nodes are created in order of their addresses and a node     *)
(* moves up only, so children have greater addresses than their parents:   *)
(* what is said of a tree is proved for the least node that it fails for.  *)
(*                                                                         *)
(* The keys of the set are the values of the nodes that have not been      *)
(* freed, and the order tells what each step of a call does to them and    *)
(* what it answers (Outcome).  So a step maps to a step of the set or to   *)
(* none.  What a call has seen includes what is so now (SeenOK): an answer *)
(* that is right when it is given has been seen to be right.               *)
(***************************************************************************)
EXTENDS FineGrainedSet, FineGrainedBST_proofs, WellFoundedInduction, SequenceTheorems

-----------------------------------------------------------------------------
(***************************************************************************)
(* Least numbers.                                                          *)
(***************************************************************************)
LEMMA LeastOf ==
    ASSUME NEW S, S \subseteq Nat, S # {}
    PROVE  \E m \in S : \A n \in S : m <= n
  <1>1. PICK m \in S : \A n \in S : ~(<<n, m>> \in OpToRel(<, Nat))
    BY NatLessThanWellFounded, WFMin
  <1>2. ASSUME NEW n \in S PROVE m <= n
    <2>1. <<n, m>> \notin {z \in Nat \X Nat : z[1] < z[2]}
      BY <1>1, Zenon DEF OpToRel
    <2>2. ~(n < m)
      BY ONLY <2>1, n \in Nat, m \in Nat
    <2> QED
      BY <2>2
  <1> QED
    BY <1>2

-----------------------------------------------------------------------------
(***************************************************************************)
(* Routes in a tree.                                                       *)
(***************************************************************************)
(* The keys that go on from a to that side. *)
Goes(h, a, side) ==
    {k \in Int : IF side = "left" THEN k < h[a].value ELSE h[a].value < k}

Convex(K) == \A x, z \in K : \A y \in Int : x <= y /\ y <= z => y \in K

ChildrenYounger(h, L) == \A a \in L, s \in Side : h[a][s] # NULL => a < h[a][s]

Routes(R, h, r, L) ==
    /\ \A a \in L : R[a] \subseteq Int /\ h[a].value \in R[a] /\ Convex(R[a])
    /\ \A a \in L, s \in Side : h[a][s] # NULL => R[h[a][s]] = R[a] \cap Goes(h, a, s)
    /\ r # NULL => R[r] = Int

Tree(R, h, r, L) ==
    /\ h \in Heap /\ L \subseteq DOMAIN h
    /\ Shape(h, r, L) /\ ChildrenYounger(h, L) /\ Routes(R, h, r, L)

LEMMA TreeTypes ==
    ASSUME NEW R, NEW h, NEW r, NEW L, Tree(R, h, r, L)
    PROVE  /\ L \subseteq Nat /\ 0 \notin L
           /\ \A a \in L : /\ h[a].value \in Int /\ h[a].value \in R[a]
                           /\ R[a] \subseteq Int /\ Convex(R[a])
                           /\ \A s \in Side : h[a][s] \in Nat
  BY FieldTypes DEF Tree, Routes

(* A child, and the keys that come to it. *)
LEMMA TreeChild ==
    ASSUME NEW R, NEW h, NEW r, NEW L, Tree(R, h, r, L),
           NEW a \in L, NEW s \in Side, h[a][s] # NULL
    PROVE  /\ h[a][s] \in L /\ a < h[a][s] /\ h[h[a][s]].parent = a
           /\ R[h[a][s]] = R[a] \cap Goes(h, a, s)
  BY DEF Tree, Shape, ChildrenOK, ChildrenYounger, Routes

(* The parent of a node, and the keys that come from it. *)
LEMMA TreeParent ==
    ASSUME NEW R, NEW h, NEW r, NEW L, Tree(R, h, r, L), NEW a \in L, a # r
    PROVE  \E b \in L, s \in Side :
              b = h[a].parent /\ h[b][s] = a /\ b < a /\ R[a] = R[b] \cap Goes(h, b, s)
  <1>1. h[a].parent \in L /\ \E s \in Side : h[h[a].parent][s] = a
    BY DEF Tree, Shape, ParentsOK
  <1>2. a # NULL
    BY TreeTypes DEF NULL
  <1> QED
    BY <1>1, <1>2, TreeChild

LEMMA RootFirst ==
    ASSUME NEW R, NEW h, NEW r, NEW L, Tree(R, h, r, L), NEW a \in L
    PROVE  r \in L /\ r <= a /\ R[r] = Int
  <1>1. L \subseteq Nat /\ 0 \notin L
    BY TreeTypes
  <1>2. PICK m \in L : \A n \in L : m <= n
    BY <1>1, LeastOf
  <1>3. m = r
    <2> SUFFICES ASSUME m # r PROVE FALSE
      OBVIOUS
    <2>1. PICK b \in L : b < m
      BY TreeParent
    <2> QED
      BY <1>1, <1>2, <2>1
  <1> QED
    BY <1>1, <1>2, <1>3 DEF Tree, Routes, NULL

(* Of two nodes that a key comes to, the one above has a child that the    *)
(* key comes to, on the way to the other.                                  *)
LEMMA OnTheWay ==
    ASSUME NEW R, NEW h, NEW r, NEW L, Tree(R, h, r, L), NEW x \in L, NEW y \in L,
           x < y, NEW k, k \in R[x], k \in R[y]
    PROVE  \E s \in Side : h[x][s] # NULL /\ k \in R[h[x][s]] /\ h[x][s] <= y
  <1> DEFINE Next1(a, b) == \E s \in Side : h[a][s] # NULL /\ k \in R[h[a][s]] /\ h[a][s] <= b
             Bad == {b \in L : k \in R[b] /\ \E a \in L : a < b /\ k \in R[a] /\ ~Next1(a, b)}
  <1>1. L \subseteq Nat /\ 0 \notin L /\ \A a \in L : R[a] \subseteq Int /\ h[a].value \in Int
    BY TreeTypes
  <1> SUFFICES ASSUME Bad # {} PROVE FALSE
    OBVIOUS
  <1>2. PICK b \in Bad : \A c \in Bad : b <= c
    <2>1. Bad \subseteq Nat
      BY <1>1
    <2> HIDE DEF Bad
    <2> QED
      BY <2>1, LeastOf
  <1>3. b \in L /\ k \in R[b] /\ \A c \in L : c < b => c \notin Bad
    BY <1>1, <1>2
  <1>4. PICK a \in L : a < b /\ k \in R[a] /\ ~Next1(a, b)
    BY <1>2
  <1>5. b # r
    BY <1>1, <1>3, <1>4, RootFirst
  <1>6. PICK p \in L, s \in Side : h[p][s] = b /\ p < b /\ R[b] = R[p] \cap Goes(h, p, s)
    BY <1>3, <1>5, TreeParent
  <1>7. k \in R[p] /\ b # NULL /\ b <= b
    <2>1. b \in Nat /\ b # 0
      BY <1>1, <1>3
    <2> QED
      BY <1>3, <1>6, <2>1 DEF NULL
  <1>8. CASE p = a
    BY <1>3, <1>4, <1>6, <1>7, <1>8
  <1>9. CASE a < p
    <2>1. Next1(a, p)
      BY <1>3, <1>4, <1>6, <1>7, <1>9
    <2>2. PICK z \in Side : h[a][z] # NULL /\ k \in R[h[a][z]] /\ h[a][z] <= p
      BY <2>1
    <2>3. h[a][z] \in Nat
      BY TreeTypes
    <2>4. h[a][z] <= b
      BY <1>1, <1>3, <1>6, <2>2, <2>3
    <2> QED
      BY <1>4, <2>2, <2>4
  <1>10. CASE p < a
    <2>1. Next1(p, a)
      BY <1>3, <1>4, <1>6, <1>7, <1>10
    <2>2. PICK z \in Side : h[p][z] # NULL /\ k \in R[h[p][z]] /\ h[p][z] <= a
      BY <2>1
    <2>3. k \in Goes(h, p, z) /\ k \in Goes(h, p, s)
      BY <1>3, <1>6, <2>2, TreeChild
    <2>4. z = s
      BY <1>1, <2>3 DEF Goes, Side
    <2> QED
      BY <1>1, <1>3, <1>4, <1>6, <2>2, <2>4
  <1> QED
    BY <1>1, <1>3, <1>4, <1>6, <1>8, <1>9, <1>10

(* The search for k, once it is led to x, does not go on from there. *)
EndsAt(h, x, k) == \A s \in Side : k \in Goes(h, x, s) => h[x][s] = NULL

LEMMA LastOnTheWay ==
    ASSUME NEW R, NEW h, NEW r, NEW L, Tree(R, h, r, L), NEW x \in L, NEW y \in L,
           NEW k, k \in R[x], k \in R[y], EndsAt(h, x, k)
    PROVE  y <= x
  <1> SUFFICES ASSUME ~(y <= x) PROVE FALSE
    OBVIOUS
  <1>1. x < y
    BY TreeTypes
  <1>2. PICK s \in Side : h[x][s] # NULL /\ k \in R[h[x][s]]
    BY <1>1, OnTheWay
  <1>3. k \in Goes(h, x, s)
    BY <1>2, TreeChild
  <1> QED
    BY <1>2, <1>3 DEF EndsAt

LEMMA EndsAtValue ==
    ASSUME NEW R, NEW h, NEW r, NEW L, Tree(R, h, r, L), NEW x \in L
    PROVE  EndsAt(h, x, h[x].value)
  BY TreeTypes DEF EndsAt, Goes

(* A search ends at one node. *)
LEMMA OneEnd ==
    ASSUME NEW R, NEW h, NEW r, NEW L, Tree(R, h, r, L), NEW x \in L, NEW y \in L,
           NEW k, k \in R[x], k \in R[y], EndsAt(h, x, k), EndsAt(h, y, k)
    PROVE  x = y
  <1>1. x <= y /\ y <= x
    BY LastOnTheWay
  <1> QED
    BY <1>1, TreeTypes

(* Where the search for k ends is the only node that can have the value k. *)
LEMMA ValueAtEnd ==
    ASSUME NEW R, NEW h, NEW r, NEW L, Tree(R, h, r, L), NEW x \in L, NEW y \in L,
           h[y].value \in R[x], EndsAt(h, x, h[y].value)
    PROVE  x = y
  BY OneEnd, EndsAtValue, TreeTypes

(* Neither of two nodes is on the way to the value of the other, or they   *)
(* are one: in particular no two nodes have one value.                     *)
LEMMA Mutual ==
    ASSUME NEW R, NEW h, NEW r, NEW L, Tree(R, h, r, L), NEW x \in L, NEW y \in L,
           h[x].value \in R[y], h[y].value \in R[x]
    PROVE  x = y
  <1>1. y <= x
    BY LastOnTheWay, EndsAtValue, TreeTypes
  <1>2. x <= y
    BY LastOnTheWay, EndsAtValue, TreeTypes
  <1> QED
    BY <1>1, <1>2, TreeTypes

LEMMA OneValue ==
    ASSUME NEW R, NEW h, NEW r, NEW L, Tree(R, h, r, L), NEW x \in L, NEW y \in L,
           h[x].value = h[y].value
    PROVE  x = y
  BY Mutual, TreeTypes

-----------------------------------------------------------------------------
(***************************************************************************)
(* remove() goes from to_be_deleted, d, to the node next to it in order on *)
(* a side: by way of the child of d on that side, and then the other way.  *)
(***************************************************************************)
(* k comes after v, when one goes to that side. *)
Beyond(side, v, k) == IF side = "right" THEN v < k ELSE k < v

(* The keys that come to x are the first ones beyond the value of d. *)
Nearest(R, h, L, d, side, x) ==
    /\ x \in L /\ d \in L /\ R[x] \subseteq R[d]
    /\ \A k \in R[x] :
          /\ Beyond(side, h[d].value, k)
          /\ \A j \in Int : Beyond(side, h[d].value, j) /\ Beyond(side, j, k) => j \in R[x]

(* The nodes below d on the way to x. *)
WayTo(R, h, L, d, x) == {a \in L : h[d].value \notin R[a] /\ h[x].value \in R[a]}

(* Nobody is there but at x, and at its parent p. *)
Clear(R, h, L, d, x, p) == \A a \in WayTo(R, h, L, d, x) \ {x, p} : h[a].lock = NoThread

LEMMA NearestSide ==
    ASSUME NEW R, NEW h, NEW r, NEW L, Tree(R, h, r, L), NEW d \in L,
           NEW side \in Side, NEW x, x = h[d][side], x # NULL
    PROVE  Nearest(R, h, L, d, side, x) /\ WayTo(R, h, L, d, x) \subseteq {x}
  <1>1. /\ L \subseteq Nat
        /\ \A a \in L : /\ h[a].value \in Int /\ h[a].value \in R[a]
                        /\ R[a] \subseteq Int /\ Convex(R[a])
    BY TreeTypes
  <1>2. x \in L /\ R[x] = R[d] \cap Goes(h, d, side)
    BY TreeChild
  <1>3. Nearest(R, h, L, d, side, x)
    <2>1. ASSUME NEW k \in R[x], NEW j \in Int, Beyond(side, h[d].value, j), Beyond(side, j, k)
          PROVE  j \in R[x]
      BY <1>1, <1>2, <2>1 DEF Beyond, Goes, Convex, Side
    <2> QED
      BY <1>1, <1>2, <2>1 DEF Nearest, Beyond, Goes, Side
  <1> DEFINE Bad == WayTo(R, h, L, d, x) \ {x}
  <1>4. Bad = {}
    <2> SUFFICES ASSUME Bad # {} PROVE FALSE
      OBVIOUS
    <2>1. PICK a \in Bad : \A c \in Bad : a <= c
      BY <1>1, LeastOf DEF WayTo
    <2>2. a \in L /\ h[d].value \notin R[a] /\ h[x].value \in R[a] /\ a # x
      BY DEF WayTo
    <2>3. a # r
      BY <1>1, <2>2, RootFirst
    <2>4. PICK b \in L, s \in Side : h[b][s] = a /\ b < a /\ R[a] = R[b] \cap Goes(h, b, s)
      BY <2>2, <2>3, TreeParent
    <2>5. h[x].value \in R[b] /\ h[x].value \in R[d] /\ b # x
      BY <1>1, <1>2, <2>2, <2>4 DEF Goes
    <2>6. h[d].value \in R[b]
      <3> SUFFICES ASSUME h[d].value \notin R[b] PROVE FALSE
        OBVIOUS
      <3>1. b \in Bad
        BY <2>5 DEF WayTo
      <3>2. a <= b /\ a \in Nat /\ b \in Nat
        BY <1>1, <2>1, <2>2, <3>1
      <3> QED
        BY <2>4, <3>2
    <2>7. b # d
      BY <1>1, <1>2, <2>2, <2>4 DEF Goes, Side
    <2>8. h[b].value \in R[d]
      BY <1>1, <2>2, <2>4, <2>5, <2>6 DEF Goes, Convex
    <2> QED
      BY <2>6, <2>7, <2>8, Mutual
  <1> QED
    BY <1>3, <1>4

LEMMA NearestNext ==
    ASSUME NEW R, NEW h, NEW r, NEW L, Tree(R, h, r, L), NEW d, NEW x,
           NEW side \in Side, Nearest(R, h, L, d, side, x),
           NEW y, y = h[x][Opposite(side)], y # NULL
    PROVE  /\ Nearest(R, h, L, d, side, y)
           /\ WayTo(R, h, L, d, y) \subseteq WayTo(R, h, L, d, x) \cup {y}
  <1>1. /\ L \subseteq Nat /\ x \in L /\ d \in L
        /\ \A a \in L : /\ h[a].value \in Int /\ h[a].value \in R[a]
                        /\ R[a] \subseteq Int /\ Convex(R[a])
    BY TreeTypes DEF Nearest
  <1>2. y \in L /\ R[y] = R[x] \cap Goes(h, x, Opposite(side))
    BY SidesOf, <1>1, TreeChild
  <1>3. Nearest(R, h, L, d, side, y)
    <2>1. ASSUME NEW k \in R[y], NEW j \in Int, Beyond(side, h[d].value, j), Beyond(side, j, k)
          PROVE  j \in R[y]
      <3>1. j \in R[x]
        BY <1>2, <2>1 DEF Nearest
      <3> QED
        BY <1>1, <1>2, <2>1, <3>1 DEF Beyond, Goes, Opposite, Side
    <2> QED
      BY <1>1, <1>2, <2>1 DEF Nearest
  <1> DEFINE Bad == {a \in WayTo(R, h, L, d, y) : h[x].value \notin R[a] /\ a # y}
  <1>4. Bad = {}
    <2> SUFFICES ASSUME Bad # {} PROVE FALSE
      OBVIOUS
    <2>1. PICK a \in Bad : \A c \in Bad : a <= c
      BY <1>1, LeastOf DEF WayTo
    <2>2. /\ a \in L /\ h[d].value \notin R[a] /\ h[y].value \in R[a]
          /\ h[x].value \notin R[a] /\ a # y
      BY DEF WayTo
    <2>3. a # r
      BY <1>1, <2>2, RootFirst
    <2>4. PICK b \in L, s \in Side : h[b][s] = a /\ b < a /\ R[a] = R[b] \cap Goes(h, b, s)
      BY <2>2, <2>3, TreeParent
    <2>5. h[y].value \in R[b] /\ h[y].value \in R[x] /\ b # y
      BY <1>1, <1>2, <2>2, <2>4 DEF Goes
    <2>6. CASE h[x].value \in R[b]
      <3>1. b # x
        BY <1>1, <1>2, <2>2, <2>4 DEF Goes, Side, Opposite
      <3>2. h[b].value \in R[x]
        BY <1>1, <2>2, <2>4, <2>5, <2>6 DEF Goes, Convex
      <3> QED
        BY <1>1, <2>6, <3>1, <3>2, Mutual
    <2>7. CASE h[x].value \notin R[b] /\ h[d].value \notin R[b]
      <3>1. b \in Bad
        BY <2>5, <2>7 DEF WayTo
      <3> QED
        BY <1>1, <2>1, <2>2, <2>4, <3>1
    <2>8. CASE h[x].value \notin R[b] /\ h[d].value \in R[b]
      <3>1. b # d /\ h[y].value \in R[d]
        BY <1>1, <2>5, <2>8 DEF Nearest
      <3>2. h[b].value \in R[d]
        BY <1>1, <2>2, <2>4, <2>5, <2>8, <3>1 DEF Goes, Convex
      <3> QED
        BY <1>1, <2>8, <3>1, <3>2, Mutual
    <2> QED
      BY <2>6, <2>7, <2>8
  <1> QED
    BY <1>3, <1>4 DEF WayTo

(* A node on the way to x is there because its parent is, or is the first  *)
(* one after d. *)
LEMMA WayFromParent ==
    ASSUME NEW R, NEW h, NEW r, NEW L, Tree(R, h, r, L), NEW d, NEW x,
           NEW side \in Side, Nearest(R, h, L, d, side, x),
           NEW a \in WayTo(R, h, L, d, x), NEW b \in L, NEW s \in Side, h[b][s] = a
    PROVE  b = d \/ (b \in WayTo(R, h, L, d, x) /\ b # x)
  <1>1. /\ L \subseteq Nat /\ 0 \notin L /\ x \in L /\ d \in L
        /\ \A c \in L : /\ h[c].value \in Int /\ h[c].value \in R[c]
                        /\ R[c] \subseteq Int /\ Convex(R[c])
    BY TreeTypes DEF Nearest
  <1>2. a \in L /\ h[d].value \notin R[a] /\ h[x].value \in R[a]
    BY DEF WayTo
  <1>3. R[a] = R[b] \cap Goes(h, b, s)
    BY <1>1, <1>2, TreeChild DEF NULL
  <1>4. h[x].value \in R[b] /\ b # x
    BY <1>1, <1>2, <1>3 DEF Goes
  <1>5. CASE h[d].value \in R[b]
    <2>1. h[x].value \in R[d]
      BY <1>1 DEF Nearest
    <2>2. h[b].value \in R[d]
      BY <1>1, <1>2, <1>3, <1>4, <1>5, <2>1 DEF Goes, Convex
    <2> QED
      BY <1>1, <1>5, <2>2, Mutual
  <1> QED
    BY <1>4, <1>5 DEF WayTo

(* When there is nothing nearer to d than s, no value is between theirs.   *)
LEMMA NoneBetween ==
    ASSUME NEW R, NEW h, NEW r, NEW L, Tree(R, h, r, L), NEW d, NEW s,
           NEW side \in Side, Nearest(R, h, L, d, side, s), h[s][Opposite(side)] = NULL,
           NEW a \in L, Beyond(side, h[d].value, h[a].value)
    PROVE  ~Beyond(side, h[a].value, h[s].value)
  <1> SUFFICES ASSUME Beyond(side, h[a].value, h[s].value) PROVE FALSE
    OBVIOUS
  <1>1. s \in L /\ h[s].value \in Int /\ h[a].value \in Int /\ h[s].value \in R[s]
    BY TreeTypes DEF Nearest
  <1>2. h[a].value \in R[s]
    BY <1>1 DEF Nearest
  <1>3. EndsAt(h, s, h[a].value)
    BY <1>1 DEF EndsAt, Goes, Beyond, Side, Opposite
  <1>4. a = s
    BY <1>1, <1>2, <1>3, ValueAtEnd
  <1> QED
    BY <1>1, <1>4 DEF Beyond

(* All searches for keys from d to s then are on the way to s. *)
LEMMA OneWay ==
    ASSUME NEW R, NEW h, NEW r, NEW L, Tree(R, h, r, L), NEW d, NEW s,
           NEW side \in Side, Nearest(R, h, L, d, side, s), h[s][Opposite(side)] = NULL,
           NEW k \in Int, Beyond(side, h[d].value, k), ~Beyond(side, h[s].value, k),
           NEW a \in L, k \in R[a]
    PROVE  h[s].value \in R[a]
  <1>1. /\ L \subseteq Nat /\ 0 \notin L /\ s \in L /\ d \in L
        /\ \A c \in L : /\ h[c].value \in Int /\ h[c].value \in R[c]
                        /\ R[c] \subseteq Int /\ Convex(R[c])
    BY TreeTypes DEF Nearest
  <1> DEFINE Bad == {c \in L : k \in R[c] /\ h[s].value \notin R[c]}
  <1> SUFFICES ASSUME Bad # {} PROVE FALSE
    OBVIOUS
  <1>2. PICK c \in Bad : \A b \in Bad : c <= b
    BY <1>1, LeastOf
  <1>3. c # r
    BY <1>1, RootFirst
  <1>4. PICK b \in L, z \in Side : h[b][z] = c /\ b < c /\ R[c] = R[b] \cap Goes(h, b, z)
    BY <1>3, TreeParent
  <1>5. k \in R[b] /\ h[s].value \in R[b]
    BY <1>1, <1>2, <1>4
  <1>6. k # h[s].value /\ c # NULL
    BY <1>1 DEF NULL
  <1>7. b # s
    BY <1>1, <1>4, <1>6 DEF Goes, Beyond, Side, Opposite
  <1>8. h[b].value # h[s].value
    BY <1>1, <1>7, OneValue
  <1>9. /\ Beyond(side, h[d].value, h[b].value) /\ Beyond(side, h[b].value, h[s].value)
    BY <1>1, <1>4, <1>5, <1>8 DEF Goes, Beyond, Side
  <1> QED
    BY <1>9, NoneBetween

-----------------------------------------------------------------------------
(***************************************************************************)
(* The threads on their way.  A remove() that has found to_be_deleted aims *)
(* at a node, and has the parent of that node locked.                      *)
(***************************************************************************)
Removing == {"side", "first", "successor", "orphan"}

Aim(at, l) == IF at = "orphan" THEN l.successor ELSE l.next

AboveAim(h, at, l) ==
    CASE at = "side" -> l.to_be_deleted
      [] at = "successor" -> h[l.next].parent
      [] OTHER -> l.parent

OnWay(R, h, L, at, l) ==
    /\ at = "child" => l.work.key \in R[l.next]
    /\ at \in Removing =>
          /\ l.work.op = "DELETE" /\ l.work.key = h[l.to_be_deleted].value
          /\ Nearest(R, h, L, l.to_be_deleted, l.side, Aim(at, l))
          /\ Clear(R, h, L, l.to_be_deleted, Aim(at, l), AboveAim(h, at, l))

Routed(R) ==
    /\ Tree(R, node, g_root, Live)
    /\ \A t \in Thread : OnWay(R, node, Live, pc[t], loc[t])

Ordered == Inv /\ \E R : Routed(R)

(* What a thread u at label at has locked. *)
Stands(h, r, L, u, at, l) ==
    /\ l \in LocalState /\ at \in Label /\ u \in Thread
    /\ Mine(h, L, u) = HeldAt(h, at, l) /\ OnPath(h, r, at, l)

LEMMA AtChild ==
    ASSUME NEW R, NEW h, NEW r, NEW L, Tree(R, h, r, L), NEW u, NEW l,
           Stands(h, r, L, u, "child", l)
    PROVE  /\ l.root \in L /\ h[l.root].lock = u /\ l.next \in L
           /\ \E s \in Side : h[l.root][s] = l.next
  <1>1. l.root \in L /\ h[l.root].lock = u
    BY DEF Stands, HeldAt, Mine
  <1>2. l.next # NULL /\ \E s \in Side : h[l.root][s] = l.next
    BY DEF Stands, OnPath, ChildFor, Side
  <1> QED
    BY <1>1, <1>2, TreeChild

LEMMA AtRemoving ==
    ASSUME NEW R, NEW h, NEW r, NEW L, Tree(R, h, r, L), NEW u, NEW at \in Removing, NEW l,
           Stands(h, r, L, u, at, l), NEW x, x = Aim(at, l), NEW p, p = AboveAim(h, at, l)
    PROVE  /\ l.to_be_deleted \in L /\ h[l.to_be_deleted].lock = u /\ l.side \in Side
           /\ p \in L /\ h[p].lock = u /\ x \in L /\ h[x].parent = p
           /\ \E s \in Side : h[p][s] = x
  <1> DEFINE d == l.to_be_deleted
  <1>1. l.side \in Side /\ Opposite(l.side) \in Side
    BY SidesOf DEF Stands, LocalState
  <1>2. {d, p} \subseteq HeldAt(h, at, l)
    BY DEF Removing, AboveAim, HeldAt
  <1>3. d \in L /\ p \in L /\ h[d].lock = u /\ h[p].lock = u
    BY <1>2 DEF Stands, Mine
  <1>4. x # NULL /\ \E s \in Side : h[p][s] = x
    <2>1. CASE at = "side"
      BY <1>1, <2>1 DEF Stands, OnPath, Aim, AboveAim
    <2>2. CASE at = "first"
      BY <1>1, <2>2 DEF Stands, OnPath, Aim, AboveAim
    <2>3. CASE at = "successor"
      <3>1. p = h[x].parent /\ x # NULL /\ x = h[p][Opposite(l.side)]
        BY <2>3 DEF Stands, OnPath, Aim, AboveAim
      <3> QED
        BY <1>1, <3>1
    <2>4. CASE at = "orphan"
      <3>1. h[p][Place(p, d, l.side)] = x /\ Place(p, d, l.side) \in Side
        BY <1>1, <2>4 DEF Stands, OnPath, Aim, AboveAim, Place
      <3>2. x \in HeldAt(h, at, l)
        BY <2>4 DEF HeldAt, Aim
      <3> QED
        BY <3>1, <3>2, TreeTypes DEF Stands, Mine, NULL
    <2> QED
      BY <2>1, <2>2, <2>3, <2>4 DEF Removing
  <1> QED
    BY <1>1, <1>3, <1>4, TreeChild

-----------------------------------------------------------------------------
(***************************************************************************)
(* Steps that leave the values of nodes alone: the trees after them.       *)
(***************************************************************************)
SameNode(h, k, c) ==
    k[c].value = h[c].value /\ k[c].parent = h[c].parent
    /\ \A s \in Side : k[c][s] = h[c][s]

LEMMA SameTree ==
    ASSUME NEW R, NEW h, NEW r, NEW L, Tree(R, h, r, L),
           NEW k \in Heap, L \subseteq DOMAIN k, \A c \in L : SameNode(h, k, c)
    PROVE  Tree(R, k, r, L)
  <1>1. 0 \notin L
    BY TreeTypes
  <1>2. Shape(k, r, L)
    BY <1>1, SameShape DEF Tree, SameNode
  <1>3. Routes(R, k, r, L)
    BY DEF Tree, Routes, SameNode, Goes
  <1> QED
    BY <1>2, <1>3 DEF Tree, ChildrenYounger, SameNode

(* The new node n below a. *)
Grown(R, h, L, a, side, n) ==
    [c \in L \cup {n} |-> IF c = n THEN R[a] \cap Goes(h, a, side) ELSE R[c]]

LEMMA GrownTree ==
    ASSUME NEW R, NEW h, NEW r, NEW L, Tree(R, h, r, L),
           NEW n \in Nat, \A c \in L : c < n, NEW a \in L, NEW side \in Side,
           NEW k, NEW val, ChildAdded(h, k, a, side, n, val), val \in R[a] \cap Goes(h, a, side),
           Shape(k, r, L \cup {n})
    PROVE  Tree(Grown(R, h, L, a, side, n), k, r, L \cup {n})
  <1> DEFINE Q == Grown(R, h, L, a, side, n)
             M == L \cup {n}
  <1>0. /\ k \in Heap /\ M \subseteq DOMAIN k /\ \A c \in L : k[c].value = h[c].value
        /\ \A c \in L, s \in Side : (c = a /\ s = side) \/ k[c][s] = h[c][s]
        /\ k[a][side] = n /\ \A s \in Side : k[n][s] = NULL
        /\ k[n].value \in R[a] \cap Goes(h, a, side)
    BY DEF Tree, ChildAdded
  <1> USE <1>0
  <1>1. /\ L \subseteq Nat /\ n \notin L
        /\ \A c \in L : /\ h[c].value \in Int /\ h[c].value \in R[c]
                        /\ R[c] \subseteq Int /\ Convex(R[c])
    BY TreeTypes
  <1>2. Q[n] = R[a] \cap Goes(h, a, side) /\ \A c \in L : Q[c] = R[c]
    BY <1>1 DEF Grown
  <1> HIDE DEF Q
  <1>3. \A c \in M : Q[c] \subseteq Int /\ k[c].value \in Q[c]
    BY <1>1, <1>2
  <1>4. Convex(Q[n])
    BY <1>1, <1>2 DEF Convex, Goes
  <1>5. ASSUME NEW c \in M, NEW s \in Side, k[c][s] # NULL
        PROVE  Q[k[c][s]] = Q[c] \cap Goes(k, c, s) /\ c < k[c][s]
    <2>1. c \in L /\ Goes(k, c, s) = Goes(h, c, s)
      BY <1>5 DEF Goes
    <2>2. CASE c = a /\ s = side
      BY <1>2, <2>1, <2>2
    <2>3. CASE ~(c = a /\ s = side)
      <3>1. k[c][s] = h[c][s]
        BY <2>1, <2>3
      <3>2. h[c][s] \in L /\ c < h[c][s] /\ R[h[c][s]] = R[c] \cap Goes(h, c, s)
        BY <1>5, <2>1, <3>1, TreeChild
      <3> QED
        BY <1>2, <2>1, <3>1, <3>2
    <2> QED
      BY <2>2, <2>3
  <1>6. r # NULL => Q[r] = Int
    <2>1. r \in L /\ R[r] = Int
      BY RootFirst
    <2> QED
      BY <1>2, <2>1
  <1>7. \A c \in M : Convex(Q[c])
    BY <1>1, <1>2, <1>4
  <1>8. Routes(Q, k, r, M) /\ ChildrenYounger(k, M)
    BY <1>3, <1>5, <1>6, <1>7 DEF Routes, ChildrenYounger
  <1>9. Tree(Q, k, r, M)
    BY <1>8 DEF Tree
  <1> QED
    BY <1>9 DEF Q

(* The first node, n. *)
IsFirst(k, n, L) ==
    /\ n \in Nat /\ n # NULL /\ k \in Heap /\ n \in DOMAIN k /\ L \subseteq DOMAIN k
    /\ k[n].value \in Int /\ \A s \in Side : k[n][s] = NULL

LEMMA FirstTree ==
    ASSUME NEW R, NEW h, NEW L, Tree(R, h, NULL, L),
           NEW n, NEW k, IsFirst(k, n, L), Shape(k, n, L \cup {n})
    PROVE  L = {} /\ Tree([c \in {n} |-> Int], k, n, L \cup {n})
  <1>1. L = {}
    <2>1. ASSUME NEW a \in L PROVE FALSE
      BY RootFirst, TreeTypes DEF NULL
    <2> QED
      BY <2>1
  <1> QED
    BY <1>1 DEF Tree, Routes, ChildrenYounger, Convex, IsFirst

(* A leaf goes: no child is new. *)
LeafCut(h, k, L) ==
    /\ k \in Heap /\ L \subseteq DOMAIN k
    /\ \A c \in L : /\ k[c].value = h[c].value
                   /\ \A s \in Side : k[c][s] \in {h[c][s], NULL}

LEMMA LeafGoneTree ==
    ASSUME NEW R, NEW h, NEW r, NEW L, Tree(R, h, r, L), NEW d, NEW r2, r2 = r \/ r2 = NULL,
           NEW k, LeafCut(h, k, L), Shape(k, r2, L \ {d})
    PROVE  Tree(R, k, r2, L \ {d})
  <1>1. ASSUME NEW c \in L \ {d}, NEW s \in Side, k[c][s] # NULL
        PROVE  R[k[c][s]] = R[c] \cap Goes(k, c, s) /\ c < k[c][s]
    <2>1. k[c][s] = h[c][s] /\ Goes(k, c, s) = Goes(h, c, s)
      BY <1>1 DEF Goes, LeafCut
    <2> QED
      BY <1>1, <2>1, TreeChild
  <1> QED
    BY <1>1, TreeTypes DEF Tree, Routes, ChildrenYounger, LeafCut

(* A thread that t lets alone is still on its way.  t may have entered the *)
(* root or a child of a node that it had locked.                           *)
Entered(h, r, L, t, c) == c = r \/ \E b \in L, s \in Side : h[b][s] = c /\ h[b].lock = t

Kept(R, h, r, L, Q, k, M, t) ==
    /\ \A c \in L \cap M :
          /\ Q[c] = R[c] /\ k[c].value = h[c].value /\ k[c].parent = h[c].parent
          /\ k[c].lock \in {h[c].lock, NoThread} \/ Entered(h, r, L, t, c)
    /\ \A c \in M \ L : k[c].lock = NoThread

LEMMA WayKept ==
    ASSUME NEW R, NEW h, NEW r, NEW L, Tree(R, h, r, L),
           NEW Q, NEW k, NEW r2, NEW M, Tree(Q, k, r2, M),
           NEW t, t # NoThread, Kept(R, h, r, L, Q, k, M, t), NEW u, u # t, NEW at, NEW l,
           Stands(h, r, L, u, at, l), OnWay(R, h, L, at, l), Stands(k, r2, M, u, at, l)
    PROVE  OnWay(Q, k, M, at, l)
  <1> USE DEF Kept
  <1>1. CASE at = "child"
    <2>1. l.next \in L \cap M
      BY <1>1, AtChild
    <2> QED
      BY <1>1, <2>1 DEF OnWay, Removing
  <1>2. CASE at \in Removing
    <2> DEFINE d == l.to_be_deleted
               x == Aim(at, l)
               p == AboveAim(h, at, l)
    <2>1. /\ d \in L \cap M /\ x \in L \cap M /\ p \in L /\ h[d].lock = u /\ h[p].lock = u
          /\ l.side \in Side
      BY <1>2, AtRemoving
    <2>2. AboveAim(k, at, l) = p
      BY <2>1 DEF AboveAim, Aim
    <2>3. /\ Nearest(R, h, L, d, l.side, x) /\ Clear(R, h, L, d, x, p)
          /\ l.work.op = "DELETE" /\ l.work.key = h[d].value
      BY <1>2 DEF OnWay
    <2> HIDE DEF d, x, p
    <2>4. Nearest(Q, k, M, d, l.side, x)
      BY <2>1, <2>3 DEF Nearest
    <2>5. ASSUME NEW c \in WayTo(Q, k, M, d, x) \ {x, p}
          PROVE  k[c].lock = NoThread
      <3>1. CASE c \notin L
        BY <3>1 DEF WayTo
      <3>2. CASE c \in L
        <4>1. c \in WayTo(R, h, L, d, x) /\ c \in L \cap M
          BY <2>1, <3>2 DEF WayTo
        <4>2. h[c].lock = NoThread
          BY <2>3, <2>5, <4>1 DEF Clear
        <4>3. ~Entered(h, r, L, t, c)
          <5>1. c # r
            BY <4>1, <2>1, RootFirst, TreeTypes DEF WayTo
          <5>2. ASSUME NEW b \in L, NEW s \in Side, h[b][s] = c, h[b].lock = t
                PROVE  FALSE
            <6>1. b = d \/ (b \in WayTo(R, h, L, d, x) /\ b # x)
              BY <2>1, <2>3, <4>1, <5>2, WayFromParent
            <6>2. b \in WayTo(R, h, L, d, x) \ {x, p}
              BY <2>1, <5>2, <6>1
            <6> QED
              BY <2>3, <5>2, <6>2 DEF Clear
          <5> QED
            BY <5>1, <5>2 DEF Entered
        <4> QED
          BY <4>1, <4>2, <4>3
      <3> QED
        BY <3>1, <3>2
    <2> QED
      <3>1. k[d].value = h[d].value
        BY <2>1
      <3>2. Clear(Q, k, M, d, x, p)
        BY <2>5 DEF Clear
      <3> QED
        BY <1>2, <2>2, <2>3, <2>4, <3>1, <3>2 DEF OnWay, d, x, p, Removing
  <1> QED
    BY <1>1, <1>2 DEF OnWay

-----------------------------------------------------------------------------
(***************************************************************************)
(* The value of the successor s moves to d, and s goes.  Keys from v, the  *)
(* old value of d, up to w, the new one, now go where keys right before v  *)
(* went, to the other side of d; w itself ends at d.                       *)
(***************************************************************************)
Before(side, v) == IF side = "right" THEN v - 1 ELSE v + 1

Rerouted(R, M, side, v, w) ==
    [a \in M |->
       {k \in Int :
          IF k = w THEN v \in R[a]
          ELSE IF Beyond(side, k, w) /\ ~Beyond(side, k, v)
               THEN v \in R[a] \/ Before(side, v) \in R[a]
               ELSE k \in R[a]}]

(* s is the node that remove() was looking for, with its parent p. *)
Successor(R, h, L, d, side, s, p) ==
    /\ side \in Side /\ p \in L /\ p # s
    /\ Nearest(R, h, L, d, side, s) /\ h[s][Opposite(side)] = NULL
    /\ h[p][Place(p, d, side)] = s

(* The only values from that of d to that of s are these two. *)
LEMMA OtherValues ==
    ASSUME NEW R, NEW h, NEW r, NEW L, Tree(R, h, r, L), NEW d, NEW side, NEW s, NEW p,
           Successor(R, h, L, d, side, s, p)
    PROVE  /\ d \in L /\ s \in L /\ s # d /\ Beyond(side, h[d].value, h[s].value)
           /\ h[d].value \in R[d] /\ h[s].value \in R[d] /\ h[d].value \notin R[s]
           /\ h[d].value \in Int /\ h[s].value \in Int
           /\ \A a \in L \ {d, s} : /\ h[a].value \in Int
                                    /\ \/ Beyond(side, h[a].value, h[d].value)
                                       \/ Beyond(side, h[s].value, h[a].value)
  <1>1. /\ d \in L /\ s \in L /\ R[s] \subseteq R[d] /\ side \in Side
        /\ \A k \in R[s] : Beyond(side, h[d].value, k)
        /\ \A a \in L : h[a].value \in Int /\ h[a].value \in R[a]
    BY TreeTypes DEF Successor, Nearest
  <1>2. Beyond(side, h[d].value, h[s].value) /\ s # d /\ h[d].value \notin R[s]
    BY <1>1 DEF Beyond
  <1>3. ASSUME NEW a \in L \ {d, s}
        PROVE  Beyond(side, h[a].value, h[d].value) \/ Beyond(side, h[s].value, h[a].value)
    <2>1. h[a].value # h[d].value /\ h[a].value # h[s].value
      BY <1>1, OneValue
    <2>2. ~(Beyond(side, h[d].value, h[a].value) /\ Beyond(side, h[a].value, h[s].value))
      BY <1>1, NoneBetween DEF Successor
    <2> QED
      BY <1>1, <2>1, <2>2 DEF Beyond
  <1> QED
    BY <1>1, <1>2, <1>3

LEMMA ReroutedKey ==
    ASSUME NEW R, NEW M, NEW side, NEW v, NEW w, NEW a \in M, NEW k \in Int
    PROVE  k \in Rerouted(R, M, side, v, w)[a] <=>
              IF k = w THEN v \in R[a]
              ELSE IF Beyond(side, k, w) /\ ~Beyond(side, k, v)
                   THEN v \in R[a] \/ Before(side, v) \in R[a]
                   ELSE k \in R[a]
  BY DEF Rerouted

LEMMA ReroutedType ==
    ASSUME NEW R, NEW M, NEW side, NEW v, NEW w, NEW a \in M
    PROVE  Rerouted(R, M, side, v, w)[a] \subseteq Int
  BY DEF Rerouted

LEMMA ReroutedConvex ==
    ASSUME NEW R, NEW M, NEW side \in Side, NEW v \in Int, NEW w \in Int,
           Beyond(side, v, w), NEW a \in M, Convex(R[a]),
           NEW Q, Q = Rerouted(R, M, side, v, w)
    PROVE  Convex(Q[a])
  <1> SUFFICES ASSUME NEW x \in Q[a], NEW z \in Q[a], NEW y \in Int, x <= y, y <= z
               PROVE  y \in Q[a]
    BY DEF Convex
  <1> DEFINE In(k) == IF k = w THEN v \in R[a]
                      ELSE IF Beyond(side, k, w) /\ ~Beyond(side, k, v)
                           THEN v \in R[a] \/ Before(side, v) \in R[a]
                           ELSE k \in R[a]
  <1>1. x \in Int /\ z \in Int /\ In(x) /\ In(z) /\ (In(y) => y \in Q[a])
    BY ReroutedKey, ReroutedType
  <1>2. \A i, j \in R[a] : \A n \in Int : i <= n /\ n <= j => n \in R[a]
    BY DEF Convex
  <1>3. CASE side = "right"
    BY <1>1, <1>2, <1>3 DEF Beyond, Before
  <1>4. CASE side = "left"
    BY <1>1, <1>2, <1>4 DEF Beyond, Before
  <1> QED
    BY <1>3, <1>4 DEF Side

(* The child c of a node a whose value does not change. *)
Keeps(R, M, side, v, w, h, a, z, c) ==
    /\ side \in Side /\ v \in Int /\ w \in Int /\ Beyond(side, v, w)
    /\ a \in M /\ c \in M /\ Convex(R[a]) /\ h[a].value \in Int /\ z \in Side
    /\ R[c] = R[a] \cap Goes(h, a, z) /\ \E i \in Int : i \in R[c]
    /\ Beyond(side, h[a].value, v) \/ Beyond(side, w, h[a].value)

LEMMA ReroutedChild ==
    ASSUME NEW R, NEW M, NEW side, NEW v, NEW w, NEW h, NEW a, NEW z, NEW c,
           Keeps(R, M, side, v, w, h, a, z, c)
    PROVE  Rerouted(R, M, side, v, w)[c] = Rerouted(R, M, side, v, w)[a] \cap Goes(h, a, z)
  <1> USE DEF Keeps
  <1> DEFINE Q == Rerouted(R, M, side, v, w)
  <1>i. PICK i \in Int : i \in R[c]
    OBVIOUS
  <1> DEFINE In(k, b) == IF k = w THEN v \in R[b]
                         ELSE IF Beyond(side, k, w) /\ ~Beyond(side, k, v)
                              THEN v \in R[b] \/ Before(side, v) \in R[b]
                              ELSE k \in R[b]
  <1>1. Q[a] \subseteq Int /\ Q[c] \subseteq Int
    BY ReroutedType
  <1>2. \A x, y \in R[a] : \A n \in Int : x <= n /\ n <= y => n \in R[a]
    BY DEF Convex
  <1>3. ASSUME NEW k \in Int
        PROVE  k \in Q[c] <=> k \in Q[a] /\ k \in Goes(h, a, z)
    <2>1. (k \in Q[c] <=> In(k, c)) /\ (k \in Q[a] <=> In(k, a))
      BY ReroutedKey
    <2>2. \A n \in Int : n \in R[c] <=> n \in R[a] /\ IF z = "left" THEN n < h[a].value
                                                      ELSE h[a].value < n
      BY DEF Goes
    <2>3. k \in Goes(h, a, z) <=> IF z = "left" THEN k < h[a].value ELSE h[a].value < k
      BY DEF Goes
    <2>4. CASE side = "right" /\ z = "left"
      BY <1>2, <2>1, <2>2, <2>3, <2>4 DEF Beyond, Before
    <2>5. CASE side = "right" /\ z = "right"
      BY <1>2, <2>1, <2>2, <2>3, <2>5 DEF Beyond, Before
    <2>6. CASE side = "left" /\ z = "left"
      BY <1>2, <2>1, <2>2, <2>3, <2>6 DEF Beyond, Before
    <2>7. CASE side = "left" /\ z = "right"
      BY <1>2, <2>1, <2>2, <2>3, <2>7 DEF Beyond, Before
    <2> QED
      BY <2>4, <2>5, <2>6, <2>7 DEF Side
  <1> QED
    BY <1>1, <1>3

(* The child c that d keeps, from h to k. *)
KeepsBelow(R, M, side, v, w, h, k, d, z, c) ==
    /\ side \in Side /\ v \in Int /\ w \in Int /\ Beyond(side, v, w)
    /\ d \in M /\ c \in M /\ Convex(R[d]) /\ v \in R[d] /\ w \in R[d]
    /\ h[d].value = v /\ k[d].value = w /\ z \in Side
    /\ R[c] = R[d] \cap Goes(h, d, z) /\ \E i \in Int : i \in R[c]

LEMMA ReroutedBelow ==
    ASSUME NEW R, NEW M, NEW side, NEW v, NEW w, NEW h, NEW k, NEW d, NEW z, NEW c,
           KeepsBelow(R, M, side, v, w, h, k, d, z, c)
    PROVE  Rerouted(R, M, side, v, w)[c] = Rerouted(R, M, side, v, w)[d] \cap Goes(k, d, z)
  <1> USE DEF KeepsBelow
  <1> DEFINE Q == Rerouted(R, M, side, v, w)
  <1>i. PICK i \in Int : i \in R[c]
    OBVIOUS
  <1> DEFINE In(x, b) == IF x = w THEN v \in R[b]
                         ELSE IF Beyond(side, x, w) /\ ~Beyond(side, x, v)
                              THEN v \in R[b] \/ Before(side, v) \in R[b]
                              ELSE x \in R[b]
  <1>1. Q[d] \subseteq Int /\ Q[c] \subseteq Int
    BY ReroutedType
  <1>2. \A x, y \in R[d] : \A n \in Int : x <= n /\ n <= y => n \in R[d]
    BY DEF Convex
  <1>3. ASSUME NEW x \in Int
        PROVE  x \in Q[c] <=> x \in Q[d] /\ x \in Goes(k, d, z)
    <2>1. (x \in Q[c] <=> In(x, c)) /\ (x \in Q[d] <=> In(x, d))
      BY ReroutedKey
    <2>2. \A n \in Int : n \in R[c] <=> n \in R[d] /\ IF z = "left" THEN n < v ELSE v < n
      BY DEF Goes
    <2>3. x \in Goes(k, d, z) <=> IF z = "left" THEN x < w ELSE w < x
      BY DEF Goes
    <2>4. CASE side = "right" /\ z = "left"
      BY <1>2, <2>1, <2>2, <2>3, <2>4 DEF Beyond, Before
    <2>5. CASE side = "right" /\ z = "right"
      BY <1>2, <2>1, <2>2, <2>3, <2>5 DEF Beyond, Before
    <2>6. CASE side = "left" /\ z = "left"
      BY <1>2, <2>1, <2>2, <2>3, <2>6 DEF Beyond, Before
    <2>7. CASE side = "left" /\ z = "right"
      BY <1>2, <2>1, <2>2, <2>3, <2>7 DEF Beyond, Before
    <2> QED
      BY <2>4, <2>5, <2>6, <2>7 DEF Side
  <1> QED
    BY <1>1, <1>3

(* The child o of s comes to p, either d itself or a node on the way to s. *)
MovesUp(R, M, side, v, w, h, k, d, p, s, o) ==
    /\ side \in Side /\ v \in Int /\ w \in Int /\ Beyond(side, v, w)
    /\ d \in M /\ p \in M /\ o \in M /\ v \in R[d] /\ w \in R[s]
    /\ h[d].value = v /\ h[s].value = w /\ h[p].value \in Int
    /\ k[p].value = IF p = d THEN w ELSE h[p].value
    /\ R[s] = R[p] \cap Goes(h, p, Place(p, d, side))
    /\ R[o] = R[s] \cap Goes(h, s, side)
    /\ \A x \in R[s] : Beyond(side, v, x)

LEMMA ReroutedOrphan ==
    ASSUME NEW R, NEW M, NEW side, NEW v, NEW w, NEW h, NEW k, NEW d, NEW p, NEW s, NEW o,
           MovesUp(R, M, side, v, w, h, k, d, p, s, o)
    PROVE  Rerouted(R, M, side, v, w)[o] =
              Rerouted(R, M, side, v, w)[p] \cap Goes(k, p, Place(p, d, side))
  <1> USE DEF MovesUp
  <1> DEFINE Q == Rerouted(R, M, side, v, w)
             place == Place(p, d, side)
  <1> DEFINE In(x, b) == IF x = w THEN v \in R[b]
                         ELSE IF Beyond(side, x, w) /\ ~Beyond(side, x, v)
                              THEN v \in R[b] \/ Before(side, v) \in R[b]
                              ELSE x \in R[b]
  <1>1. Q[p] \subseteq Int /\ Q[o] \subseteq Int
    BY ReroutedType
  <1>2. \A n \in Int : /\ n \in R[o] <=> n \in R[s] /\ IF side = "left" THEN n < w ELSE w < n
                       /\ n \in R[s] => Beyond(side, v, n)
    BY DEF Goes
  <1>3. ASSUME NEW x \in Int
        PROVE  x \in Q[o] <=> x \in Q[p] /\ x \in Goes(k, p, place)
    <2>1. (x \in Q[o] <=> In(x, o)) /\ (x \in Q[p] <=> In(x, p))
      BY ReroutedKey
    <2>2. CASE p = d
      <3>1. place = side
        BY <2>2 DEF Place
      <3>2. \A n \in Int : n \in R[s] <=> n \in R[p] /\ IF side = "left" THEN n < v ELSE v < n
        BY <2>2, <3>1 DEF Goes
      <3>3. x \in Goes(k, p, place) <=> IF side = "left" THEN x < w ELSE w < x
        BY <2>2, <3>1 DEF Goes
      <3>4. CASE side = "right"
        BY <1>2, <2>1, <2>2, <3>2, <3>3, <3>4 DEF Beyond, Before
      <3>5. CASE side = "left"
        BY <1>2, <2>1, <2>2, <3>2, <3>3, <3>5 DEF Beyond, Before
      <3> QED
        BY <3>4, <3>5 DEF Side
    <2>3. CASE p # d
      <3>1. place = Opposite(side)
        BY <2>3 DEF Place
      <3>2. \A n \in Int : n \in R[s] <=> n \in R[p] /\ IF side = "left" THEN h[p].value < n
                                                        ELSE n < h[p].value
        BY <3>1 DEF Goes, Opposite, Side
      <3>3. x \in Goes(k, p, place) <=> IF side = "left" THEN h[p].value < x
                                        ELSE x < h[p].value
        BY <2>3, <3>1 DEF Goes, Opposite, Side
      <3>4. CASE side = "right"
        BY <1>2, <2>1, <3>2, <3>3, <3>4 DEF Beyond, Before
      <3>5. CASE side = "left"
        BY <1>2, <2>1, <3>2, <3>3, <3>5 DEF Beyond, Before
      <3> QED
        BY <3>4, <3>5 DEF Side
    <2> QED
      BY <2>2, <2>3
  <1> QED
    BY <1>1, <1>3

(* k is h after Replaced. *)
ReplacedBy(h, k, L, d, s, p, side) ==
    /\ k \in Heap /\ L \subseteq DOMAIN k
    /\ \A b \in L :
          /\ k[b].value = IF b = d THEN h[s].value ELSE h[b].value
          /\ k[b].parent = IF b = h[s][side] THEN p ELSE h[b].parent
          /\ k[b].lock \in {h[b].lock, NoThread}
          /\ \A z \in Side : k[b][z] = IF b = p /\ z = Place(p, d, side) THEN h[s][side]
                                       ELSE h[b][z]

LEMMA ReroutedTree ==
    ASSUME NEW R, NEW h, NEW r, NEW L, Tree(R, h, r, L), NEW d, NEW side, NEW s, NEW p,
           Successor(R, h, L, d, side, s, p), NEW k, ReplacedBy(h, k, L, d, s, p, side),
           Shape(k, r, L \ {s}),
           NEW Q, Q = Rerouted(R, L \ {s}, side, h[d].value, h[s].value)
    PROVE  Tree(Q, k, r, L \ {s})
  <1>0. PICK M, v, w, place : /\ M = L \ {s} /\ v = h[d].value /\ w = h[s].value
                              /\ place = Place(p, d, side)
    OBVIOUS
  <1>1. /\ L \subseteq Nat /\ 0 \notin L
        /\ \A a \in L : /\ h[a].value \in Int /\ h[a].value \in R[a]
                        /\ R[a] \subseteq Int /\ Convex(R[a])
    BY TreeTypes
  <1>2. /\ d \in M /\ s \in L /\ Beyond(side, v, w) /\ v \in Int /\ w \in Int
        /\ v \in R[d] /\ w \in R[d]
        /\ \A a \in L \ {d, s} :
              h[a].value \in Int /\ (Beyond(side, h[a].value, v) \/ Beyond(side, w, h[a].value))
    BY <1>0, OtherValues
  <1>3. /\ p \in M /\ side \in Side /\ place \in Side /\ h[p][place] = s
        /\ \A x \in R[s] : Beyond(side, v, x)
    BY <1>0, SidesOf DEF Successor, Place, Nearest
  <1>4. R[s] = R[p] \cap Goes(h, p, place) /\ p < s
    BY <1>0, <1>1, <1>2, <1>3, TreeChild DEF NULL
  <1>5. ASSUME NEW a \in M
        PROVE  Q[a] \subseteq Int /\ k[a].value \in Q[a] /\ Convex(Q[a])
    <2>1. CASE a = d
      <3>1. k[a].value = w
        BY <1>0, <1>2, <2>1 DEF ReplacedBy
      <3> QED
        BY <1>0, <1>1, <1>2, <1>3, <2>1, <3>1, ReroutedType, ReroutedKey, ReroutedConvex
    <2>2. CASE a # d
      <3>1. k[a].value = h[a].value /\ h[a].value \in R[a]
        BY <1>0, <1>1, <2>2 DEF ReplacedBy
      <3>2. h[a].value # w /\ ~(Beyond(side, h[a].value, w) /\ ~Beyond(side, h[a].value, v))
        BY <1>0, <1>2, <2>2 DEF Beyond
      <3>3. h[a].value \in Q[a]
        BY <1>0, <1>1, <3>1, <3>2, ReroutedKey
      <3> QED
        BY <1>0, <1>1, <1>2, <1>3, <3>1, <3>3, ReroutedType, ReroutedConvex
    <2> QED
      BY <2>1, <2>2
  <1>6. ASSUME NEW a \in M, NEW z \in Side, k[a][z] # NULL
        PROVE  Q[k[a][z]] = Q[a] \cap Goes(k, a, z) /\ a < k[a][z]
    <2>1. PICK c : c = k[a][z]
      OBVIOUS
    <2>2. c \in M
      BY <1>0, <1>6, <2>1 DEF Shape, ChildrenOK
    <2>3. CASE a = p /\ z = place
      <3>1. c = h[s][side] /\ c # NULL
        BY <1>0, <1>6, <2>1, <2>3 DEF ReplacedBy
      <3>2. c \in L /\ s < c /\ R[c] = R[s] \cap Goes(h, s, side)
        BY <1>2, <1>3, <3>1, TreeChild
      <3>3. p < c
        BY <1>0, <1>1, <1>2, <1>3, <1>4, <3>2
      <3>4. k[p].value = IF p = d THEN w ELSE h[p].value
        BY <1>0, <1>3 DEF ReplacedBy
      <3>5. h[p].value \in Int /\ w \in R[s]
        BY <1>0, <1>1, <1>2, <1>3
      <3>6. Q[c] = Q[p] \cap Goes(k, p, place)
        <4>1. MovesUp(R, M, side, v, w, h, k, d, p, s, c)
          BY <1>0, <1>2, <1>3, <1>4, <2>2, <3>2, <3>4, <3>5 DEF MovesUp
        <4> QED
          BY <1>0, <4>1, ReroutedOrphan
      <3> QED
        BY <2>1, <2>3, <3>3, <3>6
    <2>4. CASE ~(a = p /\ z = place)
      <3>1. c = h[a][z]
        BY <1>0, <2>1, <2>4 DEF ReplacedBy
      <3>2. c \in L /\ a < c /\ R[c] = R[a] \cap Goes(h, a, z)
        BY <1>0, <1>6, <2>1, <3>1, TreeChild
      <3>3. h[c].value \in Int /\ h[c].value \in R[c]
        BY <1>1, <3>2
      <3>4. CASE a = d
        <4>1. k[d].value = w
          BY <1>0, <1>2 DEF ReplacedBy
        <4>2. Q[c] = Q[d] \cap Goes(k, d, z)
          <5>1. KeepsBelow(R, M, side, v, w, h, k, d, z, c)
            BY <1>0, <1>1, <1>2, <1>3, <2>2, <3>2, <3>3, <3>4, <4>1 DEF KeepsBelow
          <5> QED
            BY <1>0, <5>1, ReroutedBelow
        <4> QED
          BY <2>1, <3>2, <3>4, <4>2
      <3>5. CASE a # d
        <4>1. k[a].value = h[a].value
          BY <1>0, <3>5 DEF ReplacedBy
        <4>2. Goes(k, a, z) = Goes(h, a, z)
          BY <4>1 DEF Goes
        <4>3. Q[c] = Q[a] \cap Goes(h, a, z)
          <5>1. Keeps(R, M, side, v, w, h, a, z, c)
            BY <1>0, <1>1, <1>2, <1>3, <2>2, <3>2, <3>3, <3>5 DEF Keeps
          <5> QED
            BY <1>0, <5>1, ReroutedChild
        <4> QED
          BY <2>1, <3>2, <4>2, <4>3
      <3> QED
        BY <3>4, <3>5
    <2> QED
      BY <2>3, <2>4
  <1>7. r # NULL => Q[r] = Int
    <2> SUFFICES ASSUME r # NULL PROVE Q[r] = Int
      OBVIOUS
    <2>1. r \in M
      BY <1>0 DEF Shape, RootOK
    <2>2. R[r] = Int
      BY <1>0, RootFirst, <2>1
    <2>3. v \in R[r] /\ Before(side, v) \in R[r]
      BY <1>0, <1>2, <2>2 DEF Before
    <2> QED
      <3>1. \A x \in Int : x \in Q[r]
        BY <1>0, <2>1, <2>2, <2>3, ReroutedKey
      <3> QED
        BY <1>0, <2>1, <3>1, ReroutedType
  <1>8. Routes(Q, k, r, M) /\ ChildrenYounger(k, M)
    BY <1>5, <1>6, <1>7 DEF Routes, ChildrenYounger
  <1> QED
    BY <1>0, <1>8 DEF Tree, ReplacedBy

(***************************************************************************)
(* A thread on its way then still is.                                      *)
(***************************************************************************)
(* K are the first keys beyond v. *)
FirstBeyond(side, v, K) ==
    \A k \in K : /\ Beyond(side, v, k)
                 /\ \A j \in Int : Beyond(side, v, j) /\ Beyond(side, j, k) => j \in K

(* So they stay, if that value is not between v and w. *)
LEMMA ReroutedFirst ==
    ASSUME NEW R, NEW M, NEW side \in Side, NEW v \in Int, NEW w \in Int,
           Beyond(side, v, w), NEW x \in M, R[x] \subseteq Int,
           NEW v2 \in Int, Beyond(side, v2, v) \/ Beyond(side, w, v2), NEW side2 \in Side,
           FirstBeyond(side2, v2, R[x])
    PROVE  FirstBeyond(side2, v2, Rerouted(R, M, side, v, w)[x])
  <1> DEFINE Q == Rerouted(R, M, side, v, w)
             In(k) == IF k = w THEN v \in R[x]
                      ELSE IF Beyond(side, k, w) /\ ~Beyond(side, k, v)
                           THEN v \in R[x] \/ Before(side, v) \in R[x]
                           ELSE k \in R[x]
  <1>1. Q[x] \subseteq Int /\ \A k \in Int : k \in Q[x] <=> In(k)
    BY ReroutedType, ReroutedKey
  <1> HIDE DEF Q
  <1>2. ASSUME NEW k \in Int, In(k)
        PROVE  /\ Beyond(side2, v2, k)
               /\ \A j \in Int : Beyond(side2, v2, j) /\ Beyond(side2, j, k) => In(j)
    <2> USE DEF FirstBeyond
    <2>1. CASE side = "right" /\ side2 = "right"
      BY <1>2, <2>1 DEF Beyond, Before
    <2>2. CASE side = "right" /\ side2 = "left"
      BY <1>2, <2>2 DEF Beyond, Before
    <2>3. CASE side = "left" /\ side2 = "right"
      BY <1>2, <2>3 DEF Beyond, Before
    <2>4. CASE side = "left" /\ side2 = "left"
      BY <1>2, <2>4 DEF Beyond, Before
    <2> QED
      BY <2>1, <2>2, <2>3, <2>4 DEF Side
  <1>3. FirstBeyond(side2, v2, Q[x])
    BY <1>1, <1>2 DEF FirstBeyond
  <1> QED
    BY <1>3 DEF Q

(* t has moved the value of s to d, from (h, R) to (k, Q). *)
MovedBy(t, R, h, L, d, side, s, p, k, Q) ==
    /\ Successor(R, h, L, d, side, s, p) /\ Clear(R, h, L, d, s, p)
    /\ ReplacedBy(h, k, L, d, s, p, side)
    /\ Q = Rerouted(R, L \ {s}, side, h[d].value, h[s].value)
    /\ h[d].lock = t /\ h[s].lock = t /\ h[p].lock = t

LEMMA ReroutedWay ==
    ASSUME NEW R, NEW h, NEW r, NEW L, Tree(R, h, r, L), NEW d, NEW side, NEW s, NEW p,
           NEW t, NEW k, NEW Q, MovedBy(t, R, h, L, d, side, s, p, k, Q),
           Tree(Q, k, r, L \ {s}),
           NEW u, u # t, u # NoThread, NEW at, NEW l,
           Stands(h, r, L, u, at, l), OnWay(R, h, L, at, l), Stands(k, r, L \ {s}, u, at, l)
    PROVE  OnWay(Q, k, L \ {s}, at, l)
  <1>a. /\ Successor(R, h, L, d, side, s, p) /\ Clear(R, h, L, d, s, p)
        /\ ReplacedBy(h, k, L, d, s, p, side)
        /\ Q = Rerouted(R, L \ {s}, side, h[d].value, h[s].value)
        /\ h[d].lock = t /\ h[s].lock = t /\ h[p].lock = t
    BY DEF MovedBy
  <1> USE <1>a
  <1>0. PICK M, v, w : M = L \ {s} /\ v = h[d].value /\ w = h[s].value
    OBVIOUS
  <1>1. /\ L \subseteq Nat /\ 0 \notin L
        /\ \A a \in L : /\ h[a].value \in Int /\ h[a].value \in R[a]
                        /\ R[a] \subseteq Int /\ Convex(R[a])
    BY TreeTypes
  <1>2. /\ d \in M /\ s \in L /\ Beyond(side, v, w) /\ v \in Int /\ w \in Int /\ side \in Side
        /\ \A a \in L \ {d, s} :
              h[a].value \in Int /\ (Beyond(side, h[a].value, v) \/ Beyond(side, w, h[a].value))
    BY <1>0, OtherValues DEF Successor
  <1>3. ASSUME NEW a \in M, NEW x \in Int
        PROVE  x \in Q[a] <=> IF x = w THEN v \in R[a]
                              ELSE IF Beyond(side, x, w) /\ ~Beyond(side, x, v)
                                   THEN v \in R[a] \/ Before(side, v) \in R[a]
                                   ELSE x \in R[a]
    BY <1>0, ReroutedKey
  <1>4. CASE at = "child"
    <2>1. PICK c, key : c = l.next /\ key = l.work.key
      OBVIOUS
    <2>2. PICK b \in L, z \in Side : h[b].lock = u /\ h[b][z] = c /\ c \in L /\ c \in M
      BY <1>0, <1>4, <2>1, AtChild
    <2>3. key \in R[c] /\ R[c] = R[b] \cap Goes(h, b, z) /\ key \in Int /\ key \in R[b]
      <3>1. key \in R[c]
        BY <1>4, <2>1 DEF OnWay
      <3>2. R[c] = R[b] \cap Goes(h, b, z)
        BY <1>1, <2>2, TreeChild DEF NULL
      <3> QED
        BY <1>1, <2>2, <3>1, <3>2
    <2>4. b \notin {d, s, p}
      BY <2>2
    <2>5. Beyond(side, v, key) /\ ~Beyond(side, w, key) => v \in R[c]
      <3> SUFFICES ASSUME Beyond(side, v, key), ~Beyond(side, w, key), v \notin R[c]
                   PROVE  FALSE
        OBVIOUS
      <3>1. CASE v \in R[b]
        <4>1. v \notin Goes(h, b, z) /\ key \in Goes(h, b, z)
          BY <2>3, <3>1
        <4>2. /\ h[b].value \in Int
              /\ Beyond(side, h[b].value, v) \/ Beyond(side, w, h[b].value)
          BY <1>2, <2>2, <2>4
        <4> QED
          BY <1>2, <2>2, <2>3, <4>1, <4>2 DEF Beyond, Goes, Side
      <3>2. CASE v \notin R[b]
        <4>1. w \in R[b]
          BY <1>0, <2>2, <2>3, OneWay DEF Successor
        <4>2. b \in WayTo(R, h, L, d, s) \ {s, p}
          BY <1>0, <2>2, <2>4, <3>2, <4>1 DEF WayTo
        <4> QED
          BY <2>2, <4>2 DEF Clear
      <3> QED
        BY <3>1, <3>2
    <2>6. key \in Q[c]
      <3>1. CASE ~Beyond(side, key, v) /\ ~Beyond(side, w, key)
        <4>1. v \in R[c]
          BY <1>2, <2>3, <2>5, <3>1 DEF Beyond
        <4>2. key = w \/ Beyond(side, key, w)
          BY <1>2, <2>3, <3>1 DEF Beyond
        <4> QED
          BY <1>3, <2>2, <2>3, <3>1, <4>1, <4>2
      <3>2. CASE Beyond(side, key, v) \/ Beyond(side, w, key)
        <4>1. key # w /\ ~(Beyond(side, key, w) /\ ~Beyond(side, key, v))
          BY <1>2, <2>3, <3>2 DEF Beyond
        <4> QED
          BY <1>3, <2>2, <2>3, <4>1
      <3> QED
        BY <3>1, <3>2
    <2> QED
      BY <1>4, <2>1, <2>6 DEF OnWay, Removing
  <1>5. CASE at \in Removing
    <2>1. PICK d2, x, p2, side2 : /\ d2 = l.to_be_deleted /\ x = Aim(at, l)
                                  /\ p2 = AboveAim(h, at, l) /\ side2 = l.side
      OBVIOUS
    <2>2. /\ d2 \in L /\ x \in L /\ p2 \in L /\ h[d2].lock = u /\ h[p2].lock = u
          /\ side2 \in Side /\ h[x].parent = p2
      BY <1>5, <2>1, AtRemoving
    <2>3. d2 \in M /\ x \in M /\ k[x].parent = AboveAim(k, at, l)
      BY <1>0, <1>5, <2>1, AtRemoving
    <2>4. d2 \notin {d, s, p} /\ p2 \notin {d, s, p}
      BY <2>2
    <2>5. /\ Nearest(R, h, L, d2, side2, x) /\ Clear(R, h, L, d2, x, p2)
          /\ l.work.op = "DELETE" /\ l.work.key = h[d2].value
      BY <1>5, <2>1 DEF OnWay
    <2>6. AboveAim(k, at, l) = p2
      <3>1. x # h[s][side]
        <4> SUFFICES ASSUME x = h[s][side] PROVE FALSE
          OBVIOUS
        <4>1. h[x].parent = s
          BY <1>1, <1>2, <2>2, TreeChild DEF NULL
        <4> QED
          BY <2>2, <2>4, <4>1
      <3> QED
        BY <2>2, <2>3, <3>1 DEF ReplacedBy
    <2>7. PICK v2 : v2 = h[d2].value
      OBVIOUS
    <2>8. /\ v2 \in Int /\ k[d2].value = v2
          /\ Beyond(side, v2, v) \/ Beyond(side, w, v2)
      BY <1>2, <2>2, <2>4, <2>7 DEF ReplacedBy
    <2>9. Nearest(Q, k, M, d2, side2, x)
      <3>1. R[x] \subseteq R[d2] /\ R[x] \subseteq Int /\ FirstBeyond(side2, v2, R[x])
        BY <1>1, <2>2, <2>5, <2>7 DEF Nearest, FirstBeyond
      <3>2. FirstBeyond(side2, v2, Q[x])
        BY <1>0, <1>2, <2>2, <2>3, <2>8, <3>1, ReroutedFirst
      <3>3. Q[x] \subseteq Q[d2]
        <4>1. Q[x] \subseteq Int
          BY <1>0, <2>3, ReroutedType
        <4>2. ASSUME NEW i \in Int, i \in Q[x] PROVE i \in Q[d2]
          BY <1>3, <2>3, <3>1, <4>2
        <4> QED
          BY <4>1, <4>2
      <3> QED
        BY <2>3, <2>8, <3>2, <3>3 DEF Nearest, FirstBeyond
    <2>10. ASSUME NEW c \in WayTo(Q, k, M, d2, x) \ {x, p2}
           PROVE  k[c].lock = NoThread
      <3>1. c \in M /\ c \in L /\ v2 \notin Q[c] /\ k[x].value \in Q[c]
        BY <1>0, <2>8 DEF WayTo
      <3>2. v2 \notin R[c]
        <4>1. v2 # w /\ ~(Beyond(side, v2, w) /\ ~Beyond(side, v2, v))
          BY <1>2, <2>8 DEF Beyond
        <4> QED
          BY <1>3, <2>8, <3>1, <4>1
      <3>3. h[x].value \in R[c]
        <4>1. CASE x = d
          <5>1. k[x].value = w /\ h[x].value = v
            BY <1>0, <2>2, <4>1 DEF ReplacedBy
          <5> QED
            BY <1>2, <1>3, <3>1, <5>1
        <4>2. CASE x # d
          <5>1. /\ k[x].value = h[x].value /\ h[x].value \in Int
                /\ Beyond(side, h[x].value, v) \/ Beyond(side, w, h[x].value)
            BY <1>0, <1>2, <2>2, <2>3, <4>2 DEF ReplacedBy
          <5>2. h[x].value # w /\ ~(Beyond(side, h[x].value, w) /\ ~Beyond(side, h[x].value, v))
            BY <1>2, <5>1 DEF Beyond
          <5> QED
            BY <1>3, <3>1, <5>1, <5>2
        <4> QED
          BY <4>1, <4>2
      <3>4. c \in WayTo(R, h, L, d2, x) \ {x, p2}
        BY <2>7, <3>1, <3>2, <3>3 DEF WayTo
      <3>5. h[c].lock = NoThread
        BY <2>5, <3>4 DEF Clear
      <3> QED
        BY <3>1, <3>5 DEF ReplacedBy
    <2>11. Clear(Q, k, M, d2, x, p2)
      BY <2>10 DEF Clear
    <2> QED
      BY <1>0, <1>5, <2>1, <2>5, <2>6, <2>7, <2>8, <2>9, <2>11 DEF OnWay, Removing
  <1> QED
    BY <1>4, <1>5 DEF OnWay

-----------------------------------------------------------------------------
(***************************************************************************)
(* Steps of a thread t: after them the tree is in order again, and every   *)
(* thread on its way.                                                      *)
(***************************************************************************)
LEMMA StandsNow ==
    ASSUME Inv, NEW u \in Thread, pc[u] # "abort"
    PROVE  Stands(node, g_root, Live, u, pc[u], loc[u])
  BY LiveType DEF Stands, Inv, ThreadOK

LEMMA StandsNext ==
    ASSUME Inv', NEW u \in Thread, pc'[u] # "abort"
    PROVE  Stands(node', g_root', Live', u, pc'[u], loc'[u])
  BY DEF Stands, Inv, ThreadOK, TypeOK, Label

Moves(t, at, l) == t \in Thread /\ Goto(t, at) /\ SetLocals(t, l)

LEMMA MovesOne ==
    ASSUME Inv, NEW t, NEW at, NEW l, Moves(t, at, l)
    PROVE  /\ t \in Thread /\ t # NoThread /\ pc'[t] = at /\ loc'[t] = l
           /\ \A u \in Thread \ {t} : pc'[u] = pc[u] /\ loc'[u] = loc[u]
  BY ThreadAssumption DEF Moves, Goto, SetLocals, Inv, TypeOK

(* The others are where they were. *)
OthersOn(R, h, r, L, t) ==
    \A u \in Thread \ {t} :
        /\ Stands(node, g_root, Live, u, pc[u], loc[u])
        /\ Stands(h, r, L, u, pc[u], loc[u])
        => OnWay(R, h, L, pc[u], loc[u])

LEMMA OrderStep ==
    ASSUME Inv, Inv', ~Aborted, NEW t, NEW at, NEW l, Moves(t, at, l),
           NEW Q, Tree(Q, node', g_root', Live'), OnWay(Q, node', Live', at, l),
           OthersOn(Q, node', g_root', Live', t)
    PROVE  Ordered'
  <1>1. ASSUME NEW u \in Thread PROVE OnWay(Q, node', Live', pc'[u], loc'[u])
    <2>1. CASE u = t
      BY <2>1, MovesOne
    <2>2. CASE u # t
      <3>1. pc'[u] = pc[u] /\ loc'[u] = loc[u] /\ pc[u] # "abort"
        BY <2>2, MovesOne DEF Aborted
      <3>2. /\ Stands(node, g_root, Live, u, pc[u], loc[u])
            /\ Stands(node', g_root', Live', u, pc[u], loc[u])
        BY <3>1, StandsNow, StandsNext
      <3> QED
        BY <2>2, <3>1, <3>2 DEF OthersOn
    <2> QED
      BY <2>1, <2>2
  <1>2. Routed(Q)'
    BY <1>1 DEF Routed
  <1> QED
    BY <1>2 DEF Ordered

LEMMA KeepStep ==
    ASSUME Inv, Inv', ~Aborted, NEW t, NEW at, NEW l, Moves(t, at, l),
           NEW R, Routed(R), NEW Q, Tree(Q, node', g_root', Live'),
           Kept(R, node, g_root, Live, Q, node', Live', t), OnWay(Q, node', Live', at, l)
    PROVE  Ordered'
  <1>1. Tree(R, node, g_root, Live) /\ t # NoThread
    BY MovesOne DEF Routed
  <1>2. OthersOn(Q, node', g_root', Live', t)
    <2> SUFFICES ASSUME NEW u \in Thread \ {t},
                        Stands(node, g_root, Live, u, pc[u], loc[u]),
                        Stands(node', g_root', Live', u, pc[u], loc[u])
                 PROVE  OnWay(Q, node', Live', pc[u], loc[u])
      BY DEF OthersOn
    <2>1. OnWay(R, node, Live, pc[u], loc[u]) /\ u # t
      BY DEF Routed
    <2> QED
      BY <1>1, <2>1, WayKept
  <1> QED
    BY <1>2, OrderStep

(* The heap in the midst of a step: locks have been taken and given back.  *)
Midst(t, h) ==
    /\ h \in Heap /\ DOMAIN h = DOMAIN node /\ Len(h) = Len(node)
    /\ \A c \in Live :
          /\ SameNode(node, h, c)
          /\ h[c].lock \in {node[c].lock, NoThread} \/ Entered(node, g_root, Live, t, c)

LEMMA MidstNow ==
    ASSUME Inv, NEW t
    PROVE  Midst(t, node)
  BY LiveType DEF Midst, SameNode

LEMMA MidstLocked ==
    ASSUME Inv, NEW t, NEW a, Entered(node, g_root, Live, t, a), NEW h, LockIs(node, h, a, t)
    PROVE  Midst(t, h)
  BY LiveType DEF Midst, SameNode, LockIs

LEMMA MidstUnlocked ==
    ASSUME Inv, NEW t, NEW h, Midst(t, h), NEW a, NEW k, LockIs(h, k, a, NoThread)
    PROVE  Midst(t, k)
  <1>1. ASSUME NEW c \in Live
        PROVE  /\ SameNode(node, k, c)
               /\ k[c].lock \in {node[c].lock, NoThread} \/ Entered(node, g_root, Live, t, c)
    <2>1. c \in DOMAIN h /\ SameNode(node, h, c)
      BY LiveType DEF Midst
    <2>2. SameNode(node, k, c)
      BY <2>1 DEF SameNode, LockIs
    <2>3. k[c].lock \in {h[c].lock, NoThread}
      BY <2>1 DEF LockIs
    <2> QED
      BY <2>2, <2>3 DEF Midst
  <1> QED
    BY <1>1 DEF Midst, LockIs

LEMMA MidstTree ==
    ASSUME Inv, NEW t, NEW h, Midst(t, h), NEW R, Routed(R)
    PROVE  /\ Tree(R, h, g_root, Live)
           /\ \A c \in Live : h[c].value = node[c].value /\ \A s \in Side : h[c][s] = node[c][s]
  BY LiveType, SameTree DEF Midst, Routed, SameNode

(* The keys in the tree. *)
Keys(h, L) == {h[a].value : a \in L}

SameValues(h, k, L) == \A c \in L : k[c].value = h[c].value

LEMMA KeysGrown ==
    ASSUME NEW h, NEW k, NEW L, NEW n, NEW M, M = L \cup {n}, SameValues(h, k, L)
    PROVE  \A x : x \in Keys(k, M) <=> x \in Keys(h, L) \/ x = k[n].value
  BY DEF Keys, SameValues

(* s goes, and d, which may be s, loses its value. *)
ValueGone(h, k, L, d, s) ==
    /\ d \in L /\ s \in L /\ \A c \in L : h[c].value = h[d].value => c = d
    /\ \A c \in L \ {s} : k[c].value = IF c = d THEN h[s].value ELSE h[c].value

LEMMA KeysGone ==
    ASSUME NEW h, NEW k, NEW L, NEW d, NEW s, ValueGone(h, k, L, d, s), NEW M, M = L \ {s}
    PROVE  \A x : x \in Keys(k, M) <=> x \in Keys(h, L) /\ x # h[d].value
  <1>1. ASSUME NEW x \in Keys(k, M) PROVE x \in Keys(h, L) /\ x # h[d].value
    <2>1. PICK c \in L \ {s} : x = k[c].value
      BY DEF Keys
    <2> QED
      BY <2>1 DEF Keys, ValueGone
  <1>2. ASSUME NEW x \in Keys(h, L), x # h[d].value PROVE x \in Keys(k, M)
    <2>1. PICK c \in L : x = h[c].value /\ c # d
      BY <1>2 DEF Keys
    <2>2. CASE c = s
      BY <2>1, <2>2 DEF Keys, ValueGone
    <2>3. CASE c # s
      BY <2>1, <2>3 DEF Keys, ValueGone
    <2> QED
      BY <2>2, <2>3
  <1> QED
    BY <1>1, <1>2

LEMMA QuietStep ==
    ASSUME Inv, Inv', ~Aborted, NEW t, NEW at, NEW l, Moves(t, at, l),
           NEW R, Routed(R), NEW h, Midst(t, h), node' = h, UNCHANGED <<g_root, freed>>,
           OnWay(R, h, Live, at, l)
    PROVE  Ordered' /\ Live' = Live /\ Keys(node', Live') = Keys(node, Live)
  <1>1. Live' = Live
    BY DEF Midst, Live
  <1>2. Tree(R, node', g_root', Live')
    BY <1>1, MidstTree
  <1>3. Kept(R, node, g_root, Live, R, node', Live', t)
    BY <1>1 DEF Kept, Midst, SameNode
  <1>4. Ordered'
    BY <1>1, <1>2, <1>3, KeepStep
  <1>5. Keys(node', Live') = Keys(node, Live)
    BY <1>1 DEF Keys, Midst, SameNode
  <1> QED
    BY <1>1, <1>4, <1>5

(* What a step of a call of t does to the keys, and what it answers. *)
Outcome(t) ==
    LET w == loc[t].work
        keys == Keys(node, Live)
        keys2 == Keys(node', Live')
    IN  /\ loc'[t].work = w /\ pc'[t] # "idle"
        /\ pc'[t] # "return" => keys2 = keys
        /\ pc'[t] = "return" =>
              \/ w.op = "SEARCH" /\ keys2 = keys /\ loc'[t].answer = (w.key \in keys)
              \/ /\ w.op = "INSERT" /\ loc'[t].answer = TRUE
                 /\ w.key \notin keys /\ keys2 = keys \cup {w.key}
              \/ /\ w.op = "DELETE" /\ loc'[t].answer = TRUE
                 /\ w.key \in keys /\ keys2 = keys \ {w.key}
              \/ /\ w.op = "DELETE" /\ loc'[t].answer = FALSE
                 /\ w.key \notin keys /\ keys2 = keys

Good(t) == Ordered' /\ Outcome(t)

LEMMA AnswerMoves ==
    ASSUME Inv, NEW t \in Thread, NEW b \in BOOLEAN, Answer(t, b)
    PROVE  \E l : /\ Moves(t, "return", l) /\ l.answer = b /\ l.work = loc[t].work
                  /\ \A Q, h, L : OnWay(Q, h, L, "return", l)
  <1> DEFINE l == [Locals(loc[t].work) EXCEPT !.answer = b]
  <1>1. Moves(t, "return", l) /\ l.answer = b /\ l.work = loc[t].work
    BY DEF Answer, Moves, Locals
  <1> HIDE DEF l
  <1> QED
    BY <1>1 DEF OnWay, Removing

LEMMA AnswerQuiet ==
    ASSUME Inv, Inv', ~Aborted, NEW t \in Thread, NEW R, Routed(R), NEW h, Midst(t, h),
           node' = h, UNCHANGED <<g_root, freed>>, NEW b \in BOOLEAN, Answer(t, b),
           \/ loc[t].work.op = "SEARCH" /\ b = (loc[t].work.key \in Keys(node, Live))
           \/ /\ loc[t].work.op = "DELETE" /\ b = FALSE
              /\ loc[t].work.key \notin Keys(node, Live)
    PROVE  Good(t)
  <1>1. PICK l : /\ Moves(t, "return", l) /\ l.answer = b /\ l.work = loc[t].work
                 /\ \A Q, g, L : OnWay(Q, g, L, "return", l)
    BY AnswerMoves
  <1>2. OnWay(R, h, Live, "return", l)
    BY <1>1
  <1>3. Ordered' /\ Keys(node', Live') = Keys(node, Live)
    BY <1>1, <1>2, QuietStep
  <1>4. pc'[t] = "return" /\ loc'[t] = l
    BY <1>1, MovesOne
  <1> QED
    BY <1>1, <1>3, <1>4 DEF Good, Outcome

-----------------------------------------------------------------------------
(***************************************************************************)
(* search() and insert() at a node that their key has led them to.         *)
(***************************************************************************)
(* Where the search ends without the key, it is not in the tree. *)
LEMMA Absent ==
    ASSUME NEW R, NEW h, NEW r, NEW L, Tree(R, h, r, L), NEW a \in L, NEW key, key \in R[a],
           key # h[a].value, ChildFor(h, a, key) = NULL
    PROVE  key \notin Keys(h, L) /\ EndsAt(h, a, key)
  <1>1. key \in Int /\ h[a].value \in Int
    BY TreeTypes
  <1>2. EndsAt(h, a, key)
    BY <1>1 DEF EndsAt, Goes, ChildFor, Side
  <1>3. ASSUME NEW b \in L, h[b].value = key PROVE FALSE
    BY <1>2, <1>3, ValueAtEnd
  <1> QED
    BY <1>2, <1>3 DEF Keys

LEMMA ChildOrdered ==
    ASSUME Inv, Inv', ~Aborted, NEW t \in Thread, NEW R, Routed(R), NEW h, Midst(t, h),
           NEW a \in Live, NEW key, key = loc[t].work.key, key \in R[a], key # h[a].value,
           ChildFor(h, a, key) # NULL, LockChildOf(t, h, a)
    PROVE  Good(t)
  <1>1. PICK c : c = ChildFor(h, a, key)
    OBVIOUS
  <1> DEFINE l == [loc[t] EXCEPT !.root = a, !.next = c]
  <1>2. l.next = c /\ l.work = loc[t].work /\ loc[t].work.key = key
    BY LiveType DEF LocalState
  <1>3. Moves(t, "child", l) /\ node' = h /\ UNCHANGED <<g_root, freed>>
    BY <1>1 DEF LockChildOf, LockNext, Moves, Waiting
  <1> HIDE DEF l
  <1>4. key \in R[c]
    <2>1. Tree(R, h, g_root, Live)
      BY MidstTree
    <2>2. key \in Int /\ h[a].value \in Int
      BY <2>1, TreeTypes
    <2>3. PICK s \in Side : c = h[a][s] /\ key \in Goes(h, a, s)
      <3>1. CASE key < h[a].value
        BY <1>1, <2>2, <3>1 DEF ChildFor, Goes, Side
      <3>2. CASE h[a].value < key
        BY <1>1, <2>2, <3>2 DEF ChildFor, Goes, Side
      <3> QED
        BY <2>2, <3>1, <3>2
    <2> QED
      BY <1>1, <2>1, <2>3, TreeChild
  <1>5. OnWay(R, h, Live, "child", l)
    BY <1>2, <1>4 DEF OnWay, Removing
  <1>6. Ordered' /\ Keys(node', Live') = Keys(node, Live)
    BY <1>3, <1>5, QuietStep
  <1>7. pc'[t] = "child" /\ loc'[t] = l
    BY <1>3, MovesOne
  <1> QED
    BY <1>2, <1>6, <1>7 DEF Good, Outcome

LEMMA MidstKeys ==
    ASSUME Inv, NEW t, NEW h, Midst(t, h)
    PROVE  Keys(h, Live) = Keys(node, Live)
  BY DEF Midst, SameNode, Keys

LEMMA SearchOrdered ==
    ASSUME Inv, Inv', ~Aborted, NEW t \in Thread, NEW R, Routed(R), NEW h, Midst(t, h),
           NEW a \in Live, a \in DOMAIN h, LockIs(h, Unlocked(h, a), a, NoThread),
           loc[t].work.key \in R[a], loc[t].work.op = "SEARCH", Search(t, h, a)
    PROVE  Good(t)
  <1>1. PICK key : key = loc[t].work.key
    OBVIOUS
  <1>2. Tree(R, h, g_root, Live) /\ Keys(h, Live) = Keys(node, Live)
    BY MidstTree, MidstKeys
  <1>3. CASE key # h[a].value /\ ChildFor(h, a, key) # NULL
    BY <1>1, <1>3, ChildOrdered DEF Search
  <1>4. CASE ~(key # h[a].value /\ ChildFor(h, a, key) # NULL)
    <2>1. /\ node' = Unlocked(h, a) /\ UNCHANGED <<g_root, freed>>
          /\ Answer(t, key = h[a].value)
      BY <1>1, <1>4 DEF Search
    <2>2. Midst(t, node')
      BY <2>1, MidstUnlocked
    <2>3. (key = h[a].value) = (key \in Keys(node, Live))
      <3>1. CASE key = h[a].value
        BY <1>2, <3>1 DEF Keys
      <3>2. CASE key # h[a].value
        BY <1>1, <1>2, <1>4, <3>2, Absent
      <3> QED
        BY <3>1, <3>2
    <2>4. (key = h[a].value) \in BOOLEAN
      OBVIOUS
    <2> QED
      BY <1>1, <2>1, <2>2, <2>3, <2>4, AnswerQuiet
  <1> QED
    BY <1>3, <1>4

LEMMA InsertNewOrdered ==
    ASSUME Inv, Inv', ~Aborted, NEW t \in Thread, NEW R, Routed(R), NEW h, Midst(t, h),
           NEW a \in Live, NEW key, key = loc[t].work.key, key \in R[a], key # h[a].value,
           ChildFor(h, a, key) = NULL, loc[t].work.op = "INSERT",
           NEW side, side = IF key < h[a].value THEN "left" ELSE "right",
           node' = Append(Unlocked(WithChild(h, a, side, Len(h) + 1), a),
                          createNode(key, a)),
           Answer(t, TRUE), UNCHANGED <<g_root, freed>>
    PROVE  Good(t)
  <1>1. PICK n : n = Len(h) + 1
    OBVIOUS
  <1>2. /\ Tree(R, h, g_root, Live) /\ Keys(h, Live) = Keys(node, Live)
        /\ h \in Heap /\ Live \subseteq DOMAIN h /\ DOMAIN h = DOMAIN node
        /\ Len(h) = Len(node) /\ Len(h) \in Nat /\ DOMAIN h = 1 .. Len(h)
    BY MidstTree, MidstKeys, LiveType DEF Midst
  <1>3. key \in Int /\ h[a].value \in Int /\ side \in Side /\ key \in Goes(h, a, side)
    <2>1. key \in Int /\ h[a].value \in Int
      BY <1>2, TreeTypes
    <2> QED
      BY <2>1 DEF Goes, Side
  <1>4. ChildAdded(h, node', a, side, n, key)
    BY <1>1, <1>2, <1>3, ChildAppended
  <1>5. n \in Nat /\ n \notin DOMAIN h /\ \A c \in Live : c < n
    BY <1>1, <1>2
  <1>6. Live' = Live \cup {n}
    <2>1. freed' = freed /\ n \notin freed
      BY <1>2, <1>5 DEF Inv, TypeOK
    <2>2. DOMAIN node' = DOMAIN node \cup {n}
      BY <1>2, <1>4 DEF ChildAdded
    <2> QED
      BY <2>1, <2>2 DEF Live
  <1> DEFINE Q == Grown(R, h, Live, a, side, n)
  <1>7. Tree(Q, node', g_root', Live')
    <2>1. Shape(node', g_root, Live \cup {n})
      BY <1>6 DEF Inv
    <2>2. Tree(Q, node', g_root, Live \cup {n})
      BY <1>2, <1>3, <1>4, <1>5, <2>1, GrownTree
    <2> QED
      BY <1>6, <2>2
  <1>8. Kept(R, node, g_root, Live, Q, node', Live', t)
    <2>1. \A c \in Live : Q[c] = R[c]
      BY <1>2, <1>5 DEF Grown
    <2>2. ASSUME NEW c \in Live
          PROVE  /\ node'[c].value = node[c].value /\ node'[c].parent = node[c].parent
                 /\ node'[c].lock \in {node[c].lock, NoThread}
                    \/ Entered(node, g_root, Live, t, c)
      <3>1. /\ node'[c].value = h[c].value /\ node'[c].parent = h[c].parent
            /\ node'[c].lock \in {h[c].lock, NoThread}
        BY <1>2, <1>4 DEF ChildAdded
      <3> QED
        BY <3>1 DEF Midst, SameNode
    <2>3. node'[n].lock = NoThread
      BY <1>4 DEF ChildAdded
    <2> HIDE DEF Q
    <2> QED
      BY <1>6, <2>1, <2>2, <2>3 DEF Kept
  <1>9. PICK l : /\ Moves(t, "return", l) /\ l.answer = TRUE /\ l.work = loc[t].work
                 /\ \A P, g, L : OnWay(P, g, L, "return", l)
    BY AnswerMoves
  <1>10. Ordered'
    <2> HIDE DEF Q
    <2>1. OnWay(Q, node', Live', "return", l)
      BY <1>9
    <2> QED
      BY <1>7, <1>8, <1>9, <2>1, KeepStep
  <1>11. key \notin Keys(node, Live)
    BY <1>2, Absent
  <1>12. Keys(node', Live') = Keys(node, Live) \cup {key}
    <2>1. SameValues(h, node', Live) /\ node'[n].value = key
      BY <1>2, <1>4 DEF ChildAdded, SameValues
    <2>2. \A x : x \in Keys(node', Live') <=> x \in Keys(h, Live) \/ x = node'[n].value
      BY ONLY <1>6, <2>1, KeysGrown
    <2> QED
      BY <1>2, <2>1, <2>2
  <1>13. pc'[t] = "return" /\ loc'[t] = l
    BY <1>9, MovesOne
  <1> QED
    BY <1>9, <1>10, <1>11, <1>12, <1>13 DEF Good, Outcome

LEMMA InsertOrdered ==
    ASSUME Inv, Inv', ~Aborted, NEW t \in Thread, NEW R, Routed(R), NEW h, Midst(t, h),
           NEW a \in Live, loc[t].work.key \in R[a], loc[t].work.op = "INSERT",
           Insert(t, h, a)
    PROVE  Good(t)
  <1>1. PICK key : key = loc[t].work.key
    OBVIOUS
  <1>2. CASE key = h[a].value
    <2>1. node' = h /\ Goto(t, "abort") /\ UNCHANGED <<g_root, freed, loc>>
      BY <1>1, <1>2 DEF Insert
    <2>2. Moves(t, "abort", loc[t]) /\ OnWay(R, h, Live, "abort", loc[t])
      BY <2>1 DEF Moves, SetLocals, Inv, TypeOK, OnWay, Removing
    <2>3. Ordered' /\ Keys(node', Live') = Keys(node, Live)
      BY <2>1, <2>2, QuietStep
    <2>4. pc'[t] = "abort" /\ loc'[t] = loc[t]
      BY <2>2, MovesOne
    <2> QED
      BY <2>3, <2>4 DEF Good, Outcome
  <1>3. CASE key # h[a].value /\ ChildFor(h, a, key) # NULL
    BY <1>1, <1>3, ChildOrdered DEF Insert
  <1>4. CASE key # h[a].value /\ ChildFor(h, a, key) = NULL
    <2>1. PICK side : side = IF key < h[a].value THEN "left" ELSE "right"
      OBVIOUS
    <2>2. /\ node' = Append(Unlocked(WithChild(h, a, side, Len(h) + 1), a),
                            createNode(key, a))
          /\ Answer(t, TRUE) /\ UNCHANGED <<g_root, freed>>
      BY <1>1, <1>4, <2>1 DEF Insert, WithChild
    <2> QED
      BY <1>1, <1>4, <2>1, <2>2, InsertNewOrdered
  <1> QED
    BY <1>2, <1>3, <1>4

-----------------------------------------------------------------------------
(***************************************************************************)
(* del_search(), and remove() when the node d has been found.              *)
(***************************************************************************)
(* The leaf d goes. *)
LEMMA LeafOrdered ==
    ASSUME Inv, Inv', ~Aborted, NEW t \in Thread, NEW R, Routed(R), NEW h, Midst(t, h),
           NEW d \in Live, loc[t].work.key = h[d].value, loc[t].work.op = "DELETE",
           node' \in Heap, DOMAIN node' = DOMAIN h, NEW p,
           node' = h \/ \E place \in Side : ChildGone(h, node', p, place),
           g_root' \in {g_root, NULL}, freed' = freed \cup {d}, Answer(t, TRUE)
    PROVE  Good(t)
  <1>1. /\ Tree(R, h, g_root, Live) /\ Keys(h, Live) = Keys(node, Live)
        /\ Live \subseteq DOMAIN h /\ DOMAIN h = DOMAIN node
    BY MidstTree, MidstKeys, LiveType DEF Midst
  <1>2. \A c \in Live :
           /\ node'[c].value = h[c].value /\ node'[c].parent = h[c].parent
           /\ node'[c].lock \in {h[c].lock, NoThread}
           /\ \A s \in Side : node'[c][s] \in {h[c][s], NULL}
    BY <1>1 DEF ChildGone
  <1>3. Live' = Live \ {d} /\ Live \subseteq DOMAIN node'
    BY <1>1 DEF Live
  <1>4. Tree(R, node', g_root', Live')
    <2>1. Shape(node', g_root', Live \ {d})
      BY <1>3 DEF Inv
    <2>2. LeafCut(h, node', Live)
      BY <1>2, <1>3 DEF LeafCut
    <2>3. Tree(R, node', g_root', Live \ {d})
      <3>1. PICK k, r2 : k = node' /\ r2 = g_root'
        OBVIOUS
      <3>2. r2 = g_root \/ r2 = NULL
        BY <3>1
      <3>3. Tree(R, h, g_root, Live) /\ LeafCut(h, k, Live) /\ Shape(k, r2, Live \ {d})
        BY <1>1, <2>1, <2>2, <3>1
      <3>4. Tree(R, k, r2, Live \ {d})
        BY ONLY <3>2, <3>3, LeafGoneTree
      <3> QED
        BY <3>1, <3>4
    <2> QED
      BY <1>3, <2>3
  <1>5. Kept(R, node, g_root, Live, R, node', Live', t)
    <2>1. ASSUME NEW c \in Live
          PROVE  /\ node'[c].value = node[c].value /\ node'[c].parent = node[c].parent
                 /\ node'[c].lock \in {node[c].lock, NoThread}
                    \/ Entered(node, g_root, Live, t, c)
      BY <1>2 DEF Midst, SameNode
    <2> QED
      BY <1>3, <2>1 DEF Kept
  <1>6. PICK l : /\ Moves(t, "return", l) /\ l.answer = TRUE /\ l.work = loc[t].work
                 /\ \A P, g, L : OnWay(P, g, L, "return", l)
    BY AnswerMoves
  <1>7. Ordered'
    <2>1. OnWay(R, node', Live', "return", l)
      BY <1>6
    <2> QED
      BY <1>4, <1>5, <1>6, <2>1, KeepStep
  <1>8. loc[t].work.key \in Keys(node, Live)
    BY <1>1 DEF Keys
  <1>9. Keys(node', Live') = Keys(node, Live) \ {loc[t].work.key}
    <2>1. ValueGone(h, node', Live, d, d)
      BY <1>1, <1>2, OneValue DEF ValueGone
    <2>2. \A x : x \in Keys(node', Live') <=> x \in Keys(h, Live) /\ x # h[d].value
      BY ONLY <1>3, <2>1, KeysGone
    <2> QED
      BY <1>1, <2>2
  <1>10. pc'[t] = "return" /\ loc'[t] = l
    BY <1>6, MovesOne
  <1> QED
    BY <1>6, <1>7, <1>8, <1>9, <1>10 DEF Good, Outcome

(* d has a child, and remove() goes there. *)
LEMMA InnerOrdered ==
    ASSUME Inv, Inv', ~Aborted, NEW t \in Thread, NEW R, Routed(R), NEW h, Midst(t, h),
           NEW d \in Live, loc[t].work.key = h[d].value, loc[t].work.op = "DELETE",
           node' = h, UNCHANGED <<g_root, freed>>, NEW side \in Side, h[d][side] # NULL,
           NEW l, Moves(t, "side", l), l.work = loc[t].work, l.to_be_deleted = d,
           l.side = side, l.next = h[d][side]
    PROVE  Good(t)
  <1>1. Tree(R, h, g_root, Live)
    BY MidstTree
  <1>2. PICK x : x = h[d][side]
    OBVIOUS
  <1>3. Nearest(R, h, Live, d, side, x) /\ WayTo(R, h, Live, d, x) \subseteq {x}
    BY <1>1, <1>2, NearestSide
  <1>4. Clear(R, h, Live, d, x, d)
    BY <1>3 DEF Clear
  <1>5. Aim("side", l) = x /\ AboveAim(h, "side", l) = d
    BY <1>2 DEF Aim, AboveAim
  <1>6. OnWay(R, h, Live, "side", l)
    BY <1>3, <1>4, <1>5 DEF OnWay
  <1>7. Ordered' /\ Keys(node', Live') = Keys(node, Live)
    BY <1>6, QuietStep
  <1>8. pc'[t] = "side" /\ loc'[t] = l
    BY MovesOne
  <1> QED
    BY <1>7, <1>8 DEF Good, Outcome

(* The locks that remove() gives back. *)
Unlockable(h, p) == p = NULL \/ p \in DOMAIN h

LEMMA DeleteOrdered ==
    ASSUME Inv, Inv', ~Aborted, NEW t \in Thread, NEW R, Routed(R), NEW h, Midst(t, h),
           NEW d \in Live, Unlockable(h, h[d].parent),
           loc[t].work.key = h[d].value, loc[t].work.op = "DELETE", Delete(t, h, d)
    PROVE  Good(t)
  <1>1. PICK p : p = h[d].parent
    OBVIOUS
  <1>2. h \in Heap /\ d \in DOMAIN h /\ (p = NULL \/ p \in DOMAIN h)
    BY <1>1, LiveType DEF Midst, Unlockable
  <1>3. CASE ~(h[d].left = NULL /\ h[d].right = NULL)
    <2>1. PICK side : side = IF h[d].right # NULL THEN "right" ELSE "left"
      OBVIOUS
    <2>2. side \in Side /\ h[d][side] # NULL
      BY <1>3, <2>1 DEF Side
    <2> DEFINE l == [[Locals(loc[t].work) EXCEPT !.to_be_deleted = d, !.side = side]
                        EXCEPT !.next = h[d][side]]
    <2>3. /\ node' = ParentUnlocked(h, p) /\ UNCHANGED <<g_root, freed>>
          /\ Moves(t, "side", l)
      BY <1>1, <1>3, <2>1 DEF Delete, Waiting, LockNext, Moves
    <2>4. /\ l.work = loc[t].work /\ l.to_be_deleted = d /\ l.side = side
          /\ l.next = h[d][side]
      BY DEF Locals
    <2> HIDE DEF l
    <2>5. Midst(t, node') /\ node'[d][side] = h[d][side] /\ node'[d].value = h[d].value
      <3>1. CASE p = NULL
        BY <2>3, <3>1 DEF ParentUnlocked
      <3>2. CASE p # NULL
        <4>1. node' = Unlocked(h, p) /\ p \in DOMAIN h
          BY <1>2, <2>3, <3>2 DEF ParentUnlocked
        <4>2. LockIs(h, node', p, NoThread)
          BY <1>2, <4>1, UnlockSet
        <4>3. Midst(t, node')
          BY <4>2, MidstUnlocked
        <4> QED
          BY <1>2, <2>2, <4>2, <4>3 DEF LockIs
      <3> QED
        BY <3>1, <3>2
    <2>6. PICK k : k = node'
      OBVIOUS
    <2> QED
      BY <2>2, <2>3, <2>4, <2>5, <2>6, InnerOrdered
  <1>4. CASE h[d].left = NULL /\ h[d].right = NULL /\ p = NULL
    <2>1. node' = h /\ g_root' = NULL /\ freed' = freed \cup {d} /\ Answer(t, TRUE)
      BY <1>1, <1>4 DEF Delete
    <2> QED
      BY <1>2, <2>1, LeafOrdered
  <1>5. CASE h[d].left = NULL /\ h[d].right = NULL /\ p # NULL
    <2>1. PICK place : place = IF h[d].value < h[p].value THEN "left" ELSE "right"
      OBVIOUS
    <2>2. /\ node' = Unlocked(WithChild(h, p, place, NULL), p) /\ g_root' = g_root
          /\ freed' = freed \cup {d} /\ Answer(t, TRUE)
      BY <1>1, <1>5, <2>1 DEF Delete, WithChild
    <2>3. place \in Side /\ p \in DOMAIN h
      BY <1>2, <1>5, <2>1 DEF Side
    <2>4. ChildGone(h, node', p, place)
      BY <1>2, <2>2, <2>3, ChildCut
    <2>5. node' \in Heap /\ DOMAIN node' = DOMAIN h
      BY <2>4 DEF ChildGone
    <2> QED
      BY <2>2, <2>3, <2>4, <2>5, LeafOrdered
  <1> QED
    BY <1>3, <1>4, <1>5

LEMMA DelSearchOrdered ==
    ASSUME Inv, Inv', ~Aborted, NEW t \in Thread, NEW R, Routed(R), NEW h, Midst(t, h),
           NEW a \in Live, Unlockable(h, h[a].parent), loc[t].work.key \in R[a],
           loc[t].work.op = "DELETE", del_search(t, h, a)
    PROVE  Good(t)
  <1>1. PICK key : key = loc[t].work.key
    OBVIOUS
  <1>2. /\ Tree(R, h, g_root, Live) /\ Keys(h, Live) = Keys(node, Live)
        /\ h \in Heap /\ a \in DOMAIN h
    BY MidstTree, MidstKeys, LiveType DEF Midst
  <1>3. CASE key = h[a].value
    BY <1>1, <1>3, DeleteOrdered DEF del_search
  <1>4. CASE key # h[a].value /\ ChildFor(h, a, key) # NULL
    <2>1. LockChildOf(t, h, a)
      BY <1>1, <1>4 DEF del_search
    <2> QED
      BY <1>1, <1>4, <2>1, ChildOrdered
  <1>5. CASE key # h[a].value /\ ChildFor(h, a, key) = NULL
    <2>1. node' = Unlocked(h, a) /\ UNCHANGED <<g_root, freed>> /\ Answer(t, FALSE)
      BY <1>1, <1>5 DEF del_search
    <2>2. LockIs(h, node', a, NoThread)
      BY <1>2, <2>1, UnlockSet
    <2>3. Midst(t, node')
      BY <2>2, MidstUnlocked
    <2>4. key \notin Keys(node, Live)
      BY <1>1, <1>2, <1>5, Absent
    <2> QED
      BY <1>1, <2>1, <2>3, <2>4, AnswerQuiet
  <1> QED
    BY <1>3, <1>4, <1>5
-----------------------------------------------------------------------------
(***************************************************************************)
(* remove() when the successor s has been found: it and its parent p are   *)
(* locked.                                                                 *)
(***************************************************************************)
(* The others are on their way in the midst of a step, too. *)
LEMMA OthersMidst ==
    ASSUME Inv, ~Aborted, NEW t \in Thread, NEW R, Routed(R), NEW h, Midst(t, h),
           NEW M, Ready(t, h, M), NEW u \in Thread \ {t}
    PROVE  /\ Stands(h, g_root, Live, u, pc[u], loc[u])
           /\ OnWay(R, h, Live, pc[u], loc[u])
  <1>1. pc[u] # "abort" /\ u # t /\ t # NoThread
    BY ThreadAssumption DEF Aborted
  <1>2. Stands(node, g_root, Live, u, pc[u], loc[u]) /\ OnWay(R, node, Live, pc[u], loc[u])
    BY <1>1, StandsNow DEF Routed
  <1>3. Tree(R, node, g_root, Live) /\ Tree(R, h, g_root, Live) /\ 0 \notin Live
    BY MidstTree, LiveType DEF Routed
  <1>4. Mine(h, Live, u) = HeldAt(h, pc[u], loc[u]) /\ OnPath(h, g_root, pc[u], loc[u])
    <2>1. /\ Mine(node, Live, u) = HeldAt(node, pc[u], loc[u])
          /\ OnPath(node, g_root, pc[u], loc[u])
          /\ pc[u] \in Label /\ loc[u] \in LocalState
      BY <1>2 DEF Stands
    <2>2. Shape(h, g_root, Live) /\ Untouched(node, Live, h, Live, t)
      BY DEF Ready
    <2> QED
      BY <1>1, <1>3, <2>1, <2>2, OtherThread
  <1>5. Stands(h, g_root, Live, u, pc[u], loc[u])
    BY <1>2, <1>4 DEF Stands
  <1>6. Kept(R, node, g_root, Live, R, h, Live, t)
    BY DEF Kept, Midst, SameNode
  <1>7. OnWay(R, h, Live, pc[u], loc[u])
    BY <1>1, <1>2, <1>3, <1>5, <1>6, WayKept
  <1> QED
    BY <1>5, <1>7

(* t has the successor of to_be_deleted and its parent. *)
Caught(R, h, t, s, p) ==
    LET l == loc[t]
        d == l.to_be_deleted
    IN  /\ Ready(t, h, {d, p, s})
        /\ Successor(R, h, Live, d, l.side, s, p) /\ Clear(R, h, Live, d, s, p)
        /\ l.work.op = "DELETE" /\ l.work.key = h[d].value

LEMMA SuccessorOrdered ==
    ASSUME Inv, Inv', ~Aborted, NEW t \in Thread, NEW R, Routed(R), NEW h, Midst(t, h),
           NEW s, NEW p, Caught(R, h, t, s, p), NEW d, d = loc[t].to_be_deleted,
           NEW side, side = loc[t].side,
           node' = Unlocked(Unlocked(Replaced(h, d, s, p, side), p), d),
           freed' = freed \cup {s}, g_root' = g_root, Answer(t, TRUE)
    PROVE  Good(t)
  <1>1. /\ Ready(t, h, {d, p, s}) /\ Successor(R, h, Live, d, side, s, p)
        /\ Clear(R, h, Live, d, s, p)
        /\ loc[t].work.op = "DELETE" /\ loc[t].work.key = h[d].value
    BY DEF Caught
  <1>2. /\ Tree(R, h, g_root, Live) /\ Keys(h, Live) = Keys(node, Live) /\ h \in Heap
        /\ Live \subseteq DOMAIN h /\ DOMAIN h = DOMAIN node
    BY MidstTree, MidstKeys, LiveType DEF Midst
  <1>3. /\ {d, s, p} \subseteq Live /\ \A a \in {d, s, p} : h[a].lock = t
        /\ side \in Side /\ s # d
    BY <1>1, <1>2, ReadyFacts, OtherValues DEF Successor
  <1>4. PICK o : o = h[s][side]
    OBVIOUS
  <1>5. o = NULL \/ o \in DOMAIN h
    BY <1>2, <1>3, <1>4, TreeChild
  <1>6. SuccessorGone(h, node', d, s, p, Place(p, d, side), o)
    BY <1>2, <1>3, <1>4, <1>5, ReplacedHeap
  <1>7. ReplacedBy(h, node', Live, d, s, p, side)
    <2>1. \A b \in Live : node'[b].lock \in {h[b].lock, NoThread}
      BY <1>2, <1>6 DEF SuccessorGone
    <2> QED
      BY <1>2, <1>4, <1>6, <2>1 DEF SuccessorGone, ReplacedBy
  <1>8. Live' = Live \ {s}
    BY <1>2, <1>3, <1>6 DEF Live, SuccessorGone
  <1>9. PICK Q : Q = Rerouted(R, Live \ {s}, side, h[d].value, h[s].value)
    OBVIOUS
  <1>10. PICK k : k = node'
    OBVIOUS
  <1>11. Tree(Q, k, g_root, Live \ {s})
    <2>1. Shape(k, g_root, Live \ {s}) /\ ReplacedBy(h, k, Live, d, s, p, side)
      BY <1>7, <1>8, <1>10 DEF Inv
    <2> QED
      BY ONLY <1>1, <1>2, <1>9, <2>1, ReroutedTree
  <1>12. OthersOn(Q, node', g_root', Live', t)
    <2> SUFFICES ASSUME NEW u \in Thread \ {t},
                        Stands(node', g_root', Live', u, pc[u], loc[u])
                 PROVE  OnWay(Q, node', Live', pc[u], loc[u])
      BY DEF OthersOn
    <2>1. PICK at, l : at = pc[u] /\ l = loc[u]
      OBVIOUS
    <2>2. u # t /\ u # NoThread /\ ReplacedBy(h, k, Live, d, s, p, side)
      BY <1>7, <1>10, ThreadAssumption
    <2>3. Stands(h, g_root, Live, u, at, l) /\ OnWay(R, h, Live, at, l)
      BY <1>1, <2>1, OthersMidst
    <2>4. Stands(k, g_root, Live \ {s}, u, at, l)
      BY <1>8, <1>10, <2>1
    <2>5. MovedBy(t, R, h, Live, d, side, s, p, k, Q)
      BY <1>1, <1>3, <1>9, <2>2 DEF MovedBy
    <2>6. OnWay(Q, k, Live \ {s}, at, l)
      BY ONLY <1>2, <1>11, <2>2, <2>3, <2>4, <2>5, ReroutedWay
    <2> QED
      BY <1>8, <1>10, <2>1, <2>6
  <1>13. PICK l : /\ Moves(t, "return", l) /\ l.answer = TRUE /\ l.work = loc[t].work
                  /\ \A P, g, L : OnWay(P, g, L, "return", l)
    BY AnswerMoves
  <1>14. Ordered'
    <2>1. OnWay(Q, node', Live', "return", l) /\ Tree(Q, node', g_root', Live')
      BY <1>8, <1>10, <1>11, <1>13
    <2> QED
      BY <1>12, <1>13, <2>1, OrderStep
  <1>15. loc[t].work.key \in Keys(node, Live)
    BY <1>1, <1>2, <1>3 DEF Keys
  <1>16. Keys(node', Live') = Keys(node, Live) \ {loc[t].work.key}
    <2>1. \A c \in Live : h[c].value = h[d].value => c = d
      BY <1>2, <1>3, OneValue
    <2>2. ValueGone(h, node', Live, d, s)
      BY <1>3, <1>7, <2>1 DEF ValueGone, ReplacedBy
    <2>3. \A x : x \in Keys(node', Live') <=> x \in Keys(h, Live) /\ x # h[d].value
      BY ONLY <1>8, <2>2, KeysGone
    <2> QED
      BY <1>1, <1>2, <2>3
  <1>17. pc'[t] = "return" /\ loc'[t] = l
    BY <1>13, MovesOne
  <1> QED
    BY <1>1, <1>13, <1>14, <1>15, <1>16, <1>17 DEF Good, Outcome

LEMMA ReplaceOrdered ==
    ASSUME Inv, Inv', ~Aborted, NEW t \in Thread, NEW R, Routed(R), NEW h, Midst(t, h),
           NEW s, NEW p, Caught(R, h, t, s, p), Replace(t, h, s, p), g_root' = g_root
    PROVE  Good(t)
  <1>1. PICK d, side, o : d = loc[t].to_be_deleted /\ side = loc[t].side /\ o = h[s][side]
    OBVIOUS
  <1>2. CASE o = NULL
    <2>1. /\ node' = Unlocked(Unlocked(Replaced(h, d, s, p, side), p), d)
          /\ freed' = freed \cup {s} /\ Answer(t, TRUE)
      BY <1>1, <1>2 DEF Replace
    <2> QED
      BY <1>1, <2>1, SuccessorOrdered
  <1>3. CASE o # NULL
    <2> DEFINE l == [[loc[t] EXCEPT !.successor = s, !.parent = p] EXCEPT !.next = o]
    <2>1. /\ node' = h /\ UNCHANGED <<g_root, freed>> /\ Moves(t, "orphan", l)
      BY <1>1, <1>3 DEF Replace, LockNext, Moves
    <2>2. /\ l.work = loc[t].work /\ l.to_be_deleted = d /\ l.side = side
          /\ l.successor = s /\ l.parent = p
      BY <1>1, LiveType DEF LocalState
    <2> HIDE DEF l
    <2>3. Aim("orphan", l) = s /\ AboveAim(h, "orphan", l) = p
      BY <2>2 DEF Aim, AboveAim
    <2>4. OnWay(R, h, Live, "orphan", l)
      BY <1>1, <2>2, <2>3 DEF OnWay, Caught, Successor
    <2>5. Ordered' /\ Keys(node', Live') = Keys(node, Live)
      BY <2>1, <2>4, QuietStep
    <2>6. pc'[t] = "orphan" /\ loc'[t] = l
      BY <2>1, MovesOne
    <2> QED
      BY <2>2, <2>5, <2>6 DEF Good, Outcome
  <1> QED
    BY <1>2, <1>3
-----------------------------------------------------------------------------
(***************************************************************************)
(* The steps of a call.                                                    *)
(***************************************************************************)
(* From h to k locks are given back. *)
GaveBack(h, k, L) ==
    \A c \in L : k[c].value = h[c].value /\ k[c].lock \in {h[c].lock, NoThread}

(* remove() goes on to the inner child of s, and leaves p. *)
LEMMA GoesOn ==
    ASSUME NEW R, NEW h, NEW r, NEW L, Tree(R, h, r, L), NEW d, NEW side \in Side, NEW s,
           Nearest(R, h, L, d, side, s), NEW p, Clear(R, h, L, d, s, p),
           NEW y, y = h[s][Opposite(side)], y # NULL, NEW k, GaveBack(h, k, L),
           p = d \/ k[p].lock = NoThread
    PROVE  Nearest(R, k, L, d, side, y) /\ Clear(R, k, L, d, y, s)
  <1>1. /\ Nearest(R, h, L, d, side, y)
        /\ WayTo(R, h, L, d, y) \subseteq WayTo(R, h, L, d, s) \cup {y}
    BY NearestNext
  <1>2. d \in L /\ y \in L
    BY <1>1 DEF Nearest
  <1>3. Nearest(R, k, L, d, side, y)
    BY <1>1, <1>2 DEF Nearest, GaveBack
  <1>4. ASSUME NEW a \in WayTo(R, k, L, d, y) \ {y, s} PROVE k[a].lock = NoThread
    <2>1. a \in L /\ a \in WayTo(R, h, L, d, y)
      BY <1>2 DEF WayTo, GaveBack
    <2>2. a \in WayTo(R, h, L, d, s) /\ a # s
      BY <1>1, <2>1
    <2>3. a # d
      BY <2>1, TreeTypes DEF WayTo
    <2>4. CASE a = p
      BY <2>3, <2>4
    <2>5. CASE a # p
      <3>1. h[a].lock = NoThread
        BY <2>2, <2>5 DEF Clear
      <3> QED
        BY <2>1, <3>1 DEF GaveBack
    <2> QED
      BY <2>4, <2>5
  <1> QED
    BY <1>3, <1>4 DEF Clear

(* The lock of s itself makes no difference to the way to s. *)
LEMMA SameWay ==
    ASSUME NEW R, NEW L, NEW h, L \subseteq DOMAIN h, NEW k, NEW s, NEW t,
           LockIs(h, k, s, t), NEW d, NEW side, Nearest(R, h, L, d, side, s),
           NEW p, Clear(R, h, L, d, s, p)
    PROVE  Nearest(R, k, L, d, side, s) /\ Clear(R, k, L, d, s, p)
  <1>1. /\ d \in L /\ s \in L /\ \A c \in L : k[c].value = h[c].value
        /\ \A c \in L \ {s} : k[c].lock = h[c].lock
    BY DEF Nearest, LockIs
  <1>2. Nearest(R, k, L, d, side, s)
    BY <1>1 DEF Nearest
  <1>3. WayTo(R, k, L, d, s) = WayTo(R, h, L, d, s) /\ WayTo(R, h, L, d, s) \subseteq L
    BY <1>1 DEF WayTo
  <1>4. Clear(R, k, L, d, s, p)
    BY <1>1, <1>3 DEF Clear
  <1> QED
    BY <1>2, <1>4

LEMMA GaveNothing ==
    ASSUME NEW h, NEW L
    PROVE  GaveBack(h, h, L)
  BY DEF GaveBack

LEMMA GaveOne ==
    ASSUME NEW h, NEW L, L \subseteq DOMAIN h, NEW k, NEW a, LockIs(h, k, a, NoThread)
    PROVE  GaveBack(h, k, L)
  BY DEF GaveBack, LockIs

LEMMA LockSideOrdered ==
    ASSUME Inv, Inv', ~Aborted, NEW t \in Thread, NEW R, Routed(R), LockSide(t)
    PROVE  Good(t)
  <1>1. PICK s, d, side : s = loc[t].next /\ d = loc[t].to_be_deleted /\ side = loc[t].side
    OBVIOUS
  <1>2. PICK h : h = Locked(node, s, t)
    OBVIOUS
  <1>3. /\ side \in Side /\ Opposite(side) \in Side
        /\ d \in Live /\ s \in Live /\ s # d /\ node[d].lock = t /\ node[d][side] = s
        /\ Ready(t, h, {d, s}) /\ LockIs(node, h, s, t)
    BY <1>1, <1>2, SideReached
  <1>4. Midst(t, h)
    <2>1. Entered(node, g_root, Live, t, s)
      BY <1>3 DEF Entered
    <2> QED
      BY <1>3, <2>1, MidstLocked
  <1>5. /\ Tree(R, h, g_root, Live) /\ Live \subseteq DOMAIN node
        /\ h[d][side] = s /\ h[d].value = node[d].value
    BY <1>3, <1>4, MidstTree, LiveType
  <1>6. /\ loc[t].work.op = "DELETE" /\ loc[t].work.key = h[d].value
        /\ Nearest(R, node, Live, d, side, s) /\ Clear(R, node, Live, d, s, d)
    <2>1. OnWay(R, node, Live, "side", loc[t])
      BY DEF Routed, LockSide
    <2> QED
      BY <1>1, <1>5, <2>1 DEF OnWay, Removing, Aim, AboveAim
  <1>7. Nearest(R, h, Live, d, side, s) /\ Clear(R, h, Live, d, s, d)
    BY <1>3, <1>5, <1>6, SameWay
  <1>8. g_root' = g_root
    BY DEF LockSide
  <1>9. CASE h[s][Opposite(side)] = NULL
    <2>1. Replace(t, h, s, d)
      BY <1>1, <1>2, <1>9 DEF LockSide, Inner
    <2>2. Successor(R, h, Live, d, side, s, d)
      BY <1>3, <1>5, <1>7, <1>9 DEF Successor, Place
    <2>3. {d, d, s} = {d, s}
      OBVIOUS
    <2>4. Caught(R, h, t, s, d)
      BY <1>1, <1>3, <1>6, <1>7, <2>2, <2>3 DEF Caught
    <2> QED
      BY <1>4, <1>8, <2>1, <2>4, ReplaceOrdered
  <1>10. CASE h[s][Opposite(side)] # NULL
    <2>1. PICK y : y = h[s][Opposite(side)]
      OBVIOUS
    <2> DEFINE l == [[loc[t] EXCEPT !.parent = s] EXCEPT !.next = y]
    <2>2. /\ node' = h /\ UNCHANGED <<g_root, freed>> /\ Moves(t, "first", l)
      BY <1>1, <1>2, <1>8, <1>10, <2>1 DEF LockSide, Inner, Waiting, LockNext, Moves
    <2>3. /\ l.work = loc[t].work /\ l.parent = s /\ l.next = y
          /\ l.to_be_deleted = d /\ l.side = side
      BY <1>1, LiveType DEF LocalState
    <2> HIDE DEF l
    <2>4. Nearest(R, h, Live, d, side, y) /\ Clear(R, h, Live, d, y, s)
      BY <1>3, <1>5, <1>7, <1>10, <2>1, GoesOn, GaveNothing
    <2>5. OnWay(R, h, Live, "first", l)
      BY <1>6, <2>3, <2>4 DEF OnWay, Aim, AboveAim
    <2>6. Ordered' /\ Keys(node', Live') = Keys(node, Live)
      BY <1>4, <2>2, <2>5, QuietStep
    <2>7. pc'[t] = "first" /\ loc'[t] = l
      BY <2>2, MovesOne
    <2> QED
      BY <2>3, <2>6, <2>7 DEF Good, Outcome
  <1> QED
    BY <1>9, <1>10

LEMMA LockSuccessorOrdered ==
    ASSUME Inv, Inv', ~Aborted, NEW t \in Thread, NEW R, Routed(R), LockSuccessor(t)
    PROVE  Good(t)
  <1>1. PICK s, d, side : s = loc[t].next /\ d = loc[t].to_be_deleted /\ side = loc[t].side
    OBVIOUS
  <1>2. PICK h, q : h = Locked(node, s, t) /\ q = Above(t)
    OBVIOUS
  <1>3. /\ side \in Side /\ Opposite(side) \in Side
        /\ d \in Live /\ q \in Live /\ s \in Live /\ s # d /\ s # q /\ q # d
        /\ node[q].lock = t /\ node[q][Opposite(side)] = s
        /\ Ready(t, h, {d, q, s}) /\ LockIs(node, h, s, t)
        /\ h[q][Opposite(side)] = s /\ h[s].parent = q
    BY <1>1, <1>2, SuccessorReached
  <1>4. Midst(t, h)
    <2>1. Entered(node, g_root, Live, t, s)
      BY <1>3 DEF Entered
    <2> QED
      BY <1>3, <2>1, MidstLocked
  <1>5. /\ Tree(R, h, g_root, Live) /\ Live \subseteq DOMAIN node
        /\ h[d].value = node[d].value
    BY <1>3, <1>4, MidstTree, LiveType
  <1>6. /\ loc[t].work.op = "DELETE" /\ loc[t].work.key = h[d].value
        /\ Nearest(R, node, Live, d, side, s) /\ Clear(R, node, Live, d, s, q)
    <2>1. OnWay(R, node, Live, pc[t], loc[t]) /\ pc[t] \in {"first", "successor"}
      BY DEF Routed, LockSuccessor
    <2>2. AboveAim(node, pc[t], loc[t]) = q /\ Aim(pc[t], loc[t]) = s
      BY <1>1, <1>2, <2>1 DEF AboveAim, Above, Aim
    <2> QED
      BY <1>1, <1>5, <2>1, <2>2 DEF OnWay, Removing
  <1>7. Nearest(R, h, Live, d, side, s) /\ Clear(R, h, Live, d, s, q)
    BY <1>3, <1>5, <1>6, SameWay
  <1>8. g_root' = g_root
    BY DEF LockSuccessor
  <1>9. CASE h[s][Opposite(side)] = NULL
    <2>1. Replace(t, h, s, q)
      BY <1>1, <1>2, <1>3, <1>9 DEF LockSuccessor, Inner
    <2>2. Successor(R, h, Live, d, side, s, q)
      BY <1>3, <1>7, <1>9 DEF Successor, Place
    <2>3. Caught(R, h, t, s, q)
      BY <1>1, <1>3, <1>6, <1>7, <2>2 DEF Caught
    <2> QED
      BY <1>4, <1>8, <2>1, <2>3, ReplaceOrdered
  <1>10. CASE h[s][Opposite(side)] # NULL
    <2>1. PICK y, k : y = h[s][Opposite(side)] /\ k = Unlocked(h, q)
      OBVIOUS
    <2> DEFINE l == [[loc[t] EXCEPT !.parent = NULL] EXCEPT !.next = y]
    <2>2. /\ node' = k /\ UNCHANGED <<g_root, freed>> /\ Moves(t, "successor", l)
      BY <1>1, <1>2, <1>3, <1>8, <1>10, <2>1
         DEF LockSuccessor, Inner, Waiting, LockNext, Moves, Above
    <2>3. /\ l.work = loc[t].work /\ l.next = y /\ l.to_be_deleted = d /\ l.side = side
      BY <1>1, LiveType DEF LocalState
    <2> HIDE DEF l
    <2>4. h \in Heap /\ Live \subseteq DOMAIN h
      BY <1>4, <1>5 DEF Midst
    <2>5. LockIs(h, k, q, NoThread)
      BY <1>3, <2>1, <2>4, UnlockSet
    <2>6. Midst(t, k)
      BY <1>4, <2>5, MidstUnlocked
    <2>7. GaveBack(h, k, Live) /\ k[q].lock = NoThread /\ k[s][Opposite(side)] = y
      <3>1. GaveBack(h, k, Live)
        BY <2>4, <2>5, GaveOne
      <3> QED
        BY <1>3, <2>1, <2>4, <2>5, <3>1 DEF LockIs
    <2>8. Nearest(R, k, Live, d, side, y) /\ Clear(R, k, Live, d, y, s)
      BY <1>3, <1>5, <1>7, <1>10, <2>1, <2>7, GoesOn
    <2>9. k[y].parent = s /\ k[d].value = h[d].value
      <3>1. Tree(R, k, g_root, Live)
        BY <2>6, MidstTree
      <3> QED
        BY <1>3, <1>10, <2>1, <2>7, <3>1, TreeChild DEF GaveBack
    <2>10. OnWay(R, k, Live, "successor", l)
      BY <1>6, <2>3, <2>8, <2>9 DEF OnWay, Aim, AboveAim
    <2>11. Ordered' /\ Keys(node', Live') = Keys(node, Live)
      BY <2>2, <2>6, <2>10, QuietStep
    <2>12. pc'[t] = "successor" /\ loc'[t] = l
      BY <2>2, MovesOne
    <2> QED
      BY <2>3, <2>11, <2>12 DEF Good, Outcome
  <1> QED
    BY <1>9, <1>10

LEMMA LockOrphanOrdered ==
    ASSUME Inv, Inv', ~Aborted, NEW t \in Thread, NEW R, Routed(R), LockOrphan(t)
    PROVE  Good(t)
  <1>1. PICK s, d, p, side :
           /\ s = loc[t].successor /\ d = loc[t].to_be_deleted
           /\ p = loc[t].parent /\ side = loc[t].side
    OBVIOUS
  <1>2. /\ side \in Side /\ Found(node, d, s, p, side) /\ Ready(t, node, {d, p, s})
    BY <1>1, OrphanReached
  <1>3. p \in Live /\ Midst(t, node)
    BY <1>2, ReadyFacts, MidstNow
  <1>4. /\ loc[t].work.op = "DELETE" /\ loc[t].work.key = node[d].value
        /\ Nearest(R, node, Live, d, side, s) /\ Clear(R, node, Live, d, s, p)
    <2>1. OnWay(R, node, Live, "orphan", loc[t])
      BY DEF Routed, LockOrphan
    <2> QED
      BY <1>1, <2>1 DEF OnWay, Removing, Aim, AboveAim
  <1>5. Successor(R, node, Live, d, side, s, p)
    BY <1>2, <1>3, <1>4 DEF Successor, Found
  <1>6. Caught(R, node, t, s, p)
    BY <1>1, <1>2, <1>4, <1>5 DEF Caught
  <1>7. /\ node' = Unlocked(Unlocked(Replaced(node, d, s, p, side), p), d)
        /\ freed' = freed \cup {s} /\ g_root' = g_root /\ Answer(t, TRUE)
    BY <1>1 DEF LockOrphan
  <1> QED
    BY <1>1, <1>3, <1>6, <1>7, SuccessorOrdered
(* A call starts at the root. *)
LEMMA LockRootOrdered ==
    ASSUME Inv, Inv', ~Aborted, NEW t \in Thread, NEW R, Routed(R), LockRoot(t)
    PROVE  Good(t)
  <1>1. PICK h : h = Locked(node, g_root, t)
    OBVIOUS
  <1>2. /\ g_root \in Live /\ loc[t].next = g_root /\ LockIs(node, h, g_root, t)
        /\ ParentLocked(t, h, g_root)
    BY <1>1, RootReached
  <1>3. Midst(t, h)
    <2>1. Entered(node, g_root, Live, t, g_root)
      BY DEF Entered
    <2> QED
      BY <1>2, <2>1, MidstLocked
  <1>4. /\ Tree(R, h, g_root, Live) /\ h \in Heap /\ g_root \in DOMAIN h
        /\ h[g_root].parent = NULL
    <2>1. Tree(R, h, g_root, Live) /\ h \in Heap /\ g_root \in DOMAIN h
      BY <1>2, <1>3, MidstTree, LiveType DEF Midst
    <2>2. g_root # NULL
      BY <1>2, LiveType DEF NULL
    <2> QED
      BY <2>1, <2>2 DEF Tree, Shape, RootOK
  <1>5. loc[t].work.key \in R[g_root]
    <2>1. loc[t].work.key \in Int
      BY LiveType DEF LocalState, Work
    <2>2. R[g_root] = Int
      BY <1>2, <1>4, RootFirst
    <2> QED
      BY <2>1, <2>2
  <1>6. CASE loc[t].work.op = "SEARCH" /\ Search(t, h, g_root)
    <2>1. LockIs(h, Unlocked(h, g_root), g_root, NoThread)
      BY <1>4, UnlockSet
    <2> QED
      BY <1>2, <1>3, <1>4, <1>5, <1>6, <2>1, SearchOrdered
  <1>7. CASE loc[t].work.op = "INSERT" /\ Insert(t, h, g_root)
    BY <1>2, <1>3, <1>5, <1>7, InsertOrdered
  <1>8. CASE loc[t].work.op = "DELETE" /\ del_search(t, h, g_root)
    <2>1. Unlockable(h, h[g_root].parent)
      BY <1>4 DEF Unlockable
    <2> QED
      BY <1>2, <1>3, <1>5, <1>8, <2>1, DelSearchOrdered
  <1> QED
    BY <1>1, <1>2, <1>6, <1>7, <1>8 DEF LockRoot

LEMMA LockChildOrdered ==
    ASSUME Inv, Inv', ~Aborted, NEW t \in Thread, NEW R, Routed(R), LockChild(t)
    PROVE  Good(t)
  <1>1. PICK s, a, key : s = loc[t].next /\ a = loc[t].root /\ key = loc[t].work.key
    OBVIOUS
  <1>2. PICK h, k : h = Locked(node, s, t) /\ k = Unlocked(h, a)
    OBVIOUS
  <1>3. ChildLocked(t, s, a, key, h, k)
    BY <1>1, <1>2, ChildReached
  <1>4. PICK z \in Side : node[a][z] = s
    BY <1>3 DEF ChildLocked
  <1>5. /\ a \in Live /\ s \in Live /\ node[a].lock = t
        /\ LockIs(node, h, s, t) /\ LockIs(h, k, a, NoThread) /\ k[s].value = h[s].value
    BY <1>3 DEF ChildLocked
  <1>6. Midst(t, h) /\ Midst(t, k)
    <2>1. Entered(node, g_root, Live, t, s)
      BY <1>4, <1>5 DEF Entered
    <2>2. Midst(t, h)
      BY <1>5, <2>1, MidstLocked
    <2>3. Midst(t, k)
      BY <1>5, <2>2, MidstUnlocked
    <2> QED
      BY <2>2, <2>3
  <1>7. /\ h \in Heap /\ k \in Heap /\ s \in DOMAIN k /\ s \in DOMAIN h
        /\ a \in DOMAIN h /\ a \in DOMAIN k
    BY <1>5, <1>6, LiveType DEF Midst
  <1>8. Unlockable(h, h[s].parent) /\ Unlockable(k, k[s].parent)
    <2>1. Tree(R, node, g_root, Live) /\ s # NULL
      BY <1>5, LiveType DEF Routed, NULL
    <2>2. node[s].parent = a
      BY <1>4, <1>5, <2>1, TreeChild
    <2>3. h[s].parent = a /\ k[s].parent = a
      BY <1>5, <1>7, <2>2 DEF LockIs
    <2> QED
      BY <1>7, <2>3 DEF Unlockable
  <1>9. key \in R[s]
    <2>1. OnWay(R, node, Live, "child", loc[t])
      BY DEF Routed, LockChild
    <2> QED
      BY <1>1, <2>1 DEF OnWay
  <1>10. CASE loc[t].work.op = "SEARCH" /\ Search(t, k, s)
    <2>1. LockIs(k, Unlocked(k, s), s, NoThread)
      BY <1>7, UnlockSet
    <2> QED
      BY <1>1, <1>5, <1>6, <1>7, <1>9, <1>10, <2>1, SearchOrdered
  <1>11. CASE loc[t].work.op = "INSERT" /\ Insert(t, k, s)
    BY <1>1, <1>5, <1>6, <1>9, <1>11, InsertOrdered
  <1>12. CASE loc[t].work.op = "DELETE" /\ del_search(t, h, s)
    BY <1>1, <1>5, <1>6, <1>8, <1>9, <1>12, DelSearchOrdered
  <1>13. CASE loc[t].work.op = "DELETE" /\ del_search(t, k, s)
    BY <1>1, <1>5, <1>6, <1>8, <1>9, <1>13, DelSearchOrdered
  <1> QED
    BY <1>1, <1>2, <1>10, <1>11, <1>12, <1>13 DEF LockChild

(* The first node of the tree. *)
LEMMA FirstOrdered ==
    ASSUME Inv, Inv', ~Aborted, NEW t \in Thread, NEW R, Routed(R), g_root = NULL,
           loc[t].work.op = "INSERT", NEW key, key = loc[t].work.key,
           node' = Append(node, createNode(key, NULL)), g_root' = Len(node'),
           Answer(t, TRUE), UNCHANGED freed
    PROVE  Good(t)
  <1>1. PICK new, n : new = Len(node) + 1 /\ n = createNode(key, NULL)
    OBVIOUS
  <1>2. key \in Int
    BY LiveType DEF LocalState, Work
  <1>3. n \in FG_BST_Node /\ n.value = key /\ n.lock = NoThread /\ \A s \in Side : n[s] = NULL
    BY <1>1, <1>2 DEF createNode, FG_BST_Node, NULL, Side
  <1>4. NodeAdded(node, node', n)
    BY <1>1, <1>3, LiveType, AppendNode
  <1>5. /\ node' \in Heap /\ g_root' = new /\ new # NULL /\ new \in Nat
        /\ DOMAIN node' = DOMAIN node \cup {new} /\ new \notin DOMAIN node /\ node'[new] = n
    BY <1>1, <1>4, LiveType DEF NodeAdded, NULL
  <1>6. Live' = Live \cup {new}
    <2>1. new \notin freed
      BY <1>5, LiveType DEF Inv, TypeOK
    <2> QED
      BY <1>5, <2>1 DEF Live
  <1> DEFINE Q == [c \in {new} |-> Int]
  <1>7. Live = {} /\ Tree(Q, node', g_root', Live')
    <2>1. Tree(R, node, NULL, Live) /\ Shape(node', new, Live \cup {new})
      BY <1>5, <1>6 DEF Routed, Inv
    <2>2. IsFirst(node', new, Live)
      BY <1>2, <1>3, <1>5, LiveType DEF IsFirst
    <2>3. Live = {} /\ Tree(Q, node', new, Live \cup {new})
      BY <2>1, <2>2, FirstTree
    <2> QED
      BY <1>5, <1>6, <2>3
  <1>8. Kept(R, node, g_root, Live, Q, node', Live', t)
    BY <1>3, <1>5, <1>6, <1>7 DEF Kept
  <1>9. PICK l : /\ Moves(t, "return", l) /\ l.answer = TRUE /\ l.work = loc[t].work
                 /\ \A P, g, L : OnWay(P, g, L, "return", l)
    BY AnswerMoves
  <1>10. Ordered'
    <2> HIDE DEF Q
    <2>1. OnWay(Q, node', Live', "return", l)
      BY <1>9
    <2> QED
      BY <1>7, <1>8, <1>9, <2>1, KeepStep
  <1>11. Keys(node, Live) = {} /\ Keys(node', Live') = {key}
    BY <1>3, <1>5, <1>6, <1>7 DEF Keys
  <1>12. pc'[t] = "return" /\ loc'[t] = l
    BY <1>9, MovesOne
  <1> QED
    BY <1>9, <1>10, <1>11, <1>12 DEF Good, Outcome

LEMMA LockTreeOrdered ==
    ASSUME Inv, Inv', ~Aborted, NEW t \in Thread, NEW R, Routed(R), LockTree(t)
    PROVE  Good(t)
  <1>1. Midst(t, node)
    BY MidstNow
  <1>2. CASE g_root # NULL
    <2> DEFINE l == [loc[t] EXCEPT !.next = g_root]
    <2>1. UNCHANGED <<node, g_root, freed>> /\ Moves(t, "root", l)
      BY <1>2 DEF LockTree, LockNext, Moves
    <2>2. l.work = loc[t].work
      BY LiveType DEF LocalState
    <2> HIDE DEF l
    <2>3. OnWay(R, node, Live, "root", l)
      BY DEF OnWay, Removing
    <2>4. Ordered' /\ Keys(node', Live') = Keys(node, Live)
      BY <1>1, <2>1, <2>3, QuietStep
    <2>5. pc'[t] = "root" /\ loc'[t] = l
      BY <2>1, MovesOne
    <2> QED
      BY <2>2, <2>4, <2>5 DEF Good, Outcome
  <1>3. CASE g_root = NULL /\ loc[t].work.op = "INSERT"
    <2>1. /\ node' = Append(node, createNode(loc[t].work.key, NULL))
          /\ g_root' = Len(node') /\ Answer(t, TRUE) /\ UNCHANGED freed
      BY <1>3 DEF LockTree
    <2> QED
      BY <1>3, <2>1, FirstOrdered
  <1>4. CASE g_root = NULL /\ loc[t].work.op # "INSERT"
    <2>1. UNCHANGED <<node, g_root, freed>> /\ Answer(t, FALSE)
      BY <1>4 DEF LockTree
    <2>2. loc[t].work.op \in {"SEARCH", "DELETE"}
      BY <1>4, LiveType DEF LocalState, Work
    <2>3. Keys(node, Live) = {}
      <3>1. ASSUME NEW a \in Live PROVE FALSE
        BY <1>4, RootFirst, LiveType DEF Routed, NULL
      <3> QED
        BY <3>1 DEF Keys
    <2>4. /\ FALSE \in BOOLEAN
          /\ loc[t].work.op = "SEARCH" => FALSE = (loc[t].work.key \in Keys(node, Live))
          /\ loc[t].work.key \notin Keys(node, Live)
      BY <2>3
    <2> QED
      BY <1>1, <2>1, <2>2, <2>4, AnswerQuiet
  <1> QED
    BY <1>2, <1>3, <1>4

(* Every step of a call keeps the order, and answers what it does.         *)
LEMMA LockOrdered ==
    ASSUME Inv, Inv', ~Aborted, NEW t \in Thread, NEW R, Routed(R), Lock(t)
    PROVE  Good(t)
  <1>1. CASE LockTree(t)
    BY <1>1, LockTreeOrdered
  <1>2. CASE LockRoot(t)
    BY <1>2, LockRootOrdered
  <1>3. CASE LockChild(t)
    BY <1>3, LockChildOrdered
  <1>4. CASE LockSide(t)
    BY <1>4, LockSideOrdered
  <1>5. CASE LockSuccessor(t)
    BY <1>5, LockSuccessorOrdered
  <1>6. CASE LockOrphan(t)
    BY <1>6, LockOrphanOrdered
  <1> QED
    BY <1>1, <1>2, <1>3, <1>4, <1>5, <1>6 DEF Lock

(* A thread takes work, or has done it. *)
LEMMA RestOrdered ==
    ASSUME Inv, Inv', ~Aborted, NEW t \in Thread, NEW R, Routed(R), NEW at, NEW l,
           at \in {"tree", "idle"}, Moves(t, at, l), UNCHANGED tree
    PROVE  Ordered' /\ Keys(node', Live') = Keys(node, Live)
  <1>1. Midst(t, node) /\ UNCHANGED <<node, g_root, freed>>
    BY MidstNow DEF tree
  <1>2. OnWay(R, node, Live, at, l)
    BY DEF OnWay, Removing
  <1> QED
    BY <1>1, <1>2, QuietStep

LEMMA InitOrdered == Init => Ordered
  <1> SUFFICES ASSUME Init PROVE Ordered
    OBVIOUS
  <1>1. Inv
    BY InitInv
  <1>2. Live = {} /\ node \in Heap
    BY <1>1, LiveType DEF Init, Live
  <1>3. Tree(<<>>, node, g_root, Live)
    BY <1>1, <1>2 DEF Init, Inv, Tree, ChildrenYounger, Routes
  <1>4. \A t \in Thread : OnWay(<<>>, node, Live, pc[t], loc[t])
    BY DEF Init, OnWay, Removing
  <1> QED
    BY <1>1, <1>3, <1>4 DEF Ordered, Routed

LEMMA NextOrdered == Ordered /\ [Next]_vars => Ordered'
  <1> SUFFICES ASSUME Ordered, [Next]_vars PROVE Ordered'
    OBVIOUS
  <1>1. Inv /\ Inv'
    BY NextInv DEF Ordered
  <1>2. PICK R : Routed(R)
    BY DEF Ordered
  <1>3. CASE UNCHANGED vars
    <2>1. /\ node' = node /\ g_root' = g_root /\ Live' = Live /\ pc' = pc /\ loc' = loc
      BY <1>3 DEF vars, tree, Live
    <2>2. Routed(R)'
      BY <1>2, <2>1 DEF Routed
    <2> QED
      BY <1>1, <2>2 DEF Ordered
  <1>4. CASE ~Aborted /\ CreateTree
    <2>1. /\ Main \in Thread /\ UNCHANGED tree
          /\ \E l : Moves(Main, "tree", l)
      BY <1>4 DEF CreateTree, Moves, Thread, tree
    <2> QED
      BY <1>1, <1>2, <1>4, <2>1, RestOrdered
  <1>5. ASSUME ~Aborted, NEW t \in Thread, Step(t)
        PROVE  Ordered'
    <2>1. CASE Lock(t)
      BY <1>1, <1>2, <1>5, <2>1, LockOrdered DEF Good
    <2>2. CASE TakeWork(t)
      <3>1. UNCHANGED tree /\ \E l : Moves(t, "tree", l)
        BY <2>2 DEF TakeWork, Moves, tree
      <3> QED
        BY <1>1, <1>2, <1>5, <3>1, RestOrdered
    <2>3. CASE Return(t)
      <3>1. UNCHANGED tree /\ \E l : Moves(t, "idle", l)
        BY <2>3 DEF Return, Moves, tree
      <3> QED
        BY <1>1, <1>2, <1>5, <3>1, RestOrdered
    <2> QED
      BY <1>5, <2>1, <2>2, <2>3 DEF Step
  <1> QED
    BY <1>3, <1>4, <1>5 DEF Next, Terminated

(* In every state the tree routes each thread that is on its way to where   *)
(* it is going, and remove() to the node next in order.                     *)
THEOREM AlwaysOrdered == Spec => []Ordered
  BY InitOrdered, NextOrdered, PTL DEF Spec

-----------------------------------------------------------------------------
(***************************************************************************)
(* The walk of check_valid_FG_Tree, by depth.                              *)
(***************************************************************************)
(* The walks from all nodes, given those of one level less. *)
Row(f, depth) ==
    [a \in 0 .. Len(node) |->
       IF a = NULL \/ depth = 0 THEN <<>> ELSE f[node[a].left] \o <<a>> \o f[node[a].right]]

WalkTo(w, n) == w = [depth \in 0 .. n |-> Row(w[depth - 1], depth)]

LEMMA WalkRow ==
    ASSUME NEW n \in Nat, NEW w, WalkTo(w, n), NEW d \in 0 .. n
    PROVE  w[d] = Row(w[d - 1], d)
  BY DEF WalkTo

LEMMA WalkMore ==
    ASSUME NEW n \in Nat, NEW v, n # 0 => WalkTo(v, n - 1)
    PROVE  \E w : WalkTo(w, n)
  <1> DEFINE w == [depth \in 0 .. n |-> IF depth = n THEN Row(v[n - 1], n) ELSE v[depth]]
  <1>1. ASSUME NEW d \in 0 .. n PROVE w[d] = Row(w[d - 1], d)
    <2>1. CASE d = n /\ n = 0
      <3>1. w[d] = Row(v[n - 1], 0)
        BY <2>1
      <3> QED
        BY <2>1, <3>1 DEF Row
    <2>2. CASE d = n /\ n # 0
      <3>1. w[d] = Row(v[n - 1], n) /\ d - 1 \in 0 .. n /\ d - 1 # n
        BY <2>2
      <3>2. w[d - 1] = v[n - 1]
        BY <2>2, <3>1
      <3> QED
        BY <2>2, <3>1, <3>2
    <2>3. CASE d # n
      <3>1. n # 0 /\ n - 1 \in Nat /\ d \in 0 .. n - 1
        BY <2>3
      <3>2. w[d] = v[d] /\ v[d] = Row(v[d - 1], d)
        BY <2>3, <3>1, WalkRow
      <3>3. CASE d = 0
        <4>1. Row(v[d - 1], d) = Row(w[d - 1], d)
          BY <3>3 DEF Row
        <4> QED
          BY <3>2, <4>1
      <3>4. CASE d # 0
        <4>1. d - 1 \in 0 .. n /\ d - 1 # n
          BY <3>1, <3>4
        <4>2. w[d - 1] = v[d - 1]
          BY <4>1
        <4> QED
          BY <3>2, <4>2
      <3> QED
        BY <3>3, <3>4
    <2> QED
      BY <2>1, <2>2, <2>3
  <1>2. WalkTo([depth \in 0 .. n |-> w[depth]], n)
    <2>1. w = [depth \in 0 .. n |-> w[depth]]
      OBVIOUS
    <2> HIDE DEF w
    <2>2. [depth \in 0 .. n |-> w[depth]] = [depth \in 0 .. n |-> Row(w[depth - 1], depth)]
      BY <1>1
    <2> QED
      BY <2>1, <2>2 DEF WalkTo
  <1> QED
    BY <1>2

LEMMA WalkExists == \A n \in Nat : \E w : WalkTo(w, n)
  <1> DEFINE Bad == {n \in Nat : ~\E w : WalkTo(w, n)}
  <1> SUFFICES ASSUME Bad # {} PROVE FALSE
    OBVIOUS
  <1>1. PICK n \in Bad : \A m \in Bad : n <= m
    <2>1. Bad \subseteq Nat
      OBVIOUS
    <2> HIDE DEF Bad
    <2> QED
      BY <2>1, LeastOf
  <1>2. n # 0 => \E v : WalkTo(v, n - 1)
    <2>1. n # 0 => n - 1 \in Nat /\ ~(n <= n - 1)
      OBVIOUS
    <2> QED
      BY <1>1, <2>1
  <1>3. \E w : WalkTo(w, n)
    BY <1>2, WalkMore
  <1> QED
    BY <1>1, <1>3

LEMMA InOrderWalk ==
    ASSUME Len(node) \in Nat
    PROVE  \E w : WalkTo(w, Len(node)) /\ InOrder = w[Len(node)][g_root]
  <1>1. \E w : WalkTo(w, Len(node))
    BY WalkExists
  <1> QED
    BY <1>1, Zenon DEF WalkTo, Row, InOrder
(***************************************************************************)
(* What is walked from a node: nodes to which its keys lead, in order.     *)
(***************************************************************************)
Visits(h, L, K, s) ==
    /\ s \in Seq(Nat)
    /\ \A i \in 1 .. Len(s) : s[i] \in L /\ h[s[i]].value \in K

Increasing(h, s) == \A i, j \in 1 .. Len(s) : i < j => h[s[i]].value < h[s[j]].value

Sorted(h, L, K, s) == Visits(h, L, K, s) /\ Increasing(h, s)

LEMMA JoinedAt ==
    ASSUME NEW s \in Seq(Nat), NEW z \in Seq(Nat), NEW q, q = s \o z
    PROVE  /\ q \in Seq(Nat) /\ Len(s) \in Nat /\ Len(z) \in Nat /\ Len(q) = Len(s) + Len(z)
           /\ \A i \in 1 .. Len(q) : q[i] = IF i <= Len(s) THEN s[i] ELSE z[i - Len(s)]
  BY ConcatProperties

IsJoined(q, s, a, z) ==
    s \in Seq(Nat) /\ a \in Nat /\ z \in Seq(Nat) /\ q = s \o <<a>> \o z

LEMMA Joined3 ==
    ASSUME NEW q, NEW s, NEW a, NEW z, IsJoined(q, s, a, z)
    PROVE  /\ q \in Seq(Nat) /\ Len(s) \in Nat /\ Len(z) \in Nat
           /\ Len(q) = Len(s) + 1 + Len(z)
           /\ \A i \in 1 .. Len(q) :
                 q[i] = IF i <= Len(s) THEN s[i]
                        ELSE IF i = Len(s) + 1 THEN a ELSE z[i - (Len(s) + 1)]
  <1> USE DEF IsJoined
  <1>1. PICK u : u = s \o <<a>>
    OBVIOUS
  <1>2. <<a>> \in Seq(Nat) /\ Len(<<a>>) = 1 /\ <<a>>[1] = a
    OBVIOUS
  <1>3. /\ u \in Seq(Nat) /\ Len(s) \in Nat /\ Len(u) = Len(s) + 1
        /\ \A i \in 1 .. Len(u) : u[i] = IF i <= Len(s) THEN s[i] ELSE <<a>>[i - Len(s)]
    BY <1>1, <1>2, JoinedAt
  <1>4. q = u \o z
    BY <1>1
  <1>5. /\ q \in Seq(Nat) /\ Len(z) \in Nat /\ Len(q) = Len(u) + Len(z)
        /\ \A i \in 1 .. Len(q) : q[i] = IF i <= Len(u) THEN u[i] ELSE z[i - Len(u)]
    BY <1>3, <1>4, JoinedAt
  <1>6. ASSUME NEW i \in 1 .. Len(q)
        PROVE  q[i] = IF i <= Len(s) THEN s[i]
                      ELSE IF i = Len(s) + 1 THEN a ELSE z[i - (Len(s) + 1)]
    <2>1. CASE i <= Len(s)
      BY <1>3, <1>5, <2>1
    <2>2. CASE i = Len(s) + 1
      <3>1. i - Len(s) = 1 /\ i \in 1 .. Len(u) /\ ~(i <= Len(s))
        BY <1>3, <2>2
      <3> QED
        BY <1>2, <1>3, <1>5, <2>2, <3>1
    <2>3. CASE i > Len(s) + 1
      BY <1>3, <1>5, <2>3
    <2> QED
      BY <1>3, <2>1, <2>2, <2>3
  <1> QED
    BY <1>3, <1>5, <1>6

(* What an index of s \o <<a>> \o z leads to. *)
LEMMA Joined3Index ==
    ASSUME NEW q, NEW s, NEW a, NEW z, IsJoined(q, s, a, z)
    PROVE  \A i \in 1 .. Len(q) :
             \/ i \in 1 .. Len(s) /\ q[i] = s[i]
             \/ i = Len(s) + 1 /\ q[i] = a
             \/ \E j \in 1 .. Len(z) : i = Len(s) + 1 + j /\ q[i] = z[j]
  <1>1. /\ Len(s) \in Nat /\ Len(z) \in Nat /\ Len(q) = Len(s) + 1 + Len(z)
        /\ \A i \in 1 .. Len(q) :
              q[i] = IF i <= Len(s) THEN s[i]
                     ELSE IF i = Len(s) + 1 THEN a ELSE z[i - (Len(s) + 1)]
    BY Joined3
  <1> SUFFICES ASSUME NEW i \in 1 .. Len(q), i > Len(s) + 1
               PROVE  \E j \in 1 .. Len(z) : i = Len(s) + 1 + j /\ q[i] = z[j]
    BY <1>1
  <1>2. PICK j : j = i - (Len(s) + 1)
    OBVIOUS
  <1>3. j \in 1 .. Len(z) /\ i = Len(s) + 1 + j /\ q[i] = z[j]
    BY <1>1, <1>2
  <1> QED
    BY <1>3

LEMMA SortedJoined ==
    ASSUME NEW h, NEW L, L \subseteq Nat, \A b \in L : h[b].value \in Int,
           NEW K, NEW K1, NEW K2, K1 \subseteq K, K2 \subseteq K, NEW a \in L, h[a].value \in K,
           \A k \in K1 : k < h[a].value, \A k \in K2 : h[a].value < k,
           NEW s, Sorted(h, L, K1, s), NEW z, Sorted(h, L, K2, z)
    PROVE  Sorted(h, L, K, s \o <<a>> \o z)
  <1>1. s \in Seq(Nat) /\ z \in Seq(Nat) /\ a \in Nat
    BY DEF Sorted, Visits
  <1>2. PICK q : q = s \o <<a>> \o z /\ IsJoined(q, s, a, z)
    BY <1>1 DEF IsJoined
  <1>3. \A i \in 1 .. Len(q) :
          \/ i \in 1 .. Len(s) /\ q[i] = s[i]
          \/ i = Len(s) + 1 /\ q[i] = a
          \/ \E j \in 1 .. Len(z) : i = Len(s) + 1 + j /\ q[i] = z[j]
    BY <1>2, Joined3Index
  <1>4. q \in Seq(Nat) /\ Len(s) \in Nat /\ Len(z) \in Nat
    BY <1>2, Joined3
  <1>5. \A i \in 1 .. Len(s) : s[i] \in L /\ h[s[i]].value \in K1
    BY DEF Sorted, Visits
  <1>6. \A i \in 1 .. Len(z) : z[i] \in L /\ h[z[i]].value \in K2
    BY DEF Sorted, Visits
  <1>7. Visits(h, L, K, q)
    <2>1. ASSUME NEW i \in 1 .. Len(q) PROVE q[i] \in L /\ h[q[i]].value \in K
      BY <1>3, <1>5, <1>6
    <2> QED
      BY <1>4, <2>1 DEF Visits
  <1>8. ASSUME NEW i \in 1 .. Len(q), NEW j \in 1 .. Len(q), i < j
        PROVE  h[q[i]].value < h[q[j]].value
    <2>1. h[q[i]].value \in Int /\ h[q[j]].value \in Int /\ h[a].value \in Int
      BY <1>7 DEF Visits
    <2>2. CASE i \in 1 .. Len(s) /\ q[i] = s[i] /\ j \in 1 .. Len(s) /\ q[j] = s[j]
      BY <1>8, <2>2 DEF Sorted, Increasing
    <2>3. CASE i \in 1 .. Len(s) /\ q[i] = s[i] /\ ~(j \in 1 .. Len(s) /\ q[j] = s[j])
      <3>1. h[q[i]].value < h[a].value
        BY <1>5, <2>3
      <3>2. (j = Len(s) + 1 /\ q[j] = a) \/ \E n \in 1 .. Len(z) : q[j] = z[n]
        BY <1>3, <2>3
      <3>3. q[j] = a \/ h[a].value < h[q[j]].value
        BY <1>6, <3>2
      <3> QED
        BY <2>1, <3>1, <3>3
    <2>4. CASE i = Len(s) + 1 /\ q[i] = a
      <3>1. ~(j \in 1 .. Len(s)) /\ j # Len(s) + 1
        BY <1>4, <1>8, <2>4
      <3>2. \E n \in 1 .. Len(z) : q[j] = z[n]
        BY <1>3, <3>1
      <3> QED
        BY <1>6, <2>4, <3>2
    <2>5. CASE \E m \in 1 .. Len(z) : i = Len(s) + 1 + m /\ q[i] = z[m]
      <3>1. PICK m \in 1 .. Len(z) : i = Len(s) + 1 + m /\ q[i] = z[m]
        BY <2>5
      <3>2. ~(j \in 1 .. Len(s)) /\ j # Len(s) + 1
        BY <1>4, <1>8, <3>1
      <3>3. PICK n \in 1 .. Len(z) : j = Len(s) + 1 + n /\ q[j] = z[n]
        BY <1>3, <3>2
      <3>4. m < n
        BY <1>4, <1>8, <3>1, <3>3
      <3> QED
        BY <3>1, <3>3, <3>4 DEF Sorted, Increasing
    <2> QED
      BY <1>3, <2>2, <2>3, <2>4, <2>5
  <1>9. Increasing(h, q)
    BY <1>8 DEF Increasing
  <1> QED
    BY <1>2, <1>7, <1>9 DEF Sorted

LEMMA SortedNone == \A h, L, K : Sorted(h, L, K, <<>>)
  BY DEF Sorted, Visits, Increasing
-----------------------------------------------------------------------------
(***************************************************************************)
(* The walk of an ordered tree.                                            *)
(***************************************************************************)
Walk(w) == WalkTo(w, Len(node)) /\ Len(node) \in Nat

(* The walk from a is that from its left child, a, and that from its right *)
(* child.                                                                  *)
LEMMA WalkNone ==
    ASSUME NEW w, Walk(w), NEW d \in 0 .. Len(node), NEW a \in 0 .. Len(node), a = 0 \/ d = 0
    PROVE  w[d][a] = <<>>
  <1>1. w[d] = Row(w[d - 1], d)
    BY WalkRow DEF Walk
  <1> QED
    BY <1>1 DEF Row, NULL

LEMMA WalkNode ==
    ASSUME NEW w, Walk(w), NEW d \in 1 .. Len(node), NEW a \in 1 .. Len(node)
    PROVE  w[d][a] = w[d - 1][node[a].left] \o <<a>> \o w[d - 1][node[a].right]
  <1>1. Len(node) \in Nat /\ d \in 0 .. Len(node) /\ d # 0 /\ a \in 0 .. Len(node) /\ a # 0
    BY DEF Walk
  <1>2. w[d] = Row(w[d - 1], d)
    BY <1>1, WalkRow DEF Walk
  <1> QED
    BY <1>1, <1>2 DEF Row, NULL

SortedFrom(R, w, d) ==
    \A a \in Live : Sorted(node, Live, R[a], w[d][a])

LEMMA WalkChild ==
    ASSUME Inv, NEW R, Tree(R, node, g_root, Live), NEW w, Walk(w),
           NEW d \in 0 .. Len(node), SortedFrom(R, w, d), NEW a \in Live, NEW s \in Side
    PROVE  Sorted(node, Live, R[a] \cap Goes(node, a, s), w[d][node[a][s]])
  <1>1. CASE node[a][s] = NULL
    <2>1. w[d][node[a][s]] = <<>>
      BY <1>1, WalkNone, LiveType DEF NULL
    <2> QED
      BY <2>1, SortedNone
  <1>2. CASE node[a][s] # NULL
    <2>1. node[a][s] \in Live /\ R[node[a][s]] = R[a] \cap Goes(node, a, s)
      BY <1>2, TreeChild
    <2>2. Sorted(node, Live, R[node[a][s]], w[d][node[a][s]])
      BY <2>1 DEF SortedFrom
    <2> QED
      BY <2>1, <2>2
  <1> QED
    BY <1>1, <1>2

LEMMA WalkSortedNext ==
    ASSUME Inv, NEW R, Tree(R, node, g_root, Live), NEW w, Walk(w),
           NEW d \in 1 .. Len(node), SortedFrom(R, w, d - 1)
    PROVE  SortedFrom(R, w, d)
  <1> SUFFICES ASSUME NEW a \in Live PROVE Sorted(node, Live, R[a], w[d][a])
    BY DEF SortedFrom
  <1>1. d - 1 \in 0 .. Len(node) /\ a \in 1 .. Len(node)
    BY LiveType
  <1>2. PICK K1 : K1 = R[a] \cap Goes(node, a, "left")
    OBVIOUS
  <1>3. PICK K2 : K2 = R[a] \cap Goes(node, a, "right")
    OBVIOUS
  <1>4. PICK s : s = w[d - 1][node[a].left] /\ Sorted(node, Live, K1, s)
    BY <1>1, <1>2, WalkChild DEF Side
  <1>5. PICK z : z = w[d - 1][node[a].right] /\ Sorted(node, Live, K2, z)
    BY <1>1, <1>3, WalkChild DEF Side
  <1>6. /\ K1 \subseteq R[a] /\ K2 \subseteq R[a]
        /\ \A k \in K1 : k < node[a].value
        /\ \A k \in K2 : node[a].value < k
    BY <1>2, <1>3 DEF Goes
  <1>7. Live \subseteq Nat /\ node[a].value \in R[a] /\ \A b \in Live : node[b].value \in Int
    BY TreeTypes
  <1>8. Sorted(node, Live, R[a], s \o <<a>> \o z)
    BY <1>4, <1>5, <1>6, <1>7, SortedJoined
  <1> QED
    BY <1>1, <1>4, <1>5, <1>8, WalkNode

LEMMA WalkSorted ==
    ASSUME Inv, NEW R, Tree(R, node, g_root, Live), NEW w, Walk(w)
    PROVE  \A d \in 0 .. Len(node) : SortedFrom(R, w, d)
  <1> DEFINE Bad == {d \in 0 .. Len(node) : ~SortedFrom(R, w, d)}
  <1> SUFFICES ASSUME Bad # {} PROVE FALSE
    OBVIOUS
  <1>1. PICK d \in Bad : \A m \in Bad : d <= m
    <2>1. Bad \subseteq Nat
      OBVIOUS
    <2> HIDE DEF Bad
    <2> QED
      BY <2>1, LeastOf
  <1>2. CASE d = 0
    <2>1. \A a \in Live : w[d][a] = <<>>
      BY <1>2, WalkNone, LiveType
    <2> QED
      BY <1>1, <2>1, SortedNone DEF SortedFrom
  <1>3. CASE d # 0
    <2>1. d \in 1 .. Len(node) /\ d - 1 \in 0 .. Len(node) /\ ~(d <= d - 1)
      BY <1>3, LiveType
    <2>2. SortedFrom(R, w, d - 1)
      BY <1>1, <2>1
    <2> QED
      BY <1>1, <2>1, <2>2, WalkSortedNext
  <1> QED
    BY <1>2, <1>3

(* Every node below a that is near enough is visited.                      *)
Visited(x, q) == \E i \in 1 .. Len(q) : q[i] = x

Complete(R, w, d) ==
    \A a, x \in Live : a <= x /\ node[x].value \in R[a] /\ x - a < d => Visited(x, w[d][a])

LEMMA VisitedJoined ==
    ASSUME NEW q, NEW s, NEW a, NEW z, IsJoined(q, s, a, z)
    PROVE  Visited(a, q) /\ \A x : Visited(x, s) \/ Visited(x, z) => Visited(x, q)
  <1>1. /\ Len(s) \in Nat /\ Len(z) \in Nat /\ Len(q) = Len(s) + 1 + Len(z)
        /\ \A i \in 1 .. Len(q) :
              q[i] = IF i <= Len(s) THEN s[i]
                     ELSE IF i = Len(s) + 1 THEN a ELSE z[i - (Len(s) + 1)]
    BY Joined3
  <1>2. Visited(a, q)
    <2>1. Len(s) + 1 \in 1 .. Len(q) /\ q[Len(s) + 1] = a
      BY <1>1
    <2> QED
      BY <2>1 DEF Visited
  <1>3. ASSUME NEW x, Visited(x, s) PROVE Visited(x, q)
    <2>1. PICK i \in 1 .. Len(s) : s[i] = x
      BY <1>3 DEF Visited
    <2>2. i \in 1 .. Len(q) /\ q[i] = x
      BY <1>1, <2>1
    <2> QED
      BY <2>2 DEF Visited
  <1>4. ASSUME NEW x, Visited(x, z) PROVE Visited(x, q)
    <2>1. PICK i \in 1 .. Len(z) : z[i] = x
      BY <1>4 DEF Visited
    <2>2. PICK j : j = Len(s) + 1 + i
      OBVIOUS
    <2>3. j \in 1 .. Len(q) /\ ~(j <= Len(s)) /\ j # Len(s) + 1 /\ j - (Len(s) + 1) = i
      BY <1>1, <2>2
    <2>4. q[j] = x
      BY <1>1, <2>1, <2>3
    <2> QED
      BY <2>3, <2>4 DEF Visited
  <1> QED
    BY <1>2, <1>3, <1>4

LEMMA WalkCompleteNext ==
    ASSUME Inv, NEW R, Tree(R, node, g_root, Live), NEW w, Walk(w),
           NEW d \in 1 .. Len(node), Complete(R, w, d - 1)
    PROVE  Complete(R, w, d)
  <1> SUFFICES ASSUME NEW a \in Live, NEW x \in Live,
                      a <= x, node[x].value \in R[a], x - a < d
               PROVE  Visited(x, w[d][a])
    BY DEF Complete
  <1>1. d - 1 \in 0 .. Len(node) /\ a \in 1 .. Len(node) /\ x \in Nat
    BY LiveType
  <1>2. PICK s : s = w[d - 1][node[a].left]
    OBVIOUS
  <1>3. PICK z : z = w[d - 1][node[a].right]
    OBVIOUS
  <1>4. s \in Seq(Nat) /\ z \in Seq(Nat)
    <2>1. SortedFrom(R, w, d - 1)
      BY <1>1, WalkSorted
    <2> QED
      BY <1>1, <1>2, <1>3, <2>1, WalkChild DEF Sorted, Visits, Side
  <1>5. PICK q : q = w[d][a] /\ IsJoined(q, s, a, z)
    <2>1. w[d][a] = s \o <<a>> \o z
      BY <1>1, <1>2, <1>3, WalkNode
    <2>2. a \in Nat
      BY <1>1
    <2> QED
      BY <1>4, <2>1, <2>2 DEF IsJoined
  <1>6. Visited(a, q) /\ \A y : Visited(y, s) \/ Visited(y, z) => Visited(y, q)
    BY <1>5, VisitedJoined
  <1>7. CASE a = x
    BY <1>5, <1>6, <1>7
  <1>8. CASE a # x
    <2>1. a < x /\ node[x].value \in R[x]
      BY <1>1, <1>8, TreeTypes
    <2>2. PICK side \in Side : /\ node[a][side] # NULL /\ node[x].value \in R[node[a][side]]
                               /\ node[a][side] <= x
      BY <2>1, OnTheWay
    <2>3. PICK c : c = node[a][side] /\ c \in Live /\ a < c /\ c \in Nat
      BY <2>2, TreeChild, TreeTypes
    <2>4. x - c < d - 1
      BY <1>1, <2>3
    <2>5. Visited(x, w[d - 1][c])
      BY <2>2, <2>3, <2>4 DEF Complete
    <2>6. w[d - 1][c] = s \/ w[d - 1][c] = z
      BY <1>2, <1>3, <2>3 DEF Side
    <2> QED
      BY <1>5, <1>6, <2>5, <2>6
  <1> QED
    BY <1>7, <1>8

LEMMA WalkComplete ==
    ASSUME Inv, NEW R, Tree(R, node, g_root, Live), NEW w, Walk(w)
    PROVE  \A d \in 0 .. Len(node) : Complete(R, w, d)
  <1> DEFINE Bad == {d \in 0 .. Len(node) : ~Complete(R, w, d)}
  <1> SUFFICES ASSUME Bad # {} PROVE FALSE
    OBVIOUS
  <1>1. PICK d \in Bad : \A m \in Bad : d <= m
    <2>1. Bad \subseteq Nat
      OBVIOUS
    <2> HIDE DEF Bad
    <2> QED
      BY <2>1, LeastOf
  <1>2. CASE d = 0
    <2>1. Live \subseteq Nat
      BY TreeTypes
    <2>2. \A a, x \in Live : a <= x => ~(x - a < d)
      BY <1>2, <2>1
    <2> QED
      BY <1>1, <2>2 DEF Complete
  <1>3. CASE d # 0
    <2>1. d \in 1 .. Len(node) /\ d - 1 \in 0 .. Len(node) /\ ~(d <= d - 1)
      BY <1>3, LiveType
    <2>2. Complete(R, w, d - 1)
      BY <1>1, <2>1
    <2> QED
      BY <1>1, <2>1, <2>2, WalkCompleteNext
  <1> QED
    BY <1>2, <1>3

(* The nodes in order are all nodes of the tree, and their values increase. *)
LEMMA OrderedWalk ==
    ASSUME Ordered
    PROVE  /\ InOrder \in Seq(Nat) /\ Increasing(node, InOrder)
           /\ Range(InOrder) = Live /\ \A a \in Live : node[a].value \in Int
  <1>1. Inv
    BY DEF Ordered
  <1>2. PICK R : Tree(R, node, g_root, Live)
    BY DEF Ordered, Routed
  <1>3. Len(node) \in Nat /\ DOMAIN node = 1 .. Len(node)
    BY <1>1, LiveType
  <1>4. PICK w : Walk(w) /\ InOrder = w[Len(node)][g_root]
    BY <1>3, InOrderWalk DEF Walk
  <1>5. PICK n : n = Len(node) /\ n \in 0 .. Len(node)
    BY <1>3
  <1>6. PICK q : q = InOrder /\ q = w[n][g_root]
    BY <1>4, <1>5
  <1>7. Sorted(node, Live, Int, q)
    <2>1. CASE g_root = NULL
      <3>1. q = <<>>
        BY <1>3, <1>4, <1>5, <1>6, <2>1, WalkNone DEF NULL
      <3> QED
        BY <3>1, SortedNone
    <2>2. CASE g_root # NULL
      <3>1. g_root \in Live /\ R[g_root] = Int
        BY <1>2, <2>2 DEF Tree, Shape, RootOK, Routes
      <3>2. SortedFrom(R, w, n)
        BY <1>1, <1>2, <1>4, <1>5, WalkSorted
      <3> QED
        BY <1>6, <3>1, <3>2 DEF SortedFrom
    <2> QED
      BY <2>1, <2>2
  <1>8. ASSUME NEW x \in Live PROVE Visited(x, q)
    <2>1. g_root \in Live /\ g_root <= x /\ R[g_root] = Int
      BY <1>2, RootFirst
    <2>2. node[x].value \in R[g_root] /\ g_root \in 1 .. Len(node) /\ x \in 1 .. Len(node)
      BY <1>1, <1>2, <1>3, <2>1, LiveType, TreeTypes
    <2>3. x - g_root < n
      BY <1>3, <1>5, <2>2
    <2>4. Complete(R, w, n)
      BY <1>1, <1>2, <1>4, <1>5, WalkComplete
    <2> QED
      BY <1>6, <2>1, <2>2, <2>3, <2>4 DEF Complete
  <1>9. q \in Seq(Nat) /\ DOMAIN q = 1 .. Len(q) /\ \A i \in 1 .. Len(q) : q[i] \in Live
    BY <1>7 DEF Sorted, Visits
  <1>10. Range(q) = Live
    BY <1>8, <1>9 DEF Range, Visited
  <1> QED
    BY <1>2, <1>6, <1>7, <1>9, <1>10, TreeTypes DEF Sorted

LEMMA OrderedSearchOrder ==
    ASSUME Ordered
    PROVE  SearchOrder
  <1>1. PICK q : /\ q = InOrder /\ q \in Seq(Nat) /\ Increasing(node, q)
                 /\ \A i \in 1 .. Len(q) : node[q[i]].value \in Int
    <2>1. \A i \in 1 .. Len(InOrder) : InOrder[i] \in Range(InOrder)
      BY OrderedWalk DEF Range
    <2> QED
      BY <2>1, OrderedWalk
  <1>2. PICK v : v = [i \in DOMAIN q |-> node[q[i]].value]
    OBVIOUS
  <1>3. v \in Seq(Int) /\ Len(v) = Len(q) /\ Len(q) \in Nat
    <2>1. DOMAIN q = 1 .. Len(q) /\ Len(q) \in Nat
      BY <1>1
    <2>2. v = [i \in 1 .. Len(q) |-> node[q[i]].value]
      BY <1>2, <2>1
    <2> QED
      BY <1>1, <2>1, <2>2
  <1>4. ASSUME NEW i \in 1 .. Len(v) - 1 PROVE v[i] < v[i + 1]
    <2>1. i \in 1 .. Len(q) /\ i + 1 \in 1 .. Len(q) /\ i < i + 1
      BY <1>3
    <2>2. v[i] = node[q[i]].value /\ v[i + 1] = node[q[i + 1]].value
      BY <1>1, <1>2, <2>1
    <2> QED
      BY <1>1, <2>1, <2>2 DEF Increasing
  <1> QED
    BY <1>1, <1>2, <1>4 DEF SearchOrder

(* The values increase in order in every state, also while remove() moves  *)
(* them to other nodes with threads below.                                 *)
THEOREM AlwaysSearchOrder == Spec => []SearchOrder
  <1>1. Ordered => SearchOrder
    BY OrderedSearchOrder
  <1> QED
    BY <1>1, AlwaysOrdered, PTL

(* The nodes of the tree are those that have not been freed.               *)
THEOREM AlwaysFreedWhenUnlinked == Spec => []FreedWhenUnlinked
  <1>1. Ordered => FreedWhenUnlinked
    BY OrderedWalk DEF FreedWhenUnlinked, Live
  <1> QED
    BY <1>1, AlwaysOrdered, PTL

-----------------------------------------------------------------------------
(***************************************************************************)
(* The atomic set.                                                         *)
(***************************************************************************)
CallOn == [op : {"INSERT", "SEARCH", "DELETE"}, key : Key]

(* All work is about keys of the files. *)
KeysOK ==
    /\ create \in Seq(Key) /\ queue \in Seq(CallOn)
    /\ \A t \in Thread : InCall(t) => loc[t].work \in CallOn

SeenOK ==
    /\ seen = [t \in Thread |-> seen[t]]
    /\ \A t \in Thread :
          IF InCall(t) THEN (loc[t].work.key \in Values) \in seen[t] ELSE seen[t] = {}

HistoryInv == Ordered /\ KeysOK /\ SeenOK

LEMMA ValuesAre == Ordered => Values = Keys(node, Live)
  BY OrderedWalk DEF Values, Keys

LEMMA ValuesNext == (Ordered => Values = Keys(node, Live))'
  BY ValuesAre, PTL

-----------------------------------------------------------------------------
(***************************************************************************)
(* The invariant.                                                          *)
(***************************************************************************)
LEMMA InitKeys == Init => KeysOK
  <1> SUFFICES ASSUME Init PROVE KeysOK
    OBVIOUS
  <1>1. create \in Seq(Int) /\ queue \in Seq(Work) /\ create \in CreateFiles /\ queue \in Traces
    BY FileAssumption DEF Init
  <1>2. \A i \in 1 .. Len(create) : create[i] \in Key
    <2>1. \A i \in 1 .. Len(create) : create[i] \in Range(create)
      BY <1>1 DEF Range
    <2> QED
      BY <1>1, <2>1 DEF Key
  <1>3. \A i \in 1 .. Len(queue) : queue[i] \in CallOn
    <2> SUFFICES ASSUME NEW i \in 1 .. Len(queue) PROVE queue[i] \in CallOn
      OBVIOUS
    <2>1. queue[i] \in Range(queue) /\ queue[i] \in Work
      BY <1>1 DEF Range
    <2>2. queue[i] \in UNION {Range(q) : q \in Traces}
      BY <1>1, <2>1
    <2>3. queue[i].key \in Key
      BY <2>2 DEF Key
    <2> QED
      BY <2>1, <2>3 DEF Work, CallOn
  <1>4. \A t \in Thread : ~InCall(t)
    BY DEF Init, InCall
  <1>5. create \in Seq(Key)
    BY <1>1, <1>2
  <1>6. queue \in Seq(CallOn)
    BY <1>1, <1>3
  <1> QED
    BY <1>4, <1>5, <1>6 DEF KeysOK

LEMMA InitHistory == HistoryInit => HistoryInv
  <1> SUFFICES ASSUME HistoryInit PROVE HistoryInv
    OBVIOUS
  <1>1. SeenOK
    BY DEF HistoryInit, Init, SeenOK, InCall
  <1> QED
    BY <1>1, InitOrdered, InitKeys DEF HistoryInit, HistoryInv

(* What a step does to the thread that takes it: it takes up a call, takes *)
(* a step of it, or returns.                                               *)
Invokes(t, c) ==
    /\ t \in Thread /\ ~InCall(t) /\ pc[t] = "idle" /\ c \in CallOn
    /\ Moves(t, "tree", Locals(c)) /\ UNCHANGED tree

Works(t) == t \in Thread /\ ~Aborted /\ Lock(t)

Returns(t) ==
    t \in Thread /\ pc[t] = "return" /\ Moves(t, "idle", Locals(NoWork)) /\ UNCHANGED tree

LEMMA Steps ==
    ASSUME Inv, KeysOK, Next
    PROVE  \/ UNCHANGED vars
           \/ ~Aborted /\ \E t : (\E c : Invokes(t, c)) \/ Works(t) \/ Returns(t)
  <1>1. ASSUME CreateTree PROVE \E c : Invokes(Main, c)
    <2>1. Head(create) \in Key /\ Main \in Thread
      BY <1>1 DEF KeysOK, CreateTree, Thread
    <2>2. [op |-> "INSERT", key |-> Head(create)] \in CallOn
      BY <2>1 DEF CallOn
    <2> QED
      BY <1>1, <2>1, <2>2 DEF CreateTree, Invokes, Moves, InCall
  <1>2. ASSUME NEW t \in Thread, TakeWork(t) PROVE \E c : Invokes(t, c)
    <2>1. Head(queue) \in CallOn
      BY <1>2 DEF KeysOK, TakeWork
    <2> QED
      BY <1>2, <2>1 DEF TakeWork, Invokes, Moves, InCall, tree
  <1>3. ASSUME NEW t \in Thread, Return(t) PROVE Returns(t)
    BY <1>3 DEF Return, Returns, Moves
  <1> QED
    BY <1>1, <1>2, <1>3 DEF Next, Step, Terminated, Works

Others(t) == \A u \in Thread \ {t} : pc'[u] = pc[u] /\ loc'[u] = loc[u]

LEMMA LockAlone ==
    ASSUME Inv, NEW t \in Thread, Lock(t)
    PROVE  Others(t)
  <1>1. ASSUME NEW at, Goto(t, at), UNCHANGED loc \/ \E l : SetLocals(t, l)
        PROVE  Others(t)
    BY <1>1 DEF Goto, SetLocals, Others, Inv, TypeOK
  <1>2. ASSUME NEW b, Answer(t, b) PROVE Others(t)
    BY <1>1, <1>2 DEF Answer
  <1>3. ASSUME NEW at, NEW l, NEW a, LockNext(t, at, l, a) PROVE Others(t)
    BY <1>1, <1>3 DEF LockNext
  <1>4. ASSUME NEW h, NEW a, LockChildOf(t, h, a) PROVE Others(t)
    BY <1>3, <1>4 DEF LockChildOf
  <1>5. ASSUME NEW h, NEW s, NEW p, Replace(t, h, s, p) PROVE Others(t)
    BY <1>2, <1>3, <1>5 DEF Replace
  <1>6. ASSUME NEW h, NEW a, Search(t, h, a) PROVE Others(t)
    BY <1>2, <1>4, <1>6 DEF Search
  <1>7. ASSUME NEW h, NEW a, Insert(t, h, a) PROVE Others(t)
    BY <1>1, <1>2, <1>4, <1>7 DEF Insert
  <1>8. ASSUME NEW h, NEW a, Delete(t, h, a) PROVE Others(t)
    BY <1>2, <1>3, <1>8 DEF Delete
  <1>9. ASSUME NEW h, NEW a, del_search(t, h, a) PROVE Others(t)
    BY <1>2, <1>4, <1>8, <1>9 DEF del_search
  <1>10. CASE LockTree(t)
    BY <1>2, <1>3, <1>10 DEF LockTree
  <1>11. CASE LockRoot(t)
    BY <1>6, <1>7, <1>9, <1>11 DEF LockRoot
  <1>12. CASE LockChild(t)
    BY <1>6, <1>7, <1>9, <1>12 DEF LockChild
  <1>13. CASE LockSide(t)
    BY <1>3, <1>5, <1>13 DEF LockSide
  <1>14. CASE LockSuccessor(t)
    BY <1>3, <1>5, <1>14 DEF LockSuccessor
  <1>15. CASE LockOrphan(t)
    BY <1>2, <1>15 DEF LockOrphan
  <1> QED
    BY <1>10, <1>11, <1>12, <1>13, <1>14, <1>15 DEF Lock

LEMMA NextKeys ==
    ASSUME Ordered, Inv', KeysOK, [Next]_vars
    PROVE  KeysOK'
  <1> USE DEF Ordered
  <1>1. create' \in Seq(Key) /\ queue' \in Seq(CallOn)
    <2>1. CASE UNCHANGED <<create, queue>>
      BY <2>1 DEF KeysOK
    <2>2. CASE CreateTree
      BY <2>2 DEF CreateTree, KeysOK
    <2>3. ASSUME NEW t \in Thread, TakeWork(t)
          PROVE  create' \in Seq(Key) /\ queue' \in Seq(CallOn)
      BY <2>3 DEF TakeWork, KeysOK
    <2>4. ASSUME NEW t \in Thread, Lock(t) \/ Return(t) PROVE UNCHANGED <<create, queue>>
      BY <2>4 DEF Lock, LockTree, LockRoot, LockChild, LockSide, LockSuccessor, LockOrphan,
                  Return, files
    <2> QED
      BY <2>1, <2>2, <2>3, <2>4 DEF Next, Step, Terminated, vars, files
  <1>2. ASSUME NEW t, Others(t), InCall(t)' => loc'[t].work \in CallOn
        PROVE  \A u \in Thread : InCall(u)' => loc'[u].work \in CallOn
    BY <1>2 DEF KeysOK, InCall, Others
  <1>3. \A u \in Thread : InCall(u)' => loc'[u].work \in CallOn
    <2>1. CASE UNCHANGED vars
      BY <2>1 DEF vars, KeysOK, InCall
    <2>2. ASSUME NEW t, NEW c, Invokes(t, c)
          PROVE  \A u \in Thread : InCall(u)' => loc'[u].work \in CallOn
      <3>1. Others(t) /\ loc'[t] = Locals(c)
        BY <2>2, MovesOne DEF Invokes, Others
      <3>2. loc'[t].work \in CallOn
        BY <2>2, <3>1 DEF Invokes, Locals
      <3> QED
        BY <1>2, <3>1, <3>2
    <2>3. ASSUME NEW t, Returns(t)
          PROVE  \A u \in Thread : InCall(u)' => loc'[u].work \in CallOn
      <3>1. Others(t) /\ pc'[t] = "idle"
        BY <2>3, MovesOne DEF Returns, Others
      <3> QED
        BY <1>2, <3>1 DEF InCall
    <2>4. ASSUME NEW t, Works(t)
          PROVE  \A u \in Thread : InCall(u)' => loc'[u].work \in CallOn
      <3>1. Others(t) /\ Outcome(t) /\ t \in Thread
        BY <2>4, LockAlone, LockOrdered DEF Works, Good
      <3>2. InCall(t)
        BY <2>4 DEF Works, Lock, LockTree, LockRoot, LockChild, LockSide, LockSuccessor,
                    LockOrphan, InCall
      <3>3. loc'[t].work \in CallOn
        BY <3>1, <3>2 DEF Outcome, KeysOK
      <3> QED
        BY <1>2, <3>1, <3>3
    <2> QED
      BY <2>1, <2>2, <2>3, <2>4, Steps
  <1> QED
    BY <1>1, <1>3 DEF KeysOK
LEMMA NextHistory ==
    ASSUME HistoryInv, [HistoryNext]_<<vars, seen>>
    PROVE  HistoryInv'
  <1>1. [Next]_vars
    BY DEF HistoryNext
  <1>2. Ordered' /\ Inv'
    BY <1>1, NextOrdered DEF HistoryInv, Ordered
  <1>3. KeysOK'
    BY <1>1, <1>2, NextKeys DEF HistoryInv
  <1>4. SeenOK'
    <2>1. CASE UNCHANGED <<vars, seen>>
      <3>1. Values' = Values
        <4>1. node' = node /\ Live' = Live
          BY <2>1 DEF vars, tree, Live
        <4> QED
          BY <1>2, <4>1, ValuesAre, ValuesNext DEF HistoryInv
      <3> QED
        BY <2>1, <3>1 DEF vars, HistoryInv, SeenOK, InCall
    <2>2. CASE HistoryNext
      BY <2>2 DEF HistoryNext, SeenOK
    <2> QED
      BY <2>1, <2>2
  <1> QED
    BY <1>2, <1>3, <1>4 DEF HistoryInv

-----------------------------------------------------------------------------
(***************************************************************************)
(* The steps of the set.                                                   *)
(***************************************************************************)
Calls == [u \in Thread |-> CallOf(u)]
Effects == [u \in Thread |-> Effected(u)]
Answers == [u \in Thread |-> Answered(u)]

LEMMA OthersKeep ==
    ASSUME Inv, NEW t \in Thread, Others(t)
    PROVE  /\ Calls' = [Calls EXCEPT ![t] = CallOf(t)']
           /\ Effects' = [Effects EXCEPT ![t] = Effected(t)']
           /\ Answers' = [Answers EXCEPT ![t] = Answered(t)']
  <1>1. \A u \in Thread \ {t} : /\ CallOf(u)' = CallOf(u) /\ Effected(u)' = Effected(u)
                                /\ Answered(u)' = Answered(u)
    BY DEF Others, CallOf, Effected, Answered, InCall
  <1> QED
    BY <1>1 DEF Calls, Effects, Answers

LEMMA CallKept ==
    ASSUME Inv, NEW t \in Thread, Others(t)
    PROVE  /\ CallOf(t)' = CallOf(t) => Calls' = Calls
           /\ Effected(t)' = Effected(t) => Effects' = Effects
           /\ Answered(t)' = Answered(t) => Answers' = Answers
  <1>1. \A u \in Thread \ {t} : /\ CallOf(u)' = CallOf(u) /\ Effected(u)' = Effected(u)
                                /\ Answered(u)' = Answered(u)
    BY DEF Others, CallOf, Effected, Answered, InCall
  <1> QED
    BY <1>1 DEF Calls, Effects, Answers

(* What calls are.                                                         *)
LEMMA CallTypes ==
    ASSUME Inv, NEW u \in Thread
    PROVE  /\ InCall(u) <=> CallOf(u).op # "NONE"
           /\ InCall(u) => CallOf(u) = loc[u].work /\ CallOf(u).key = loc[u].work.key
           /\ ~InCall(u) => CallOf(u) = Set!NoCall
  BY LiveType DEF CallOf, LocalState, Work, Set!NoCall

LEMMA CallTypesNext ==
    ASSUME Inv', NEW u \in Thread
    PROVE  /\ InCall(u)' <=> CallOf(u)'.op # "NONE"
           /\ InCall(u)' => CallOf(u)' = loc'[u].work /\ CallOf(u)'.key = loc'[u].work.key
           /\ ~InCall(u)' => CallOf(u)' = Set!NoCall
  <1>1. loc'[u] \in LocalState
    BY DEF Inv, TypeOK
  <1> QED
    BY <1>1 DEF CallOf, LocalState, Work, Set!NoCall

(* Every call sees what the history records.                               *)
LEMMA Observed ==
    ASSUME Inv', HistoryNext
    PROVE  Set!Observe
  <1>1. seen' = [u \in Thread |-> IF InCall(u)' THEN seen[u] \cup {loc'[u].work.key \in Values'}
                                  ELSE {}]
    BY DEF HistoryNext
  <1>2. ASSUME NEW u \in Thread
        PROVE  (IF InCall(u)' THEN seen[u] \cup {loc'[u].work.key \in Values'} ELSE {})
               = (IF Calls'[u].op = "NONE" THEN {}
                  ELSE seen[u] \cup {Calls'[u].key \in Values'})
    BY CallTypesNext DEF Calls
  <1> QED
    BY <1>1, <1>2 DEF Set!Observe, Calls

(* A step that changes neither the keys nor any call.                      *)
LEMMA Stutters ==
    ASSUME HistoryInv, HistoryInv', HistoryNext, Values' = Values,
           Calls' = Calls, Effects' = Effects, Answers' = Answers
    PROVE  UNCHANGED Set!vars
  <1>1. seen' = [u \in Thread |-> IF InCall(u)' THEN seen[u] \cup {loc'[u].work.key \in Values'}
                                  ELSE {}]
    BY DEF HistoryNext
  <1>2. ASSUME NEW u \in Thread
        PROVE  (IF InCall(u)' THEN seen[u] \cup {loc'[u].work.key \in Values'} ELSE {}) = seen[u]
    <2>1. CallOf(u)' = CallOf(u)
      BY DEF Calls
    <2>2. /\ InCall(u) <=> CallOf(u).op # "NONE"
          /\ InCall(u) => CallOf(u) = loc[u].work
      BY CallTypes DEF HistoryInv, Ordered
    <2>3. /\ InCall(u)' <=> CallOf(u)'.op # "NONE"
          /\ InCall(u)' => CallOf(u)' = loc'[u].work
      BY CallTypesNext DEF HistoryInv, Ordered
    <2>4. (InCall(u)' <=> InCall(u)) /\ (InCall(u) => loc'[u].work = loc[u].work)
      BY <2>1, <2>2, <2>3
    <2> QED
      BY <2>4 DEF HistoryInv, SeenOK
  <1>3. seen' = seen
    BY <1>1, <1>2 DEF HistoryInv, SeenOK
  <1> QED
    BY <1>3 DEF Set!vars, Calls, Effects, Answers
LEMMA InvokesMaps ==
    ASSUME HistoryInv, HistoryInv', HistoryNext, NEW t, NEW c, Invokes(t, c)
    PROVE  Set!Invoke(t, c)
  <1>1. t \in Thread /\ pc'[t] = "tree" /\ loc'[t] = Locals(c) /\ Inv /\ Inv'
    BY MovesOne DEF Invokes, HistoryInv, Ordered
  <1>2. Others(t)
    BY <1>1, MovesOne DEF Invokes, Others
  <1>3. Calls[t] = Set!NoCall
    BY <1>1, CallTypes DEF Invokes, Calls
  <1>4. CallOf(t)' = c
    BY <1>1 DEF CallOf, InCall, Locals
  <1>5. Effected(t)' = Effected(t) /\ Answered(t)' = Answered(t)
    BY <1>1 DEF Effected, Answered, Invokes
  <1>6. Calls' = [Calls EXCEPT ![t] = c] /\ Effects' = Effects /\ Answers' = Answers
    BY <1>1, <1>2, <1>4, <1>5, OthersKeep, CallKept
  <1>7. Values' = Values
    <2>1. Live' = Live /\ node' = node
      BY DEF Invokes, tree, Live
    <2> QED
      BY <2>1, ValuesAre, ValuesNext DEF HistoryInv
  <1>8. Set!Observe
    BY <1>1, Observed
  <1> QED
    BY <1>3, <1>6, <1>7, <1>8 DEF Set!Invoke, Calls, Effects, Answers

LEMMA ReturnsMaps ==
    ASSUME HistoryInv, HistoryInv', HistoryNext, NEW t, Returns(t)
    PROVE  Set!Return(t)
  <1>1. t \in Thread /\ pc[t] = "return" /\ pc'[t] = "idle" /\ Inv /\ Inv'
    BY MovesOne DEF Returns, HistoryInv, Ordered
  <1>2. Others(t)
    BY <1>1, MovesOne DEF Returns, Others
  <1>3. Answers[t] # {}
    BY <1>1 DEF Answers, Answered
  <1>4. CallOf(t)' = Set!NoCall
    BY <1>1 DEF CallOf, InCall, Set!NoCall
  <1>5. Effected(t)' = FALSE /\ Answered(t)' = {}
    BY <1>1 DEF Effected, Answered
  <1>6. /\ Calls' = [Calls EXCEPT ![t] = Set!NoCall]
        /\ Effects' = [Effects EXCEPT ![t] = FALSE]
        /\ Answers' = [Answers EXCEPT ![t] = {}]
    BY <1>1, <1>2, <1>4, <1>5, OthersKeep
  <1>7. Values' = Values
    <2>1. Live' = Live /\ node' = node
      BY DEF Returns, tree, Live
    <2> QED
      BY <2>1, ValuesAre, ValuesNext DEF HistoryInv
  <1>8. Set!Observe
    BY <1>1, Observed
  <1> QED
    BY <1>3, <1>6, <1>7, <1>8 DEF Set!Return, Calls, Effects, Answers

(* Where a call is until it returns. *)
LEMMA BeforeAnswer ==
    ASSUME NEW t \in Thread, Lock(t)
    PROVE  InCall(t) /\ pc[t] # "return" /\ ~Effected(t) /\ Answered(t) = {}
  BY DEF Lock, LockTree, LockRoot, LockChild, LockSide, LockSuccessor, LockOrphan, InCall,
         Effected, Answered

(* A step in which the call has its answer b. *)
LEMMA ReturnStep ==
    ASSUME HistoryInv, HistoryInv', NEW t \in Thread, Lock(t), Others(t), Outcome(t),
           pc'[t] = "return", NEW b \in BOOLEAN, loc'[t].answer = b
    PROVE  /\ Calls[t] = loc[t].work /\ Calls[t].op \in {"INSERT", "SEARCH", "DELETE"}
           /\ Set!Running(t) /\ Effects[t] = FALSE /\ Calls' = Calls
           /\ Answers' = [Answers EXCEPT ![t] = {b}]
           /\ Effects' = [Effects EXCEPT ![t] = loc[t].work.op # "SEARCH" /\ b]
  <1>1. Inv /\ Inv'
    BY DEF HistoryInv, Ordered
  <1>2. InCall(t) /\ Effected(t) = FALSE /\ Answered(t) = {}
    <2>1. Effected(t) \in BOOLEAN
      BY <1>1, LiveType DEF Effected, LocalState
    <2> QED
      BY <2>1, BeforeAnswer
  <1>3. CallOf(t) = loc[t].work /\ CallOf(t)' = loc[t].work
    BY <1>2 DEF CallOf, InCall, Outcome
  <1>4. loc[t].work.op \in {"INSERT", "SEARCH", "DELETE"}
    BY <1>1, LiveType DEF LocalState, Work
  <1>5. Answered(t)' = {b} /\ Effected(t)' = (loc[t].work.op # "SEARCH" /\ b)
    BY DEF Answered, Effected, Outcome
  <1>6. /\ Calls' = Calls /\ Answers' = [Answers EXCEPT ![t] = {b}]
        /\ Effects' = [Effects EXCEPT ![t] = loc[t].work.op # "SEARCH" /\ b]
    BY <1>1, <1>3, <1>5, OthersKeep, CallKept
  <1>7. Calls[t] = loc[t].work /\ Answers[t] = {} /\ Effects[t] = FALSE
    BY <1>2, <1>3 DEF Calls, Answers, Effects
  <1>8. Set!Running(t)
    BY <1>4, <1>7 DEF Set!Running, Calls, Answers
  <1> QED
    BY <1>4, <1>6, <1>7, <1>8

LEMMA WorksMaps ==
    ASSUME HistoryInv, HistoryInv', HistoryNext, NEW t, Works(t)
    PROVE  UNCHANGED Set!vars \/ Set!Effect(t) \/ \E b \in BOOLEAN : Set!Answer(t, b)
  <1>1. t \in Thread /\ Inv /\ Inv' /\ Lock(t) /\ ~Aborted
    BY DEF HistoryInv, Ordered, Works
  <1>2. Others(t) /\ Outcome(t)
    BY <1>1, LockAlone, LockOrdered DEF Good, HistoryInv, Ordered
  <1>3. Values = Keys(node, Live) /\ Values' = Keys(node', Live')
    BY ValuesAre, ValuesNext DEF HistoryInv
  <1>4. Set!Observe
    BY <1>1, Observed
  <1>5. (loc[t].work.key \in Values) \in seen[t]
    BY <1>1, BeforeAnswer DEF HistoryInv, SeenOK
  <1>6. CASE pc'[t] # "return"
    <2>1. InCall(t) /\ ~Effected(t) /\ Answered(t) = {} /\ loc'[t].work = loc[t].work /\ InCall(t)'
      BY <1>1, <1>2, BeforeAnswer DEF Outcome, InCall
    <2>2. CallOf(t)' = CallOf(t) /\ Effected(t)' = Effected(t) /\ Answered(t)' = Answered(t)
      BY <1>6, <2>1, BeforeAnswer, <1>1 DEF CallOf, Effected, Answered
    <2>3. Values' = Values
      BY <1>2, <1>3, <1>6 DEF Outcome
    <2> QED
      BY <1>1, <1>2, <2>2, <2>3, CallKept, Stutters
  <1>7. CASE pc'[t] = "return"
    <2>1. CASE /\ loc[t].work.op = "SEARCH" /\ Values' = Values
               /\ loc'[t].answer = (loc[t].work.key \in Values)
      <3>1. PICK b \in BOOLEAN : b = (loc[t].work.key \in Values)
        <4>1. CASE loc[t].work.key \in Values
          <5>1. TRUE = (loc[t].work.key \in Values)
            BY <4>1
          <5> QED
            BY <5>1, Zenon
        <4>2. CASE loc[t].work.key \notin Values
          <5>1. FALSE = (loc[t].work.key \in Values)
            BY <4>2
          <5> QED
            BY <5>1, Zenon
        <4> QED
          BY <4>1, <4>2
      <3>2. /\ Calls[t] = loc[t].work /\ Set!Running(t) /\ Calls' = Calls
            /\ Answers' = [Answers EXCEPT ![t] = {b}]
            /\ Effects[t] = FALSE /\ Effects' = [Effects EXCEPT ![t] = FALSE]
        BY <1>1, <1>2, <1>7, <2>1, <3>1, ReturnStep
      <3>3. Effects' = Effects
        BY <3>2 DEF Effects
      <3>4. Set!Right(t, b)
        BY <1>5, <2>1, <3>1, <3>2 DEF Set!Right, Calls
      <3>5. Set!Answer(t, b)
        BY <1>4, <2>1, <3>2, <3>3, <3>4 DEF Set!Answer, Calls, Effects, Answers
      <3> QED
        BY <3>5
    <2>2. CASE /\ loc[t].work.op = "DELETE" /\ Values' = Values
               /\ loc'[t].answer = FALSE /\ loc[t].work.key \notin Values
      <3>1. /\ Calls[t] = loc[t].work /\ Set!Running(t) /\ Calls' = Calls
            /\ Answers' = [Answers EXCEPT ![t] = {FALSE}]
            /\ Effects[t] = FALSE /\ Effects' = [Effects EXCEPT ![t] = FALSE]
        BY <1>1, <1>2, <1>7, <2>2, ReturnStep
      <3>2. Effects' = Effects
        BY <3>1 DEF Effects
      <3>3. Set!Right(t, FALSE)
        <4>1. (loc[t].work.key \in Values) = FALSE
          BY <2>2
        <4>2. FALSE \in seen[t]
          BY <1>5, <4>1, Zenon
        <4>3. Calls[t].op = "DELETE" /\ FALSE = Effects[t]
          BY <2>2, <3>1
        <4> QED
          BY <4>2, <4>3 DEF Set!Right, Calls, Effects
      <3>4. Set!Answer(t, FALSE)
        BY <1>4, <2>2, <3>1, <3>2, <3>3 DEF Set!Answer, Calls, Effects, Answers
      <3> QED
        BY <3>4
    <2>3. CASE /\ loc'[t].answer = TRUE
               /\ \/ /\ loc[t].work.op = "INSERT" /\ loc[t].work.key \notin Values
                     /\ Values' = Values \cup {loc[t].work.key}
                  \/ /\ loc[t].work.op = "DELETE" /\ loc[t].work.key \in Values
                     /\ Values' = Values \ {loc[t].work.key}
      <3>1. /\ Calls[t] = loc[t].work /\ Set!Running(t) /\ Calls' = Calls
            /\ Answers' = [Answers EXCEPT ![t] = {TRUE}]
            /\ Effects[t] = FALSE /\ Effects' = [Effects EXCEPT ![t] = TRUE]
        BY <1>1, <1>2, <1>7, <2>3, ReturnStep
      <3>2. Set!Effect(t)
        BY <1>4, <2>3, <3>1 DEF Set!Effect, Calls, Effects, Answers
      <3> QED
        BY <3>2
    <2> QED
      BY <1>2, <1>3, <1>7, <2>1, <2>2, <2>3 DEF Outcome
  <1> QED
    BY <1>6, <1>7

LEMMA InitMaps ==
    ASSUME HistoryInit
    PROVE  Set!Init
  <1>1. Values = {}
    <2>1. Live = {} /\ Ordered
      BY InitOrdered DEF HistoryInit, Init, Live
    <2> QED
      BY <2>1, ValuesAre DEF Keys
  <1> QED
    BY <1>1 DEF HistoryInit, Init, Set!Init, CallOf, InCall, Effected, Answered, Set!NoCall

LEMMA NextMaps ==
    ASSUME HistoryInv, HistoryInv', [HistoryNext]_<<vars, seen>>
    PROVE  [Set!Next]_(Set!vars)
  <1>1. CASE UNCHANGED <<vars, seen>>
    <2>1. Values' = Values
      <3>1. Live' = Live /\ node' = node
        BY <1>1 DEF vars, tree, Live
      <3> QED
        BY <3>1, ValuesAre, ValuesNext DEF HistoryInv
    <2>2. pc' = pc /\ loc' = loc /\ seen' = seen
      BY <1>1 DEF vars
    <2>3. Calls' = Calls /\ Effects' = Effects /\ Answers' = Answers
      BY <2>2 DEF Calls, Effects, Answers, CallOf, InCall, Effected, Answered
    <2> QED
      BY <2>1, <2>2, <2>3 DEF Set!vars, Calls, Effects, Answers
  <1>2. CASE HistoryNext
    <2>1. Inv /\ KeysOK /\ Next
      BY <1>2 DEF HistoryInv, Ordered, HistoryNext
    <2>2. CASE UNCHANGED vars
      <3>1. Values' = Values
        <4>1. Live' = Live /\ node' = node
          BY <2>2 DEF vars, tree, Live
        <4> QED
          BY <4>1, ValuesAre, ValuesNext DEF HistoryInv
      <3>2. pc' = pc /\ loc' = loc
        BY <2>2 DEF vars
      <3>3. Calls' = Calls /\ Effects' = Effects /\ Answers' = Answers
        BY <3>2 DEF Calls, Effects, Answers, CallOf, InCall, Effected, Answered
      <3> QED
        BY <1>2, <3>1, <3>3, Stutters
    <2>3. ASSUME NEW t, NEW c, Invokes(t, c) PROVE Set!Next
      <3>1. t \in Thread /\ c \in Set!Call
        BY <2>3 DEF Invokes, CallOn, Set!Call
      <3> QED
        BY <1>2, <2>3, <3>1, InvokesMaps DEF Set!Next
    <2>4. ASSUME NEW t, Returns(t) PROVE Set!Next
      BY <1>2, <2>4, ReturnsMaps DEF Set!Next, Returns
    <2>5. ASSUME NEW t, Works(t) PROVE [Set!Next]_(Set!vars)
      BY <1>2, <2>5, WorksMaps DEF Set!Next, Works
    <2> QED
      BY <2>1, <2>2, <2>3, <2>4, <2>5, Steps
  <1> QED
    BY <1>1, <1>2

(* insert(), remove() and search() on the fine-grained tree are the calls  *)
(* of an atomic set.                                                       *)
THEOREM AlwaysLinearizable == HistorySpec => Linearizable
  <1>1. HistoryInit => HistoryInv /\ Set!Init
    BY InitHistory, InitMaps
  <1>2. HistoryInv /\ [HistoryNext]_<<vars, seen>> => HistoryInv'
    BY NextHistory
  <1>3. HistoryInv /\ HistoryInv' /\ [HistoryNext]_<<vars, seen>> => [Set!Next]_(Set!vars)
    BY NextMaps
  <1> QED
    BY <1>1, <1>2, <1>3, PTL DEF HistorySpec, Linearizable, Set!Spec
=============================================================================
