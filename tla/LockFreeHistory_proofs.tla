---------------------- MODULE LockFreeHistory_proofs ----------------------
(***************************************************************************)
(* The operations of the lock-free tree, for any number of threads,        *)
(* initial tree and trace, when no deleted block is used again: no op of a *)
(* node ever comes back, and of a relocation the past of its nodes tells   *)
(* how it has ended, or can end.                                           *)
(*                                                                         *)
(* The operators below speak of a heap: N, P, C, R, D and B stand for      *)
(* node, past, cas, reloc, deleted and blocks, so that the lemmas can be   *)
(* used of the heap before and after a step.                               *)
(***************************************************************************)
EXTENDS LockFreeHistory, LockFreeBST_proofs

Flagged(f, a) == [flag |-> f, op |-> a]
ToDest(a) == Flagged("RELOCATE", a)

(* The values that the op of n has had and has. *)
Had(N, P, n) == P[n] \cup {N[n].op}

HistoryOK(N, P) ==
    /\ P \in [DOMAIN N -> SUBSET OpPtr]
    /\ \A n \in DOMAIN N : N[n].op \in OpPtr

NoneRepeats(N, P) == \A n \in DOMAIN N : N[n].op \notin P[n]

(* No two blocks have one address, and the next one of a thread is new. *)
Fresh(N, C, R, D, B) ==
    /\ D \subseteq DOMAIN R
    /\ DOMAIN C \cap DOMAIN R = {}
    /\ \A a \in DOMAIN N \cup DOMAIN C \cup DOMAIN R : a[2] < B[a[1]]

(* What a value of an op tells: the address without a flag of an operation *)
(* is there only after the operation, and nothing comes after a mark.      *)
Traced(N, P, C, R) ==
    \A n \in DOMAIN N : \A p \in Had(N, P, n) :
        /\ p.flag = "CHILDCAS" => p.op \in DOMAIN C
        /\ p.flag = "RELOCATE" => p.op \in DOMAIN R
        /\ p.flag = "NONE" /\ p.op # NoOp =>
              \E f \in {"CHILDCAS", "RELOCATE"} : Flagged(f, p.op) \in P[n]
        /\ p.flag = "MARK" => p \notin P[n]

(* A relocation reaches its dest only in place of dest_op, leaves it only  *)
(* when it has succeeded, and has failed only if it can never get there.   *)
RelocationOK(N, P, R, a) ==
    LET d == R[a].dest
    IN  /\ d \in DOMAIN N
        /\ R[a].dest_op \in Had(N, P, d)
        /\ ToDest(a) \in Had(N, P, d) => R[a].dest_op \in P[d]
        /\ ToDest(a) \in P[d] => R[a].state = "SUCCESSFUL"
        /\ R[a].state = "FAILED" => ToDest(a) \notin Had(N, P, d) /\ R[a].dest_op \in P[d]

HeapOps(N, P, C, R, D, B) ==
    /\ HistoryOK(N, P) /\ NoneRepeats(N, P) /\ Fresh(N, C, R, D, B)
    /\ Traced(N, P, C, R)
    /\ \A a \in DOMAIN R : RelocationOK(N, P, R, a)

(* What a thread at label at, with local variables l, has read of op       *)
(* fields and knows of the relocation that it helps.                       *)
CurrLabel == (FindLabel \ {"find"}) \cup OpLabel

ReadOps(N, P, R, l, at) ==
    /\ l.auxRoot # base_root =>
          l.auxRoot \in DOMAIN N /\ l.auxRoot_op \in Had(N, P, l.auxRoot)
    /\ at \in CurrLabel => l.curr \in DOMAIN N /\ l.curr_op \in Had(N, P, l.curr)

Knows(N, P, R, l, at) ==
    LET a == l.reloc_op
        d == R[a].dest
    IN  /\ at = "reloc_won" => a \in DOMAIN R /\ ToDest(a) \in Had(N, P, d)
        /\ at = "reloc_lost" =>
              a \in DOMAIN R /\ ToDest(a) # N[d].op /\ R[a].dest_op \in P[d]
        /\ \/ at \in {"reloc_key", "reloc_clear"}
           \/ at = "reloc_curr" /\ l.seen_state = "SUCCESSFUL"
           => a \in DOMAIN R /\ R[a].state = "SUCCESSFUL"

ThreadOps(N, P, R, l, at) == ReadOps(N, P, R, l, at) /\ Knows(N, P, R, l, at)

OpsInv ==
    /\ HeapOps(node, past, cas, reloc, deleted, blocks)
    /\ \A t \in Thread : ThreadOps(node, past, reloc, loc[t], pc[t])

-----------------------------------------------------------------------------
(***************************************************************************)
(* A step from heap N to heap M, as the history sees it.                   *)
(***************************************************************************)
Remembered(N, P, M) ==
    [n \in DOMAIN M |->
        IF n \notin DOMAIN N THEN {}
        ELSE IF M[n].op = N[n].op THEN P[n]
        ELSE P[n] \cup {N[n].op}]

SameOps(N, M) == DOMAIN M = DOMAIN N /\ \A n \in DOMAIN N : M[n].op = N[n].op

LEMMA SameOpsHistory ==
    ASSUME NEW N, NEW M, NEW P, HistoryOK(N, P), SameOps(N, M)
    PROVE  Remembered(N, P, M) = P
  BY DEF HistoryOK, SameOps, Remembered

LEMMA SameOpsHeap ==
    ASSUME NEW N, NEW M, NEW P, NEW C, NEW R, NEW D, NEW E, NEW B,
           HeapOps(N, P, C, R, D, B), SameOps(N, M), E \subseteq DOMAIN R
    PROVE  HeapOps(M, P, C, R, E, B)
  <1>1. HistoryOK(M, P) /\ NoneRepeats(M, P) /\ Fresh(M, C, R, E, B)
    BY DEF HeapOps, HistoryOK, NoneRepeats, Fresh, SameOps
  <1>2. Traced(M, P, C, R)
    BY DEF HeapOps, Traced, Had, SameOps
  <1>3. ASSUME NEW a \in DOMAIN R PROVE RelocationOK(M, P, R, a)
    BY DEF HeapOps, RelocationOK, Had, SameOps
  <1> QED
    BY <1>1, <1>2, <1>3 DEF HeapOps

LEMMA SameOpsThread ==
    ASSUME NEW N, NEW M, NEW P, NEW C, NEW R, NEW D, NEW B, NEW l, NEW at,
           HeapOps(N, P, C, R, D, B), SameOps(N, M), ThreadOps(N, P, R, l, at)
    PROVE  ThreadOps(M, P, R, l, at)
  <1>1. ReadOps(M, P, R, l, at)
    BY DEF ThreadOps, ReadOps, Had, SameOps
  <1>2. \A a \in DOMAIN R : R[a].dest \in DOMAIN N
    BY DEF HeapOps, RelocationOK
  <1>3. Knows(M, P, R, l, at)
    BY <1>2 DEF ThreadOps, Knows, Had, SameOps
  <1> QED
    BY <1>1, <1>3 DEF ThreadOps

-----------------------------------------------------------------------------
(***************************************************************************)
(* A step that changes the op of one node n to w.                          *)
(***************************************************************************)
Changed(N, M, n, w) ==
    /\ n \in DOMAIN N /\ DOMAIN N \subseteq DOMAIN M
    /\ w \in OpPtr /\ M[n].op = w
    /\ \A x \in DOMAIN N \ {n} : M[x].op = N[x].op
    /\ \A x \in DOMAIN M \ DOMAIN N : M[x].op = NullOp

(* The operations after the step: those there were, and new relocations of *)
(* which nothing is decided.                                               *)
Extended(N, P, C, R, S, T) ==
    /\ DOMAIN C \subseteq DOMAIN S /\ DOMAIN R \subseteq DOMAIN T
    /\ \A a \in DOMAIN R : T[a] = R[a]
    /\ \A a \in DOMAIN T \ DOMAIN R :
          LET d == T[a].dest
          IN  d \in DOMAIN N /\ T[a].dest_op \in Had(N, P, d) /\ T[a].state = "ONGOING"

(* What w must be. *)
Allowed(N, P, R, S, T, n, w) ==
    /\ w \notin Had(N, P, n)
    /\ N[n].op.flag # "MARK"
    /\ w.flag = "CHILDCAS" => w.op \in DOMAIN S
    /\ w.flag = "RELOCATE" => w.op \in DOMAIN T
    /\ w.flag = "NONE" => \E f \in {"CHILDCAS", "RELOCATE"} : N[n].op = Flagged(f, w.op)
    /\ \A a \in DOMAIN R : R[a].dest = n =>
          /\ w = ToDest(a) => N[n].op = R[a].dest_op
          /\ N[n].op = ToDest(a) => R[a].state = "SUCCESSFUL"

(* The history Q after it. *)
Past(N, P, M, Q, n, w) ==
    /\ Q[n] = Had(N, P, n) /\ Had(M, Q, n) = Had(N, P, n) \cup {w}
    /\ \A x \in DOMAIN N \ {n} : Q[x] = P[x] /\ Had(M, Q, x) = Had(N, P, x)
    /\ \A x \in DOMAIN M \ DOMAIN N : Q[x] = {} /\ Had(M, Q, x) = {NullOp}

LEMMA ChangedHistory ==
    ASSUME NEW N, NEW M, NEW P, NEW Q, NEW n, NEW w,
           HistoryOK(N, P), Changed(N, M, n, w), w \notin Had(N, P, n),
           Q = Remembered(N, P, M)
    PROVE  Past(N, P, M, Q, n, w) /\ HistoryOK(M, Q)
  <1>1. NullOp \in OpPtr
    BY DEF NullOp, OpAt, OpPtr, Flag
  <1>2. /\ DOMAIN Q = DOMAIN M
        /\ Q[n] = P[n] \cup {N[n].op}
        /\ \A x \in DOMAIN N \ {n} : Q[x] = P[x]
        /\ \A x \in DOMAIN M \ DOMAIN N : Q[x] = {}
    BY DEF Changed, Had, Remembered
  <1>3. Past(N, P, M, Q, n, w)
    BY <1>2 DEF Past, Changed, Had
  <1>4. \A x \in DOMAIN M : Q[x] \in SUBSET OpPtr /\ M[x].op \in OpPtr
    BY <1>1, <1>2 DEF HistoryOK, Changed
  <1>5. Q \in [DOMAIN M -> SUBSET OpPtr]
    BY <1>2, <1>4 DEF Remembered
  <1> QED
    BY <1>3, <1>4, <1>5 DEF HistoryOK

LEMMA ChangedNoneRepeats ==
    ASSUME NEW N, NEW M, NEW P, NEW Q, NEW n, NEW w,
           NoneRepeats(N, P), Changed(N, M, n, w), w \notin Had(N, P, n),
           Past(N, P, M, Q, n, w)
    PROVE  NoneRepeats(M, Q)
  BY DEF NoneRepeats, Changed, Past

LEMMA ChangedTraced ==
    ASSUME NEW N, NEW M, NEW P, NEW Q, NEW C, NEW R, NEW S, NEW T, NEW n, NEW w,
           Traced(N, P, C, R), Changed(N, M, n, w), Extended(N, P, C, R, S, T),
           Allowed(N, P, R, S, T, n, w), Past(N, P, M, Q, n, w)
    PROVE  Traced(M, Q, S, T)
  <1> SUFFICES ASSUME NEW x \in DOMAIN M, NEW p \in Had(M, Q, x)
               PROVE  /\ p.flag = "CHILDCAS" => p.op \in DOMAIN S
                      /\ p.flag = "RELOCATE" => p.op \in DOMAIN T
                      /\ p.flag = "NONE" /\ p.op # NoOp =>
                            \E f \in {"CHILDCAS", "RELOCATE"} : Flagged(f, p.op) \in Q[x]
                      /\ p.flag = "MARK" => p \notin Q[x]
    BY DEF Traced
  <1>1. CASE x \in DOMAIN N \ {n}
    BY <1>1 DEF Traced, Extended, Past
  <1>2. CASE x \in DOMAIN M \ DOMAIN N
    <2>1. p = NullOp
      BY <1>2 DEF Past
    <2> QED
      BY <2>1 DEF NullOp, OpAt
  <1>3. CASE x = n /\ p = w
    <2>1. Q[x] = Had(N, P, n)
      BY <1>3 DEF Past
    <2>2. N[n].op \in Had(N, P, n)
      BY DEF Had
    <2> QED
      BY <1>3, <2>1, <2>2 DEF Allowed
  <1>4. CASE x = n /\ p \in Had(N, P, n)
    <2>1. Q[n] = Had(N, P, n) /\ P[n] \subseteq Q[n] /\ n \in DOMAIN N
      BY DEF Past, Had, Changed
    <2>2. p.flag # "MARK"
      <3>1. p \in P[n] => p.flag # "MARK"
        BY <1>4, <2>1 DEF Traced
      <3>2. p = N[n].op => p.flag # "MARK"
        BY DEF Allowed
      <3> QED
        BY <1>4, <3>1, <3>2 DEF Had
    <2> QED
      BY <1>4, <2>1, <2>2 DEF Traced, Extended
  <1> QED
    BY <1>1, <1>2, <1>3, <1>4 DEF Past, Changed

LEMMA ChangedRelocation ==
    ASSUME NEW N, NEW M, NEW P, NEW Q, NEW C, NEW R, NEW S, NEW T, NEW n, NEW w,
           NoneRepeats(N, P), Traced(N, P, C, R), \A a \in DOMAIN R : RelocationOK(N, P, R, a),
           Changed(N, M, n, w), Extended(N, P, C, R, S, T),
           Allowed(N, P, R, S, T, n, w), Past(N, P, M, Q, n, w), NEW a \in DOMAIN T
    PROVE  RelocationOK(M, Q, T, a)
  <1> DEFINE d == T[a].dest
             o == T[a].dest_op
             w2 == ToDest(a)
  <1>1. d \in DOMAIN N /\ o \in Had(N, P, d)
    <2>1. CASE a \in DOMAIN R
      <3>1. T[a] = R[a] /\ RelocationOK(N, P, R, a)
        BY <2>1 DEF Extended
      <3> QED
        BY <3>1 DEF RelocationOK
    <2>2. CASE a \notin DOMAIN R
      BY <2>2 DEF Extended
    <2> QED
      BY <2>1, <2>2
  <1>2. /\ d \in DOMAIN M
        /\ Had(N, P, d) \subseteq Had(M, Q, d) /\ P[d] \subseteq Q[d]
        /\ d # n => Had(M, Q, d) = Had(N, P, d) /\ Q[d] = P[d]
        /\ d = n => Had(M, Q, d) = Had(N, P, d) \cup {w} /\ Q[d] = Had(N, P, d)
    BY <1>1 DEF Changed, Past, Had
  <1>3. CASE a \in DOMAIN R
    <2>1. /\ w2 \in Had(N, P, d) => o \in P[d]
          /\ w2 \in P[d] => T[a].state = "SUCCESSFUL"
          /\ T[a].state = "FAILED" => w2 \notin Had(N, P, d) /\ o \in P[d]
      BY <1>3 DEF Extended, RelocationOK
    <2>2. d = n => /\ w = w2 => N[n].op = o
                   /\ N[n].op = w2 => T[a].state = "SUCCESSFUL"
      BY <1>3 DEF Allowed, Extended
    <2>3. N[d].op \notin P[d]
      BY <1>1 DEF NoneRepeats
    <2> HIDE DEF d, o, w2
    <2>4. w2 \in Had(M, Q, d) => o \in Q[d]
      BY <1>1, <1>2, <2>1, <2>2
    <2>5. w2 \in Q[d] => T[a].state = "SUCCESSFUL"
      <3>1. Had(N, P, d) = P[d] \cup {N[d].op}
        BY DEF Had
      <3> QED
        BY <1>2, <2>1, <2>2, <3>1
    <2>6. T[a].state = "FAILED" => w2 \notin Had(M, Q, d) /\ o \in Q[d]
      BY <1>2, <2>1, <2>2, <2>3
    <2> QED
      BY <1>1, <1>2, <2>4, <2>5, <2>6 DEF RelocationOK, d, o, w2
  <1>4. CASE a \notin DOMAIN R
    <2>1. w2 \notin Had(N, P, d)
      <3>1. w2.flag = "RELOCATE" /\ w2.op = a
        BY DEF ToDest, Flagged
      <3> HIDE DEF w2, d
      <3>2. w2 \in Had(N, P, d) => w2.op \in DOMAIN R
        BY <1>1, <3>1 DEF Traced
      <3> QED
        BY <1>4, <3>1, <3>2
    <2>2. T[a].state = "ONGOING"
      BY <1>4 DEF Extended
    <2>3. P[d] \subseteq Had(N, P, d)
      BY DEF Had
    <2> HIDE DEF d, o, w2
    <2>4. w2 \in Had(M, Q, d) => o \in Q[d]
      BY <1>1, <1>2, <2>1
    <2>5. w2 \notin Q[d]
      BY <1>2, <2>1, <2>3
    <2> QED
      BY <1>1, <1>2, <2>2, <2>4, <2>5 DEF RelocationOK, d, o, w2
  <1> QED
    BY <1>3, <1>4

LEMMA ChangedHeap ==
    ASSUME NEW N, NEW M, NEW P, NEW Q, NEW C, NEW R, NEW D, NEW B,
           NEW S, NEW T, NEW E, NEW A, NEW n, NEW w,
           HeapOps(N, P, C, R, D, B), Changed(N, M, n, w), Q = Remembered(N, P, M),
           Extended(N, P, C, R, S, T), Allowed(N, P, R, S, T, n, w), Fresh(M, S, T, E, A)
    PROVE  HeapOps(M, Q, S, T, E, A) /\ Past(N, P, M, Q, n, w)
  <1>1. Past(N, P, M, Q, n, w) /\ HistoryOK(M, Q)
    BY ChangedHistory DEF HeapOps, Allowed
  <1>2. NoneRepeats(M, Q)
    BY <1>1, ChangedNoneRepeats DEF HeapOps, Allowed
  <1>3. Traced(M, Q, S, T)
    BY <1>1, ChangedTraced DEF HeapOps
  <1>4. \A a \in DOMAIN T : RelocationOK(M, Q, T, a)
    BY <1>1, ChangedRelocation DEF HeapOps
  <1> QED
    BY <1>1, <1>2, <1>3, <1>4 DEF HeapOps

(* What a thread has read is true after the step too. *)
LEMMA ChangedThread ==
    ASSUME NEW N, NEW M, NEW P, NEW Q, NEW C, NEW R, NEW D, NEW B, NEW S, NEW T,
           NEW n, NEW w, NEW l, NEW at,
           HeapOps(N, P, C, R, D, B), Changed(N, M, n, w), Extended(N, P, C, R, S, T),
           Allowed(N, P, R, S, T, n, w), Past(N, P, M, Q, n, w), ThreadOps(N, P, R, l, at)
    PROVE  ThreadOps(M, Q, T, l, at)
  <1>1. \A x \in DOMAIN N :
           x \in DOMAIN M /\ Had(N, P, x) \subseteq Had(M, Q, x) /\ P[x] \subseteq Q[x]
    BY DEF Changed, Past, Had
  <1>2. ReadOps(M, Q, T, l, at)
    BY <1>1 DEF ThreadOps, ReadOps
  <1>3. \A a \in DOMAIN R : a \in DOMAIN T /\ T[a] = R[a] /\ R[a].dest \in DOMAIN N
    BY DEF HeapOps, RelocationOK, Extended
  <1>4. ASSUME NEW a \in DOMAIN R, NEW d, d = R[a].dest, ToDest(a) # N[d].op,
               R[a].dest_op \in P[d]
        PROVE  ToDest(a) # M[d].op
    <2>1. d \in DOMAIN N
      BY <1>3, <1>4
    <2>2. CASE d # n
      BY <2>1, <2>2, <1>4 DEF Changed
    <2>3. CASE d = n /\ ToDest(a) = w
      <3>1. N[n].op = R[a].dest_op
        BY <1>4, <2>3 DEF Allowed
      <3> QED
        BY <1>4, <2>1, <2>3, <3>1 DEF HeapOps, NoneRepeats
    <2>4. CASE d = n /\ ToDest(a) # w
      BY <2>4 DEF Changed
    <2> QED
      BY <2>2, <2>3, <2>4
  <1>5. Knows(M, Q, T, l, at)
    <2>1. Knows(N, P, R, l, at)
      BY DEF ThreadOps
    <2>2. at = "reloc_lost" => ToDest(l.reloc_op) # M[T[l.reloc_op].dest].op
      BY <1>3, <1>4, <2>1 DEF Knows
    <2> QED
      BY <1>1, <1>3, <2>1, <2>2 DEF Knows
  <1> QED
    BY <1>2, <1>5 DEF ThreadOps

-----------------------------------------------------------------------------
(* A step that decides relocation a: s is SUCCESSFUL or FAILED. *)
Decided(R, T, a, s) ==
    /\ DOMAIN T = DOMAIN R /\ a \in DOMAIN R
    /\ \A x \in DOMAIN R :
          /\ T[x].dest = R[x].dest /\ T[x].dest_op = R[x].dest_op
          /\ T[x].state = IF x = a /\ R[a].state = "ONGOING" THEN s ELSE R[x].state

LEMMA DecidedHeap ==
    ASSUME NEW N, NEW P, NEW C, NEW R, NEW D, NEW B, NEW T, NEW a,
           NEW s \in {"SUCCESSFUL", "FAILED"}, HeapOps(N, P, C, R, D, B), Decided(R, T, a, s),
           s = "FAILED" => ToDest(a) # N[R[a].dest].op /\ R[a].dest_op \in P[R[a].dest]
    PROVE  HeapOps(N, P, C, T, D, B)
  <1>1. Fresh(N, C, T, D, B) /\ Traced(N, P, C, T)
    BY DEF HeapOps, Fresh, Traced, Decided
  <1>2. ASSUME NEW x \in DOMAIN T PROVE RelocationOK(N, P, T, x)
    <2>1. x \in DOMAIN R /\ RelocationOK(N, P, R, x)
      BY <1>2 DEF HeapOps, Decided
    <2>2. CASE T[x].state = R[x].state
      BY <2>1, <2>2 DEF Decided, RelocationOK
    <2>3. CASE x = a /\ R[a].state = "ONGOING" /\ T[x].state = s
      BY <2>1, <2>3 DEF Decided, RelocationOK, Had
    <2> QED
      BY <2>1, <2>2, <2>3 DEF Decided
  <1> QED
    BY <1>1, <1>2 DEF HeapOps

LEMMA DecidedThread ==
    ASSUME NEW N, NEW P, NEW R, NEW T, NEW a, NEW s, Decided(R, T, a, s),
           NEW l, NEW at, ThreadOps(N, P, R, l, at)
    PROVE  ThreadOps(N, P, T, l, at)
  <1>1. Knows(N, P, T, l, at)
    BY DEF ThreadOps, Knows, Decided
  <1> QED
    BY <1>1 DEF ThreadOps, ReadOps

-----------------------------------------------------------------------------
(***************************************************************************)
(* A step of thread t: the change of the heap, and where t goes on.        *)
(***************************************************************************)
Moves(t) ==
    \E at, m : Goto(t, at) /\ SetLocals(t, m) /\ ThreadOps(node, past, reloc, m, at)

LEMMA OthersStay ==
    ASSUME Inv, NEW t \in Thread, NEW at, NEW m, Goto(t, at), SetLocals(t, m),
           NEW u \in Thread
    PROVE  /\ u = t => pc'[u] = at /\ loc'[u] = m
           /\ u # t => pc'[u] = pc[u] /\ loc'[u] = loc[u]
  BY DEF Inv, TypeOK, Goto, SetLocals

LEMMA QuietStep ==
    ASSUME Inv, OpsInv, NEW t \in Thread, Moves(t), past' = Remembered(node, past, node'),
           SameOps(node, node'), UNCHANGED <<cas, reloc, blocks>>, deleted' \subseteq DOMAIN reloc
    PROVE  OpsInv'
  <1>1. PICK at, m :
           Goto(t, at) /\ SetLocals(t, m) /\ ThreadOps(node, past, reloc, m, at)
    BY DEF Moves
  <1>2. past' = past
    BY SameOpsHistory DEF OpsInv, HeapOps
  <1>3. HeapOps(node', past', cas', reloc', deleted', blocks')
    BY <1>2, SameOpsHeap DEF OpsInv
  <1>4. ASSUME NEW u \in Thread PROVE ThreadOps(node', past', reloc', loc'[u], pc'[u])
    <2>1. ThreadOps(node, past, reloc, loc'[u], pc'[u])
      BY <1>1, OthersStay DEF OpsInv
    <2> QED
      BY <1>2, <2>1, SameOpsThread DEF OpsInv
  <1> QED
    BY <1>3, <1>4 DEF OpsInv

LEMMA ChangeStep ==
    ASSUME Inv, OpsInv, NEW t \in Thread, past' = Remembered(node, past, node'),
           NEW n, NEW w, Changed(node, node', n, w),
           Extended(node, past, cas, reloc, cas', reloc'),
           Allowed(node, past, reloc, cas', reloc', n, w),
           Fresh(node', cas', reloc', deleted', blocks'),
           \/ Moves(t)
           \/ \E at, m :
                 Goto(t, at) /\ SetLocals(t, m) /\ ThreadOps(node', past', reloc', m, at)
    PROVE  OpsInv'
  <1>1. /\ HeapOps(node', past', cas', reloc', deleted', blocks')
        /\ Past(node, past, node', past', n, w)
    BY ChangedHeap DEF OpsInv
  <1>2. \A l, at : ThreadOps(node, past, reloc, l, at) => ThreadOps(node', past', reloc', l, at)
    BY <1>1, ChangedThread DEF OpsInv
  <1>3. PICK at, m :
           Goto(t, at) /\ SetLocals(t, m) /\ ThreadOps(node', past', reloc', m, at)
    BY <1>2 DEF Moves
  <1>4. ASSUME NEW u \in Thread PROVE ThreadOps(node', past', reloc', loc'[u], pc'[u])
    BY <1>2, <1>3, OthersStay DEF OpsInv
  <1> QED
    BY <1>1, <1>4 DEF OpsInv

(* A CAS of an op in which no operation is published. *)
LEMMA CASOpChange ==
    ASSUME Inv, NEW n \in DOMAIN node, NEW old, NEW new \in OpPtr, CASOp(n, old, new)
    PROVE  /\ DOMAIN node' = DOMAIN node
           /\ IF Matches(n, old) THEN Changed(node, node', n, new) ELSE SameOps(node, node')
  <1>1. node[n] \in LF_BST_Node
    BY NodeType
  <1>2. [node[n] EXCEPT !.op = new].op = new
    BY <1>1 DEF LF_BST_Node
  <1>3. CASE Matches(n, old)
    BY <1>2, <1>3 DEF CASOp, Changed
  <1>4. CASE ~Matches(n, old)
    BY <1>4 DEF CASOp, SameOps
  <1> QED
    BY <1>3, <1>4

LEMMA CASOpOps ==
    ASSUME Inv, OpsInv, NEW t \in Thread, past' = Remembered(node, past, node'),
           NEW n \in DOMAIN node, NEW old, NEW new \in OpPtr, CASOp(n, old, new),
           UNCHANGED <<cas, reloc, blocks>>, deleted' \subseteq DOMAIN reloc,
           Matches(n, old) => Allowed(node, past, reloc, cas, reloc, n, new),
           \/ Moves(t)
           \/ Matches(n, old) /\ \E at, m :
                 Goto(t, at) /\ SetLocals(t, m) /\ ThreadOps(node', past', reloc', m, at)
    PROVE  OpsInv'
  <1>1. CASE Matches(n, old)
    <2>1. Changed(node, node', n, new) /\ DOMAIN node' = DOMAIN node
      BY <1>1, CASOpChange
    <2>2. Extended(node, past, cas, reloc, cas', reloc')
      BY DEF Extended
    <2>3. Fresh(node', cas', reloc', deleted', blocks')
      BY <2>1 DEF Fresh, OpsInv, HeapOps
    <2> QED
      BY <1>1, <2>1, <2>2, <2>3, ChangeStep
  <1>2. CASE ~Matches(n, old)
    BY <1>2, CASOpChange, QuietStep
  <1> QED
    BY <1>1, <1>2

LEMMA DecideOps ==
    ASSUME Inv, OpsInv, NEW t \in Thread, past' = Remembered(node, past, node'),
           UNCHANGED <<node, cas, deleted, blocks>>, NEW a \in DOMAIN reloc,
           NEW s \in {"SUCCESSFUL", "FAILED"}, Decide(a, s),
           s = "FAILED" => /\ ToDest(a) # node[reloc[a].dest].op
                           /\ reloc[a].dest_op \in past[reloc[a].dest],
           \E at, m :
              Goto(t, at) /\ SetLocals(t, m) /\ ThreadOps(node, past, reloc', m, at)
    PROVE  OpsInv'
  <1>1. past' = past
    BY SameOpsHistory DEF OpsInv, HeapOps, SameOps
  <1>2. Decided(reloc, reloc', a, s)
    <2>1. reloc[a] \in Relocate_OP
      BY DEF Inv, TypeOK
    <2>2. /\ [reloc[a] EXCEPT !.state = s].dest = reloc[a].dest
          /\ [reloc[a] EXCEPT !.state = s].dest_op = reloc[a].dest_op
          /\ [reloc[a] EXCEPT !.state = s].state = s
      BY <2>1 DEF Relocate_OP
    <2>3. CASE reloc[a].state = "ONGOING"
      <3>1. /\ DOMAIN reloc' = DOMAIN reloc
            /\ reloc'[a] = [reloc[a] EXCEPT !.state = s]
            /\ \A x \in DOMAIN reloc : x # a => reloc'[x] = reloc[x]
        BY <2>3 DEF Decide
      <3> QED
        BY <2>2, <2>3, <3>1 DEF Decided
    <2>4. CASE reloc[a].state # "ONGOING"
      BY <2>4 DEF Decide, Decided
    <2> QED
      BY <2>3, <2>4
  <1>3. HeapOps(node, past, cas, reloc', deleted, blocks)
    BY <1>2, DecidedHeap DEF OpsInv
  <1>4. PICK at, m :
           Goto(t, at) /\ SetLocals(t, m) /\ ThreadOps(node, past, reloc', m, at)
    OBVIOUS
  <1>5. ASSUME NEW u \in Thread PROVE ThreadOps(node', past', reloc', loc'[u], pc'[u])
    BY <1>1, <1>2, <1>4, DecidedThread, OthersStay DEF OpsInv
  <1> QED
    BY <1>1, <1>3, <1>5 DEF OpsInv

-----------------------------------------------------------------------------
(***************************************************************************)
(* Where a thread goes on.                                                 *)
(***************************************************************************)
(* The labels at which nothing but the root of the search is relied on. *)
FreeLabel ==
    {"idle", "return", "find", "reloc_state", "reloc_dest"} \cup ChildLabel \cup MarkLabel

SameRoot(l, m) ==
    m.auxRoot # base_root => m.auxRoot = l.auxRoot /\ m.auxRoot_op = l.auxRoot_op

LEMMA FreeMoves ==
    ASSUME OpsInv, NEW t \in Thread, NEW at \in FreeLabel, NEW m,
           Goto(t, at), SetLocals(t, m), SameRoot(loc[t], m)
    PROVE  Moves(t)
  <1>1. ReadOps(node, past, reloc, loc[t], pc[t])
    BY DEF OpsInv, ThreadOps
  <1>2. at \notin CurrLabel
    BY DEF FreeLabel, ChildLabel, MarkLabel, CurrLabel, FindLabel, OpLabel
  <1>3. ReadOps(node, past, reloc, m, at)
    BY <1>1, <1>2 DEF ReadOps, SameRoot
  <1>4. Knows(node, past, reloc, m, at)
    BY DEF FreeLabel, ChildLabel, MarkLabel, Knows
  <1> QED
    BY <1>3, <1>4 DEF Moves, ThreadOps

LEMMA CurrMoves ==
    ASSUME OpsInv, NEW t \in Thread, NEW at \in CurrLabel, NEW m,
           Goto(t, at), SetLocals(t, m), SameRoot(loc[t], m),
           m.curr \in DOMAIN node, m.curr_op \in Had(node, past, m.curr)
    PROVE  Moves(t)
  <1>1. ReadOps(node, past, reloc, loc[t], pc[t])
    BY DEF OpsInv, ThreadOps
  <1>2. ReadOps(node, past, reloc, m, at)
    BY <1>1 DEF ReadOps, SameRoot
  <1>3. Knows(node, past, reloc, m, at)
    BY DEF CurrLabel, FindLabel, OpLabel, Knows
  <1> QED
    BY <1>2, <1>3 DEF Moves, ThreadOps

(* The op read last is one that curr has had. *)
LEMMA CurrRead ==
    ASSUME OpsInv, NEW t \in Thread, pc[t] \in CurrLabel
    PROVE  loc[t].curr \in DOMAIN node /\ loc[t].curr_op \in Had(node, past, loc[t].curr)
  BY DEF OpsInv, ThreadOps, ReadOps

LEMMA LocalsRoot ==
    ASSUME NEW l, NEW w \in Work, NEW b \in BOOLEAN
    PROVE  SameRoot(l, Locals(w)) /\ SameRoot(l, [Locals(w) EXCEPT !.answer = b])
  BY DEF SameRoot, Locals

LEMMA FindCallRoot ==
    ASSUME NEW l \in LocalState
    PROVE  SameRoot(l, FindCall(l))
  <1>1. l.work \in Work
    BY WorkType
  <1>2. CASE l.auxRoot = base_root
    BY <1>1, <1>2, LocalsRoot DEF FindCall
  <1>3. CASE l.auxRoot # base_root
    <2>1. Locals(l.work) \in LocalState
      BY <1>1, NewLocalsType
    <2> QED
      BY <1>3, <2>1 DEF FindCall, SameRoot, LocalState
  <1> QED
    BY <1>2, <1>3

LEMMA LoopMoves ==
    ASSUME Inv, OpsInv, NEW t \in Thread, Loop(t)
    PROVE  Moves(t)
  BY LocalsOf, WorkType, LocalsRoot, FreeMoves DEF Loop, FreeLabel

LEMMA RetryFindMoves ==
    ASSUME Inv, OpsInv, NEW t \in Thread, RetryFind(t)
    PROVE  Moves(t)
  BY LocalsOf, FindCallRoot, FreeMoves DEF RetryFind, FreeLabel

LEMMA AnswerMoves ==
    ASSUME Inv, OpsInv, NEW t \in Thread, NEW b \in BOOLEAN, Answer(t, b)
    PROVE  Moves(t)
  <1>1. PICK m : m = [Locals(loc[t].work) EXCEPT !.answer = b]
    OBVIOUS
  <1>2. SameRoot(loc[t], m)
    BY <1>1, LocalsOf, WorkType, LocalsRoot
  <1> QED
    BY <1>1, <1>2, FreeMoves DEF Answer, FreeLabel

LEMMA HelpedMoves ==
    ASSUME Inv, OpsInv, NEW t \in Thread, Helped(t)
    PROVE  Moves(t)
  BY RetryFindMoves, AnswerMoves DEF Helped

LEMMA helpChildCASMoves ==
    ASSUME Inv, OpsInv, NEW t \in Thread, NEW l \in LocalState, SameRoot(loc[t], l),
           NEW o, NEW d, NEW ret, helpChildCAS(t, l, o, d, ret)
    PROVE  Moves(t)
  <1>1. PICK m : m = [FindCall(l) EXCEPT !.cas_op = o, !.dest = d, !.ret = ret]
    OBVIOUS
  <1>2. FindCall(l) \in LocalState /\ SameRoot(l, FindCall(l))
    BY FindCallType, FindCallRoot
  <1>3. SameRoot(loc[t], m)
    BY <1>1, <1>2 DEF SameRoot, LocalState
  <1> QED
    BY <1>1, <1>3, FreeMoves DEF helpChildCAS, FreeLabel, ChildLabel

LEMMA helpMarkedMoves ==
    ASSUME Inv, OpsInv, NEW t \in Thread, NEW l \in LocalState, SameRoot(loc[t], l),
           NEW p, NEW p_op, NEW c, NEW ret, helpMarked(t, l, p, p_op, c, ret)
    PROVE  Moves(t)
  <1>1. PICK m : m = [FindCall(l) EXCEPT !.pred = p, !.pred_op = p_op, !.curr = c, !.ret = ret]
    OBVIOUS
  <1>2. FindCall(l) \in LocalState /\ SameRoot(l, FindCall(l))
    BY FindCallType, FindCallRoot
  <1>3. SameRoot(loc[t], m)
    BY <1>1, <1>2 DEF SameRoot, LocalState
  <1> QED
    BY <1>1, <1>3, FreeMoves DEF helpMarked, FreeLabel, MarkLabel

LEMMA helpRelocateMoves ==
    ASSUME Inv, OpsInv, NEW t \in Thread, NEW l \in LocalState, SameRoot(loc[t], l),
           NEW o, NEW p, NEW p_op, NEW c, NEW ret, helpRelocate(t, l, o, p, p_op, c, ret)
    PROVE  Moves(t)
  <1>1. PICK m : m = [FindCall(l) EXCEPT !.reloc_op = o, !.pred = p, !.pred_op = p_op,
                                         !.curr = c, !.ret = ret]
    OBVIOUS
  <1>2. FindCall(l) \in LocalState /\ SameRoot(l, FindCall(l))
    BY FindCallType, FindCallRoot
  <1>3. SameRoot(loc[t], m)
    BY <1>1, <1>2 DEF SameRoot, LocalState
  <1> QED
    BY <1>1, <1>3, FreeMoves DEF helpRelocate, FreeLabel

(* A thread goes on with the local variables it has. *)
LEMMA StayMoves ==
    ASSUME Inv, OpsInv, NEW t \in Thread, UNCHANGED loc, NEW at, Goto(t, at),
           \/ at \in FreeLabel
           \/ at \in CurrLabel /\ pc[t] \in CurrLabel
    PROVE  Moves(t)
  <1>1. SetLocals(t, loc[t]) /\ SameRoot(loc[t], loc[t])
    BY DEF Inv, TypeOK, SetLocals, SameRoot
  <1> QED
    BY <1>1, FreeMoves, CurrMoves, CurrRead

-----------------------------------------------------------------------------
(***************************************************************************)
(* The actions that only read.                                             *)
(***************************************************************************)
LEMMA CallMoves ==
    ASSUME Inv, OpsInv, NEW t \in Thread, TakeWork(t) \/ (t = Main /\ CreateTree) \/ Return(t)
    PROVE  Moves(t)
  <1>1. ASSUME NEW w \in Work, NEW at \in {"find", "idle"}, Goto(t, at), SetLocals(t, Locals(w))
        PROVE  Moves(t)
    BY <1>1, LocalsRoot, FreeMoves DEF FreeLabel
  <1>2. CASE TakeWork(t)
    <2>1. Head(queue) \in Work
      BY <1>2 DEF TakeWork, Inv, TypeOK
    <2> QED
      BY <1>1, <1>2, <2>1 DEF TakeWork
  <1>3. CASE t = Main /\ CreateTree
    <2>1. PICK w : w = [op |-> "INSERT", key |-> Head(create)]
      OBVIOUS
    <2>2. w \in Work
      BY <1>3, <2>1 DEF CreateTree, Inv, TypeOK, Work
    <2> QED
      BY <1>1, <1>3, <2>1, <2>2 DEF CreateTree
  <1>4. CASE Return(t)
    BY <1>1, <1>4 DEF Return, NoWork, Work
  <1> QED
    BY <1>2, <1>3, <1>4

LEMMA FindStartMoves ==
    ASSUME Inv, OpsInv, NEW t \in Thread, FindStart(t)
    PROVE  Moves(t)
  <1>1. PICK l, o : l = loc[t] /\ o = node[l.auxRoot].op
    OBVIOUS
  <1>2. l \in LocalState /\ l.auxRoot \in DOMAIN node
    BY <1>1, LocalsOf DEF LocalOK
  <1>3. CASE GET_FLAG(o) = "NONE"
    <2>1. PICK m : m = [l EXCEPT !.curr = l.auxRoot, !.curr_op = o, !.result = "NOTFOUND_R"]
      OBVIOUS
    <2>2. Goto(t, "find_next") /\ SetLocals(t, m)
      BY <1>1, <1>3, <2>1 DEF FindStart
    <2>3. /\ m.curr = l.auxRoot /\ m.curr_op = o
          /\ m.auxRoot = l.auxRoot /\ m.auxRoot_op = l.auxRoot_op
      BY <1>2, <2>1 DEF LocalState
    <2> QED
      BY <1>1, <1>2, <2>2, <2>3, CurrMoves DEF SameRoot, Had, CurrLabel, FindLabel
  <1>4. CASE GET_FLAG(o) # "NONE"
    BY <1>1, <1>2, <1>4, helpChildCASMoves, LoopMoves DEF FindStart, Abort, SameRoot
  <1> QED
    BY <1>3, <1>4

LEMMA FindNextMoves ==
    ASSUME Inv, OpsInv, NEW t \in Thread, FindNext(t)
    PROVE  Moves(t)
  <1>1. PICK l, child : l = loc[t] /\ child = ChildOf(node[l.curr], l.result = "NOTFOUND_L")
    OBVIOUS
  <1>2. l \in LocalState /\ pc[t] \in CurrLabel
    BY <1>1, LocalsOf DEF FindNext, CurrLabel, FindLabel
  <1>3. PICK m, at :
           /\ m = IF l.result = "NOTFOUND_L" THEN [l EXCEPT !.next = child]
                  ELSE [l EXCEPT !.next = child, !.last_right = l.curr,
                                 !.last_right_op = l.curr_op]
           /\ at = IF IS_NULL(child) THEN "find_last_right" ELSE "find_visit"
    OBVIOUS
  <1>4. Goto(t, at) /\ SetLocals(t, m) /\ at \in CurrLabel
    BY <1>1, <1>3 DEF FindNext, CurrLabel, FindLabel
  <1>5. /\ m.curr = l.curr /\ m.curr_op = l.curr_op
        /\ m.auxRoot = l.auxRoot /\ m.auxRoot_op = l.auxRoot_op
    BY <1>2, <1>3 DEF LocalState
  <1> QED
    BY <1>1, <1>2, <1>4, <1>5, CurrRead, CurrMoves DEF SameRoot

LEMMA FindVisitMoves ==
    ASSUME Inv, OpsInv, NEW t \in Thread, FindVisit(t)
    PROVE  Moves(t)
  <1>1. PICK l, c, o : l = loc[t] /\ c = l.next.node /\ o = node[c].op
    OBVIOUS
  <1>2. l \in LocalState /\ c \in DOMAIN node /\ SameRoot(loc[t], l)
    BY <1>1, LocalsOf DEF FindVisit, LocalOK, RefOK, Node, SameRoot
  <1>3. o.flag \in Flag
    BY <1>1, <1>2, NodeType DEF OpPtr
  <1>4. CASE o.flag = "NONE"
    <2>1. PICK m : m = [l EXCEPT !.pred = l.curr, !.pred_op = l.curr_op, !.curr = c,
                                 !.curr_op = o, !.next = SET_NULL(NoNode)]
      OBVIOUS
    <2>2. Goto(t, "find_key") /\ SetLocals(t, m)
      BY <1>1, <1>4, <2>1 DEF FindVisit, GET_FLAG
    <2>3. /\ m.curr = c /\ m.curr_op = o
          /\ m.auxRoot = l.auxRoot /\ m.auxRoot_op = l.auxRoot_op
      BY <1>2, <2>1 DEF LocalState
    <2> QED
      BY <1>1, <1>2, <2>2, <2>3, CurrMoves DEF SameRoot, Had, CurrLabel, FindLabel
  <1>5. CASE o.flag = "CHILDCAS"
    <2>1. Descended(l) \in LocalState /\ SameRoot(loc[t], Descended(l))
      BY <1>1, <1>2, LocalsOf, DescendedType DEF FindVisit, SameRoot
    <2> QED
      BY <1>1, <1>5, <2>1, helpChildCASMoves DEF FindVisit, GET_FLAG
  <1>6. CASE o.flag = "RELOCATE"
    BY <1>1, <1>2, <1>6, helpRelocateMoves DEF FindVisit, GET_FLAG
  <1>7. CASE o.flag = "MARK"
    BY <1>1, <1>2, <1>7, helpMarkedMoves DEF FindVisit, GET_FLAG
  <1> QED
    BY <1>3, <1>4, <1>5, <1>6, <1>7 DEF Flag

LEMMA FindKeyMoves ==
    ASSUME Inv, OpsInv, NEW t \in Thread, FindKey(t)
    PROVE  Moves(t)
  <1>1. PICK l, k : l = loc[t] /\ k = node[l.curr].key
    OBVIOUS
  <1>2. PICK res : res = IF l.work.key < k THEN "NOTFOUND_L"
                         ELSE IF l.work.key > k THEN "NOTFOUND_R" ELSE "FOUND"
    OBVIOUS
  <1>3. PICK m, at : m = [l EXCEPT !.result = res]
                     /\ at = IF res = "FOUND" THEN "find_curr" ELSE "find_next"
    OBVIOUS
  <1>4. l \in LocalState /\ pc[t] \in CurrLabel /\ at \in CurrLabel
    BY <1>1, <1>3, LocalsOf DEF FindKey, CurrLabel, FindLabel
  <1>5. Goto(t, at) /\ SetLocals(t, m)
    BY <1>1, <1>2, <1>3 DEF FindKey
  <1>6. /\ m.curr = l.curr /\ m.curr_op = l.curr_op
        /\ m.auxRoot = l.auxRoot /\ m.auxRoot_op = l.auxRoot_op
    BY <1>3, <1>4 DEF LocalState
  <1> QED
    BY <1>1, <1>4, <1>5, <1>6, CurrRead, CurrMoves DEF SameRoot

LEMMA FindCurrMoves ==
    ASSUME Inv, OpsInv, NEW t \in Thread, FindCurr(t)
    PROVE  Moves(t)
  <1>1. PICK l, m : l = loc[t] /\ m = FoundLocals(l)
    OBVIOUS
  <1>2. l \in LocalState /\ pc[t] \in CurrLabel /\ l.work.op \in {"INSERT", "SEARCH", "DELETE"}
    BY <1>1, LocalsOf DEF FindCurr, CurrLabel, FindLabel, LocalState, Work
  <1>3. CASE RetryFind(t)
    BY <1>3, RetryFindMoves
  <1>4. CASE Answer(t, l.result = "FOUND") \/ Answer(t, FALSE)
    BY <1>4, AnswerMoves
  <1>5. ASSUME NEW at \in {"add_old", "rem_right", "rem_recheck"}, Goto(t, at), SetLocals(t, m)
        PROVE  Moves(t)
    <2>1. /\ m.curr = l.curr /\ m.curr_op = l.curr_op
          /\ m.auxRoot = FindCall(l).auxRoot /\ m.auxRoot_op = FindCall(l).auxRoot_op
      BY <1>1, <1>2, FoundFields
    <2>2. SameRoot(l, m)
      BY <1>2, <2>1, FindCallRoot DEF SameRoot
    <2>3. at \in CurrLabel
      BY DEF CurrLabel, OpLabel
    <2> QED
      BY <1>1, <1>2, <1>5, <2>1, <2>2, <2>3, CurrRead, CurrMoves
  <1> QED
    BY <1>1, <1>2, <1>3, <1>4, <1>5 DEF FindCurr, FindReturn, FoundLocals

LEMMA FindMoves ==
    ASSUME Inv, OpsInv, NEW t \in Thread, Find(t)
    PROVE  Moves(t)
  <1>1. CASE FindLastRight(t)
    <2>1. pc[t] \in CurrLabel
      BY <1>1 DEF FindLastRight, CurrLabel, FindLabel
    <2> QED
      BY <1>1, <2>1, RetryFindMoves, StayMoves DEF FindLastRight, CurrLabel, FindLabel
  <1> QED
    BY <1>1, FindStartMoves, FindNextMoves, FindVisitMoves, FindKeyMoves, FindCurrMoves DEF Find

LEMMA AddReadOldMoves ==
    ASSUME Inv, OpsInv, NEW t \in Thread, AddReadOld(t)
    PROVE  Moves(t)
  <1>1. PICK l, isLeft, r : /\ l = loc[t] /\ isLeft = (l.result = "NOTFOUND_L")
                            /\ r = ChildOf(node[l.curr], isLeft)
    OBVIOUS
  <1>2. PICK m : m = [Locals(l.work) EXCEPT !.curr = l.curr, !.curr_op = l.curr_op,
                                            !.is_left = isLeft, !.old = r]
    OBVIOUS
  <1>3. l \in LocalState /\ l.work \in Work /\ pc[t] \in CurrLabel
    BY <1>1, LocalsOf, WorkType DEF AddReadOld, CurrLabel, OpLabel
  <1>4. Locals(l.work) \in LocalState
    BY <1>3, NewLocalsType
  <1>5. Goto(t, "add_cas") /\ SetLocals(t, m)
    BY <1>1, <1>2 DEF AddReadOld
  <1>6. m.curr = l.curr /\ m.curr_op = l.curr_op /\ m.auxRoot = Locals(l.work).auxRoot
    BY <1>2, <1>4 DEF LocalState
  <1>7. SameRoot(l, m)
    BY <1>6 DEF SameRoot, Locals
  <1>8. "add_cas" \in CurrLabel
    BY DEF CurrLabel, OpLabel
  <1> QED
    BY <1>1, <1>3, <1>5, <1>6, <1>7, <1>8, CurrRead, CurrMoves

LEMMA RemoveReadLeftMoves ==
    ASSUME Inv, OpsInv, NEW t \in Thread, RemoveReadLeft(t)
    PROVE  Moves(t)
  <1>1. PICK l : l = loc[t]
    OBVIOUS
  <1>2. l \in LocalState /\ pc[t] \in CurrLabel
    BY <1>1, LocalsOf DEF RemoveReadLeft, CurrLabel, OpLabel
  <1>3. CASE IS_NULL(node[l.curr].left)
    BY <1>1, <1>2, <1>3, StayMoves DEF RemoveReadLeft, CurrLabel, OpLabel
  <1>4. CASE ~IS_NULL(node[l.curr].left)
    <2>1. l.curr \in DOMAIN node /\ l.curr_op \in Had(node, past, l.curr)
      BY <1>1, <1>2, CurrRead
    <2>2. l.curr \in Addr /\ l.curr_op \in OpPtr
      BY <1>2, <2>1, NodeType DEF LocalState
    <2>3. PICK k : k = [l EXCEPT !.auxRoot = l.curr, !.auxRoot_op = l.curr_op]
      OBVIOUS
    <2>4. k \in LocalState /\ k.auxRoot = l.curr /\ k.auxRoot_op = l.curr_op
      BY <1>2, <2>2, <2>3, SetRootType DEF LocalState
    <2>5. PICK m : m = FindCall(k)
      OBVIOUS
    <2>6. m.auxRoot # base_root => m.auxRoot = l.curr /\ m.auxRoot_op = l.curr_op
      BY <2>4, <2>5, FindCallRoot DEF SameRoot
    <2>7. Goto(t, "find") /\ SetLocals(t, m)
      BY <1>1, <1>4, <2>3, <2>5 DEF RemoveReadLeft
    <2>8. ReadOps(node, past, reloc, m, "find")
      BY <2>1, <2>6 DEF ReadOps, CurrLabel, FindLabel, OpLabel
    <2>9. Knows(node, past, reloc, m, "find")
      BY DEF Knows
    <2> QED
      BY <2>7, <2>8, <2>9 DEF Moves, ThreadOps
  <1> QED
    BY <1>3, <1>4

LEMMA RemoveReadKeyMoves ==
    ASSUME Inv, OpsInv, NEW t \in Thread, RemoveReadKey(t)
    PROVE  Moves(t)
  <1>1. PICK l, m : l = loc[t] /\ m = [l EXCEPT !.replace_key = node[l.curr].key]
    OBVIOUS
  <1>2. l \in LocalState /\ pc[t] \in CurrLabel
    BY <1>1, LocalsOf DEF RemoveReadKey, CurrLabel, OpLabel
  <1>3. Goto(t, "rem_reloc") /\ SetLocals(t, m) /\ "rem_reloc" \in CurrLabel
    BY <1>1 DEF RemoveReadKey, CurrLabel, OpLabel
  <1>4. /\ m.curr = l.curr /\ m.curr_op = l.curr_op
        /\ m.auxRoot = l.auxRoot /\ m.auxRoot_op = l.auxRoot_op
    BY <1>1, <1>2 DEF LocalState
  <1> QED
    BY <1>1, <1>2, <1>3, <1>4, CurrRead, CurrMoves DEF SameRoot

LEMMA HelpMarkedReadMoves ==
    ASSUME Inv, OpsInv, NEW t \in Thread,
           \/ HelpMarkedTestLeft(t) \/ HelpMarkedTestRight(t) \/ HelpMarkedTake(t)
           \/ HelpMarkedSide(t)
    PROVE  Moves(t)
  <1>1. loc[t] \in LocalState
    BY LocalsOf
  <1>2. ASSUME NEW at \in MarkLabel, Goto(t, at), UNCHANGED loc
        PROVE  Moves(t)
    BY <1>2, StayMoves DEF FreeLabel
  <1>3. ASSUME NEW at \in MarkLabel, NEW r, Goto(t, at),
               SetLocals(t, [loc[t] EXCEPT !.new_ref = r])
        PROVE  Moves(t)
    <2>1. SameRoot(loc[t], [loc[t] EXCEPT !.new_ref = r])
      BY <1>1 DEF SameRoot, LocalState
    <2> QED
      BY <1>3, <2>1, FreeMoves DEF FreeLabel
  <1>4. ASSUME NEW at \in MarkLabel, NEW b, Goto(t, at),
               SetLocals(t, [loc[t] EXCEPT !.is_left = b])
        PROVE  Moves(t)
    <2>1. SameRoot(loc[t], [loc[t] EXCEPT !.is_left = b])
      BY <1>1 DEF SameRoot, LocalState
    <2> QED
      BY <1>4, <2>1, FreeMoves DEF FreeLabel
  <1>5. CASE HelpMarkedTestLeft(t)
    BY <1>2, <1>5 DEF HelpMarkedTestLeft, MarkLabel
  <1>6. CASE HelpMarkedTestRight(t)
    BY <1>2, <1>3, <1>6 DEF HelpMarkedTestRight, MarkLabel
  <1>7. CASE HelpMarkedTake(t)
    BY <1>3, <1>7 DEF HelpMarkedTake, MarkLabel
  <1>8. CASE HelpMarkedSide(t)
    BY <1>4, <1>8 DEF HelpMarkedSide, MarkLabel
  <1> QED
    BY <1>5, <1>6, <1>7, <1>8

(* Where a helper goes on that has seen state s. *)
LEMMA SeenMoves ==
    ASSUME Inv, NEW t \in Thread, NEW at \in RelocLabel, NEW s, NEW R,
           ReadOps(node, past, R, loc[t], "reloc_state"),
           Goto(t, at), SetLocals(t, [loc[t] EXCEPT !.seen_state = s]),
           at \notin {"reloc_won", "reloc_lost"},
           at \in {"reloc_key", "reloc_clear"} \/ (at = "reloc_curr" /\ s = "SUCCESSFUL")
              => loc[t].reloc_op \in DOMAIN R /\ R[loc[t].reloc_op].state = "SUCCESSFUL"
    PROVE  \E next, m : Goto(t, next) /\ SetLocals(t, m) /\ ThreadOps(node, past, R, m, next)
  <1>1. PICK m : m = [loc[t] EXCEPT !.seen_state = s]
    OBVIOUS
  <1>2. loc[t] \in LocalState
    BY DEF Inv, TypeOK
  <1>3. /\ m.auxRoot = loc[t].auxRoot /\ m.auxRoot_op = loc[t].auxRoot_op
        /\ m.reloc_op = loc[t].reloc_op /\ m.seen_state = s
    BY <1>1, <1>2 DEF LocalState
  <1>4. ReadOps(node, past, R, m, at)
    BY <1>3 DEF ReadOps, CurrLabel, FindLabel, OpLabel, RelocLabel
  <1>5. Knows(node, past, R, m, at)
    BY <1>3 DEF Knows
  <1> QED
    BY <1>1, <1>4, <1>5 DEF ThreadOps

LEMMA HelpRelocateStateMoves ==
    ASSUME Inv, OpsInv, NEW t \in Thread, HelpRelocateState(t)
    PROVE  Moves(t)
  <1>1. PICK a, s : a = loc[t].reloc_op /\ s = reloc[a].state
    OBVIOUS
  <1>2. a \in DOMAIN reloc
    BY <1>1, LocalsOf DEF HelpRelocateState, LocalOK, RelocLabel
  <1>3. s \in {"ONGOING", "SUCCESSFUL", "FAILED"}
    BY <1>1, <1>2 DEF Inv, TypeOK, Relocate_OP
  <1>4. Goto(t, AfterState(s)) /\ SetLocals(t, [loc[t] EXCEPT !.seen_state = s])
    BY <1>1 DEF HelpRelocateState
  <1>5. /\ AfterState(s) \in {"reloc_dest", "reloc_key", "reloc_curr"}
        /\ AfterState(s) = "reloc_key" <=> s = "SUCCESSFUL"
        /\ AfterState(s) = "reloc_curr" <=> s = "FAILED"
    BY <1>3 DEF AfterState
  <1>6. ReadOps(node, past, reloc, loc[t], "reloc_state")
    BY DEF OpsInv, ThreadOps, HelpRelocateState
  <1> QED
    BY <1>1, <1>2, <1>4, <1>5, <1>6, SeenMoves DEF Moves, RelocLabel

LEMMA ReadOnlyOps ==
    ASSUME Inv, OpsInv, NEW t \in Thread, Moves(t), past' = Remembered(node, past, node'),
           UNCHANGED heap
    PROVE  OpsInv'
  <1>1. SameOps(node, node') /\ deleted' \subseteq DOMAIN reloc
    BY DEF SameOps, heap, OpsInv, HeapOps, Fresh
  <1> QED
    BY <1>1, QuietStep DEF heap

LEMMA ReadActionOps ==
    ASSUME Inv, OpsInv, NEW t \in Thread, past' = Remembered(node, past, node'),
           \/ TakeWork(t) \/ (t = Main /\ CreateTree) \/ Return(t) \/ Find(t)
           \/ AddReadOld(t) \/ RemoveReadRight(t) \/ RemoveReadLeft(t) \/ RemoveRecheck(t)
           \/ RemoveReadKey(t) \/ HelpMarkedTestLeft(t) \/ HelpMarkedTestRight(t)
           \/ HelpMarkedTake(t) \/ HelpMarkedSide(t) \/ HelpRelocateState(t)
    PROVE  OpsInv'
  <1>1. CASE TakeWork(t) \/ (t = Main /\ CreateTree) \/ Return(t)
    BY <1>1, CallMoves, ReadOnlyOps DEF TakeWork, CreateTree, Return
  <1>2. CASE Find(t)
    BY <1>2, FindMoves, ReadOnlyOps DEF Find, FindStart, FindNext, FindVisit, FindKey,
       FindLastRight, FindCurr
  <1>3. CASE AddReadOld(t)
    BY <1>3, AddReadOldMoves, ReadOnlyOps DEF AddReadOld
  <1>4. CASE RemoveReadRight(t)
    <2>1. pc[t] \in CurrLabel /\ {"rem_mark", "rem_left"} \subseteq CurrLabel
      BY <1>4 DEF RemoveReadRight, CurrLabel, OpLabel
    <2> QED
      BY <1>4, <2>1, StayMoves, ReadOnlyOps DEF RemoveReadRight
  <1>5. CASE RemoveReadLeft(t)
    BY <1>5, RemoveReadLeftMoves, ReadOnlyOps DEF RemoveReadLeft
  <1>6. CASE RemoveRecheck(t)
    <2>1. pc[t] \in CurrLabel /\ "rem_key" \in CurrLabel
      BY <1>6 DEF RemoveRecheck, CurrLabel, OpLabel
    <2> QED
      BY <1>6, <2>1, LoopMoves, StayMoves, ReadOnlyOps DEF RemoveRecheck
  <1>7. CASE RemoveReadKey(t)
    BY <1>7, RemoveReadKeyMoves, ReadOnlyOps DEF RemoveReadKey
  <1>8. CASE \/ HelpMarkedTestLeft(t) \/ HelpMarkedTestRight(t) \/ HelpMarkedTake(t)
             \/ HelpMarkedSide(t)
    BY <1>8, HelpMarkedReadMoves, ReadOnlyOps DEF HelpMarkedTestLeft, HelpMarkedTestRight,
       HelpMarkedTake, HelpMarkedSide
  <1>9. CASE HelpRelocateState(t)
    BY <1>9, HelpRelocateStateMoves, ReadOnlyOps DEF HelpRelocateState
  <1> QED
    BY <1>1, <1>2, <1>3, <1>4, <1>5, <1>6, <1>7, <1>8, <1>9

-----------------------------------------------------------------------------
(***************************************************************************)
(* The actions that publish an operation.                                  *)
(***************************************************************************)
LEMMA NewBlock ==
    ASSUME Inv, OpsInv, NEW t \in Thread, NEW a, a = <<t, blocks[t]>>
    PROVE  /\ a \in Addr
           /\ a \notin DOMAIN node /\ a \notin DOMAIN cas /\ a \notin DOMAIN reloc
           /\ a \notin deleted
           /\ blocks' = [blocks EXCEPT ![t] = @ + 1] =>
                 \A x \in DOMAIN node \cup DOMAIN cas \cup DOMAIN reloc \cup {a} :
                     x[2] < blocks'[x[1]]
  <1>1. \A x \in DOMAIN node \cup DOMAIN cas \cup DOMAIN reloc : x[2] < blocks[x[1]]
    BY DEF OpsInv, HeapOps, Fresh
  <1>2. blocks \in [Thread -> Nat \ {0}]
    BY DEF Inv, TypeOK
  <1>3. a \in Addr /\ a[1] = t /\ a[2] = blocks[t]
    BY <1>2 DEF Addr
  <1>4. /\ a \notin DOMAIN node /\ a \notin DOMAIN cas /\ a \notin DOMAIN reloc
        /\ a \notin deleted
    <2>1. deleted \subseteq DOMAIN reloc
      BY DEF OpsInv, HeapOps, Fresh
    <2>2. ~(blocks[t] < blocks[t])
      BY <1>2
    <2> QED
      BY <1>1, <1>3, <2>1, <2>2
  <1>5. ASSUME blocks' = [blocks EXCEPT ![t] = @ + 1],
               NEW x \in DOMAIN node \cup DOMAIN cas \cup DOMAIN reloc \cup {a}
        PROVE  x[2] < blocks'[x[1]]
    <2>1. x \in Addr
      BY <1>3 DEF Inv, TypeOK
    <2>2. x[1] \in Thread /\ x[2] \in Nat
      BY <2>1 DEF Addr
    <2>3. blocks'[t] = blocks[t] + 1 /\ \A u \in Thread \ {t} : blocks'[u] = blocks[u]
      BY <1>2, <1>5
    <2>4. x # a => x[2] < blocks[x[1]]
      BY <1>1
    <2>5. blocks[t] \in Nat
      BY <1>2
    <2>6. CASE x[1] = t
      BY <1>3, <2>2, <2>3, <2>4, <2>5, <2>6
    <2>7. CASE x[1] # t
      BY <1>3, <2>2, <2>3, <2>4, <2>7
    <2> QED
      BY <2>6, <2>7
  <1> QED
    BY <1>3, <1>4, <1>5

LEMMA PublishAllowed ==
    ASSUME Inv, OpsInv, NEW t \in Thread, NEW n \in DOMAIN node, NEW w, NEW S, NEW T,
           w.flag \in {"CHILDCAS", "RELOCATE"}, w.op = <<t, blocks[t]>>,
           node[n].op.flag = "NONE",
           w.flag = "CHILDCAS" => w.op \in DOMAIN S,
           w.flag = "RELOCATE" => w.op \in DOMAIN T
    PROVE  Allowed(node, past, reloc, S, T, n, w)
  <1>1. w.op \notin DOMAIN cas /\ w.op \notin DOMAIN reloc
    BY NewBlock
  <1>2. w \notin Had(node, past, n)
    BY <1>1 DEF OpsInv, HeapOps, Traced
  <1>3. ASSUME NEW a \in DOMAIN reloc PROVE w # ToDest(a) /\ node[n].op # ToDest(a)
    BY <1>1 DEF ToDest, Flagged
  <1> QED
    BY <1>2, <1>3 DEF Allowed

LEMMA AddPublishOps ==
    ASSUME Inv, OpsInv, NEW t \in Thread, AddPublish(t), past' = Remembered(node, past, node')
    PROVE  OpsInv'
  <1>1. PICK l, a, k, w :
           /\ l = loc[t] /\ a = <<t, blocks[t]>> /\ k = l.work.key
           /\ w = SET_FLAG(OpAt(a), "CHILDCAS")
    OBVIOUS
  <1>2. l.curr \in DOMAIN node /\ l.curr_op.flag = "NONE"
    BY <1>1, LocalsOf DEF AddPublish, LocalOK, OpLabel
  <1>3. CASE Matches(l.curr, l.curr_op)
    <2>1. PICK op :
             /\ node' = [Store(node, a, create_LF_node(k)) EXCEPT ![l.curr].op = w]
             /\ cas' = Store(cas, a, op)
             /\ blocks' = [blocks EXCEPT ![t] = @ + 1]
             /\ helpChildCAS(t, l, a, l.curr, "op")
             /\ UNCHANGED <<reloc, deleted>>
      BY <1>1, <1>3 DEF AddPublish
    <2>2. a \in Addr /\ a \notin DOMAIN node
      BY <1>1, NewBlock
    <2>3. w \in OpPtr /\ w.flag = "CHILDCAS" /\ w.op = a
      BY <1>1, <2>2, OpAtType, SetFlagType DEF Flag
    <2>4. DOMAIN cas' = DOMAIN cas \cup {a} /\ DOMAIN node' = DOMAIN node \cup {a}
      BY <2>1 DEF Store
    <2>5. Changed(node, node', l.curr, w)
      <3>1. node'[l.curr] = [node[l.curr] EXCEPT !.op = w]
        BY <1>2, <2>1, <2>2 DEF Store
      <3>2. \A x \in DOMAIN node \ {l.curr} : node'[x] = node[x]
        BY <2>1, <2>2 DEF Store
      <3>3. node'[a] = create_LF_node(k)
        BY <1>2, <2>1, <2>2 DEF Store
      <3>4. node'[a].op = NullOp
        BY <3>3 DEF create_LF_node
      <3>5. node'[l.curr].op = w
        BY <1>2, <3>1, NodeType DEF LF_BST_Node
      <3> QED
        BY <1>2, <2>3, <2>4, <3>2, <3>4, <3>5 DEF Changed
    <2>6. Extended(node, past, cas, reloc, cas', reloc')
      BY <2>1, <2>4 DEF Extended
    <2>7. Allowed(node, past, reloc, cas', reloc', l.curr, w)
      BY <1>1, <1>2, <1>3, <2>3, <2>4, PublishAllowed DEF Matches
    <2>8. Fresh(node', cas', reloc', deleted', blocks')
      <3>1. \A x \in DOMAIN node' \cup DOMAIN cas' \cup DOMAIN reloc' : x[2] < blocks'[x[1]]
        BY <1>1, <2>1, <2>4, NewBlock
      <3> QED
        BY <1>1, <2>1, <2>4, <3>1, NewBlock DEF OpsInv, HeapOps, Fresh
    <2>9. l \in LocalState /\ SameRoot(loc[t], l)
      BY <1>1, LocalsOf DEF SameRoot
    <2> QED
      BY <1>1, <2>1, <2>5, <2>6, <2>7, <2>8, <2>9, helpChildCASMoves, ChangeStep
  <1>4. CASE ~Matches(l.curr, l.curr_op)
    BY <1>1, <1>4, LoopMoves, ReadOnlyOps DEF AddPublish, heap
  <1> QED
    BY <1>3, <1>4

LEMMA HelpMarkedPublishOps ==
    ASSUME Inv, OpsInv, NEW t \in Thread, HelpMarkedPublish(t),
           past' = Remembered(node, past, node')
    PROVE  OpsInv'
  <1>1. PICK l, a, w :
           l = loc[t] /\ a = <<t, blocks[t]>> /\ w = SET_FLAG(OpAt(a), "CHILDCAS")
    OBVIOUS
  <1>2. l.pred \in DOMAIN node /\ l.pred_op.flag = "NONE"
    BY <1>1, LocalsOf DEF HelpMarkedPublish, LocalOK, MarkLabel
  <1>3. a \in Addr
    BY <1>1, NewBlock
  <1>4. w \in OpPtr /\ w.flag = "CHILDCAS" /\ w.op = a
    BY <1>1, <1>3, OpAtType, SetFlagType DEF Flag
  <1>5. CASOp(l.pred, l.pred_op, w) /\ UNCHANGED <<reloc, deleted>>
    BY <1>1 DEF HelpMarkedPublish
  <1>6. CASE Matches(l.pred, l.pred_op)
    <2>1. PICK op :
             /\ cas' = Store(cas, a, op)
             /\ blocks' = [blocks EXCEPT ![t] = @ + 1]
             /\ helpChildCAS(t, l, a, l.pred, l.ret)
      BY <1>1, <1>6 DEF HelpMarkedPublish
    <2>2. DOMAIN cas' = DOMAIN cas \cup {a}
      BY <2>1 DEF Store
    <2>3. Changed(node, node', l.pred, w) /\ DOMAIN node' = DOMAIN node
      BY <1>2, <1>4, <1>5, <1>6, CASOpChange
    <2>4. Extended(node, past, cas, reloc, cas', reloc')
      BY <1>5, <2>2 DEF Extended
    <2>5. Allowed(node, past, reloc, cas', reloc', l.pred, w)
      BY <1>1, <1>2, <1>4, <1>6, <2>2, PublishAllowed DEF Matches
    <2>6. Fresh(node', cas', reloc', deleted', blocks')
      <3>1. \A x \in DOMAIN node' \cup DOMAIN cas' \cup DOMAIN reloc' : x[2] < blocks'[x[1]]
        BY <1>1, <1>5, <2>1, <2>2, <2>3, NewBlock
      <3> QED
        BY <1>1, <1>5, <2>2, <3>1, NewBlock DEF OpsInv, HeapOps, Fresh
    <2>7. l \in LocalState /\ SameRoot(loc[t], l)
      BY <1>1, LocalsOf DEF SameRoot
    <2> QED
      BY <1>1, <2>1, <2>3, <2>4, <2>5, <2>6, <2>7, helpChildCASMoves, ChangeStep
  <1>7. CASE ~Matches(l.pred, l.pred_op)
    BY <1>1, <1>5, <1>7, HelpedMoves, ReadOnlyOps DEF HelpMarkedPublish, heap, CASOp
  <1> QED
    BY <1>6, <1>7

LEMMA RemovePublishOps ==
    ASSUME Inv, OpsInv, ~ReusesBlocks, NEW t \in Thread, RemovePublish(t),
           past' = Remembered(node, past, node')
    PROVE  OpsInv'
  <1>1. PICK l, a, w :
           l = loc[t] /\ a = RelocAddr(t) /\ w = SET_FLAG(OpAt(a), "RELOCATE")
    OBVIOUS
  <1>2. a = <<t, blocks[t]>>
    BY <1>1 DEF RelocAddr, Recycled
  <1>3. /\ l.curr \in DOMAIN node /\ l.curr_op.flag = "NONE"
        /\ l.auxRoot \in Node /\ l.work \in Work
    BY <1>1, LocalsOf, WorkType DEF RemovePublish, LocalOK, OpLabel, Node
  <1>4. a \in Addr
    BY <1>2, NewBlock
  <1>5. w \in OpPtr /\ w.flag = "RELOCATE" /\ w.op = a
    BY <1>1, <1>4, OpAtType, SetFlagType DEF Flag
  <1>6. CASOp(l.curr, l.curr_op, w) /\ UNCHANGED cas
    BY <1>1 DEF RemovePublish
  <1>7. CASE Matches(l.curr, l.curr_op)
    <2>1. PICK op :
             /\ op = [state |-> "ONGOING", dest |-> l.auxRoot, dest_op |-> l.auxRoot_op,
                      remove_key |-> l.work.key, replace_key |-> l.replace_key]
             /\ reloc' = Store(reloc, a, op)
             /\ deleted' = deleted \ {a}
             /\ blocks' = IF a \in deleted THEN blocks ELSE [blocks EXCEPT ![t] = @ + 1]
             /\ helpRelocate(t, Locals(l.work), a, l.pred, l.pred_op, l.curr, "op")
      BY <1>1, <1>7 DEF RemovePublish
    <2>2. a \notin deleted /\ a \notin DOMAIN reloc /\ a \notin DOMAIN cas
      BY <1>2, NewBlock
    <2>3. /\ DOMAIN reloc' = DOMAIN reloc \cup {a} /\ reloc'[a] = op
          /\ \A x \in DOMAIN reloc : reloc'[x] = reloc[x]
          /\ blocks' = [blocks EXCEPT ![t] = @ + 1]
      BY <2>1, <2>2 DEF Store
    <2>4. Changed(node, node', l.curr, w) /\ DOMAIN node' = DOMAIN node
      BY <1>3, <1>5, <1>6, <1>7, CASOpChange
    <2>5. Extended(node, past, cas, reloc, cas', reloc')
      <3>1. op.dest = l.auxRoot /\ op.dest_op = l.auxRoot_op /\ op.state = "ONGOING"
        BY <2>1
      <3>2. l.auxRoot_op \in Had(node, past, l.auxRoot)
        BY <1>1, <1>3 DEF OpsInv, ThreadOps, ReadOps, Node
      <3> QED
        BY <1>3, <1>6, <2>3, <3>1, <3>2 DEF Extended, Node
    <2>6. Allowed(node, past, reloc, cas', reloc', l.curr, w)
      BY <1>2, <1>3, <1>5, <1>7, <2>3, PublishAllowed DEF Matches
    <2>7. Fresh(node', cas', reloc', deleted', blocks')
      <3>1. \A x \in DOMAIN node' \cup DOMAIN cas' \cup DOMAIN reloc' : x[2] < blocks'[x[1]]
        BY <1>2, <1>6, <2>3, <2>4, NewBlock
      <3> QED
        BY <1>6, <2>1, <2>2, <2>3, <3>1 DEF OpsInv, HeapOps, Fresh
    <2>8. Moves(t)
      BY <1>3, <2>1, LocalsRoot, NewLocalsType, helpRelocateMoves
    <2> QED
      BY <2>4, <2>5, <2>6, <2>7, <2>8, ChangeStep
  <1>8. CASE ~Matches(l.curr, l.curr_op)
    BY <1>1, <1>6, <1>8, LoopMoves, ReadOnlyOps DEF RemovePublish, heap, CASOp
  <1> QED
    BY <1>7, <1>8

-----------------------------------------------------------------------------
(***************************************************************************)
(* The actions that change an op and publish nothing.                      *)
(***************************************************************************)
LEMMA OpFlags ==
    ASSUME NEW a, NEW f \in Flag
    PROVE  SET_FLAG(OpAt(a), f) = Flagged(f, a)
  BY DEF SET_FLAG, OpAt, FlagOr, Flagged, Flag

LEMMA MarkAllowed ==
    ASSUME OpsInv, NEW n \in DOMAIN node, NEW w, w.flag = "MARK", node[n].op.flag # "MARK",
           \A a \in DOMAIN reloc : reloc[a].dest = n => node[n].op # ToDest(a)
    PROVE  Allowed(node, past, reloc, cas, reloc, n, w)
  <1>1. w \notin Had(node, past, n)
    BY DEF OpsInv, HeapOps, Traced, Had
  <1> QED
    BY <1>1 DEF Allowed, ToDest, Flagged

LEMMA ClearAllowed ==
    ASSUME OpsInv, NEW n \in DOMAIN node, NEW a \in Addr, NEW f \in {"CHILDCAS", "RELOCATE"},
           node[n].op = Flagged(f, a),
           f = "RELOCATE" /\ reloc[a].dest = n => reloc[a].state = "SUCCESSFUL"
    PROVE  Allowed(node, past, reloc, cas, reloc, n, Flagged("NONE", a))
  <1>1. PICK w : w = Flagged("NONE", a)
    OBVIOUS
  <1>2. w.flag = "NONE" /\ w.op = a /\ a # NoOp
    BY <1>1, NullAssumption DEF Flagged
  <1>3. node[n].op.flag = f /\ node[n].op.op = a
    BY DEF Flagged
  <1>4. w \notin past[n]
    <2> SUFFICES ASSUME w \in past[n] PROVE FALSE
      OBVIOUS
    <2>1. PICK g \in {"CHILDCAS", "RELOCATE"} : Flagged(g, a) \in past[n]
      BY <1>2 DEF OpsInv, HeapOps, Traced, Had
    <2>2. g # f
      BY <2>1 DEF OpsInv, HeapOps, NoneRepeats
    <2>3. /\ f = "CHILDCAS" => a \in DOMAIN cas
          /\ f = "RELOCATE" => a \in DOMAIN reloc
      BY <1>3 DEF OpsInv, HeapOps, Traced, Had
    <2>4. Flagged(g, a).flag = g /\ Flagged(g, a).op = a
      BY DEF Flagged
    <2>5. /\ g = "CHILDCAS" => a \in DOMAIN cas
          /\ g = "RELOCATE" => a \in DOMAIN reloc
      BY <2>1, <2>4 DEF OpsInv, HeapOps, Traced, Had
    <2> QED
      BY <2>2, <2>3, <2>5 DEF OpsInv, HeapOps, Fresh
  <1>5. w \notin Had(node, past, n)
    BY <1>2, <1>3, <1>4 DEF Had
  <1>6. ASSUME NEW b \in DOMAIN reloc, reloc[b].dest = n
        PROVE  w # ToDest(b) /\ (node[n].op = ToDest(b) => reloc[b].state = "SUCCESSFUL")
    BY <1>2, <1>3, <1>6 DEF ToDest, Flagged
  <1>7. Allowed(node, past, reloc, cas, reloc, n, w)
    BY <1>2, <1>3, <1>5, <1>6 DEF Allowed
  <1> QED
    BY <1>1, <1>7

LEMMA RemoveMarkOps ==
    ASSUME Inv, OpsInv, NEW t \in Thread, RemoveMark(t), past' = Remembered(node, past, node')
    PROVE  OpsInv'
  <1>1. PICK l, w : l = loc[t] /\ w = SET_FLAG(l.curr_op, "MARK")
    OBVIOUS
  <1>2. /\ l.curr \in DOMAIN node /\ l.curr_op.flag = "NONE" /\ l.curr_op \in OpPtr
        /\ l.work \in Work
    BY <1>1, LocalsOf, WorkType DEF RemoveMark, LocalOK, OpLabel, LocalState
  <1>3. w \in OpPtr /\ w.flag = "MARK"
    BY <1>1, <1>2, SetFlagType DEF Flag, SET_FLAG, FlagOr, OpPtr
  <1>4. CASOp(l.curr, l.curr_op, w) /\ UNCHANGED <<cas, reloc, deleted, blocks>>
    BY <1>1 DEF RemoveMark
  <1>5. Matches(l.curr, l.curr_op) => Allowed(node, past, reloc, cas, reloc, l.curr, w)
    BY <1>2, <1>3, MarkAllowed DEF Matches, ToDest, Flagged
  <1>6. Moves(t)
    <2>1. SameRoot(loc[t], Locals(l.work)) /\ Locals(l.work) \in LocalState
      BY <1>2, LocalsRoot, NewLocalsType
    <2> QED
      BY <1>1, <2>1, helpMarkedMoves, LoopMoves DEF RemoveMark
  <1>7. deleted' \subseteq DOMAIN reloc
    BY <1>4 DEF OpsInv, HeapOps, Fresh
  <1> QED
    BY <1>2, <1>3, <1>4, <1>5, <1>6, <1>7, CASOpOps

LEMMA HelpChildCASClearOps ==
    ASSUME Inv, OpsInv, NEW t \in Thread, HelpChildCASClear(t),
           past' = Remembered(node, past, node')
    PROVE  OpsInv'
  <1>1. PICK n, a : n = loc[t].dest /\ a = loc[t].cas_op
    OBVIOUS
  <1>2. n \in DOMAIN node /\ a \in Addr
    BY <1>1, LocalsOf DEF HelpChildCASClear, LocalOK, ChildLabel, Inv, TypeOK
  <1>3. /\ CASOp(n, Flagged("CHILDCAS", a), Flagged("NONE", a))
        /\ UNCHANGED <<cas, reloc, deleted, blocks>>
    BY <1>1, OpFlags DEF HelpChildCASClear, ClearOp, Flag
  <1>4. Flagged("NONE", a) \in OpPtr
    BY <1>2 DEF Flagged, OpPtr, Flag
  <1>5. Matches(n, Flagged("CHILDCAS", a)) =>
           Allowed(node, past, reloc, cas, reloc, n, Flagged("NONE", a))
    BY <1>2, ClearAllowed DEF Matches
  <1>6. Moves(t) /\ deleted' \subseteq DOMAIN reloc
    BY <1>3, HelpedMoves DEF HelpChildCASClear, OpsInv, HeapOps, Fresh
  <1> QED
    BY <1>2, <1>3, <1>4, <1>5, <1>6, CASOpOps

LEMMA HelpChildCASSwingOps ==
    ASSUME Inv, OpsInv, NEW t \in Thread, HelpChildCASSwing(t),
           past' = Remembered(node, past, node')
    PROVE  OpsInv'
  <1>1. PICK d, o : d = loc[t].dest /\ o = cas[loc[t].cas_op]
    OBVIOUS
  <1>2. d \in DOMAIN node
    BY <1>1, LocalsOf DEF HelpChildCASSwing, LocalOK, ChildLabel
  <1>3. CASChild(d, o) /\ UNCHANGED <<cas, reloc, deleted, blocks>>
    BY <1>1 DEF HelpChildCASSwing
  <1>4. SameOps(node, node')
    <2>1. node[d] \in LF_BST_Node
      BY <1>2, NodeType
    <2>2. /\ [node[d] EXCEPT !.left = o.update].op = node[d].op
          /\ [node[d] EXCEPT !.right = o.update].op = node[d].op
      BY <2>1 DEF LF_BST_Node
    <2> QED
      BY <1>2, <1>3, <2>2 DEF CASChild, SameOps
  <1>5. Moves(t)
    BY StayMoves DEF HelpChildCASSwing, FreeLabel, ChildLabel
  <1> QED
    BY <1>3, <1>4, <1>5, QuietStep DEF OpsInv, HeapOps, Fresh

(* What LocalOK and OpsInv say of the relocation that t helps. *)
LEMMA HelpedRelocation ==
    ASSUME Inv, OpsInv, NEW t \in Thread, pc[t] \in RelocLabel,
           NEW a, a = loc[t].reloc_op
    PROVE  /\ a \in DOMAIN reloc /\ a \in Addr
           /\ reloc[a].dest \in DOMAIN node /\ reloc[a].dest_op.flag = "NONE"
           /\ reloc[a].state \in {"ONGOING", "SUCCESSFUL", "FAILED"}
           /\ reloc[a].remove_key \in Int /\ reloc[a].replace_key \in Int
           /\ loc[t].curr \in DOMAIN node
           /\ RelocationOK(node, past, reloc, a) /\ Knows(node, past, reloc, loc[t], pc[t])
  <1>1. a \in DOMAIN reloc /\ loc[t].curr \in DOMAIN node
    BY LocalsOf DEF LocalOK, Node
  <1>2. reloc[a] \in Relocate_OP /\ a \in Addr
    BY <1>1 DEF Inv, TypeOK
  <1>3. reloc[a].dest \in DOMAIN node /\ reloc[a].dest_op.flag = "NONE"
    BY <1>1 DEF Inv, PointersOK, HeapOK, Node
  <1>4. RelocationOK(node, past, reloc, a) /\ Knows(node, past, reloc, loc[t], pc[t])
    BY <1>1 DEF OpsInv, HeapOps, ThreadOps
  <1> QED
    BY <1>1, <1>2, <1>3, <1>4 DEF Relocate_OP

(* A helper goes on, at label at, with the local variables it has. *)
LEMMA RelocStayMoves ==
    ASSUME Inv, OpsInv, NEW t \in Thread, NEW at \in RelocLabel, Goto(t, at), UNCHANGED loc,
           Knows(node, past, reloc, loc[t], at)
    PROVE  Moves(t)
  <1>1. SetLocals(t, loc[t])
    BY DEF Inv, TypeOK, SetLocals
  <1>2. ReadOps(node, past, reloc, loc[t], at)
    BY DEF OpsInv, ThreadOps, ReadOps, CurrLabel, FindLabel, OpLabel, RelocLabel
  <1> QED
    BY <1>1, <1>2 DEF Moves, ThreadOps

LEMMA HelpRelocateDestOps ==
    ASSUME Inv, OpsInv, NEW t \in Thread, HelpRelocateDest(t),
           past' = Remembered(node, past, node')
    PROVE  OpsInv'
  <1>1. PICK l, a : l = loc[t] /\ a = loc[t].reloc_op
    OBVIOUS
  <1>2. PICK d, o : d = reloc[a].dest /\ o = reloc[a].dest_op
    OBVIOUS
  <1>3. /\ a \in DOMAIN reloc /\ a \in Addr /\ d \in DOMAIN node /\ o.flag = "NONE"
        /\ RelocationOK(node, past, reloc, a)
    BY <1>1, <1>2, HelpedRelocation DEF HelpRelocateDest, RelocLabel
  <1>4. ToDest(a) \in OpPtr /\ ToDest(a).flag = "RELOCATE" /\ ToDest(a).op = a
    BY <1>3 DEF ToDest, Flagged, OpPtr, Flag
  <1>5. /\ CASOp(d, o, ToDest(a)) /\ UNCHANGED <<cas, reloc, deleted, blocks, loc>>
        /\ Goto(t, IF node[d].op \in {o, ToDest(a)} THEN "reloc_won" ELSE "reloc_lost")
    BY <1>1, <1>2, OpFlags DEF HelpRelocateDest, Installed, ToDest, Flag
  <1>6. CASE Matches(d, o)
    <2>1. Changed(node, node', d, ToDest(a)) /\ DOMAIN node' = DOMAIN node
      BY <1>3, <1>4, <1>5, <1>6, CASOpChange
    <2>2. Extended(node, past, cas, reloc, cas', reloc')
      BY <1>5 DEF Extended
    <2>3. Fresh(node', cas', reloc', deleted', blocks')
      BY <1>5, <2>1 DEF Fresh, OpsInv, HeapOps
    <2>4. Allowed(node, past, reloc, cas', reloc', d, ToDest(a))
      <3>1. ToDest(a) \notin Had(node, past, d)
        BY <1>2, <1>3, <1>6 DEF RelocationOK, OpsInv, HeapOps, NoneRepeats, Matches
      <3>2. ASSUME NEW b \in DOMAIN reloc
            PROVE  node[d].op # ToDest(b) /\ (ToDest(a) = ToDest(b) => a = b)
        BY <1>3, <1>6 DEF Matches, ToDest, Flagged
      <3> QED
        BY <1>2, <1>3, <1>4, <1>5, <1>6, <3>1, <3>2 DEF Allowed, Matches
    <2>5. ThreadOps(node', past', reloc', l, "reloc_won")
      <3>1. Past(node, past, node', past', d, ToDest(a))
        BY <2>1, <2>2, <2>3, <2>4, ChangedHeap DEF OpsInv
      <3>2. ThreadOps(node, past, reloc, l, pc[t])
        BY <1>1 DEF OpsInv
      <3>3. ThreadOps(node', past', reloc', l, pc[t])
        BY <2>1, <2>2, <2>4, <3>1, <3>2, ChangedThread DEF OpsInv
      <3>4. ToDest(a) \in Had(node', past', d)
        BY <2>1 DEF Changed, Had
      <3>5. Knows(node', past', reloc', l, "reloc_won")
        BY <1>1, <1>2, <1>3, <1>5, <3>4 DEF Knows
      <3> QED
        BY <3>3, <3>5 DEF ThreadOps, ReadOps, CurrLabel, FindLabel, OpLabel
    <2>6. Goto(t, "reloc_won") /\ SetLocals(t, l)
      BY <1>1, <1>5, <1>6 DEF Matches, Inv, TypeOK, SetLocals
    <2> QED
      BY <2>1, <2>2, <2>3, <2>4, <2>5, <2>6, ChangeStep
  <1>7. CASE ~Matches(d, o)
    <2>1. CASE node[d].op = ToDest(a)
      <3>1. Knows(node, past, reloc, l, "reloc_won")
        BY <1>1, <1>2, <1>3, <2>1 DEF Knows, Had
      <3> QED
        BY <1>1, <1>5, <1>7, <2>1, <3>1, RelocStayMoves, ReadOnlyOps
        DEF heap, CASOp, RelocLabel
    <2>2. CASE node[d].op # ToDest(a)
      <3>1. Knows(node, past, reloc, l, "reloc_lost")
        BY <1>1, <1>2, <1>3, <1>7, <2>2 DEF Knows, Had, RelocationOK, Matches
      <3>2. Goto(t, "reloc_lost")
        BY <1>5, <1>7, <2>2 DEF Matches
      <3> QED
        BY <1>1, <1>5, <1>7, <3>1, <3>2, RelocStayMoves, ReadOnlyOps
        DEF heap, CASOp, RelocLabel
    <2> QED
      BY <2>1, <2>2
  <1> QED
    BY <1>6, <1>7

LEMMA HelpRelocateDecideOps ==
    ASSUME Inv, OpsInv, NEW t \in Thread, HelpRelocateWon(t) \/ HelpRelocateLost(t),
           past' = Remembered(node, past, node')
    PROVE  OpsInv'
  <1>1. PICK a, s : a = loc[t].reloc_op /\ s = reloc[a].state
    OBVIOUS
  <1>2. /\ a \in DOMAIN reloc /\ s \in {"ONGOING", "SUCCESSFUL", "FAILED"}
        /\ RelocationOK(node, past, reloc, a) /\ Knows(node, past, reloc, loc[t], pc[t])
    BY <1>1, HelpedRelocation DEF HelpRelocateWon, HelpRelocateLost, RelocLabel
  <1>3. reloc[a] \in Relocate_OP
    BY <1>2 DEF Inv, TypeOK
  <1>4. ReadOps(node, past, reloc', loc[t], "reloc_state")
    BY DEF OpsInv, ThreadOps, ReadOps, CurrLabel, FindLabel, OpLabel
  <1>5. CASE HelpRelocateWon(t)
    <2>1. s # "FAILED"
      BY <1>1, <1>2, <1>5 DEF HelpRelocateWon, Knows, RelocationOK
    <2>2. Decide(a, "SUCCESSFUL") /\ UNCHANGED <<node, cas, deleted, blocks>>
      BY <1>1, <1>5 DEF HelpRelocateWon
    <2>3. a \in DOMAIN reloc' /\ reloc'[a].state = "SUCCESSFUL"
      BY <1>1, <1>2, <1>3, <2>1, <2>2 DEF Decide, Relocate_OP
    <2>4. \E at, m : Goto(t, at) /\ SetLocals(t, m) /\ ThreadOps(node, past, reloc', m, at)
      BY <1>1, <1>4, <1>5, <2>3, SeenMoves DEF HelpRelocateWon, RelocLabel
    <2> QED
      BY <1>2, <2>2, <2>4, DecideOps
  <1>6. CASE HelpRelocateLost(t)
    <2>1. Decide(a, "FAILED") /\ UNCHANGED <<node, cas, deleted, blocks>>
      BY <1>1, <1>6 DEF HelpRelocateLost
    <2>2. /\ Goto(t, IF s = "SUCCESSFUL" THEN "reloc_key" ELSE "reloc_curr")
          /\ SetLocals(t, [loc[t] EXCEPT !.seen_state = s])
      BY <1>1, <1>6 DEF HelpRelocateLost
    <2>3. s = "SUCCESSFUL" => a \in DOMAIN reloc' /\ reloc'[a].state = "SUCCESSFUL"
      BY <1>1, <1>2, <2>1 DEF Decide
    <2>4. \E at, m : Goto(t, at) /\ SetLocals(t, m) /\ ThreadOps(node, past, reloc', m, at)
      BY <1>1, <1>4, <2>2, <2>3, SeenMoves DEF RelocLabel
    <2>5. ToDest(a) # node[reloc[a].dest].op /\ reloc[a].dest_op \in past[reloc[a].dest]
      BY <1>1, <1>2, <1>6 DEF HelpRelocateLost, Knows
    <2> QED
      BY <1>2, <2>1, <2>4, <2>5, DecideOps
  <1> QED
    BY <1>5, <1>6

LEMMA HelpRelocateKeyOps ==
    ASSUME Inv, OpsInv, NEW t \in Thread, HelpRelocateKey(t),
           past' = Remembered(node, past, node')
    PROVE  OpsInv'
  <1>1. PICK a, d : a = loc[t].reloc_op /\ d = reloc[a].dest
    OBVIOUS
  <1>2. /\ a \in DOMAIN reloc /\ d \in DOMAIN node /\ reloc[a].replace_key \in Int
        /\ Knows(node, past, reloc, loc[t], pc[t])
    BY <1>1, HelpedRelocation DEF HelpRelocateKey, RelocLabel
  <1>3. CASKey(reloc[a]) /\ UNCHANGED <<cas, reloc, deleted, blocks, loc>>
    BY <1>1 DEF HelpRelocateKey
  <1>4. SameOps(node, node')
    <2>1. [node[d] EXCEPT !.key = reloc[a].replace_key].op = node[d].op
      BY <1>2, NodeType, SetKeyType
    <2> QED
      BY <1>1, <1>2, <1>3, <2>1 DEF CASKey, SameOps
  <1>5. Knows(node, past, reloc, loc[t], "reloc_clear")
    BY <1>2 DEF HelpRelocateKey, Knows
  <1>6. Moves(t)
    BY <1>5, RelocStayMoves DEF HelpRelocateKey, RelocLabel
  <1> QED
    BY <1>3, <1>4, <1>6, QuietStep DEF OpsInv, HeapOps, Fresh

LEMMA HelpRelocateClearOps ==
    ASSUME Inv, OpsInv, NEW t \in Thread, HelpRelocateClear(t),
           past' = Remembered(node, past, node')
    PROVE  OpsInv'
  <1>1. PICK a, d : a = loc[t].reloc_op /\ d = reloc[a].dest
    OBVIOUS
  <1>2. /\ a \in DOMAIN reloc /\ a \in Addr /\ d \in DOMAIN node
        /\ Knows(node, past, reloc, loc[t], pc[t])
    BY <1>1, HelpedRelocation DEF HelpRelocateClear, RelocLabel
  <1>3. CASOp(d, ToDest(a), Flagged("NONE", a)) /\ UNCHANGED <<cas, reloc, deleted, blocks>>
    BY <1>1, OpFlags DEF HelpRelocateClear, ClearOp, ToDest, Flag
  <1>4. Flagged("NONE", a) \in OpPtr
    BY <1>2 DEF Flagged, OpPtr, Flag
  <1>5. reloc[a].state = "SUCCESSFUL"
    BY <1>1, <1>2 DEF HelpRelocateClear, Knows
  <1>6. Matches(d, ToDest(a)) => Allowed(node, past, reloc, cas, reloc, d, Flagged("NONE", a))
    BY <1>2, <1>5, ClearAllowed DEF Matches, ToDest
  <1>7. Knows(node, past, reloc, loc[t], "reloc_curr")
    BY <1>1, <1>2, <1>5 DEF Knows
  <1>8. Moves(t) /\ deleted' \subseteq DOMAIN reloc
    BY <1>3, <1>7, RelocStayMoves DEF HelpRelocateClear, RelocLabel, OpsInv, HeapOps, Fresh
  <1> QED
    BY <1>2, <1>3, <1>4, <1>6, <1>8, CASOpOps

LEMMA HelpRelocateCurrOps ==
    ASSUME Inv, OpsInv, NEW t \in Thread, HelpRelocateCurr(t),
           past' = Remembered(node, past, node')
    PROVE  OpsInv'
  <1>1. PICK l, a, d, result :
           /\ l = loc[t] /\ a = l.reloc_op /\ d = reloc[a].dest
           /\ result = (l.seen_state = "SUCCESSFUL")
    OBVIOUS
  <1>2. a \in DOMAIN reloc /\ a \in Addr /\ l.curr \in DOMAIN node
    BY <1>1, HelpedRelocation DEF HelpRelocateCurr, RelocLabel
  <1>3. UNCHANGED <<cas, reloc, blocks>>
    BY DEF HelpRelocateCurr
  <1>4. ASSUME RelocateFailed(t)
        PROVE  Moves(t) /\ deleted' \subseteq DOMAIN reloc
    BY <1>1, <1>2, <1>4, RetryFindMoves, LoopMoves
    DEF RelocateFailed, OpsInv, HeapOps, Fresh
  <1>5. CASE d = l.curr
    <2>1. /\ UNCHANGED node
          /\ (Helped(t) /\ UNCHANGED deleted) \/ RelocateFailed(t)
      BY <1>1, <1>5 DEF HelpRelocateCurr
    <2>2. SameOps(node, node')
      BY <2>1 DEF SameOps
    <2>3. Moves(t) /\ deleted' \subseteq DOMAIN reloc
      BY <1>4, <2>1, HelpedMoves DEF OpsInv, HeapOps, Fresh
    <2> QED
      BY <1>3, <2>2, <2>3, QuietStep
  <1>6. CASE d # l.curr
    <2>1. PICK f : f = ReplaceFlag(result)
      OBVIOUS
    <2>2. f \in {"MARK", "NONE"} /\ f \in Flag
      BY <2>1 DEF ReplaceFlag, Flag
    <2>3. CASOp(l.curr, ToDest(a), Flagged(f, a))
      BY <1>1, <1>6, <2>1, <2>2, OpFlags DEF HelpRelocateCurr, ToDest, Flag
    <2>4. Flagged(f, a) \in OpPtr
      BY <1>2, <2>2 DEF Flagged, OpPtr
    <2>5. Matches(l.curr, ToDest(a)) =>
             Allowed(node, past, reloc, cas, reloc, l.curr, Flagged(f, a))
      <3> SUFFICES ASSUME Matches(l.curr, ToDest(a))
                   PROVE  Allowed(node, past, reloc, cas, reloc, l.curr, Flagged(f, a))
        OBVIOUS
      <3>1. node[l.curr].op = ToDest(a)
        BY DEF Matches
      <3>2. ASSUME NEW b \in DOMAIN reloc, reloc[b].dest = l.curr
            PROVE  node[l.curr].op # ToDest(b)
        BY <1>1, <1>6, <3>1, <3>2 DEF ToDest, Flagged
      <3>3. CASE f = "MARK"
        BY <1>2, <3>1, <3>2, <3>3, MarkAllowed DEF ToDest, Flagged
      <3>4. CASE f = "NONE"
        BY <1>1, <1>2, <1>6, <3>1, <3>4, ClearAllowed DEF ToDest
      <3> QED
        BY <2>2, <3>3, <3>4
    <2>6. \/ helpMarked(t, l, l.pred, UnlinkOp(l, d), l.curr, l.ret) /\ UNCHANGED deleted
          \/ RelocateFailed(t)
      BY <1>1, <1>6 DEF HelpRelocateCurr
    <2>7. l \in LocalState /\ SameRoot(loc[t], l)
      BY <1>1, LocalsOf DEF SameRoot
    <2>8. Moves(t) /\ deleted' \subseteq DOMAIN reloc
      BY <1>4, <2>6, <2>7, helpMarkedMoves DEF OpsInv, HeapOps, Fresh
    <2> QED
      BY <1>2, <1>3, <2>3, <2>4, <2>5, <2>8, CASOpOps
  <1> QED
    BY <1>5, <1>6

-----------------------------------------------------------------------------
(***************************************************************************)
(* The theorems.                                                           *)
(***************************************************************************)
LEMMA OpsInit == HistoryInit => OpsInv
  <1> SUFFICES ASSUME HistoryInit PROVE OpsInv
    OBVIOUS
  <1>1. /\ node = Store(<<>>, base_root, create_LF_node(-1))
        /\ cas = <<>> /\ reloc = <<>> /\ deleted = {}
        /\ blocks = [t \in Thread |-> 1]
        /\ pc = [t \in Thread |-> "idle"]
        /\ loc = [t \in Thread |-> Locals(NoWork)]
        /\ past = [n \in DOMAIN node |-> {}]
    BY DEF HistoryInit, Init
  <1>2. /\ DOMAIN node = {base_root} /\ node[base_root] = create_LF_node(-1)
        /\ DOMAIN cas = {} /\ DOMAIN reloc = {}
    BY <1>1 DEF Store
  <1>3. node[base_root].op = NullOp /\ NullOp \in OpPtr /\ NullOp.flag = "NONE"
        /\ NullOp.op = NoOp
    BY <1>2 DEF create_LF_node, NullOp, OpAt, OpPtr, Flag
  <1>4. past[base_root] = {} /\ Had(node, past, base_root) = {NullOp}
    BY <1>1, <1>2, <1>3 DEF Had
  <1>5. HistoryOK(node, past) /\ NoneRepeats(node, past) /\ Traced(node, past, cas, reloc)
    BY <1>1, <1>2, <1>3, <1>4 DEF HistoryOK, NoneRepeats, Traced
  <1>6. Fresh(node, cas, reloc, deleted, blocks)
    <2>1. base_root[1] \in Thread /\ base_root[2] = 0
      BY DEF base_root, Thread
    <2>2. blocks[base_root[1]] = 1
      BY <1>1, <2>1
    <2> QED
      BY <1>1, <1>2, <2>1, <2>2 DEF Fresh
  <1>7. ASSUME NEW t \in Thread PROVE ThreadOps(node, past, reloc, loc[t], pc[t])
    <2>1. pc[t] = "idle" /\ loc[t].auxRoot = base_root
      BY <1>1 DEF Locals
    <2> QED
      BY <2>1 DEF ThreadOps, ReadOps, Knows, CurrLabel, FindLabel, OpLabel
  <1> QED
    BY <1>2, <1>5, <1>6, <1>7 DEF OpsInv, HeapOps

LEMMA StepKeepsOps ==
    ASSUME Inv, OpsInv, ~ReusesBlocks, NEW t \in Thread, Step(t),
           past' = Remembered(node, past, node')
    PROVE  OpsInv'
  <1>1. CASE TakeWork(t) \/ Return(t) \/ Find(t)
    BY <1>1, ReadActionOps
  <1>2. CASE Add(t)
    BY <1>2, ReadActionOps, AddPublishOps DEF Add
  <1>3. CASE Remove(t)
    BY <1>3, ReadActionOps, RemoveMarkOps, RemovePublishOps DEF Remove
  <1>4. CASE HelpChildCAS(t)
    BY <1>4, HelpChildCASSwingOps, HelpChildCASClearOps DEF HelpChildCAS
  <1>5. CASE HelpMarked(t)
    BY <1>5, ReadActionOps, HelpMarkedPublishOps DEF HelpMarked
  <1>6. CASE HelpRelocate(t)
    BY <1>6, ReadActionOps, HelpRelocateDestOps, HelpRelocateDecideOps, HelpRelocateKeyOps,
       HelpRelocateClearOps, HelpRelocateCurrOps DEF HelpRelocate
  <1> QED
    BY <1>1, <1>2, <1>3, <1>4, <1>5, <1>6 DEF Step

LEMMA NextKeepsOps ==
    ASSUME Inv, OpsInv, ~ReusesBlocks, [HistoryNext]_hvars
    PROVE  OpsInv'
  <1>1. HistoryNext => past' = Remembered(node, past, node')
    BY DEF HistoryNext, Remembered
  <1>2. CASE HistoryNext /\ CreateTree
    BY <1>1, <1>2, ReadActionOps DEF Thread
  <1>3. CASE HistoryNext /\ \E t \in Thread : Step(t)
    BY <1>1, <1>3, StepKeepsOps
  <1>4. CASE UNCHANGED hvars \/ (HistoryNext /\ UNCHANGED vars)
    <2>1. UNCHANGED vars
      BY <1>4 DEF hvars
    <2>2. past' = past
      <3>1. CASE UNCHANGED hvars
        BY <3>1 DEF hvars
      <3>2. CASE HistoryNext
        BY <1>1, <2>1, <3>2, SameOpsHistory DEF OpsInv, HeapOps, SameOps, vars, heap
      <3> QED
        BY <1>4, <3>1, <3>2
    <2> QED
      BY <2>1, <2>2 DEF OpsInv, vars, heap
  <1> QED
    BY <1>2, <1>3, <1>4 DEF HistoryNext, Next, Terminated

(* The inductive invariant of the tree with its history. *)
THEOREM OpsSafety ==
    ASSUME ~ReusesBlocks
    PROVE  HistorySpec => [](Inv /\ OpsInv)
  <1>1. HistoryInit => Inv /\ OpsInv
    BY OpsInit, InitInv DEF HistoryInit
  <1>2. Inv /\ OpsInv /\ [HistoryNext]_hvars => (Inv /\ OpsInv)'
    <2>1. [HistoryNext]_hvars => [Next]_vars
      BY DEF HistoryNext, hvars
    <2> QED
      BY <2>1, NextInv, NextKeepsOps
  <1> QED
    BY <1>1, <1>2, PTL DEF HistorySpec

(* When no deleted block is used again, no op that a node has had ever     *)
(* comes back: the operation pointers are free of the ABA problem, because *)
(* the address of an operation that is over is left in the op.             *)
THEOREM OpsNeverRepeat ==
    ASSUME ~ReusesBlocks
    PROVE  HistorySpec => []NeverRepeats
  <1>1. OpsInv => NeverRepeats
    BY DEF OpsInv, HeapOps, NoneRepeats, NeverRepeats
  <1> QED
    BY <1>1, OpsSafety, PTL
=============================================================================
