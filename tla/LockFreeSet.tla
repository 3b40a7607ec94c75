---------------------------- MODULE LockFreeSet ----------------------------
(***************************************************************************)
(* Linearizability of the lock-free tree: with the answers that each call  *)
(* has seen to be right added as a history, it implements ConcurrentSet.   *)
(***************************************************************************)
EXTENDS LockFreeTree

VARIABLE seen \* history: the answers each call has seen to be right

InCall(t) == pc[t] # "idle"
CallOf(t) == IF InCall(t) THEN loc[t].work ELSE [op |-> "NONE", key |-> 0]

(* The call of t has changed the set: its Child_CAS_OP was published, its  *)
(* node was marked, or its relocation has been decided, maybe by a helper. *)
Effected(t) ==
    \/ pc[t] = "return" /\ loc[t].work.op # "SEARCH" /\ loc[t].answer
    \/ pc[t] \in ChildLabel \cup MarkLabel /\ loc[t].ret = "op"
    \/ /\ pc[t] \in RelocLabel /\ loc[t].ret = "op"
       /\ reloc[loc[t].reloc_op].state = "SUCCESSFUL"

Answered(t) == IF pc[t] = "return" THEN {loc[t].answer} ELSE {}

Key ==
    (UNION {Range(f) : f \in CreateFiles})
    \cup {w.key : w \in UNION {Range(q) : q \in Traces}}

Set == INSTANCE ConcurrentSet WITH
           set <- AbsSet,
           work <- [t \in Thread |-> CallOf(t)],
           done <- [t \in Thread |-> Effected(t)],
           answer <- [t \in Thread |-> Answered(t)]

SeenInit == Init /\ seen = [t \in Thread |-> {}]
SeenNext ==
    /\ Next
    /\ LET set == AbsSet'
       IN  seen' = [t \in Thread |->
                      IF InCall(t)' THEN seen[t] \cup {loc'[t].work.key \in set} ELSE {}]
SeenSpec == SeenInit /\ [][SeenNext]_<<vars, seen>>

(* The calls of add(), remove() and find() on the lock-free tree are those *)
(* of an atomic set: every insert and delete takes effect in one step of   *)
(* the call, or of a helper, and every negative answer was right during    *)
(* the call.                                                               *)
Linearizable == Set!Spec
=============================================================================
