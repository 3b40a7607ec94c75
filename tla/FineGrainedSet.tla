--------------------------- MODULE FineGrainedSet ---------------------------
(***************************************************************************)
(* Linearizability of the fine-grained tree: with the answers that each    *)
(* call has seen to be right added as a history, it implements             *)
(* ConcurrentSet, as the lock-free tree does.                              *)
(***************************************************************************)
EXTENDS FineGrainedBST

VARIABLE seen \* history: the answers each call has seen to be right

InCall(t) == pc[t] # "idle"
CallOf(t) == IF InCall(t) THEN loc[t].work ELSE [op |-> "NONE", key |-> 0]
Answered(t) == IF pc[t] = "return" THEN {loc[t].answer} ELSE {}
Effected(t) == pc[t] = "return" /\ loc[t].work.op # "SEARCH" /\ loc[t].answer

Values == {node[a].value : a \in Range(InOrder)}

Key ==
    (UNION {Range(f) : f \in CreateFiles})
    \cup {w.key : w \in UNION {Range(q) : q \in Traces}}

Set == INSTANCE ConcurrentSet WITH
           set <- Values,
           work <- [t \in Thread |-> CallOf(t)],
           done <- [t \in Thread |-> Effected(t)],
           answer <- [t \in Thread |-> Answered(t)]

HistoryInit == Init /\ seen = [t \in Thread |-> {}]
HistoryNext ==
    /\ Next
    /\ LET set == Values'
       IN  seen' = [t \in Thread |->
                      IF InCall(t)' THEN seen[t] \cup {loc'[t].work.key \in set} ELSE {}]
HistorySpec == HistoryInit /\ [][HistoryNext]_<<vars, seen>>

(* insert(), remove() and search() on the fine-grained tree are the calls  *)
(* of an atomic set: every call takes effect in one step, with all it      *)
(* needs locked, and what a search finds was in the tree during the        *)
(* search.                                                                 *)
Linearizable == Set!Spec
=============================================================================
