--------------------------- MODULE ConcurrentSet ---------------------------
(***************************************************************************)
(* What a concurrent search tree promises to the threads that call it: an  *)
(* atomic set of keys.  Every call that changes the set does so in one     *)
(* step between its invocation and its return, and the answer of a call    *)
(* that changes nothing was right at some moment of the call.              *)
(*                                                                         *)
(* The step of a call may be taken for it by another thread, and the       *)
(* moment a negative answer was right is in general known only later, when *)
(* more of the tree has been read.  So the answers a call has seen to be   *)
(* right are recorded, and the call returns one of them.                   *)
(***************************************************************************)
EXTENDS Integers

CONSTANTS
    Thread,  \* the callers
    Key      \* the keys of their calls

VARIABLES
    set,     \* the keys in the tree
    work,    \* work[t]: the operation of t's call; its op is "NONE" between calls
    done,    \* done[t]: t's call has changed the set
    seen,    \* seen[t]: the answers to "is the key there?" since t called
    answer   \* answer[t]: what the call answers, a set that is empty till then

vars == <<set, work, done, seen, answer>>

Call == [op : {"INSERT", "SEARCH", "DELETE"}, key : Key]
NoCall == [op |-> "NONE", key |-> 0]
Running(t) == work[t].op # "NONE" /\ answer[t] = {}

Init ==
    /\ set = {}
    /\ work = [t \in Thread |-> NoCall]
    /\ done = [t \in Thread |-> FALSE]
    /\ seen = [t \in Thread |-> {}]
    /\ answer = [t \in Thread |-> {}]

(* Every call under way sees whether its key is in the set. *)
Observe ==
    seen' = [t \in Thread |->
               IF work'[t].op = "NONE" THEN {}
               ELSE seen[t] \cup {work'[t].key \in set'}]

Invoke(t, c) ==
    /\ work[t] = NoCall
    /\ work' = [work EXCEPT ![t] = c]
    /\ Observe
    /\ UNCHANGED <<set, done, answer>>

(* The one step in which an insert or a delete takes effect.  The answer   *)
(* may come with it.                                                       *)
Effect(t) ==
    /\ Running(t) /\ ~done[t]
    /\ done' = [done EXCEPT ![t] = TRUE]
    /\ \/ work[t].op = "INSERT" /\ work[t].key \notin set /\ set' = set \cup {work[t].key}
       \/ work[t].op = "DELETE" /\ work[t].key \in set /\ set' = set \ {work[t].key}
    /\ answer' \in {answer, [answer EXCEPT ![t] = {TRUE}]}
    /\ Observe
    /\ UNCHANGED work

(* The answer says that a searched key is there, or that an insert or a    *)
(* delete has changed the set.                                             *)
Right(t, b) ==
    CASE work[t].op = "SEARCH" -> b \in seen[t]
      [] work[t].op = "INSERT" -> b = done[t] /\ (b \/ TRUE \in seen[t])
      [] work[t].op = "DELETE" -> b = done[t] /\ (b \/ FALSE \in seen[t])

Answer(t, b) ==
    /\ Running(t) /\ Right(t, b)
    /\ answer' = [answer EXCEPT ![t] = {b}]
    /\ Observe
    /\ UNCHANGED <<set, work, done>>

Return(t) ==
    /\ answer[t] # {}
    /\ work' = [work EXCEPT ![t] = NoCall]
    /\ done' = [done EXCEPT ![t] = FALSE]
    /\ answer' = [answer EXCEPT ![t] = {}]
    /\ Observe
    /\ UNCHANGED set

Next ==
    \E t \in Thread :
        \/ \E c \in Call : Invoke(t, c)
        \/ Effect(t)
        \/ \E b \in BOOLEAN : Answer(t, b)
        \/ Return(t)

Spec == Init /\ [][Next]_vars
=============================================================================
