---------------------------- MODULE WorkHandout ----------------------------
(***************************************************************************)
(* What the work queue promises to the trees: every entry of test_file is  *)
(* given to one thread, in the order of the file, and the threads are      *)
(* stopped when all of it has been done.  It is how LockFreeBST's TakeWork *)
(* and Return hand out work, in one step.                                  *)
(***************************************************************************)
EXTENDS Sequences

CONSTANTS Thread, Traces

VARIABLES
    queue,   \* the work that no thread has taken
    holds,   \* holds[t]: the work t is doing, a set of at most one
    stopped  \* the threads have been joined

vars == <<queue, holds, stopped>>

Init ==
    /\ queue \in Traces
    /\ holds = [t \in Thread |-> {}]
    /\ stopped = FALSE

Take(t) ==
    /\ ~stopped /\ holds[t] = {} /\ queue # <<>>
    /\ queue' = Tail(queue)
    /\ holds' = [holds EXCEPT ![t] = {Head(queue)}]
    /\ UNCHANGED stopped

Finish(t) ==
    /\ holds[t] # {}
    /\ holds' = [holds EXCEPT ![t] = {}]
    /\ UNCHANGED <<queue, stopped>>

Stop ==
    /\ queue = <<>> /\ \A t \in Thread : holds[t] = {}
    /\ stopped' = TRUE
    /\ UNCHANGED <<queue, holds>>

Next == Stop \/ \E t \in Thread : Take(t) \/ Finish(t)
Spec == Init /\ [][Next]_vars
=============================================================================
