----------------------------- MODULE WorkQueue -----------------------------
(***************************************************************************)
(* The queue of work_queue.h between init_harness(), which fills it from   *)
(* test_file, and the loop of the worker threads (perform_ops_LF and       *)
(* perform_ops_FG).  A worker asks for the size of the queue, which takes  *)
(* one off a counter of its own, and calls get_work() if it was positive.  *)
(*                                                                         *)
(* put_work(), get_queue_size() and get_work() each are one critical       *)
(* section of queue_lock, and one action here.  Nobody waits for           *)
(* queue_cond.  The operation on the tree is the step Perform.             *)
(***************************************************************************)
EXTENDS Integers, Sequences, FiniteSets

CONSTANTS
    MAX_THREADS,  \* how many workers there are
    Work,         \* what an entry of test_file can be
    Traces        \* the possible contents of test_file

ASSUME ThreadsAssumption == MAX_THREADS \in Nat \ {0}
ASSUME TracesAssumption == Traces \subseteq Seq(Work)

Worker == 0 .. MAX_THREADS - 1

VARIABLES
    trace,                \* what is left of test_file
    storage, curr_q_size, \* the queue
    all_threads_created,
    thread_count,         \* of main(), in the loops that create and join
    main,                 \* where main() is
    pc,                   \* where each worker is
    work                  \* what it is doing: a set of at most one entry

queue == <<storage, curr_q_size>>
mains == <<trace, all_threads_created, thread_count, main>>
vars == <<mains, queue, pc, work>>

Init ==
    /\ trace \in Traces
    /\ storage = <<>> /\ curr_q_size = 0
    /\ all_threads_created = FALSE
    /\ thread_count = 0
    /\ main = "start"
    /\ pc = [t \in Worker |-> "none"]
    /\ work = [t \in Worker |-> {}]

Goto(t, label) == pc' = [pc EXCEPT ![t] = label]

-----------------------------------------------------------------------------
(* init_harness() *)
put_work ==
    /\ main = "start" /\ trace # <<>>
    /\ trace' = Tail(trace)
    /\ storage' = Append(storage, Head(trace))
    /\ curr_q_size' = curr_q_size + 1
    /\ UNCHANGED <<all_threads_created, thread_count, main, pc, work>>

(* Mutant: one thread too many. *)
MutOneThreadMore == thread_count <= MAX_THREADS

MoreThreads == thread_count < MAX_THREADS

CreateThread ==
    /\ main = "start" /\ trace = <<>> /\ MoreThreads
    /\ Goto(thread_count, "wait")
    /\ thread_count' = thread_count + 1
    /\ UNCHANGED <<trace, all_threads_created, main, queue, work>>

(* Mutant: the threads are not told to start. *)
MutNoStart == FALSE

Started == TRUE

StartThreads ==
    /\ main = "start" /\ trace = <<>> /\ ~MoreThreads
    /\ all_threads_created' = Started
    /\ thread_count' = 0
    /\ main' = "join"
    /\ UNCHANGED <<trace, queue, pc, work>>

(* Mutant: pthread_join() does not wait. *)
MutNoWait(t) == TRUE

Exited(t) == pc[t] = "exit"

JoinThread ==
    /\ main = "join" /\ MoreThreads /\ Exited(thread_count)
    /\ thread_count' = thread_count + 1
    /\ UNCHANGED <<trace, all_threads_created, main, queue, pc, work>>

FreeQueue ==
    /\ main = "join" /\ ~MoreThreads
    /\ main' = "freed"
    /\ UNCHANGED <<trace, all_threads_created, thread_count, queue, pc, work>>

-----------------------------------------------------------------------------
(* The loop of a worker. *)
(* while (!all_threads_created); *)
Spin(t) ==
    /\ pc[t] = "wait"
    /\ IF all_threads_created THEN Goto(t, "size") ELSE UNCHANGED pc
    /\ UNCHANGED <<mains, queue, work>>

(* Mutant: work is there as long as the counter is not negative. *)
MutTicketAtZero(size) == IF size >= 0 THEN "get" ELSE "exit"
(* Mutant: a worker that finds no work asks again. *)
MutPoll(size) == IF size > 0 THEN "get" ELSE "size"

AfterSize(size) == IF size > 0 THEN "get" ELSE "exit"

get_queue_size(t) ==
    /\ pc[t] = "size"
    /\ Goto(t, AfterSize(curr_q_size))
    /\ curr_q_size' = curr_q_size - 1
    /\ UNCHANGED <<mains, storage, work>>

(* Mutant: the entry stays in the queue. *)
MutNoErase(s) == s

Erased(s) == Tail(s)

(* front() and erase() are undefined on an empty vector: FrontIsThere says *)
(* that this guard never holds a thread up.                                *)
get_work(t) ==
    /\ pc[t] = "get" /\ storage # <<>>
    /\ work' = [work EXCEPT ![t] = {Head(storage)}]
    /\ storage' = Erased(storage)
    /\ Goto(t, "work")
    /\ UNCHANGED <<mains, curr_q_size>>

Perform(t) ==
    /\ pc[t] = "work"
    /\ work' = [work EXCEPT ![t] = {}]
    /\ Goto(t, "size")
    /\ UNCHANGED <<mains, queue>>

-----------------------------------------------------------------------------
Main == put_work \/ CreateThread \/ StartThreads \/ JoinThread \/ FreeQueue
Loop(t) == Spin(t) \/ get_queue_size(t) \/ get_work(t) \/ Perform(t)
Terminated == main = "freed" /\ UNCHANGED vars

Next == Main \/ (\E t \in Worker : Loop(t)) \/ Terminated
Spec == Init /\ [][Next]_vars

(* Every thread that can go on does so sometime.  The queue_lock cannot    *)
(* keep one from it: it is taken a bounded number of times in all.         *)
FairSpec == Spec /\ WF_vars(Main) /\ \A t \in Worker : WF_vars(Loop(t))
-----------------------------------------------------------------------------
(* Every variable has its type. *)
TypeOK ==
    /\ trace \in Seq(Work) /\ storage \in Seq(Work) /\ curr_q_size \in Int
    /\ all_threads_created \in BOOLEAN
    /\ thread_count \in 0 .. MAX_THREADS
    /\ main \in {"start", "join", "freed"}
    /\ pc \in [Worker -> {"none", "wait", "size", "get", "work", "exit"}]
    /\ work \in [Worker -> SUBSET Work]

(* get_work() never meets an empty queue, although other threads have been *)
(* at the queue since get_queue_size() said that there was something.      *)
FrontIsThere == \A t \in Worker : pc[t] = "get" => storage # <<>>

(* The counter goes below zero, but by no more than one for each thread.   *)
CounterBounded == curr_q_size >= -MAX_THREADS

(* The queue is freed when no thread will use it again, and no work has    *)
(* been left in it.                                                        *)
FreedUnused == main = "freed" => storage = <<>> /\ \A t \in Worker : Exited(t)

Handout == INSTANCE WorkHandout WITH
               Thread <- Worker,
               queue <- storage \o trace,
               holds <- work,
               stopped <- (main = "freed")

(* The counter and the vector, which are not changed together, hand out    *)
(* every entry once and in order, and the threads stop only when all of it *)
(* has been done.                                                          *)
HandsOut == Handout!Spec

(* The program comes to its end. *)
Ends == <>(main = "freed")
=============================================================================
