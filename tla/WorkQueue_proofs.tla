-------------------------- MODULE WorkQueue_proofs --------------------------
(***************************************************************************)
(* The work queue for any number of threads and any test_file.             *)
(***************************************************************************)
EXTENDS WorkQueue, FiniteSetTheorems, SequenceTheorems, TLAPS

Positive(n) == IF n > 0 THEN n ELSE 0
At(p, label) == {t \in Worker : p[t] = label}
Count(p, label) == Cardinality(At(p, label))

(* The workers that were told to get work are as many as the entries that  *)
(* the counter no longer counts, and it has been taken below zero only by  *)
(* workers that have left.                                                 *)
Tickets ==
    /\ Count(pc, "get") + Positive(curr_q_size) = Len(storage)
    /\ curr_q_size + Count(pc, "exit") >= 0

(* Where main() and the workers can be at the same time. *)
Phases ==
    /\ main = "start" => ~all_threads_created /\ \A t \in Worker : pc[t] \in {"none", "wait"}
    /\ main # "start" => trace = <<>>
    /\ main = "join" => \A t \in Worker : t < thread_count => Exited(t)
    /\ main = "freed" => \A t \in Worker : Exited(t)
    /\ \A t \in Worker : Exited(t) => curr_q_size < 0
    /\ \A t \in Worker : IF pc[t] = "work" THEN work[t] # {} ELSE work[t] = {}

Inv == TypeOK /\ Tickets /\ Phases

LEMMA WorkerFinite == IsFiniteSet(Worker) /\ Cardinality(Worker) = MAX_THREADS
  BY FS_Interval, ThreadsAssumption DEF Worker

LEMMA CountType ==
    ASSUME NEW p, NEW label
    PROVE  /\ IsFiniteSet(At(p, label))
           /\ Count(p, label) \in Nat /\ Count(p, label) <= MAX_THREADS
           /\ (Count(p, label) = 0 <=> At(p, label) = {})
  <1>1. At(p, label) \in SUBSET Worker
    BY DEF At
  <1>2. IsFiniteSet(At(p, label)) /\ Cardinality(At(p, label)) <= MAX_THREADS
    BY <1>1, WorkerFinite, FS_Subset
  <1> QED
    BY <1>2, FS_CardinalityType, FS_EmptySet DEF Count

(* A worker goes from one label to another. *)
LEMMA GotoCount ==
    ASSUME TypeOK, NEW t \in Worker, NEW to, Goto(t, to), pc[t] # to, NEW x
    PROVE  /\ x = to => Count(pc', x) = Count(pc, x) + 1
           /\ x = pc[t] => Count(pc', x) = Count(pc, x) - 1
           /\ x # to /\ x # pc[t] => Count(pc', x) = Count(pc, x)
  <1> USE DEF Goto
  <1>1. pc \in [Worker -> {"none", "wait", "size", "get", "work", "exit"}]
    BY DEF TypeOK
  <1>2. CASE x = to
    <2>1. At(pc', x) = At(pc, x) \cup {t} /\ t \notin At(pc, x)
      BY <1>1, <1>2 DEF At
    <2> QED
      BY <1>2, <2>1, CountType, FS_AddElement DEF Count
  <1>3. CASE x = pc[t]
    <2>1. At(pc', x) = At(pc, x) \ {t} /\ t \in At(pc, x)
      BY <1>1, <1>3 DEF At
    <2> QED
      BY <1>3, <2>1, CountType, FS_RemoveElement DEF Count
  <1>4. CASE x # to /\ x # pc[t]
    <2>1. At(pc', x) = At(pc, x)
      BY <1>1, <1>4 DEF At
    <2> QED
      BY <1>4, <2>1 DEF Count
  <1> QED
    BY <1>2, <1>3, <1>4

LEMMA InitInv == Init => Inv
  <1> SUFFICES ASSUME Init PROVE Inv
    OBVIOUS
  <1>1. TypeOK
    <2>1. trace \in Seq(Work) /\ storage \in Seq(Work)
      BY TracesAssumption DEF Init
    <2>2. thread_count \in 0 .. MAX_THREADS
      BY ThreadsAssumption DEF Init
    <2>3. pc \in [Worker -> {"none", "wait", "size", "get", "work", "exit"}]
          /\ work \in [Worker -> SUBSET Work]
      BY DEF Init
    <2>4. curr_q_size \in Int
      BY DEF Init
    <2>5. all_threads_created \in BOOLEAN /\ main \in {"start", "join", "freed"}
      BY Zenon DEF Init
    <2> QED
      BY <2>1, <2>2, <2>3, <2>4, <2>5 DEF TypeOK
  <1>2. At(pc, "get") = {} /\ At(pc, "exit") = {}
    BY DEF Init, At
  <1>3. Tickets
    <2>1. Count(pc, "get") = 0 /\ Count(pc, "exit") = 0
      BY <1>2, CountType
    <2>2. storage = <<>> /\ curr_q_size = 0
      BY DEF Init
    <2>3. Len(storage) = 0 /\ Positive(curr_q_size) = 0
      BY <2>2 DEF Positive
    <2> QED
      BY <2>1, <2>2, <2>3 DEF Tickets
  <1>4. Phases
    BY DEF Init, Phases, Exited
  <1> QED
    BY <1>1, <1>3, <1>4 DEF Inv

(* A step of main() that moves no worker. *)
LEMMA StillTickets ==
    ASSUME Tickets, UNCHANGED <<pc, queue>>
    PROVE  Tickets'
  BY DEF Tickets, At, queue

LEMMA MainInv ==
    ASSUME Inv, Main
    PROVE  Inv'
  <1> USE DEF Inv, mains, queue
  <1>1. CASE put_work
    <2>1. TypeOK'
      BY <1>1 DEF put_work, TypeOK
    <2>2. At(pc, "exit") = {}
      BY <1>1 DEF put_work, Phases, At
    <2>3. curr_q_size >= 0
      BY <2>2, CountType DEF Tickets, TypeOK
    <2>4. Len(storage') = Len(storage) + 1 /\ Positive(curr_q_size') = Positive(curr_q_size) + 1
      BY <1>1, <2>3 DEF put_work, TypeOK, Positive
    <2>5. Count(pc', "get") = Count(pc, "get") /\ Count(pc', "exit") = Count(pc, "exit")
      BY <1>1 DEF put_work, At, Count
    <2>8. Count(pc, "get") \in Nat /\ Count(pc, "exit") \in Nat /\ Len(storage) \in Nat
          /\ Positive(curr_q_size) \in Int /\ curr_q_size \in Int
      BY CountType DEF Positive, TypeOK
    <2>6. Tickets'
      BY <1>1, <2>3, <2>4, <2>5, <2>8 DEF put_work, Tickets
    <2>7. Phases'
      BY <1>1 DEF put_work, Phases, Exited
    <2> QED
      BY <2>1, <2>6, <2>7
  <1>2. CASE CreateThread
    <2>1. thread_count \in Worker /\ pc[thread_count] \in {"none", "wait"}
      BY <1>2, ThreadsAssumption DEF CreateThread, MoreThreads, TypeOK, Worker, Phases
    <2>2. TypeOK'
      BY <1>2, <2>1, ThreadsAssumption DEF CreateThread, MoreThreads, Goto, TypeOK
    <2>3. Count(pc', "get") = Count(pc, "get") /\ Count(pc', "exit") = Count(pc, "exit")
      BY <1>2, <2>1 DEF CreateThread, Goto, At, Count, TypeOK
    <2>4. Tickets'
      BY <1>2, <2>3 DEF CreateThread, Tickets
    <2>5. Phases'
      BY <1>2, <2>1 DEF CreateThread, Goto, Phases, Exited, TypeOK
    <2> QED
      BY <2>2, <2>4, <2>5
  <1>3. CASE StartThreads
    <2>1. TypeOK'
      BY <1>3, ThreadsAssumption DEF StartThreads, Started, TypeOK
    <2>2. Phases'
      BY <1>3 DEF StartThreads, Phases, Exited, Worker
    <2> QED
      BY <1>3, <2>1, <2>2, StillTickets DEF StartThreads
  <1>4. CASE JoinThread
    <2>1. TypeOK'
      BY <1>4, ThreadsAssumption DEF JoinThread, MoreThreads, TypeOK
    <2>2. Phases'
      BY <1>4, ThreadsAssumption DEF JoinThread, Phases, Exited, Worker, TypeOK
    <2> QED
      BY <1>4, <2>1, <2>2, StillTickets DEF JoinThread
  <1>5. CASE FreeQueue
    <2>1. TypeOK'
      BY <1>5 DEF FreeQueue, TypeOK
    <2>2. \A t \in Worker : t < thread_count
      BY <1>5, ThreadsAssumption DEF FreeQueue, MoreThreads, TypeOK, Worker
    <2>3. Phases'
      BY <1>5, <2>2 DEF FreeQueue, Phases, Exited
    <2> QED
      BY <1>5, <2>1, <2>3, StillTickets DEF FreeQueue
  <1> QED
    BY <1>1, <1>2, <1>3, <1>4, <1>5 DEF Main

LEMMA LoopInv ==
    ASSUME Inv, NEW t \in Worker, Loop(t)
    PROVE  Inv'
  <1> USE DEF Inv, mains, queue
  <1>5. /\ Count(pc, "get") \in Nat /\ Count(pc, "exit") \in Nat
        /\ Len(storage) \in Nat /\ curr_q_size \in Int
    BY CountType DEF TypeOK
  <1>1. CASE Spin(t)
    <2>1. CASE all_threads_created
      <3>1. pc[t] = "wait" /\ Goto(t, "size")
        BY <1>1, <2>1 DEF Spin
      <3>2. TypeOK' /\ Phases'
        BY <1>1, <2>1, <3>1 DEF Spin, TypeOK, Phases, Exited, Goto
      <3>3. Count(pc', "get") = Count(pc, "get")
            /\ Count(pc', "exit") = Count(pc, "exit")
        BY <3>1, GotoCount
      <3> QED
        BY <1>1, <3>2, <3>3 DEF Spin, Tickets
    <2>2. CASE ~all_threads_created
      <3>1. UNCHANGED vars
        BY <1>1, <2>2 DEF Spin, vars
      <3> QED
        BY <3>1 DEF vars, TypeOK, Tickets, Phases, At, Exited
    <2> QED
      BY <2>1, <2>2
  <1>2. CASE get_queue_size(t)
    <2>1. pc[t] = "size" /\ Goto(t, AfterSize(curr_q_size))
          /\ curr_q_size' = curr_q_size - 1 /\ storage' = storage
      BY <1>2 DEF get_queue_size
    <2>2. main # "start"
      BY <2>1 DEF Phases
    <2>3. TypeOK' /\ Phases'
      BY <1>2, <2>1, <2>2 DEF get_queue_size, AfterSize, TypeOK, Phases, Exited, Goto
    <2>4. CASE curr_q_size > 0
      <3>1. Count(pc', "get") = Count(pc, "get") + 1
            /\ Count(pc', "exit") = Count(pc, "exit")
        BY <2>1, <2>4, GotoCount DEF AfterSize
      <3> QED
        BY <2>1, <2>3, <2>4, <1>5, <3>1 DEF Tickets, Positive, TypeOK
    <2>5. CASE ~(curr_q_size > 0)
      <3>1. Count(pc', "get") = Count(pc, "get")
            /\ Count(pc', "exit") = Count(pc, "exit") + 1
        BY <2>1, <2>5, GotoCount DEF AfterSize
      <3> QED
        BY <2>1, <2>3, <2>5, <1>5, <3>1 DEF Tickets, Positive, TypeOK
    <2> QED
      BY <2>4, <2>5
  <1>3. CASE get_work(t)
    <2>1. /\ pc[t] = "get" /\ Goto(t, "work") /\ storage # <<>>
          /\ storage' = Tail(storage) /\ work' = [work EXCEPT ![t] = {Head(storage)}]
      BY <1>3 DEF get_work, Erased
    <2>2. Head(storage) \in Work /\ Tail(storage) \in Seq(Work)
          /\ Len(Tail(storage)) = Len(storage) - 1
      BY <2>1 DEF TypeOK
    <2>3. TypeOK'
      BY <1>3, <2>1, <2>2 DEF get_work, TypeOK, Goto
    <2>4. Phases'
      <3>1. main # "start"
        BY <2>1 DEF Phases
      <3>2. \A u \in Worker \ {t} : pc'[u] = pc[u] /\ work'[u] = work[u]
        BY <2>1 DEF Goto, TypeOK
      <3>3. pc'[t] = "work" /\ work'[t] = {Head(storage)}
        BY <2>1 DEF Goto, TypeOK
      <3>4. UNCHANGED <<trace, all_threads_created, thread_count, main, curr_q_size>>
        BY <1>3 DEF get_work
      <3> QED
        BY <2>1, <3>1, <3>2, <3>3, <3>4 DEF Phases, Exited
    <2>5. Count(pc', "get") = Count(pc, "get") - 1
          /\ Count(pc', "exit") = Count(pc, "exit")
      BY <2>1, GotoCount
    <2>6. curr_q_size' = curr_q_size /\ Positive(curr_q_size') = Positive(curr_q_size)
          /\ Positive(curr_q_size) \in Int
      BY <1>3, <1>5 DEF get_work, Positive
    <2>7. Tickets'
      BY <1>5, <2>1, <2>2, <2>5, <2>6 DEF Tickets
    <2> QED
      BY <2>3, <2>4, <2>7
  <1>4. CASE Perform(t)
    <2>1. pc[t] = "work" /\ Goto(t, "size")
      BY <1>4 DEF Perform
    <2>2. TypeOK' /\ Phases'
      BY <1>4, <2>1 DEF Perform, TypeOK, Phases, Exited, Goto
    <2>3. Count(pc', "get") = Count(pc, "get")
          /\ Count(pc', "exit") = Count(pc, "exit")
      BY <2>1, GotoCount
    <2> QED
      BY <1>4, <2>2, <2>3 DEF Perform, Tickets
  <1> QED
    BY <1>1, <1>2, <1>3, <1>4 DEF Loop

LEMMA NextInv == Inv /\ [Next]_vars => Inv'
  <1> SUFFICES ASSUME Inv, [Next]_vars PROVE Inv'
    OBVIOUS
  <1>1. CASE UNCHANGED vars
    BY <1>1 DEF Inv, vars, mains, queue, TypeOK, Tickets, Phases, At, Exited
  <1> QED
    BY <1>1, MainInv, LoopInv DEF Next, Terminated

(* Inv is inductive, so every behaviour of Spec keeps it. *)
THEOREM Safety == Spec => []Inv
  BY InitInv, NextInv, PTL DEF Spec

(* Every variable has its type. *)
THEOREM TypeCorrect == Spec => []TypeOK
  <1>1. Inv => TypeOK
    BY DEF Inv
  <1> QED
    BY <1>1, Safety, PTL

(* get_work() never meets an empty queue. *)
THEOREM FrontCorrect == Spec => []FrontIsThere
  <1>1. Inv => FrontIsThere
    <2> SUFFICES ASSUME Inv, NEW t \in Worker, pc[t] = "get"
                 PROVE  storage # <<>>
      BY DEF FrontIsThere
    <2>1. At(pc, "get") # {}
      BY DEF At
    <2>2. Len(storage) > 0
      BY <2>1, CountType DEF Inv, Tickets, Positive, TypeOK
    <2> QED
      BY <2>2
  <1> QED
    BY <1>1, Safety, PTL

(* The counter is decremented below zero at most once by each thread. *)
THEOREM CounterCorrect == Spec => []CounterBounded
  <1>1. Inv => CounterBounded
    BY CountType, ThreadsAssumption DEF Inv, Tickets, TypeOK, CounterBounded
  <1> QED
    BY <1>1, Safety, PTL

(* The queue is freed when it is empty and every thread has left its loop. *)
THEOREM FreeCorrect == Spec => []FreedUnused
  <1>1. Inv => FreedUnused
    <2> SUFFICES ASSUME Inv, main = "freed"
                 PROVE  storage = <<>> /\ \A t \in Worker : Exited(t)
      BY DEF FreedUnused
    <2>1. \A t \in Worker : Exited(t)
      BY DEF Inv, Phases
    <2>2. At(pc, "get") = {} /\ 0 \in Worker
      BY <2>1, ThreadsAssumption DEF At, Exited, Worker
    <2>3. curr_q_size < 0
      BY <2>1, <2>2 DEF Inv, Phases
    <2>4. Len(storage) = 0
      BY <2>2, <2>3, FS_EmptySet DEF Inv, Tickets, Positive, TypeOK
    <2> QED
      BY <2>1, <2>4 DEF Inv, TypeOK
  <1> QED
    BY <1>1, Safety, PTL

-----------------------------------------------------------------------------
(* The refinement of WorkHandout. *)

(* An entry that goes from the file to the queue stays where it was in the *)
(* two of them together.                                                   *)
LEMMA MoveEntry ==
    ASSUME NEW S, NEW s \in Seq(S), NEW u \in Seq(S), u # <<>>
    PROVE  Append(s, Head(u)) \o Tail(u) = s \o u
  <1>1. /\ Head(u) \in S /\ Tail(u) \in Seq(S) /\ Len(Tail(u)) = Len(u) - 1
        /\ Len(u) \in Nat \ {0} /\ Len(s) \in Nat
    BY HeadTailProperties, EmptySeq, LenProperties
  <1>2. u = <<Head(u)>> \o Tail(u)
    BY HeadTailProperties DEF Range
  <1>3. Append(s, Head(u)) = s \o <<Head(u)>>
    BY <1>1, AppendIsConcat
  <1>4. <<Head(u)>> \in Seq(S)
    BY <1>1
  <1> QED
    BY <1>1, <1>2, <1>3, <1>4, ConcatAssociative

LEMMA HandoutInit == Init => Handout!Init
  <1> SUFFICES ASSUME Init PROVE Handout!Init
    OBVIOUS
  <1>1. trace \in Seq(Work) /\ trace \in Traces
    BY TracesAssumption DEF Init
  <1>2. storage \o trace = trace
    BY <1>1, ConcatEmptySeq DEF Init
  <1> QED
    BY <1>1, <1>2 DEF Init, Handout!Init

LEMMA HandoutStep == Inv /\ [Next]_vars => [Handout!Next]_(Handout!vars)
  <1> SUFFICES ASSUME Inv, [Next]_vars
               PROVE  Handout!Next \/ UNCHANGED Handout!vars
    OBVIOUS
  <1> USE DEF Inv, Handout!vars
  <1>0. storage \in Seq(Work) /\ trace \in Seq(Work)
    BY DEF TypeOK
  <1>1. CASE put_work
    <2>1. storage' \o trace' = storage \o trace
      BY <1>0, <1>1, MoveEntry DEF put_work
    <2>2. main = "start" /\ main' = main /\ work' = work
      BY <1>1 DEF put_work
    <2> QED
      BY <2>1, <2>2
  <1>2. CASE CreateThread \/ StartThreads \/ JoinThread
    BY <1>2 DEF CreateThread, StartThreads, JoinThread, queue
  <1>3. CASE FreeQueue
    <2>1. \A t \in Worker : Exited(t)
      <3>1. \A t \in Worker : t < thread_count
        BY <1>3, ThreadsAssumption DEF FreeQueue, MoreThreads, TypeOK, Worker
      <3> QED
        BY <1>3, <3>1 DEF FreeQueue, Phases
    <2>2. \A t \in Worker : work[t] = {}
      BY <2>1 DEF Phases, Exited
    <2>3. storage = <<>> /\ trace = <<>>
      <3>1. At(pc, "get") = {} /\ 0 \in Worker
        BY <2>1, ThreadsAssumption DEF At, Exited, Worker
      <3>2. curr_q_size < 0
        BY <2>1, <3>1 DEF Phases
      <3>3. Len(storage) = 0
        BY <3>1, <3>2, FS_EmptySet DEF Tickets, Positive, TypeOK, Count
      <3> QED
        BY <1>0, <1>3, <3>3, EmptySeq DEF FreeQueue, Phases
    <2>4. storage \o trace = <<>>
      BY <2>3, <1>0, ConcatEmptySeq
    <2>5. storage' \o trace' = storage \o trace /\ work' = work /\ main' = "freed"
      BY <1>3 DEF FreeQueue, queue
    <2>6. Handout!Stop
      BY <2>2, <2>4, <2>5 DEF Handout!Stop
    <2> QED
      BY <2>6 DEF Handout!Next
  <1>4. ASSUME NEW t \in Worker, Spin(t) \/ get_queue_size(t)
        PROVE  UNCHANGED Handout!vars
    BY <1>4 DEF Spin, get_queue_size, mains, queue
  <1>5. ASSUME NEW t \in Worker, get_work(t)
        PROVE  Handout!Take(t)
    <2>1. pc[t] = "get" /\ storage # <<>> /\ storage' = Tail(storage)
          /\ work' = [work EXCEPT ![t] = {Head(storage)}]
          /\ trace' = trace /\ main' = main
      BY <1>5 DEF get_work, Erased, mains
    <2>2. work[t] = {} /\ trace = <<>> /\ main # "freed"
      BY <2>1 DEF Phases, Exited
    <2>3. Tail(storage) \in Seq(Work)
      BY <1>0, <2>1
    <2>4. storage \o trace = storage /\ storage' \o trace' = Tail(storage)
      BY <1>0, <2>1, <2>2, <2>3, ConcatEmptySeq
    <2> QED
      BY <2>1, <2>2, <2>4 DEF Handout!Take
  <1>6. ASSUME NEW t \in Worker, Perform(t)
        PROVE  Handout!Finish(t)
    <2>1. pc[t] = "work" /\ work' = [work EXCEPT ![t] = {}] /\ UNCHANGED <<mains, queue>>
      BY <1>6 DEF Perform
    <2>2. work[t] # {}
      BY <2>1 DEF Phases
    <2> QED
      BY <2>1, <2>2 DEF Handout!Finish, mains, queue
  <1>7. CASE Terminated \/ UNCHANGED vars
    BY <1>7 DEF Terminated, vars, mains, queue
  <1> QED
    BY <1>1, <1>2, <1>3, <1>4, <1>5, <1>6, <1>7 DEF Next, Main, Loop, Handout!Next

(* The work queue implements the handing out of work in one step, on which *)
(* TakeWork of LockFreeBST relies.                                         *)
THEOREM HandsOutCorrect == Spec => HandsOut
  <1>1. Init => Handout!Init
    BY HandoutInit
  <1>2. Inv /\ [Next]_vars => [Handout!Next]_(Handout!vars)
    BY HandoutStep
  <1> QED
    BY <1>1, <1>2, Safety, PTL DEF Spec, HandsOut, Handout!Spec
=============================================================================
