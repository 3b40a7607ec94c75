------------------------------ MODULE TraceGen ------------------------------
(***************************************************************************)
(* tracegen.cpp: writes the files that the harness reads.  The stack of    *)
(* the program is todo, what it still has to do: loops over keys, and the  *)
(* calls of create_lc_trace() that are pending.  One action is one write() *)
(* of a line, which may fail, or the end of a loop or a call.              *)
(*                                                                         *)
(* A line is an operation and a key.  Option parsing and the text of the   *)
(* file are left out.                                                      *)
(***************************************************************************)
EXTENDS Integers, Sequences, FiniteSets, SequencesExt

CONSTANTS
    Args,                \* the possible options
    ULONG_MAX,           \* of the platform
    MIXED_WORKLOAD_STEP,
    MaxLines             \* bound: the program is followed up to here

Options ==
    [num_inserts : 0 .. ULONG_MAX, num_deletes : 0 .. ULONG_MAX,
     num_searches : 0 .. ULONG_MAX, type : {"SEQUENTIAL", "LOW_CONTENTION", "MIXED"}]

ASSUME ArgsAssumption == Args \subseteq Options /\ ULONG_MAX \in Nat
ASSUME StepAssumption == MIXED_WORKLOAD_STEP \in Nat \ {0} /\ MaxLines \in Nat

VARIABLES
    args, \* the options given
    file, \* the lines written
    open, \* is fd open?
    todo  \* what is left to be done

vars == <<args, file, open, todo>>

Unsigned(n) == n % (ULONG_MAX + 1)

(* while (start <= end) counting up, or from both ends (second: the line   *)
(* for start is there, the one for end is not).                            *)
Upwards(op, start, end) ==
    [do |-> "upwards", op |-> op, start |-> start, end |-> end, second |-> FALSE]
FromEnds(op, start, end) == [Upwards(op, start, end) EXCEPT !.do = "from_ends"]
create_lc_trace(elem, range) ==
    [do |-> "lc", elem |-> Unsigned(elem), range |-> range, second |-> FALSE]

(* Mutant: a number of searches or deletes of zero is not looked at. *)
MutNoZeroTest(op, num) == <<FromEnds(op, 1, Unsigned(num - 1))>>

(* The searches or deletes of a low contention trace. *)
LowContention(op, num) == IF num = 0 THEN <<>> ELSE <<FromEnds(op, 1, num - 1)>>

(* The rounds of a mixed trace: until completed reaches num_inserts. *)
Rounds(num_inserts) ==
    {r \in 0 .. num_inserts : r * MIXED_WORKLOAD_STEP < num_inserts}
Mixed(num_inserts) ==
    FlattenSeq([i \in 1 .. Cardinality(Rounds(num_inserts)) |->
        LET completed == (i - 1) * MIXED_WORKLOAD_STEP
            Step(op) == Upwards(op, completed + 1, completed + MIXED_WORKLOAD_STEP)
        IN  <<Step("insert"), Step("search"), Step("delete")>>])

generate_trace_file(a) ==
    LET half == a.num_inserts \div 2
    IN  CASE a.type = "SEQUENTIAL" ->
               <<Upwards("insert", 1, a.num_inserts), Upwards("search", 1, a.num_searches),
                 Upwards("delete", 1, a.num_deletes)>>
          [] a.type = "LOW_CONTENTION" ->
               (IF a.num_inserts = 0 THEN <<>>
                ELSE <<Upwards("insert", half, half), create_lc_trace(half, half)>>)
               \o LowContention("search", a.num_searches)
               \o LowContention("delete", a.num_deletes)
          [] a.type = "MIXED" -> Mixed(a.num_inserts)

Init ==
    /\ args \in Args
    /\ file = <<>> /\ open = TRUE
    /\ todo = generate_trace_file(args)

-----------------------------------------------------------------------------
Done == todo = <<>>

Write(op, key) ==
    /\ open
    /\ file' = Append(file, [op |-> op, key |-> key])
    /\ UNCHANGED open

(* Mutant: create_lc_trace() returns and leaves the file open. *)
MutStaysOpen == UNCHANGED open

(* close(fd): what is written to it afterwards fails. *)
Close == open' = FALSE

WriteFails == Close /\ UNCHANGED file

Do(what) == todo' = what \o Tail(todo)

(* The loop of a after a line for one end, or for both. *)
NextKeys(a) ==
    IF a.do = "from_ends" /\ a.start # a.end /\ ~a.second THEN [a EXCEPT !.second = TRUE]
    ELSE [a EXCEPT !.start = @ + 1, !.second = FALSE,
                   !.end = IF a.do = "from_ends" THEN Unsigned(@ - 1) ELSE @]

Loop ==
    /\ ~Done /\ Len(file) < MaxLines /\ Head(todo).do \in {"upwards", "from_ends"}
    /\ LET a == Head(todo)
       IN  IF a.start > a.end THEN Do(<<>>) /\ UNCHANGED <<file, open>>
           ELSE \/ Write(a.op, IF a.second THEN a.end ELSE a.start) /\ Do(<<NextKeys(a)>>)
                \/ WriteFails /\ todo' = <<>>
    /\ UNCHANGED args

(* Mutant: the recursion ends one level higher. *)
MutEndsEarly(range) == range = 2

AtEnd(range) == range = 1

(* A line for each side, then a call for each.  A failure is not reported  *)
(* to the caller, which goes on with the next call.                        *)
Call ==
    /\ ~Done /\ Len(file) < MaxLines /\ Head(todo).do = "lc"
    /\ LET a == Head(todo)
           half == a.range \div 2
       IN  IF AtEnd(a.range) THEN Do(<<>>) /\ UNCHANGED <<file, open>>
           ELSE \/ /\ ~a.second /\ Write("insert", Unsigned(a.elem - half))
                   /\ Do(<<[a EXCEPT !.second = TRUE]>>)
                \/ /\ a.second /\ Write("insert", Unsigned(a.elem + half))
                   /\ Do(<<create_lc_trace(a.elem - half, half),
                           create_lc_trace(a.elem + half, half)>>)
                \/ WriteFails /\ Do(<<>>)
    /\ UNCHANGED args

Terminated == (Done \/ Len(file) = MaxLines) /\ UNCHANGED vars

Next == Loop \/ Call \/ Terminated
Spec == Init /\ [][Next]_vars
FairSpec == Spec /\ WF_vars(Next)

-----------------------------------------------------------------------------
(* create_lc_trace(0, 0) calls itself for ever, or until write() fails. *)
Endless == args.type = "LOW_CONTENTION" /\ args.num_inserts = 1

(* The tree is perfect, and deletes and searches are for keys in it. *)
WellSized ==
    LET a == args
    IN  \/ a.type = "MIXED"
        \/ /\ a.num_searches <= a.num_inserts /\ a.num_deletes <= a.num_inserts
           /\ a.type = "LOW_CONTENTION" =>
                 a.num_inserts \in {2 ^ i : i \in 1 .. a.num_inserts}

(* Is key in a tree when the lines before i have been performed? *)
Present(key, i) ==
    \E j \in 1 .. i - 1 :
        /\ file[j] = [op |-> "insert", key |-> key]
        /\ \A l \in j + 1 .. i - 1 : file[l] # [op |-> "delete", key |-> key]

(* No key is inserted twice, which would end a program on the fine-grained *)
(* tree, and what is searched for or deleted is there, which the harness   *)
(* relies on when it erases it from tree_values_correctness: in every file *)
(* that is left behind, complete or cut off by a write that failed.        *)
LinesMeetTree ==
    \A i \in DOMAIN file :
        IF file[i].op = "insert" THEN Endless \/ ~Present(file[i].key, i)
        ELSE WellSized => Present(file[i].key, i)

(* The keys above file[i].key in a tree of the keys inserted in this order. *)
Above(i) ==
    LET between(x, y, z) == (x < y /\ y < z) \/ (z < y /\ y < x)
    IN  {j \in 1 .. i - 1 :
            \A l \in 1 .. j - 1 : ~between(file[j].key, file[l].key, file[i].key)}

(* The inserts of a low contention trace build a perfect tree of the keys  *)
(* that searches and deletes will name, in which accesses to low and high  *)
(* keys in turn are on different paths.                                    *)
PerfectTree ==
    Done /\ open /\ args.type = "LOW_CONTENTION" /\ WellSized =>
        LET inserts == {i \in DOMAIN file : file[i].op = "insert"}
        IN  /\ {file[i].key : i \in inserts} = 1 .. args.num_inserts - 1
            /\ \A i \in inserts : 2 ^ (Cardinality(Above(i)) + 1) <= args.num_inserts

(* The searches or deletes of a complete low contention trace: each of the *)
(* keys 1 .. num - 1 once, and none for num = 0, where end would have      *)
(* become the largest unsigned long.                                       *)
EachKeyOnce ==
    Done /\ open /\ args.type = "LOW_CONTENTION" =>
        \A op \in {"search", "delete"} :
            LET lines == SelectSeq(file, LAMBDA line : line.op = op)
                num == IF op = "search" THEN args.num_searches ELSE args.num_deletes
            IN  /\ ToSet(lines) = [op : {op}, key : 1 .. num - 1]
                /\ Len(lines) = Cardinality(ToSet(lines))

(* Every trace is written to its end, save one. *)
Ends == Endless \/ <>Done
=============================================================================
