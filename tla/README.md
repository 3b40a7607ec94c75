# Concurrent binary search trees, in TLA+

The program keeps integer keys in a binary search tree that worker threads
search and change at the same time. It has two such trees, one with a lock in
every node (`Fine_Grained_BST_Lock.cpp`) and one without locks
(`Lock_Free_BST.cpp`), and a harness (`test_harness.cpp`) that builds a tree
from `create_file`, lets the threads work off `test_file`, and then walks the
tree to see whether it is in order. This directory holds TLA+ specifications
of these parts, the configurations with which TLC checks them, and theorems
that TLAPS has checked.

## 1. The system and its parts

| Part | State | Operations | Used by |
|---|---|---|---|
| Lock-free tree, `Lock_Free_BST.cpp/.h` | nodes with `key`, `op`, `left`, `right`; published `Child_CAS_OP`s and `Relocate_OP`s | `add`, `find`, `remove`; helpers `help`, `helpChildCAS`, `helpMarked`, `helpRelocate` | harness, workers |
| Hazard pointers, same file | `hp`, `hp_off`, `rlist` | `add_to_hp_list`, retire and scan inside `helpChildCAS` | lock-free tree, when `hazard_pointers` is true |
| Fine-grained tree, `Fine_Grained_BST_Lock.cpp` | `g_root`, `tree_lock`, nodes with `value`, `left`, `right`, `parent`, `lock` | `search`, `insert`, `remove`; `del_search`, `get_inorder_successor`, `get_inorder_predecessor` | harness, workers |
| Work queue, `work_queue.h` | `storage`, `curr_q_size`, `queue_lock` | `put_work`, `get_queue_size`, `get_work` | `main()` fills it, workers empty it |
| Workers and harness, `test_harness.cpp` | `all_threads_created`, the threads, `tree_values_correctness` | `init_harness`, `perform_ops_LF`, `perform_ops_FG`, `check_valid_*_Tree` | |
| Trace generator, `tracegen.cpp` | one file | `create_lc_trace`, `generate_trace_file` | separate program |
| `Fine_Grained_BST.cpp` | an older fine-grained tree | | not built |
| Timers, shell scripts, traces | | | |

What is hard in them:

* **Lock-free tree.** A thread reads nodes one after the other while others
  change them; it announces a change by putting an operation into a node's
  `op` with a compare-and-swap, and whoever meets an operation finishes it
  first. So every step after the announcement may be done by several threads,
  late and more than once. The removal of a node with two children moves a
  key upwards (*relocation*) and involves two nodes. Correct means: search
  order and no duplicates at all times, no node lost, every call answers as an
  atomic set would, all helpers agree, some thread always gets on.
* **Hazard pointers.** A node may be deleted only when no thread will read it
  again. What is read, published, retired and scanned are separate accesses, and
  an operation is finished by any thread.
* **Fine-grained tree.** Locks are taken hand over hand and nodes are freed
  under their locks: no use after free, no deadlock, search order, answers.
* **Work queue.** Asking for the size and taking an entry are two critical
  sections, and asking changes the counter. Correct means: each entry once, in
  order, never `front()` of an empty vector, everybody stops.
* **Harness and traces.** The verdict on the tree must depend on the trace only, not on
  the interleaving; and a trace, complete or cut off, must be one that the trees and the
  harness can deal with.

What makes each part correct is stated by the properties in section 3;
`PROJECT.json` lists, for each hazard and its line, the properties that cover it.

## 2. The modules

```
WorkHandout  <=== refines ===  WorkQueue            (WorkQueue_proofs)
      |
      | TakeWork, Return in one step
      v
LockFreeBST <-- LockFreeTree <-- LockFreeSet  ==== refines ====>  ConcurrentSet
(LockFreeBST_proofs)    ^         (LockFreeSet_proofs)                 ^
                        +--- LockFreeHistory                           |
                        |    (LockFreeHistory_proofs,                  |
                        |    LockFreeTree_proofs)                      |
                        +--- HazardPointers (HazardPointers_proofs,    |
                        |    which extends LockFreeTree_proofs)        |
                        +--- LockFreeHarness ------> HarnessCheck      |
                                                          ^            |
             FineGrainedBST <--- FineGrainedHarness ------+            |
   (FineGrainedBST_proofs)  <--- FineGrainedSet  ==== refines =========+
                                 (FineGrainedSet_proofs)

TraceGen
```

| Module | What it is |
|---|---|
| `LockFreeBST` | the lock-free tree and the threads that call it, one action per access to shared memory; types and pointer safety |
| `LockFreeTree` | the tree as a whole: the abstract set, the shape invariants, the walk of the harness, progress |
| `LockFreeHistory` | adds what the `op` of each node has been |
| `ConcurrentSet` | what a concurrent tree promises: an atomic set |
| `LockFreeSet` | adds the history of right answers and the refinement mapping to `ConcurrentSet` |
| `HazardPointers` | the steps of `LockFreeBST` with what is read, published, retired and scanned between them |
| `FineGrainedBST` | the tree with a lock in each node, one action from each mutex to the next; locking, shape, end |
| `FineGrainedSet` | its refinement of `ConcurrentSet` |
| `HarnessCheck` | what the harness expects of the tree and says of it: functions of the files and of the values found |
| `LockFreeHarness`, `FineGrainedHarness` | harness and tree composed |
| `WorkQueue` | queue, worker loops, creation and joining of threads |
| `WorkHandout` | what the queue promises: each entry to one thread, in order |
| `TraceGen` | the program that writes trace files |
| `LockFreeBST_proofs`, `LockFreeHistory_proofs`, `HazardPointers_proofs` | theorems on the nodes and operations of the lock-free tree, and on its hazard pointers and retired nodes |
| `LockFreeTree_proofs` | theorems on the lock-free tree as a whole: shape, order, keys, what is left at the end |
| `LockFreeSet_proofs` | the theorem that the lock-free tree implements `ConcurrentSet` |
| `FineGrainedBST_proofs`, `FineGrainedSet_proofs` | theorems on the fine-grained tree: locks, order, answers |
| `WorkQueue_proofs` | theorems on the work queue |
| `MC...` | values of the constants for TLC |

### LockFreeBST and the code

* The heap is four functions on addresses: `node` (`LF_BST_Node`), `cas`
  (`Child_CAS_OP`), `reloc` (`Relocate_OP`) and the set `deleted`. A tagged
  pointer is a record of flag and address, so `SET_FLAG`, `GET_FLAG`,
  `UNFLAG`, `SET_NULL`, `IS_NULL` keep their names and meaning, including the
  bitwise or of two flags. A block gets an address when a compare-and-swap
  publishes it: a `newNode`, `cas_op` or `reloc_op` whose CAS fails has been seen by
  nobody and is deleted by its owner.
* `loc[t]` holds the local variables of the call under way, with their names
  in the source, and `pc[t]` the next access to shared memory. Each action is
  one such access and the computation up to the next. Every write to shared
  memory in the code is a `__sync` compare-and-swap, and the fields read are
  `volatile`, so on x86 the interleaving of the accesses is what the program does.
  A variable that is not used again is reset, which joins states that differ in
  nothing the program reads.
* `FindStart` to `FindCurr` are `find()`; `AddReadOld`, `AddPublish` the rest
  of `add()`; `RemoveReadRight` to `RemovePublish` the rest of `remove()`; the
  `Help...` actions the helpers. `ret` says whether a helper was called by
  `find()`, which then retries, or by the operation's owner.
* `remove()` hands `pred` and `pred_op` to its second `find()` by reference: what the
  first one left there survives until the search has moved, so `FindCall`
  keeps them. An `ABORT` return leaves them, and `remove()` starts over.
* `CreateTree` is the loop of `init_harness()` in which the main thread inserts
  `create_file`, before there are workers. `TakeWork` and `Return` are the loop
  of `perform_ops_LF()` with the queue of `WorkHandout`.
* `hazard_pointers` is false here; the lines under it are in `HazardPointers`.
* `ReusesBlocks` says whether `malloc()` may hand out a deleted `Relocate_OP`
  again, to a later relocation of the thread that deleted it. With FALSE a
  deleted block stays as it was. No other block that has been published is ever
  deleted. Reuse for a node, which has the same size, is left out.

### LockFreeTree and LockFreeSet

The abstract set is read off the heap with the published operations applied:
`Child(n, side)` is what the pending `CHILDCAS` of `n` will leave,
`CurrentKey(n)` the key a successful relocation gives it, and a node is `Dead`
when it is marked or its key has been given away. `Walk(child, here)` is the recursion
that all walks of the tree share, with the children to follow and the values to take given as
functions: `InOrder` follows `Child`, `populate_tree_values_LF` what the harness follows. An insert takes effect with
the CAS of line 112, a delete with the mark (267) or with the
change of the relocation's state to `SUCCESSFUL` (482), which a helper may do.

In `LockFreeSet` each call records in `seen` whether its key was in the set in
each state since it began: a negative answer is right if some of
these states explains it. That moment is in general known only afterwards
(after `find()` has compared `last_right`'s op), hence a history and not a guess.

`LockFreeHistory` remembers in `past[n]` every value the `op` of `n` has had.

### HazardPointers

* Each step of `LockFreeBST` is taken as it is (`TreeStep`). Before its next one the
  thread does what is in `todo[t]`: `Read` a child pointer for publication, `Test` whether
  it is null first (as `remove()` does), `Put` a pointer into `hp`. `ToPublish` says, for
  each place with `if (hazard_pointers)`, what comes there. Where the code reads a child
  pointer once to publish it and once more to use it, so does the model.
* `hp`, `hp_off`, `rlist` are the variables of the code; thread numbers are `0 ..`, and
  `main()`, which builds the tree, is number 0 too. `Retired` is what the successful CAS of
  `helpChildCAS()` puts into `rlist`; `CompareSlot` and `DeleteNode` are its scan over
  `temp_rlist`, slot by slot.
* A deleted node keeps its contents and its address, and `freed` remembers it: what a
  thread does with it after that is undefined, and `NoUseAfterFree` says whether
  there is such a step. The runs that pass do not depend on it. So by its construction the module changes
  the tree as `LockFreeBST` does and in no other way; in the program that holds up to the first use of a deleted node.

### FineGrainedBST and FineGrainedSet

* A node holds its fields and the owner of its `lock`; `freed` is what has been given
  to `free()`. An address is never used twice: `WaitsForChild` and `LocksHeld` show
  that no thread has a pointer to a freed node, so reuse could not be seen.
* An action starts when a thread gets the mutex it waits for (`pc` says which, `next`
  where) and ends before the next `pthread_mutex_lock`. It contains the unlocks on
  the way. That is enough because a field is accessed only with the node's lock held
  (and `g_root` with `tree_lock`), which `LocksHeld` states: taking a mutex can be moved later
  past steps of other threads, giving it back earlier. The one access without a
  lock is the argument `g_root` in `perform_ops_FG()`, whose value is not used.
* `LockTree`, `LockRoot`, `LockChild` are the descent of `search()`, `insert()` and
  `del_search()`. `remove()` keeps `tree_lock` until it has found its node. `Delete` is
  what follows: the last node, a leaf, or a node whose value is replaced. The code for the
  successor and for the predecessor are mirror images, and `side` says which it is.
  `LockSide`, `LockSuccessor`, `LockOrphan` take the locks of this part, and `Replace`
  changes the tree when all are held.
* The calls return nothing that the workers use; `answer` is what they print.
  A duplicate insert is an `assert(0)`: nothing happens after it.
* In the refinement every operation takes effect in the step that takes its last lock.

### HarnessCheck, TraceGen

* `Expected` is `tree_values_correctness`: `create_file`, with the key of each delete of
  `test_file` erased. `Verdict` is what `check_valid_*_Tree()` asserts. The check is an
  option for runs that delete only; `Checkable` says which traces it makes sense for.
* `TraceGen`: `todo` is the stack of the program (loops, and the calls of
  `create_lc_trace()` that are pending), each action one `write()`, which may fail, or the end of
  a loop or a call. A failed write closes the file and returns. Numbers are
  unsigned, of a small width (`ULONG_MAX`).

### WorkQueue

The actions have the names of the source's functions. `get_queue_size` is one
critical section that returns the counter and decrements it; `get_work` removes
the front. `main` and `thread_count` are the two loops of `init_harness()`;
`Spin` is `while (!all_threads_created);`. The program is built without
optimisation, so this loop reads memory every time.

## 3. What is checked

| Run | Instance | States | What it shows |
|---|---|---|---|
| `lf_tree` | 3 workers, 2 trees, 3 traces | 539069 | types, pointers, shape, that the key moved up is the next, helpers' agreement, no `op` comes back, frozen marks, order the harness looks for |
| `lf_linear` | 3 workers, 1 tree, 2 traces | 73347 | the tree implements `ConcurrentSet` |
| `lf_ends` | 2 workers, 2 trees, 5 traces | 133099 | lock-freedom; no assertion of the harness fires |
| `lf_walk` | 2 workers | violation | the harness's walk misses live keys |
| `lf_reuse` | 2 workers, blocks reused | violation | a late helper and a reused `Relocate_OP` lose a node |
| `hp_scan` | 2 workers, 3 slots each, 3 traces | 240062 | a slot held during a scan protects its node, what is unlinked is retired, nothing is deleted twice |
| `hp_twice` | 1 worker, the code's constants | violation | deleting and re-inserting deletes a node twice |
| `hp_unsafe` | 2 workers, 10 slots each | violation | `find()` reads a deleted node |
| `fg_tree` | 3 workers, 4 trees, 9 traces | 47360 | locking discipline, no use after free, order, no node lost, no deadlock; the tree implements `ConcurrentSet` |
| `fg_ends` | 3 workers, 2 trees, 5 traces | 112721 | everything ends; the harness approves of the tree |
| `wq` | 3 workers, 0, 2 or 4 entries | 478 | each entry once and in order, bounds, termination |
| `tracegen` | 11 sizes of tree, 5 and 4 of deletes and searches, 3 types | 45079 | traces are fit for the trees and the harness, perfect trees, termination |

**Bounds.** The trees have no bound of their own: a run ends because
`create_file` and `test_file` do. The trees are `2,1,4` (the next larger key of 2
is at its right child) and `2,1,4,3` (it is further down), the two shapes that
`helpRelocate()` tells apart by `op->dest == pred`. The traces are chosen so
that the operations meet: two deletes of one key, a delete and a re-insert, a
delete whose replacement is deleted or gets a child, an insert that changes
which key is next, a search for the key under relocation. Three threads are the
owner, a helper and a third that changes the nodes between the two. Every action
and every disjunct of the next-state relation is taken in the passing runs.
`hp_scan` has a ring of three, so that it wraps and overwrites entries that are in
use, and scans with two retired nodes. Its traces insert only where no node has been
unlinked, as `hp_twice` shows what happens elsewhere.
For the fine-grained tree the trees make `remove()` find its
replacement at once and after two rounds of the loop, on both sides, with and without a
child to hang elsewhere, and delete the last node. Workers are symmetric in the runs of
safety properties; runs with a liveness property use no symmetry.
`MaxLines` of `TraceGen` stops the one trace that has no end; with 60 lines it is above every other
trace of the instance. `ULONG_MAX` is 31, above twice the largest tree, so
that only `0 - 1` wraps, as in the code. `Ends` exempts that one trace (`Endless`: low contention, one insert); what it
shows is that every other one ends.
Every property of a passing run is violated by a small mutation of
the module, the operator `Mut...` beside the definition it replaces.

**Fairness.** `lf_ends` assumes only `WF_vars(Next)`: some thread runs. No
thread may be forgotten by the model and none is assumed to run, so `LockFree`
fails if threads can keep each other from finishing or if one waits for another.
This is what the project report says in 7.5, "system-wide progress is guaranteed even
if some threads might be starved because of the retries". A retry in which
nothing was helped would be a cycle of `find()` that changes `pc`, not a
stutter, so it would show. `wq` assumes weak fairness of the main thread and
of each worker: they are threads of an operating system, each of them takes
`queue_lock` a bounded number of times in all, and nobody holds it while waiting.
`fg_ends` assumes the same of the workers and the mutexes of nodes: all threads
together take each mutex a bounded number of times, so one that waits for it is
alone with it in the end. There `CHECK_DEADLOCK` is off because `Ends` itself fails
where the program stops short; `fg_tree` checks deadlock. `tracegen` assumes that its
one thread runs.

**Findings.**

* `lf_walk`: `populate_tree_values_LF()` (`test_harness.cpp:530`) turns round at a
  marked node. `helpMarked()` leaves one linked when its CAS of the
  predecessor's `op` fails, and it may have a live subtree. The harness then
  prints "All elements were not correctly deleted" of a correct tree, and
  does not look at the order of the part it has skipped.
* `lf_reuse`: `remove()` deletes a `Relocate_OP` that it has published
  (`Lock_Free_BST.cpp:314`). A helper may be in `helpRelocate()` with its
  address; if the block is used for the next relocation, the helper's CAS of
  line 511 clears the new one from `replace`, which is then unlinked without
  a mark. The safety runs assume that such a block keeps its contents. In the
  counterexample the helper's read of the state may as well come before the
  `delete`: nothing in it depends on what freed memory contains.
* `hp_twice`: `helpChildCAS()` retires the node of `op->expected`. For an insert this
  is a null pointer, which carries the address of the node that was
  unlinked there (`Lock_Free_BST.cpp:416`), so that node is retired, and deleted, once more (line 367).
  The project report (5.0) tells of an open bug when elements are inserted, all deleted and inserted again.
* `hp_unsafe`: `find()` publishes one read of a child pointer and uses another
  (`Lock_Free_BST.cpp:165`, `167`), and validates neither, so the node can be deleted in between.
  `HP_THRESHOLD` is 1 in the run and 6 in the code: there the thread has to retire more nodes first, each of which
  the scan looks for in `hp` by itself, so that the same steps lead to the same end.

## 4. What is proved

`LockFreeBST_proofs`, for any set of workers, any files and either value of
`ReusesBlocks`, from the assumptions named in `LockFreeBST`:

* `TypeCorrect == Spec => []TypeOK`
* `PointersCorrect == Spec => []PointersOK`: no thread follows `NULL`, an unset
  variable, a null child pointer, or a pointer to a block of another type.

`Inv == TypeOK /\ PointersOK` is inductive. `PointersOK` needs both halves:
`HeapOK` (child pointers lead to nodes, a flag tells the type of the block, and
at `base_root` there never is anything but a `CHILDCAS`) and `LocalOK` (what the
local variables hold at each label). `find()` casts the operation at `base_root`
without looking at the flag; `BaseRootOp` holds because a marked node or the
destination of a relocation is always one below `base_root`, and that in turn needs
the search below another root never to come back to `base_root`. There is a
lemma for each operator that changes the heap, and one for each action.

`LockFreeHistory_proofs`, for any set of workers and any files, if no deleted block is used again
(`~ReusesBlocks`, a hypothesis of the theorems: `lf_reuse` shows what happens otherwise):

* `OpsNeverRepeat == HistorySpec => []NeverRepeats`: no `op` that a node has had comes back, so the
  CAS operations on operation pointers are free of the ABA problem.

The inductive invariant is `Inv /\ OpsInv`. `OpsInv` reads the past of each node: an address comes to a
node with its flag first and without it afterwards, nothing follows a mark (`Traced`), and an
address is new when it is published (`Fresh`). `RelocationOK` says where a relocation can be: in its `dest` only after
`dest_op` was there, gone from it only when `SUCCESSFUL`, and `FAILED` only if `dest_op` is gone and the
relocation never arrived, so that it never can. That all helpers agree (`HelpersAgree` below) needs this history: a helper that
comes late, with `dest` already cleared, has lost its CAS as one that comes to a changed `dest` has, and only
the past tells them apart. `ThreadOps` says what a thread may rely on after it has read: an `op`
that the node has had, and at `reloc_won` and `reloc_lost` which of the two cases it is in. A lemma about
one changed `op` (`ChangeStep`) and one about a decided relocation (`DecideOps`) carry
all of it over a step, and each action meets their conditions (`Allowed`).

`LockFreeTree_proofs`, for any set of workers and any files, if no deleted block is used again:

* `AlwaysSearchOrder == HistorySpec => []SearchOrder`: in order, the current keys of the live nodes increase
  in every state.
* `AlwaysUnlinkedMarked == HistorySpec => []UnlinkedAreMarked`: no node in use is ever taken out of the tree.
* `AlwaysSpareChild == HistorySpec => []MarkedHasSpareChild`: a marked node has a child to spare.
* `AlwaysReplaceNext == HistorySpec => []ReplaceIsNext`: the node whose key `remove()` moves up comes right after the
  destination in order, and so it is until the relocation has been decided.
* `HelpersAgree == HistorySpec => []OneOutcome`: whoever replaces the key of a relocation, clears its
  `dest` or marks `replace` does so when `op->state` says `SUCCESSFUL`, and whoever releases `replace` unmarked when
  it says `FAILED`.
* `KeysOnlyGrow == HistorySpec => KeysGrow`, `MarkedStayFrozen == HistorySpec => MarkedFrozen`: what a helper that
  comes late may not do.
* `AlwaysQuiescentClean == HistorySpec => []QuiescentClean`: nothing is left half done when the threads have been joined.
* `AlwaysHarnessFindsOrder == HistorySpec => []HarnessFindsOrder`: the order that `check_valid_LF_Tree()` asserts,
  if no file has a negative key (`FilesNatural`; the harness takes the -1 of `base_root` for a value).

The inductive invariant is `TreeInv` (`AlwaysTreeInv`). Like `FineGrainedSet_proofs` it describes the
tree without recursion, here by two values that exist in every state: `A[n]`, the ancestors of `n` with the side
on which `n` is of each, and `G`, the unlinked nodes, which keep the ancestors they had. They describe the tree that
the *published* operations will leave (`Child`, `CurrentKey`), which is why a helper's steps change neither,
and why only three kinds of step need thought: the publication of an insert, which adds one node to `A`;
the publication of the CAS that unlinks a marked node, which adds it to `G`; and a relocation
that becomes `SUCCESSFUL`, which lets the ancestors stand and changes the key of `dest` to that of the node next in
order. The parts of `TreeInv` are

* `TreeOK(A, G)`: the linked nodes hang together as `A` says (`Shape`) and are ordered by it (`Order`). `Order` gives each node
  the range from its key in memory to its current key: a relocation raises the key of a node that searches are passing,
  and one that compares with the old key must not go wrong by it.
* `Swings(G)`: a child pointer that has been replaced never comes back, since its node is in `G` or its null
  pointer carries the address of a node in `G`. This is what the address in `SET_NULL` is for (line 384): a helper that
  swings late fails.
* `RelocationsOK`: of each relocation where its `replace` is, and that its key is next after that of `dest`, as
  long as both have the `op` that it was published with.
* `ThreadInv`: what a thread has read, provided that the `op` of the node is still the one read before: the place
  where an insert will go, the replacement that a `remove()` has found, the child that `helpMarked()` will link.
  It rests on `OpsNeverRepeat`: an `op` that is the same has not changed in between.

TLC had checked `TreeInv` on the instance of `lf_tree`, with `A` and `G` as variables, before it was proved.
To get from `A` and `G` to a recursive walk, `WalkedFrom` takes the least depth at which
the recursive function in `Walk` would be wrong, and `WalkComplete` the least at which it would miss a node that is
not deeper (`Height`, the number of ancestors). All uses of `Walk` are proved from the same lemmas, for whatever relation
the nodes of a left subtree have to the node and the node to those of its right subtree: the order of keys for `SearchOrder`;
for `ReplaceIsNext`, which is about two neighbours in the walk, that one is left of the other by `A` (`LeftOf`), which
tells any two linked nodes apart and has none between `dest` and the leftmost below its right child (`NoneBetween`).

`AllServed` (`AlwaysServed`) is a second inductive invariant: every operation that is published in a node has a thread that
is still to clear it. A helper may leave only when it has cleared the operation, has seen another one in
its place, or knows that there is nothing to clear: `helpRelocate()` that has lost its CAS of `dest` because the operation
is over goes on to `replace`, where it may be the only one. `KeysInv` (`AlwaysKeysInv`) says
that keys come from the files. With these two the tree that the harness walks at the end is that of `TreeOK`, without what is
below a marked node, where it turns round; so it finds order, and `lf_walk` shows that it may miss nodes.

`~ReusesBlocks` is needed: `lf_reuse` violates `UnlinkedAreMarked` without it. `HistorySpec` is `Spec` with the history variable
`past`, which no action reads.

`LockFreeSet_proofs`, for any set of workers and any files, if no deleted block is used again:

* `AlwaysLinearizable == HistorySpec /\ SeenSpec => Linearizable`: the tree implements `ConcurrentSet`, step by step.
  `SeenSpec` is the specification that `lf_linear` checks; `HistorySpec` only adds `past`, which no action reads, so it
  excludes no behaviour of the tree.

The inductive invariant is `SetInv == TreeInv /\ OwnersOK /\ CallsOK /\ SeenOK`. The abstract set is that of the
current keys of the nodes that are not dead (`SetIsLive`), so a step is judged by what it does to nodes and not
by a walk. Every step of a call is one of three:

* it leaves the set and what every call has done as they were (`Passes`). Here is all helping with a `CHILDCAS`
  or a mark, and here is what `find()` answers: it says that a key is not there only if `curr` and
  `last_right` still have the `op` it read, and then `ThreadInv` says that the place where it stopped is the one
  where the key would be (`VacantAbsent`);
* it changes the set as its own call should, and its own call only has now done so (`TakesEffect`): the CAS of
  an insert and the mark;
* it makes a relocation `SUCCESSFUL` (`WonStep`): the effect of the delete that published it, which may be another
  thread's call. `OwnersOK` says which: an undecided relocation lies in a block of a thread that is still in the `remove()`
  that published it, and no other call has taken it for its own. So it has its effect once.

`CallsOK` says that calls come from the files and `SeenOK` that what is so now has been seen.

`FineGrainedBST_proofs`, for any set of workers and any files:

* `TypeCorrect`: types. `OnlyLocked == Spec => []LocksHeld`: every field is accessed, and
  every node freed, under the node's lock, and no lock is left behind.
* `NextStaysChild == Spec => []WaitsForChild`: a node that a thread waits for stays the child of a
  node that the thread holds. So it is not freed meanwhile, and waiting goes down the tree.
* `ParentsAgree == Spec => []ParentPointers`: parent and child pointers agree, also while
  `remove()` is at work elsewhere.

The inductive invariant is `Inv == TypeOK /\ Shape /\ ThreadOK` for every thread. `Shape` says of the heap
that the parent and the child pointers of linked nodes are inverse to each other and that the root has
no parent; it says nothing of order or reachability and so needs no recursion. `ThreadOK` says what a thread
at each label relies on: which nodes it has locked (`HeldAt`), that these are joined by child
pointers down to `next` (`OnPath`), and when it has `tree_lock`. It is needed because a thread
acts on what it has read before it waited: another thread changes a node only with its
lock, so what `OnPath` says of locked nodes stays true (`OtherThread`). The lemmas `Unlinked` and
`NewChild` do the two changes of the tree, and there is one lemma for each action.

`FineGrainedSet_proofs`, for any set of workers and any files:

* `AlwaysSearchOrder == Spec => []SearchOrder`: the values increase in order in every state.
* `AlwaysFreedWhenUnlinked == Spec => []FreedWhenUnlinked`: the nodes that a walk meets are those that
  have been allocated and not freed.
* `AlwaysOrdered == Spec => []Ordered`: the inductive invariant of both.
* `AlwaysLinearizable == HistorySpec => Linearizable`: the tree implements `ConcurrentSet`. Each step maps to a step of
  the atomic set or to a stutter: a call takes effect when it takes its last lock, where `Ordered` says that
  the search ends at the only place its value can be.

`SearchOrder` speaks of a recursive walk. `Ordered` does not: it says that there are *routes*, a set of keys
for each node, namely those that a search is led to the node with. All keys come to the root, of the keys that come
to a node those below its value go on to its left child and those above it to its right child, and a node's
own value is in its set, so that there are no cycles, no second parents and no duplicates. The value that a thread
is on its way with is in the set of the node that it waits for. `remove()` goes on to the node next in order; of
that it says that the values which come to it lie next to the value being removed (`Nearest`), and that
nobody else has locked a node on the way between the two (`Clear`), so that nobody is there for whom the change
of the value would matter. That `Ordered`
gives `SearchOrder` is proved by least counterexample: a child has a greater address than its parent
(`ChildrenYounger`), so were the recursive *function* in `InOrder` wrong somewhere, it would be so at
some node and not below it, and unfolding the function once refutes that.

`HazardPointers_proofs`, for any number of threads, any ring size and any threshold:

* `HazardTypeCorrect`: no thread writes outside its own ring of `hp`, and no scan runs past it.
* `AlwaysHonoursHazards == HazardSpec => []ScanHonoursHazards`: a node that a slot holds during the whole of its
  scan is not deleted. The inductive part is `KeptAhead`: the slots that have held the node all the time
  are those the scan has still to come to. `ReadsNodes` says that what is read in order to be published is
  a field of a node.
* `AlwaysDetachedRetired == HistorySpec /\ HazardSpec => []DetachedAreRetired`, if no deleted block is used again: the nodes
  that are marked and that no child pointer leads to are just those in the `rlist`s and those deleted. So no
  node is forgotten, whichever helper unlinks it, and none retired while a pointer of the tree leads to it. It does
  not say that a node is retired or deleted only once. (`past` is a history: every run of `HazardSpec` has one
  with it that `HistorySpec` allows.)

The last rests on `TreeInv`, and its inductive invariant is `RetireInv` (`AlwaysRetireInv`). `G` of `TreeInv` holds a
node from the *publication* of the CAS that unlinks it, while it is retired by the thread that makes the CAS, so
`RetireOK` has `Discarded = G \ Leaving`, where `Leaving` are the nodes whose parent has yet to let go of them. That
an insert's CAS retires nothing new needs `NullsDiscarded`: the address in a null child pointer is that of
a node retired before. That a node in `Leaving` has one parent only (`OneSwing`) makes the retiring exact. `CasMade` and
`Arriving` are about the other end: an insert's node is in the tree as published before any pointer leads to it,
and until then no thread has it (`HeldBy`) and nothing is done to it (`Untouched`). TLC had checked all
of it before it was proved. `RetireDetached` goes from there to the walk in `Reachable`: it stays among the linked nodes and
`Leaving` (`LinkedClosed`); its depth is enough, as at each level it meets one more node or has followed
every pointer (`ClosesNext`); and a node that it missed, with the least `Height`, would have a parent that it met
(`ClosedLinked`).

`WorkQueue_proofs`, for any number of threads and any work:

* `FrontCorrect`, `CounterCorrect`, `FreeCorrect`, `TypeCorrect`: the invariants of `wq`.
* `HandsOutCorrect == Spec => HandsOut`: the queue implements `WorkHandout`.

The inductive invariant counts threads: `Tickets` says that the workers between
`get_queue_size()` and `get_work()` and what the counter still shows together are
as many as the entries, and that the counter is below zero by at most the workers
that have left. `Phases` relates `main()` and the workers.

Only model-checked: the approval of the harness, the trace generator, and liveness. The approval compares the walk with what a recursive program over the
files expects, and `TraceGen` computes with recursive sizes; liveness under fairness is out of the reach of the
prover. `FreedOnce` and `HarnessFindsAll` are not theorems: `hp_twice` and `lf_walk` violate them.

## 5. Not modelled

* `Fine_Grained_BST.cpp`, an older tree that the Makefile does not build;
  `test_ptr_functions()` and `helpRelocateMarked()`, which are declared and not
  defined; `print_queue_size()`, which nothing calls.
* Option parsing, printing of trees, timing (`CycleTimer.h`, `cycle_timer.h`), shell scripts, trace files.
* Failing allocations and failing thread creation: the code ends or goes on without looking.
* Reuse of a deleted node or `Child_CAS_OP` by `malloc()`. A deleted node is already seen by `NoUseAfterFree`,
  and a `Child_CAS_OP` that was published is never deleted.

Four hazards are in the model without a property that covers them. The ring of ten hazard pointers
(`Lock_Free_BST.cpp:344`) does not keep what is in use on a longer path, and the code has nothing to
prevent it. A duplicate insert ends the program with `assert(0)` (`Fine_Grained_BST_Lock.cpp:92`), which
is an end of the model (`Aborted`). The harness walks `base_root` and its key -1 as a value
(`test_harness.cpp:489`), so it is for keys above -1, which `Checkable` says. A low contention trace of one insert never
ends (`tracegen.cpp:35`), which `Ends` exempts.

## 6. What could come next

Hazard pointers with reuse of nodes, once the two findings are settled in the code.
