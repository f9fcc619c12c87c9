# Specifications of oneDPL

TLA+ modules that model the algorithms of oneDPL, on the host and on a device,
TLC runs that check them on small instances, and TLAPS proofs of the properties
that matter most for every size. Paths are relative to the repository; `pstl/`
stands for `src/include/oneapi/dpl/pstl/` and `internal/` for
`src/include/oneapi/dpl/internal/`.

Contents: [1 inventory](#1-inventory), [2 the modules](#2-the-modules),
[3 the runs](#3-the-runs), [4 the proofs](#4-the-proofs),
[5 disagreements](#5-where-code-and-documents-disagree),
[6 what is not modelled](#6-what-is-not-modelled), [7 the plan](#7-the-plan).

## 1 Inventory

oneDPL implements the parallel algorithms of the C++ standard library, some of
its own, and random number generators that work inside kernels. A call passes
these layers:

| layer | files | state | what is hard |
|---|---|---|---|
| API and dispatch | `pstl/glue_*`, `execution_*` | none at run time | which pattern, workers and vectors a policy gets; predicates negated and arguments exchanged on the way |
| host patterns | `pstl/algorithm_impl.h`, `numeric_impl.h`, `memory_impl.h`, `parallel_impl.h` | masks, buffers, shared atomics of one call | protocols with the backend: what a body may assume about the chunk it is given |
| host backends | `pstl/parallel_backend_tbb.h`, `pstl/omp/*`, `pstl/parallel_backend_serial.h` | task trees, reference counts, buffers of raw memory, per-thread accumulators | interleavings, splits at arbitrary places, order of joins, lifetimes of raw slots |
| bricks | `pstl/unseq_backend_simd.h`, `utils.h` | locals of a loop | borders of blocks, lanes that get nothing |
| device patterns | `pstl/hetero/*` | the kernels one call submits | which kernel is ordered after which, what the host waits for |
| device backend | `pstl/hetero/dpcpp/*` | device buffers, events, local and global atomics | work-groups, barriers, chains of submissions |

The components, with their operations and what makes them correct:

* **Parallel search** (`pstl/parallel_impl.h`; on a device `__parallel_find_or`). The
  bodies of a parallel loop share an atomic: check, search, retry a weak compare-and-swap. The device has
  one atomic per work-group and a global one. Correct when the result is the sequential one, whatever
  was skipped, overtaken or spuriously failed. `__parallel_or` shares a relaxed
  flag and cancels the group.
* **Strict scan** (`__parallel_strict_scan`, both host backends). Two sweeps of
  fork-join tasks over a tree of tiles with one plain array between them. Correct
  when every tile is reduced and scanned once, from exactly the sum before it, and
  the array is used without a race. Callers rely on a documented order of `reduce`, `apex`
  and `scan`.
* **Transform scan** (TBB). Bodies sum pieces before they know what lies in front of
  them and learn it later. Correct when every result has each term once and in order.
* **Task tree and stable sort** (TBB). Reference counted tasks that recycle
  themselves and replace themselves by continuations; merges that move elements
  between the range and a raw buffer and tell their parent where the result is.
  Correct when sorted stably, when every slot of the buffer is constructed and
  destroyed once, and when no task starts before its input is complete.
* **Static merge** (both host backends). A merge cut in two at places found by binary
  search, both sides at once. Correct when stable and when the pieces share nothing.
* **Range decomposition** (OpenMP, `omp/util.h`): arithmetic that cuts a range
  into chunks. Correct when the chunks tile the range.
* **Transform reduce** (OpenMP): an accumulator per thread, indexed by the number of
  the thread that runs the task. Correct when every element counts once.
* **Reductions** (TBB `parallel_reduce` and its body classes, the OpenMP recursion).
  Bodies take pieces of a range, a stolen half gets a body of its own, neighbours are
  joined. Correct when a value always stands for the part done so far: the
  caller's functors may be asked to join any two neighbouring parts.
* **Host patterns**: some sixty algorithms, each a search, a reduction, a strict scan, a merge, a sort,
  one or several parallel loops, or repeated partitions, with functors of its own. Correct when each call
  returns and leaves what `std`'s does, however the backend cuts and joins.
* **Bricks**: the loops written for vectors. Correct when each does what the serial loop does.
* **Set operations**: sequences cut at equal elements, chunks constructed into a raw buffer, found
  again by position. Correct when each element is kept as often as the standard says, and once.
* **Device backend**: scan, reduction, merge, merge sort, partial sort and radix sort as kernels of
  work-groups. Correct when no two work-items meet in a cell unordered and the result is the sequential one.
* **Device patterns**: the same algorithms over iterators and over ranges, as kernels. Correct when the
  caller finds the result when the call returns.
* **Segmented algorithms and many-valued searches** (`internal/*_by_segment_impl.h`,
  `binary_search_impl.h`): reductions and scans of runs of equal keys, as sequences of library calls.
* **Random engines and distributions** (`internal/random_impl/*`): scalars, vectors and portions of
  vectors of numbers. Correct when the numbers are those of one sequence, none lost or used twice.
* **`for_loop`** (`pstl/experimental/internal/*`): a loop with reductions and inductions.
* **Iterators** (`pstl/iterator_impl.h`): counting, zip, transform, permutation, discard. Correct when
  they behave like pointers, composed in any way.
* **Policies and dispatch**: a call gets workers and vectors only where its policy allows them.

Not modelled or modelled in part: see [6](#6-what-is-not-modelled). PROJECT.json lists every
component with its status, and every hazard with its line.

How they interact: a public function makes one call of a pattern; the pattern calls one backend function, or several
one after the other, with a body; the backend calls the body on subranges, from tasks that run in any order and at once, and
returns when all have returned. Shared state is either an atomic (search), memory
whose slots the tasks divide among themselves (scan, sort, merge, loops) or a value
the backend combines (reductions). On a device the pattern submits kernels; events, accessors and waits order them.
There are no messages, no crashes to recover from, and no
timeouts: an exception terminates the program, except `bad_alloc`.

## 2 The modules

### Searches (run `find`)

| module | models | state and actions |
|---|---|---|
| `PriorityUpdate` | what a parallel search promises (the comment at `parallel_impl.h:49`) | a cell that only improves, an answer |
| `ParallelFind` | `__parallel_find` | one task per chunk; `Check`, `Brick`, `Load`, `CasStore`, `CasFail` are its accesses to `__extremum`, `Return` the caller |
| `SyclFindOr` | `__parallel_find_or` of the device | per group a stage, per item the matches it has still to offer and the value it read; the compare-and-swaps on the local and the global atomic are actions |
| `ParallelSearch` | either, as one call | composes the two |
| `ParallelSearchProofs` | theorems about `ParallelFind` and `SyclFindOr` | |

### Loops of the backends (run `loops`)

| module | models | state and actions |
|---|---|---|
| `ScanContract` | the contract of `__parallel_strict_scan` stated in its comment (`parallel_backend_tbb.h:361`) | the calls of `reduce`, `apex`, `scan` made so far |
| `ParallelStrictScan` | `__parallel_strict_scan`, `__upsweep`, `__downsweep` of both backends | a node `<<i, m>>` is a call for tiles `i..i+m-1`; `UpLeaf`/`UpFork`/`UpJoin`, the fold of the right spine, `Apex`, `DownArgument`/`DownLeaf`/`DownFork`/`DownJoin` |
| `OmpLoops` | `__chunk_partitioner`, `__process_chunk`; `__parallel_for` (OpenMP) and the parallel move of its sort; `__parallel_transform_reduce` (OpenMP) | a task per chunk and the body's calls per element; an accumulator per thread: `Start` ties a chunk to a thread and reads its accumulator, `Finish` stores it |
| `ParallelReduce` | `__parallel_reduce` of both backends, and the schedule of the TBB transform reduce | pieces not yet taken and bodies with the part they have done; `Halve`, `NewBody` (a steal), `Process` (the functor), `Join`, `Return`. The functors are constant operators |
| `TransformBodies` | `__par_trans_red_body`, `__parallel_transform_reduce` (TBB); `__trans_scan_body` under the protocol of `tbb::parallel_scan` | the reduce is an instance of `ParallelReduce`; of the scan, bodies with the part they stand for: `SplitBody`, `PreScan`, `ReverseJoin`, `FinalScan` |
| `ParallelLoops` | one call of any of these | composes them |
| `ChunkLoopsProofs`, `StrictScanProofs` | theorems about `OmpLoops` and `TransformBodies`, about `ParallelStrictScan` | |
| `NaturalLemmas` | induction and division, for the proofs | |

`ParallelReduce` allows more than either backend does: any two neighbouring parts may be joined
once the right one has begun, where TBB joins the two ends of one split and OpenMP joins
the two calls of one recursion. A property of it holds for both trees.

### Ordering (run `sorting`)

| module | models | state and actions |
|---|---|---|
| `ParallelMerge` | `__parallel_merge` of both backends, `merge`, `inplace_merge` | tasks are the ranges they still have to merge; `Split` cuts one, `Leaf` merges one, `MoveBack` is the loop after it |
| `ParallelStableSort` | `__parallel_stable_sort` of the TBB backend with its task classes | tasks are records of type, ranges, parent and count; `SortLeaf`, `SortSplit`, `MergeRanges`, `MergeInOrder`, `MergeSplit`, `FinishMerge`, ... are the bodies and `__func_task::finalize` |
| `BufferedElements` | elements, raw and moved-from slots | operators only |
| `ParallelSorting` | one call of either | composes them |
| `ParallelMergeProofs` | theorems about `ParallelMerge` | |
| `StableSortProofs` | theorems about `ParallelStableSort`: its tasks and lifetimes, then the order it leaves | |

### Patterns and public calls (run `patterns`)

| module | models | state and actions |
|---|---|---|
| `ParallelOr` | `__parallel_or` and the cancellation of its group | `Check`, `Brick`, `Store`, `Cancel` per chunk; `Drop` is the scheduler discarding a chunk of a cancelled group |
| `SearchPatterns` | the twelve algorithms that are one search | operators: what the brick returns on a chunk, what the pattern makes of it |
| `LoopPatterns` | reverse, rotate, shift, the walks over all elements, `nth_element` | operators: the parallel loops of each, as slots read and written; `nth_element`'s next partition |
| `HostPatterns` | a call of one of these | `__parallel_or` step by step as in `ParallelOr`, `__parallel_find` by its contract `PriorityUpdate`, loops chunk by chunk |
| `HostPatternsProofs` | theorems about `HostPatterns` and `ReducePatterns` | |
| `NearestPlace` | `adjacent_find`, the search for the first element to remove, `min_element`, `minmax_element` | the functors of each, the inputs, what the call must return (`Correct`) and what a value says of a part (`Describes`) |
| `Partition` | `partition`, `stable_partition`, `is_partitioned` | the same; the first two move elements while other bodies run |
| `ForLoop` | `for_loop` with a reduction and an induction | the same |
| `ReducePatterns` | a call of an algorithm of the last three | the steps of `ParallelReduce`, as the instance `Reduce`; the algorithm and its data are the contents of the range, and select the functors |
| `MaskedCopies`, `SetOperations` | `copy_if`, `partition_copy`, `unique_copy`, `remove_if`, `unique`; the four set operations | the functors given to the strict scan and the memory they use |
| `ScanPatterns` | a call of one of these | the strict scan by its contract `ScanContract`: `ReduceBlock`, `Combine`, `ApexCall`, `ScanBlock`, `CopyRange`, `Finish` |
| `ScanPatternsProofs` | theorems about `ScanPatterns` | |
| `SegmentedAlgorithms` | reduction and scans by segment, searches for many values | the stages of the library calls each is made of, the elements a loop has left |
| `UnseqBricks` | seventeen vector bricks | one call of a brick in a single step; blocks and lanes are operators |
| `Iterators` | the iterators, alone and composed | an iterator and the place it should stand at; a step applies one of its operators |
| `PublicCalls` | what a public function makes of its arguments and of the answer; the overloads without workers; which overload a policy chooses | operators from a call to the memory it may leave and what it may return |
| `DeviceCalls` | the same calls on a device, and over ranges | `HostCall`, `DeviceCall`, `RangeCall` |
| `ParallelPatterns` | one call, or one walk, of any of these | composes them |

### Device (run `device`)

| module | models | state and actions |
|---|---|---|
| `DeviceMemory` | cells, assignments; the algorithms that only move elements | operators: what a work-item does in a phase |
| `DeviceScan` | the three-kernel and the one-group scan, what their callers make of them, the reduction | the same |
| `DeviceSort` | merge, merge sort, partial sort; radix sort, by one group and by three kernels a digit | the same |
| `DevicePatterns` | how kernels run; twenty-six algorithms as the kernels they submit and what the host waits for | `at`: the next phase of each group; a step is a phase of a group of a kernel whose predecessors have ended; `accesses` records who touched what; the calls, and the host's return |

### Random numbers (run `random`)

| module | models | state and actions |
|---|---|---|
| `RandomEngines` | the three engines | `engine`, `used`: the code's members; `Generate`, `Discard`, `Seed` |
| `RandomStream` | what a distribution promises about the numbers it takes | numbers taken, the pair of which one is owed |
| `RandomNumbers` | the ten distributions | calls, portions and resets; a behaviour is one engine or one distribution |

### How data and steps are abstracted

* A *sum* is what it is made of: an interval of elements in the strict scan, a sequence of terms elsewhere, so
  commuted or repeated operands show and every associative operation is covered. The transform reduce of `OmpLoops` counts how often each element went
  into a value: its operation is commutative by contract.
* An *element* of a sort or merge is `<<key, original place>>`, which tells equal keys
  apart; `Raw` and `MovedFrom` are the other things a slot can hold.
* A *brick* is its contract in the modules that call it, and `BricksKeepTheirContract` checks the vector ones against it.
* A *split* by the scheduler is any split: a search starts from every tiling of
  the range, so TBB's `auto_partitioner` and the OpenMP chunks are both cases of it.
* A *kernel* in `DeviceCalls` is what the device modules show of its work-items; a scan in `SegmentedAlgorithms` may put
  its brackets anywhere.
* A *random number* is its place in the engine's sequence; the formula applied to it is left out.

Atomicity. Every access to an atomic is one action. A body that touches only slots
no other task may touch is one action, and that it touches no others is an
invariant (`ScanTasksShareNothing`, `NoSharedSlot`, `NoSharedElement`, `MovesAreIndependent`, `OwnSlotsOnly`), so that the
interleavings left out make no difference. The items of a work-group take a phase between two barriers in one
step, which `NoRace` justifies in the same way. Reference counts change in one action, as they are atomic.

## 3 The runs

Every run explores all interleavings of its instance.

| run | question | bounds and why they are enough |
|---|---|---|
| `find` | sequential result, nothing forgotten, refinement of `PriorityUpdate` by the host's and the device's search, termination | host: ranges to 4, all match sets, all tilings, both directions: up to four tasks, so a task can be overtaken twice between its read and its write. Device: ranges to 8 with at most 3 matches, one or two groups of 3 items, lines of 2: several rounds per item, groups that find nothing |
| `loops` | every element once, in order where order matters, no two tasks in one slot, no raw slot read, the scan's contract, termination | transform reduce to 16 with the code's grain of 3: three levels of uneven halves. OpenMP loops of 0 to 12 in chunks of 2, 3, 5: shorter than a chunk, exact multiples, leftovers; 3 threads. Transform scan to 4: every cut, with and without pre-scan. Strict scan to 9 elements, 1 or 2 workers: trees of 2 to 8 tiles, full, not full, with a shorter last tile |
| `sorting` | stable, complete, cuts final, lifetimes, no sharing, counts, termination | merges of 6 elements in both sequences, keys 1..3, cut-off 2. Sorts to 5 elements, keys 1..2, leaves of at most 1 and of at most 2, merges over 2 split: sort trees of depth 3 with merges that split below merges |
| `patterns` | results of all host patterns, independence of moves, values of parts, lifetimes, one bracketing, bricks, iterators, segments, public calls, termination | searches to 4 and loops to 5 elements, keys 1..3, every tiling; reductions to 4 in pieces of any length; set operations of two sequences with 6 elements together, cut-off 2: runs of equal elements over three chunks; bricks with blocks and lanes of 2 to 6 elements: two full blocks and a remainder; walks over 3 places with 3-bit counters: every wrap-around whose distances fit the signed type; 5 keys in segments, a group of 2; public calls on ranges to 3 under every policy |
| `device` | no race, and the caller finds the sequential result | groups of 2 and 4 items with 1 or 2 elements each; up to 9 elements where keys do not matter: three groups and a short one; up to 6 with keys, 4 in a second range; leaves of 1 and 2; 2-bit keys in 1-bit digits: two rounds of the radix sort |
| `random` | numbers follow the sequence of the seed; distributions take numbers as `RandomStream` says | engines and distributions of scalars and of vectors to 16, up to 12 numbers drawn and every call after them, so every place in a vector, a block and a pair is met; words of 16 values, so a `discard` wraps, detected and not; a bound of 8 for the 32-bit modulus, so both ways to skip are met |
| `scan_no_memory` | the promised fallback without memory (violated) | to 4 elements |
| `find_first_of_unseq` | the vector brick returns the first place (violated) | to 6 elements |
| `set_intersection_source` | elements come from the first sequence (violated) | 4 elements in both |
| `search_empty` | the end of the results is returned (violated) | to 4 keys |
| `device_copy_sort` | `partial_sort_copy` has sorted when it returns (violated) | to 3 elements |
| `random_portion` | a portion takes as many numbers as it returns (violated) | as `random` |

Constants of the code that are too large to explore are constants of the modules:
`_ONEDPL_STABLE_SORT_CUT_OFF`, `_ONEDPL_MERGE_CUT_OFF`, `__default_chunk_size`, `__set_algo_cut_off`, block
sizes, group sizes. The modules assume of them only what the code needs. `ParallelMerge`
needs a cut-off of at least 2, as with 1 a piece of two elements could be cut into none and
both; the code's is 2000, and 2048 with OpenMP.

What the code leaves to its environment the models leave open: whether the items of a group run in lockstep and whether the
destructor of a temporary buffer waits is part of a call of `DevicePatterns` (`lockstep`, `waits`). A property that fails
for some calls names them as exceptions: `DriftingPlaces` and `CopyIsNotAwaited` in `DevicePatterns`,
`TailDrawnTwice` and `exact` for the random numbers, `NotSearched` in `SegmentedAlgorithms`.

Deadlock is checked in `device` only, where every call is followed to its return by a step that stays there. The other runs
model one call, which stops when it has returned; that it does return is `EverySearchEnds`, `EveryLoopEnds`, `EveryCallEnds`.

**Fairness.** The models assume weak fairness of the whole next-state relation of a call: as long as some task can
run, some worker of the pool runs one. TBB and OpenMP guarantee that much and no more; nothing is
assumed about a particular task. `ParallelSearch` adds `SF` for a successful
compare-and-swap by *some* task: a weak compare-and-swap may fail spuriously,
but not always for ever. `DevicePatterns` states no fairness, and no liveness. In `patterns` the fairness condition and the termination property
are about the calls that run their own steps to an end (`CallNext`): public calls and bricks are one step here, a walk has no end,
and ENABLED is too costly for `ScanPatterns`; that a strict scan ends is checked in `loops`.

**Mutants.** Every property of a passing run has a mutated definition beside the one it replaces
(marked `[mutant]`), a bug somebody could write there, under which the property fails.

## 4 The proofs

All from the assumptions on the constants only; `tlapm` checks every leaf.

* `ParallelSearchProofs`: `TypeCorrect`, `ReturnsExtremum`, `EarlyExitIsSafe`,
  `CellNeverWorse`, `ImplementsPriorityUpdate`, for every length, match set and
  tiling. The answer alone is not inductive. `IInv` adds that chunks do not overlap, that a task
  past its brick holds the best match of its own chunk, that between test and
  compare-and-swap it holds something better than what it read, and that the cell
  comes from a chunk that has been searched: a backward search compares the
  *beginning* of a chunk with the cell, which is sound only because the cell cannot
  lie inside a chunk that has not been searched. `AnswerAfterAll` closes the last step.
* `ParallelMergeProofs`: `TypeCorrect`, `ReturnsStableMerge`, `SlotsAreUsedOnce`,
  `TasksAreDisjoint`, `CutsStayFinal`, for sequences of every length, keys and cut-off
  of at least 2. The invariant relates what is written to what is left: tasks are ordered (one
  lies before the other in both sequences), what they read has not been
  touched and what they write is raw, every slot of the output is written or belongs to
  a task, what is written is in its final order, and `CutsAreFinal` puts what a task
  will write between its neighbours. `CutIsFinal` is the lemma about
  `upper_bound` on one side and `lower_bound` on the other.
* `StableSortProofs`: `TasksFormATree`, `TasksShareNoSlot`, `CountsMatchTheTree`, `SortTasksKeepLifetimes`, for every length, cut-off and order of the
  tasks, and for a merge cut-off of at least 2. A task's *home* is the half of its parent that it sorts or merges; the pieces of a
  merge that was split share one. `TreeInv` says that two tasks lie apart, or one lies within a half of a merge, or they are
  pieces of one merge with different inputs and outputs (`Nested`); that what lies in a half of a merge lies in, or is, a child of it
  (`Connected`); that a parent is a merge that was not split and has not run (`ParentsWait`); and that counts are exact. A merge whose count is
  zero therefore has nothing left in its halves, which no statement about counts or about ranges alone gives. Each step replaces one task
  without children by others; `TreeStep` proves once that the tree survives that, and the lemma of each action shows what the new tasks are like.
  What is in memory plays no part: a merge may be cut wherever a search can end.
  The lifetimes need a second invariant over that one. `MemInv` says what each task relies on: a sort task finds objects
  in its range of `x` and raw slots in `z`; a piece finds objects where its flag says, and its outputs raw if they are in `z`;
  and a half of a merge that waits is `Delivered`: every slot of it holds an object where the merge's flag says, unless a child that has not run will
  still write that slot, and nothing is left in `z` if the flag says `x`, unless a child will still read it there. A long merge
  sets its parent's flag before its pieces have run, so that the flag alone says nothing. `MemStep` proves once that a step that
  only uses its task's slots and only tells its parent of its own half keeps what every other task relies on: what lies above it is covered
  by a child between them (`Connected`). `MergedElements` shows that `__serial_move_merge` hands out objects only, by induction over what is left of both sequences.
* `StableSortProofs`, second half: `SortsTheRange`, the property `Sorted`, for sequences of every length, keys and `nsort`, every cut-off and
  order of the tasks. Order is not a statement about memory alone: while pieces of a merge are outstanding, its half is neither sorted nor the input it was. `OrdInv`
  describes such a half by its *units* (`Units`): the two inputs of a piece still to run are one unit, a slot no piece will write is
  a unit of its own. The units are `InLine` if, whichever way each is merged, what stands before the limit of the sort goes before what follows; a half that a
  waiting merge relies on is in line up to that limit (`HalfInOrder`). Around it: `Distinct`, no element is in two slots; `Homed`, the elements of a
  half are those that the range had there at the start; `Untouched`, what has not been sorted is still the
  sequence given; `MergesEnough`, a piece merges as many elements as the limit asks for. The merge loop is described by what it does at each place
  (`Traced`, `TakenAt`): its output takes the smaller head of what is left, or either head once `nmerge` elements are out. `OrdStep` proves
  once that a step that only replaces the units of its own task keeps all others in line. When the last task is done, the range is one line of single slots;
  that it has every element is the pigeonhole principle (`OntoItself`), since all are distinct and none came from elsewhere.
* `ChunkLoopsProofs`, of the TBB loops: `TypeCorrect`, `ReducesTheRange`, `NewBodiesFindTwoElements`, for
  ranges of every length and every grain of at least 3. The invariant says that the value of a
  body is a function of the part it has done (`Part`), that no two bodies begin at one place, that
  pieces and parts cover the range, and that a piece behind the first has two elements. That they
  do not overlap need not be said: a body only takes what follows its part. `TermsJoin` is the one
  fact about sequences it needs.
  `ScansTheRange` is the same for the transform scan, for every way to cut the range and every order of scans
  and joins. There a body may have no sum, and joining one to its right neighbour would lose the neighbour's
  operands: `ScanIInv` therefore says that a body without a sum is the only one that begins where it does, and, so that
  this stays true when a body is split off, that where a body begins some body was split off. `TilingsCover`
  shows that pieces cut at any set of places leave no element out.
* `ChunkLoopsProofs`, of the OpenMP loops: `ChunksTileTheRange` for every length and chunk size
  (arithmetic with quotients; the lemma `Division` is all it uses of them), then `AppliesOnce` and
  `TasksShareNothing` for the loop, and `TeamReducesEachOnce` for the transform reduce with any number of threads. `TeamIInv` says
  that an accumulator holds its thread's first element and the chunks that thread has finished, and that
  a thread has one chunk under way, which is why the accumulator a chunk has read is still the one
  it replaces. `AccumsAddUp` computes the recursive function of the last loop by induction over the threads.
* `StrictScanProofs`: `ScansStartFromExactPrefixes`, `NoTwoTasksShareASlot`, `SlotsAreWrittenBeforeTheyAreRead`, and
  `StrictScanKeepsItsContract`, the refinement of `ScanContract`, for ranges of every length and any number of workers and tiles. The
  invariant `IInv` has seven parts: the thread's place and the layout of tiles (`Phase`); the shape of the two trees
  of tasks, in which the nodes called are nested or apart, nothing is called below a node that has not forked, and a node returns after all below it (`Trees`); the size of the last tile as each task gets it
  (`Sizes`); the slots of `r` (`SlotsHoldSums`): the last slot of a finished node whose number of tiles is a power
  of two holds that node's sum, or a larger such node's that ends in the same slot; the fold (`FoldedSum`); what each task of the
  down-sweep starts from (`Prefixes`); and the calls made so far (`Calls`). What makes it work is arithmetic on the two splits:
  `Split` cuts off a power of two that is a multiple of every smaller one, so that `x[1]` of a node is a multiple of its
  size rounded up, and `ClearLowest` leads from one full node to the one before it. The lemmas at the beginning prove
  that powers of two (numbers without an odd divisor) divide one another.
* `ParallelSearchProofs` also has `DeviceImplementsPriorityUpdate`, for every range, set of matches, number and size of
  work-groups: `DeviceIInv` says what each stage of a group leaves behind, and `ItemsCoverTheRange` that the strided
  loops of the items reach every index.
* `HostPatternsProofs`: `ChunksAreSkippedSafely` and `OrAnswersTheCall`, for ranges of every length, any set of chunks and
  every algorithm that runs a `__parallel_or`. `OrInv` says that a task that is about to set the flag has a chunk the brick is true on,
  and that a cancelled group has its flag set.
  `LoopsAreIndependent` and `MovesDoTheCall` are about the calls made of parallel loops (reverse, rotate, the shifts, the walks,
  `adjacent_difference`): whatever the length, `__middle` or distance and the cuts, the chunks may run in any order, and what they leave is what
  `std`'s algorithm does. `Before(d, q)` says in closed form what each slot of the range, the buffer and the output
  holds when the q-th loop of call d begins; the invariant `MovesInv` says that memory is that, changed by the iterations that
  have run (`Ran`), and that the chunks left lie apart (`ChunksTile` for every way to cut a loop). `LoopOK` is what has to be
  shown of one loop of one algorithm: no iteration changes a slot that another uses, each finds in `Before(d, q)` what it may use, and all of them turn it into
  `Before(d, q + 1)`. `BodyPuts` and `BodyLeavesOthers` say what one chunk changes. The
  shifts have the arithmetic: a loop moves one block by its own length, so that the slots it fills are those the loop before has left.
  How an earlier loop left memory cannot be said of a chunk on its own: without the closed form `MovesAreIndependent` is not inductive.
  `SearchesAnswerTheCall` is about the algorithms that are one `__parallel_or` or one `__parallel_find`: for every pair of sequences
  and every way to cut the range, what the call returns is `std`'s answer. `SearchInv` keeps what a search under way knows: the cut, the hits of the brick on it,
  and what `PriorityUpdate` has answered. The work is in four steps. The chunks of a tiling cover the range, so that
  the first (last) hit over the chunks is the first (last) place sought (`FirstOfChunks`, `LastOfChunks`); each brick returns the first
  (last) such place of its chunk (`BricksFind`); `FromFind` and `FromOr` turn that place or flag into `std`'s answer (`FindCorrect`,
  `OrCorrect`); and the calls answered before they search are answered rightly (`ShortcutsAnswer`). `includes` is counted: a chunk of
  the second sequence starts at the first of a run of equal elements (`RunsOfChunk`), and a run lacks elements in the first sequence
  exactly when it has more there (`Outnumbered`).
  `nth_element` is in `NthInv`: the range holds the elements it was given (`SameElements`, counted value by value), and the n-th lies in a window whose elements are
  no less than those before and no greater than those after it (`Narrowed`); `IterationKeeps` shows that a partition and the skip over equal elements
  keep both, and that at the last one the n-th element is where sorting would put it. `CallsAreCorrect` puts the three together.
* `HostPatternsProofs` also holds, of the calls of `ReducePatterns`, `PartsAreDescribed`, `ReductionsAreCorrect`, `FunctorsKeepToTheirPart`, for ranges of every length and keys, every
  grain of at least 1, and every order in which pieces are cut, taken and joined. `ReduceInv` says that the call is still one of its algorithm, with data of the right form (`HeldInv`), that pieces and bodies lie in the range, the
  former as they were given (`PiecesInv`, `BodiesInv`), that they lie apart (`ApartInv`), and that they cover the range until the call has its answer
  (`PhaseInv`). What a value says of its part (`ValuesDescribeParts`) is not enough for the answer: of a pair it says that it lies in the part, not
  that it is the first one there. `Told` is the stronger statement that is inductive. One group of lemmas per algorithm shows
  that its functors keep `Told` and that a value told of the whole range is the answer: the table of states of `is_partitioned` (`TestMerges`), the
  first pair across a boundary (`Pairs...`), the first minimum and last maximum as the best places of two strict orders (`Extremes...`), `TermsJoin` for the loop,
  and for the partition `Exchanged`, what the swaps and the rotation that join two parts leave of their elements.
  `Works` is what a functor may do to the range, whatever the algorithm; each action of the schedule needs only that
  (`ProcessWorks`, `JoinWorks`), and `OthersKept` carries the other bodies over a step since their parts lie apart.
  `FunctorsKeepToTheirPart` is the action property `OwnSlotsOnly` from the same invariant. `ReductionsAreCorrect` holds of every call: of a
  `for_loop` over an iterator on one thread, which passes over the elements between two positions, `IteratedIsComputed` shows that it meets the positions a loop over numbers computes.
* `ScanPatternsProofs`: `AnyBracketsWillDo` and `LifetimesAreKept` are about the calls made of one strict scan, for sequences of every length and all keys, every
  `__set_algo_cut_off`, and every way to cut the range into blocks. `Scheduled` is what they share: the blocks reduced lie apart, each value is
  a function of the call and of its block (`ValueOf`), and `apex` and the scans come after every block is reduced. For a masked copy that
  value counts the elements of each kind in the block. For a set operation it is a range of the buffer, and three things have to be known of it: how
  long it is (`Constructed`: what the recursion of `__set_union_construct` and its relatives builds from two parts is never longer than `__size_func`
  allows), where it begins (`Starts`), and that these
  places rise with the blocks although a block is shifted past equal elements (`CutsRise`, `LowsRise`), so that the ranges of two blocks share no
  slot (`BlocksFit`, `BlocksApart`).
  Then combining neighbours either adds counts, or keeps the later range and adds up what precedes it (`CombineAssociates`), so that a span of
  blocks has one value whichever way the brackets are put (`OneBracket`). `LifetimesKept` is not inductive: that it is right to write a slot follows from what all the slots hold. `MaskMemory` says of a masked
  copy which slots of the buffer, of the outputs and of the source have been written and moved from (`Taken`: those of the blocks scanned, by rank);
  `SetMemory` says that a slot of the buffer holds an element just if a block that has not `Moved` has its range there, and
  that what is written of the output belongs to a block that has moved or to a copy that is done (`CopiesApart`). A block's range is moved by the scan of the
  *next* block, and the last one by `apex`.
  `MaskedCopiesAreCorrect` is `ScanIsCorrect` of the masked copies. `MaskRight` says where every element copied so far is: at its rank among those of its
  kind (`InPlace`), beside `MaskMemory`, which says that nothing else is written; for `__remove_elements` that is the buffer and then the range again,
  element by element (`RemovesInPlace`). Ranks in order are what `std`'s result is (`ResultGives`).
  `ScansAreCorrect` adds the set operations, and so is `ScanIsCorrect` of every call. `std`'s result is the list, in order, of the elements
  chosen by rank (`ListResults`); the recursion that constructs a block lists those of its two parts (`ConstructLists`), and the lists of parts that meet
  at a cut, where all elements before are smaller than all after, join to the list of the whole (`BuiltJoins`). Every block ends at such a cut
  (`BlocksAtCuts`), so block after block holds the result from the place where the one before ends (`BlockHolds`); an
  intersection that swaps the sequences builds the same keys (`SwappedConstruct`). The parallel copies of a plan are the beginning of
  the result, or all of it (`PlansAreRight`). `SetRight` carries this over the steps: what waits in the buffer is a part of the result
  (`SetHeld`), what is written is in its place (`SetOutput`), and what has been moved or copied is written (`SetFilled`), so that when all has moved the
  output is the result (`AllIsPlaced`).

Induction. The prover cannot instantiate theorems that take an operator, so `NaturalLemmas!Induction` is about a
*set* that holds 0 and every successor, and `LeastNumber` about a non-empty set; both are proved from the library's theorem on
finite subsets. What the proofs call induction is that.

The theorems are about the specifications of the components (`Spec`, `ForSpec`, `TeamSpec`, `ScanSpec`, `SearchSpec`, `SortSpec`). The runs check the same properties, by
the same names, in the compositions, where one component's steps are those of its own specification and the
others stand still; type correctness, `CellNeverWorse` and `OrAnswersTheCall` are proved and not run. `EveryCallIsCorrect` is a conjunction: `CallsAreCorrect` proves the first part of it,
`HostPatterns!CallIsCorrect` (`MovesDoTheCall` and `SearchesAnswerTheCall` are its cases), and `ReductionsAreCorrect` the second, `ReductionIsCorrect`.
The third, that a scan leaves the elements `std`'s algorithm keeps (`ScanIsCorrect`), is `ScansAreCorrect`, with `MaskedCopiesAreCorrect` a case of it.
The last, that a public algorithm which changes what it hands to a pattern still answers as `std`'s does, is `SearchesAreAdapted` (all_of, none_of, find, find_if_not,
equal and mismatch without a second end) and `ReductionsAreAdapted` (is_sorted, is_sorted_until, min_element, max_element: `SortedIsNoDescent`, `Unchanged`).
So of the patterns' calls only `PublicCalls!CallsAreCorrect`, the algorithms that are one call on a whole range, is left to TLC.

Only model-checked: termination (liveness under fairness and ENABLED are outside the prover's
reach), and the rest of `patterns`, `device` and `random`. `ParallelPatterns` reaches RECURSIVE operators
(`Iterators`), and several of its modules define values by induction over data, about which the prover shows nothing.

## 5 Where code and documents disagree

Each of these is a run that TLC finds violated:

* `scan_no_memory`: comments in `parallel_backend_tbb.h` (51, 69, 405) promise a single block when
  the buffer cannot be obtained; `allocate` throws and nothing catches it before the caller.
* `find_first_of_unseq`: when the range is at least as long as the set, the vector brick returns the first place of the first *value*
  of the set that occurs (`unseq_backend_simd.h:848`), not the first place of any.
* `set_intersection_source`: one branch exchanges the two sequences, so that the elements of the second are copied
  (`algorithm_impl.h:3398`).
* `search_empty`: on a device, searching an empty range writes no result and returns the beginning of the output
  (`binary_search_impl.h:118`).
* `device_copy_sort`: `partial_sort_copy` over USM sorts an output that nothing has waited for
  (`hetero/algorithm_impl_hetero.h:1419`).
* `random_portion`: a portion that ends inside a vector of the engine is drawn twice
  (`uniform_real_distribution.h:308`).

Noticed while modelling, without a run of their own; where a model leaves such a case out, it says so here:

* Comments: `omp/util.h:119` says leftovers go to early chunks, the first gets all of them; `omp/parallel_merge.h:83`
  says the smaller range
  is iterated and the larger searched, and it is the other way round.
* Device calls: `equal` returns false for two empty ranges (`algorithm_impl_hetero.h:580`; `DeviceCalls!Compared` leaves the
  case out). `swap_ranges` over ranges returns whether anything was swapped, not how much; `move` over ranges copies;
  `unique` over ranges copies the uninitialised tail of its buffer back; `exclusive_scan` over ranges lacks the workaround for
  working in place that the one over iterators has.
* `binary_search` on a device compares with `==` where the host uses the comparator (`binary_search_impl.h:65`; the keys of the model are
  compared by less). `reduce_by_segment` keeps the last key of a segment on a device and the first on the host, and
  gives the predicate its arguments in another order.
* The scan in local memory (`unseq_backend_sycl.h:698`, `744`) has a race unless the items of a group run in lockstep: an item
  may take the sum of an iteration after the last item has stored its element for the next one (`LateAdder`).
  A call over USM returns early when the destructor of its temporary buffer does not wait (`Pending`).
  The merge kernel reads one place past the end of an empty second sequence (the cell `beyond`), and a second branch in it is
  never taken.
* Radix sort: the one-group version pads with `max()` and `lowest()`, which infinities sort behind; -0.0 is put before +0.0; the
  many-group version assumes a work-group size that is a multiple of the block size. The model has integral keys.
* Random engines: `seed` of `subtract_with_carry_engine` does not reset `i_`; `discard` of
  `discard_block_engine` looks for overflow in one summand only, and its fallback discards vectors where it should discard numbers
  (`SkipFits` says which; what follows is not the seed's sequence); a modulus of 0 divides by zero, and products need a modulus below 2^32.
* `for_loop`: an induction's final value ignores its initial one (`induction_impl.h:77`); a reduction object's assignment
  has several threads assign the user's variable to itself; the vector version accumulates in a loop with no reduction clause.
* Others: `_Combiner`'s copy and the transform scan of floating-point numbers take `_Tp{}` for an identity; parallel `generate`
  copies the generator for each chunk; `fill` and `replace` take the value by reference, which may be in the range;
  `partial_sort_copy` constructs objects of the output's type in a buffer of the input's; `equal`
  considers the category of its first iterator only; `counting_iterator` over an unsigned type subtracts wrongly once
  a distance exceeds half of the type (`IteratorAssumption` excludes it); a `transform_iterator` keeps its function when assigned; the
  partial branch of the OpenMP sort is never reached.

## 6 What is not modelled

* The OpenMP stable sort's recursion and its `for_each`: the parallel move of the sort is the parallel for of `OmpLoops`.
* The serial backend: one call of the brick on the whole range, the one-chunk case of every module.
* The FPGA backend forwards to the device backend. The asynchronous API returns futures over the kernels of `DevicePatterns`; its chains of events are
  in the plan.
* `gcd` and `lcm`: `std`'s on the host, a loop of remainders over two numbers on a device.
* The formulae of the distributions and floating-point arithmetic: nothing to enumerate. Rounding is left out of every sum.
* Tuples, view templates and policy classes hold values and are layout only; traits are computed at compile time. The ranges library (`ranges/nanorange.hpp`) is third-party.
* The TBB scheduler, the OpenMP runtime and the SYCL runtime are external: which task runs next is
  a free choice, a taskwait is a guard, an event or accessor orders kernels. `__task` as used with old TBB interfaces is left out.
* Exceptions other than `bad_alloc` terminate, so no state is left to state a property of.
* Build files, tests, examples and documents are read as statements about the program.

## 7 The plan

1. The asynchronous API: calls that depend on the events of others, over `DevicePatterns`.
2. The OpenMP stable sort's recursion, beside `ParallelStableSort`.
3. Proofs: `CallIsCorrect` and `NoRace` of the device's kernels; `PublicCalls!CallsAreCorrect`.
