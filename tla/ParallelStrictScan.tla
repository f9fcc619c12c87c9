-------------------------- MODULE ParallelStrictScan --------------------------
(* __parallel_strict_scan of the TBB and OpenMP backends: a tree of fork-join  *)
(* tasks sums tiles into the buffer r on the way up, one thread folds the      *)
(* total out of r for apex, and a second tree of tasks carries prefixes down.  *)
(* A task is the node <<i, m>>: the call of __upsweep or __downsweep for tiles *)
(* i..i+m-1. Its argument __r always points at r[i].                           *)
EXTENDS Integers, BagsExt, Bags

CONSTANTS MaxN,            \* bound on the length of the range
          MaxP,            \* bound on the number of workers
          DefaultChunk     \* __default_chunk_size of the OpenMP backend

ASSUME StrictAssumption == MaxN \in Nat /\ MaxP \in Nat \ {0} /\ DefaultChunk \in Nat \ {0}

VARIABLES n,               \* __n
          p,               \* __p, what the scheduler offers
          limit,           \* the longest range handled as a single block
          pc,              \* where the calling thread is
          tilesize, tiles, \* __tilesize and __m + 1
          r,               \* the buffer __r of partial sums
          up, down,        \* state of each node's __upsweep and __downsweep
          lastsize,        \* __lastsize, the size of a node's last tile
          initial,         \* __initial, as each __downsweep gets it
          k, t,            \* __k and __t of the loop that folds the total
          reduced, total, scanned  \* the calls of reduce, apex and scan so far

setup == <<n, p, limit>>
layout == <<tilesize, tiles>>
fold == <<k, t>>
calls == <<reduced, total, scanned>>
vars == <<setup, pc, layout, r, up, down, lastsize, initial, fold, calls>>

(* The sum of a range is the range: <<a, b>> stands for a, ..., b-1 combined in *)
(* order. Combining what is not adjacent gives a value no range has, and so    *)
(* does memory that has not been written.                                      *)
Bad == <<-2, -3>>
Combine(a, b) == IF a[2] = b[1] THEN <<a[1], b[2]>> ELSE Bad
InitialSum == <<-1, 0>>
Sums == ((-2)..MaxN) \X ((-3)..MaxN)

IsPow2(x) == \A d \in 2..x : (\E e \in 1..x : x = d * e) => d % 2 = 0

\* __split: 1, doubled while twice it is less than m.
Split(m) == CHOOSE s \in 1..(m - 1) : IsPow2(s) /\ m <= 2 * s

\* x & (x - 1): x without the lowest of the powers of two it is made of.
ClearLowest(x) ==
  x - CHOOSE d \in 1..x : IsPow2(d) /\ \E q \in 0..x : x = d * (2 * q + 1)

Root == <<0, tiles>>
Left(x) == <<x[1], Split(x[2])>>
Right(x) == <<x[1] + Split(x[2]), x[2] - Split(x[2])>>
LastSlot(x) == x[1] + x[2] - 1
NodesOf(count) == {x \in (0..(count - 1)) \X (1..count) : x[1] + x[2] <= count}
Nodes == NodesOf(tiles)

Init ==
  /\ n \in 0..MaxN
  /\ p \in 1..MaxP
  /\ limit \in {1, DefaultChunk}
  /\ pc = "begin"
  /\ tilesize = 0 /\ tiles = 0
  /\ r = <<>> /\ up = <<>> /\ down = <<>> /\ lastsize = <<>> /\ initial = <<>>
  /\ k = 0 /\ t = Bad
  /\ reduced = EmptyBag /\ total = Bad /\ scanned = EmptyBag

\* A short range is one block.
BeginBlock ==
  /\ pc = "begin"
  /\ n <= limit
  /\ pc' = IF n = 0 THEN "apex" ELSE "block"
  /\ t' = Bad
  /\ UNCHANGED <<setup, layout, r, up, down, lastsize, initial, k, calls>>

\* The buffer is allocated and __upsweep is called for all tiles.
BeginTree ==
  /\ pc = "begin"
  /\ n > limit
  /\ pc' = "up"
  /\ tilesize' = (n - 1) \div (4 * p) + 1
  /\ tiles' = (n - 1) \div tilesize' + 1
  /\ r' = [j \in 0..(tiles' - 1) |-> Bad]
  /\ up' = [x \in NodesOf(tiles') |-> IF x = <<0, tiles'>> THEN "run" ELSE "idle"]
  /\ down' = [x \in NodesOf(tiles') |-> "idle"]
  /\ lastsize' = [x \in NodesOf(tiles') |-> n - (tiles' - 1) * tilesize']
  /\ initial' = [x \in NodesOf(tiles') |-> InitialSum]
  /\ UNCHANGED <<setup, fold, calls>>

\* The allocator throws bad_alloc.
OutOfMemory ==
  /\ pc = "begin"
  /\ n > limit
  /\ pc' = "bad_alloc"
  /\ UNCHANGED <<setup, layout, r, up, down, lastsize, initial, fold, calls>>

\* __sum = __combine(__sum, __reduce(0, __n)), the initial value being left to Apex.
ReduceBlock ==
  /\ pc = "block"
  /\ pc' = "apex"
  /\ t' = <<0, n>>
  /\ reduced' = BagAdd(reduced, <<0, n>>)
  /\ UNCHANGED <<setup, layout, r, up, down, lastsize, initial, k, total, scanned>>

-------------------------------------------------------------------------------
(* __upsweep.                                                                  *)

\* __m == 1: the tile is summed into r[0].
UpLeaf(x) ==
  /\ up[x] = "run"
  /\ x[2] = 1
  /\ LET lo == x[1] * tilesize
     IN  /\ r' = [r EXCEPT ![x[1]] = <<lo, lo + lastsize[x]>>]
         /\ reduced' = BagAdd(reduced, <<lo, lastsize[x]>>)
  /\ up' = [up EXCEPT ![x] = "done"]
  /\ UNCHANGED <<setup, pc, layout, down, lastsize, initial, fold, total, scanned>>

\* Both halves are called in parallel.
UpFork(x) ==
  /\ up[x] = "run"
  /\ x[2] > 1
  /\ up' = [up EXCEPT ![x] = "join", ![Left(x)] = "run", ![Right(x)] = "run"]
  /\ lastsize' = [lastsize EXCEPT ![Left(x)] = tilesize, ![Right(x)] = lastsize[x]]
  /\ UNCHANGED <<setup, pc, layout, r, down, initial, fold, calls>>

\* [mutant] Only the first half is waited for.
UpJoined_FirstOnly(x) == up[x] = "join" /\ up[Left(x)] = "done"

\* The state in which both halves have returned.
UpJoined(x) == up[x] = "join" /\ up[Left(x)] = "done" /\ up[Right(x)] = "done"

\* [mutant] The halves are not waited for.
UpJoin_NoWait(x) ==
  /\ up[x] = "join"
  /\ up' = [up EXCEPT ![x] = "done"]
  /\ r' = IF x[2] = 2 * Split(x[2])
            THEN [r EXCEPT ![LastSlot(x)] = Combine(r[LastSlot(Left(x))], r[LastSlot(x)])]
            ELSE r
  /\ UNCHANGED <<setup, pc, layout, down, lastsize, initial, fold, calls>>

\* [mutant] The sums are combined in the node of a half that is not full, too.
UpJoin_Always(x) ==
  /\ UpJoined(x)
  /\ up' = [up EXCEPT ![x] = "done"]
  /\ r' = [r EXCEPT ![LastSlot(x)] = Combine(r[LastSlot(Left(x))], r[LastSlot(x)])]
  /\ UNCHANGED <<setup, pc, layout, down, lastsize, initial, fold, calls>>

\* Both halves have returned: if (__m == 2 * __k) their sums are combined.
UpJoin(x) ==
  /\ UpJoined(x)
  /\ up' = [up EXCEPT ![x] = "done"]
  /\ r' = IF x[2] = 2 * Split(x[2])
            THEN [r EXCEPT ![LastSlot(x)] = Combine(r[LastSlot(Left(x))], r[LastSlot(x)])]
            ELSE r
  /\ UNCHANGED <<setup, pc, layout, down, lastsize, initial, fold, calls>>

-------------------------------------------------------------------------------
(* Between the sweeps.                                                         *)

\* __upsweep has returned; __k = __m + 1, __t = __r[__k - 1].
FoldBegin ==
  /\ pc = "up"
  /\ up[Root] = "done"
  /\ pc' = "fold"
  /\ k' = tiles
  /\ t' = r[tiles - 1]
  /\ UNCHANGED <<setup, layout, r, up, down, lastsize, initial, calls>>

\* One test of while ((__k &= __k - 1)), and the loop's body.
FoldStep ==
  /\ pc = "fold"
  /\ k' = ClearLowest(k)
  /\ IF k' # 0
       THEN t' = Combine(r[k' - 1], t) /\ pc' = pc
       ELSE t' = t /\ pc' = "apex"
  /\ UNCHANGED <<setup, layout, r, up, down, lastsize, initial, calls>>

\* __apex(__combine(__initial, __t)), then what scans: __downsweep for all tiles,
\* the single block, or nothing.
Apex ==
  /\ pc = "apex"
  /\ total' = IF n = 0 THEN InitialSum ELSE Combine(InitialSum, t)
  /\ pc' = IF tiles > 0 THEN "down" ELSE IF n > 0 THEN "scan" ELSE "return"
  /\ down' = [x \in Nodes |-> IF x = Root THEN "run" ELSE "idle"]
  /\ lastsize' = [x \in Nodes |-> n - (tiles - 1) * tilesize]
  /\ UNCHANGED <<setup, layout, r, up, initial, fold, reduced, scanned>>

\* __scan(0, __n, __initial).
ScanBlock ==
  /\ pc = "scan"
  /\ pc' = "return"
  /\ scanned' = BagAdd(scanned, <<0, n, InitialSum>>)
  /\ UNCHANGED <<setup, layout, r, up, down, lastsize, initial, fold, reduced, total>>

-------------------------------------------------------------------------------
(* __downsweep.                                                                *)

\* [mutant] The second half starts from the sum its own last slot holds.
DownArgument_OwnSlot(x) ==
  /\ down[x] = "argument"
  /\ down' = [down EXCEPT ![x] = "run"]
  /\ initial' = [initial EXCEPT ![x] = Combine(initial[x], r[x[1]])]
  /\ UNCHANGED <<setup, pc, layout, r, up, lastsize, fold, calls>>

\* The task of a second half combines the prefix with the sum of the first half,
\* __r[__k - 1] of the caller, before it calls __downsweep.
DownArgument(x) ==
  /\ down[x] = "argument"
  /\ down' = [down EXCEPT ![x] = "run"]
  /\ initial' = [initial EXCEPT ![x] = Combine(initial[x], r[x[1] - 1])]
  /\ UNCHANGED <<setup, pc, layout, r, up, lastsize, fold, calls>>

\* __m == 1: the tile is scanned from the prefix.
DownLeaf(x) ==
  /\ down[x] = "run"
  /\ x[2] = 1
  /\ down' = [down EXCEPT ![x] = "done"]
  /\ scanned' = BagAdd(scanned, <<x[1] * tilesize, lastsize[x], initial[x]>>)
  /\ UNCHANGED <<setup, pc, layout, r, up, lastsize, initial, fold, reduced, total>>

\* Both halves are called in parallel.
DownFork(x) ==
  /\ down[x] = "run"
  /\ x[2] > 1
  /\ down' = [down EXCEPT ![x] = "join", ![Left(x)] = "run", ![Right(x)] = "argument"]
  /\ lastsize' = [lastsize EXCEPT ![Left(x)] = tilesize, ![Right(x)] = lastsize[x]]
  /\ initial' = [initial EXCEPT ![Left(x)] = initial[x], ![Right(x)] = initial[x]]
  /\ UNCHANGED <<setup, pc, layout, r, up, fold, calls>>

\* Both halves have returned.
DownJoin(x) ==
  /\ down[x] = "join"
  /\ down[Left(x)] = "done" /\ down[Right(x)] = "done"
  /\ down' = [down EXCEPT ![x] = "done"]
  /\ UNCHANGED <<setup, pc, layout, r, up, lastsize, initial, fold, calls>>

\* The block has been scanned, or __downsweep of all tiles has returned, and the
\* call returns.
Return ==
  /\ pc = "return" \/ (pc = "down" /\ down[Root] = "done")
  /\ pc' = "done"
  /\ UNCHANGED <<setup, layout, r, up, down, lastsize, initial, fold, calls>>

Up(x) == UpLeaf(x) \/ UpFork(x) \/ UpJoin(x)
Down(x) == DownArgument(x) \/ DownLeaf(x) \/ DownFork(x) \/ DownJoin(x)

Next ==
  \/ BeginBlock \/ BeginTree \/ OutOfMemory
  \/ ReduceBlock \/ FoldBegin \/ FoldStep \/ Apex \/ ScanBlock \/ Return
  \/ \E x \in Nodes : Up(x) \/ Down(x)

Spec == Init /\ [][Next]_vars
-------------------------------------------------------------------------------
\* Each scan starts from the sum of exactly what precedes its block, although the
\* tree of sums has holes when the number of tiles is no power of two
\* (parallel_backend_tbb.h:356, __r[__k - 1] as line 336 left it).
ExactPrefix == \A s \in DOMAIN scanned : s[3] = <<-1, s[1]>>

(* The slots of r that the next step of a node's task writes, and reads.       *)
Combines(x) == UpJoined(x) /\ x[2] = 2 * Split(x[2])
Writes(x) == IF (up[x] = "run" /\ x[2] = 1) \/ Combines(x) THEN {LastSlot(x)} ELSE {}
Reads(x) ==
  CASE Combines(x) -> {LastSlot(Left(x)), LastSlot(x)}
    [] down[x] = "argument" -> {x[1] - 1}
    [] OTHER -> {}

\* No two tasks that may run at the same time use the same slot of r, one of them
\* to write it: r is a plain array (parallel_backend_tbb.h:326 and 336).
ScanTasksShareNothing ==
  \A x \in Nodes, y \in Nodes : x # y => Writes(x) \cap (Writes(y) \cup Reads(y)) = {}

\* Every slot that a task or the folding loop is about to read has been written
\* (the buffer is raw memory, parallel_backend_tbb.h:387).
ReadsAreWritten ==
  /\ \A x \in Nodes : \A s \in Reads(x) : r[s] # Bad
  /\ pc = "fold" /\ ClearLowest(k) # 0 => r[ClearLowest(k) - 1] # Bad

\* The comments "Raw memory buffer with automatic freeing and no exceptions" and
\* "Fewer than 2 elements in sequence, or out of memory. Handle has single block"
\* (parallel_backend_tbb.h:51 and 405): no call ends with bad_alloc.
OutOfMemoryIsHandled == pc # "bad_alloc"

\* The calls of reduce, apex and scan are those of the contract stated before
\* __parallel_strict_scan (parallel_backend_tbb.h:361-374).
Contract == INSTANCE ScanContract WITH NoSum <- Bad, returned <- (pc = "done")
ContractIsKept == Contract!Spec
===============================================================================
