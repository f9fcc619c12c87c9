---------------------------- MODULE ParallelPatterns ----------------------------
(* The parallel patterns: those of HostPatterns, of ReducePatterns and of            *)
(* ScanPatterns, the public algorithms that adapt a call to one of them, the vector  *)
(* bricks they run on a chunk, the algorithms made of several, and the iterators      *)
(* they are given. A behaviour is one call of one of them, or one walk of an iterator;*)
(* the other groups stand where a call that had nothing to do has left them.          *)
EXTENDS HostPatterns, ReducePatterns, ScanPatterns, Bags

CONSTANTS Bricks, BlockSize, FirstBlock, Lanes, MaxBrick, \* of UnseqBricks
          WalkLength, Bits, \* of Iterators
          MaxKeys, MaxSought, GroupSize,                     \* of SegmentedAlgorithms
          MaxPublic        \* of PublicCalls

ASSUME SegmentsAssumption == {MaxKeys, MaxSought} \subseteq Nat /\ GroupSize \in Nat \ {0}

\* The distances between the places fit the signed type of a counting_iterator.
ASSUME IteratorAssumption == WalkLength \in Nat \ {0} /\ Bits \in Nat \ {0} /\ WalkLength < 2^(Bits - 1)

VARIABLES brick, outcome,    \* a call of a vector brick
          shape, walker, at, \* an iterator
          request, stages, buffers, left, returned, \* of SegmentedAlgorithms
          call,              \* the public algorithm that made the call of the pattern
          asked, done        \* of PublicCalls and DeviceCalls

reduceVars == <<reduceN, given, reduced, pieces, bodies, reducePc, reduceAnswer>>

Unseq == INSTANCE UnseqBricks WITH given <- brick
Iter == INSTANCE Iterators WITH place <- at

Segments == INSTANCE SegmentedAlgorithms

brickVars == <<brick, outcome>>
segVars == <<request, stages, buffers, left, returned>>
walkVars == <<shape, walker, at>>
publicVars == <<call, asked, done>>

HostEnded ==
  /\ c = SearchCall("any_of", None, None, 0) /\ x = None
  /\ pc = "done" /\ stage = 0 /\ chunks = {} /\ hits = {}
  /\ cancels = FALSE /\ found = FALSE /\ cancelled = FALSE /\ task = None /\ verdict = "false"
  /\ best = Find!Running /\ place = Find!Running
  /\ span = None /\ answer = {Search!FromOr(c, FALSE)}

ReduceEnded ==
  /\ reduceN = 0 /\ given = Call("adjacent_find", [pairs |-> {}, orSemantic |-> FALSE, last |-> 0])
  /\ reduced = given /\ pieces = {} /\ bodies = {}
  /\ reducePc = "done" /\ reduceAnswer = {0}

BrickEnded == brick = Unseq!Brick("any_of", << >>, << >>, 0, 0, 0) /\ outcome = {FALSE}

NotWalked == shape = Iter!Unwalked /\ walker = shape[1] /\ at = 0

ScanEnded ==
  /\ scanCall = [alg |-> "copy_if", keys |-> << >>]
  /\ memory = [mask |-> << >>, src |-> << >>, buf |-> << >>, out |-> << >>, out2 |-> << >>, ok |-> TRUE]
  /\ scanN = 0 /\ sums = {} /\ scanReduced = EmptyBag /\ total = NoSum /\ scanned = EmptyBag
  /\ scanReturned = FALSE /\ copies = {} /\ scanPc = "done" /\ scanAnswer = {0}

SegmentsEnded ==
  /\ request = Segments!Request("lower_bound", FALSE, << >>, << >>)
  /\ stages = << >> /\ left = {} /\ returned = {0}
  /\ buffers = [out |-> << >>]

Public == INSTANCE DeviceCalls
top == Max(ReduceKeys) + Min(ReduceKeys)

\* The public algorithm passes its arguments on.
Direct == Public!Call("pattern", None, None, 0)

PublicSearches ==
  {Public!Call(api, a, None, 0) : api \in {"all_of", "none_of", "find_if_not"}, a \in Ranges(MaxPublic, Marks)} \cup
  {Public!Call("find", a, None, k) : a \in Ranges(MaxPublic, Marks), k \in Marks} \cup
  {Public!Call(api, a, b, 0) : api \in {"mismatch_3", "equal_3"}, a \in Ranges(3, Marks), b \in [0..2 -> Marks]}

PublicReductions ==
  {Public!Call(api, a, None, 0) : api \in Public!Reductions, a \in Ranges(MaxPublic, ReduceKeys)}

PatternsInit ==
  \E kind \in {"host", "reduce", "scan", "brick", "segments", "walk", "public"} :
    /\ IF kind = "host" THEN Init ELSE HostEnded
    /\ IF kind = "reduce" THEN Reduce!Init ELSE ReduceEnded
    /\ IF kind = "scan" THEN ScanInit ELSE ScanEnded
    /\ IF kind = "brick" THEN Unseq!Init ELSE BrickEnded
    /\ IF kind = "segments" THEN Segments!Init ELSE SegmentsEnded
    /\ IF kind = "walk" THEN Iter!Init ELSE NotWalked
    /\ IF kind = "public" THEN Public!CallsInit ELSE Public!CallsEnded
    /\ \/ call = Direct
       \/ kind = "host" /\ call \in {p \in PublicSearches : Public!SearchPattern(p) = c}
       \/ kind = "reduce" /\ call \in {p \in PublicReductions : Public!ReducePattern(p, top) = given}

\* The calls that run their own steps to an end; the others take one step, or end when
\* the strict scan does.
CallNext ==
  \/ Next /\ UNCHANGED <<reduceVars, scanVars, brickVars, segVars, walkVars, publicVars>>
  \/ Reduce!Next /\ UNCHANGED <<vars, scanVars, brickVars, segVars, walkVars, publicVars>>
  \/ Segments!Next /\ UNCHANGED <<vars, reduceVars, scanVars, brickVars, walkVars, publicVars>>

PatternsNext ==
  \/ CallNext
  \/ Public!CallsNext /\ UNCHANGED <<vars, reduceVars, scanVars, brickVars, segVars, walkVars, call>>
  \/ Unseq!Next /\ UNCHANGED <<vars, reduceVars, scanVars, segVars, walkVars, publicVars>>
  \/ ScanNext /\ UNCHANGED <<vars, reduceVars, brickVars, segVars, walkVars, publicVars>>
  \/ Iter!Next /\ UNCHANGED <<vars, reduceVars, scanVars, brickVars, segVars, publicVars>>

allVars == <<vars, reduceVars, scanVars, brickVars, segVars, walkVars, publicVars>>

\* A worker of the pool always goes on with some task that can.
PatternsSpec ==
  PatternsInit /\ [][PatternsNext]_allVars /\ WF_allVars(CallNext)
-------------------------------------------------------------------------------
\* Every algorithm returns, and leaves in the range, what std's does, however the
\* backend cuts the range, whichever chunks run first and whatever parts of a
\* reduction or a scan are joined first (algorithm_impl.h, the patterns named in
\* SearchPatterns, LoopPatterns, ScanPatterns and the modules of ReducePatterns), and a
\* public algorithm that negates or reorders for a pattern answers as std's does
\* (glue_algorithm_impl.h).
EveryCallIsCorrect ==
  /\ CallIsCorrect /\ ReductionIsCorrect /\ ScanIsCorrect /\ Public!CallsAreCorrect
  /\ (pc = "done" /\ reducePc = "done" /\ call # Direct) =>
       \E it \in (IF call.api \in Public!Searches THEN answer ELSE reduceAnswer) :
         Public!Correct(call, Public!Returned(call, it))

\* Segments are reduced, or scanned, in order and never across their ends, and every
\* value is sought for, however the parts of a scan are joined (additional_algorithms.rst,
\* reduce_by_segment_impl.h:50-138, algorithm_ranges_impl_hetero.h:639-774,
\* binary_search_impl.h:39-196).
SegmentsAreKept == Segments!SegmentsAreKept

\* Every vector brick returns, and leaves in the range, what the serial one does, which
\* the patterns take for granted, wherever its blocks and lanes fall
\* (unseq_backend_simd.h:79-520, 647-791, 867-898; algorithm_impl.h:706-790, 1748-1784).
BricksKeepTheirContract == Unseq!BricksKeepTheirContract

\* However an iterator has been walked, it shows, compares and subtracts as a pointer
\* to the same place (iterator_impl.h:32-880).
IteratorsWalkLikePointers == Iter!IteratorsWalkLikePointers

\* Every call ends: nth_element's range shrinks, or its pivot changes, in every
\* iteration, with equal elements too, and a reduction runs out of pieces
\* (algorithm_impl.h:2606-2640, parallel_backend_tbb.h:127-138).
EveryCallEnds == <>(pc = "done" /\ reducePc = "done" /\ returned # {})
===============================================================================
