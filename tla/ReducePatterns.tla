---------------------------- MODULE ReducePatterns ----------------------------
(* The algorithms whose parallel pattern is one reduction: a call is one of them *)
(* on some data, and its functors are the ones of that algorithm's module.       *)
EXTENDS Integers, FiniteSets

CONSTANTS MaxReduce,       \* bound on the length of the range
          Grain,           \* a piece of at most this length is not halved
          ReduceKeys       \* the values of the elements minmax_element compares

ASSUME ReduceAssumption == MaxReduce \in Nat /\ Grain \in Nat \ {0} /\ ReduceKeys \subseteq Int

VARIABLES reduceN, given, reduced, pieces, bodies, reducePc, reduceAnswer \* ParallelReduce's

Near == INSTANCE NearestPlace
Part == INSTANCE Partition
For == INSTANCE ForLoop

Call(alg, data) == [alg |-> alg, data |-> data]

Calls(m) ==
  {Call("is_partitioned", d) : d \in Part!Holds(m)} \cup
  {Call("adjacent_find", d) : d \in Near!PairCalls(m)} \cup
  {Call("minmax_element", d) : d \in Near!KeyRanges(m, ReduceKeys)} \cup
  {Call("partition", d) : d \in Part!Calls(m)} \cup
  {Call("remove", d) : d \in Near!RemoveCalls(m)} \cup
  {Call("for_loop", d) : d \in For!Loops(m)}

IsShort(m, c) ==
  CASE c.alg = "is_partitioned" -> Part!IsShort(m, c.data)
    [] c.alg = "adjacent_find"  -> Near!IsShort(m, c.data)
    [] c.alg = "minmax_element" -> Near!IsShort(m, c.data)
    [] c.alg = "partition"      -> Part!NeverShort(m, c.data)
    [] c.alg = "remove"         -> Near!NeverShort(m, c.data)
    [] c.alg = "for_loop"       -> For!InOneGo(m, c.data)

TrivialAnswer(m, c) ==
  CASE c.alg = "is_partitioned" -> Part!TrivialAnswer(m, c.data)
    [] c.alg = "adjacent_find"  -> Near!Last(m, c.data)
    [] c.alg = "minmax_element" -> Near!FirstTwice(m, c.data)
    [] c.alg = "partition"      -> Part!NoTrivialAnswer(m, c.data)
    [] c.alg = "remove"         -> Near!Last(m, c.data)
    [] c.alg = "for_loop"       -> For!AnswerInOneGo(m, c.data)

Start(m, c) ==
  CASE c.alg = "is_partitioned" -> Part!Start(m, c.data)
    [] c.alg = "adjacent_find"  -> Near!Last(m, c.data)
    [] c.alg = "minmax_element" -> Near!LastTwice(m, c.data)
    [] c.alg = "partition"      -> Part!AtEnd(m, c.data)
    [] c.alg = "remove"         -> Near!Last(m, c.data)
    [] c.alg = "for_loop"       -> For!IdentityPack(m, c.data)

OnData(c, outcomes) == {<<[c EXCEPT !.data = o[1]], o[2]>> : o \in outcomes}

Brick(c, i, j, value) == OnData(c,
  CASE c.alg = "is_partitioned" -> Part!Brick(c.data, i, j, value)
    [] c.alg = "adjacent_find"  -> Near!Find(c.data, i, j, value)
    [] c.alg = "minmax_element" -> Near!Extremes(c.data, i, j, value)
    [] c.alg = "partition"      -> Part!Done(c.data, i, j, value)
    [] c.alg = "remove"         -> Near!FindRemoved(c.data, i, j, value)
    [] c.alg = "for_loop"       -> For!Walk(c.data, i, j, value))

Merge(c, a, b) == OnData(c,
  CASE c.alg = "is_partitioned" -> Part!Merge(c.data, a, b)
    [] c.alg = "adjacent_find"  -> Near!Nearer(c.data, a, b)
    [] c.alg = "minmax_element" -> Near!Further(c.data, a, b)
    [] c.alg = "partition"      -> Part!Merged(c.data, a, b)
    [] c.alg = "remove"         -> Near!Nearer(c.data, a, b)
    [] c.alg = "for_loop"       -> For!Combined(c.data, a, b))

Returned(c, v) ==
  CASE c.alg = "is_partitioned" -> Part!Returned(c.data, v)
    [] c.alg = "adjacent_find"  -> Near!Returned(c.data, v)
    [] c.alg = "minmax_element" -> Near!Returned(c.data, v)
    [] c.alg = "partition"      -> Part!Pivot(c.data, v)
    [] c.alg = "remove"         -> Near!Returned(c.data, v)
    [] c.alg = "for_loop"       -> For!Returned(c.data, v)

Reduce == INSTANCE ParallelReduce WITH
  MaxN <- MaxReduce, n <- reduceN, x <- reduced, pc <- reducePc, answer <- reduceAnswer,
  Contents <- Calls, Short <- IsShort, Trivial <- TrivialAnswer, First <- Start,
  Identity <- Start, RealBody <- Brick, Reduction <- Merge, Answer <- Returned
-------------------------------------------------------------------------------
\* Each call returns, and leaves in the range, what its algorithm promises, however
\* the range was cut and whatever parts were joined first
\* (__pattern_is_partitioned, __pattern_adjacent_find, __pattern_min_element,
\* __pattern_minmax_element, __pattern_partition, __pattern_stable_partition,
\* the first phase of __remove_elements, __pattern_for_loop_n).
ReductionIsCorrect ==
       reducePc = "done" => \E it \in reduceAnswer :
               CASE reduced.alg = "is_partitioned" -> it = Part!CorrectTest(reduced.data, reduceN)
                 [] reduced.alg = "adjacent_find"  -> Near!CorrectPair(reduced.data, it)
                 [] reduced.alg = "minmax_element" -> Near!CorrectExtremes(reduced.data, reduceN, it)
                 [] reduced.alg = "partition"      -> Part!Correct(given.data, reduced.data, reduceN, it)
                 [] reduced.alg = "remove"         -> Near!CorrectMask(reduced.data, it)
                 [] reduced.alg = "for_loop"       -> For!Correct(reduced.data, it)

\* The value of a body describes exactly the part it has done, which the functors
\* rely on when any two neighbours are joined; what no body has done is untouched
\* (algorithm_impl.h:1421-1436, 1976-2030, 2112-2160, 2452-2480, 2546-2570).
ValuesDescribeParts ==
  /\ \A b \in bodies : b.lo < b.hi =>
       CASE reduced.alg = "is_partitioned" -> Part!DescribesTest(reduced.data, b.lo, b.hi, b.val)
         [] reduced.alg = "adjacent_find"  -> Near!DescribesPairs(reduced.data, b.lo, b.hi, b.val)
         [] reduced.alg = "minmax_element" -> Near!DescribesExtremes(reduced.data, b.lo, b.hi, b.val)
         [] reduced.alg = "partition"      -> Part!Describes(given.data, reduced.data, b.lo, b.hi, b.val)
         [] reduced.alg = "remove"         -> Near!DescribesMask(reduced.data, b.lo, b.hi, b.val)
         [] reduced.alg = "for_loop"       -> For!Describes(reduced.data, b.lo, b.hi, b.val)
  /\ reduced.alg = "partition" =>
             \A p \in pieces : \A k \in p[1]..(p[2] - 1) : reduced.data.mem[k] = given.data.mem[k]

\* A call of a functor changes elements of the part it makes and of no other, so
\* that calls under way at the same time cannot meet (algorithm_impl.h:2129, 2221).
OwnSlotsOnly ==
  [][reduced.alg = "partition" => \A k \in 0..(reduceN - 1) : reduced'.data.mem[k] # reduced.data.mem[k] =>
       \E b \in bodies' \ bodies : b.lo <= k /\ k < b.hi]_Reduce!vars
===============================================================================
