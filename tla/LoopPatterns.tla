------------------------------ MODULE LoopPatterns ------------------------------
(* The algorithms made of parallel loops, one after the other, that move elements   *)
(* between the range, a buffer of raw memory and an output, and nth_element, which   *)
(* repeats partitions. A loop is a function from the places it runs over to the      *)
(* slots read and written there.                                                     *)
EXTENDS Integers, Sequences, FiniteSets, FiniteSetsExt

Rotations == {"rotate", "rotate_copy", "shift_left", "shift_right"}
Walks == {"for_each", "fill", "destroy", "copy", "move", "transform", "transform_pairs",
          "swap_ranges", "adjacent_difference"}
LoopAlgs == {"reverse", "reverse_copy"} \cup Rotations \cup Walks

Raw == -1
MovedFrom == -2
NotWritten == -3

Filled == 99

\* What the given function makes of an element, or of two.
Applied(e) == e + 10
Both(d, e) == 10 * (d + 1) + e

\* Each iteration l of a loop does something with slot at[l][1] of one memory and slot
\* at[l][2] of another.
Loop(does, lo, hi, from, to, at) == [does |-> does, lo |-> lo, hi |-> hi, from |-> from, to |-> to, at |-> at]

Shift(does, lo, hi, from, to, by) == Loop(does, lo, hi, from, to, [l \in lo..(hi - 1) |-> <<l, l + by>>])

Mirror(does, lo, hi, from, to, n) == Loop(does, lo, hi, from, to, [l \in lo..(hi - 1) |-> <<l, n - 1 - l>>])

\* The elements of the first half are swapped with their mirror images.
ReverseLoops(n) == << Mirror("swap", 0, n \div 2, "range", "range", n) >>
ReverseCopyLoops(n) == << Mirror("copy", 0, n, "range", "output", n) >>

\* __pattern_rotate: the longer part goes through the buffer.
RotateLoops(n, m) ==
  IF m <= n \div 2
    THEN << Shift("move", m, n, "range", "buffer", -m),
            Shift("move", 0, m, "range", "range", n - m),
            Shift("move", 0, n - m, "buffer", "range", 0) >>
    ELSE << Shift("move", 0, m, "range", "buffer", 0),
            Shift("move", m, n, "range", "range", -m),
            Shift("move", 0, m, "buffer", "range", n - m) >>

\* __pattern_rotate_copy: a chunk that crosses __middle is copied in two parts.
RotateCopyLoops(n, m) ==
  << Loop("copy", 0, n, "range", "output",
          [l \in 0..(n - 1) |-> <<l, IF l < m THEN n - m + l ELSE l - m>>]) >>

\* [mutant] The blocks are moved by one loop even if they overlap.
ShiftLoops_AtOnce(n, k, mirrored) ==
  LET Source(l) == IF mirrored THEN n - 1 - l ELSE l
      by == IF mirrored THEN k ELSE -k
  IN  << Loop("move", k, n, "range", "range", [l \in k..(n - 1) |-> <<Source(l), Source(l) + by>>]) >>

\* __pattern_shift_left by k of n elements; on reversed iterators it shifts right.
ShiftLoops(n, k, mirrored) ==
  LET Source(l) == IF mirrored THEN n - 1 - l ELSE l
      by == IF mirrored THEN k ELSE -k
      Block(lo, hi) == Loop("move", lo, hi, "range", "range", [l \in lo..(hi - 1) |-> <<Source(l), Source(l) + by>>])
      mid == (n \div 2) + (n % 2)
  IN  IF k <= 0 \/ k >= n THEN <<>>
      ELSE IF k >= mid THEN << Block(k, n) >>
      ELSE [q \in 1..((n - 1) \div k) |-> Block(q * k, Min({q * k + k, n}))]

\* __pattern_walk1 and what is made of it: the range is visited in place.
ForEachLoops(n) == << Shift("apply", 0, n, "range", "range", 0) >>
FillLoops(n) == << Shift("fill", 0, n, "range", "range", 0) >>
DestroyLoops(n) == << Shift("destroy", 0, n, "range", "range", 0) >>

\* __pattern_walk2_brick and __pattern_walk2: the second sequence is entered where the
\* chunk begins.
CopyLoops(n, does) == << Shift(does, 0, n, "range", "output", 0) >>
TransformLoops(n) == << Shift("apply", 0, n, "range", "output", 0) >>
SwapRangesLoops(n) == << Shift("swap", 0, n, "range", "output", 0) >>

\* __pattern_walk3 over the range, the range from place k on, and an output.
TransformPairsLoops(n, k) ==
  << Loop("pair", 0, n - k, "range", "output", [l \in 0..(n - k - 1) |-> <<l, l, l + k>>]) >>

\* The first element is copied before the loop over the pairs of neighbours.
AdjacentDifferenceLoops(n) ==
  IF n = 0 THEN <<>>
  ELSE << Shift("copy", 0, 1, "range", "output", 0),
          Loop("pair", 0, n - 1, "range", "output", [l \in 0..(n - 2) |-> <<l + 1, l + 1, l>>]) >>

\* The call's loops; k is __middle, the distance to shift by, or the place the second
\* sequence begins at.
Loops(c) ==
  CASE c.alg = "reverse"      -> ReverseLoops(c.n)
    [] c.alg = "reverse_copy" -> ReverseCopyLoops(c.n)
    [] c.alg = "rotate"       -> RotateLoops(c.n, c.k)
    [] c.alg = "rotate_copy"  -> RotateCopyLoops(c.n, c.k)
    [] c.alg = "for_each"     -> ForEachLoops(c.n)
    [] c.alg = "fill"         -> FillLoops(c.n)
    [] c.alg = "destroy"      -> DestroyLoops(c.n)
    [] c.alg \in {"copy", "move"} -> CopyLoops(c.n, c.alg)
    [] c.alg = "transform"    -> TransformLoops(c.n)
    [] c.alg = "swap_ranges"  -> SwapRangesLoops(c.n)
    [] c.alg = "transform_pairs" -> TransformPairsLoops(c.n, c.k)
    [] c.alg = "adjacent_difference" -> AdjacentDifferenceLoops(c.n)
    [] OTHER                  -> ShiftLoops(c.n, c.k, c.alg = "shift_right")

\* The second range of swap_ranges has elements of its own.
Memory(c) ==
  [range |-> [l \in 0..(c.n - 1) |-> l], buffer |-> [l \in 0..(c.n - 1) |-> Raw],
   output |-> [l \in 0..(c.n - 1) |-> IF c.alg = "swap_ranges" THEN c.n + l ELSE NotWritten]]

\* The slots the chunk [i, j) of a loop changes, and all it reads or changes.
Changed(loop, i, j) ==
  {<<loop.to, loop.at[l][2]>> : l \in i..(j - 1)} \cup
  (IF loop.does \in {"swap", "move"} THEN {<<loop.from, loop.at[l][1]>> : l \in i..(j - 1)} ELSE {})
Touched(loop, i, j) ==
  Changed(loop, i, j) \cup
  {<<loop.from, loop.at[l][q]>> : l \in i..(j - 1), q \in (IF loop.does = "pair" THEN {1, 3} ELSE {1})}

\* What iteration l puts in its second slot.
Put(x, loop, l) ==
  LET e == x[loop.from][loop.at[l][1]]
  IN  CASE loop.does = "apply"   -> Applied(e)
        [] loop.does = "pair"    -> Both(e, x[loop.from][loop.at[l][3]])
        [] loop.does = "fill"    -> Filled
        [] loop.does = "destroy" -> Raw
        [] OTHER                 -> e

\* What it leaves in the first: an element moved out of the buffer is destroyed there.
LeftBehind(x, loop, l) ==
  CASE loop.does = "swap" -> x[loop.to][loop.at[l][2]]
    [] loop.does = "move" -> IF loop.from = "buffer" THEN Raw ELSE MovedFrom
    [] OTHER              -> x[loop.from][loop.at[l][1]]

\* The body of a loop on the chunk [i, j).
Body(x, loop, i, j) ==
  LET first(m, s) == {l \in i..(j - 1) : m = loop.from /\ loop.at[l][1] = s}
      second(m, s) == {l \in i..(j - 1) : m = loop.to /\ loop.at[l][2] = s}
  IN  [m \in DOMAIN x |-> [s \in DOMAIN x[m] |->
         IF second(m, s) # {} THEN Put(x, loop, Min(second(m, s)))
         ELSE IF first(m, s) # {} THEN LeftBehind(x, loop, Min(first(m, s)))
         ELSE x[m][s]]]

\* Every element read is there; an element is constructed in raw memory only, a slot of
\* the output is written once, and what is assigned to has not been destroyed.
MayRun(x, loop, i, j) ==
  \A l \in i..(j - 1) :
    LET target == x[loop.to][loop.at[l][2]]
    IN  /\ x[loop.from][loop.at[l][1]] >= 0
        /\ loop.does = "pair" => x[loop.from][loop.at[l][3]] >= 0
        /\ loop.to = "buffer" => target = Raw
        /\ loop.to = "range" => target # Raw
        /\ loop.to = "output" /\ loop.does # "swap" => target = NotWritten

Returned(c) ==
  CASE c.alg \in {"reverse", "for_each", "fill", "destroy"} -> 0
    [] c.alg = "transform_pairs" -> c.n - c.k
    [] c.alg = "rotate"      -> c.n - c.k
    [] c.alg = "shift_left"  -> IF c.k <= 0 THEN c.n ELSE IF c.k >= c.n THEN 0 ELSE c.n - c.k
    [] c.alg = "shift_right" -> IF c.k <= 0 THEN 0 ELSE IF c.k >= c.n THEN c.n ELSE c.k
    [] OTHER                 -> c.n
-------------------------------------------------------------------------------
(* The arithmetic of __pattern_nth_element: one iteration partitions the elements   *)
(* after the first by the first one, and keeps the part the n-th place is in.       *)
Times(s, lo, hi, key) == Cardinality({l \in lo..(hi - 1) : s[l] = key})

\* s with the elements of [lo, hi) in another order.
Permuted(s, lo, hi) ==
  {t \in [DOMAIN s -> {s[l] : l \in DOMAIN s}] :
     /\ \A l \in DOMAIN s \ (lo..(hi - 1)) : t[l] = s[l]
     /\ \A l \in DOMAIN s : Times(t, lo, hi, s[l]) = Times(s, lo, hi, s[l])}

\* What __pattern_partition may leave in [lo+1, hi), with the place before the second part.
Partitions(s, lo, hi) ==
  LET x == lo + Cardinality({l \in (lo + 1)..(hi - 1) : s[l] < s[lo]})
  IN  {<<t, x>> : t \in {u \in Permuted(s, lo + 1, hi) : \A l \in (lo + 1)..(hi - 1) : u[l] < u[lo] <=> l <= x}}

Swap(s, p, q) == [s EXCEPT ![p] = s[q], ![q] = s[p]]

\* [mutant] Elements equal to the n-th are not passed over.
PastEqual_Stays(s, x, nth) == x

\* The next place after x, up to nth, whose element is not equal to the one at nth.
PastEqual(s, x, nth) == Min({nth} \cup {l \in x..nth : s[l] # s[nth]})

\* The elements, the range and the place after an iteration that divided at x.
Shrink(s, lo, hi, x, nth) ==
  IF x > nth THEN <<s, lo, x, x>>
  ELSE IF x < nth THEN LET y == PastEqual(s, x, nth) IN <<Swap(s, nth, y), y, hi, y>>
  ELSE <<s, lo, hi, x>>

Iterations(s, lo, hi, nth) ==
  {Shrink(Swap(p[1], lo, p[2]), lo, hi, p[2], nth) : p \in Partitions(s, lo, hi)}
-------------------------------------------------------------------------------
(* Where the element that ends in place l comes from, for the places the algorithm  *)
(* says something about (C++ [alg.modifying.operations], [alg.foreach],              *)
(* [adjacent.difference], [specialized.algorithms]).                                 *)
Correct(c, x, it) ==
  LET Is(m, from(_), places) == \A l \in places : x[m][l] = from(l)
      all == 0..(c.n - 1)
      Reversed(l) == c.n - 1 - l
      Rotated(l) == (l + c.k) % c.n
      Left(l) == l + c.k
      Right(l) == l - c.k
      Same(l) == l
      Gone(l) == MovedFrom
      Destroyed(l) == Raw
      Fill(l) == Filled
      Done(l) == Applied(l)
      Others(l) == c.n + l
      Pair(l) == Both(l, l + c.k)
      Difference(l) == IF l = 0 THEN 0 ELSE Both(l, l - 1)
  IN  CASE c.alg = "reverse"      -> Is("range", Reversed, all)
        [] c.alg = "reverse_copy" -> it = c.n /\ Is("output", Reversed, all) /\ Is("range", Same, all)
        [] c.alg = "rotate"       -> it = c.n - c.k /\ Is("range", Rotated, all)
        [] c.alg = "rotate_copy"  -> it = c.n /\ Is("output", Rotated, all) /\ Is("range", Same, all)
        [] c.alg = "for_each"     -> Is("range", Done, all)
        [] c.alg = "fill"         -> Is("range", Fill, all)
        [] c.alg = "destroy"      -> Is("range", Destroyed, all)
        [] c.alg = "copy"         -> it = c.n /\ Is("output", Same, all) /\ Is("range", Same, all)
        [] c.alg = "move"         -> it = c.n /\ Is("output", Same, all) /\ Is("range", Gone, all)
        [] c.alg = "transform"    -> it = c.n /\ Is("output", Done, all) /\ Is("range", Same, all)
        [] c.alg = "swap_ranges"  -> it = c.n /\ Is("output", Same, all) /\ Is("range", Others, all)
        [] c.alg = "transform_pairs" -> it = c.n - c.k /\ Is("output", Pair, 0..(c.n - c.k - 1))
        [] c.alg = "adjacent_difference" -> it = c.n /\ Is("output", Difference, all)
        [] OTHER -> IF c.k \notin 1..(c.n - 1) THEN it = Returned(c) /\ Is("range", Same, all)
                    ELSE IF c.alg = "shift_left" THEN it = c.n - c.k /\ Is("range", Left, 0..(c.n - c.k - 1))
                    ELSE it = c.k /\ Is("range", Right, c.k..(c.n - 1))

\* The n-th element is where sorting would put it, and divides the others (C++ [alg.nth.element]).
NthCorrect(given, s, nth) ==
  /\ s \in Permuted(given, 0, Cardinality(DOMAIN given))
  /\ \A l \in DOMAIN s : (l < nth => s[l] <= s[nth]) /\ (l > nth => s[nth] <= s[l])
===============================================================================
