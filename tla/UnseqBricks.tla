------------------------------ MODULE UnseqBricks ------------------------------
(* The bricks written for vectorisation: what the policies unseq and par_unseq run  *)
(* on a range, or on a chunk of one, in the place of std's loops. A search tests a   *)
(* block of elements at a time, a reduction keeps a value for each lane of a vector, *)
(* and a loop that moves elements promises the compiler that its iterations are      *)
(* independent. A behaviour is one call, on one thread, in a single step.            *)
EXTENDS SearchPatterns

CONSTANTS
  Bricks,                  \* the bricks that are called
  BlockSize,               \* __block_size of the searches (8)
  FirstBlock,              \* the first __block_size of __simd_or_impl (4)
  Lanes,                   \* the lanes of a reduction
  MaxBrick                 \* bound on the length of a range

VARIABLES given,           \* the call: two sequences, a number and a chunk [i, j)
          outcome          \* {}, or {what it returned}

vars == <<given, outcome>>

Places == INSTANCE NearestPlace

Torn == "torn"             \* what a loop leaves whose iterations depend on each other

ToMax(m) == 0..m
Sequences(m, keys) == UNION {[0..(q - 1) -> keys] : q \in ToMax(m)}
Identity(m) == [l \in 0..(m - 1) |-> l]
Brick(alg, a, b, k, i, j) == [alg |-> alg, a |-> a, b |-> b, k |-> k, i |-> i, j |-> j]

Where(a, key) == {l \in DOMAIN a : a[l] = key}
Differ(a, b) == {l \in DOMAIN a \cap DOMAIN b : a[l] # b[l]}
Raised(a) == {l \in DOMAIN a : a[Parent(l)] < a[l]}
-------------------------------------------------------------------------------
(* Searches. The elements that satisfy the predicate are the set hits.            *)

RECURSIVE SimdOr(_, _, _, _)
\* The blocks double in length as long as two of them are left.
SimdOr(hits, first, last, size) ==
  /\ first # last
  /\ \/ hits \cap (first..(first + size - 1)) # {}
     \/ LET rest == last - (first + size)
        IN  SimdOr(hits, first + size, last, IF rest >= 2 * size THEN 2 * size ELSE rest)

Or(hits, first, last) == SimdOr(hits, first, last, Min({FirstBlock, last - first}))

RECURSIVE SimdFirst(_, _, _)
\* Whole blocks first, the remainder is scalar.
SimdFirst(hits, begin, end) ==
  LET lane == {q \in 0..(BlockSize - 1) : begin + q \in hits}
  IN  IF end - begin < BlockSize THEN FirstIn(hits \cap (begin..(end - 1)), end)
      ELSE IF lane = {} THEN SimdFirst(hits, begin + BlockSize, end)
      ELSE begin + Min(lane)

\* [mutant] The pair on the border of two blocks is left out.
RECURSIVE SimdAdjacentFind_Border(_, _, _, _)
SimdAdjacentFind_Border(pairs, first, last, orSemantic) ==
  LET tested == first..(first + BlockSize - 2)
  IN  IF last - first < BlockSize THEN FirstIn(pairs \cap (first..(last - 2)), last)
      ELSE IF pairs \cap tested = {} THEN SimdAdjacentFind_Border(pairs, first + BlockSize, last, orSemantic)
      ELSE IF orSemantic THEN first ELSE Min(pairs \cap tested)

RECURSIVE SimdAdjacentFind(_, _, _, _)
\* pairs are the elements that satisfy __pred together with the next one; the pair on the
\* border of two blocks is tested with the first of them.
SimdAdjacentFind(pairs, first, last, orSemantic) ==
  LET tested == IF first + BlockSize < last THEN first..(first + BlockSize - 1) ELSE first..(first + BlockSize - 2)
  IN  IF last - first < BlockSize THEN FirstIn(pairs \cap (first..(last - 2)), last)
      ELSE IF pairs \cap tested = {} THEN SimdAdjacentFind(pairs, first + BlockSize, last, orSemantic)
      ELSE IF orSemantic THEN first ELSE Min(pairs \cap tested)

\* Builds with early exit have one loop, which does not know of __or_semantic.
AdjacentFinds(c) ==
  LET pairs == {l \in DOMAIN c.a : l + 1 \in DOMAIN c.a /\ c.a[l] = c.a[l + 1]}
  IN  {SimdAdjacentFind(pairs, c.i, c.j, c.k = 1), FirstIn(pairs \cap (c.i..(c.j - 2)), c.j)}

RECURSIVE FindSequence(_, _, _)
\* __find_subrange for a sequence: find its first element, then compare the rest.
FindSequence(c, first, cur) ==
  LET n2 == Len(c.b)
      f == SimdFirst(Where(c.a, c.b[0]), first, c.j)
      fits == f # c.j /\ Len(c.a) - f >= n2
      rest == {q \in 0..(n2 - 2) : c.a[f + 1 + q] # c.b[q + 1]}
  IN  IF first = c.j \/ Len(c.a) - first < n2 THEN cur
      ELSE IF fits /\ SimdFirst(rest, 0, n2 - 1) = n2 - 1
        THEN IF IsFirst(c) THEN f ELSE FindSequence(c, f + 1, f)
      ELSE IF f = c.j THEN cur
      ELSE FindSequence(c, f + 1, cur)

Subsequence(c) ==
  IF Len(c.b) < 1 THEN IF IsFirst(c) THEN c.i ELSE c.j
  ELSE FindSequence(c, c.i, c.j)

RECURSIVE FindRun(_, _)
\* __find_subrange for __count equal values.
FindRun(c, first) ==
  LET f == SimdFirst(Where(c.a, 1), first, c.j)
  IN  IF first = c.j \/ Len(c.a) - first < c.k THEN c.j
      ELSE IF f # c.j /\ Len(c.a) - f >= c.k /\ ~Or(DOMAIN c.a \ Where(c.a, 1), f + 1, f + c.k) THEN f
      ELSE IF f = c.j THEN c.j
      ELSE FindRun(c, f + 1)

Run(c) == IF c.k < 1 THEN c.i ELSE FindRun(c, c.i)

RECURSIVE FirstOfEach(_, _)
\* The branch for a range at least as long as the set: the values are tried in turn.
FirstOfEach(c, q) ==
  LET f == SimdFirst(Where(c.a, c.b[q]), c.i, c.j)
  IN  IF q = Len(c.b) THEN c.j ELSE IF f # c.j THEN f ELSE FirstOfEach(c, q + 1)

SimdFindFirstOf(c) ==
  IF c.i = c.j \/ Len(c.b) = 0 THEN c.j
  ELSE IF c.j - c.i < Len(c.b)
    THEN FirstIn({l \in c.i..(c.j - 1) : Or(Where(c.b, c.a[l]), 0, Len(c.b))}, c.j)
    ELSE FirstOfEach(c, 0)

\* lexicographical_compare ends one element early and decides by the place it stopped at.
LexicographicalCompare(c) ==
  IF Shortcut(c) # {} THEN Shortcut(c)
  ELSE {FromFind(c, SimdFirst(Differ(c.a, c.b), 0, SearchLength(c)))}

IsPartitioned(c) ==
  LET n == Len(c.a)
      f == SimdFirst(DOMAIN c.a \ Where(c.a, 1), 0, n)
  IN  f = n \/ ~Or(Where(c.a, 1), f + 1, n)
-------------------------------------------------------------------------------
(* Reductions.                                                                   *)

\* The lanes of __simd_transform_reduce: two blocks begin them, each further block adds
\* to them, the remainder to the first ones. How often each element is taken.
Taken(n) ==
  LET last == Lanes * (n \div Lanes)
      lanes == {<<"initializer", l>> : l \in 0..(2 * Lanes - 1)} \cup
               {<<"main loop", l>> : l \in (2 * Lanes)..(last - 1)} \cup
               {<<"remainder", last + l>> : l \in 0..(n - last - 1)}
      terms == IF n > 2 * Lanes /\ Lanes > 1 THEN lanes ELSE {<<"scalar", l>> : l \in 0..(n - 1)}
  IN  [l \in 0..(n - 1) |-> Cardinality({t \in terms : t[2] = l})]

\* A lane begins as a copy of the original, which stands at the first element, and takes
\* the elements S in order.
LaneMin(a, S) == Min({l \in S \cup {0} : \A q \in S \cup {0} : a[l] <= a[q]})
LaneMax(a, S) == Max({l \in S \cup {0} : \A q \in S \cup {0} : a[q] <= a[l]})

JoinMin(a, x, y) == IF a[y] < a[x] \/ (a[y] = a[x] /\ y < x) THEN y ELSE x
JoinMax(a, x, y) == IF a[x] < a[y] \/ (a[y] = a[x] /\ x < y) THEN y ELSE x

\* The compiler deals the elements to the lanes, and joins the lanes, as it likes.
MinMax(c) ==
  {LET lane(p) == {l \in DOMAIN deal : deal[l] = p}
   IN  <<FoldSet(LAMBDA p, x : JoinMin(c.a, x, LaneMin(c.a, lane(p))), 0, 1..Lanes),
         FoldSet(LAMBDA p, x : JoinMax(c.a, x, LaneMax(c.a, lane(p))), 0, 1..Lanes)>> :
     deal \in [1..(Len(c.a) - 1) -> 1..Lanes]}
-------------------------------------------------------------------------------
(* Moves, in place.                                                              *)

\* A vectorised loop over count elements at from and at to.
Swapped(s, from, count, to) ==
  LET src == from..(from + count - 1)
      dst == to..(to + count - 1)
  IN  IF src \cap dst # {} THEN [l \in DOMAIN s |-> IF l \in src \cup dst THEN Torn ELSE s[l]]
      ELSE [l \in DOMAIN s |-> CASE l \in src -> s[l - from + to]
                                 [] l \in dst -> s[l - to + from]
                                 [] OTHER     -> s[l]]

Moved(s, from, count, to) ==
  LET dst == to..(to + count - 1)
  IN  [l \in DOMAIN s |-> IF l \notin dst THEN s[l]
                          ELSE IF dst \cap (from..(from + count - 1)) # {} THEN Torn
                          ELSE s[l - to + from]]

RECURSIVE RotateFrom(_, _, _, _, _, _)
\* The block of m elements at one end of [first, last) is swapped towards the other end,
\* until what is left is shorter and goes the other way.
RotateFrom(s, first, last, n, m, isLeft) ==
  IF n <= 1 \/ m = 0 THEN s
  ELSE IF last - first < 2 * m THEN RotateFrom(s, first, last, last - first, n % m, ~isLeft)
  ELSE IF isLeft THEN RotateFrom(Swapped(s, first, m, first + m), first + m, last, n, m, isLeft)
  ELSE RotateFrom(Swapped(s, last - m, m, last - 2 * m), first, last - m, n, m, isLeft)

Rotate(c) ==
  LET n == Len(c.a)
      isLeft == c.k <= n \div 2
  IN  <<RotateFrom(c.a, 0, n, n, IF isLeft THEN c.k ELSE n - c.k, isLeft), n - c.k>>

RECURSIVE ShiftBlocks(_, _, _)
ShiftBlocks(s, n, k) ==
  LET end == Min({k + n, Len(s)})
  IN  IF k >= Len(s) THEN s ELSE ShiftBlocks(Moved(s, k, end - k, k - n), n, k + n)

\* One loop if the elements fit before their old places, else a loop for every n of them.
ShiftLeft(c) ==
  LET size == Len(c.a)
      mid == (size \div 2) + (size % 2)
  IN  IF c.k <= 0 THEN <<c.a, size>>
      ELSE IF c.k >= size THEN <<c.a, 0>>
      ELSE <<IF c.k >= mid THEN Moved(c.a, c.k, size - c.k, 0) ELSE ShiftBlocks(c.a, c.k, c.k), size - c.k>>

\* Nothing moves before the first element that is removed; b tells which those are.
RemoveIf(c) ==
  LET n == Len(c.a)
      f == SimdFirst(Where(c.b, 1), 0, n)
      kept == {l \in (f + 1)..(n - 1) : c.b[l] # 1}
      Goes(l) == f + Cardinality({q \in kept : q < l})
  IN  IF n - f < 2 THEN <<c.a, f>>
      ELSE <<[l \in DOMAIN c.a |-> IF \E q \in kept : Goes(q) = l
                                     THEN c.a[CHOOSE q \in kept : Goes(q) = l] ELSE c.a[l]],
             f + Cardinality(kept)>>
-------------------------------------------------------------------------------
\* The calls: a first and a second sequence, a number and a chunk.
Firsts(alg) ==
  CASE alg \in {"any_of", "find_if", "adjacent_find", "is_partitioned"} -> Sequences(MaxBrick, 1..2)
    [] alg \in {"is_heap", "is_heap_until", "lexicographical_compare"} -> Sequences(4, 1..3)
    [] alg = "minmax_element" -> Sequences(4, 1..3) \ {<< >>}
    [] alg = "reduce"         -> {Identity(n) : n \in 0..(5 * Lanes)}
    [] alg = "rotate"         -> {Identity(n) : n \in 0..(2 * MaxBrick)}
    [] alg \in {"shift_left", "remove_if"} -> {Identity(n) : n \in 0..MaxBrick}
    [] OTHER -> Sequences(4, 1..2)

Seconds(alg, a) ==
  CASE alg \in {"search", "find_end", "find_first_of"} -> Sequences(3, 1..2)
    [] alg = "mismatch"  -> Sequences(4, 1..2)
    [] alg = "equal"     -> [DOMAIN a -> 1..2]
    [] alg = "lexicographical_compare" -> Sequences(3, 1..3)
    [] alg = "remove_if" -> [DOMAIN a -> 1..2]
    [] OTHER -> {<< >>}

Numbers(alg, a) ==
  CASE alg = "search_n"      -> 0..3
    [] alg = "adjacent_find" -> 0..1
    [] alg = "rotate"        -> 0..Len(a)
    [] alg = "shift_left"    -> (-1)..(MaxBrick + 1)
    [] OTHER -> {0}

IsChunk(c) ==
  IF c.alg \in OrAlgs \cup (FindAlgs \ {"lexicographical_compare"}) \cup {"adjacent_find"}
    THEN c.i <= c.j /\ c.j <= SearchLength(c)
    ELSE c.i = 0 /\ c.j = Len(c.a)

\* What the brick may return; a search stands for the place it returns.
Outcomes(c) ==
  CASE c.alg = "any_of"   -> {Or(Where(c.a, 1), c.i, c.j)}
    [] c.alg = "is_heap"  -> {Or(Raised(c.a), c.i, c.j)}
    [] c.alg = "equal"    -> {SimdFirst(Differ(c.a, c.b), c.i, c.j) # c.j}
    [] c.alg = "find_if"  -> {SimdFirst(Where(c.a, 1), c.i, c.j)}
    [] c.alg = "is_heap_until" -> {SimdFirst(Raised(c.a), c.i, c.j)}
    [] c.alg = "mismatch" -> {SimdFirst(Differ(c.a, c.b), c.i, c.j)}
    [] c.alg \in {"search", "find_end"} -> {Subsequence(c)}
    [] c.alg = "search_n" -> {Run(c)}
    [] c.alg = "find_first_of" -> {SimdFindFirstOf(c)}
    [] c.alg = "lexicographical_compare" -> LexicographicalCompare(c)
    [] c.alg = "adjacent_find"  -> AdjacentFinds(c)
    [] c.alg = "is_partitioned" -> {IsPartitioned(c)}
    [] c.alg = "reduce"         -> {Taken(Len(c.a))}
    [] c.alg = "minmax_element" -> MinMax(c)
    [] c.alg = "rotate"         -> {Rotate(c)}
    [] c.alg = "shift_left"     -> {ShiftLeft(c)}
    [] c.alg = "remove_if"      -> {RemoveIf(c)}

Init ==
  /\ outcome = {}
  /\ \E alg \in Bricks : \E a \in Firsts(alg) : \E b \in Seconds(alg, a), k \in Numbers(alg, a) :
       \E i \in 0..Len(a), j \in 0..Len(a) :
         given = Brick(alg, a, b, k, i, j) /\ IsChunk(given)

Next == outcome = {} /\ (\E it \in Outcomes(given) : outcome' = {it}) /\ UNCHANGED given
Spec == Init /\ [][Next]_vars
-------------------------------------------------------------------------------
(* What the bricks must return: what the loops of std they stand for do, which is    *)
(* what the models of the parallel patterns take for granted.                        *)
Contract(c, it) ==
  LET n == Len(c.a)
      kept == {l \in DOMAIN c.b : c.b[l] # 1}
  IN  CASE c.alg \in OrAlgs  -> it = OrBrick(c, c.i, c.j)
        [] c.alg \in FindAlgs \ {"lexicographical_compare"} -> it = FindBrick(c, c.i, c.j)
        [] c.alg = "lexicographical_compare" -> Correct(c, it)
        [] c.alg = "adjacent_find" ->
             it \in Places!BrickAdjacentFind([pairs |-> {l \in 0..(n - 2) : c.a[l] = c.a[l + 1]},
                                              orSemantic |-> c.k = 1], c.i, c.j)
        [] c.alg = "is_partitioned" -> it = (\A l, q \in DOMAIN c.a : l < q /\ c.a[q] = 1 => c.a[l] = 1)
        [] c.alg = "reduce"     -> \A l \in DOMAIN it : it[l] = 1
        [] c.alg = "minmax_element" -> it = <<Places!FirstMin(c.a, 0, n), Places!LastMax(c.a, 0, n)>>
        [] c.alg = "rotate"     -> it = <<[l \in DOMAIN c.a |-> (l + c.k) % n], n - c.k>>
        [] c.alg = "shift_left" ->
             /\ it[2] = IF c.k <= 0 THEN n ELSE Max({n - c.k, 0})
             /\ c.k > 0 => \A l \in 0..(it[2] - 1) : it[1][l] = l + c.k
        [] c.alg = "remove_if"  ->
             /\ it[2] = Cardinality(kept)
             /\ \A l \in 0..(it[2] - 1) :
                  it[1][l] \in kept /\ l = Cardinality({q \in kept : q < it[1][l]})

\* Every brick returns, and leaves in the range, what the serial one does, wherever the
\* blocks and the lanes fall and whoever gets which element (unseq_backend_simd.h:79-520,
\* 647-791, 867-898; algorithm_impl.h:706-790, 1748-1784, 1934-1956, 3900-3931, 4036-4068).
BricksKeepTheirContract == \A it \in outcome : Contract(given, it)

\* "wrong return result from find_first_of" unless it is std::find_first_of's
\* (test/parallel_api/algorithm/alg.nonmodifying/find_first_of.pass.cpp:33-35).
FindFirstOfIsFirst == given.alg = "find_first_of" => \A it \in outcome : Contract(given, it)
===============================================================================
