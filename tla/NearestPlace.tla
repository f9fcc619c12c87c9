------------------------------ MODULE NearestPlace ------------------------------
(* The reductions that look for a place of a range: the first one in                *)
(* __pattern_adjacent_find and in __remove_elements, which also creates the mask of  *)
(* the elements to keep, and those of the least and the greatest element in          *)
(* __pattern_minmax_element and, by the first component of every pair,               *)
(* __pattern_min_element: positions are compared by the elements they stand at and,   *)
(* where these are equal, by themselves.                                             *)
EXTENDS Integers, FiniteSetsExt

\* Which elements satisfy __pred together with the next one, and the semantic asked for.
PairCalls(m) == [pairs : SUBSET (0..(m - 2)), orSemantic : BOOLEAN, last : {m}]

\* The elements __remove_elements keeps, and those whose mask has been created. Shorter
\* ranges go to the serial algorithm.
RemoveCalls(m) == [keeps : SUBSET (0..(m - 1)), masked : {{}}, last : {m} \ {0, 1}]

IsShort(m, r) == m < 2

NeverShort(m, r) == FALSE

Last(m, r) == m

(* __brick_adjacent_find on [begin, end): the vector brick with __or_semantic      *)
(* returns the beginning of the block in which it found a pair.                   *)
BrickAdjacentFind(r, begin, end) ==
  LET found == {k \in begin..(end - 2) : k \in r.pairs}
  IN  IF found = {} THEN {end}
      ELSE IF r.orSemantic THEN begin..Min(found) ELSE {Min(found)}

\* [mutant] The pair on the border is left out.
EndOfSearch_Border(r, end) == end

\* "modify __end to check the predicate on the boundary __values"
EndOfSearch(r, end) == IF end # r.last THEN end + 1 ELSE end

\* __real_body.
Find(r, begin, end, value) ==
  IF (r.orSemantic /\ value < r.last) \/ value <= begin
    THEN {<<r, value>>}
    ELSE {<<r, IF res < EndOfSearch(r, end) THEN res ELSE value>> :
            res \in BrickAdjacentFind(r, begin, EndOfSearch(r, end))}

CalcMask(r, i, j) == [r EXCEPT !.masked = @ \cup (i..(j - 1))]

\* [mutant] The mask is not created once a minimum is known.
FindRemoved_EarlyReturn(r, i, j, value) ==
  IF value < i THEN {<<r, value>>}
  ELSE {<<CalcMask(r, i, j), Min({value} \cup ((i..(j - 1)) \ r.keeps))>>}

\* __real_body: the mask is created first, "if minimum was found in a previous range
\* we shouldn't do anymore".
FindRemoved(r, i, j, value) ==
  LET q == CalcMask(r, i, j)
      removed == (i..(j - 1)) \ r.keeps
  IN  IF value < i \/ removed = {} THEN {<<q, value>>}
      ELSE {<<q, Min({value, Min(removed)})>>}

Nearer(r, a, b) == {<<r, IF a < b THEN a ELSE b>>}

Returned(r, v) == v
-------------------------------------------------------------------------------
\* The elements minmax_element compares: keys at the places of the range.
KeyRanges(m, keys) == [0..(m - 1) -> keys]
Length(r) == Cardinality(DOMAIN r)
FirstTwice(m, r) == <<0, 0>>
LastTwice(m, r) == <<m, m>>   \* the identity

\* __brick_minmax_element: the first of the least, the last of the greatest.
FirstMin(r, i, j) == CHOOSE k \in i..(j - 1) :
  \A l \in i..(j - 1) : r[k] < r[l] \/ (r[k] = r[l] /\ k <= l)
LastMax(r, i, j) == CHOOSE k \in i..(j - 1) :
  \A l \in i..(j - 1) : r[k] > r[l] \/ (r[k] = r[l] /\ k >= l)

\* __cmp_iterators_by_values with __comp and __pstl_less.
Lesser(r, a, b) == IF a < b THEN (IF r[b] < r[a] THEN b ELSE a)
                            ELSE (IF r[a] < r[b] THEN a ELSE b)

\* __cmp_iterators_by_values with __reorder_pred and __pstl_greater.
Greater(r, a, b) == IF a > b THEN (IF r[a] < r[b] THEN b ELSE a)
                             ELSE (IF r[b] < r[a] THEN a ELSE b)

BestOfBoth(r, p, q) == <<Lesser(r, p[1], q[1]), Greater(r, p[2], q[2])>>

Extremes(r, i, j, init) ==
  LET sub == <<FirstMin(r, i, j), LastMax(r, i, j)>>
  IN  {<<r, IF init[1] = Length(r) THEN sub ELSE BestOfBoth(r, init, sub)>>}

Further(r, p, q) ==
  {<<r, IF p[1] = Length(r) THEN q ELSE IF q[1] = Length(r) THEN p ELSE BestOfBoth(r, p, q)>>}
-------------------------------------------------------------------------------
(* What the call must return (algorithm_impl.h:2526): the first pair, or last if *)
(* there is none; with __or_semantic, last exactly if there is none.             *)
CorrectPair(r, it) ==
  /\ it = r.last <=> r.pairs = {}
  /\ ~r.orSemantic /\ it # r.last => it = Min(r.pairs)

(* A value tells whether a pair begins in the part [i, j) it stands for, the pair *)
(* on its border included (algorithm_impl.h:2546).                               *)
DescribesPairs(r, i, j, v) ==
  /\ v = r.last <=> r.pairs \cap (i..(j - 1)) = {}
  /\ v # r.last => v \in i..(j - 1)

(* What the scan that follows relies on (algorithm_impl.h:1440, 1447-1470): the mask  *)
(* of every element is there, and the place is the first one to remove, or last.      *)
CorrectMask(r, it) ==
  /\ r.masked = 0..(r.last - 1)
  /\ it \in 0..r.last /\ it \notin r.keeps
  /\ \A k \in 0..(it - 1) : k \in r.keeps

(* The mask of the part [i, j) is there; a value left of the part's own elements comes *)
(* from a neighbour, and none of its own elements is forgotten.                        *)
DescribesMask(r, i, j, v) ==
  /\ i..(j - 1) \subseteq r.masked
  /\ v \in ((0..(r.last - 1)) \ r.keeps) \cup {r.last}
  /\ \A k \in (i..(j - 1)) \ r.keeps : v <= k

(* What the call must return (algorithm_impl.h:3797), and what a value must say  *)
(* about the part it stands for: the first of the least, the last of the greatest. *)
CorrectExtremes(r, m, it) == m > 0 => it = <<FirstMin(r, 0, m), LastMax(r, 0, m)>>
DescribesExtremes(r, i, j, v) == v = <<FirstMin(r, i, j), LastMax(r, i, j)>>
===============================================================================
