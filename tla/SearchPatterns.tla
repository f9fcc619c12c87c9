----------------------------- MODULE SearchPatterns -----------------------------
(* The algorithms whose parallel pattern is one __parallel_or or __parallel_find:   *)
(* what the brick of each returns on the chunk [i, j), and what the pattern makes    *)
(* of the result. A call has two sequences a and b of keys and a number k.           *)
EXTENDS Integers, FiniteSets, FiniteSetsExt

OrAlgs == {"any_of", "equal", "includes", "is_heap"}
FindAlgs == {"find_if", "find_end", "find_first_of", "search", "search_n",
             "mismatch", "lexicographical_compare", "is_heap_until"}

Len(s) == Cardinality(DOMAIN s)

LowerBound(s, i, j, key) == i + Cardinality({l \in i..(j - 1) : s[l] < key})
UpperBound(s, i, j, key) == i + Cardinality({l \in i..(j - 1) : s[l] <= key})

\* find_end, search and search_n of a subsequence as long as the range test for equality.
IsOr(c) ==
  \/ c.alg \in OrAlgs
  \/ c.alg \in {"search", "find_end"} /\ Len(c.a) = Len(c.b)
  \/ c.alg = "search_n" /\ Len(c.a) = c.k

\* What the call returns before it searches anything: {}, or {it}.
Shortcut(c) ==
  LET n1 == Len(c.a)
      n2 == Len(c.b)
      first1 == LowerBound(c.a, 0, n1, c.b[0])
  IN  CASE c.alg = "includes" ->
             IF n2 = 0 THEN {TRUE}
             ELSE IF n1 = 0 \/ n2 > n1 \/ c.b[0] < c.a[0] \/ c.a[n1 - 1] < c.b[n2 - 1] THEN {FALSE}
             ELSE IF first1 = n1 THEN {FALSE}
             ELSE IF n2 = 1 THEN {c.a[first1] = c.b[0]}
             ELSE {}
        [] c.alg = "equal" -> IF n1 # n2 THEN {FALSE} ELSE {}
        [] c.alg = "lexicographical_compare" ->
             IF n2 = 0 THEN {FALSE} ELSE IF n1 = 0 THEN {TRUE} ELSE {}
        [] OTHER -> {}

\* The length of the range that is searched.
SearchLength(c) ==
  CASE c.alg = "includes" -> Len(c.b)
    [] c.alg = "mismatch" -> Min({Len(c.a), Len(c.b)})
    [] c.alg = "lexicographical_compare" -> Min({Len(c.a), Len(c.b)}) - 1
    [] OTHER -> Len(c.a)

IsFirst(c) == c.alg # "find_end"

Parent(l) == IF l = 0 THEN 0 ELSE (l - 1) \div 2

\* [mutant] A run of equal elements is left to the chunk it begins in only if it fills
\* the whole chunk.
IncludesBrick_Unmoved(c, i, j) ==
  LET n2 == Len(c.b)
      continues == i > 0 /\ c.b[i - 1] = c.b[i]
      e == IF j < n2 /\ c.b[j - 1] = c.b[j] THEN UpperBound(c.b, j, n2, c.b[j]) ELSE j
      Times(s, from, to, key) == Cardinality({l \in from..(to - 1) : s[l] = key})
  IN  IF continues /\ c.b[i] = c.b[j - 1] THEN FALSE
      ELSE \E l \in i..(e - 1) :
             Times(c.a, LowerBound(c.a, 0, Len(c.a), c.b[i]), Len(c.a), c.b[l]) < Times(c.b, i, j, c.b[l])

\* The brick of includes: both ends of the chunk are moved past the run of equal
\* elements they cut; what is left must be included in the first sequence.
IncludesBrick(c, i, j) ==
  LET n2 == Len(c.b)
      continues == i > 0 /\ c.b[i - 1] = c.b[i]
      b == IF continues THEN UpperBound(c.b, i, n2, c.b[i]) ELSE i
      e == IF j < n2 /\ c.b[j - 1] = c.b[j] THEN UpperBound(c.b, j, n2, c.b[j]) ELSE j
      Times(s, from, to, key) == Cardinality({l \in from..(to - 1) : s[l] = key})
  IN  IF continues /\ c.b[i] = c.b[j - 1] THEN FALSE
      ELSE \E l \in b..(e - 1) :
             Times(c.a, LowerBound(c.a, 0, Len(c.a), c.b[b]), Len(c.a), c.b[l]) < Times(c.b, b, e, c.b[l])

AnyOfBrick(c, i, j) == \E l \in i..(j - 1) : c.a[l] = 1
HeapBrick(c, i, j) == \E l \in i..(j - 1) : c.a[Parent(l)] < c.a[l]
NotEqualBrick(c, i, j) == \E l \in i..(j - 1) : c.a[l] # c.b[l]
NotEqualTo(c, i, j, value) == \E l \in i..(j - 1) : c.a[l] # value

\* The bricks given to __parallel_or.
OrBrick(c, i, j) ==
  CASE c.alg = "any_of"   -> AnyOfBrick(c, i, j)
    [] c.alg = "includes" -> IncludesBrick(c, i, j)
    [] c.alg = "is_heap"  -> HeapBrick(c, i, j)
    [] c.alg = "search_n" -> NotEqualTo(c, i, j, 1)
    [] OTHER              -> NotEqualBrick(c, i, j)

FromOr(c, holds) ==
  CASE c.alg = "any_of" -> holds
    [] c.alg \in {"equal", "includes", "is_heap"} -> ~holds
    [] OTHER -> IF holds THEN Len(c.a) ELSE 0

FirstIn(S, j) == IF S = {} THEN j ELSE Min(S)

\* __find_subrange: the place in [i, j) where a subsequence of n2 elements begins.
FindSubrange(c, i, j, n2, starts) ==
  IF n2 < 1 THEN IF IsFirst(c) THEN i ELSE j
  ELSE IF starts = {} THEN j
  ELSE IF IsFirst(c) THEN Min(starts) ELSE Max(starts)

\* An occurrence that begins in the chunk may reach beyond it.
SubrangeBrick(c, i, j) ==
  FindSubrange(c, i, j, Len(c.b),
    {l \in i..(j - 1) : l + Len(c.b) <= Len(c.a) /\ \A q \in DOMAIN c.b : c.a[l + q] = c.b[q]})

SearchNBrick(c, i, j) ==
  FindSubrange(c, i, j, c.k,
    {l \in i..(j - 1) : l + c.k <= Len(c.a) /\ \A q \in l..(l + c.k - 1) : c.a[q] = 1})

FindIfBrick(c, i, j) == FirstIn({l \in i..(j - 1) : c.a[l] = 1}, j)
FindFirstOfBrick(c, i, j) == FirstIn({l \in i..(j - 1) : \E q \in DOMAIN c.b : c.a[l] = c.b[q]}, j)
HeapUntilBrick(c, i, j) == FirstIn({l \in i..(j - 1) : c.a[Parent(l)] < c.a[l]}, j)
MismatchBrick(c, i, j) == FirstIn({l \in i..(j - 1) : c.a[l] # c.b[l]}, j)

\* The bricks given to __parallel_find: a place in [i, j), or j.
FindBrick(c, i, j) ==
  CASE c.alg \in {"search", "find_end"} -> SubrangeBrick(c, i, j)
    [] c.alg = "search_n"               -> SearchNBrick(c, i, j)
    [] c.alg = "find_if"                -> FindIfBrick(c, i, j)
    [] c.alg = "find_first_of"          -> FindFirstOfBrick(c, i, j)
    [] c.alg = "is_heap_until"          -> HeapUntilBrick(c, i, j)
    [] OTHER                            -> MismatchBrick(c, i, j)

\* lexicographical_compare decides by the elements the search stopped at.
FromFind(c, r) ==
  IF c.alg = "lexicographical_compare"
    THEN IF r = Len(c.a) - 1 /\ r # Len(c.b) - 1 THEN ~(c.b[r] < c.a[r]) ELSE c.a[r] < c.b[r]
    ELSE r
-------------------------------------------------------------------------------
(* What the algorithms return (C++ [alg.nonmodifying], [alg.sorting]), a place in   *)
(* the range standing for an iterator to it.                                        *)
Occurs(c, l) == l + Len(c.b) <= Len(c.a) /\ \A q \in DOMAIN c.b : c.a[l + q] = c.b[q]

Correct(c, it) ==
  LET n1 == Len(c.a)
      n2 == Len(c.b)
      Count(s, key) == Cardinality({l \in DOMAIN s : s[l] = key})
      differ == {l \in 0..(Min({n1, n2}) - 1) : c.a[l] # c.b[l]}
      noHeap == {l \in 0..(n1 - 1) : \E m \in 0..(l - 1) : l \in {2 * m + 1, 2 * m + 2} /\ c.a[m] < c.a[l]}
      runs == {l \in 0..(n1 - c.k) : \A q \in l..(l + c.k - 1) : c.a[q] = 1}
  IN  CASE c.alg = "any_of"   -> it = (Count(c.a, 1) > 0)
        [] c.alg = "equal"    -> it = (n1 = n2 /\ differ = {})
        [] c.alg = "includes" -> it = (\A l \in DOMAIN c.b : Count(c.b, c.b[l]) <= Count(c.a, c.b[l]))
        [] c.alg = "is_heap"  -> it = (noHeap = {})
        [] c.alg = "is_heap_until" -> it = FirstIn(noHeap, n1)
        [] c.alg = "find_if"  -> it = FirstIn({l \in DOMAIN c.a : c.a[l] = 1}, n1)
        [] c.alg = "find_first_of" ->
             it = FirstIn({l \in DOMAIN c.a : Count(c.b, c.a[l]) > 0}, n1)
        [] c.alg = "search"   -> it = FirstIn({l \in 0..n1 : Occurs(c, l)}, n1)
        [] c.alg = "find_end" -> IF n2 > 0 /\ \E l \in 0..n1 : Occurs(c, l)
                                   THEN it = Max({l \in 0..n1 : Occurs(c, l)}) ELSE it = n1
        [] c.alg = "search_n" -> it = FirstIn(runs, n1)
        [] c.alg = "mismatch" -> it = FirstIn(differ, Min({n1, n2}))
        [] c.alg = "lexicographical_compare" ->
             it = IF differ = {} THEN n1 < n2 ELSE c.a[Min(differ)] < c.b[Min(differ)]
===============================================================================
