------------------------------ MODULE PublicCalls ------------------------------
(* The public algorithms: what they make of the predicate or the comparison they are *)
(* given, and of the pattern's answer. The first part is joined to the patterns' own  *)
(* runs; in the second an algorithm is one call on a whole range, of the overload of  *)
(* the pattern that runs without workers, under every policy that may choose it. An   *)
(* element satisfies the predicate where its key is 1.                                *)
EXTENDS SequencesExt, Integers

CONSTANT MaxPublic   \* bound on the ranges of the second part

VARIABLES asked,     \* a call on a whole range
          done       \* << >>, or how the call ran and what it may have left and returned

Searches == {"all_of", "none_of", "find_if_not", "find", "mismatch_3", "equal_3"}
Reductions == {"is_sorted", "is_sorted_until", "min_element", "max_element"}

Call(api, a, b, k) == [api |-> api, a |-> a, b |-> b, k |-> k]
None == <<>>

Size(p) == Cardinality(DOMAIN p.a)

\* __not_pred and __equal_value.
Not(a) == [l \in DOMAIN a |-> 3 - a[l]]
EqualTo(a, value) == [l \in DOMAIN a |-> IF a[l] = value THEN 1 ELSE 2]

\* all_of asks whether any element fails, none_of whether any holds.
AnyOfCall(p) == [alg |-> "any_of", a |-> IF p.api = "all_of" THEN Not(p.a) ELSE p.a, b |-> None, k |-> 0]

FindIfCall(p) ==
  [alg |-> "find_if", a |-> IF p.api = "find" THEN EqualTo(p.a, p.k) ELSE Not(p.a), b |-> None, k |-> 0]

\* Only the beginning of the second sequence is given; mismatch takes as much of it as
\* the first one is long.
FirstPart(p) == [l \in DOMAIN p.a |-> p.b[l]]
MismatchCall(p) == [alg |-> "mismatch", a |-> p.a, b |-> FirstPart(p), k |-> 0]
EqualCall(p) == [alg |-> "equal", a |-> p.a, b |-> FirstPart(p), k |-> 0]

SearchPattern(p) ==
  CASE p.api \in {"all_of", "none_of"}   -> AnyOfCall(p)
    [] p.api \in {"find_if_not", "find"} -> FindIfCall(p)
    [] p.api = "mismatch_3"              -> MismatchCall(p)
    [] p.api = "equal_3"                 -> EqualCall(p)

\* __reorder_pred: neighbours that are out of order.
DescentsCall(p) ==
  [pairs |-> {l \in 0..(Size(p) - 2) : p.a[l + 1] < p.a[l]}, orSemantic |-> p.api = "is_sorted", last |-> Size(p)]

\* max_element is min_element with the comparison reordered: of keys up to top.
Extreme(p, top) == IF p.api = "max_element" THEN [l \in DOMAIN p.a |-> top - p.a[l]] ELSE p.a

ReducePattern(p, top) ==
  IF p.api \in {"is_sorted", "is_sorted_until"}
    THEN [alg |-> "adjacent_find", data |-> DescentsCall(p)]
    ELSE [alg |-> "minmax_element", data |-> Extreme(p, top)]

\* What the public algorithm returns when the pattern returned it.
Returned(p, it) ==
  CASE p.api \in {"all_of", "none_of"} -> ~it
    [] p.api = "is_sorted"             -> it = Size(p)
    [] p.api = "is_sorted_until"       -> IF it = Size(p) THEN it ELSE it + 1
    [] p.api \in {"min_element", "max_element"} -> it[1]
    [] OTHER                           -> it
-------------------------------------------------------------------------------
(* What the public algorithms return (C++ [alg.all.of], [alg.none.of], [alg.find],   *)
(* [alg.equal], [mismatch], [is.sorted], [alg.min.max]).                             *)
Correct(p, r) ==
  LET n == Size(p)
      Firstly(S) == IF S = {} THEN n ELSE Min(S)
      differ == {l \in DOMAIN p.a : p.b[l] # p.a[l]}
      sorted == {m \in 0..n : \A i, j \in 0..(m - 1) : i < j => p.a[i] <= p.a[j]}
      Best(l) == \A m \in DOMAIN p.a :
        IF p.api = "max_element" THEN p.a[m] <= p.a[l] ELSE p.a[l] <= p.a[m]
  IN  CASE p.api = "all_of"      -> r = (\A l \in DOMAIN p.a : p.a[l] = 1)
        [] p.api = "none_of"     -> r = (\A l \in DOMAIN p.a : p.a[l] # 1)
        [] p.api = "find_if_not" -> r = Firstly({l \in DOMAIN p.a : p.a[l] # 1})
        [] p.api = "find"        -> r = Firstly({l \in DOMAIN p.a : p.a[l] = p.k})
        [] p.api = "mismatch_3"  -> r = Firstly(differ)
        [] p.api = "equal_3"     -> r = (differ = {})
        [] p.api = "is_sorted"   -> r = (n \in sorted)
        [] p.api = "is_sorted_until" -> r = Max(sorted)
        [] OTHER                 -> r = Firstly({l \in DOMAIN p.a : Best(l)})
-------------------------------------------------------------------------------
(* Calls on whole ranges. An element is <<key, name>>. p.n is a count, a place or a  *)
(* key, p.comp the comparison or the predicate of two, p.value the class of the       *)
(* elements in raw memory, p.counted whether its form with a count (_n) is called.    *)
Key(e) == e[1]
New(key) == <<key, 99>>    \* from a value of the caller's
Raw == <<0, 0>>            \* no object yet, or none any more
Hollow(e) == <<0, e[2]>>   \* moved from
Broken == <<0, 98>>        \* constructed over an object, or an object used where none is
Applied(e) == <<Key(e) + 2, e[2]>>
Joined(e, f) == <<10 * Key(e) + Key(f), e[2]>>
Sat == {1}
AllKeys == 0..9

Elements(s, from) == [l \in DOMAIN s |-> IF s[l] = 0 THEN Raw ELSE <<s[l], from + l>>]
Ask(api, a, b, n, comp, value, counted) ==
  [api |-> api, a |-> Elements(a, 0), b |-> Elements(b, 10), n |-> n, comp |-> comp, value |-> value,
   counted |-> counted, keys |-> Sat]

\* __pstl_less and __pstl_equal, or another order and another equivalence.
Precedes(comp, e, f) == IF comp = "greater" THEN Key(e) > Key(f) ELSE Key(e) < Key(f)
Same(comp, e, f) == IF comp = "parity" THEN Key(e) % 2 = Key(f) % 2 ELSE Key(e) = Key(f)

\* What a call leaves in its first range, what it has put out, and what it returns.
Left(a, out, ret) == [a |-> a, out |-> out, ret |-> ret]
Nothing == << >>
-------------------------------------------------------------------------------
(* What std's algorithms do, by quantifiers rather than by loops.                    *)
Orders(a) == SetToSeqs(ToSet(a))
Sorted(comp, a) == {s \in Orders(a) : \A i, j \in DOMAIN s : i < j => ~Precedes(comp, s[j], s[i])}

\* The one order of a that is sorted and keeps equal elements in order.
SortedStably(comp, a) ==
  LET before(i, j) == Precedes(comp, a[i], a[j]) \/ (i <= j /\ ~Precedes(comp, a[j], a[i]))
      place(j) == Cardinality({i \in DOMAIN a : before(i, j)})
  IN  [k \in DOMAIN a |-> a[CHOOSE j \in DOMAIN a : place(j) = k]]
FirstSorted(comp, a, n) ==
  {s \in Orders(a) : \A i, j \in DOMAIN s : (i < j /\ i <= n) => ~Precedes(comp, s[j], s[i])}

Holds(r, e) == Key(e) \in r.keys
Those(r, a) == SelectSeq(a, LAMBDA e : Holds(r, e))
Others(r, a) == SelectSeq(a, LAMBDA e : ~Holds(r, e))
Distinct(r, a) ==
  LET kept == SelectSeq([i \in DOMAIN a |-> i], LAMBDA i : i = 1 \/ ~Same(r.comp, a[i], a[i - 1]))
  IN  [k \in DOMAIN kept |-> a[kept[k]]]
Rotated(a, n) == SubSeq(a, n + 1, Len(a)) \o SubSeq(a, 1, n)
Upto(a, n) == SubSeq(a, 1, n)

\* The set operations count equal elements: which of the k-th equals they keep.
Rank(s, i) == Cardinality({j \in 1..i : Key(s[j]) = Key(s[i])})
Times(s, e) == Cardinality({j \in DOMAIN s : Key(s[j]) = Key(e)})
Where(s, keep(_)) == LET at == SelectSeq([i \in DOMAIN s |-> i], keep) IN [k \in DOMAIN at |-> s[at[k]]]
Surplus(a, b) == Where(a, LAMBDA i : Rank(a, i) > Times(b, a[i]))
Shared(a, b) == Where(a, LAMBDA i : Rank(a, i) <= Times(b, a[i]))

Sum(s) == FoldLeft(LAMBDA total, e : total + Key(e), 0, s)
Names(s) == [i \in DOMAIN s |-> s[i][2]]

StdWalk(api, r) ==
  LET a == r.a
      each(op(_)) == [i \in DOMAIN a |-> op(a[i])]
      some(op(_), k) == [i \in DOMAIN a |-> IF i <= k THEN op(a[i]) ELSE a[i]]
      changed(keys) == each(LAMBDA e : IF Key(e) \in keys THEN New(5) ELSE e)
  IN  CASE api = "for_each"   -> Left(each(Applied), Nothing, 0)
        [] api = "for_each_n" -> Left(some(Applied, r.n), Nothing, r.n)
        [] api = "copy"       -> Left(a, a, Len(a))
        [] api = "copy_n"     -> Left(a, Upto(a, r.n), r.n)
        [] api = "move"       -> Left(IF r.value = "trivial" THEN a ELSE each(Hollow), a, Len(a))
        [] api = "swap_ranges"     -> Left(Upto(r.b, Len(a)), a, Len(a))
        [] api = "transform"       -> Left(a, each(Applied), Len(a))
        [] api = "transform_2"     -> Left(a, [i \in DOMAIN a |-> Joined(a[i], r.b[i])], Len(a))
        [] api = "replace"         -> Left(changed({r.n}), Nothing, 0)
        [] api = "replace_if"      -> Left(changed(Sat), Nothing, 0)
        [] api = "replace_copy"    -> Left(a, changed({r.n}), Len(a))
        [] api = "replace_copy_if" -> Left(a, changed(Sat), Len(a))
        [] api \in {"fill", "generate"}     -> Left(each(LAMBDA e : New(5)), Nothing, 0)
        [] api \in {"fill_n", "generate_n"} -> Left(some(LAMBDA e : New(5), r.n), Nothing, Max({r.n, 0}))

StdKept(api, r) ==
  LET a == r.a
      kept(s) == Left(a, s, Len(s))     \* to a second range
      first(s) == Left(s, Nothing, Len(s))  \* to the beginning; what follows is not told
      without == SelectSeq(a, LAMBDA e : Key(e) # r.n)
  IN  CASE api = "copy_if"        -> kept(Those(r, a))
        [] api = "count_if"       -> Left(a, Nothing, Len(Those(r, a)))
        [] api = "count"          -> Left(a, Nothing, Cardinality({i \in DOMAIN a : Key(a[i]) = r.n}))
        [] api = "remove_copy_if" -> kept(Others(r, a))
        [] api = "remove_copy"    -> kept(without)
        [] api = "remove_if"      -> first(Others(r, a))
        [] api = "remove"         -> first(without)
        [] api = "unique"         -> first(Distinct(r, a))
        [] api = "unique_copy"    -> kept(Distinct(r, a))
        [] api = "partition_copy" -> Left(a, <<Those(r, a), Others(r, a)>>, Len(Those(r, a)))
        [] api = "reverse"        -> Left(Reverse(a), Nothing, 0)
        [] api = "reverse_copy"   -> kept(Reverse(a))
        [] api = "rotate"         -> Left(Rotated(a, r.n), Nothing, Len(a) - r.n)
        [] api = "rotate_copy"    -> kept(Rotated(a, r.n))
        [] api = "shift_left"     -> first(SubSeq(a, r.n + 1, Len(a)))
        [] api = "shift_right"    -> Left(Upto(a, Len(a) - r.n), Nothing, r.n)  \* the end; it begins at r.n
        [] api = "stable_partition" -> Left(Those(r, a) \o Others(r, a), Nothing, Len(Those(r, a)))

\* Places are counted from 0.
StdSeek(api, r) ==
  LET a == r.a
      b == r.b
      n == Len(a)
      m == Len(b)
      same(i, k) == i < n /\ k < m /\ Same(r.comp, a[i + 1], b[k + 1])
      less(i, j) == Precedes(r.comp, a[i + 1], a[j + 1])
      places == 0..(n - 1)
      found == {i \in places : \A k \in 0..(m - 1) : same(i + k, k)}
      runs == {i \in places : \A k \in 0..(r.n - 1) : i + k < n /\ Key(a[i + k + 1]) = 1}
      firstly(S) == Min(S \cup {n})
      unlike == Min({i \in 0..n : ~same(i, i)})
      children == {i \in places : i > 0 /\ less((i - 1) \div 2, i)}
      smallest == {i \in places : \A j \in places : ~less(j, i)}
      largest == {i \in places : \A j \in places : ~less(i, j)}
      answer == CASE api = "search"   -> IF m = 0 THEN 0 ELSE firstly(found)
                  [] api = "find_end" -> IF m = 0 \/ found = {} THEN n ELSE Max(found)
                  [] api = "search_n" -> IF r.n <= 0 THEN 0 ELSE firstly(runs)
                  [] api = "find_first_of" -> firstly({i \in places : \E k \in 0..(m - 1) : same(i, k)})
                  [] api = "adjacent_find" -> firstly({i \in places : i + 1 < n /\ Same(r.comp, a[i + 1], a[i + 2])})
                  [] api = "mismatch" -> unlike
                  [] api = "equal"    -> unlike = n /\ n = m
                  [] api = "lexicographical_compare" ->
                       \/ unlike = n /\ n < m
                       \/ unlike < n /\ unlike < m /\ Precedes(r.comp, a[unlike + 1], b[unlike + 1])
                  [] api = "is_heap_until"  -> firstly(children)
                  [] api = "is_heap"        -> children = {}
                  [] api = "minmax_element" -> IF n = 0 THEN <<0, 0>> ELSE <<Min(smallest), Max(largest)>>
                  [] api = "is_partitioned" ->
                       \A i, j \in DOMAIN a : i < j /\ Holds(r, a[j]) => Holds(r, a[i])
  IN  Left(a, Nothing, answer)

\* Where several results are right.
StdOrders(api, r) ==
  LET a == r.a
      m == Len(Those(r, a))
      in(S) == {Left(s, Nothing, 0) : s \in S}
  IN  CASE api = "partition"    -> {Left(s, Nothing, m) : s \in {s \in Orders(a) : \A i \in 1..m : Holds(r, s[i])}}
        [] api = "sort"         -> in(Sorted(r.comp, a))
        [] api = "stable_sort"  -> in({SortedStably(r.comp, a)})
        [] api = "partial_sort" -> in(FirstSorted(r.comp, a, r.n))
        [] api = "nth_element"  -> in({s \in Orders(a) : \A i, j \in DOMAIN s :
             (i <= r.n + 1 /\ j >= r.n + 1) => (r.n < Len(a) => ~Precedes(r.comp, s[j], s[i]))})
        [] api = "partial_sort_copy" ->
             {Left(a, s, Len(s)) : s \in {Upto(s, Min({r.n, Len(a)})) : s \in Sorted(r.comp, a)}}

StdTwo(api, r) ==
  LET a == r.a
      b == r.b
      merged(s, t) == SortedStably(r.comp, s \o t)
      put(s) == Left(a, s, Len(s))
  IN  CASE api = "merge"            -> put(merged(a, b))
        [] api = "inplace_merge"    -> Left(merged(Upto(a, r.n), SubSeq(a, r.n + 1, Len(a))), Nothing, 0)
        [] api = "includes"         -> Left(a, Nothing, Surplus(b, a) = << >>)
        [] api = "set_union"        -> put(merged(a, Surplus(b, a)))
        [] api = "set_intersection" -> put(Shared(a, b))
        [] api = "set_difference"   -> put(Surplus(a, b))
        [] api = "set_symmetric_difference" -> put(merged(Surplus(a, b), Surplus(b, a)))

\* The first k objects are worth what they are initialised from, in memory that was raw;
\* the rest of the memory stays as it was, and nothing is done to trivial objects.
StdMemory(api, r) ==
  LET a == r.a
      k == IF r.counted THEN r.n ELSE Len(a)
      end == IF r.counted THEN r.n ELSE 0
      some(e) == [i \in DOMAIN a |-> IF i <= k THEN e ELSE a[i]]
      trivial == r.value = "trivial"
  IN  CASE api = "uninitialized_copy" -> Left(a, Upto(a, k), k)
        [] api = "uninitialized_move" ->
             Left([i \in DOMAIN a |-> IF i <= k /\ ~trivial THEN Hollow(a[i]) ELSE a[i]], Upto(a, k), k)
        [] api = "uninitialized_fill" -> Left(some(New(5)), Nothing, end)
        [] api = "uninitialized_value_construct" -> Left(some(New(0)), Nothing, end)
        [] api = "uninitialized_default_construct" -> Left(IF trivial THEN a ELSE some(New(0)), Nothing, end)
        [] api = "destroy" -> Left(IF trivial THEN a ELSE some(Raw), Nothing, end)

\* A sum is the sequence of what is added, in order.
StdNumbers(api, r) ==
  LET a == r.a
      upto(i) == (IF r.n = 0 THEN << >> ELSE <<0>>) \o Names(Upto(a, i))
      put(s) == Left(a, s, Len(s))
  IN  CASE api = "reduce"           -> Left(a, Nothing, r.n + Sum(a))
        [] api = "transform_reduce" -> Left(a, Nothing, r.n + Sum([i \in DOMAIN a |-> Applied(a[i])]))
        [] api = "transform_reduce_2" ->
             Left(a, Nothing, r.n + FoldLeft(LAMBDA s, i : s + Key(a[i]) * Key(r.b[i]), 0, [i \in DOMAIN a |-> i]))
        [] api = "exclusive_scan"   -> put([i \in DOMAIN a |-> upto(i - 1)])
        [] api = "inclusive_scan"   -> put([i \in DOMAIN a |-> upto(i)])
        [] api = "adjacent_difference" ->
             put([i \in DOMAIN a |-> IF i = 1 THEN a[1] ELSE Joined(a[i], a[i - 1])])
-------------------------------------------------------------------------------
(* The calls of patterns. A pattern is passed the flags it takes for vectors and for *)
(* workers in an order of its own; copies and the like pass none for vectors: the      *)
(* pattern works that out for its brick.                                               *)
NotPred(keys) == AllKeys \ keys
EqualValue(key) == {key}

Pattern(name, p) ==
  [pattern |-> name, functor |-> "caller's", flags |-> <<"vector", "parallel">>, new |-> 5,
   a |-> p.a, b |-> p.b, n |-> p.n, comp |-> p.comp, value |-> p.value, keys |-> p.keys]

ParallelFirst(q) == [q EXCEPT !.flags = <<"parallel", "vector">>]
Satisfying(q, keys) == [q EXCEPT !.keys = keys]
With(q, functor) == [q EXCEPT !.functor = functor]
Brick(name, p, functor) == [With(Pattern(name, p), functor) EXCEPT !.flags = <<"parallel">>]

\* for_each and transform pass on that the policy allows workers, whatever the iterators.
Allowing(q) == [q EXCEPT !.flags = <<"vector", "allowed">>]

ForEach(p) == IF p.api = "for_each" THEN Allowing(Pattern("walk1", p)) ELSE Pattern("walk1_n", p)
Copies(p) ==
  CASE p.api = "copy"        -> Brick("walk2_brick", p, "copy")
    [] p.api = "copy_n"      -> Brick("walk2_brick_n", p, "copy")
    [] p.api = "copy_if"     -> Pattern("copy_if", p)
    [] p.api = "swap_ranges" -> With(Pattern("walk2", p), "swap")
Moves(p) == Brick("walk2_brick", p, "move")
Transforms(p) == Allowing(Pattern(IF p.api = "transform" THEN "walk2" ELSE "walk3", p))

\* In place, or to the second range.
Replaces(p) ==
  Satisfying(With(Pattern(IF p.api \in {"replace", "replace_if"} THEN "walk1" ELSE "walk2", p), "replace"),
             IF p.api \in {"replace", "replace_copy"} THEN EqualValue(p.n) ELSE p.keys)

\* fill_n and generate_n return at once if there is nothing to write.
Fills(p) ==
  IF p.api \in {"fill_n", "generate_n"} /\ p.n <= 0 THEN [Pattern("none", p) EXCEPT !.n = 0]
  ELSE ParallelFirst(With(Pattern(p.api, p), "assign"))

Removes(p) ==
  CASE p.api = "remove_copy_if" -> Satisfying(Pattern("copy_if", p), NotPred(p.keys))
    [] p.api = "remove_copy"    -> Satisfying(Pattern("copy_if", p), NotPred(EqualValue(p.n)))
    [] p.api = "remove_if"      -> Pattern("remove_if", p)
    [] p.api = "remove"         -> Satisfying(Pattern("remove_if", p), EqualValue(p.n))

Counts(p) == ParallelFirst(Satisfying(Pattern("count", p), IF p.api = "count" THEN EqualValue(p.n) ELSE p.keys))
Finds(p) == IF p.api = "adjacent_find" THEN ParallelFirst(Pattern(p.api, p)) ELSE Pattern(p.api, p)

\* The rest pass everything on.
Reorders(p) == Pattern(p.api, p)      \* unique, reverse, rotate and the partitions
Subsequences(p) == Pattern(p.api, p)  \* search and search_n
Pairs(p) == Pattern(p.api, p)         \* equal, mismatch
Heaps(p) == Pattern(p.api, p)
Shifts(p) == Pattern(p.api, p)
Sorts(p) == Pattern(p.api, p)
PartialSorts(p) == Pattern(p.api, p)
Merges(p) == Pattern(p.api, p)        \* and includes
SetOps(p) == Pattern(p.api, p)
Selections(p) == Pattern(p.api, p)    \* minmax_element, nth_element, lexicographical_compare

\* Elements of a trivial type are assigned, or left alone, rather than constructed.
IsTrivial(p) == p.value = "trivial"
Suffixed(name, p) == IF p.counted THEN name \o "_n" ELSE name
Walk1(p, functor, new) == [With(Pattern(Suffixed("walk1", p), p), functor) EXCEPT !.new = new]

UninitializedCopies(p) ==
  IF IsTrivial(p) THEN Brick(Suffixed("walk2_brick", p), p, "copy")
  ELSE With(Pattern(Suffixed("walk2", p), p), "construct copy")
UninitializedMoves(p) ==
  IF IsTrivial(p) THEN Brick(Suffixed("walk2_brick", p), p, "copy")
  ELSE With(Pattern(Suffixed("walk2", p), p), "construct move")
UninitializedFills(p) ==
  IF IsTrivial(p) THEN Brick(Suffixed("walk_brick", p), p, "assign") ELSE Walk1(p, "construct", 5)
Destroys(p) == IF IsTrivial(p) THEN Pattern(Suffixed("none", p), p) ELSE Walk1(p, "destroy", 0)
DefaultConstructs(p) ==
  IF IsTrivial(p) THEN Pattern(Suffixed("none", p), p) ELSE Walk1(p, "construct", 0)
ValueConstructs(p) ==
  IF IsTrivial(p) THEN [Brick(Suffixed("walk_brick", p), p, "assign") EXCEPT !.new = 0] ELSE Walk1(p, "construct", 0)

\* reduce is transform_reduce with a functor that does nothing, and so are the scans.
Reduces(p) == With(Pattern("transform_reduce", p), "none")
TransformReduces(p) == Pattern(p.api, p)
TransformExclusiveScans(p) == With(Pattern("exclusive_scan", p), "none")
ExclusiveScans(p) == TransformExclusiveScans(p)
TransformInclusiveScans(p) == With(Pattern(IF p.n = 0 THEN "scan_from_first" ELSE "inclusive_scan", p), "none")
InclusiveScans(p) == TransformInclusiveScans(p)
AdjacentDifferences(p) == Pattern(IF p.a = << >> THEN "none" ELSE "adjacent_difference", p)

PatternOf(p) ==
  CASE p.api \in {"for_each", "for_each_n"} -> ForEach(p)
    [] p.api \in {"copy", "copy_n", "copy_if", "swap_ranges"} -> Copies(p)
    [] p.api = "move" -> Moves(p)
    [] p.api \in {"transform", "transform_2"} -> Transforms(p)
    [] p.api \in {"replace", "replace_if", "replace_copy", "replace_copy_if"} -> Replaces(p)
    [] p.api \in {"fill", "fill_n", "generate", "generate_n"} -> Fills(p)
    [] p.api \in {"remove_copy_if", "remove_copy", "remove_if", "remove"} -> Removes(p)
    [] p.api \in {"count", "count_if"} -> Counts(p)
    [] p.api \in {"unique", "unique_copy", "reverse", "reverse_copy", "rotate", "rotate_copy",
                  "partition", "stable_partition", "partition_copy", "is_partitioned"} -> Reorders(p)
    [] p.api \in {"find_end", "find_first_of", "adjacent_find"} -> Finds(p)
    [] p.api \in {"search", "search_n"} -> Subsequences(p)
    [] p.api \in {"mismatch", "equal"} -> Pairs(p)
    [] p.api \in {"is_heap", "is_heap_until"} -> Heaps(p)
    [] p.api \in {"shift_left", "shift_right"} -> Shifts(p)
    [] p.api \in {"sort", "stable_sort"} -> Sorts(p)
    [] p.api \in {"partial_sort", "partial_sort_copy"} -> PartialSorts(p)
    [] p.api \in {"merge", "inplace_merge", "includes"} -> Merges(p)
    [] p.api \in {"set_union", "set_intersection", "set_difference", "set_symmetric_difference"} -> SetOps(p)
    [] p.api \in {"minmax_element", "nth_element", "lexicographical_compare"} -> Selections(p)
    [] p.api = "uninitialized_copy" -> UninitializedCopies(p)
    [] p.api = "uninitialized_move" -> UninitializedMoves(p)
    [] p.api = "uninitialized_fill" -> UninitializedFills(p)
    [] p.api = "destroy" -> Destroys(p)
    [] p.api = "uninitialized_default_construct" -> DefaultConstructs(p)
    [] p.api = "uninitialized_value_construct" -> ValueConstructs(p)
    [] p.api = "reduce" -> Reduces(p)
    [] p.api \in {"transform_reduce", "transform_reduce_2"} -> TransformReduces(p)
    [] p.api = "exclusive_scan" -> ExclusiveScans(p)
    [] p.api = "inclusive_scan" -> InclusiveScans(p)
    [] p.api = "adjacent_difference" -> AdjacentDifferences(p)
-------------------------------------------------------------------------------
(* Policies and overloads.                                                            *)
Policies == {"seq", "unseq", "par", "par_unseq"}
AllowVector(policy) == policy \in {"unseq", "par_unseq"}
AllowParallel(policy) == policy \in {"par", "par_unseq"}

\* __is_vectorization_preferred and __is_parallelization_preferred: random says whether the
\* iterators asked about are random access. equal asks about the first range only; its
\* pattern with workers adds to the second range's iterators too, which only those allow.
Preferred(flag, policy, random) ==
  CASE flag = "vector"   -> AllowVector(policy) /\ random
    [] flag = "parallel" -> AllowParallel(policy) /\ random
    [] flag = "allowed"  -> AllowParallel(policy)

\* Which of the two flags a pattern takes first; what it is passed is what it takes it for.
Takes(name) ==
  IF name \in {"count", "adjacent_find", "fill", "fill_n", "generate", "generate_n"}
    THEN [parallel |-> 1, vector |-> 2] ELSE [vector |-> 1, parallel |-> 2]
Chosen(q, kind, policy, random) ==
  IF Len(q.flags) = 1
    THEN Preferred(IF kind = "parallel" THEN q.flags[1] ELSE "vector", policy, random)
  ELSE Preferred(q.flags[Takes(q.pattern)[kind]], policy, random)

\* These have an overload with workers for iterators that are not random access.
Forward == {"walk1", "walk2", "walk3"}

\* Workers and vectors are used where the policy allows them and the iterators do, and
\* not elsewhere.
RespectsPolicy(q) ==
  \A policy \in Policies, random \in BOOLEAN :
    /\ Chosen(q, "vector", policy, random) <=> AllowVector(policy) /\ random
    /\ Chosen(q, "parallel", policy, random) => AllowParallel(policy) /\ (random \/ q.pattern \in Forward)
    /\ AllowParallel(policy) /\ random => Chosen(q, "parallel", policy, random)
-------------------------------------------------------------------------------
(* The overloads without workers. Most call the algorithm of std.                     *)

\* An element as a functor leaves it. Only trivial objects may be assigned to where none is.
Assigned(q, target, e) == IF target = Raw /\ ~IsTrivial(q) THEN Broken ELSE e
Constructed(target, e) == IF target = Raw THEN e ELSE Broken
Replaced(q, e) == IF Holds(q, e) THEN New(5) ELSE e
Did(q, e) ==
  CASE q.functor = "caller's"  -> Applied(e)
    [] q.functor = "replace"   -> Replaced(q, e)
    [] q.functor = "assign"    -> Assigned(q, e, New(q.new))
    [] q.functor = "construct" -> Constructed(e, New(q.new))
    [] q.functor = "destroy"   -> IF e = Raw THEN Broken ELSE Raw

\* __for_each_n_it_serial, or to the end of the range.
IsCounted(q) ==
  q.pattern \in {"walk1_n", "walk2_n", "walk_brick_n", "walk2_brick_n", "fill_n", "generate_n", "none_n"}
Steps(q) == IF IsCounted(q) THEN q.n ELSE Len(q.a)
SerialWalk(q) ==
  Left([i \in DOMAIN q.a |-> IF i <= Steps(q) THEN Did(q, q.a[i]) ELSE q.a[i]], Nothing, IF IsCounted(q) THEN q.n ELSE 0)

\* An element and what is at the place it goes to.
BothDid(q, e, target) ==
  CASE q.functor = "caller's"       -> <<e, Assigned(q, target, Applied(e))>>
    [] q.functor = "replace"        -> <<e, Assigned(q, target, Replaced(q, e))>>
    [] q.functor = "swap"           -> <<target, e>>
    [] q.functor = "copy"           -> <<e, Assigned(q, target, e)>>
    [] q.functor = "move"           -> <<IF IsTrivial(q) THEN e ELSE Hollow(e), Assigned(q, target, e)>>
    [] q.functor = "construct copy" -> <<e, Constructed(target, e)>>
    [] q.functor = "construct move" -> <<Hollow(e), Constructed(target, e)>>

SerialPairs(q) ==
  LET pair(i) == BothDid(q, q.a[i], q.b[i])
  IN  Left([i \in DOMAIN q.a |-> IF i <= Steps(q) THEN pair(i)[1] ELSE q.a[i]],
           [i \in 1..Steps(q) |-> pair(i)[2]], Steps(q))
SerialTriples(q) == Left(q.a, [i \in DOMAIN q.a |-> Joined(q.a[i], q.b[i])], Len(q.a))

SerialCopyIf(q) == StdKept("copy_if", q)
SerialCount(q) == Left(q.a, Nothing, Len(Those(q, q.a)))
\* With workers, the parts are counted and the counts added.
ParallelCount(q) ==
  {Left(q.a, Nothing, Len(Those(q, Upto(q.a, i))) + Len(Those(q, SubSeq(q.a, i + 1, Len(q.a))))) : i \in 0..Len(q.a)}
SerialUnique(q) == StdKept("unique", q)
SerialUniqueCopy(q) == StdKept("unique_copy", q)
SerialReverse(q) == StdKept(q.pattern, q)
SerialRotate(q) == StdKept(q.pattern, q)
SerialPartitionCopy(q) == StdKept("partition_copy", q)
SerialStablePartition(q) == StdKept("stable_partition", q)
SerialRemoveIf(q) == StdKept("remove_if", q)

\* __find_subrange and the bricks that call std.
SerialSeek(q) == StdSeek(q.pattern, q)

\* Where std has no shift_left.
SerialShiftLeft(q) ==
  IF q.n <= 0 THEN Left(q.a, Nothing, Len(q.a))
  ELSE IF q.n >= Len(q.a) THEN Left(Nothing, Nothing, 0)
  ELSE Left([i \in 1..(Len(q.a) - q.n) |-> q.a[i + q.n]], Nothing, Len(q.a) - q.n)

\* shift_left from the other end.
SerialShiftRight(q) ==
  LET back == SerialShiftLeft([q EXCEPT !.a = Reverse(q.a)]) IN Left(Reverse(back.a), Nothing, Len(q.a) - back.ret)

SerialSort(q) == StdOrders(q.pattern, q)
SerialPartialSortCopy(q) == StdOrders("partial_sort_copy", q)
SerialNthElement(q) == StdOrders("nth_element", q)
SerialInplaceMerge(q) == StdTwo("inplace_merge", q)
SerialIncludes(q) == StdTwo("includes", q)
SerialUnion(q) == StdTwo("set_union", q)
SerialIntersection(q) == StdTwo("set_intersection", q)
SerialDifference(q) == StdTwo("set_difference", q)
SerialSymmetricDifference(q) == StdTwo("set_symmetric_difference", q)

\* partial_sort_copy with workers: through a buffer of raw memory unless all of it fits.
\* Sorting is Sorted's; the buffer is raw again in the end.
ParallelPartialSortCopy(q) ==
  IF q.a = << >> \/ q.n = 0 THEN {Left(q.a, Nothing, 0)}
  ELSE IF q.n >= Len(q.a) THEN {Left(q.a, s, Len(s)) : s \in Sorted(q.comp, q.a)}
  ELSE LET constructed == [i \in DOMAIN q.a |-> Constructed(Raw, q.a[i])]
       IN  {Left(q.a, [i \in 1..q.n |-> s[i]], q.n) : s \in FirstSorted(q.comp, constructed, q.n)}

\* The sum so far, then the next element.
SerialTransformReduce(q) ==
  Left(q.a, Nothing, FoldLeft(LAMBDA init, e : init + Key(IF q.functor = "none" THEN e ELSE Applied(e)), q.n, q.a))
SerialInnerProduct(q) ==
  Left(q.a, Nothing, FoldLeft(LAMBDA init, i : init + Key(q.a[i]) * Key(q.b[i]), q.n, [i \in DOMAIN q.a |-> i]))

\* The output may be the input: an exclusive scan reads an element before it writes
\* the sum that goes in its place.
Cells(q) == [i \in DOMAIN q.a |-> <<q.a[i][2]>>]
SerialExclusiveScan(q) ==
  LET inPlace == q.value = "in place"
      step(s, i) ==
        LET temp == s.in[i]
        IN  [in |-> IF inPlace THEN [s.in EXCEPT ![i] = s.init] ELSE s.in,
             out |-> Append(s.out, s.init), init |-> s.init \o temp]
  IN  Left(q.a, FoldLeft(step, [in |-> Cells(q), out |-> << >>, init |-> <<0>>], [i \in DOMAIN q.a |-> i]).out, Len(q.a))
SerialInclusiveScan(q, init, from) ==
  LET inPlace == q.value = "in place"
      step(s, i) ==
        LET sum == s.init \o s.in[i]
        IN  [in |-> IF inPlace THEN [s.in EXCEPT ![i] = sum] ELSE s.in, out |-> Append(s.out, sum), init |-> sum]
      indices == [i \in DOMAIN q.a |-> i]
  IN  FoldLeft(step, [in |-> Cells(q), out |-> << >>, init |-> init], SubSeq(indices, from, Len(q.a))).out

\* Without an initial value the first element is one, and is put out first.
ScanFromFirst(q) ==
  IF q.a = << >> THEN << >>
  ELSE LET tmp == Cells(q)[1] IN <<tmp>> \o SerialInclusiveScan(q, tmp, 2)

SerialAdjacentDifference(q) == StdNumbers("adjacent_difference", q)

Sought == {"find_end", "find_first_of", "adjacent_find", "search", "search_n", "mismatch", "equal",
           "lexicographical_compare", "is_heap", "is_heap_until", "minmax_element", "is_partitioned"}
Serial(q) ==
  CASE q.pattern \in {"none", "none_n"} -> {Left(q.a, Nothing, IF IsCounted(q) THEN q.n ELSE 0)}
    [] q.pattern \in {"walk1", "walk1_n", "walk_brick", "walk_brick_n", "fill", "fill_n", "generate", "generate_n"} ->
         {SerialWalk(q)}
    [] q.pattern \in {"walk2", "walk2_n", "walk2_brick", "walk2_brick_n"} -> {SerialPairs(q)}
    [] q.pattern = "walk3"       -> {SerialTriples(q)}
    [] q.pattern = "copy_if"     -> {SerialCopyIf(q)}
    [] q.pattern = "count"       -> {SerialCount(q)} \cup ParallelCount(q)
    [] q.pattern = "unique"      -> {SerialUnique(q)}
    [] q.pattern = "unique_copy" -> {SerialUniqueCopy(q)}
    [] q.pattern \in {"reverse", "reverse_copy"} -> {SerialReverse(q)}
    [] q.pattern \in {"rotate", "rotate_copy"}   -> {SerialRotate(q)}
    [] q.pattern = "partition_copy"   -> {SerialPartitionCopy(q)}
    [] q.pattern = "stable_partition" -> {SerialStablePartition(q)}
    [] q.pattern = "partition"        -> StdOrders("partition", q)
    [] q.pattern = "remove_if"        -> {SerialRemoveIf(q)}
    [] q.pattern = "shift_left"       -> {SerialShiftLeft(q)}
    [] q.pattern = "shift_right"      -> {SerialShiftRight(q)}
    [] q.pattern \in Sought           -> {SerialSeek(q)}
    [] q.pattern \in {"sort", "stable_sort", "partial_sort"} -> SerialSort(q)
    [] q.pattern = "partial_sort_copy" -> SerialPartialSortCopy(q) \cup ParallelPartialSortCopy(q)
    [] q.pattern = "nth_element"      -> SerialNthElement(q)
    [] q.pattern = "inplace_merge"    -> {SerialInplaceMerge(q)}
    [] q.pattern = "merge"            -> {StdTwo("merge", q)}
    [] q.pattern = "includes"         -> {SerialIncludes(q)}
    [] q.pattern = "set_union"        -> {SerialUnion(q)}
    [] q.pattern = "set_intersection" -> {SerialIntersection(q)}
    [] q.pattern = "set_difference"   -> {SerialDifference(q)}
    [] q.pattern = "set_symmetric_difference" -> {SerialSymmetricDifference(q)}
    [] q.pattern = "transform_reduce"   -> {SerialTransformReduce(q)}
    [] q.pattern = "transform_reduce_2" -> {SerialInnerProduct(q)}
    [] q.pattern = "exclusive_scan"   -> {SerialExclusiveScan(q)}
    [] q.pattern = "inclusive_scan"   -> {Left(q.a, SerialInclusiveScan(q, <<0>>, 1), Len(q.a))}
    [] q.pattern = "scan_from_first"  -> {Left(q.a, ScanFromFirst(q), Len(q.a))}
    [] q.pattern = "adjacent_difference" -> {SerialAdjacentDifference(q)}
-------------------------------------------------------------------------------
(* What may be asked.                                                                 *)
Walks == {"for_each", "transform", "move", "replace_if", "replace_copy_if", "fill", "generate", "copy", "copy_n",
          "for_each_n", "fill_n", "generate_n", "replace", "replace_copy", "swap_ranges", "transform_2"}
Kept == {"copy_if", "remove_if", "remove_copy_if", "count_if", "partition_copy", "stable_partition", "remove",
         "remove_copy", "count", "unique", "unique_copy", "reverse", "reverse_copy", "rotate", "rotate_copy", "shift_left", "shift_right"}
Reordered == {"partition", "sort", "stable_sort", "partial_sort", "partial_sort_copy", "nth_element"}
TwoSorted == {"merge", "includes", "set_union", "set_intersection", "set_difference", "set_symmetric_difference"}
InMemory == {"uninitialized_copy", "uninitialized_move", "uninitialized_fill", "destroy",
             "uninitialized_default_construct", "uninitialized_value_construct"}
Numbers == {"reduce", "transform_reduce", "transform_reduce_2", "exclusive_scan", "inclusive_scan", "adjacent_difference"}

Std(p) ==
  CASE p.api \in Walks     -> {StdWalk(p.api, p)}
    [] p.api \in Sought    -> {StdSeek(p.api, p)}
    [] p.api \in Kept      -> {StdKept(p.api, p)}
    [] p.api \in Reordered -> StdOrders(p.api, p)
    [] p.api \in TwoSorted \cup {"inplace_merge"} -> {StdTwo(p.api, p)}
    [] p.api \in InMemory  -> {StdMemory(p.api, p)}
    [] p.api \in Numbers   -> {StdNumbers(p.api, p)}

Given == SeqOf({1, 2, 3}, MaxPublic)
InOrder(comp) == {s \in Given : \A i, j \in DOMAIN s : i < j => ~Precedes(comp, <<s[j]>>, <<s[i]>>)}
All(s, key) == [i \in DOMAIN s |-> key]

Numbered == {"replace", "replace_copy", "remove", "remove_copy", "count"}
Placed == {"copy_n", "for_each_n", "fill_n", "generate_n", "rotate", "rotate_copy", "shift_left", "shift_right",
           "search_n", "partial_sort", "partial_sort_copy", "nth_element"}
Ns(api, a) ==
  CASE api \in Numbered -> {1, 2}
    [] api \in {"fill_n", "generate_n"} -> (-1)..Len(a)
    [] api \in Placed -> 0..Len(a)
    [] api \in {"reduce", "transform_reduce", "transform_reduce_2", "inclusive_scan"} -> {0, 1}
    [] api = "exclusive_scan" -> {1}
    [] OTHER -> {0}
Comps(api) ==
  CASE api \in {"unique", "unique_copy"} -> {"none", "parity"}
    [] api \in {"find_end", "find_first_of", "adjacent_find", "search", "mismatch", "equal"} -> {"none", "parity"}
    [] api \in {"lexicographical_compare", "is_heap", "is_heap_until", "minmax_element"} -> {"none", "greater"}
    [] api \in Reordered \ {"partition"} -> {"none", "greater"}
    [] OTHER -> {"none"}
Seconds(api, a) ==
  CASE api \in {"swap_ranges", "transform_2", "transform_reduce_2"} -> [DOMAIN a -> {1, 2}]
    [] api \in {"find_end", "find_first_of", "search", "mismatch", "equal", "lexicographical_compare"} ->
         SeqOf({1, 2}, 2)
    [] OTHER -> {All(a, 1)}

AskOne ==
  \E api \in Walks \cup Kept \cup Sought \cup Reordered \cup Numbers, a \in Given :
    \E b \in Seconds(api, a), n \in Ns(api, a), comp \in Comps(api),
       value \in (IF api \in Numbers THEN {"in place", "apart"} ELSE {"class"}) :
      asked = Ask(api, a, b, n, comp, value, FALSE)
AskTwo ==
  \E comp \in {"none", "greater"} :
    \/ \E api \in TwoSorted, a, b \in InOrder(comp) : asked = Ask(api, a, b, 0, comp, "class", FALSE)
    \/ \E a, b \in InOrder(comp) : asked = Ask("inplace_merge", a \o b, << >>, Len(a), comp, "class", FALSE)
AskMemory ==
  \E api \in InMemory, a \in Given, value \in {"class", "trivial"}, counted \in BOOLEAN :
    \E n \in (IF counted THEN 0..Len(a) ELSE {0}) :
      asked = Ask(api, IF api \in {"uninitialized_copy", "uninitialized_move", "destroy"} THEN a ELSE All(a, 0),
                  All(a, 0), n, "none", value, counted)

NotAsked == Ask("for_each", << >>, << >>, 0, "none", "class", FALSE)
===============================================================================
