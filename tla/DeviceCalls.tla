------------------------------ MODULE DeviceCalls ------------------------------
(* The calls of PublicCalls under a device policy, and their forms on ranges. A       *)
(* pattern of the device layer checks for short ranges, submits kernels and makes an  *)
(* answer of what they return. Here a kernel is what SyclFindOr, DeviceScan, DeviceSort *)
(* and DeviceMemory show of its work-items: a search returns the first, the last or   *)
(* whether any place matches; a reduction combines neighbours, never out of order; a  *)
(* loop handles every place by itself.                                                *)
EXTENDS PublicCalls

FirstPlace(S, n) == Min(S \cup {n})
LastPlace(S, n) == IF S = {} THEN n ELSE Max(S)

\* Every value that combining neighbours of s may end with.
Reduced(s, op(_, _)) ==
  LET R[i \in DOMAIN s, j \in DOMAIN s] ==
        IF i = j THEN {s[i]}
        ELSE UNION {{op(x, y) : x \in R[i, k], y \in R[k + 1, j]} : k \in i..(j - 1)}
  IN  R[1, Len(s)]

Found(q, place) == Left(q.a, Nothing, place)
N(q) == Len(q.a)
M(q) == Len(q.b)
Places(q) == 0..(N(q) - 1)
-------------------------------------------------------------------------------
(* What the work-items look for (single_match_pred, multiple_match_pred and so on).   *)
SingleMatch(q) == {i \in Places(q) : Holds(q, q.a[i + 1])}

\* equal_predicate looks for two elements that differ.
Differ(q, n) == {i \in 0..(n - 1) : ~Same(q.comp, q.a[i + 1], q.b[i + 1])}

\* With __reorder_pred, neighbours that are out of order.
Related(q, e, f) == IF q.functor = "reordered" THEN Precedes(q.comp, f, e) ELSE Same(q.comp, e, f)
NeighboursMatch(q) == {i \in 0..(N(q) - 2) : Related(q, q.a[i + 1], q.a[i + 2])}

MultipleMatch(q) ==
  {i \in Places(q) : i <= N(q) - M(q) /\ \A k \in 1..M(q) : Same(q.comp, q.a[i + k], q.b[k])}

NElemMatch(q) == {i \in Places(q) : i + q.n <= N(q) /\ \A k \in 1..q.n : Key(q.a[i + k]) = 1}

FirstMatch(q) == {i \in Places(q) : \E k \in 1..M(q) : Same(q.comp, q.a[i + 1], q.b[k])}

\* The root's parent is the root: (0 - 1) / 2 is 0 in C++.
Parent(i) == IF i = 0 THEN 0 ELSE (i - 1) \div 2
HeapCheck(q) == {i \in Places(q) : Precedes(q.comp, q.a[Parent(i) + 1], q.a[i + 1])}

\* __brick_includes: an element of the second range that the first has not, or not so often.
NotIncluded(q) ==
  LET a == q.a
      b == q.b
      less(e, f) == Precedes(q.comp, e, f)
      bound(i) == {j \in DOMAIN a : ~less(a[j], b[i])}        \* from lower_bound on
      like(s, e) == Cardinality({j \in DOMAIN s : ~less(s[j], e) /\ ~less(e, s[j])})
  IN  {i \in DOMAIN b :
        \/ i = 1 /\ less(b[1], a[1])
        \/ i = Len(b) /\ less(a[Len(a)], b[Len(b)])
        \/ bound(i) = {}
        \/ bound(i) # {} /\ less(b[i], a[Min(bound(i))])
        \/ bound(i) # {} /\ like(b, b[i]) > like(a, a[Min(bound(i))])}
-------------------------------------------------------------------------------
(* The searches.                                                                      *)
DeviceAnyOf(q) == N(q) # 0 /\ SingleMatch(q) # {}
DeviceFindIf(q) == IF N(q) = 0 THEN N(q) ELSE FirstPlace(SingleMatch(q), N(q))

\* Two empty ranges are not equal to it.
DeviceEqual(q) == ~(N(q) = 0 \/ M(q) = 0 \/ N(q) # M(q)) /\ Differ(q, N(q)) = {}

DeviceMismatch(q) == LET n == Min({N(q), M(q)}) IN IF n <= 0 THEN 0 ELSE FirstPlace(Differ(q, n), n)

\* is_sorted asks only whether there is a match, and is told by the first or the last place.
DeviceAdjacentOr(q) == IF N(q) >= 2 /\ NeighboursMatch(q) # {} THEN 0 ELSE N(q)
DeviceAdjacentFind(q) ==
  LET result == FirstPlace(NeighboursMatch(q), N(q) - 1)
  IN  IF N(q) < 2 \/ result = N(q) - 1 THEN N(q) ELSE result

DeviceFindEnd(q) ==
  IF N(q) = 0 \/ M(q) = 0 \/ N(q) < M(q) THEN N(q)
  ELSE IF N(q) = M(q) THEN (IF DeviceEqual(q) THEN 0 ELSE N(q))
  ELSE LastPlace(MultipleMatch(q), N(q))

DeviceSearch(q) ==
  IF M(q) = 0 THEN 0
  ELSE IF N(q) < M(q) THEN N(q)
  ELSE IF N(q) = M(q) THEN (IF DeviceEqual(q) THEN 0 ELSE N(q))
  ELSE FirstPlace(MultipleMatch(q), N(q))

DeviceSearchN(q) ==
  IF q.n <= 0 THEN 0
  ELSE IF N(q) < q.n THEN N(q)
  ELSE IF N(q) = q.n THEN (IF \E i \in DOMAIN q.a : Key(q.a[i]) # 1 THEN N(q) ELSE 0)
  ELSE FirstPlace(NElemMatch(q), N(q))

DeviceFindFirstOf(q) == IF N(q) = 0 \/ M(q) = 0 THEN N(q) ELSE FirstPlace(FirstMatch(q), N(q))

DeviceIsHeapUntil(q) == IF N(q) < 2 THEN N(q) ELSE FirstPlace(HeapCheck(q), N(q))
DeviceIsHeap(q) == N(q) < 2 \/ HeapCheck(q) = {}

DeviceIncludes(q) == M(q) = 0 \/ (~(N(q) = 0 \/ M(q) > N(q)) /\ NotIncluded(q) = {})
-------------------------------------------------------------------------------
(* The reductions: sets of the answers that some bracketing gives.                    *)
PlacesInOrder(q) == [i \in DOMAIN q.a |-> i - 1]
Comes(q, i, j) == Precedes(q.comp, q.a[i + 1], q.a[j + 1])

DeviceMinElement(q) ==
  IF q.a = << >> THEN {0} ELSE Reduced(PlacesInOrder(q), LAMBDA i, j : IF Comes(q, j, i) THEN j ELSE i)

\* __identity_reduce_fn of __acc_handler_minmaxelement's pairs.
MinMax(q, s, t) ==
  LET after(i, j) == ~Comes(q, i, j) /\ j < i
  IN  <<IF Comes(q, t[1], s[1]) \/ after(s[1], t[1]) THEN t[1] ELSE s[1],
        IF Comes(q, t[2], s[2]) \/ after(s[2], t[2]) THEN s[2] ELSE t[2]>>
DeviceMinMaxElement(q) ==
  IF q.a = << >> THEN {<<0, 0>>}
  ELSE Reduced([i \in DOMAIN q.a |-> <<i - 1, i - 1>>], LAMBDA s, t : MinMax(q, s, t))

DeviceCount(q) ==
  IF q.a = << >> THEN {0}
  ELSE Reduced([i \in DOMAIN q.a |-> IF Holds(q, q.a[i]) THEN 1 ELSE 0], LAMBDA x, y : x + y)

\* Two parts, each of which is all true, all false, or partitioned.
PartitionTable(x, y) ==
  CASE x = "all_true"   /\ y \in {"all_true", "all_false", "true_false"} -> IF y = "all_true" THEN y ELSE "true_false"
    [] x = "all_false"  /\ y = "all_false" -> "all_false"
    [] x = "true_false" /\ y = "all_false" -> "true_false"
    [] OTHER -> "broken"
DeviceIsPartitioned(q) ==
  IF N(q) < 2 THEN {TRUE}
  ELSE {PartitionTable("all_true", res) # "broken" :
          res \in Reduced([i \in DOMAIN q.a |-> IF Holds(q, q.a[i]) THEN "all_true" ELSE "all_false"],
                          LAMBDA x, y : PartitionTable(x, y))}

\* The first pair that differs decides, or the lengths.
DeviceLexicographicalCompare(q) ==
  LET less(e, f) == IF Precedes(q.comp, e, f) THEN 1 ELSE 0
      sign(i) == less(q.a[i], q.b[i]) - less(q.b[i], q.a[i])
      signs == Reduced([i \in 1..Min({N(q), M(q)}) |-> sign(i)], LAMBDA x, y : IF x # 0 THEN x ELSE y)
  IN  IF M(q) = 0 THEN {FALSE}
      ELSE IF N(q) = 0 THEN {TRUE}
      ELSE {IF s # 0 THEN s = 1 ELSE N(q) < M(q) : s \in signs}

\* The initial value is added to what the reduction returns.
Sums(q, values) == IF q.a = << >> THEN {q.n} ELSE {q.n + s : s \in Reduced(values, LAMBDA x, y : x + y)}
DeviceTransformReduce(q) == Sums(q, [i \in DOMAIN q.a |-> Key(IF q.functor = "none" THEN q.a[i] ELSE Applied(q.a[i]))])
DeviceInnerProduct(q) == Sums(q, [i \in DOMAIN q.a |-> Key(q.a[i]) * Key(q.b[i])])
-------------------------------------------------------------------------------
(* Loops, and the patterns that are several kernels, one after the other.             *)
Unchanged(q) == Left(q.a, Nothing, 0)
DeviceWalk1(q) == IF Steps(q) <= 0 THEN Unchanged(q) ELSE SerialWalk(q)
DeviceWalk1N(q) == DeviceWalk1(q)
DeviceWalkBrick(q) == DeviceWalk1(q)
DeviceFill(q) == DeviceWalk1(q)
DeviceGenerate(q) == DeviceWalk1(q)

DeviceWalk2(q) == IF Steps(q) <= 0 THEN Unchanged(q) ELSE SerialPairs(q)
DeviceWalk2N(q) == DeviceWalk2(q)
DeviceWalk2Brick(q) == DeviceWalk2(q)
DeviceSwap(q) == DeviceWalk2(q)
DeviceWalk3(q) == IF N(q) <= 0 THEN Unchanged(q) ELSE SerialTriples(q)

\* A masked copy: a scan of the mask, whose last sum is the number of those kept.
MaskedCopy(q, mask) ==
  LET at == SelectSeq([i \in DOMAIN q.a |-> i], LAMBDA i : mask[i])
  IN  Left(q.a, [k \in DOMAIN at |-> q.a[at[k]]], Len(at))
DeviceCopyIf(q) == MaskedCopy(q, [i \in DOMAIN q.a |-> Holds(q, q.a[i])])
DeviceUniqueCopy(q) == MaskedCopy(q, [i \in DOMAIN q.a |-> i = 1 \/ ~Same(q.comp, q.a[i], q.a[i - 1])])
DevicePartitionCopy(q) ==
  LET kept == DeviceCopyIf(q)
      rest == DeviceCopyIf(Satisfying(q, NotPred(q.keys)))
  IN  Left(q.a, <<kept.out, rest.out>>, kept.ret)

\* A buffer is copied back to the beginning of the range.
CopyBack(q, buf, n) == Left(SubSeq(buf, 1, n), Nothing, n)
DeviceRemoveIf(q) ==
  LET kept == DeviceCopyIf(Satisfying(q, NotPred(q.keys))) IN CopyBack(q, kept.out, kept.ret)
DeviceUnique(q) ==
  LET kept == DeviceUniqueCopy(q) IN IF N(q) < 2 THEN Left(q.a, Nothing, N(q)) ELSE CopyBack(q, kept.out, kept.ret)
DeviceStablePartition(q) ==
  LET parts == DevicePartitionCopy(q)
  IN  IF N(q) < 2 THEN Left(q.a, Nothing, IF DeviceAnyOf(q) THEN 1 ELSE 0)
      ELSE Left(parts.out[1] \o parts.out[2], Nothing, parts.ret)
DevicePartition(q) == DeviceStablePartition(q)

\* Of equals, the first range's come first; one empty range is a copy.
DeviceMerge(q) ==
  IF N(q) + M(q) = 0 THEN Left(q.a, Nothing, 0)
  ELSE Left(q.a, IF N(q) = 0 THEN q.b ELSE IF M(q) = 0 THEN q.a ELSE SortedStably(q.comp, q.a \o q.b), N(q) + M(q))
DeviceInplaceMerge(q) ==
  LET merged == DeviceMerge([q EXCEPT !.a = Upto(q.a, q.n), !.b = SubSeq(q.a, q.n + 1, N(q))])
  IN  IF q.n = 0 \/ q.n = N(q) THEN Unchanged(q) ELSE Left(merged.out, Nothing, 0)

DeviceSort(q) == IF N(q) < 2 THEN {Unchanged(q)} ELSE {Left(SortedStably(q.comp, q.a), Nothing, 0)}
DeviceStableSort(q) == DeviceSort(q)
DevicePartialSort(q) ==
  IF N(q) < 2 THEN {Unchanged(q)} ELSE {Left(s, Nothing, 0) : s \in FirstSorted(q.comp, q.a, q.n)}
DeviceNthElement(q) == IF q.n = N(q) THEN {Unchanged(q)} ELSE DevicePartialSort([q EXCEPT !.n = @ + 1])
DevicePartialSortCopy(q) ==
  LET n == Min({q.n, N(q)})
  IN  IF n = 0 THEN {Left(q.a, Nothing, 0)}
      ELSE {Left(q.a, Upto(s.a, n), n) : s \in IF N(q) <= q.n THEN DeviceSort(q) ELSE DevicePartialSort(q)}

\* The sum up to an element, by any bracketing; scans in place are DevicePatterns's.
DeviceScan(q, exclusive, init) ==
  [i \in DOMAIN q.a |-> init \o Names(Upto(q.a, IF exclusive THEN i - 1 ELSE i))]
DeviceAdjacentDifference(q) ==
  Left(q.a, [i \in DOMAIN q.a |-> IF i = 1 THEN q.a[i] ELSE Joined(q.a[i], q.a[i - 1])], N(q))
-------------------------------------------------------------------------------
(* More calls, which without a device are the first part's.                           *)
More == {"any_of", "all_of", "none_of", "find_if", "find_if_not", "find", "is_sorted", "is_sorted_until",
         "min_element", "max_element"}

StdMore(api, r) ==
  LET n == N(r)
      holds == {i \in Places(r) : Holds(r, r.a[i + 1])}
      ordered == {m \in 0..n : \A i, j \in 0..(m - 1) : i < j => ~Comes(r, j, i)}
      best == {i \in Places(r) : \A j \in Places(r) : ~(IF api = "min_element" THEN Comes(r, j, i) ELSE Comes(r, i, j))}
      answer == CASE api = "any_of"      -> holds # {}
                  [] api = "all_of"      -> holds = Places(r)
                  [] api = "none_of"     -> holds = {}
                  [] api = "find_if"     -> FirstPlace(holds, n)
                  [] api = "find_if_not" -> FirstPlace(Places(r) \ holds, n)
                  [] api = "find"        -> FirstPlace({i \in Places(r) : Key(r.a[i + 1]) = r.n}, n)
                  [] api = "is_sorted"   -> n \in ordered
                  [] api = "is_sorted_until" -> Max(ordered)
                  [] OTHER               -> FirstPlace(best, n)
  IN  Left(r.a, Nothing, answer)

\* What the algorithm makes of the pattern's answer.
Answer(p, it) ==
  CASE p.api \in {"all_of", "none_of"} -> ~it
    [] p.api = "is_sorted"             -> it = N(p)
    [] p.api = "is_sorted_until"       -> IF it = N(p) THEN it ELSE it + 1
    [] OTHER                           -> it
Answered(p, results) == {[r EXCEPT !.ret = Answer(p, @)] : r \in results}
Answers(q, S) == {Left(q.a, Nothing, s) : s \in S}
One(q, answer) == Answers(q, {answer})
-------------------------------------------------------------------------------
(* The algorithms on ranges, which only device policies take: the patterns they call. *)
RangeTests(p) == Satisfying(Pattern("any_of", p), IF p.api = "all_of" THEN NotPred(p.keys) ELSE p.keys)
RangeForEach(p) == Pattern("walk1", p)
RangeFinds(p) ==
  CASE p.api = "find_if_not" -> Satisfying(Pattern("find_if", p), NotPred(p.keys))
    [] p.api = "find"        -> Satisfying(Pattern("find_if", p), EqualValue(p.n))
    [] OTHER                 -> Pattern(p.api, p)   \* and find_end, find_first_of, adjacent_find
RangeCounts(p) == Satisfying(Pattern("count", p), IF p.api = "count" THEN EqualValue(p.n) ELSE p.keys)
RangeSearches(p) == Pattern(p.api, p)
RangeCopies(p) == IF p.api = "copy" THEN With(Pattern("walk2", p), "copy") ELSE Pattern("copy_if", p)
RangeSwaps(p) == With(Pattern("swap", p), "swap")
RangeTransforms(p) == Pattern(IF p.api = "transform" THEN "walk2" ELSE "walk3", p)
RangeRemoves(p) ==
  CASE p.api = "remove_if"      -> Pattern("remove_if", p)
    [] p.api = "remove"         -> Satisfying(Pattern("remove_if", p), EqualValue(p.n))
    [] p.api = "remove_copy_if" -> Satisfying(Pattern("copy_if", p), NotPred(p.keys))
    [] p.api = "remove_copy"    -> Satisfying(Pattern("copy_if", p), NotPred(EqualValue(p.n)))
RangeUniques(p) == Pattern(p.api, p)
RangeReplaces(p) ==
  Satisfying(With(Pattern(IF p.api \in {"replace", "replace_if"} THEN "walk1" ELSE "walk2", p), "replace"),
             IF p.api \in {"replace", "replace_copy"} THEN EqualValue(p.n) ELSE p.keys)
RangeSorts(p) == Pattern("sort", p)    \* stable_sort, too
RangeSorted(p) == With(Pattern(IF p.api = "is_sorted" THEN "adjacent_or" ELSE "adjacent_find", p), "reordered")
RangePairs(p) == Pattern(p.api, p)     \* equal
RangeMoves(p) == With(Pattern("walk2", p), "copy")   \* what is only read cannot be moved from
RangeMerges(p) == Pattern(p.api, p)
Flipped(comp) == IF comp = "greater" THEN "none" ELSE "greater"
RangeMinMax(p) ==
  IF p.api = "max_element" THEN [Pattern("min_element", p) EXCEPT !.comp = Flipped(@)] ELSE Pattern(p.api, p)
RangeReduces(p) ==
  IF p.api = "reduce" THEN With(Pattern("transform_reduce", p), "none") ELSE Pattern(p.api, p)
RangeScans(p) == Pattern(IF p.api = "inclusive_scan" /\ p.n = 0 THEN "scan_from_first" ELSE p.api, p)
-------------------------------------------------------------------------------
(* Their patterns.                                                                    *)
RangeWalk(q) ==
  IF N(q) <= 0 THEN Unchanged(q)
  ELSE CASE q.pattern = "walk1" -> SerialWalk(q)
         [] q.pattern = "walk2" -> SerialPairs(q)
         [] q.pattern = "walk3" -> SerialTriples(q)

\* As many as the shorter has.
RangeSwap(q) ==
  LET n == Min({N(q), M(q)})
  IN  RangeWalk([q EXCEPT !.pattern = "walk2", !.a = Upto(@, n), !.b = Upto(@, n)])

RangeEqual(q) == DeviceEqual(q)
RangeFindIf(q) == DeviceFindIf(q)
RangeFindEnd(q) == DeviceFindEnd(q)
RangeFindFirstOf(q) == DeviceFindFirstOf(q)
RangeAnyOf(q) == DeviceAnyOf(q)
RangeSearch(q) == DeviceSearch(q)

\* A search for a view of as many equal elements.
RangeSearchN(q) == RangeSearch([q EXCEPT !.b = [k \in 1..q.n |-> New(1)]])

\* return_value, of a range of the neighbours: it is one shorter.
ReturnValue(q, res) == IF res = N(q) - 1 THEN N(q) ELSE res
RangeAdjacentFind(q) ==
  IF N(q) < 2 THEN N(q)
  ELSE IF q.pattern = "adjacent_or" THEN (IF NeighboursMatch(q) # {} THEN 0 ELSE N(q))
  ELSE ReturnValue(q, FirstPlace(NeighboursMatch(q), N(q) - 1))
RangeCount(q) == DeviceCount(q)

RangeScanCopy(q, mask) == IF N(q) = 0 THEN Unchanged(q) ELSE MaskedCopy(q, mask)
RangeCopyIf(q) == RangeScanCopy(q, [i \in DOMAIN q.a |-> Holds(q, q.a[i])])
RangeUniqueCopy(q) == RangeScanCopy(q, [i \in DOMAIN q.a |-> i = 1 \/ ~Same(q.comp, q.a[i], q.a[i - 1])])
RangeRemoveIf(q) ==
  LET kept == RangeCopyIf(Satisfying(q, NotPred(q.keys)))
  IN  IF N(q) = 0 THEN Unchanged(q) ELSE CopyBack(q, kept.out, kept.ret)

\* All of the buffer is copied back; what is past the end is not told.
RangeUnique(q) ==
  LET kept == RangeUniqueCopy(q) IN IF N(q) = 0 THEN Unchanged(q) ELSE CopyBack(q, kept.out, kept.ret)
RangeMerge(q) == DeviceMerge(q)
RangeSort(q) == DeviceSort(q)
RangeMinElement(q) == IF N(q) < 2 THEN {0} ELSE DeviceMinElement(q)
RangeMinMaxElement(q) == IF N(q) < 2 THEN {<<0, 0>>} ELSE DeviceMinMaxElement(q)
RangeInnerProduct(q) == DeviceInnerProduct(q)
RangeTransformReduce(q) == DeviceTransformReduce(q)
RangeScan(q, exclusive, init) == DeviceScan(q, exclusive, init)

\* Views of the range: its halves, one of them backwards, are swapped; one that is
\* backwards or begins elsewhere is copied.
RangeReverses(p) ==
  LET half == N(p) \div 2
      copy(view) == [RangeWalk([With(Pattern("walk2", p), "copy") EXCEPT !.a = view]) EXCEPT !.a = p.a, !.ret = N(p)]
      swapped == RangeSwap([RangeSwaps(p) EXCEPT !.a = Upto(p.a, half), !.b = Upto(Reverse(p.a), half)])
  IN  CASE p.api = "reverse"      ->
             Left(swapped.a \o SubSeq(p.a, half + 1, N(p) - half) \o
                  (IF half = 0 THEN << >> ELSE Reverse(swapped.out)), Nothing, 0)
        [] p.api = "reverse_copy" -> copy(Reverse(p.a))
        [] p.api = "rotate_copy"  -> copy(Rotated(p.a, p.n))
-------------------------------------------------------------------------------
Scanned(q, S(_, _, _)) ==
  CASE q.pattern = "exclusive_scan"  -> Left(q.a, S(q, TRUE, <<0>>), N(q))
    [] q.pattern = "inclusive_scan"  -> Left(q.a, S(q, FALSE, <<0>>), N(q))
    [] q.pattern = "scan_from_first" -> Left(q.a, S(q, FALSE, << >>), N(q))

\* Reversing, rotating, shifting and the set operations are DevicePatterns's.
Elsewhere == {"reverse", "reverse_copy", "rotate", "rotate_copy", "shift_left", "shift_right",
              "set_union", "set_intersection", "set_difference", "set_symmetric_difference"}
OnDevice(q) ==
  CASE q.pattern \in Elsewhere       -> {}
    [] q.pattern \in {"none", "none_n"} -> Serial(q)
    [] q.pattern = "any_of"          -> One(q, DeviceAnyOf(q))
    [] q.pattern = "find_if"         -> One(q, DeviceFindIf(q))
    [] q.pattern = "equal"           -> One(q, DeviceEqual(q))
    [] q.pattern = "mismatch"        -> One(q, DeviceMismatch(q))
    [] q.pattern = "adjacent_or"     -> One(q, DeviceAdjacentOr(q))
    [] q.pattern = "adjacent_find"   -> One(q, DeviceAdjacentFind(q))
    [] q.pattern = "find_end"        -> One(q, DeviceFindEnd(q))
    [] q.pattern = "search"          -> One(q, DeviceSearch(q))
    [] q.pattern = "search_n"        -> One(q, DeviceSearchN(q))
    [] q.pattern = "find_first_of"   -> One(q, DeviceFindFirstOf(q))
    [] q.pattern = "is_heap"         -> One(q, DeviceIsHeap(q))
    [] q.pattern = "is_heap_until"   -> One(q, DeviceIsHeapUntil(q))
    [] q.pattern = "includes"        -> One(q, DeviceIncludes(q))
    [] q.pattern = "min_element"     -> Answers(q, DeviceMinElement(q))
    [] q.pattern = "minmax_element"  -> Answers(q, DeviceMinMaxElement(q))
    [] q.pattern = "count"           -> Answers(q, DeviceCount(q))
    [] q.pattern = "is_partitioned"  -> Answers(q, DeviceIsPartitioned(q))
    [] q.pattern = "lexicographical_compare" -> Answers(q, DeviceLexicographicalCompare(q))
    [] q.pattern = "transform_reduce"   -> Answers(q, DeviceTransformReduce(q))
    [] q.pattern = "transform_reduce_2" -> Answers(q, DeviceInnerProduct(q))
    [] q.pattern = "walk1"           -> {DeviceWalk1(q)}
    [] q.pattern = "walk1_n"         -> {DeviceWalk1N(q)}
    [] q.pattern \in {"walk_brick", "walk_brick_n"} -> {DeviceWalkBrick(q)}
    [] q.pattern \in {"fill", "fill_n"}             -> {DeviceFill(q)}
    [] q.pattern \in {"generate", "generate_n"}     -> {DeviceGenerate(q)}
    [] q.pattern = "walk2"           -> {IF q.functor = "swap" THEN DeviceSwap(q) ELSE DeviceWalk2(q)}
    [] q.pattern = "walk2_n"         -> {DeviceWalk2N(q)}
    [] q.pattern \in {"walk2_brick", "walk2_brick_n"} -> {DeviceWalk2Brick(q)}
    [] q.pattern = "walk3"           -> {DeviceWalk3(q)}
    [] q.pattern = "copy_if"         -> {DeviceCopyIf(q)}
    [] q.pattern = "unique_copy"     -> {DeviceUniqueCopy(q)}
    [] q.pattern = "partition_copy"  -> {DevicePartitionCopy(q)}
    [] q.pattern = "remove_if"       -> {DeviceRemoveIf(q)}
    [] q.pattern = "unique"          -> {DeviceUnique(q)}
    [] q.pattern = "stable_partition" -> {DeviceStablePartition(q)}
    [] q.pattern = "partition"       -> {DevicePartition(q)}
    [] q.pattern = "merge"           -> {DeviceMerge(q)}
    [] q.pattern = "inplace_merge"   -> {DeviceInplaceMerge(q)}
    [] q.pattern = "sort"            -> DeviceSort(q)
    [] q.pattern = "stable_sort"     -> DeviceStableSort(q)
    [] q.pattern = "partial_sort"    -> DevicePartialSort(q)
    [] q.pattern = "partial_sort_copy" -> DevicePartialSortCopy(q)
    [] q.pattern = "nth_element"     -> DeviceNthElement(q)
    [] q.pattern = "adjacent_difference" -> {DeviceAdjacentDifference(q)}
    [] OTHER -> IF q.value = "in place" THEN {} ELSE {Scanned(q, DeviceScan)}

OverRange(q) ==
  CASE q.pattern \in {"walk1", "walk2", "walk3"} -> {RangeWalk(q)}
    [] q.pattern = "swap"            -> {RangeSwap(q)}
    [] q.pattern = "any_of"          -> One(q, RangeAnyOf(q))
    [] q.pattern = "find_if"         -> One(q, RangeFindIf(q))
    [] q.pattern = "equal"           -> One(q, RangeEqual(q))
    [] q.pattern \in {"adjacent_or", "adjacent_find"} -> One(q, RangeAdjacentFind(q))
    [] q.pattern = "find_end"        -> One(q, RangeFindEnd(q))
    [] q.pattern = "find_first_of"   -> One(q, RangeFindFirstOf(q))
    [] q.pattern = "search"          -> One(q, RangeSearch(q))
    [] q.pattern = "search_n"        -> One(q, RangeSearchN(q))
    [] q.pattern = "count"           -> Answers(q, RangeCount(q))
    [] q.pattern = "min_element"     -> Answers(q, RangeMinElement(q))
    [] q.pattern = "minmax_element"  -> Answers(q, RangeMinMaxElement(q))
    [] q.pattern = "transform_reduce"   -> Answers(q, RangeTransformReduce(q))
    [] q.pattern = "transform_reduce_2" -> Answers(q, RangeInnerProduct(q))
    [] q.pattern = "copy_if"         -> {RangeCopyIf(q)}
    [] q.pattern = "remove_if"       -> {RangeRemoveIf(q)}
    [] q.pattern = "unique_copy"     -> {RangeUniqueCopy(q)}
    [] q.pattern = "unique"          -> {RangeUnique(q)}
    [] q.pattern = "merge"           -> {RangeMerge(q)}
    [] q.pattern = "sort"            -> RangeSort(q)
    [] OTHER -> IF q.value = "in place" THEN {} ELSE {Scanned(q, RangeScan)}

Views == {"reverse", "reverse_copy", "rotate_copy"}
RangePattern(p) ==
  CASE p.api \in {"any_of", "all_of", "none_of"} -> RangeTests(p)
    [] p.api = "for_each" -> RangeForEach(p)
    [] p.api \in {"find_if", "find_if_not", "find", "find_end", "find_first_of", "adjacent_find"} -> RangeFinds(p)
    [] p.api \in {"count", "count_if"} -> RangeCounts(p)
    [] p.api \in {"search", "search_n"} -> RangeSearches(p)
    [] p.api \in {"copy", "copy_if"} -> RangeCopies(p)
    [] p.api = "swap_ranges" -> RangeSwaps(p)
    [] p.api \in {"transform", "transform_2"} -> RangeTransforms(p)
    [] p.api \in {"remove_if", "remove", "remove_copy_if", "remove_copy"} -> RangeRemoves(p)
    [] p.api \in {"unique", "unique_copy"} -> RangeUniques(p)
    [] p.api \in {"replace_if", "replace", "replace_copy_if", "replace_copy"} -> RangeReplaces(p)
    [] p.api \in {"sort", "stable_sort"} -> RangeSorts(p)
    [] p.api \in {"is_sorted", "is_sorted_until"} -> RangeSorted(p)
    [] p.api = "equal" -> RangePairs(p)
    [] p.api = "move" -> RangeMoves(p)
    [] p.api = "merge" -> RangeMerges(p)
    [] p.api \in {"min_element", "max_element", "minmax_element"} -> RangeMinMax(p)
    [] p.api \in {"reduce", "transform_reduce", "transform_reduce_2"} -> RangeReduces(p)
    [] p.api \in {"exclusive_scan", "inclusive_scan"} -> RangeScans(p)

\* Nothing is returned, or, by swap_ranges, whether the length is not 0.
Void == {"for_each", "copy", "transform", "transform_2", "replace_if", "replace", "sort", "stable_sort", "move",
         "reverse", "swap_ranges"}
TakesRanges(p) ==
  \/ p.api \in (More \cup Views \cup Void) \ {"move"}
  \/ p.api = "move" /\ IsTrivial(p)
  \/ p.api \in {"find_end", "find_first_of", "adjacent_find", "count", "count_if", "search", "search_n", "copy_if",
                "remove_if", "remove", "remove_copy_if", "remove_copy", "unique", "unique_copy", "replace_copy_if",
                "replace_copy", "equal", "merge", "minmax_element", "reduce", "transform_reduce",
                "transform_reduce_2", "exclusive_scan", "inclusive_scan"}
-------------------------------------------------------------------------------
AskMore ==
  \/ \E api \in More, a \in Given :
       \E n \in (IF api = "find" THEN {1, 2} ELSE {0}),
          comp \in (IF api \in {"is_sorted", "is_sorted_until", "min_element", "max_element"} THEN {"none", "greater"} ELSE {"none"}) :
         asked = Ask(api, a, << >>, n, comp, "class", FALSE)
  \/ \E a \in Given : asked = Ask("move", a, All(a, 1), 0, "none", "trivial", FALSE)

CallsInit == (AskOne \/ AskTwo \/ AskMemory \/ AskMore) /\ done = << >>

\* Two empty ranges are left out where a device compares them.
Compared(p) == ~(p.api = "equal" /\ p.a = << >> /\ p.b = << >>)

\* The call runs without workers, or on a device, with iterators or with ranges.
HostCall == asked.api \notin More /\ done' = <<"host", Serial(PatternOf(asked))>>
DeviceCall ==
  /\ Compared(asked)
  /\ done' = <<"device", IF asked.api \in More THEN Answered(asked, OnDevice(RangePattern(asked)))
                         ELSE OnDevice(PatternOf(asked))>>
RangeCall ==
  /\ TakesRanges(asked) /\ Compared(asked)
  /\ done' = <<"ranges", IF asked.api \in Views THEN {RangeReverses(asked)}
                         ELSE Answered(asked, OverRange(RangePattern(asked)))>>

CallsNext == done = << >> /\ (HostCall \/ DeviceCall \/ RangeCall) /\ UNCHANGED asked

CallsEnded == asked = NotAsked /\ done = <<"host", Std(NotAsked)>>

Contract(p) == IF p.api \in More THEN {StdMore(p.api, p)} ELSE Std(p)
Unsaid(S) == {[s EXCEPT !.ret = 0] : s \in S}

\* Every public algorithm leaves and returns what std's does, without workers, on a
\* device and on ranges, and its pattern uses workers and vectors where the policy
\* allows them (glue_algorithm_impl.h, glue_memory_impl.h, glue_numeric_impl.h,
\* algorithm_impl_hetero.h, glue_algorithm_ranges_impl.h).
CallsAreCorrect ==
  (done # << >> /\ asked # NotAsked) =>
    /\ IF done[1] = "ranges" /\ asked.api \in Void
         THEN Unsaid(done[2]) \subseteq Unsaid(Contract(asked))
         ELSE done[2] \subseteq Contract(asked)
    /\ done[1] = "host" => RespectsPolicy(PatternOf(asked))
===============================================================================
