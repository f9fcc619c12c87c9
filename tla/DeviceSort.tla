------------------------------ MODULE DeviceSort -------------------------------
(* The device backend's merge, merge sort and partial sort, and its radix sort.  *)
(* Elements are compared by their keys; their places in the input tell whether    *)
(* equal ones keep their order.                                                  *)
EXTENDS DeviceMemory

Part(name, from, to) == [name |-> name, from |-> from, to |-> to]
Cells(s) == {<<s.name, i>> : i \in s.from..(s.to - 1)}
Size(s) == s.to - s.from

Less(m, s, key) == Cardinality({cell \in Cells(s) : Key(m, cell) < key})
NotGreater(m, s, key) == Cardinality({cell \in Cells(s) : Key(m, cell) <= key})

\* __l_item_2, __r_item_1: the second sequence does not begin before the first one
\* ends. It reads one place past the end when the second sequence is empty.
InOrder(m, a, b) == Key(m, <<b.name, b.from>>) >= Key(m, <<a.name, a.to - 1>>)

\* How many elements of the result come before element i of a sequence: equal
\* elements of the first one come first.
Places(m, a, b, i, isFirst, inOrder) ==
  IF isFirst THEN (i - a.from) + (IF inOrder THEN 0 ELSE Less(m, b, Key(m, <<a.name, i>>)))
  ELSE (i - b.from) + (IF inOrder THEN Size(a) ELSE NotGreater(m, a, Key(m, <<b.name, i>>)))

Into(m, cell, write, place, reads) ==
  [to |-> <<write, place>>, val |-> Value(m, cell), reads |-> reads \cup {cell}]

(* __full_merge_kernel: the item places the chunk at an offset of each sequence. *)
MergeChunks(m, a, b, offset, chunk, write, shift) ==
  LET inOrder == InOrder(m, a, b)
      reads   == IF inOrder THEN {<<b.name, b.from>>, <<a.name, a.to - 1>>}
                 ELSE Cells(a) \cup Cells(b) \cup {<<b.name, b.from>>}
      Mine(s) == (s.from + offset)..(Min({s.from + offset + chunk, s.to}) - 1)
  IN  {Into(m, <<a.name, i>>, write, shift + Places(m, a, b, i, TRUE, inOrder), reads) : i \in Mine(a)}
      \cup {Into(m, <<b.name, i>>, write, shift + Places(m, a, b, i, FALSE, inOrder), reads) : i \in Mine(b)}

(* __partial_merge_kernel: the first k elements of each sequence are merged, the *)
(* others follow them.                                                          *)
PartialMerge(m, a, b, i, k, write) ==
  LET headA == [a EXCEPT !.to = Min({a.from + k, a.to})]
      headB == [b EXCEPT !.to = Min({b.from + k, b.to})]
      From(s) == i \in s.from..(s.to - 1)
      key == Key(m, <<a.name, i>>)
      place == CASE From(headA) -> (i - a.from) + Less(m, headB, key)
                 [] From(a) /\ ~From(headA) -> (i - headA.to) + Size(headA) + Size(headB)
                 [] From(headB) -> (i - b.from) + NotGreater(m, headA, key)
                 [] OTHER -> (i - b.from) + Size(a)
      reads == CASE From(headA) -> Cells(headB) [] From(headB) -> Cells(headA) [] OTHER -> {}
  IN  {Into(m, <<a.name, i>>, write, a.from + place, reads)}

(* __leaf_sort_kernel: a stable sort of the item's leaf, in place. *)
LeafSort(K, l, m) ==
  LET leaf == Part(K.read, l * K.size, Min({(l + 1) * K.size, K.n}))
      Place(i) == Less(m, leaf, Key(m, <<K.read, i>>))
                  + NotGreater(m, [leaf EXCEPT !.to = i], Key(m, <<K.read, i>>))
                  - Less(m, [leaf EXCEPT !.to = i], Key(m, <<K.read, i>>))
  IN  {Into(m, <<K.read, i>>, K.read, leaf.from + Place(i), {}) : i \in leaf.from..(leaf.to - 1)}

\* A merging kernel's item finds its two sorted sequences; K.size is __sorted or __k.
SortMerge(K, l, m) ==
  LET start == Min({2 * K.size * ((l * K.shift) \div K.size), K.n})
      end   == Min({start + K.size, K.n})
      a     == Part(K.read, start, end)
      b     == Part(K.read, end, Min({end + K.size, K.n}))
  IN  MergeChunks(m, a, b, K.shift * (l % (K.size \div K.shift)), K.shift, K.write, start)

PartialSortMerge(K, l, m) ==
  LET start == 2 * K.size * (l \div (2 * K.size))
      end   == Min({start + K.size, K.n})
  IN  PartialMerge(m, Part(K.read, start, end), Part(K.read, end, Min({start + 2 * K.size, K.n})),
                   l, K.shift, K.write)

\* Work-items of a merging kernel: a chunk of the first sequence of every pair each.
MergeSteps(n, sorted, chunk) ==
  LET pairs == n \div (2 * sorted)
      first == Min({n - 2 * sorted * pairs, sorted})
  IN  pairs * (sorted \div chunk) + (first + chunk - 1) \div chunk

\* The merging kernels go from the range to the temporary buffer and back.
Side(range, j) == IF j % 2 = 1 THEN range ELSE "tmp"
CopyBack(range, n, merges) ==
  IF merges % 2 = 1 THEN <<RangeKernel("copy", n, n, 0, "tmp", range, "none", 0)>> ELSE << >>

Doublings(from, n) == Cardinality({j \in 0..n : from * 2^j < n})

(* __parallel_sort_submitter: leaves of c.leaf elements, chunks of up to c.chunk *)
MergeSort(c, range, n) ==
  LET merges == Doublings(c.leaf, n)
      Merge(j) ==
        LET sorted == c.leaf * 2^(j - 1)
            chunk  == Min({sorted, c.chunk})
        IN  RangeKernel("sort_merge", n, MergeSteps(n, sorted, chunk), sorted,
                        Side(range, j), Side(range, j + 1), "none", chunk)
  IN  <<RangeKernel("leaf", n, (n - 1) \div c.leaf + 1, c.leaf, range, range, "none", 0)>>
      \o [j \in 1..merges |-> Merge(j)] \o CopyBack(range, n, merges)

(* __parallel_partial_sort_submitter: one item per element, sequences of 1, 2, 4 *)
PartialSort(range, n, k) ==
  LET merges == Doublings(1, n)
  IN  [j \in 1..merges |-> RangeKernel("partial_merge", n, n, 2^(j - 1),
                                       Side(range, j), Side(range, j + 1), "none", k)]
      \o CopyBack(range, n, merges)

\* The length of a sequence: what a scan counted, when there was one.
Length(m, s) == IF s.counted = << >> THEN s.len ELSE Len(Value(m, s.counted))
Plainly(name, from, len) == [name |-> name, from |-> from, len |-> len, counted |-> << >>]
Counted(name, len, cell) == [name |-> name, from |-> 0, len |-> len, counted |-> cell]

(* __parallel_merge, and the copy __pattern_merge does when a sequence is empty *)
MergeKernel(c, a, b, write) ==
  [first |-> a, second |-> b, chunk |-> c.chunk]
  @@ RangeKernel("merge", a.len + b.len, CeilDiv(Max({a.len, b.len}), c.chunk), 0, "none", write, "none", 0)

MergeWork(K, l, m) ==
  LET Whole(s) == Part(s.name, s.from, s.from + Length(m, s))
      a == Whole(K.first)
      b == Whole(K.second)
      Copied(s) == {Into(m, <<s.name, i>>, K.write, i - s.from, {}) :
                      i \in {i \in s.from..(s.to - 1) : (i - s.from) \div K.chunk = l}}
  IN  IF Size(a) = 0 THEN Copied(b)
      ELSE IF Size(b) = 0 THEN Copied(a)
      ELSE MergeChunks(m, a, b, l * K.chunk, K.chunk, K.write, 0)

SortKinds == {"leaf", "sort_merge", "partial_merge", "merge"}
SortWork(K, l, m) ==
  CASE K.kind = "leaf"          -> LeafSort(K, l, m)
    [] K.kind = "sort_merge"    -> SortMerge(K, l, m)
    [] K.kind = "partial_merge" -> PartialSortMerge(K, l, m)
    [] K.kind = "merge"         -> MergeWork(K, l, m)
-------------------------------------------------------------------------------
(* The radix sort, which integral keys compared by less or greater take: by one   *)
(* work-group that keeps the keys in registers, or by three kernels (count, scan,  *)
(* reorder) for each digit. A key is a bit pattern of KeyBits bits; bool and the    *)
(* floating-point types, which have casts of their own, are left out. A counter     *)
(* holds the elements it counts: its number is their number. What the items of a    *)
(* group or sub-group compute together (a joint scan, a count of peers) is one step.*)
CONSTANTS KeyBits,                 \* the bits of a key
          RadixBits                \* __radix_bits, __radix

States == 2^RadixBits              \* __radix_states, __bin_count
RadixIters == CeilDiv(KeyBits, RadixBits)   \* __get_buckets_in_type

\* "Number of iterations must be even": the last one writes the range.
ASSUME RadixAssumption == {KeyBits, RadixBits} \subseteq Nat \ {0} /\ RadixIters % 2 = 0

Half == 2^(KeyBits - 1)

\* __order_preserving_cast: a pattern that orders as the call does the keys.
OrderPreserving(c, key) ==
  LET low == key % Half
  IN  CASE "signed" \notin c.opt /\ "descending" \notin c.opt -> key
        [] "signed" \notin c.opt /\ "descending" \in c.opt    -> 2 * Half - 1 - key
        [] "signed" \in c.opt /\ "descending" \notin c.opt    -> (key + Half) % (2 * Half)
        [] "signed" \in c.opt /\ "descending" \in c.opt       -> key - 2 * low + Half - 1

Bucket(K, m, cell) == (OrderPreserving(K, Key(m, cell)) \div States^K.digit) % States

\* Those of some cells, in their order, whose key is in bucket s.
InBucket(K, m, cells, s) == SelectSeq(cells, LAMBDA cell : Bucket(K, m, cell) = s)

\* An assignment whose value is that of some of the cells read.
Choose(m, to, from, reads) == [Put(m, to, from) EXCEPT !.reads = Range(reads)]

Upto(from, to, step) == [i \in 1..CeilDiv(Max({to - from, 0}), step) |-> from + (i - 1) * step]
At(name, places) == [i \in DOMAIN places |-> <<name, places[i]>>]
-------------------------------------------------------------------------------
(* One iteration: segment g of the range belongs to group g of count and reorder. *)
SegmentOf(K, g) == <<g * K.span, Min({(g + 1) * K.span, K.n})>>
Counter(K, s, g) == <<"count", (K.segments + 1) * s + g>>

\* __radix_sort_count_submit
CountWork(K, p, g, l, m) ==
  LET seg  == SegmentOf(K, g)
      mine == At(K.read, Upto(seg[1] + l, seg[2], K.items))
      Lacc(i) == Local(K, g, i)
  IN  CASE p.do = "count" ->
             {Choose(m, Lacc(States * l + s), InBucket(K, m, mine, s), mine) : s \in 0..(States - 1)}
        [] p.do = "fold"  -> {Put(m, Lacc(l), [i \in 1..States |-> Lacc(K.items * (i - 1) + l)])}
        [] p.do = "halve" -> IF l < p.k THEN {Put(m, Lacc(l), <<Lacc(l), Lacc(p.k + l)>>)} ELSE {}
        [] p.do = "store" -> IF l < States THEN {Put(m, Counter(K, l, g), <<Lacc(l)>>)} ELSE {}

\* __radix_sort_scan_submit: group g scans the counters of bucket g, and one place more.
ScanCountersWork(K, g, m) ==
  {Put(m, Counter(K, g, j), [i \in 1..j |-> Counter(K, g, i - 1)]) : j \in 0..K.segments}

\* The total of every bucket before s (__last_segment_bucket_idx).
Bins(K, s) == [t \in 1..s |-> Counter(K, t - 1, K.segments)]

\* __peer_contribution, added up: how many keys the group has moved to bucket s before
\* it comes to place i, in order from place first on.
EarlierPeers(K, m, s, first, i) == Cardinality({j \in first..(i - 1) : Bucket(K, m, <<K.read, j>>) = s})

\* __radix_sort_reorder_submit: an item moves every K.items-th element of the segment
\* behind those of the same bucket that come before it in the segment, and one of the
\* residual elements that are fewer than the items. The length is unsigned: if the
\* segment began past the end of the range, the residual would be what is left of 2^64.
ReorderWork(K, g, l, m) ==
  LET seg      == SegmentOf(K, g)
      residual == (seg[2] - seg[1]) % K.items
      tail     == seg[2] - residual
      mine     == Range(Upto(seg[1] + l, tail, K.items)) \cup (IF l < residual THEN {tail + l} ELSE {})
      Offsets  == UNION {Range(Bins(K, s)) \cup {Counter(K, s, g)} : s \in 0..(States - 1)}
      Place(i) == LET s == Bucket(K, m, <<K.read, i>>)
                  IN  Len(Join(m, Append(Bins(K, s), Counter(K, s, g))))
                      + EarlierPeers(K, m, s, Min({seg[1], tail}), i)
  IN  {[to |-> <<K.write, Place(i)>>, val |-> Value(m, <<K.read, i>>), reads |-> Offsets \cup {<<K.read, i>>}] :
         i \in mine}

\* The steps of the reduction in local memory by halves.
Halvings(block) == SelectSeq(<<8, 4, 2, 1>>, LAMBDA k : 2 * k <= block /\ k >= States)

RadixKernel(c, do, groups, items, digit, read, write, phases) ==
  LET segments == CeilDiv(c.n, c.wg)
      blocks   == CeilDiv(c.n, c.chunk)
  IN  [kind |-> "radix_" \o do, n |-> c.n, groups |-> groups, items |-> items, opt |-> c.opt, digit |-> digit,
       segments |-> segments, span |-> CeilDiv(blocks, segments) * c.chunk, read |-> read, write |-> write,
       phases |-> phases, unordered |-> {}]

\* __parallel_radix_sort_iteration: blocks of c.chunk items, sub-groups of c.leaf
RadixIteration(c, digit) ==
  LET segments == CeilDiv(c.n, c.wg)
      read  == IF digit % 2 = 0 THEN "in" ELSE "tmp"
      write == IF digit % 2 = 0 THEN "tmp" ELSE "in"
      steps == <<Phase("count", 0, 0, TRUE), Phase("fold", 0, 0, TRUE)>>
               \o [h \in DOMAIN Halvings(c.chunk) |-> Phase("halve", 0, Halvings(c.chunk)[h], TRUE)]
               \o <<Phase("store", 0, 0, TRUE)>>
      Whole(do) == <<Phase(do, 0, 0, TRUE)>>
  IN  <<RadixKernel(c, "count", segments, c.chunk, digit, read, write, steps),
        RadixKernel(c, "scan", States, 1, digit, read, write, Whole("scan")),
        RadixKernel(c, "reorder", segments, c.leaf, digit, read, write, Whole("reorder"))>>
-------------------------------------------------------------------------------
(* __subgroup_radix_sort: item l has K.block keys in registers.                  *)
KeyReg(K, l, i) == <<"key", K.id, l, i>>
IndexReg(K, l, i) == <<"index", K.id, l, i>>
SumReg(K, l, s) == <<"sum", K.id, l, s>>
Slot(K, i) == <<"counter", K.id, 0, i>>
Exchange(K, i) == <<"exchange", K.id, 0, i>>

\* The key that fills the group up: max(), or lowest().
DefaultKey(K) ==
  CHOOSE key \in 0..(2 * Half - 1) : OrderPreserving(K, key) = 2 * Half - 1

OneGroupWork(K, p, l, m) ==
  LET D == [K EXCEPT !.digit = p.q]
      Mine(i) == [j \in 1..i |-> KeyReg(K, l, j)]
      Own(i) == Bucket(D, m, KeyReg(K, l, i))
      Column(s) == Slot(K, s * K.items + l)
      Row(s) == Slot(K, l * States + s)
  IN  CASE p.do = "load" ->
             {IF l * K.block + i - 1 < K.n THEN Put(m, KeyReg(K, l, i), <<<<K.read, l * K.block + i - 1>>>>)
              ELSE [to |-> KeyReg(K, l, i), val |-> <<<<DefaultKey(K), -3>>>>, reads |-> {}] : i \in 1..K.block}
        [] p.do = "count" ->
             {Choose(m, Column(s), InBucket(D, m, Mine(K.block), s), Mine(K.block)) : s \in 0..(States - 1)}
             \cup {Choose(m, IndexReg(K, l, i), InBucket(D, m, Mine(i - 1), Own(i)), Mine(K.block)) : i \in 1..K.block}
        [] p.do = "sum" -> {Put(m, SumReg(K, l, s), [t \in 1..(s + 1) |-> Row(t - 1)]) : s \in 0..(States - 1)}
        [] p.do = "scan" ->
             {Put(m, Row(s + 1), Append([k \in 1..l |-> SumReg(K, k - 1, States - 1)], SumReg(K, l, s))) :
                s \in 0..(States - 1)}
             \cup (IF l = 0 THEN {Put(m, Slot(K, 0), << >>)} ELSE {})
        [] p.do = "place" ->
             {Choose(m, IndexReg(K, l, i), <<Column(Own(i)), IndexReg(K, l, i)>>,
                     <<Column(Own(i)), IndexReg(K, l, i), KeyReg(K, l, i)>>) : i \in 1..K.block}
        [] p.do = "exchange" ->
             {Put(m, Exchange(K, Len(Value(m, IndexReg(K, l, i)))), <<KeyReg(K, l, i)>>) : i \in 1..K.block}
        [] p.do = "blocked" -> {Put(m, KeyReg(K, l, i), <<Exchange(K, l * K.block + i - 1)>>) : i \in 1..K.block}
        [] p.do = "write" ->
             {Put(m, <<K.write, Len(Value(m, IndexReg(K, l, i)))>>, <<KeyReg(K, l, i)>>) :
                i \in {i \in 1..K.block : Len(Value(m, IndexReg(K, l, i))) < K.n}}

\* The counting and the scan of one digit.
DigitPhases(d) ==
  <<Phase("count", d, 0, TRUE), Phase("sum", d, 0, TRUE), Phase("scan", d, 0, TRUE), Phase("place", d, 0, TRUE)>>

\* The keys change places between two digits, and go to the range after the last.
OneGroupPhases ==
  LET Reorder(d) == <<Phase("exchange", d, 0, TRUE), Phase("blocked", d, 0, TRUE)>>
  IN  <<Phase("load", 0, 0, TRUE)>>
      \o FlattenSeq([d \in 1..(RadixIters - 1) |-> DigitPhases(d - 1) \o Reorder(d - 1)])
      \o DigitPhases(RadixIters - 1) \o <<Phase("write", 0, 0, TRUE)>>

\* __parallel_radix_sort: by one group of c.wg items with c.chunk keys each when
\* they are enough, by iterations from the range to the buffer and back otherwise.
RadixSort(c) ==
  IF "one_group" \in c.opt
    THEN <<[block |-> c.chunk] @@ RadixKernel(c, "group", 1, c.wg, 0, "in", "in", OneGroupPhases)>>
    ELSE FlattenSeq([d \in 1..RadixIters |-> RadixIteration(c, d - 1)])

RadixKinds == {"radix_count", "radix_scan", "radix_reorder", "radix_group"}
RadixWork(K, p, g, l, m) ==
  CASE K.kind = "radix_count"   -> CountWork(K, p, g, l, m)
    [] K.kind = "radix_scan"    -> ScanCountersWork(K, g, m)
    [] K.kind = "radix_reorder" -> ReorderWork(K, g, l, m)
    [] K.kind = "radix_group"   -> OneGroupWork(K, p, l, m)
===============================================================================
