---------------------------- MODULE DevicePatterns ----------------------------
(* Calls of the algorithms of the device pattern layer: which kernels each one  *)
(* submits, for which of them the host waits before it returns, and what the    *)
(* caller may then find in memory.                                             *)
EXTENDS DeviceScan, DeviceSort

CONSTANTS MaxPlain,        \* bound on the length of a range whose keys do not matter
          MaxN,            \* bound on the length of a range with keys
          MaxOther,        \* bound on the length of a second range
          WgSizes,         \* the work-group sizes
          Iters,           \* elements an item takes one after the other
          LeafSizes,       \* __leaf of the merge sort
          ChunkSizes       \* __optimal_chunk of the merge sort, __chunk of the merge

VARIABLES call,        \* the call: algorithm, sizes, device and storage
          program,     \* the kernels it submits, in order
          at,          \* at[k][g]: the next phase of group g of kernel k
          mem,         \* cell -> value
          accesses,    \* cell -> who touched it
          returned     \* the host has returned from the call

devVars == <<call, program, at, mem, accesses, returned>>

Keyed(n, keys) == [0..(n - 1) -> keys]
Sorted(keys) == \A i \in DOMAIN keys, j \in DOMAIN keys : i < j => keys[i] <= keys[j]
SortedRanges(max) == UNION {{keys \in Keyed(n, {0, 1, 2}) : Sorted(keys)} : n \in 0..max}
Plain(n) == [i \in 0..(n - 1) |-> 0]

Maskers == {"copy_if", "partition_copy", "unique_copy"}
InPlaceMaskers == {"remove_if", "unique", "stable_partition"}
SetOps == {"set_intersection", "set_difference"}
Unions == {"set_union", "set_symmetric_difference"}
Merges == {"merge"} \cup Unions
PartialSorts == {"partial_sort", "partial_sort_copy", "nth_element"}
Movers == {"reverse", "reverse_copy", "rotate", "rotate_copy", "shift_left", "shift_right"}

(* A call and the device it runs on. k is how far a move shifts, or how many a  *)
(* partial sort sorts; beyond is what lies past the end of a range. lockstep     *)
(* says that the items of a group never drift apart between two barriers, waits  *)
(* that the destructor of a temporary buffer waits for the kernels that use it:  *)
(* the code leaves both to the device and the SYCL runtime.                      *)
Default == [alg |-> "", opt |-> {}, keys |-> << >>, keys2 |-> << >>, n |-> 0, n2 |-> 0, k |-> 0,
            wg |-> 2, iters |-> Iters, identity |-> TRUE, leaf |-> 1, chunk |-> 1,
            lockstep |-> TRUE, waits |-> TRUE, usm |-> TRUE, beyond |-> 0]
On(alg, keys) == [Default EXCEPT !.alg = alg, !.keys = keys, !.n = Cardinality(DOMAIN keys)]
With(c, keys2) == [c EXCEPT !.keys2 = keys2, !.n2 = Cardinality(DOMAIN keys2)]

IsScan ==
  \E n \in 1..MaxPlain, wg \in WgSizes, identity \in BOOLEAN, lockstep \in BOOLEAN :
  \E options \in SUBSET {"inclusive", "init", "inplace", "single"} :
    /\ "inclusive" \in options \/ "init" \in options
    /\ "single" \in options => identity /\ lockstep
    /\ call = [On("scan", Plain(n)) EXCEPT !.opt = options, !.wg = wg, !.identity = identity, !.lockstep = lockstep]

IsReduce ==
  \E n \in 1..MaxPlain, wg \in WgSizes, identity \in BOOLEAN, iters \in 1..Iters :
  \E how \in {"sequential", "small", "tree"} :
    call = [On("reduce", Plain(n)) EXCEPT !.opt = {how}, !.wg = wg, !.iters = iters, !.identity = identity]

IsMaskedCopy ==
  \E n \in 1..MaxN, alg \in Maskers \cup InPlaceMaskers :
  \E keys \in Keyed(n, {0, 1}), iters \in 1..Iters, usm \in BOOLEAN, waits \in BOOLEAN :
    /\ usm \/ waits
    /\ call = [On(alg, keys) EXCEPT !.usm = usm, !.waits = waits, !.iters = iters]

\* Two ranges; of the set operations one of them may be empty.
IsMerge ==
  \E alg \in SetOps \cup Merges, keys \in SortedRanges(MaxOther), keys2 \in SortedRanges(MaxOther) :
  \E chunk \in ChunkSizes :
    call = With([On(alg, keys) EXCEPT !.chunk = chunk], keys2)

IsInplaceMerge ==
  \E keys \in SortedRanges(MaxOther) \ {<< >>}, keys2 \in SortedRanges(MaxOther) \ {<< >>}, chunk \in ChunkSizes :
    LET n1 == Cardinality(DOMAIN keys)
        n  == n1 + Cardinality(DOMAIN keys2)
    IN  call = [On("inplace_merge", [i \in 0..(n - 1) |-> IF i < n1 THEN keys[i] ELSE keys2[i - n1]])
                  EXCEPT !.k = n1, !.chunk = chunk]

IsSort ==
  \E n \in 1..MaxN, leaf \in LeafSizes, chunk \in ChunkSizes, beyond \in 0..2 : \E keys \in Keyed(n, {0, 1, 2}) :
    call = [On("sort", keys) EXCEPT !.leaf = leaf, !.chunk = chunk, !.beyond = beyond]

\* Keys are bit patterns. One group suffices for wg items with chunk keys each; else
\* a work-group's size is a multiple of the blocks' size, chunk, which is at least
\* the number of buckets.
IsRadixSort ==
  \E keys \in UNION {Keyed(n, 0..3) : n \in 2..3} \cup UNION {Keyed(n, {1, 2}) : n \in 4..MaxN} :
  \E options \in SUBSET {"signed", "descending", "one_group"}, wg \in WgSizes, chunk \in {1, 2, 4}, leaf \in LeafSizes :
    /\ IF "one_group" \in options THEN Cardinality(DOMAIN keys) <= wg * chunk /\ leaf = 1
       ELSE chunk \in 2..wg
    /\ call = [On("radix_sort", keys) EXCEPT !.opt = options, !.wg = wg, !.chunk = chunk, !.leaf = leaf]

IsPartialSort ==
  \E alg \in PartialSorts, n \in 1..MaxN, usm \in BOOLEAN : \E k \in 0..n, keys \in Keyed(n, {0, 1, 2}) :
    /\ alg # "partial_sort" => k > 0
    /\ call = [On(alg, keys) EXCEPT !.k = k, !.usm = usm]

IsMove ==
  \E n \in 1..MaxPlain, alg \in Movers : \E k \in 0..n :
    call = [On(alg, Plain(n)) EXCEPT !.k = k]
-------------------------------------------------------------------------------
Selects(c) ==
  CASE c.alg \in {"copy_if", "partition_copy", "stable_partition"} -> [op |-> "if"]
    [] c.alg = "remove_if" -> [op |-> "unless"]
    [] c.alg \in {"unique_copy", "unique"} -> [op |-> "unique"]

MaskedScan(c, write, last) == Scan(c, 1, c.n, "in", write, Selects(c), FALSE, 0, last)

(* __pattern_hetero_set_op: the chosen elements of one range, compared with the *)
(* other one.                                                                  *)
SetOp(c, pass, op, read, n, other, n2, write) ==
  Scan(c, pass, n, read, write, [op |-> op, other |-> other, len |-> n2], FALSE, 0, "by_mask")

\* An exclusive scan in place goes through a temporary buffer.
ScanProgram(c) ==
  LET shift == IF "inclusive" \in c.opt THEN 0 ELSE 1
      init  == "init" \in c.opt
      through == "inplace" \in c.opt /\ c.n > 1 /\ shift = 1
      write == CASE through -> "tmp" [] "inplace" \in c.opt /\ ~through -> "in" [] OTHER -> "out"
  IN  (IF "single" \in c.opt THEN SingleGroupScan(c, c.n, "in", write, init, shift)
       ELSE Scan(c, 1, c.n, "in", write, NoMask, init, shift, "propagate"))
      \o (IF through THEN <<Copy(c.n, "tmp", "in")>> ELSE << >>)

ReduceProgram(c) ==
  CASE c.opt = {"sequential"} -> ReduceSeq(c, c.n)
    [] c.opt = {"small"}      -> ReduceSmall(c, c.n)
    [] c.opt = {"tree"}       -> ReduceTree(c, c.n)

InPlaceProgram(c) ==
  LET kept == Accepts(c, 1, c.n)
      scan == MaskedScan(c, "tmp", IF c.alg = "stable_partition" THEN "partition" ELSE "by_mask")
      rest == [CopyRest(c.n, kept, "rejected") EXCEPT !.unordered = IF c.usm THEN {Len(scan) + 1} ELSE {}]
  IN  IF c.alg # "remove_if" /\ c.n < 2 THEN << >>
      ELSE scan \o <<CopyKept(c.n, kept, "tmp")>>
           \o (IF c.alg = "stable_partition" THEN <<rest>> ELSE << >>)

\* set_union and set_symmetric_difference merge differences kept in buffers.
MergeProgram(c) ==
  LET first  == Plainly("in", 0, c.n)
      second == Plainly("in2", 0, c.n2)
      OnlyFirst  == SetOp(c, 1, "difference", "in", c.n, "in2", c.n2, "diff")
      OnlySecond == SetOp(c, 2, "difference", "in2", c.n2, "in", c.n, "diff2")
      diff  == Counted("diff", c.n, Accepts(c, 1, c.n))
      diff2 == Counted("diff2", c.n2, Accepts(c, 2, c.n2))
  IN  CASE c.n = 0 /\ c.n2 = 0 -> << >>
        [] c.n = 0 /\ c.n2 > 0 -> <<Copy(c.n2, "in2", "out")>>
        [] c.n2 = 0 /\ c.n > 0 -> <<Copy(c.n, "in", "out")>>
        [] OTHER ->
             CASE c.alg = "merge" -> <<MergeKernel(c, first, second, "out")>>
               [] c.alg = "set_union" -> OnlySecond \o <<MergeKernel(c, first, diff2, "out")>>
               [] c.alg = "set_symmetric_difference" ->
                    OnlyFirst \o OnlySecond \o <<MergeKernel(c, diff, diff2, "out")>>

SetProgram(c) ==
  CASE c.n = 0 \/ (c.n2 = 0 /\ c.alg = "set_intersection") -> << >>
    [] c.n > 0 /\ c.n2 = 0 /\ c.alg = "set_difference" -> <<Copy(c.n, "in", "out")>>
    [] OTHER -> SetOp(c, 1, IF c.alg = "set_difference" THEN "difference" ELSE "intersection",
                      "in", c.n, "in2", c.n2, "out")

SortProgram(c, range, n) == IF n < 2 THEN << >> ELSE MergeSort(c, range, n)

\* partial_sort_copy sorts a copy: in the output when it is long enough, where on
\* USM nothing orders the sort after the copy, in a buffer otherwise.
PartialSortProgram(c) ==
  LET Unordered(kernels) == [j \in DOMAIN kernels |-> [kernels[j] EXCEPT !.unordered = IF c.usm THEN {1} ELSE {}]]
  IN  CASE c.alg = "partial_sort_copy" /\ c.k = c.n ->
             <<Copy(c.n, "in", "out")>> \o Unordered(SortProgram(c, "out", c.n))
        [] c.alg = "partial_sort_copy" /\ c.k < c.n ->
             <<Copy(c.n, "in", "buf")>> \o PartialSort("buf", c.n, c.k) \o <<Copy(c.k, "buf", "out")>>
        [] OTHER -> IF c.n < 2 THEN << >> ELSE PartialSort("in", c.n, c.k)

MoveProgram(c) ==
  CASE c.alg = "reverse" -> <<RangeKernel("swap", c.n, c.n \div 2, 0, "in", "in", "none", 0)>>
    [] c.alg = "reverse_copy" -> <<RangeKernel("reverse", c.n, c.n, 0, "in", "out", "none", 0)>>
    [] c.alg = "rotate" -> Rotate(c.n, c.k)
    [] c.alg = "rotate_copy" -> <<RangeKernel("rotate", c.n, c.n, 0, "in", "out", "none", c.k)>>
    [] c.alg = "shift_left" -> Shift(c.n, c.k, FALSE)
    [] c.alg = "shift_right" -> Shift(c.n, c.k, TRUE)

Program(c) ==
  CASE c.alg = "scan" -> ScanProgram(c)
    [] c.alg = "reduce" -> ReduceProgram(c)
    [] c.alg \in {"copy_if", "unique_copy"} -> MaskedScan(c, "out", "by_mask")
    [] c.alg = "partition_copy" -> MaskedScan(c, "out", "partition")
    [] c.alg \in InPlaceMaskers -> InPlaceProgram(c)
    [] c.alg \in SetOps -> SetProgram(c)
    [] c.alg \in Merges -> MergeProgram(c)
    [] c.alg = "inplace_merge" ->
         <<MergeKernel(c, Plainly("in", 0, c.k), Plainly("in", c.k, c.n - c.k), "tmp"), Copy(c.n, "tmp", "in")>>
    [] c.alg = "sort" -> SortProgram(c, "in", c.n)
    [] c.alg = "radix_sort" -> RadixSort(c)
    [] c.alg \in PartialSorts -> PartialSortProgram(c)
    [] c.alg \in Movers -> MoveProgram(c)
-------------------------------------------------------------------------------
(* How the kernels of one call run. A kernel starts when the kernels it is      *)
(* ordered after (by an event, a buffer's accessors or a wait of the host) have *)
(* ended; its groups run at the same time, each from phase to phase. The items  *)
(* of a group take a phase in one step: NoRace says that they would do the same *)
(* in any order, and records where the code has them wait for each other.       *)
Work(k, p, g, l, m) ==
  LET K == [id |-> k] @@ program[k]
  IN  CASE K.kind = "scan"      -> ScanWork(K, p, g, l, m)
        [] K.kind = "reduce"    -> ReduceWork(K, p, g, l, m)
        [] K.kind \in SortKinds    -> SortWork(K, l, m)
        [] K.kind \in RadixKinds   -> RadixWork(K, p, g, l, m)
        [] K.kind = "single"    -> SingleGroupWork(K, p, l, m)
        [] K.kind = "propagate" -> PropagateWork(K, l, m)
        [] K.kind = "by_mask"   -> CopyByMaskWork(K, l, m)
        [] K.kind = "partition" -> PartitionByMaskWork(K, l, m)
        [] OTHER                -> MoveWork(K, l, m)

Ended(k) == \A g \in DOMAIN at[k] : at[k][g] > Len(program[k].phases)

\* The kernels a kernel is ordered after: the earlier ones, unless the code
\* leaves them unordered.
After(k) == (1..(k - 1)) \ program[k].unordered

\* How often the items of group g have met before its next phase.
Barriers(k, g) == Cardinality({i \in 1..at[k][g] : program[k].phases[i].barrier})

\* What the first item of a drifting group may take for the sum of an iteration of a
\* scan: the element that the last item has stored in its place for the next one.
LateAdder(K, p, g) ==
  IF K.kind = "scan" /\ p.do = "fill" /\ p.q > 0 /\ ~p.barrier
    THEN {a \in Fill(K, p.q, g, K.items - 1, mem) : a.to = Local(K, g, K.items - 1)}
    ELSE {}

\* The memory the items of a group find when they run its next phase.
Found(K, p, g) == {mem} \cup {(Adder(K, g, 0) :> a.val) @@ mem : a \in LateAdder(K, p, g)}

\* The group's items run its next phase.
Run(k, g) ==
  LET Who(l, writes) == [kernel |-> k, group |-> g, batch |-> Barriers(k, g), item |-> l, writes |-> writes]
      Touched(by) ==
        LET reads  == [l \in DOMAIN by |-> UNION {a.reads : a \in by[l]}]
            writes == [l \in DOMAIN by |-> {a.to : a \in by[l]}]
            cells  == UNION (Range(reads) \cup Range(writes))
        IN  [cell \in cells |-> {Who(l, FALSE) : l \in {l \in DOMAIN by : cell \in reads[l]}}
                                \cup {Who(l, TRUE) : l \in {l \in DOMAIN by : cell \in writes[l]}}
                                \cup (IF cell \in DOMAIN accesses THEN accesses[cell] ELSE {})]
  IN  /\ at[k][g] <= Len(program[k].phases)
      /\ \A j \in After(k) : Ended(j)
      /\ \E m \in Found([id |-> k] @@ program[k], program[k].phases[at[k][g]], g) :
         \E by \in {[l \in 0..(program[k].items - 1) |-> Work(k, program[k].phases[at[k][g]], g, l, m)]} :
           /\ mem' = Apply(mem, UNION Range(by))
           /\ accesses' = Touched(by) @@ accesses
      /\ at' = [at EXCEPT ![k][g] = @ + 1]
      /\ UNCHANGED <<call, program, returned>>
-------------------------------------------------------------------------------
(* The kernels that may still run when the host returns from a call on USM; a   *)
(* SYCL buffer's accessors make the caller's next access wait. The number of    *)
(* elements kept is read from the sums, which the last kernel of the scan only  *)
(* reads: its end is awaited only by the destructors of the buffers it uses.    *)
Pending(c) ==
  CASE c.usm /\ c.alg = "partial_sort_copy" /\ c.k = c.n -> {1}
    [] c.usm /\ ~c.waits /\ c.alg \in Maskers \cup SetOps ->
         {k \in DOMAIN program : program[k].kind \in {"by_mask", "partition"}}
    [] c.usm /\ ~c.waits /\ c.alg = "stable_partition" ->
         {k \in DOMAIN program : program[k].kind = "copy_kept"}
    [] OTHER -> {}

Element(keys, i, from) == <<keys[i], from + i>>
Beyond == <<call.beyond, -2>>

DevInit ==
  /\ IsScan \/ IsReduce \/ IsMaskedCopy \/ IsMerge \/ IsInplaceMerge \/ IsSort \/ IsRadixSort \/ IsPartialSort \/ IsMove
  /\ program = Program(call)
  /\ at = [k \in DOMAIN program |-> [g \in 0..(program[k].groups - 1) |-> 1]]
  /\ mem = [cell \in {<<"in", i>> : i \in DOMAIN call.keys} |-> <<Element(call.keys, cell[2], 0)>>]
           @@ [cell \in {<<"in2", i>> : i \in DOMAIN call.keys2} |-> <<Element(call.keys2, cell[2], 100)>>]
           @@ [cell \in {<<name, call.n>> : name \in {"in", "tmp"}} |-> <<Beyond>>]
           @@ (InitCell :> << <<0, -1>> >>)
  /\ accesses = << >>
  /\ returned = FALSE

Return ==
  /\ ~returned
  /\ \A k \in DOMAIN program \ Pending(call) : Ended(k)
  /\ returned' = TRUE
  /\ UNCHANGED <<call, program, at, mem, accesses>>

\* A call that has returned and whose kernels have ended may rest: a state from
\* which nothing else can happen before that is a deadlock.
Rest == returned /\ (\A k \in DOMAIN program : Ended(k)) /\ UNCHANGED devVars

DevNext == (\E k \in DOMAIN at : \E g \in DOMAIN at[k] : Run(k, g)) \/ Return \/ Rest

DevSpec == DevInit /\ [][DevNext]_devVars
-------------------------------------------------------------------------------
Elements(keys, from) == [i \in 1..Cardinality(DOMAIN keys) |-> Element(keys, i - 1, from)]
First(c) == Elements(c.keys, 0)
Second(c) == Elements(c.keys2, 100)

\* Whether an element is kept, given its range up to it and the other range.
Occurs(seq, key) == Cardinality({j \in DOMAIN seq : seq[j][1] = key})
Surplus(seq, i, other) == Occurs(SubSeq(seq, 1, i), seq[i][1]) > Occurs(other, seq[i][1])

Picked(seq, Keep(_)) ==
  LET places == SelectSeq([i \in DOMAIN seq |-> i], Keep) IN [j \in DOMAIN places |-> seq[places[j]]]

Keeps(c, i) ==
  LET seq == First(c)
  IN  CASE c.alg \in {"copy_if", "partition_copy", "stable_partition"} -> seq[i][1] = 1
        [] c.alg = "remove_if" -> seq[i][1] # 1
        [] c.alg \in {"unique", "unique_copy"} -> i = 1 \/ seq[i - 1][1] # seq[i][1]
        [] c.alg = "set_intersection" -> ~Surplus(seq, i, Second(c))
        [] c.alg = "set_difference" -> Surplus(seq, i, Second(c))

Stored(name, seq) == \A i \in DOMAIN seq : Value(mem, <<name, i - 1>>) = <<seq[i]>>

\* Sorted by the ranks of the keys, equal ones in the order they have in the sequence.
SortedBy(seq, Rank(_)) ==
  LET Comes(i) == Cardinality({j \in DOMAIN seq : \/ Rank(seq[j][1]) < Rank(seq[i][1])
                                                 \/ (Rank(seq[j][1]) = Rank(seq[i][1]) /\ j <= i)})
  IN  [p \in DOMAIN seq |-> seq[CHOOSE i \in DOMAIN seq : Comes(i) = p]]

StablySorted(seq) == SortedBy(seq, LAMBDA key : key)

\* The number a bit pattern is, negated when the call sorts by greater.
Number(c, key) ==
  LET number == IF "signed" \in c.opt /\ key >= Half THEN key - 2 * Half ELSE key
  IN  IF "descending" \in c.opt THEN -number ELSE number

Prefix(c, i) ==
  (IF "init" \in c.opt THEN << <<0, -1>> >> ELSE << >>)
  \o SubSeq(First(c), 1, IF "inclusive" \in c.opt THEN i ELSE i - 1)

\* The first k places hold the smallest keys in order, the others the other elements.
PartlySorted(c, name, len) ==
  LET found == [i \in 1..len |-> Value(mem, <<name, i - 1>>)]
  IN  /\ \A i \in 1..c.k : found[i][1][1] = StablySorted(First(c))[i][1]
      /\ len = c.n => Range(found) = {<<e>> : e \in Range(First(c))}

Outcome(c) ==
  LET first  == First(c)
      second == Second(c)
      kept == Picked(first, LAMBDA i : Keeps(c, i))
      rest == Picked(first, LAMBDA i : ~Keeps(c, i))
      onlyFirst  == Picked(first, LAMBDA i : Surplus(first, i, second))
      onlySecond == Picked(second, LAMBDA i : Surplus(second, i, first))
      rotated == [i \in 1..c.n |-> first[((c.k + i - 1) % c.n) + 1]]
      left == SubSeq(first, c.k + 1, c.n)
  IN  CASE c.alg = "scan" ->
             \A i \in 1..c.n : Value(mem, <<IF "inplace" \in c.opt THEN "in" ELSE "out", i - 1>>) = Prefix(c, i)
        [] c.alg = "reduce" -> Value(mem, <<"res", 0>>) = << <<0, -1>> >> \o first
        [] c.alg \in {"copy_if", "unique_copy"} \cup SetOps -> Stored("out", kept)
        [] c.alg \in {"remove_if", "unique"} -> Stored("in", kept)
        [] c.alg = "partition_copy" -> Stored("out", kept) /\ Stored("rejected", rest)
        [] c.alg = "stable_partition" -> Stored("in", kept \o rest)
        [] c.alg = "merge" -> Stored("out", StablySorted(first \o second))
        [] c.alg = "set_union" -> Stored("out", StablySorted(first \o onlySecond))
        [] c.alg = "set_symmetric_difference" -> Stored("out", StablySorted(onlyFirst \o onlySecond))
        [] c.alg \in {"sort", "inplace_merge"} -> Stored("in", StablySorted(first))
        [] c.alg = "radix_sort" -> Stored("in", SortedBy(first, LAMBDA key : Number(c, key)))
        [] c.alg \in {"partial_sort", "nth_element"} -> PartlySorted(c, "in", c.n)
        [] c.alg = "partial_sort_copy" -> PartlySorted(c, "out", c.k)
        [] c.alg = "reverse" -> Stored("in", Reverse(first))
        [] c.alg = "reverse_copy" -> Stored("out", Reverse(first))
        [] c.alg = "rotate" -> Stored("in", rotated)
        [] c.alg = "rotate_copy" -> Stored("out", rotated)
        [] c.alg = "shift_left" -> Stored("in", IF c.k < c.n THEN left ELSE first)
        [] c.alg = "shift_right" ->
             IF c.k < c.n THEN \A i \in 1..(c.n - c.k) : Value(mem, <<"in", i + c.k - 1>>) = <<first[i]>>
             ELSE Stored("in", first)

Ordered(a, b) ==
  \/ a.kernel # b.kernel /\ (a.kernel \in After(b.kernel) \/ b.kernel \in After(a.kernel))
  \/ /\ a.kernel = b.kernel /\ a.group = b.group
     /\ a.item = b.item \/ a.batch # b.batch

\* The places of local memory a drifting group reads as the sum of an iteration of a
\* scan while the last item may fill them for the next one (unseq_backend_sycl.h:698, 744).
Drifts(k) == \E i \in DOMAIN program[k].phases : LET p == program[k].phases[i] IN p.do = "fill" /\ p.q > 0 /\ ~p.barrier
DriftingPlaces ==
  IF call.lockstep THEN {}
  ELSE UNION {{Local([id |-> k], g, program[k].items - 1) : g \in DOMAIN at[k]} : k \in {k \in DOMAIN program : Drifts(k)}}

\* partial_sort_copy over USM when the whole range is sorted: nothing waits for the copy.
CopyIsNotAwaited(c) == c.alg = "partial_sort_copy" /\ c.usm /\ c.k = c.n

\* No two work-items touch a cell, one of them writing it, unless a barrier, an
\* event, a buffer or a wait of the host orders them; except in the two places named
\* above, where the code does not order them.
NoRace ==
  ~CopyIsNotAwaited(call) =>
    \A cell \in DOMAIN accesses \ DriftingPlaces : \A a \in accesses[cell], b \in accesses[cell] :
      a.writes => Ordered(a, b)

\* What the caller of an algorithm finds once it has returned is what the
\* sequential algorithm computes: every scan and reduction combines the elements
\* in order, and what is sorted, merged or filtered keeps the order of equals. Where
\* no destructor waits, the caller finds it once the kernels have ended.
CallIsCorrect ==
  /\ returned
  /\ ~call.waits => \A k \in DOMAIN program : Ended(k)
  /\ DriftingPlaces = {} /\ ~CopyIsNotAwaited(call)
  => Outcome(call)

\* partial_sort_copy has sorted its output when it returns, over USM too: the copy is
\* followed by a sort (algorithm_impl_hetero.h:1411-1422).
CopyIsSorted == returned /\ call.alg = "partial_sort_copy" => Outcome(call)
===============================================================================
