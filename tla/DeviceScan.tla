------------------------------ MODULE DeviceScan ------------------------------
(* The kernels of the device backend's scan and what its callers make of them,   *)
(* and those of its reduction.                                                  *)
(* A value is the sequence of the elements it was combined from, so that any    *)
(* associative operation is covered; a count is the sequence of what was        *)
(* counted. A phase is what a work-item does between two points where it may    *)
(* meet the others of its group.                                               *)
EXTENDS DeviceMemory

Adder(K, g, l) == <<"adder", K.id, g, l>>
Old(K, g, l) == <<"old", K.id, g, l>>

\* The buffers of the first and of the second scan of a call.
Sums(pass) == <<"sums", "sums2">>[pass]
Mask(pass) == <<"mask", "mask2">>[pass]
SumsOf(K, g) == <<Sums(K.pass), g>>
MaskOf(K, i) == <<Mask(K.pass), i>>

\* adjusted_global_id in iteration q
Id(K, g, l, q) == l + K.size * g + K.items * q

Copies(m, cells, key) == Cardinality({cell \in cells : Key(m, cell) = key})

(* __data_acc with a mask: copy_if and partition accept an element by its key,  *)
(* remove_if the others, unique_copy the first of equal neighbours; the set     *)
(* operations compare how often its key occurs up to it and in the other range. *)
Chosen(K, i, m) ==
  LET key    == Key(m, <<K.read, i>>)
      others == {<<K.mask.other, j>> : j \in 0..(K.mask.len - 1)}
      inA    == Copies(m, {<<K.read, j>> : j \in 0..i}, key)
      inB    == Copies(m, others, key)
  IN  CASE K.mask.op = "if"           -> key = 1
        [] K.mask.op = "unless"       -> key # 1
        [] K.mask.op = "unique"       -> i = 0 \/ Key(m, <<K.read, i - 1>>) # key
        [] K.mask.op = "intersection" -> inB > 0 /\ inA <= inB
        [] K.mask.op = "difference"   -> inB = 0 \/ inA > inB

ChosenReads(K, i) ==
  CASE K.mask.op \in {"if", "unless"} -> {<<K.read, i>>}
    [] K.mask.op = "unique" -> {<<K.read, j>> : j \in {i, i - 1} \ {-1}}
    [] OTHER -> {<<K.read, j>> : j \in 0..i} \cup {<<K.mask.other, j>> : j \in 0..(K.mask.len - 1)}

\* __data_acc: the element, or its mask, a count of none or one.
Datum(K, i, m) ==
  IF K.mask.op = "none" \/ Chosen(K, i, m) THEN Value(m, <<K.read, i>>) ELSE << >>
DatumReads(K, i) == IF K.mask.op = "none" THEN {<<K.read, i>>} ELSE ChosenReads(K, i)

\* 0. The item's element; item 0 puts what the earlier iterations summed, or the
\* initial value, before it. Without a known identity the places past the end
\* keep what they hold.
Fill(K, q, g, l, m) ==
  LET i     == Id(K, g, l, q)
      here  == Local(K, g, l)
      datum == IF i < K.n THEN Datum(K, i, m) ELSE IF K.identity THEN << >> ELSE Value(m, here)
      first == IF l = 0 /\ q > 0 THEN <<Adder(K, g, l)>>
               ELSE IF i = 0 /\ K.init THEN <<InitCell>> ELSE << >>
      reads == IF i < K.n THEN DatumReads(K, i) ELSE {here}
      whole == [to |-> here, val |-> Join(m, first) \o datum, reads |-> reads \cup Range(first)]
  IN  (IF K.identity THEN {[whole EXCEPT !.val = datum], [whole EXCEPT !.to = Old(K, g, l)]}
       ELSE IF i < K.n \/ first # << >> THEN {whole} ELSE {})
      \cup (IF K.mask.op # "none" /\ i < K.n
              THEN {[to |-> MaskOf(K, i), val |-> datum, reads |-> {}]} ELSE {})

\* 1. reduce, step k
Reduce(K, q, k, g, l, m) ==
  IF Id(K, g, l, q) < K.n /\ l % (2 * k) = 2 * k - 1
    THEN {Put(m, Local(K, g, l), <<Local(K, g, l - k), Local(K, g, l)>>)}
    ELSE {}

\* 2. scan: the item's partial sum, kept in a register
PartialSum(K, q, g, l, m) ==
  LET Shifted(k) == (l - (l % k)) - 1
      Adds(k) == /\ Shifted(k) >= 0 /\ Id(K, g, l, q) < K.n
                 /\ l % (2 * k) >= k /\ l % (2 * k) < 2 * k - 1
      Add(sum, k) == IF Adds(k) THEN <<Local(K, g, Shifted(k))>> \o sum ELSE sum
  IN  {Put(m, Old(K, g, l), FoldLeft(Add, <<Local(K, g, l)>>, SelectSeq(<<2, 4, 8>>, LAMBDA k : k = 2 \/ k < K.items)))}

Store(K, g, l, m) == {Put(m, Local(K, g, l), <<Old(K, g, l)>>)}

\* The group's inclusive scan, for an operation with a known identity.
GroupScan(K, g, l, m) ==
  {Put(m, Local(K, g, l), [k \in 1..(l + 1) |-> Old(K, g, k - 1)])}

\* __adder, the output and, from the item of the last element, the group's sum
Assign(K, q, g, l, m) ==
  LET i    == Id(K, g, l, q)
      here == <<Local(K, g, l)>>
  IN  {Put(m, Adder(K, g, l), <<Local(K, g, K.items - 1)>>)}
      \cup (IF i + K.shift < K.n THEN {Put(m, <<K.write, i + K.shift>>, here)} ELSE {})
      \cup (IF i = K.n - 1 /\ K.sums THEN {Put(m, SumsOf(K, g), here)} ELSE {})

\* After the loop: the sum of a full group.
AssignLast(K, g, l, m) ==
  IF l = K.items - 1 /\ Id(K, g, l, K.iters - 1) < K.n /\ K.sums
    THEN {Put(m, SumsOf(K, g), <<Local(K, g, l)>>)} ELSE {}

ScanWork(K, p, g, l, m) ==
  CASE p.do = "fill"    -> Fill(K, p.q, g, l, m)
    [] p.do = "reduce"  -> Reduce(K, p.q, p.k, g, l, m)
    [] p.do = "partial" -> PartialSum(K, p.q, g, l, m)
    [] p.do = "store"   -> Store(K, g, l, m)
    [] p.do = "scan"    -> GroupScan(K, g, l, m)
    [] p.do = "assign"  -> Assign(K, p.q, g, l, m)
    [] p.do = "last"    -> AssignLast(K, g, l, m)

(* The phases of __scan. The loop has no barrier between reading __adder and    *)
(* the next iteration's fill, unless the items of a group run in lock step.     *)
ScanPhases(items, iters, identity, lockstep) ==
  LET Steps == SelectSeq(<<1, 2, 4, 8>>, LAMBDA k : k = 1 \/ k < items)
      Loop(q) ==
        <<Phase("fill", q, 0, lockstep)>>
        \o (IF identity THEN <<Phase("scan", q, 0, TRUE)>>
            ELSE [s \in DOMAIN Steps |-> Phase("reduce", q, Steps[s], TRUE)]
                 \o <<Phase("partial", q, 0, TRUE), Phase("store", q, 0, TRUE)>>)
        \o <<Phase("assign", q, 0, TRUE)>>
  IN  FlattenSeq([r \in 1..iters |-> Loop(r - 1)]) \o <<Phase("last", 0, 0, FALSE)>>

NoMask == [op |-> "none"]

ScanKernel(c, pass, n, groups, iters, read, write, mask, init, shift, sums) ==
  [kind |-> "scan", pass |-> pass, n |-> n, groups |-> groups, items |-> c.wg, iters |-> iters,
   size |-> c.wg * iters, read |-> read, write |-> write, mask |-> mask,
   init |-> init, shift |-> shift, sums |-> sums, identity |-> c.identity,
   phases |-> ScanPhases(c.wg, iters, c.identity, c.lockstep), unordered |-> {}]

\* 3. The kernel over all elements that adds the sum of the groups before.
PropagateWork(K, l, m) ==
  LET i == l + K.shift
  IN  (IF l >= K.size /\ i < K.n
         THEN {Put(m, <<K.write, i>>, <<SumsOf(K, l \div K.size - 1), <<K.write, i>>>>)}
         ELSE {})
      \cup (IF l = 0 /\ K.shift = 1 THEN {Put(m, <<K.write, 0>>, <<InitCell>>)} ELSE {})

\* The count in the mask of an element: how many its group accepted up to it.
Count(K, i, m) == Len(Value(m, MaskOf(K, i)))

\* [mutant] The comparison with the neighbour crosses into the group before.
\* An element was accepted when its count differs from its neighbour's in the group.
Accepted(K, l, m) ==
  /\ Count(K, l, m) > 0
  /\ l % K.size = 0 \/ Count(K, l, m) # Count(K, l - 1, m)

Before(K, l) == IF l >= K.size THEN {SumsOf(K, l \div K.size - 1)} ELSE {}
MaskReads(K, l) ==
  {MaskOf(K, i) : i \in {l} \cup (IF l % K.size = 0 THEN {} ELSE {l - 1})}
  \cup Before(K, l) \cup {<<K.read, l>>}

\* How many elements up to l were accepted, in all groups.
CountAt(K, l, m) == Count(K, l, m) + Len(Join(m, SetToSeq(Before(K, l))))

CopyByMaskWork(K, l, m) ==
  IF l < K.n /\ Accepted(K, l, m)
    THEN {[to |-> <<K.write, CountAt(K, l, m) - 1>>, val |-> Value(m, <<K.read, l>>),
           reads |-> MaskReads(K, l)]}
    ELSE {}

PartitionByMaskWork(K, l, m) ==
  IF l >= K.n THEN {}
  ELSE {[to |-> IF Accepted(K, l, m) THEN <<K.write, CountAt(K, l, m) - 1>>
                                     ELSE <<K.other, l - CountAt(K, l, m)>>,
         val |-> Value(m, <<K.read, l>>), reads |-> MaskReads(K, l)]}

(* __parallel_transform_scan: the local scans, the scan of the groups' sums     *)
(* when there are several, and the kernel that finishes the result.             *)
Scan(c, pass, n, read, write, mask, init, shift, last) ==
  LET size   == c.wg * c.iters
      groups == CeilDiv(n, size)
  IN  <<ScanKernel(c, pass, n, groups, c.iters, read, IF mask = NoMask THEN write ELSE Mask(pass),
                   mask, init, shift, TRUE)>>
      \o (IF groups = 1 THEN << >>
          ELSE <<ScanKernel(c, pass, groups, 1, CeilDiv(groups, c.wg), Sums(pass), Sums(pass),
                            NoMask, FALSE, 0, FALSE)>>)
      \o <<[pass |-> pass] @@ RangeKernel(last, n, groups * size, size, read, write, "rejected", shift)>>

\* Where the last group's sum is, which is the number of elements accepted.
Accepts(c, pass, n) == <<Sums(pass), (n - 1) \div (c.wg * c.iters)>>

(* __pattern_transform_scan_single_group: one group loads the elements, scans   *)
(* them together and stores the sums. The joint scan waits before and after.    *)
SingleGroupScan(c, n, read, write, init, shift) ==
  <<[kind |-> "single", n |-> n, groups |-> 1, items |-> c.wg, read |-> read, write |-> write,
     init |-> init, shift |-> shift, unordered |-> {},
     phases |-> <<Phase("load", 0, 0, TRUE), Phase("joint", 0, 0, TRUE), Phase("store", 0, 0, TRUE)>>]>>

SingleGroupWork(K, p, l, m) ==
  LET Mine == {i \in 0..(K.n - 1) : i % K.items = l}
      Loaded(count) == [k \in 1..count |-> Old(K, 0, k - 1)]
      first == IF K.init THEN <<InitCell>> ELSE << >>
  IN  CASE p.do = "load"  -> {Put(m, Old(K, 0, i), <<<<K.read, i>>>>) : i \in Mine}
        [] p.do = "joint" -> {Put(m, Local(K, 0, i), first \o Loaded(i + 1 - K.shift)) : i \in Mine}
        [] p.do = "store" -> {Put(m, <<K.write, i>>, <<Local(K, 0, i)>>) : i \in Mine}
-------------------------------------------------------------------------------
(* The device backend's transform_reduce: by one work-item for a small range,   *)
(* by one work-group for a medium one, by a tree of kernels for a large one,    *)
(* which keep the groups' results in the two halves of one temporary buffer.    *)
\* reduce_over_group with a known identity is one function of the whole group.
ReducePhases(items, identity) ==
  LET Steps == SelectSeq(<<1, 2, 4, 8>>, LAMBDA k : k = 1 \/ k < items)
  IN  <<Phase("load", 0, 0, TRUE)>>
      \o (IF identity THEN <<Phase("result", 0, 0, TRUE)>>
          ELSE [s \in DOMAIN Steps |-> Phase("reduce", 0, Steps[s], TRUE)]
               \o <<Phase("result", 0, 0, FALSE)>>)

\* One kernel reads n values from place "from" on; temp says whether it also stores
\* its groups' results, from place "to" on.
ReduceKernel(c, n, groups, items, iters, read, from, to, temp) ==
  [kind |-> "reduce", n |-> n, groups |-> groups, items |-> items, iters |-> iters,
   read |-> read, from |-> from, to |-> to, temp |-> temp, identity |-> c.identity,
   used |-> CeilDiv(n, iters), phases |-> ReducePhases(items, c.identity), unordered |-> {}]

\* transform_reduce_seq; the kernel for a single work-group
ReduceSeq(c, n) == <<ReduceKernel(c, n, 1, 1, n, "in", 0, 0, FALSE)>>
ReduceSmall(c, n) == <<ReduceKernel(c, n, 1, c.wg, CeilDiv(n, c.wg), "in", 0, 0, FALSE)>>

\* [mutant] The offsets of the two halves are not swapped.
\* __offset_1: where a pass stores the groups' results. The next one reads them.
TempOffset(pass, half) == IF pass % 2 = 0 THEN 0 ELSE half

\* __parallel_transform_reduce_impl: passes until one group is left.
ReduceTree(c, n) ==
  LET size == c.wg * c.iters
      Left[pass \in 0..n] == IF pass = 0 THEN n ELSE CeilDiv(Left[pass - 1], size)
      half == CeilDiv(n, size)
      passes == 1 + Cardinality({pass \in 1..n : Left[pass] > 1})
  IN  [k \in 1..passes |->
         ReduceKernel(c, Left[k - 1], CeilDiv(Left[k - 1], size), c.wg, c.iters,
                      IF k = 1 THEN "in" ELSE "temp",
                      IF k = 1 THEN 0 ELSE TempOffset(k - 2, half), TempOffset(k - 1, half), TRUE)]

\* transform_reduce_known, transform_reduce_unknown: the item's own values
LoadWork(K, g, l, m) ==
  LET first == K.iters * (K.items * g + l)
      mine  == Min({K.iters, K.n - first})
  IN  IF mine <= 0 THEN {}
      ELSE {Put(m, Local(K, g, l), [i \in 1..mine |-> <<K.read, K.from + first + i - 1>>])}

\* A step of the reduction in local memory, without a known identity.
ReduceStep(K, k, g, l, m) ==
  IF l % (2 * k) = 0 /\ l + k < K.items /\ K.items * g + l + k < K.used
    THEN {Put(m, Local(K, g, l), <<Local(K, g, l), Local(K, g, l + k)>>)} ELSE {}

\* Item 0 stores the group's result, and the last one after the initial value.
ResultWork(K, g, l, m) ==
  LET used  == Min({K.items, K.used - K.items * g})
      whole == IF K.identity THEN [i \in 1..used |-> Local(K, g, i - 1)] ELSE <<Local(K, g, 0)>>
  IN  IF l # 0 THEN {}
      ELSE (IF K.groups = 1 THEN {Put(m, <<"res", 0>>, <<InitCell>> \o whole)} ELSE {})
           \cup (IF K.temp THEN {Put(m, <<"temp", K.to + g>>, whole)} ELSE {})

ReduceWork(K, p, g, l, m) ==
  CASE p.do = "load"   -> LoadWork(K, g, l, m)
    [] p.do = "reduce" -> ReduceStep(K, p.k, g, l, m)
    [] p.do = "result" -> ResultWork(K, g, l, m)
===============================================================================
