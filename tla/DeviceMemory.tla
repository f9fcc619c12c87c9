----------------------------- MODULE DeviceMemory -----------------------------
(* The memory of a device call: cells of the user's ranges, of temporary        *)
(* buffers, of local memory and of registers. A value is a sequence of          *)
(* elements; an element is a pair of its key and its place in the input. Then    *)
(* the algorithms that only move elements, with one kernel or a few.             *)
EXTENDS Integers, Sequences, FiniteSets, SequencesExt, FiniteSetsExt, Functions, TLC

Raw == << <<-9, -9>> >>    \* what a cell holds that was never written

Value(m, cell) == IF cell \in DOMAIN m THEN m[cell] ELSE Raw

\* The values of a sequence of cells combined in that order.
Join(m, cells) == FlattenSeq([i \in DOMAIN cells |-> Value(m, cells[i])])

\* An assignment: the cell, the value it gets and the cells that were read for it.
Put(m, to, from) == [to |-> to, val |-> Join(m, from), reads |-> Range(from)]

Apply(m, work) ==
  [cell \in {a.to : a \in work} |-> (CHOOSE a \in work : a.to = cell).val] @@ m

Local(K, g, l) == <<"local", K.id, g, l>>
InitCell == <<"init", 0>>

CeilDiv(a, b) == (a + b - 1) \div b

Key(m, cell) == Value(m, cell)[1][1]

(* The phases of a kernel; barrier says that the items of a group meet before.  *)
Phase(what, q, k, barrier) == [do |-> what, q |-> q, k |-> k, barrier |-> barrier]

\* A kernel over a plain range: every item runs one phase. Most need few of these.
RangeKernel(kind, n, count, size, read, write, other, shift) ==
  [kind |-> kind, n |-> n, groups |-> 1, items |-> count, size |-> size, read |-> read,
   write |-> write, other |-> other, shift |-> shift,
   phases |-> <<Phase("all", 0, 0, TRUE)>>, unordered |-> {}]
-------------------------------------------------------------------------------
(* The algorithms that move elements with one kernel, or a few, over a plain     *)
(* range, one work-item per place (or pair of places).                          *)
Move(K, m, i, j) == Put(m, <<K.write, i>>, <<<<K.read, j>>>>)

\* __brick_shift_left: item l moves every shift-th element from place l on, in
\* increasing order, so that it reads each one before it overwrites it.
ShiftLeft(K, l, m) ==
  LET At(i) == IF K.size = 1 THEN K.n - 1 - i ELSE i    \* a reverse_view for shift_right
  IN  {Move(K, m, At(i - K.shift), At(i)) :
         i \in {j \in K.shift..(K.n - 1) : j % K.shift = l % K.shift}}

\* How many elements the scan before kept: what the host read from its sums.
Kept(K, m) == Len(Value(m, K.kept))

MoveWork(K, l, m) ==
  CASE K.kind = "copy"      -> {Move(K, m, l + K.shift, l + K.size)}
    [] K.kind = "copy_kept" -> IF l < Kept(K, m) THEN {Move(K, m, l, l)} ELSE {}
    [] K.kind = "copy_rest" -> IF l < K.n - Kept(K, m) THEN {Move(K, m, l + Kept(K, m), l)} ELSE {}
    [] K.kind = "swap"      -> {Move(K, m, l, K.n - l - 1), Move(K, m, K.n - l - 1, l)}
    [] K.kind = "reverse"   -> {Move(K, m, l, K.n - l - 1)}
    [] K.kind = "rotate"    -> {Move(K, m, l, (K.shift + l) % K.n)}
    [] K.kind = "shift"     -> ShiftLeft(K, l, m)

Copy(n, read, write) == RangeKernel("copy", n, n, 0, read, write, "none", 0)

\* The copies back of remove_if, unique and stable_partition.
CopyKept(n, kept, read) == [kept |-> kept] @@ RangeKernel("copy_kept", n, n, 0, read, "in", "none", 0)
CopyRest(n, kept, read) == [kept |-> kept] @@ RangeKernel("copy_rest", n, n, 0, read, "in", "none", 0)

Rotate_NoCopyBack(n, shift) == <<RangeKernel("rotate", n, n, 0, "in", "tmp", "none", shift)>>

\* __pattern_rotate: through a temporary buffer and back.
Rotate(n, shift) ==
  <<RangeKernel("rotate", n, n, 0, "in", "tmp", "none", shift), Copy(n, "tmp", "in")>>

Shift_NoMid(n, shift, right) ==
  IF shift <= 0 \/ shift >= n THEN << >>
  ELSE IF right THEN <<RangeKernel("copy", n, n - shift, 0, "in", "in", "none", shift)>>
                ELSE <<RangeKernel("copy", n, n - shift, shift, "in", "in", "none", 0)>>

\* __pattern_shift_left: disjoint ranges are copied, others moved in n strides;
\* a shift right is a shift left of the reversed range.
Shift(n, shift, right) ==
  LET mid == (n \div 2) + (n % 2)
      back == IF right THEN 1 ELSE 0
  IN  IF shift <= 0 \/ shift >= n THEN << >>
      ELSE IF shift < mid
        THEN <<RangeKernel("shift", n, shift, back, "in", "in", "none", shift)>>
      ELSE IF right
        THEN <<RangeKernel("copy", n, n - shift, 0, "in", "in", "none", shift)>>
        ELSE <<RangeKernel("copy", n, n - shift, shift, "in", "in", "none", 0)>>
===============================================================================
