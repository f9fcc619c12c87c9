------------------------------- MODULE Partition -------------------------------
(* __pattern_partition and __pattern_stable_partition: each piece is partitioned *)
(* by itself, and two neighbouring partitioned parts are made one by exchanging, *)
(* in place, the false end of the left one and the true beginning of the right   *)
(* one. An element is its place in the given order, negative where __pred fails. *)
(* And __pattern_is_partitioned, which moves nothing: each part is summed up as   *)
(* one of four states, and a table gives the state of two parts side by side.     *)
EXTENDS Integers, FiniteSets

(* The elements and which of the two algorithms was called.          *)
Calls(m) ==
  {[stable |-> s, mem |-> [k \in 0..(m - 1) |-> IF k \in yes THEN k + 1 ELSE -(k + 1)]] :
     s \in BOOLEAN, yes \in SUBSET (0..(m - 1))}

Pred(e) == e > 0
Place(e) == IF e > 0 THEN e ELSE -e

NeverShort(m, r) == FALSE
NoTrivialAnswer(m, r) == m

PartitionRange(b, p, e) == [begin |-> b, pivot |-> p, end |-> e]

AtEnd(m, r) == PartitionRange(m, m, m)

\* [i, j) is partitioned at p, and in the given order on both sides if it has to be.
IsPartitionedAt(r, i, p, j) ==
  /\ \A k \in i..(j - 1) : Pred(r.mem[k]) <=> k < p
  /\ r.stable => \A k \in (i + 1)..(j - 1) : k # p => Place(r.mem[k - 1]) < Place(r.mem[k])

Rearrangements(S) == {f \in [S -> S] : \A l \in S : \E k \in S : f[k] = l}

\* __brick_partition and __brick_stable_partition, the serial algorithms: the ways
\* they may leave [i, j), each with the pivot they return.
BrickPartition(r, i, j) ==
  LET pivot == i + Cardinality({k \in i..(j - 1) : Pred(r.mem[k])})
      Permuted(f) ==
        [r EXCEPT !.mem = [k \in DOMAIN @ |-> IF k \in i..(j - 1) THEN @[f[k]] ELSE @[k]]]
  IN  {<<q, pivot>> : q \in {s \in {Permuted(f) : f \in Rearrangements(i..(j - 1))} :
                               IsPartitionedAt(s, i, pivot, j)}}

\* [mutant] One element too many is swapped.
SwapRanges_OneMore(m, a, b, len) ==
  [k \in DOMAIN m |-> IF k \in a..(a + len) /\ k - a + b \in DOMAIN m THEN m[k - a + b]
                      ELSE IF k \in b..(b + len) THEN m[k - b + a] ELSE m[k]]

\* __brick_swap_ranges, over all the chunks of the parallel loop.
SwapRanges(m, a, b, len) ==
  [k \in DOMAIN m |-> IF k \in a..(a + len - 1) THEN m[k - a + b]
                      ELSE IF k \in b..(b + len - 1) THEN m[k - b + a] ELSE m[k]]

\* __brick_rotate: [middle, last) comes before [first, middle).
RotateRange(m, first, middle, last) ==
  [k \in DOMAIN m |-> IF k \in first..(first + last - middle - 1) THEN m[k - first + middle]
                      ELSE IF k \in (first + last - middle)..(last - 1) THEN m[k - (last - middle)] ELSE m[k]]

NewBegin(a, b) == b.begin - (a.end - a.begin)

\* __reductor: the contents and the part two neighbouring parts become.
Exchange(r, a, b) ==
  LET size1 == a.end - a.pivot
      size2 == b.pivot - b.begin
      Part(pivot) == PartitionRange(NewBegin(a, b), pivot, b.end)
  IN  IF size1 = 0 THEN <<r, Part(b.pivot)>>
      ELSE IF r.stable
        THEN <<[r EXCEPT !.mem = RotateRange(@, a.pivot, b.begin, b.pivot)], Part(b.pivot - size1)>>
      ELSE IF size2 > size1
        THEN <<[r EXCEPT !.mem = SwapRanges(@, a.pivot, b.pivot - size1, size1)], Part(b.pivot - size1)>>
        ELSE <<[r EXCEPT !.mem = SwapRanges(@, a.pivot, b.begin, size2)], Part(a.pivot + size2)>>

Merged(r, a, b) == {Exchange(r, a, b)}

Done(r, i, j, value) ==
  {Exchange(q[1], value, PartitionRange(i, q[2], j)) : q \in BrickPartition(r, i, j)}

Pivot(r, v) == v.pivot

Elements(r, i, j) == {r.mem[k] : k \in i..(j - 1)}

(* What the call must return and leave (algorithm_impl.h:2157, 2239): the place   *)
(* where the elements that satisfy __pred end, with every element still there and,  *)
(* if the algorithm is the stable one, in order on both sides.                     *)
Correct(r0, r, m, it) ==
  IsPartitionedAt(r, 0, it, m) /\ Elements(r, 0, m) = Elements(r0, 0, m)

(* A value tells where its part begins, turns and ends; the part is partitioned and *)
(* holds what it held at first (algorithm_impl.h:2120, 2213).                       *)
Describes(r0, r, i, j, v) ==
  /\ v.begin = i /\ v.end = j
  /\ IsPartitionedAt(r, i, v.pivot, j)
  /\ Elements(r, i, j) = Elements(r0, i, j)
-------------------------------------------------------------------------------
(* __pattern_is_partitioned.                                                       *)

(* _ReduceRes, __not_init included; the table is indexed from 1.               *)
NotInit == -1
Broken == 0
AllTrue == 1
AllFalse == 2
TrueFalse == 3

Table ==
  <<Broken, Broken, Broken, Broken,  Broken, AllTrue, TrueFalse, TrueFalse,
    Broken, Broken, AllFalse, Broken,  Broken, Broken, TrueFalse, Broken>>

State(val, pos) == [val |-> val, pos |-> pos]

\* "a commutative combiner": the operands are put in the order of the range.
Combine(a, b) ==
  IF a.pos > b.pos THEN State(Table[b.val * 4 + a.val + 1], b.pos)
                   ELSE State(Table[a.val * 4 + b.val + 1], a.pos)

Holds(m) == [0..(m - 1) -> BOOLEAN]
IsShort(m, r) == m = 0
TrivialAnswer(m, r) == TRUE

Start(m, r) == State(NotInit, m)

(* The state of [i, j), by the searches the functor makes.                     *)
Summary(r, i, j) ==
  LET changes == {k \in (i + 1)..(j - 1) : r[k] # r[k - 1]}
  IN  IF r[i]
        THEN CASE changes = {} -> AllTrue
               [] Cardinality(changes) = 1 -> TrueFalse
               [] OTHER -> Broken
        ELSE IF changes = {} THEN AllFalse ELSE Broken

Brick(r, i, j, value) ==
  LET res == State(Summary(r, i, j), i)
  IN  {<<r, CASE value.val = Broken \/ res.val = Broken -> State(Broken, i)
              [] value.val = NotInit -> res
              [] OTHER -> Combine(value, res)>>}

Merge(r, a, b) ==
  {<<r, CASE a.val = NotInit -> b
          [] b.val = NotInit -> a
          [] a.val = Broken \/ b.val = Broken -> State(Broken, a.pos)
          [] OTHER -> Combine(a, b)>>}

Returned(r, v) == v.val # Broken

(* What the call must return (algorithm_impl.h:2061), and what a value must say  *)
(* about the part [i, j) it stands for.                                          *)
CorrectTest(r, m) == \A i \in 0..(m - 1), j \in 0..(m - 1) : i < j /\ r[j] => r[i]
DescribesTest(r, i, j, v) == v.val = Summary(r, i, j) /\ (v.val # Broken => v.pos = i)
===============================================================================
