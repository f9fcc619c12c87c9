------------------------------ MODULE MaskedCopies ------------------------------
(* The patterns that first mark the elements to keep and then copy the marked ones: *)
(* copy_if, partition_copy, unique_copy, and __remove_elements under remove_if and   *)
(* unique, which also moves them back. The k-th element is <<1, k>>; its key is 1     *)
(* where the predicate holds, and two elements are equal when their keys are.         *)
EXTENDS Integers, FiniteSets

Algs == {"copy_if", "partition_copy", "unique_copy", "remove_if", "unique"}

Removes(c) == c.alg \in {"remove_if", "unique"}

Calls(m) == [alg : Algs, keys : [0..(m - 1) -> {1, 2}]]

Size(c) == Cardinality(DOMAIN c.keys)

\* The trivial sequences that go to the serial algorithm.
Short(c) == Size(c) <= (IF c.alg \in {"unique", "unique_copy"} THEN 2 ELSE 1)

\* What the mask says of element k: the functors of __brick_calc_mask_1 and _2 and of
\* __calc_mask. The first element has no predecessor: unique does not examine it.
Keeps(c, k) ==
  CASE c.alg \in {"copy_if", "partition_copy"} -> c.keys[k] = 1
    [] c.alg = "remove_if"                     -> c.keys[k] # 1
    [] OTHER                                   -> k > 0 => c.keys[k] # c.keys[k - 1]

\* Where the scanned part begins: at the first element to remove (__first += __min).
ScanBegin(c) ==
  IF ~Removes(c) THEN 0
  ELSE CHOOSE k \in 0..Size(c) :
         /\ k < Size(c) => ~Keeps(c, k)
         /\ \A l \in 0..(k - 1) : Keeps(c, l)

\* __brick_calc_mask: the mask of [i, j) is written.
Masked(c, mask, i, j) ==
  [k \in DOMAIN mask |-> IF k \in i..(j - 1) THEN IF Keeps(c, k) THEN "yes" ELSE "no" ELSE mask[k]]

Marked(mask, i, j, mark) == {k \in i..(j - 1) : mask[k] = mark}

\* The value of a block: how many of its elements are kept, and how many are not.
Counts(yes, no) == [yes |-> yes, no |-> no]

NoCounts == Counts(0, 0)

Combine(u, v) == Counts(u.yes + v.yes, u.no + v.no)

BlockValue(mask, i, j) ==
  Counts(Cardinality(Marked(mask, i, j, "yes")), Cardinality(Marked(mask, i, j, "no")))

\* __brick_copy_by_mask and __brick_partition_by_mask: the pairs <<from, to>> of places
\* the elements of [i, j) with the mark are copied between.
Transfers(mask, i, j, mark, at) ==
  {<<k, at + Cardinality(Marked(mask, i, k, mark))>> : k \in Marked(mask, i, j, mark)}
-------------------------------------------------------------------------------
\* The elements the algorithm keeps, or does not, and the k-th of them: those that do
\* or do not satisfy the predicate, or the first of each run of equal ones.
Chosen(c, yes) ==
  LET FirstOfRun(k) == \A l \in DOMAIN c.keys : l + 1 = k => c.keys[l] # c.keys[k]
      Stays(k) == CASE c.alg = "remove_if" -> c.keys[k] = 2
                    [] c.alg \in {"unique", "unique_copy"} -> FirstOfRun(k)
                    [] OTHER -> c.keys[k] = 1
  IN  {<<1, k>> : k \in {l \in DOMAIN c.keys : Stays(l) = yes}}

Nth(c, yes, k) ==
  CHOOSE t \in Chosen(c, yes) : Cardinality({u \in Chosen(c, yes) : u[2] < t[2]}) = k
===============================================================================
