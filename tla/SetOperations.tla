----------------------------- MODULE SetOperations -----------------------------
(* __pattern_set_union, set_intersection, set_difference and                       *)
(* set_symmetric_difference of two sorted sequences: which part of them is copied,  *)
(* which goes through __parallel_set_op, and the functors __parallel_set_op hands    *)
(* to the strict scan. An element is <<1, k>> or <<2, k>>: the k-th of a sequence.   *)
EXTENDS Integers, FiniteSets, Sequences

CONSTANT SetCutOff         \* __set_algo_cut_off

Algs == {"union", "intersection", "difference", "symmetric_difference"}

Sorted(m, Keys) == {s \in [0..(m - 1) -> Keys] : \A k \in 1..(m - 1) : s[k - 1] <= s[k]}

Calls(m1, m2, Keys) == [alg : Algs, a : Sorted(m1, Keys), b : Sorted(m2, Keys)]

Size(s) == Cardinality(DOMAIN s)

\* std::lower_bound and std::upper_bound in [i, j) of a sorted sequence.
LowerBound(s, i, j, key) == i + Cardinality({k \in i..(j - 1) : s[k] < key})
UpperBound(s, i, j, key) == i + Cardinality({k \in i..(j - 1) : s[k] <= key})

SizeFunc(alg, m1, m2) ==
  CASE alg \in {"union", "symmetric_difference"} -> m1 + m2
    [] alg = "intersection"                      -> IF m1 < m2 THEN m1 ELSE m2
    [] alg = "difference"                        -> m1

(* __set_union_construct, __set_intersection_construct, ...: they differ in what   *)
(* they keep of the smaller element, of two equal ones and of what is left over.   *)
KeepsFirst  == {"union", "difference", "symmetric_difference"}
KeepsSecond == {"union", "symmetric_difference"}
KeepsEqual  == {"union", "intersection"}

Construct(c, s1, s2, b1, e1, b2, e2) ==
  LET One(s, k) == IF s = 1 THEN c.a[k] ELSE c.b[k]
      Put(algs, s, k) == IF c.alg \in algs THEN <<<<s, k>>>> ELSE <<>>
      built[at \in (b1..e1) \X (b2..e2)] ==
        LET p == at[1]
            q == at[2]
        IN  IF p = e1 /\ q = e2 THEN <<>>
            ELSE IF q = e2 THEN Put(KeepsFirst, s1, p) \o built[<<p + 1, q>>]
            ELSE IF p = e1 THEN Put(KeepsSecond, s2, q) \o built[<<p, q + 1>>]
            ELSE IF One(s1, p) < One(s2, q) THEN Put(KeepsFirst, s1, p) \o built[<<p + 1, q>>]
            ELSE IF One(s2, q) < One(s1, p) THEN Put(KeepsSecond, s2, q) \o built[<<p, q + 1>>]
            ELSE Put(KeepsEqual, s1, p) \o built[<<p + 1, q + 1>>]
  IN  built[<<b1, b2>>]

(* What a call does: serially, by parallel copies of ranges of the sequences, or    *)
(* with __parallel_set_op on what begins at a0 and b0, its result beginning at at.  *)
Copies(set, last) == [kind |-> "copies", copies |-> set, at |-> last, a0 |-> 0, b0 |-> 0, swap |-> FALSE]
Serial == [Copies({}, 0) EXCEPT !.kind = "serial"]
SetOp(set, at, a0, b0) ==
  [kind |-> "set_op", copies |-> set, at |-> at, a0 |-> a0, b0 |-> b0, swap |-> FALSE]
Copy(s, lo, hi, at) == [seq |-> s, lo |-> lo, hi |-> hi, at |-> at]

\* __parallel_set_union_op; m1 and m2 are the lengths of the left bounds.
UnionPlan(c, n1, n2, lb1, lb2) ==
  IF n2 = 0 THEN Copies({Copy(1, 0, n1, 0)}, n1)
  ELSE IF n1 = 0 THEN Copies({Copy(2, 0, n2, 0)}, n2)
  ELSE IF lb1 = n1 THEN Copies({Copy(1, 0, n1, 0), Copy(2, 0, n2, n1)}, n1 + n2)
  ELSE IF lb2 = n2 THEN Copies({Copy(2, 0, n2, 0), Copy(1, 0, n1, n2)}, n1 + n2)
  ELSE IF lb1 > SetCutOff THEN SetOp({Copy(1, 0, lb1, 0)}, lb1, lb1, 0)
  ELSE IF lb2 > SetCutOff THEN SetOp({Copy(2, 0, lb2, 0)}, lb2, 0, lb2)
  ELSE SetOp({}, 0, 0, 0)

\* __pattern_set_intersection; its second branch swaps the sequences.
IntersectionPlan(c, n1, n2, lb1, lb2) ==
  IF n1 = 0 \/ n2 = 0 \/ lb1 = n1 \/ lb2 = n2 THEN Copies({}, 0)
  ELSE IF n1 - lb1 + n2 > SetCutOff THEN SetOp({}, 0, lb1, 0)
  ELSE IF n2 - lb2 + n1 > SetCutOff THEN [SetOp({}, 0, 0, lb2) EXCEPT !.swap = TRUE]
  ELSE Serial

\* __pattern_set_difference
DifferencePlan(c, n1, n2, lb1, lb2) ==
  IF n1 = 0 THEN Copies({}, 0)
  ELSE IF n2 = 0 \/ lb1 = n1 \/ lb2 = n2 THEN Copies({Copy(1, 0, n1, 0)}, n1)
  ELSE IF n1 + n2 > SetCutOff THEN SetOp({}, 0, 0, 0)
  ELSE Serial

\* The two patterns on __parallel_set_union_op have a cut-off of their own.
Plan(c) ==
  LET n1 == Size(c.a)
      n2 == Size(c.b)
      lb1 == IF n2 = 0 THEN 0 ELSE LowerBound(c.a, 0, n1, c.b[0])
      lb2 == IF n1 = 0 THEN 0 ELSE LowerBound(c.b, 0, n2, c.a[0])
  IN  CASE c.alg = "intersection" -> IntersectionPlan(c, n1, n2, lb1, lb2)
        [] c.alg = "difference"   -> DifferencePlan(c, n1, n2, lb1, lb2)
        [] OTHER -> IF n1 + n2 <= SetCutOff THEN Serial ELSE UnionPlan(c, n1, n2, lb1, lb2)

SetRange(pos, len, buf) == [pos |-> pos, len |-> len, buf |-> buf]

Empty(s) == s.len = 0

NoRange == SetRange(0, 0, 0)

BlockBegin(c, p, i) ==
  LET b == p.a0 + i
  IN  IF i = 0 THEN b ELSE UpperBound(c.a, b, Size(c.a), c.a[b])

BlockEnd(c, p, j) ==
  LET e == p.a0 + j
  IN  IF e = Size(c.a) THEN e ELSE UpperBound(c.a, e, Size(c.a), c.a[e])

\* Reduce: the elements the block [i, j) contributes, and where in the buffer.
Reduce(c, p, i, j) ==
  LET b == BlockBegin(c, p, i)
      e == BlockEnd(c, p, j)
      n2 == Size(c.b)
      lower(k, from) == LowerBound(c.b, from, n2, c.a[k])
      BufPos(bb) == SizeFunc(c.alg, b - p.a0, bb - p.b0)
  IN  IF e - b < 1
        THEN <<<<>>, SetRange(0, 0, BufPos(IF b = Size(c.a) THEN n2 ELSE lower(b, p.b0)))>>
        ELSE LET bb == IF i = 0 THEN p.b0 ELSE lower(b, p.b0)
                 ee == IF e = Size(c.a) THEN n2 ELSE lower(e, bb)
                 res == IF p.swap THEN Construct(c, 2, 1, bb, ee, b, e)
                                  ELSE Construct(c, 1, 2, b, e, bb, ee)
             IN  <<res, SetRange(0, Len(res), BufPos(bb))>>

\* [mutant] The place of the left operand is forgotten.
Combine_NoPosition(u, v) ==
  IF v.buf > u.buf \/ (v.buf = u.buf /\ ~Empty(v))
    THEN SetRange(u.len + v.pos, v.len, v.buf)
    ELSE SetRange(v.len + u.pos, u.len, u.buf)

\* Combine: the later of the two ranges is the one whose elements are still to move.
Combine(u, v) ==
  IF v.buf > u.buf \/ (v.buf = u.buf /\ ~Empty(v))
    THEN SetRange(u.pos + u.len + v.pos, v.len, v.buf)
    ELSE SetRange(v.pos + v.len + u.pos, u.len, u.buf)
-------------------------------------------------------------------------------
(* The elements std::set_union and the others keep of m equal elements of one      *)
(* sequence and n of the other (C++ [alg.set.operations]), and their order.        *)
Key(c, t) == IF t[1] = 1 THEN c.a[t[2]] ELSE c.b[t[2]]

Elements(c) == {<<1, k>> : k \in DOMAIN c.a} \cup {<<2, k>> : k \in DOMAIN c.b}

Equals(c, s, key) == {t \in Elements(c) : t[1] = s /\ Key(c, t) = key}

Chosen(c) ==
  {t \in Elements(c) :
     LET rank  == Cardinality({u \in Equals(c, t[1], Key(c, t)) : u[2] < t[2]})
         other == Cardinality(Equals(c, 3 - t[1], Key(c, t)))
     IN  CASE c.alg = "union"        -> t[1] = 1 \/ rank >= other
           [] c.alg = "intersection" -> t[1] = 1 /\ rank < other
           [] c.alg = "difference"   -> t[1] = 1 /\ rank >= other
           [] OTHER                  -> rank >= other}

Precedes(c, t, u) ==
  \/ Key(c, t) < Key(c, u)
  \/ Key(c, t) = Key(c, u) /\ (t[1] < u[1] \/ (t[1] = u[1] /\ t[2] < u[2]))

\* The k-th of the elements to keep.
Nth(c, k) ==
  CHOOSE t \in Chosen(c) : Cardinality({u \in Chosen(c) : Precedes(c, u, t)}) = k
===============================================================================
