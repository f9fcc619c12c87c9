-------------------------- MODULE ScanPatternsProofs ---------------------------
(* The patterns made of one strict scan. What the value of a block is, from the    *)
(* call alone: for a masked copy the elements of both kinds in it; for a set        *)
(* operation the range of the buffer that takes what the block builds, whose        *)
(* blocks, shifted to the ends of equal elements, tile the two sequences. Hence      *)
(* combining is associative on the values that meet, every bracketing of a scan      *)
(* gives the sum in order, each block reads and writes slots of its own, and a call  *)
(* leaves what std's algorithm does.                                                 *)
EXTENDS ScanPatterns, NaturalLemmas

LEMMA BelowNext == \A x \in Nat, y \in Nat : x < y + 1 => x = y \/ x < y
OBVIOUS

(* A function on D may be defined by its values at smaller ranks: there is one  *)
(* if step, from a place and a function, reads the function only there.         *)
ReadsBelow(D, T, rank, step) ==
  \A d \in D, f \in [D -> T], g \in [D -> T] :
    (\A e \in D : rank[e] < rank[d] => f[e] = g[e]) => step[<<d, f>>] = step[<<d, g>>]

HasSolution(D, T, step) == \E f \in [D -> T] : \A d \in D : f[d] = step[<<d, f>>]

LEMMA Recursion ==
  ASSUME NEW D, NEW T, NEW bound \in Nat, NEW rank, rank \in [D -> 0..bound],
         NEW step, step \in [D \X [D -> T] -> T], NEW start, start \in [D -> T],
         ReadsBelow(D, T, rank, step)
  PROVE  HasSolution(D, T, step)
<1> DEFINE S == {m \in Nat : \E f \in [D -> T] : \A d \in D : rank[d] < m => f[d] = step[<<d, f>>]}
<1> HIDE DEF S
<1>0. bound + 1 \in Nat /\ \A d \in D : rank[d] \in 0..bound /\ rank[d] \in Nat /\ rank[d] < bound + 1
  OBVIOUS
<1>1. 0 \in S
  BY <1>0 DEF S
<1>2. ASSUME NEW m \in Nat, m \in S PROVE m + 1 \in S
  <2>1. PICK f \in [D -> T] : \A d \in D : rank[d] < m => f[d] = step[<<d, f>>]
    BY <1>2 DEF S
  <2> DEFINE g == [d \in D |-> IF rank[d] = m THEN step[<<d, f>>] ELSE f[d]]
  <2>2. g \in [D -> T]
    <3>1. \A d \in D : <<d, f>> \in D \X [D -> T]
      OBVIOUS
    <3> QED BY <3>1
  <2>3. \A d \in D : rank[d] <= m => step[<<d, f>>] = step[<<d, g>>]
    <3>1. ASSUME NEW d \in D, rank[d] <= m PROVE \A e \in D : rank[e] < rank[d] => f[e] = g[e]
      BY <3>1
    <3> HIDE DEF g
    <3> QED BY <2>2, <3>1 DEF ReadsBelow
  <2>4. ASSUME NEW d \in D, rank[d] < m + 1 PROVE g[d] = step[<<d, g>>]
    <3>1. CASE rank[d] = m
      <4>1. g[d] = step[<<d, f>>]
        BY <3>1
      <4> HIDE DEF g
      <4>2. rank[d] <= m
        BY <1>0, <1>2, <3>1
      <4> QED BY <2>3, <4>1, <4>2
    <3>2. CASE rank[d] < m
      <4>1. g[d] = f[d]
        BY <3>2
      <4> HIDE DEF g
      <4>2. f[d] = step[<<d, f>>] /\ rank[d] <= m
        BY <1>0, <2>1, <3>2
      <4> QED BY <2>3, <4>1, <4>2
    <3> HIDE DEF g
    <3>3. rank[d] = m \/ rank[d] < m
      <4> DEFINE r == rank[d]
      <4>1. r \in Nat /\ r < m + 1
        BY <1>0, <2>4
      <4> HIDE DEF r
      <4>3. r = m \/ r < m
        BY <4>1, BelowNext, Zenon
      <4> QED BY <4>3 DEF r
    <3> QED BY <3>1, <3>2, <3>3
  <2> HIDE DEF g
  <2> QED BY <2>2, <2>4 DEF S
<1>3. Nat \subseteq S
  BY <1>1, <1>2, Induction
<1>4. bound + 1 \in S
  BY <1>0, <1>3
<1>5. PICK f \in [D -> T] : \A d \in D : rank[d] < bound + 1 => f[d] = step[<<d, f>>]
  BY <1>4 DEF S
<1> QED BY <1>0, <1>5 DEF HasSolution

Values == IF IsSet(scanCall) THEN [pos : Int, len : Int, buf : Int] ELSE [yes : Int, no : Int]

LEMMA CombineValues ==
  ASSUME NEW u \in Values, NEW v \in Values
  PROVE  Combine(u, v) \in Values
<1>1. CASE IsSet(scanCall)
  BY <1>1 DEF Values, Combine, Set!Combine, Set!SetRange, Set!Empty
<1>2. CASE ~IsSet(scanCall)
  BY <1>2 DEF Values, Combine, Mask!Combine, Mask!Counts
<1> QED BY <1>1, <1>2

LEMMA CombineAssociates ==
  ASSUME NEW u \in Values, NEW v \in Values, NEW w \in Values
  PROVE  Combine(Combine(u, v), w) = Combine(u, Combine(v, w))
<1>1. CASE IsSet(scanCall)
  BY <1>1 DEF Values, Combine, Set!Combine, Set!SetRange, Set!Empty
<1>2. CASE ~IsSet(scanCall)
  BY <1>2 DEF Values, Combine, Mask!Combine, Mask!Counts
<1> QED BY <1>1, <1>2

LEMMA SetCardinality ==
  ASSUME NEW S
  PROVE  Set!Cardinality(S) = Cardinality(S) /\ Mask!Cardinality(S) = Cardinality(S)
BY Zenon DEF Set!Cardinality, Mask!Cardinality, Cardinality

\* Elements at places: those of a sequence of the call.
Items == {1, 2} \X Nat

(* What the body of Construct does at one place of the two sequences.          *)
ConstructStep(c, s1, s2, e1, e2, p, q, f) ==
  LET One(s, k) == IF s = 1 THEN c.a[k] ELSE c.b[k]
      Put1(algs, s, k) == IF c.alg \in algs THEN <<<<s, k>>>> ELSE <<>>
  IN  IF p = e1 /\ q = e2 THEN <<>>
      ELSE IF q = e2 THEN Put1(Set!KeepsFirst, s1, p) \o f[<<p + 1, q>>]
      ELSE IF p = e1 THEN Put1(Set!KeepsSecond, s2, q) \o f[<<p, q + 1>>]
      ELSE IF One(s1, p) < One(s2, q) THEN Put1(Set!KeepsFirst, s1, p) \o f[<<p + 1, q>>]
      ELSE IF One(s2, q) < One(s1, p) THEN Put1(Set!KeepsSecond, s2, q) \o f[<<p, q + 1>>]
      ELSE Put1(Set!KeepsEqual, s1, p) \o f[<<p + 1, q + 1>>]

LEMMA ConstructDefined ==
  ASSUME NEW c, NEW s1, NEW s2, NEW b1, NEW e1, NEW b2, NEW e2
  PROVE  Set!Construct(c, s1, s2, b1, e1, b2, e2) =
           (LET built[at \in (b1..e1) \X (b2..e2)] == ConstructStep(c, s1, s2, e1, e2, at[1], at[2], built)
            IN  built[<<b1, b2>>])
BY DEF Set!Construct, ConstructStep

\* The places it goes on at.
Following(e1, e2, p, q) ==
  {<<p + 1, q>> : x \in {y \in {p} : y < e1}} \cup {<<p, q + 1>> : x \in {y \in {q} : y < e2}} \cup
  {<<p + 1, q + 1>> : x \in {y \in {p} : y < e1 /\ q < e2}}

LEMMA FollowingPlaces ==
  ASSUME NEW e1 \in Nat, NEW e2 \in Nat, NEW p \in 0..e1, NEW q \in 0..e2
  PROVE  /\ p # e1 => <<p + 1, q>> \in Following(e1, e2, p, q)
         /\ q # e2 => <<p, q + 1>> \in Following(e1, e2, p, q)
         /\ p # e1 /\ q # e2 => <<p + 1, q + 1>> \in Following(e1, e2, p, q)
BY DEF Following

LEMMA ConstructReturns ==
  ASSUME NEW c, NEW s1 \in {1, 2}, NEW s2 \in {1, 2}, NEW e1 \in Nat, NEW e2 \in Nat,
         NEW p \in 0..e1, NEW q \in 0..e2, NEW f, \A d \in Following(e1, e2, p, q) : f[d] \in Seq(Items)
  PROVE  ConstructStep(c, s1, s2, e1, e2, p, q, f) \in Seq(Items)
<1>1. <<>> \in Seq(Items) /\ <<<<s1, p>>>> \in Seq(Items) /\ <<<<s2, q>>>> \in Seq(Items)
  BY DEF Items
<1>2. \A s, t \in Seq(Items) : s \o t \in Seq(Items)
  OBVIOUS
<1> QED BY <1>1, <1>2, FollowingPlaces, Zenon DEF ConstructStep

LEMMA ConstructReads ==
  ASSUME NEW c, NEW s1, NEW s2, NEW e1 \in Nat, NEW e2 \in Nat,
         NEW p \in 0..e1, NEW q \in 0..e2, NEW f, NEW g,
         \A d \in Following(e1, e2, p, q) : f[d] = g[d]
  PROVE  ConstructStep(c, s1, s2, e1, e2, p, q, f) = ConstructStep(c, s1, s2, e1, e2, p, q, g)
BY FollowingPlaces, Zenon DEF ConstructStep

LEMMA SizeGrows ==
  ASSUME NEW alg \in Set!Algs, NEW x \in Nat, NEW y \in Nat
  PROVE  /\ Set!SizeFunc(alg, x, y) \in Nat
         /\ Set!SizeFunc(alg, x + 1, y) >= (IF alg \in Set!KeepsFirst THEN 1 ELSE 0) + Set!SizeFunc(alg, x, y)
         /\ Set!SizeFunc(alg, x, y + 1) >= (IF alg \in Set!KeepsSecond THEN 1 ELSE 0) + Set!SizeFunc(alg, x, y)
         /\ Set!SizeFunc(alg, x + 1, y + 1) >= (IF alg \in Set!KeepsEqual THEN 1 ELSE 0) + Set!SizeFunc(alg, x, y)
<1> USE DEF Set!Algs, Set!KeepsFirst, Set!KeepsSecond, Set!KeepsEqual, Set!SizeFunc
<1>1. CASE alg = "union"
  BY <1>1
<1>2. CASE alg = "intersection"
  BY <1>2
<1>3. CASE alg = "difference"
  BY <1>3
<1>4. CASE alg = "symmetric_difference"
  BY <1>4
<1> QED BY <1>1, <1>2, <1>3, <1>4

\* Construct has at every place of the sequences what its body does there.
Solves(c, s1, s2, b1, e1, b2, e2, f) ==
  \A p \in b1..e1, q \in b2..e2 :
    f[<<p, q>>] \in Seq(Items) /\ f[<<p, q>>] = ConstructStep(c, s1, s2, e1, e2, p, q, f)

IsSolved(c, s1, s2, b1, e1, b2, e2) ==
  \E f : /\ Solves(c, s1, s2, b1, e1, b2, e2, f)
         /\ Set!Construct(c, s1, s2, b1, e1, b2, e2) = f[<<b1, b2>>]

LEMMA ConstructSolved ==
  ASSUME NEW c, NEW s1 \in {1, 2}, NEW s2 \in {1, 2}, NEW b1 \in Nat, NEW e1 \in Nat,
         NEW b2 \in Nat, NEW e2 \in Nat, b1 <= e1, b2 <= e2
  PROVE  IsSolved(c, s1, s2, b1, e1, b2, e2)
<1> DEFINE D == (b1..e1) \X (b2..e2)
           T == Seq(Items)
           body(at, f) == ConstructStep(c, s1, s2, e1, e2, at[1], at[2], f)
           built[at \in D] == ConstructStep(c, s1, s2, e1, e2, at[1], at[2], built)
           left == [at \in D |-> (e1 - at[1]) + (e2 - at[2])]
<1>1. <<b1, b2>> \in D /\ \A at \in D : at[1] \in b1..e1 /\ at[2] \in b2..e2 /\ at = <<at[1], at[2]>>
  OBVIOUS
<1>2. ASSUME NEW at \in D, NEW d \in Following(e1, e2, at[1], at[2])
      PROVE  d \in D /\ left[d] < left[at]
  <2> DEFINE p == at[1]
             q == at[2]
  <2>1. p \in b1..e1 /\ q \in b2..e2
    BY <1>1
  <2> HIDE DEF p, q
  <2>2. d[1] \in p..(p + 1) /\ d[2] \in q..(q + 1) /\ d = <<d[1], d[2]>>
        /\ d[1] <= e1 /\ d[2] <= e2 /\ (d[1] > p \/ d[2] > q)
    BY <2>1 DEF Following, p, q
  <2>3. d \in D
    BY <2>1, <2>2
  <2>4. left[d] = (e1 - d[1]) + (e2 - d[2]) /\ left[at] = (e1 - p) + (e2 - q)
    BY <2>3 DEF p, q
  <2> QED BY <2>1, <2>2, <2>3, <2>4
<1>3. ASSUME NEW at \in D, NEW f, \A d \in D : left[d] < left[at] => f[d] \in T
      PROVE  /\ body(at, f) \in T
             /\ \A g : (\A d \in D : left[d] < left[at] => f[d] = g[d]) => body(at, f) = body(at, g)
  <2>1. at[1] \in 0..e1 /\ at[2] \in 0..e2
    BY <1>1
  <2>2. \A d \in Following(e1, e2, at[1], at[2]) : f[d] \in Seq(Items)
    <3> HIDE DEF D, left
    <3> QED BY <1>2, <1>3
  <2>3. ASSUME NEW g, \A d \in D : left[d] < left[at] => f[d] = g[d]
        PROVE  \A d \in Following(e1, e2, at[1], at[2]) : f[d] = g[d]
    <3> HIDE DEF D, left
    <3> QED BY <1>2, <2>3
  <2>4. ConstructStep(c, s1, s2, e1, e2, at[1], at[2], f) \in Seq(Items)
    BY <2>1, <2>2, ConstructReturns
  <2>5. ASSUME NEW g, \A d \in Following(e1, e2, at[1], at[2]) : f[d] = g[d]
        PROVE  ConstructStep(c, s1, s2, e1, e2, at[1], at[2], f) = ConstructStep(c, s1, s2, e1, e2, at[1], at[2], g)
    BY <2>1, <2>5, ConstructReads
  <2> HIDE DEF D, left
  <2> QED BY <2>3, <2>4, <2>5, Zenon
<1>4. \E f \in [D -> T] : \A at \in D : f[at] = body(at, f)
  <2> DEFINE step == [x \in D \X [D -> T] |-> body(x[1], x[2])]
             bound == (e1 - b1) + (e2 - b2)
  <2>1. bound \in Nat /\ left \in [D -> 0..bound]
    <3>1. ASSUME NEW at \in D PROVE (e1 - at[1]) + (e2 - at[2]) \in 0..bound
      BY <1>1
    <3> HIDE DEF D
    <3> QED BY <3>1
  <2>2. step \in [D \X [D -> T] -> T]
    <3> HIDE DEF D, T, body, left
    <3>1. \A at \in D, f \in [D -> T] : body(at, f) \in T
      BY <1>3
    <3> QED BY <3>1
  <2>3. \A d \in D, f \in [D -> T] : step[<<d, f>>] = body(d, f)
    <3> HIDE DEF D, T, body
    <3> QED OBVIOUS
  <2>4. [d \in D |-> <<>>] \in [D -> T]
    <3> HIDE DEF D
    <3> QED OBVIOUS
  <2>5. ASSUME NEW d \in D, NEW f \in [D -> T], NEW g \in [D -> T],
               \A e \in D : left[e] < left[d] => f[e] = g[e]
        PROVE  step[<<d, f>>] = step[<<d, g>>]
    <3> HIDE DEF D, T, body, left, step
    <3>1. \A e \in D : left[e] < left[d] => f[e] \in T
      OBVIOUS
    <3>2. body(d, f) = body(d, g)
      BY <1>3, <2>5, <3>1, Zenon
    <3> QED BY <2>3, <3>2
  <2>6. \E f \in [D -> T] : \A d \in D : f[d] = step[<<d, f>>]
    <3> HIDE DEF D, T, left, step, bound
    <3>1. bound \in Nat
      BY <2>1
    <3>2. left \in [D -> 0..bound]
      BY <2>1
    <3>3. ReadsBelow(D, T, left, step)
      BY <2>5 DEF ReadsBelow
    <3>4. HasSolution(D, T, step)
      BY <3>1, <3>2, <2>2, <2>4, <3>3, Recursion
    <3> QED BY <3>4 DEF HasSolution
  <2> HIDE DEF D, T, body, step
  <2> QED BY <2>3, <2>6
<1>5. PICK f \in [D -> T] : \A at \in D : f[at] = body(at, f)
  BY <1>4
<1>6. f = [at \in D |-> body(at, f)]
  <2> HIDE DEF D, T, body
  <2> QED BY <1>5
<1>7. built = [at \in D |-> body(at, built)]
  <2> HIDE DEF D
  <2> QED BY <1>6
<1>8. \A at \in D : built[at] = body(at, built)
  <2> HIDE DEF D, body, built
  <2> QED BY <1>7
<1>9. \A at \in D : left[at] \in Nat
  BY <1>1
<1> HIDE DEF left
<1> DEFINE good == {r \in Nat : \A at \in D : left[at] < r => built[at] \in T}
<1>10. Nat \subseteq good
  <2> HIDE DEF good, built, T, body, D
  <2>1. 0 \in good
    BY <1>9 DEF good
  <2>2. ASSUME NEW r \in Nat, r \in good PROVE r + 1 \in good
    <3>1. ASSUME NEW at \in D, left[at] < r + 1 PROVE built[at] \in T
      <4>1. \A d \in D : left[d] < left[at] => left[d] < r
        BY <1>9, <3>1
      <4>2. \A d \in D : left[d] < left[at] => built[d] \in T
        BY <2>2, <4>1 DEF good
      <4>3. body(at, built) \in T
        BY <1>3, <4>2
      <4> QED BY <1>8, <4>3
    <3> QED BY <3>1 DEF good
  <2> QED BY <2>1, <2>2, Induction
<1>11. \A at \in D : built[at] \in T
  <2> HIDE DEF D, T, built
  <2>1. ASSUME NEW at \in D PROVE built[at] \in T
    <3>1. left[at] \in Nat /\ left[at] + 1 \in Nat /\ left[at] < left[at] + 1
      BY <1>9
    <3> QED BY <1>10, <3>1 DEF good
  <2> QED BY <2>1
<1>12. Set!Construct(c, s1, s2, b1, e1, b2, e2) = built[<<b1, b2>>]
  BY ConstructDefined
<1> HIDE DEF built
<1>13. ASSUME NEW p \in b1..e1, NEW q \in b2..e2
       PROVE  built[<<p, q>>] \in Seq(Items) /\ built[<<p, q>>] = ConstructStep(c, s1, s2, e1, e2, p, q, built)
  <2>1. <<p, q>> \in D /\ <<p, q>>[1] = p /\ <<p, q>>[2] = q
    OBVIOUS
  <2> QED BY <1>8, <1>11, <2>1
<1> QED BY <1>12, <1>13 DEF Solves, IsSolved

(* What Construct returns: elements, and no more than __size_func promises.    *)
LEMMA Constructed ==
  ASSUME NEW c, NEW s1 \in {1, 2}, NEW s2 \in {1, 2}, NEW b1 \in Nat, NEW e1 \in Nat,
         NEW b2 \in Nat, NEW e2 \in Nat, b1 <= e1, b2 <= e2, c.alg \in Set!Algs
  PROVE  /\ Set!Construct(c, s1, s2, b1, e1, b2, e2) \in Seq(Items)
         /\ Len(Set!Construct(c, s1, s2, b1, e1, b2, e2)) <= Set!SizeFunc(c.alg, e1 - b1, e2 - b2)
<1> DEFINE D == (b1..e1) \X (b2..e2)
           T == Seq(Items)
           left == [at \in D |-> (e1 - at[1]) + (e2 - at[2])]
<1>1. <<b1, b2>> \in D /\ \A at \in D : at[1] \in b1..e1 /\ at[2] \in b2..e2 /\ at = <<at[1], at[2]>>
  OBVIOUS
<1>2. ASSUME NEW at \in D, NEW d \in Following(e1, e2, at[1], at[2])
      PROVE  d \in D /\ left[d] < left[at]
  <2> DEFINE p == at[1]
             q == at[2]
  <2>1. p \in b1..e1 /\ q \in b2..e2
    BY <1>1
  <2> HIDE DEF p, q
  <2>2. d[1] \in p..(p + 1) /\ d[2] \in q..(q + 1) /\ d = <<d[1], d[2]>>
        /\ d[1] <= e1 /\ d[2] <= e2 /\ (d[1] > p \/ d[2] > q)
    BY <2>1 DEF Following, p, q
  <2>3. d \in D
    BY <2>1, <2>2
  <2>4. left[d] = (e1 - d[1]) + (e2 - d[2]) /\ left[at] = (e1 - p) + (e2 - q)
    BY <2>3 DEF p, q
  <2> QED BY <2>1, <2>2, <2>3, <2>4
<1>3. PICK built : /\ Solves(c, s1, s2, b1, e1, b2, e2, built)
                   /\ Set!Construct(c, s1, s2, b1, e1, b2, e2) = built[<<b1, b2>>]
  <2>1. IsSolved(c, s1, s2, b1, e1, b2, e2)
    BY ConstructSolved
  <2> QED BY <2>1, Zenon DEF IsSolved
<1>4. \A at \in D : built[at] \in T
  BY <1>1, <1>3, Zenon DEF Solves
<1>5. \A at \in D : built[at] = ConstructStep(c, s1, s2, e1, e2, at[1], at[2], built)
  BY <1>1, <1>3, Zenon DEF Solves
<1>6. \A at \in D : left[at] \in Nat
  BY <1>1
<1> HIDE DEF left, D
<1> DEFINE short(at) == /\ built[at] \in T
                        /\ Len(built[at]) <= Set!SizeFunc(c.alg, e1 - at[1], e2 - at[2])
           good == {r \in Nat : \A at \in D : left[at] < r => short(at)}
<1>7. ASSUME NEW at \in D, \A d \in D : left[d] < left[at] => short(d) PROVE short(at)
  <2> DEFINE p == at[1]
             q == at[2]
             F == Following(e1, e2, at[1], at[2])
  <2>1. built[at] \in T
    BY <1>4
  <2>2. p \in b1..e1 /\ q \in b2..e2
    BY <1>1
  <2>3. \A d \in F : built[d] \in T /\ Len(built[d]) \in Nat
                     /\ Len(built[d]) <= Set!SizeFunc(c.alg, e1 - d[1], e2 - d[2])
    BY <1>2, <1>7
  <2>4. /\ p # e1 => <<p + 1, q>> \in F
        /\ q # e2 => <<p, q + 1>> \in F
        /\ p # e1 /\ q # e2 => <<p + 1, q + 1>> \in F
    BY <2>2 DEF Following
  <2> HIDE DEF F
  <2>5. \A s \in {s1, s2}, k \in Nat : <<<<s, k>>>> \in Seq(Items) /\ Len(<<<<s, k>>>>) = 1
    BY DEF Items
  <2>6. <<>> \in Seq(Items) /\ Len(<<>>) = 0
    OBVIOUS
  <2>7. \A s, t \in Seq(Items) : Len(s \o t) = Len(s) + Len(t)
    OBVIOUS
  <2>8. built[at] = ConstructStep(c, s1, s2, e1, e2, p, q, built)
    BY <1>5
  <2>9. p \in Nat /\ q \in Nat /\ e1 - p \in Nat /\ e2 - q \in Nat
    BY <2>2
  <2> DEFINE size(d) == Set!SizeFunc(c.alg, e1 - d[1], e2 - d[2])
  <2> HIDE DEF p, q
  <2> DEFINE one(algs, seq, d, x, y) ==
               /\ built[at] = (IF c.alg \in algs THEN <<seq>> ELSE <<>>) \o built[d]
               /\ seq \in {<<s1, p>>, <<s2, q>>} /\ d \in F
               /\ x = e1 - d[1] /\ y = e2 - d[2] /\ x \in Nat /\ y \in Nat
  <2>10. \/ p = e1 /\ q = e2 /\ built[at] = <<>>
         \/ \E x, y : one(Set!KeepsFirst, <<s1, p>>, <<p + 1, q>>, x, y) /\ e1 - p = x + 1 /\ e2 - q = y
         \/ \E x, y : one(Set!KeepsSecond, <<s2, q>>, <<p, q + 1>>, x, y) /\ e1 - p = x /\ e2 - q = y + 1
         \/ \E x, y : one(Set!KeepsEqual, <<s1, p>>, <<p + 1, q + 1>>, x, y) /\ e1 - p = x + 1 /\ e2 - q = y + 1
    <3>1. \/ p = e1 /\ q = e2 /\ built[at] = <<>>
          \/ p # e1 /\ built[at] = (IF c.alg \in Set!KeepsFirst THEN <<<<s1, p>>>> ELSE <<>>) \o built[<<p + 1, q>>]
          \/ q # e2 /\ built[at] = (IF c.alg \in Set!KeepsSecond THEN <<<<s2, q>>>> ELSE <<>>) \o built[<<p, q + 1>>]
          \/ p # e1 /\ q # e2
             /\ built[at] = (IF c.alg \in Set!KeepsEqual THEN <<<<s1, p>>>> ELSE <<>>) \o built[<<p + 1, q + 1>>]
      BY <2>8, Zenon DEF ConstructStep
    <3>2. /\ <<p + 1, q>>[1] = p + 1 /\ <<p + 1, q>>[2] = q
          /\ <<p, q + 1>>[1] = p /\ <<p, q + 1>>[2] = q + 1
          /\ <<p + 1, q + 1>>[1] = p + 1 /\ <<p + 1, q + 1>>[2] = q + 1
      OBVIOUS
    <3>3. CASE p # e1 /\ built[at] = (IF c.alg \in Set!KeepsFirst THEN <<<<s1, p>>>> ELSE <<>>) \o built[<<p + 1, q>>]
      <4>1. one(Set!KeepsFirst, <<s1, p>>, <<p + 1, q>>, e1 - (p + 1), e2 - q)
        BY <2>2, <2>4, <2>9, <3>2, <3>3
      <4>2. e1 - p = (e1 - (p + 1)) + 1
        BY <2>9
      <4> HIDE DEF one
      <4> QED BY <4>1, <4>2
    <3>4. CASE q # e2 /\ built[at] = (IF c.alg \in Set!KeepsSecond THEN <<<<s2, q>>>> ELSE <<>>) \o built[<<p, q + 1>>]
      <4>1. one(Set!KeepsSecond, <<s2, q>>, <<p, q + 1>>, e1 - p, e2 - (q + 1))
        BY <2>2, <2>4, <2>9, <3>2, <3>4
      <4>2. e2 - q = (e2 - (q + 1)) + 1
        BY <2>9
      <4> HIDE DEF one
      <4> QED BY <4>1, <4>2
    <3>5. CASE /\ p # e1 /\ q # e2
               /\ built[at] = (IF c.alg \in Set!KeepsEqual THEN <<<<s1, p>>>> ELSE <<>>) \o built[<<p + 1, q + 1>>]
      <4>1. one(Set!KeepsEqual, <<s1, p>>, <<p + 1, q + 1>>, e1 - (p + 1), e2 - (q + 1))
        BY <2>2, <2>4, <2>9, <3>2, <3>5
      <4>2. e1 - p = (e1 - (p + 1)) + 1 /\ e2 - q = (e2 - (q + 1)) + 1
        BY <2>9
      <4> HIDE DEF one
      <4> QED BY <4>1, <4>2
    <3> HIDE DEF one
    <3> QED BY <3>1, <3>3, <3>4, <3>5
  <2>11. ASSUME NEW algs, NEW seq, NEW d, NEW x, NEW y, one(algs, seq, d, x, y)
         PROVE  /\ Len(built[at]) = (IF c.alg \in algs THEN 1 ELSE 0) + Len(built[d])
                /\ Len(built[d]) \in Nat /\ Len(built[d]) <= Set!SizeFunc(c.alg, x, y)
    <3>1. built[d] \in T /\ Len(built[d]) \in Nat /\ Len(built[d]) <= Set!SizeFunc(c.alg, x, y)
      BY <2>3, <2>11
    <3>2. <<seq>> \in T /\ Len(<<seq>>) = 1
      BY <2>5, <2>9, <2>11
    <3> QED BY <2>6, <2>7, <2>11, <3>1, <3>2
  <2>12. Len(built[at]) <= Set!SizeFunc(c.alg, e1 - p, e2 - q)
    <3> HIDE DEF one
    <3>1. \A x, y \in Nat : Set!SizeFunc(c.alg, x, y) \in Nat
      BY SizeGrows
    <3>2. CASE p = e1 /\ q = e2 /\ built[at] = <<>>
      BY <2>6, <2>9, <3>1, <3>2
    <3>3. ASSUME NEW x, NEW y, one(Set!KeepsFirst, <<s1, p>>, <<p + 1, q>>, x, y), e1 - p = x + 1, e2 - q = y
          PROVE  Len(built[at]) <= Set!SizeFunc(c.alg, e1 - p, e2 - q)
      <4>1. x \in Nat /\ y \in Nat
        BY <3>3 DEF one
      <4> DEFINE longer == IF c.alg \in Set!KeepsFirst THEN 1 ELSE 0
                 l == Len(built[<<p + 1, q>>])
      <4>2. Len(built[at]) = longer + l /\ l \in Nat /\ l <= Set!SizeFunc(c.alg, x, y)
        BY <2>11, <3>3
      <4>3. Set!SizeFunc(c.alg, x + 1, y) >= longer + Set!SizeFunc(c.alg, x, y)
        BY <4>1, SizeGrows
      <4>6. longer \in Nat /\ x + 1 \in Nat /\ y + 1 \in Nat
        BY <4>1
      <4> HIDE DEF longer, l
      <4>4. Set!SizeFunc(c.alg, x, y) \in Nat /\ Set!SizeFunc(c.alg, x + 1, y) \in Nat /\ longer \in Nat
        BY <3>1, <4>1, <4>6, Zenon
      <4>5. Len(built[at]) <= Set!SizeFunc(c.alg, x + 1, y)
        BY <4>2, <4>3, <4>4
      <4> QED BY <3>3, <4>5
    <3>4. ASSUME NEW x, NEW y, one(Set!KeepsSecond, <<s2, q>>, <<p, q + 1>>, x, y), e1 - p = x, e2 - q = y + 1
          PROVE  Len(built[at]) <= Set!SizeFunc(c.alg, e1 - p, e2 - q)
      <4>1. x \in Nat /\ y \in Nat
        BY <3>4 DEF one
      <4> DEFINE longer == IF c.alg \in Set!KeepsSecond THEN 1 ELSE 0
                 l == Len(built[<<p, q + 1>>])
      <4>2. Len(built[at]) = longer + l /\ l \in Nat /\ l <= Set!SizeFunc(c.alg, x, y)
        BY <2>11, <3>4
      <4>3. Set!SizeFunc(c.alg, x, y + 1) >= longer + Set!SizeFunc(c.alg, x, y)
        BY <4>1, SizeGrows
      <4>6. longer \in Nat /\ x + 1 \in Nat /\ y + 1 \in Nat
        BY <4>1
      <4> HIDE DEF longer, l
      <4>4. Set!SizeFunc(c.alg, x, y) \in Nat /\ Set!SizeFunc(c.alg, x, y + 1) \in Nat /\ longer \in Nat
        BY <3>1, <4>1, <4>6, Zenon
      <4>5. Len(built[at]) <= Set!SizeFunc(c.alg, x, y + 1)
        BY <4>2, <4>3, <4>4
      <4> QED BY <3>4, <4>5
    <3>5. ASSUME NEW x, NEW y, one(Set!KeepsEqual, <<s1, p>>, <<p + 1, q + 1>>, x, y), e1 - p = x + 1, e2 - q = y + 1
          PROVE  Len(built[at]) <= Set!SizeFunc(c.alg, e1 - p, e2 - q)
      <4>1. x \in Nat /\ y \in Nat
        BY <3>5 DEF one
      <4> DEFINE longer == IF c.alg \in Set!KeepsEqual THEN 1 ELSE 0
                 l == Len(built[<<p + 1, q + 1>>])
      <4>2. Len(built[at]) = longer + l /\ l \in Nat /\ l <= Set!SizeFunc(c.alg, x, y)
        BY <2>11, <3>5
      <4>3. Set!SizeFunc(c.alg, x + 1, y + 1) >= longer + Set!SizeFunc(c.alg, x, y)
        BY <4>1, SizeGrows
      <4>6. longer \in Nat /\ x + 1 \in Nat /\ y + 1 \in Nat
        BY <4>1
      <4> HIDE DEF longer, l
      <4>4. Set!SizeFunc(c.alg, x, y) \in Nat /\ Set!SizeFunc(c.alg, x + 1, y + 1) \in Nat /\ longer \in Nat
        BY <3>1, <4>1, <4>6, Zenon
      <4>5. Len(built[at]) <= Set!SizeFunc(c.alg, x + 1, y + 1)
        BY <4>2, <4>3, <4>4
      <4> QED BY <3>5, <4>5
    <3> QED BY <2>10, <3>2, <3>3, <3>4, <3>5
  <2> QED BY <2>1, <2>12 DEF p, q
<1>8. Nat \subseteq good
  <2> HIDE DEF short, good
  <2>1. 0 \in good
    BY <1>6 DEF good
  <2>2. ASSUME NEW r \in Nat, r \in good PROVE r + 1 \in good
    <3>1. ASSUME NEW at \in D, left[at] < r + 1 PROVE short(at)
      <4>1. \A d \in D : left[d] < left[at] => left[d] < r
        BY <1>6, <3>1
      <4> QED BY <1>7, <2>2, <4>1 DEF good
    <3> QED BY <3>1 DEF good
  <2> QED BY <2>1, <2>2, Induction
<1>9. short(<<b1, b2>>)
  <2> DEFINE r == left[<<b1, b2>>]
  <2>1. r \in Nat /\ r + 1 \in Nat /\ r < r + 1
    BY <1>1, <1>6
  <2> HIDE DEF short, r
  <2> QED BY <1>1, <1>8, <2>1 DEF good, r
<1> QED BY <1>3, <1>9
-------------------------------------------------------------------------------
(* Sorted sequences and the bounds in them.                                    *)
IsSequence(s, m) ==
  /\ m \in Nat /\ s \in [0..(m - 1) -> Int]
  /\ \A k, l \in 0..(m - 1) : k <= l => s[k] <= s[l]

LEMMA SortedSequences ==
  ASSUME NEW m \in Nat, NEW Keys, Keys \subseteq Int, NEW s \in Set!Sorted(m, Keys)
  PROVE  IsSequence(s, m)
<1>1. s \in [0..(m - 1) -> Int] /\ \A k \in 1..(m - 1) : s[k - 1] <= s[k]
  BY DEF Set!Sorted
<1>2. ASSUME NEW k \in 0..(m - 1)
      PROVE  Nat \subseteq {d \in Nat : k + d <= m - 1 => s[k] <= s[k + d]}
  <2> DEFINE good == {d \in Nat : k + d <= m - 1 => s[k] <= s[k + d]}
  <2>1. 0 \in good
    BY <1>1
  <2>2. ASSUME NEW d \in Nat, d \in good, k + (d + 1) <= m - 1 PROVE s[k] <= s[k + (d + 1)]
    <3>1. k + d \in 0..(m - 1) /\ k + (d + 1) \in 1..(m - 1) /\ (k + (d + 1)) - 1 = k + d /\ k + (d + 1) \in 0..(m - 1)
      BY <2>2
    <3>2. s[k] <= s[k + d] /\ s[k + d] <= s[k + (d + 1)]
      BY <1>1, <2>2, <3>1
    <3>3. s[k] \in Int /\ s[k + d] \in Int /\ s[k + (d + 1)] \in Int
      BY <1>1, <3>1
    <3> QED BY <3>2, <3>3
  <2>3. \A d \in Nat : d \in good => d + 1 \in good
    BY <2>2
  <2> HIDE DEF good
  <2>4. Nat \subseteq good
    BY <2>1, <2>3, Induction
  <2> QED BY <2>4 DEF good
<1>3. ASSUME NEW k \in 0..(m - 1), NEW l \in 0..(m - 1), k <= l PROVE s[k] <= s[l]
  <2>1. l - k \in Nat /\ k + (l - k) = l
    BY <1>3
  <2>2. l - k \in {d \in Nat : k + d <= m - 1 => s[k] <= s[k + d]}
    BY <1>2, <2>1
  <2> QED BY <2>1, <2>2
<1> QED BY <1>1, <1>3 DEF IsSequence

LEMMA SequenceSize ==
  ASSUME NEW s, NEW m, IsSequence(s, m)
  PROVE  Set!Size(s) = m
<1>1. DOMAIN s = 0..(m - 1) /\ m \in Nat
  BY DEF IsSequence
<1>2. Cardinality(0..(m - 1)) = m
  BY <1>1, FS_Interval
<1> QED BY <1>1, <1>2, SetCardinality DEF Set!Size

LEMMA InitialSegment ==
  ASSUME NEW i \in Nat, NEW j \in Nat, i <= j, NEW A, A \subseteq i..(j - 1),
         \A k \in A : \A l \in i..k : l \in A
  PROVE  /\ IsFiniteSet(A) /\ Cardinality(A) \in Nat
         /\ i + Cardinality(A) \in i..j
         /\ A = i..(i + Cardinality(A) - 1)
<1>1. {k \in i..j : k \notin A} \subseteq Nat /\ j \in {k \in i..j : k \notin A}
  OBVIOUS
<1>2. PICK x \in {k \in i..j : k \notin A} : \A y \in {k \in i..j : k \notin A} : x <= y
  BY <1>1, LeastNumber
<1>3. A = i..(x - 1)
  <2>1. ASSUME NEW k \in A PROVE k \in i..(x - 1)
    BY <1>2, <2>1
  <2>2. ASSUME NEW k \in i..(x - 1) PROVE k \in A
    BY <1>2
  <2> QED BY <2>1, <2>2
<1>4. IsFiniteSet(A) /\ Cardinality(A) = x - i
  <2>1. x \in Int /\ i \in Int /\ x - 1 \in Int /\ i <= x
    BY <1>2
  <2>2. IsFiniteSet(i..(x - 1)) /\ Cardinality(i..(x - 1)) = IF i > x - 1 THEN 0 ELSE (x - 1) - i + 1
    BY <2>1, FS_Interval
  <2> QED BY <1>3, <2>1, <2>2
<1> QED BY <1>2, <1>3, <1>4

LEMMA LowerBounds ==
  ASSUME NEW s, NEW m, IsSequence(s, m), NEW i \in Nat, NEW j \in 0..m, i <= j, NEW key \in Int
  PROVE  LET L == Set!LowerBound(s, i, j, key)
         IN  /\ L \in i..j
             /\ \A k \in i..(L - 1) : s[k] < key
             /\ \A k \in L..(j - 1) : s[k] >= key
<1> DEFINE A == {k \in i..(j - 1) : s[k] < key}
           L == i + Cardinality(A)
<1>1. Set!LowerBound(s, i, j, key) = L
  BY SetCardinality DEF Set!LowerBound
<1>2. \A k \in i..(j - 1) : s[k] \in Int
  BY DEF IsSequence
<1>3. \A k \in A : \A l \in i..k : l \in A
  BY <1>2 DEF IsSequence
<1>4. A \subseteq i..(j - 1) /\ \A k : k \in A <=> k \in i..(j - 1) /\ s[k] < key
  OBVIOUS
<1>5. L \in i..j /\ A = i..(L - 1)
  <2> HIDE DEF A
  <2> QED BY <1>3, <1>4, InitialSegment
<1> HIDE DEF A, L
<1>6. L \in i..j /\ (\A k \in i..(L - 1) : s[k] < key) /\ \A k \in L..(j - 1) : s[k] >= key
  BY <1>2, <1>4, <1>5
<1> QED BY <1>1, <1>6

LEMMA UpperBounds ==
  ASSUME NEW s, NEW m, IsSequence(s, m), NEW i \in Nat, NEW j \in 0..m, i <= j, NEW key \in Int
  PROVE  LET U == Set!UpperBound(s, i, j, key)
         IN  /\ U \in i..j
             /\ \A k \in i..(U - 1) : s[k] <= key
             /\ \A k \in U..(j - 1) : s[k] > key
<1> DEFINE A == {k \in i..(j - 1) : s[k] <= key}
           U == i + Cardinality(A)
<1>1. Set!UpperBound(s, i, j, key) = U
  BY SetCardinality DEF Set!UpperBound
<1>2. \A k \in i..(j - 1) : s[k] \in Int
  BY DEF IsSequence
<1>3. \A k \in A : \A l \in i..k : l \in A
  BY <1>2 DEF IsSequence
<1>4. A \subseteq i..(j - 1) /\ \A k : k \in A <=> k \in i..(j - 1) /\ s[k] <= key
  OBVIOUS
<1>5. U \in i..j /\ A = i..(U - 1)
  <2> HIDE DEF A
  <2> QED BY <1>3, <1>4, InitialSegment
<1> HIDE DEF A, U
<1>6. U \in i..j /\ (\A k \in i..(U - 1) : s[k] <= key) /\ \A k \in U..(j - 1) : s[k] > key
  BY <1>2, <1>4, <1>5
<1> QED BY <1>1, <1>6
-------------------------------------------------------------------------------
(* What a set operation plans, case by case.                                   *)
FormedSet(c, n1, n2) == c.alg \in Set!Algs /\ IsSequence(c.a, n1) /\ IsSequence(c.b, n2)

PlansCopies(p, n1, n2) ==
  /\ p.kind = "copies"
  /\ \/ p.copies = {}
     \/ p.copies = {Set!Copy(1, 0, n1, 0)}
     \/ p.copies = {Set!Copy(2, 0, n2, 0)}
     \/ p.copies = {Set!Copy(1, 0, n1, 0), Set!Copy(2, 0, n2, n1)}
     \/ p.copies = {Set!Copy(2, 0, n2, 0), Set!Copy(1, 0, n1, n2)}

PlansSetOp(c, p, n1, n2) ==
  /\ p.kind = "set_op" /\ p.a0 \in 0..n1 /\ p.b0 \in 0..n2
  /\ p.swap \in BOOLEAN
  /\ p.swap => c.alg = "intersection"
  /\ \/ p.copies = {} /\ p.at = 0
     \/ p.copies = {Set!Copy(1, 0, p.at, 0)} /\ p.a0 = p.at /\ p.b0 = 0
     \/ p.copies = {Set!Copy(2, 0, p.at, 0)} /\ p.a0 = 0 /\ p.b0 = p.at

LEMMA Plans ==
  ASSUME NEW c, NEW n1, NEW n2, FormedSet(c, n1, n2)
  PROVE  LET p == Set!Plan(c)
         IN  p.kind = "serial" \/ PlansCopies(p, n1, n2) \/ PlansSetOp(c, p, n1, n2)
<1> DEFINE lb1 == IF n2 = 0 THEN 0 ELSE Set!LowerBound(c.a, 0, n1, c.b[0])
           lb2 == IF n1 = 0 THEN 0 ELSE Set!LowerBound(c.b, 0, n2, c.a[0])
           p == Set!Plan(c)
           planned(q) == q.kind = "serial" \/ PlansCopies(q, n1, n2) \/ PlansSetOp(c, q, n1, n2)
<1>1. n1 \in Nat /\ n2 \in Nat /\ Set!Size(c.a) = n1 /\ Set!Size(c.b) = n2
  BY SequenceSize DEF FormedSet, IsSequence
<1>2. lb1 \in 0..n1
  <2>1. n2 # 0 => c.b[0] \in Int
    <3>1. n2 # 0 => 0 \in 0..(n2 - 1)
      BY <1>1
    <3>2. c.b \in [0..(n2 - 1) -> Int]
      BY DEF FormedSet, IsSequence
    <3> QED BY <3>1, <3>2
  <2>2. 0 \in Nat /\ n1 \in 0..n1 /\ 0 <= n1 /\ IsSequence(c.a, n1)
    BY <1>1 DEF FormedSet
  <2>3. ASSUME n2 # 0 PROVE Set!LowerBound(c.a, 0, n1, c.b[0]) \in 0..n1
    BY <2>1, <2>2, <2>3, LowerBounds
  <2> QED BY <1>1, <2>3
<1>3. lb2 \in 0..n2
  <2>1. n1 # 0 => c.a[0] \in Int
    <3>1. n1 # 0 => 0 \in 0..(n1 - 1)
      BY <1>1
    <3>2. c.a \in [0..(n1 - 1) -> Int]
      BY DEF FormedSet, IsSequence
    <3> QED BY <3>1, <3>2
  <2>2. 0 \in Nat /\ n2 \in 0..n2 /\ 0 <= n2 /\ IsSequence(c.b, n2)
    BY <1>1 DEF FormedSet
  <2>3. ASSUME n1 # 0 PROVE Set!LowerBound(c.b, 0, n2, c.a[0]) \in 0..n2
    BY <2>1, <2>2, <2>3, LowerBounds
  <2> QED BY <1>1, <2>3
<1>4. p = CASE c.alg = "intersection" -> Set!IntersectionPlan(c, n1, n2, lb1, lb2)
            [] c.alg = "difference"   -> Set!DifferencePlan(c, n1, n2, lb1, lb2)
            [] OTHER -> IF n1 + n2 <= SetCutOff THEN Set!Serial ELSE Set!UnionPlan(c, n1, n2, lb1, lb2)
  BY <1>1, Zenon DEF Set!Plan
<1> HIDE DEF lb1, lb2, p
<1> USE DEF Set!Serial, Set!Copies, Set!SetOp
<1>5. planned(Set!Serial)
  OBVIOUS
<1>6. \A l : /\ planned(Set!Copies({}, l))
             /\ planned(Set!Copies({Set!Copy(1, 0, n1, 0)}, l))
             /\ planned(Set!Copies({Set!Copy(2, 0, n2, 0)}, l))
             /\ planned(Set!Copies({Set!Copy(1, 0, n1, 0), Set!Copy(2, 0, n2, n1)}, l))
             /\ planned(Set!Copies({Set!Copy(2, 0, n2, 0), Set!Copy(1, 0, n1, n2)}, l))
  BY DEF PlansCopies
<1>7. ASSUME NEW a0 \in 0..n1, NEW b0 \in 0..n2
      PROVE  /\ planned(Set!SetOp({}, 0, a0, b0))
             /\ planned(Set!SetOp({Set!Copy(1, 0, a0, 0)}, a0, a0, 0))
             /\ planned(Set!SetOp({Set!Copy(2, 0, b0, 0)}, b0, 0, b0))
             /\ c.alg = "intersection" => planned([Set!SetOp({}, 0, a0, b0) EXCEPT !.swap = TRUE])
  BY <1>1 DEF PlansSetOp
<1>8. 0 \in 0..n1 /\ 0 \in 0..n2
  BY <1>1
<1> HIDE DEF Set!Serial, Set!Copies, Set!SetOp, planned
<1>9. c.alg = "intersection" => planned(Set!IntersectionPlan(c, n1, n2, lb1, lb2))
  BY <1>2, <1>3, <1>5, <1>6, <1>7, <1>8, Zenon DEF Set!IntersectionPlan
<1>10. planned(Set!DifferencePlan(c, n1, n2, lb1, lb2))
  BY <1>2, <1>3, <1>5, <1>6, <1>7, <1>8, Zenon DEF Set!DifferencePlan
<1>11. planned(Set!UnionPlan(c, n1, n2, lb1, lb2))
  BY <1>2, <1>3, <1>5, <1>6, <1>7, <1>8, Zenon DEF Set!UnionPlan
<1>12. planned(p)
  BY <1>4, <1>5, <1>9, <1>10, <1>11
<1> QED BY <1>12 DEF planned, p

LEMMA SizesAdd ==
  ASSUME NEW alg \in Set!Algs, NEW x \in Nat, NEW y \in Nat, NEW dx \in Nat, NEW dy \in Nat
  PROVE  Set!SizeFunc(alg, x + dx, y + dy) >= Set!SizeFunc(alg, x, y) + Set!SizeFunc(alg, dx, dy)
<1> USE DEF Set!Algs, Set!SizeFunc
<1>1. CASE alg = "union"
  BY <1>1
<1>2. CASE alg = "intersection"
  BY <1>2
<1>3. CASE alg = "difference"
  BY <1>3
<1>4. CASE alg = "symmetric_difference"
  BY <1>4
<1> QED BY <1>1, <1>2, <1>3, <1>4

(* Where the block that begins at place k really begins, in both sequences, and *)
(* in the buffer.                                                              *)
Cut(c, p, k) == IF k = 0 THEN p.a0 ELSE Set!BlockEnd(c, p, k)

Low(c, p, k) ==
  IF k = 0 THEN p.b0
  ELSE IF Cut(c, p, k) = Set!Size(c.a) THEN Set!Size(c.b)
  ELSE Set!LowerBound(c.b, p.b0, Set!Size(c.b), c.a[Cut(c, p, k)])

StartOf(c, p, k) == Set!SizeFunc(c.alg, Cut(c, p, k) - p.a0, Low(c, p, k) - p.b0)

LEMMA CutPlace ==
  ASSUME NEW c, NEW n1, NEW n2, FormedSet(c, n1, n2), NEW p, PlansSetOp(c, p, n1, n2),
         NEW k \in 0..(n1 - p.a0)
  PROVE  /\ Cut(c, p, k) \in Nat /\ Cut(c, p, k) \in (p.a0 + k)..n1
         /\ k # 0 => \/ p.a0 + k = n1 /\ Cut(c, p, k) = n1
                     \/ /\ p.a0 + k < n1
                        /\ \A x \in (p.a0 + k)..(Cut(c, p, k) - 1) : c.a[x] <= c.a[p.a0 + k]
                        /\ \A x \in Cut(c, p, k)..(n1 - 1) : c.a[x] > c.a[p.a0 + k]
<1>1. n1 \in Nat /\ n2 \in Nat /\ Set!Size(c.a) = n1 /\ Set!Size(c.b) = n2 /\ p.a0 \in 0..n1
  BY SequenceSize DEF FormedSet, IsSequence, PlansSetOp
<1>2. CASE k = 0
  BY <1>1, <1>2 DEF Cut
<1>3. CASE k # 0 /\ p.a0 + k = n1
  <2>1. Cut(c, p, k) = n1
    BY <1>1, <1>3 DEF Cut, Set!BlockEnd
  <2> QED BY <1>1, <1>3, <2>1
<1>4. CASE k # 0 /\ p.a0 + k # n1
  <2> DEFINE e == p.a0 + k
             U == Set!UpperBound(c.a, e, n1, c.a[e])
  <2>1. Cut(c, p, k) = U
    BY <1>1, <1>4 DEF Cut, Set!BlockEnd
  <2>2. e \in Nat /\ e < n1 /\ n1 \in 0..n1 /\ e <= n1 /\ IsSequence(c.a, n1)
    BY <1>1, <1>4 DEF FormedSet
  <2>3. c.a[e] \in Int
    BY <2>2 DEF IsSequence
  <2>4. U \in e..n1 /\ (\A x \in e..(U - 1) : c.a[x] <= c.a[e]) /\ \A x \in U..(n1 - 1) : c.a[x] > c.a[e]
    <3> HIDE DEF e
    <3> QED BY <2>2, <2>3, UpperBounds
  <2> HIDE DEF U
  <2> QED BY <2>1, <2>2, <2>4
<1> QED BY <1>2, <1>3, <1>4

LEMMA CutsRise ==
  ASSUME NEW c, NEW n1, NEW n2, FormedSet(c, n1, n2), NEW p, PlansSetOp(c, p, n1, n2),
         NEW k \in 0..(n1 - p.a0), NEW l \in 0..(n1 - p.a0), k <= l
  PROVE  Cut(c, p, k) <= Cut(c, p, l)
<1> DEFINE x == Cut(c, p, k)
           y == Cut(c, p, l)
<1>0. k \in Nat /\ l \in Nat /\ k <= l
  BY DEF FormedSet, IsSequence, PlansSetOp
<1>1. n1 \in Nat /\ p.a0 \in Nat /\ c.a \in [0..(n1 - 1) -> Int]
      /\ \A i, j \in 0..(n1 - 1) : i <= j => c.a[i] <= c.a[j]
  BY DEF FormedSet, IsSequence, PlansSetOp
<1>2. /\ x \in Nat /\ x \in (p.a0 + k)..n1
      /\ k # 0 => \/ p.a0 + k = n1 /\ x = n1
                  \/ /\ p.a0 + k < n1
                     /\ \A z \in (p.a0 + k)..(x - 1) : c.a[z] <= c.a[p.a0 + k]
                     /\ \A z \in x..(n1 - 1) : c.a[z] > c.a[p.a0 + k]
  BY CutPlace
<1>3. /\ y \in Nat /\ y \in (p.a0 + l)..n1
      /\ l # 0 => \/ p.a0 + l = n1 /\ y = n1
                  \/ /\ p.a0 + l < n1
                     /\ \A z \in (p.a0 + l)..(y - 1) : c.a[z] <= c.a[p.a0 + l]
                     /\ \A z \in y..(n1 - 1) : c.a[z] > c.a[p.a0 + l]
  BY CutPlace
<1>4. CASE k = 0
  <2>1. x = p.a0
    BY <1>4 DEF Cut
  <2> HIDE DEF x, y
  <2>2. x <= y
    BY <1>0, <1>1, <1>3, <2>1
  <2> QED BY <2>2 DEF x, y
<1>5. CASE k # 0
  <2> HIDE DEF x, y
  <2> SUFFICES ASSUME y < x PROVE FALSE
    BY <1>2, <1>3 DEF x, y
  <2>1. l # 0 /\ y < n1 /\ p.a0 + l < n1 /\ p.a0 + k < n1 /\ y \in (p.a0 + k)..(x - 1) /\ y \in y..(n1 - 1)
    BY <1>1, <1>2, <1>3, <1>5
  <2>2. c.a[y] <= c.a[p.a0 + k] /\ c.a[y] > c.a[p.a0 + l]
    BY <1>2, <1>3, <1>5, <2>1
  <2>3. c.a[p.a0 + k] <= c.a[p.a0 + l] /\ c.a[y] \in Int /\ c.a[p.a0 + k] \in Int /\ c.a[p.a0 + l] \in Int
    <3>1. p.a0 + k \in 0..(n1 - 1) /\ p.a0 + l \in 0..(n1 - 1) /\ p.a0 + k <= p.a0 + l
      <4>1. \A a \in Nat : a + k \in Nat /\ a + l \in Nat /\ a + k <= a + l
        BY <1>0
      <4>2. \A a \in Nat : a < n1 => a \in 0..(n1 - 1)
        BY <1>1
      <4> QED BY <1>1, <2>1, <4>1, <4>2
    <3>2. y \in 0..(n1 - 1)
      BY <1>1, <1>3, <2>1
    <3> QED BY <1>1, <3>1, <3>2
  <2> QED BY <2>2, <2>3
<1> QED BY <1>4, <1>5

LEMMA LowPlace ==
  ASSUME NEW c, NEW n1, NEW n2, FormedSet(c, n1, n2), NEW p, PlansSetOp(c, p, n1, n2),
         NEW k \in 0..(n1 - p.a0)
  PROVE  /\ Low(c, p, k) \in Nat /\ Low(c, p, k) \in p.b0..n2
         /\ k # 0 => \/ Cut(c, p, k) = n1 /\ Low(c, p, k) = n2
                     \/ /\ Cut(c, p, k) < n1
                        /\ \A x \in p.b0..(Low(c, p, k) - 1) : c.b[x] < c.a[Cut(c, p, k)]
                        /\ \A x \in Low(c, p, k)..(n2 - 1) : c.b[x] >= c.a[Cut(c, p, k)]
<1>1. n1 \in Nat /\ n2 \in Nat /\ Set!Size(c.a) = n1 /\ Set!Size(c.b) = n2 /\ p.b0 \in 0..n2 /\ p.a0 \in 0..n1
  BY SequenceSize DEF FormedSet, IsSequence, PlansSetOp
<1>2. CASE k = 0
  BY <1>1, <1>2 DEF Low
<1>3. CASE k # 0 /\ Cut(c, p, k) = n1
  <2>1. Low(c, p, k) = n2
    BY <1>1, <1>3 DEF Low
  <2> QED BY <1>1, <1>3, <2>1
<1>4. CASE k # 0 /\ Cut(c, p, k) # n1
  <2> DEFINE e == Cut(c, p, k)
             L == Set!LowerBound(c.b, p.b0, n2, c.a[e])
  <2>1. Low(c, p, k) = L
    BY <1>1, <1>4 DEF Low
  <2>2. e \in 0..(n1 - 1)
    <3>1. e \in Nat /\ e \in (p.a0 + k)..n1
      BY CutPlace
    <3> QED BY <1>1, <1>4, <3>1
  <2> HIDE DEF e
  <2>3. c.a[e] \in Int /\ p.b0 \in Nat /\ n2 \in 0..n2 /\ p.b0 <= n2 /\ IsSequence(c.b, n2)
    BY <1>1, <2>2 DEF IsSequence, FormedSet
  <2>4. L \in p.b0..n2 /\ (\A x \in p.b0..(L - 1) : c.b[x] < c.a[e]) /\ \A x \in L..(n2 - 1) : c.b[x] >= c.a[e]
    BY <2>3, LowerBounds
  <2> HIDE DEF L
  <2>5. e < n1 /\ L \in Nat
    BY <1>1, <2>2, <2>4
  <2> QED BY <2>1, <2>4, <2>5 DEF e
<1> QED BY <1>2, <1>3, <1>4

LEMMA LowsRise ==
  ASSUME NEW c, NEW n1, NEW n2, FormedSet(c, n1, n2), NEW p, PlansSetOp(c, p, n1, n2),
         NEW k \in 0..(n1 - p.a0), NEW l \in 0..(n1 - p.a0), k <= l
  PROVE  Low(c, p, k) <= Low(c, p, l)
<1> DEFINE x == Low(c, p, k)
           y == Low(c, p, l)
           u == Cut(c, p, k)
           v == Cut(c, p, l)
<1>0. k \in Nat /\ l \in Nat /\ k <= l
  BY DEF FormedSet, IsSequence, PlansSetOp
<1>1. n1 \in Nat /\ n2 \in Nat /\ p.b0 \in Nat /\ c.a \in [0..(n1 - 1) -> Int] /\ c.b \in [0..(n2 - 1) -> Int]
      /\ \A i, j \in 0..(n1 - 1) : i <= j => c.a[i] <= c.a[j]
  BY DEF FormedSet, IsSequence, PlansSetOp
<1>2. /\ x \in Nat /\ x \in p.b0..n2
      /\ k # 0 => \/ u = n1 /\ x = n2
                  \/ /\ u < n1
                     /\ \A z \in p.b0..(x - 1) : c.b[z] < c.a[u]
                     /\ \A z \in x..(n2 - 1) : c.b[z] >= c.a[u]
  BY LowPlace
<1>3. /\ y \in Nat /\ y \in p.b0..n2
      /\ l # 0 => \/ v = n1 /\ y = n2
                  \/ /\ v < n1
                     /\ \A z \in p.b0..(y - 1) : c.b[z] < c.a[v]
                     /\ \A z \in y..(n2 - 1) : c.b[z] >= c.a[v]
  BY LowPlace
<1>4. u \in Nat /\ v \in Nat /\ u <= v
  BY CutPlace, CutsRise
<1>5. CASE k = 0
  <2>1. x = p.b0
    BY <1>5 DEF Low
  <2> HIDE DEF x, y
  <2>2. x <= y
    BY <1>0, <1>1, <1>3, <2>1
  <2> QED BY <2>2 DEF x, y
<1>6. CASE k # 0
  <2> HIDE DEF x, y, u, v
  <2> SUFFICES ASSUME y < x PROVE FALSE
    BY <1>2, <1>3 DEF x, y
  <2>1. l # 0 /\ y < n2 /\ v < n1 /\ u < n1 /\ y \in p.b0..(x - 1) /\ y \in y..(n2 - 1)
    BY <1>0, <1>1, <1>2, <1>3, <1>4, <1>6
  <2>2. c.b[y] < c.a[u] /\ c.b[y] >= c.a[v]
    <3>1. u # n1 /\ v # n1
      BY <1>1, <1>4, <2>1
    <3> QED BY <1>2, <1>3, <1>6, <2>1, <3>1, Zenon
  <2>3. c.a[u] <= c.a[v] /\ c.b[y] \in Int /\ c.a[u] \in Int /\ c.a[v] \in Int
    <3>1. u \in 0..(n1 - 1) /\ v \in 0..(n1 - 1) /\ y \in 0..(n2 - 1)
      BY <1>1, <1>3, <1>4, <2>1
    <3> QED BY <1>1, <1>4, <3>1
  <2> QED BY <2>2, <2>3
<1> QED BY <1>5, <1>6

(* The starts of the blocks in the buffer.                                     *)
LEMMA Starts ==
  ASSUME NEW c, NEW n1, NEW n2, FormedSet(c, n1, n2), NEW p, PlansSetOp(c, p, n1, n2)
  PROVE  LET n == n1 - p.a0
             room == Set!SizeFunc(c.alg, n, n2 - p.b0)
         IN  /\ n \in Nat /\ room \in Nat
             /\ \A k \in 0..n : StartOf(c, p, k) \in 0..room
             /\ \A k, l \in 0..n : k <= l =>
                  LET s == Set!SizeFunc(c.alg, Cut(c, p, l) - Cut(c, p, k), Low(c, p, l) - Low(c, p, k))
                  IN  s \in Nat /\ StartOf(c, p, k) + s <= StartOf(c, p, l)
<1> DEFINE n == n1 - p.a0
           size(x, y) == Set!SizeFunc(c.alg, x, y)
           room == size(n, n2 - p.b0)
<1>1. n1 \in Nat /\ n2 \in Nat /\ p.b0 \in 0..n2 /\ p.a0 \in 0..n1 /\ c.alg \in Set!Algs
  BY DEF FormedSet, IsSequence, PlansSetOp
<1>2. n \in Nat /\ n2 - p.b0 \in Nat
  BY <1>1
<1>3. \A x, y \in Nat : size(x, y) \in Nat
  BY <1>1, SizeGrows
<1>4. ASSUME NEW x \in Nat, NEW y \in Nat, NEW dx \in Nat, NEW dy \in Nat
      PROVE  /\ size(x, y) \in Nat /\ size(dx, dy) \in Nat /\ size(x + dx, y + dy) \in Nat
             /\ size(x + dx, y + dy) >= size(x, y) + size(dx, dy)
  <2>1. x + dx \in Nat /\ y + dy \in Nat
    OBVIOUS
  <2> QED BY <1>1, <2>1, SizeGrows, SizesAdd
<1>5. ASSUME NEW k \in 0..n
      PROVE  /\ Cut(c, p, k) \in Nat /\ Cut(c, p, k) - p.a0 \in Nat /\ n1 - Cut(c, p, k) \in Nat
             /\ Low(c, p, k) \in Nat /\ Low(c, p, k) - p.b0 \in Nat /\ n2 - Low(c, p, k) \in Nat
  <2>1. Cut(c, p, k) \in Nat /\ Cut(c, p, k) \in (p.a0 + k)..n1
    BY CutPlace
  <2>2. Low(c, p, k) \in Nat /\ Low(c, p, k) \in p.b0..n2
    BY LowPlace
  <2> QED BY <1>1, <2>1, <2>2
<1> HIDE DEF size
<1>6. ASSUME NEW k \in 0..n PROVE StartOf(c, p, k) \in 0..room
  <2> DEFINE x == Cut(c, p, k) - p.a0
             y == Low(c, p, k) - p.b0
             dx == n1 - Cut(c, p, k)
             dy == n2 - Low(c, p, k)
  <2>1. x \in Nat /\ y \in Nat /\ dx \in Nat /\ dy \in Nat
    BY <1>5
  <2>2. n = x + dx /\ n2 - p.b0 = y + dy
    BY <1>1, <1>5
  <2>3. StartOf(c, p, k) = size(x, y)
    BY DEF StartOf, size
  <2> HIDE DEF x, y, dx, dy
  <2>4. size(x, y) \in Nat /\ size(dx, dy) \in Nat /\ size(x + dx, y + dy) \in Nat
        /\ size(x + dx, y + dy) >= size(x, y) + size(dx, dy)
    BY <1>4, <2>1, Zenon
  <2> QED BY <2>2, <2>3, <2>4
<1>7. ASSUME NEW k \in 0..n, NEW l \in 0..n, k <= l
      PROVE  LET s == size(Cut(c, p, l) - Cut(c, p, k), Low(c, p, l) - Low(c, p, k))
             IN  s \in Nat /\ StartOf(c, p, k) + s <= StartOf(c, p, l)
  <2> DEFINE x == Cut(c, p, k) - p.a0
             y == Low(c, p, k) - p.b0
             dx == Cut(c, p, l) - Cut(c, p, k)
             dy == Low(c, p, l) - Low(c, p, k)
  <2>1. Cut(c, p, k) <= Cut(c, p, l) /\ Low(c, p, k) <= Low(c, p, l)
    BY <1>7, CutsRise, LowsRise
  <2>2. x \in Nat /\ y \in Nat /\ dx \in Nat /\ dy \in Nat
    BY <1>5, <2>1
  <2>3. Cut(c, p, l) - p.a0 = x + dx /\ Low(c, p, l) - p.b0 = y + dy
    BY <1>1, <1>5
  <2>4. StartOf(c, p, k) = size(x, y) /\ StartOf(c, p, l) = size(x + dx, y + dy)
    BY <2>3 DEF StartOf, size
  <2> HIDE DEF x, y
  <2>5. size(x, y) \in Nat /\ size(dx, dy) \in Nat /\ size(x + dx, y + dy) \in Nat
        /\ size(x + dx, y + dy) >= size(x, y) + size(dx, dy)
    <3> HIDE DEF dx, dy
    <3> QED BY <1>4, <2>2, Zenon
  <2> QED BY <2>4, <2>5
<1>8. room \in Nat
  BY <1>2, <1>3
<1> QED BY <1>2, <1>6, <1>7, <1>8 DEF size

(* The lower bound from a later place, when what is left out is less too.       *)
LEMMA SameLowerBound ==
  ASSUME NEW s, NEW m, IsSequence(s, m), NEW i \in Nat, NEW l \in i..m, NEW key \in Int,
         \A k \in i..(l - 1) : s[k] < key
  PROVE  Set!LowerBound(s, l, m, key) = Set!LowerBound(s, i, m, key)
<1> DEFINE x == Set!LowerBound(s, l, m, key)
           y == Set!LowerBound(s, i, m, key)
<1>1. m \in Nat /\ l \in Nat /\ i <= m /\ l <= m /\ m \in 0..m /\ s \in [0..(m - 1) -> Int]
  BY DEF IsSequence
<1>2. x \in l..m /\ (\A k \in l..(x - 1) : s[k] < key) /\ \A k \in x..(m - 1) : s[k] >= key
  BY <1>1, LowerBounds
<1>3. y \in i..m /\ (\A k \in i..(y - 1) : s[k] < key) /\ \A k \in y..(m - 1) : s[k] >= key
  BY <1>1, LowerBounds
<1> HIDE DEF x, y
<1>4. \A k \in 0..(m - 1) : s[k] \in Int
  BY <1>1
<1>5. ~(x < y)
  <2> SUFFICES ASSUME x < y PROVE FALSE
    OBVIOUS
  <2>1. x \in x..(m - 1) /\ x \in i..(y - 1) /\ x \in 0..(m - 1)
    BY <1>1, <1>2, <1>3
  <2> QED BY <1>2, <1>3, <1>4, <2>1
<1>6. ~(y < x)
  <2> SUFFICES ASSUME y < x PROVE FALSE
    OBVIOUS
  <2>1. y \in y..(m - 1) /\ y \in 0..(m - 1) /\ (y \in l..(x - 1) \/ y \in i..(l - 1))
    BY <1>1, <1>2, <1>3
  <2>2. s[y] < key /\ s[y] >= key
    BY <1>2, <1>3, <2>1
  <2> QED BY <1>4, <2>1, <2>2
<1>7. x = y
  BY <1>1, <1>2, <1>3, <1>5, <1>6
<1> QED BY <1>7 DEF x, y

(* What reduce builds for a block: of the part of the sequences between its ends.  *)
Reducing(c, p, i, j) ==
  IF Cut(c, p, j) - Cut(c, p, i) < 1 THEN <<>>
  ELSE IF p.swap THEN Set!Construct(c, 2, 1, Low(c, p, i), Low(c, p, j), Cut(c, p, i), Cut(c, p, j))
  ELSE Set!Construct(c, 1, 2, Cut(c, p, i), Cut(c, p, j), Low(c, p, i), Low(c, p, j))

LEMMA ReduceIs ==
  ASSUME NEW c, NEW n1, NEW n2, FormedSet(c, n1, n2), NEW p, PlansSetOp(c, p, n1, n2),
         NEW i \in 0..(n1 - p.a0), NEW j \in 0..(n1 - p.a0), i < j
  PROVE  /\ Set!Reduce(c, p, i, j) =
              <<Reducing(c, p, i, j), Set!SetRange(0, Len(Reducing(c, p, i, j)), StartOf(c, p, i))>>
         /\ Cut(c, p, j) - Cut(c, p, i) < 1 => i # 0
<1> DEFINE b == Cut(c, p, i)
           e == Cut(c, p, j)
           bb == Low(c, p, i)
           ee == Low(c, p, j)
           res == Reducing(c, p, i, j)
<1>1. n1 \in Nat /\ n2 \in Nat /\ p.b0 \in 0..n2 /\ p.a0 \in 0..n1 /\ c.alg \in Set!Algs
      /\ Set!Size(c.a) = n1 /\ Set!Size(c.b) = n2 /\ i \in Nat /\ j \in Nat /\ i <= j /\ j # 0
  <2>1. Set!Size(c.a) = n1 /\ Set!Size(c.b) = n2 /\ c.alg \in Set!Algs
    BY SequenceSize DEF FormedSet
  <2>2. n1 \in Nat /\ n2 \in Nat /\ p.b0 \in 0..n2 /\ p.a0 \in 0..n1
    BY DEF FormedSet, IsSequence, PlansSetOp
  <2> QED BY <2>1, <2>2
<1>2. b \in Nat /\ e \in Nat /\ bb \in Nat /\ ee \in Nat /\ b <= e /\ bb <= ee /\ e <= n1 /\ bb \in p.b0..n2
  BY <1>1, CutPlace, LowPlace, CutsRise, LowsRise
<1>3. Set!BlockBegin(c, p, i) = b
  BY <1>1 DEF Cut, Set!BlockBegin, Set!BlockEnd
<1>4. Set!BlockEnd(c, p, j) = e
  BY <1>1 DEF Cut
<1>5. CASE e - b < 1
  <2>1. i # 0
    <3>1. j # 0 /\ e \in (p.a0 + j)..n1
      BY <1>1, CutPlace
    <3>2. i = 0 => b = p.a0
      BY DEF Cut
    <3> HIDE DEF e, b
    <3> QED BY <1>1, <1>2, <1>5, <3>1, <3>2
  <2>2. bb = IF b = n1 THEN n2 ELSE Set!LowerBound(c.b, p.b0, n2, c.a[b])
    BY <1>1, <2>1 DEF Low
  <2>3. Set!Reduce(c, p, i, j) = <<<<>>, Set!SetRange(0, 0, Set!SizeFunc(c.alg, b - p.a0, bb - p.b0))>>
    <3> HIDE DEF b, e, bb
    <3> QED BY <1>1, <1>3, <1>4, <1>5, <2>2, Zenon DEF Set!Reduce
  <2>4. StartOf(c, p, i) = Set!SizeFunc(c.alg, b - p.a0, bb - p.b0)
    BY DEF StartOf
  <2>5. res = <<>> /\ Len(<<>>) = 0
    BY <1>5 DEF Reducing
  <2> HIDE DEF b, e, bb, ee, res
  <2>6. Set!Reduce(c, p, i, j) = <<res, Set!SetRange(0, Len(res), StartOf(c, p, i))>>
    BY <2>3, <2>4, <2>5
  <2> QED BY <2>1, <2>6 DEF res
<1>6. CASE ~(e - b < 1)
  <2> DEFINE lo == IF i = 0 THEN p.b0 ELSE Set!LowerBound(c.b, p.b0, n2, c.a[b])
             hi == IF e = n1 THEN n2 ELSE Set!LowerBound(c.b, lo, n2, c.a[e])
             built == IF p.swap THEN Set!Construct(c, 2, 1, lo, hi, b, e)
                                ELSE Set!Construct(c, 1, 2, b, e, lo, hi)
  <2>1. b < n1 /\ b < e
    <3> HIDE DEF b, e
    <3> QED BY <1>1, <1>2, <1>6
  <2>2. lo = bb
    BY <1>1, <2>1 DEF Low
  <2>3. hi = ee
    <3>1. CASE e = n1
      BY <1>1, <3>1 DEF Low
    <3>2. CASE e # n1
      <4> HIDE DEF b, e, bb, ee
      <4>1. e \in 0..(n1 - 1) /\ b \in 0..(n1 - 1)
        BY <1>1, <1>2, <2>1, <3>2
      <4>2. c.a[e] \in Int /\ c.a[b] \in Int /\ c.a[b] <= c.a[e] /\ IsSequence(c.b, n2) /\ c.b \in [0..(n2 - 1) -> Int]
        BY <1>2, <4>1 DEF FormedSet, IsSequence
      <4>3. p.b0 \in Nat /\ bb \in p.b0..n2
        BY <1>1, <1>2
      <4>4. \A k \in p.b0..(bb - 1) : c.b[k] < c.a[e]
        <5>1. CASE i = 0
          <6>1. bb = p.b0
            BY <5>1 DEF bb, Low
          <6> QED BY <4>3, <6>1
        <5>2. CASE i # 0
          <6>1. \A k \in p.b0..(bb - 1) : c.b[k] < c.a[b]
            BY <1>1, <1>2, <2>1, <5>2, LowPlace DEF bb, b
          <6>2. \A k \in p.b0..(bb - 1) : c.b[k] \in Int
            BY <1>1, <4>2, <4>3
          <6> QED BY <4>2, <6>1, <6>2
        <5> QED BY <5>1, <5>2
      <4>5. Set!LowerBound(c.b, bb, n2, c.a[e]) = Set!LowerBound(c.b, p.b0, n2, c.a[e])
        BY <4>2, <4>3, <4>4, SameLowerBound
      <4>6. ee = Set!LowerBound(c.b, p.b0, n2, c.a[e])
        BY <1>1, <3>2 DEF ee, e, Low
      <4> QED BY <2>2, <3>2, <4>5, <4>6
    <3> QED BY <3>1, <3>2
  <2>4. Set!Reduce(c, p, i, j) = <<built, Set!SetRange(0, Len(built), Set!SizeFunc(c.alg, b - p.a0, lo - p.b0))>>
    <3> HIDE DEF b, e, bb, ee
    <3> QED BY <1>1, <1>3, <1>4, <1>6, Zenon DEF Set!Reduce
  <2>5. StartOf(c, p, i) = Set!SizeFunc(c.alg, b - p.a0, lo - p.b0)
    BY <2>2 DEF StartOf
  <2>6. res = built
    BY <1>6, <2>2, <2>3 DEF Reducing
  <2> HIDE DEF b, e, bb, ee, res, built, lo, hi
  <2>7. Set!Reduce(c, p, i, j) = <<res, Set!SetRange(0, Len(res), StartOf(c, p, i))>>
    BY <2>4, <2>5, <2>6
  <2> QED BY <1>6, <2>7 DEF b, e, res
<1> QED BY <1>5, <1>6

(* The elements a block contributes fit between its start and the next one's.   *)
LEMMA BlocksFit ==
  ASSUME NEW c, NEW n1, NEW n2, FormedSet(c, n1, n2), NEW p, PlansSetOp(c, p, n1, n2),
         NEW i \in 0..(n1 - p.a0), NEW j \in 0..(n1 - p.a0), i < j
  PROVE  \E res \in Seq(Items) :
           /\ Set!Reduce(c, p, i, j) = <<res, Set!SetRange(0, Len(res), StartOf(c, p, i))>>
           /\ Len(res) \in Nat /\ StartOf(c, p, i) + Len(res) <= StartOf(c, p, j)
<1> DEFINE b == Cut(c, p, i)
           e == Cut(c, p, j)
           bb == Low(c, p, i)
           ee == Low(c, p, j)
           s == Set!SizeFunc(c.alg, e - b, ee - bb)
           res == Reducing(c, p, i, j)
<1>1. c.alg \in Set!Algs /\ i <= j
  BY DEF FormedSet, IsSequence, PlansSetOp
<1>2. b \in Nat /\ e \in Nat /\ bb \in Nat /\ ee \in Nat /\ b <= e /\ bb <= ee
  BY <1>1, CutPlace, LowPlace, CutsRise, LowsRise
<1>3. s \in Nat /\ StartOf(c, p, i) + s <= StartOf(c, p, j)
  BY <1>1, Starts
<1>4. StartOf(c, p, i) \in Nat /\ StartOf(c, p, j) \in Nat
  BY Starts
<1>5. Set!Reduce(c, p, i, j) = <<res, Set!SetRange(0, Len(res), StartOf(c, p, i))>>
  BY ReduceIs
<1>6. res = IF e - b < 1 THEN <<>> ELSE IF p.swap THEN Set!Construct(c, 2, 1, bb, ee, b, e)
                                   ELSE Set!Construct(c, 1, 2, b, e, bb, ee)
  BY DEF Reducing
<1> HIDE DEF b, e, bb, ee, res
<1>7. res \in Seq(Items) /\ Len(res) \in Nat /\ Len(res) <= s
  <2>1. CASE e - b < 1
    BY <1>3, <1>6, <2>1
  <2>2. CASE ~(e - b < 1) /\ ~p.swap
    BY <1>1, <1>2, <1>6, <2>2, Constructed, SMTT(30)
  <2>3. CASE ~(e - b < 1) /\ p.swap
    <3>1. c.alg = "intersection"
      BY <2>3 DEF PlansSetOp
    <3>2. Set!SizeFunc(c.alg, ee - bb, e - b) = s
      BY <1>2, <3>1 DEF Set!SizeFunc
    <3> HIDE DEF s
    <3> QED BY <1>1, <1>2, <1>6, <2>3, <3>2, Constructed, SMTT(30)
  <2> QED BY <2>1, <2>2, <2>3
<1> HIDE DEF s
<1>8. StartOf(c, p, i) + Len(res) <= StartOf(c, p, j)
  BY <1>3, <1>4, <1>7
<1> QED BY <1>5, <1>7, <1>8
-------------------------------------------------------------------------------
(* The masked copies: what the mask says of an element, and how many of some     *)
(* elements have a mark.                                                        *)
FormedMask(c, m) ==
  m \in Nat /\ c.alg \in Mask!Algs /\ c.keys \in [0..(m - 1) -> {1, 2}]

MarkOf(c, k) == IF Mask!Keeps(c, k) THEN "yes" ELSE "no"

Mine(c, i, j, mark) == {k \in i..(j - 1) : MarkOf(c, k) = mark}

Count(c, i, j, mark) == Cardinality(Mine(c, i, j, mark))

LEMMA MaskSize ==
  ASSUME NEW c, NEW m, FormedMask(c, m)
  PROVE  Mask!Size(c) = m
<1>1. DOMAIN c.keys = 0..(m - 1) /\ m \in Nat
  BY DEF FormedMask
<1>2. Cardinality(0..(m - 1)) = m
  BY <1>1, FS_Interval
<1> QED BY <1>1, <1>2, SetCardinality DEF Mask!Size

LEMMA MaskBegin ==
  ASSUME NEW c, NEW m, FormedMask(c, m)
  PROVE  /\ Mask!ScanBegin(c) \in 0..m /\ Mask!ScanBegin(c) \in Nat
         /\ ~Mask!Removes(c) => Mask!ScanBegin(c) = 0
         /\ Mask!Removes(c) => \A l \in 0..(Mask!ScanBegin(c) - 1) : Mask!Keeps(c, l)
         /\ Mask!Removes(c) /\ Mask!ScanBegin(c) < m => ~Mask!Keeps(c, Mask!ScanBegin(c))
<1>1. m \in Nat /\ Mask!Size(c) = m
  BY MaskSize DEF FormedMask
<1>2. CASE ~Mask!Removes(c)
  BY <1>1, <1>2 DEF Mask!ScanBegin
<1>3. CASE Mask!Removes(c)
  <2> DEFINE T == {k \in 0..m : k < m => ~Mask!Keeps(c, k)}
             first(k) == (k < m => ~Mask!Keeps(c, k)) /\ \A l \in 0..(k - 1) : Mask!Keeps(c, l)
  <2>1. T \subseteq Nat /\ T # {}
    <3>1. m \in T
      BY <1>1
    <3> QED BY <1>1, <3>1
  <2>2. PICK x \in T : \A y \in T : x <= y
    BY <2>1, LeastNumber
  <2>3. \A l \in 0..(x - 1) : Mask!Keeps(c, l)
    <3> SUFFICES ASSUME NEW l \in 0..(x - 1), ~Mask!Keeps(c, l) PROVE FALSE
      OBVIOUS
    <3>1. l \in T
      BY <1>1, <2>2
    <3> QED BY <1>1, <2>2, <3>1
  <2>4. x \in 0..m /\ first(x)
    BY <2>2, <2>3
  <2>5. Mask!ScanBegin(c) = CHOOSE k \in 0..m : first(k)
    BY <1>1, <1>3 DEF Mask!ScanBegin
  <2> HIDE DEF first
  <2>6. Mask!ScanBegin(c) \in 0..m /\ first(Mask!ScanBegin(c))
    BY <2>4, <2>5
  <2> QED BY <1>1, <1>3, <2>6 DEF first
<1> QED BY <1>2, <1>3

LEMMA Counted ==
  ASSUME NEW c, NEW i \in Nat, NEW j \in Nat, NEW mark
  PROVE  IsFiniteSet(Mine(c, i, j, mark)) /\ Count(c, i, j, mark) \in Nat
<1>1. IsFiniteSet(i..(j - 1)) /\ Mine(c, i, j, mark) \in SUBSET (i..(j - 1))
  BY FS_Interval DEF Mine
<1> QED BY <1>1, FS_Subset, FS_CardinalityType DEF Count

LEMMA CountsAdd ==
  ASSUME NEW c, NEW i \in Nat, NEW j \in Nat, NEW l \in Nat, i <= j, j <= l, NEW mark
  PROVE  Count(c, i, l, mark) = Count(c, i, j, mark) + Count(c, j, l, mark)
<1> DEFINE S == Mine(c, i, j, mark)
           T == Mine(c, j, l, mark)
<1>1. S \cup T = Mine(c, i, l, mark) /\ S \cap T = {}
  BY DEF Mine
<1>2. IsFiniteSet(S) /\ IsFiniteSet(T) /\ Cardinality(S) \in Nat /\ Cardinality(T) \in Nat
  BY Counted DEF Count
<1> HIDE DEF S, T
<1>3. Cardinality(S \cup T) = Cardinality(S) + Cardinality(T)
  BY <1>1, <1>2, FS_Union, FS_EmptySet
<1> QED BY <1>1, <1>3 DEF Count, S, T

LEMMA CountOfOne ==
  ASSUME NEW c, NEW k \in Nat, NEW mark
  PROVE  Count(c, k, k + 1, mark) = IF MarkOf(c, k) = mark THEN 1 ELSE 0
<1>1. Mine(c, k, k + 1, mark) = IF MarkOf(c, k) = mark THEN {k} ELSE {}
  <2>1. k..((k + 1) - 1) = {k}
    OBVIOUS
  <2> QED BY <2>1 DEF Mine
<1> QED BY <1>1, FS_EmptySet, FS_Singleton DEF Count

LEMMA CountOfNone ==
  ASSUME NEW c, NEW k \in Nat, NEW mark
  PROVE  Count(c, k, k, mark) = 0
<1>1. Mine(c, k, k, mark) = {}
  BY DEF Mine
<1> QED BY <1>1, FS_EmptySet DEF Count

(* The rank of a marked element among them tells it from the others, and there  *)
(* is one of each rank.                                                         *)
LEMMA RanksDiffer ==
  ASSUME NEW c, NEW mark, NEW i \in Nat, NEW k \in Nat, NEW l \in Nat, i <= k, k < l,
         MarkOf(c, k) = mark
  PROVE  Count(c, i, k, mark) < Count(c, i, l, mark)
<1>1. k + 1 \in Nat /\ k + 1 <= l /\ k <= k + 1 /\ i <= k + 1
  OBVIOUS
<1>2. Count(c, i, l, mark) = Count(c, i, k + 1, mark) + Count(c, k + 1, l, mark)
  BY <1>1, CountsAdd
<1>3. Count(c, i, k + 1, mark) = Count(c, i, k, mark) + 1
  BY <1>1, CountsAdd, CountOfOne
<1>4. Count(c, k + 1, l, mark) \in Nat /\ Count(c, i, k, mark) \in Nat
  BY <1>1, Counted
<1> QED BY <1>2, <1>3, <1>4

LEMMA EachRankOnce ==
  ASSUME NEW c, NEW mark, NEW i \in Nat, NEW j \in Nat, i <= j, NEW x \in 0..(Count(c, i, j, mark) - 1)
  PROVE  \E k \in i..(j - 1) : MarkOf(c, k) = mark /\ Count(c, i, k, mark) = x
<1> DEFINE T == {k \in Nat : i <= k /\ Count(c, i, k, mark) > x}
<1>1. j \in T /\ T \subseteq Nat
  BY Counted
<1>2. PICK l \in T : \A y \in T : l <= y
  BY <1>1, LeastNumber
<1>3. l # i
  BY <1>2, CountOfNone
<1>4. l - 1 \in Nat /\ i <= l - 1 /\ l - 1 <= l /\ (l - 1) + 1 = l /\ l - 1 \in i..(j - 1)
  BY <1>1, <1>2, <1>3
<1>5. Count(c, i, l - 1, mark) <= x
  <2>1. l - 1 \notin T
    BY <1>2, <1>4
  <2>2. Count(c, i, l - 1, mark) \in Nat /\ x \in Int
    BY <1>4, Counted
  <2> QED BY <1>4, <2>1, <2>2
<1>6. Count(c, i, l, mark) = Count(c, i, l - 1, mark) + (IF MarkOf(c, l - 1) = mark THEN 1 ELSE 0)
  BY <1>2, <1>4, CountsAdd, CountOfOne
<1>7. Count(c, i, l, mark) > x /\ Count(c, i, l - 1, mark) \in Nat /\ x \in Int
  BY <1>2, <1>4, Counted
<1> QED BY <1>4, <1>5, <1>6, <1>7
-------------------------------------------------------------------------------
(* The call, the value of each block of its scan and the sums of the blocks.     *)
N1 == Set!Size(scanCall.a)
N2 == Set!Size(scanCall.b)
Base == Mask!ScanBegin(scanCall)
Room == Set!SizeFunc(scanCall.alg, scanN, N2 - plan.b0)

FormedScan ==
  IF IsSet(scanCall) THEN FormedSet(scanCall, N1, N2) ELSE FormedMask(scanCall, Size(scanCall))

LEMMA FormedScans ==
  ASSUME scanCall \in ScanCalls
  PROVE  FormedScan
<1>1. CASE \E m \in 0..MaxMasked : scanCall \in Mask!Calls(m)
  <2>1. PICK m \in 0..MaxMasked : scanCall \in Mask!Calls(m)
    BY <1>1
  <2>2. m \in Nat
    BY <2>1, ScanAssumption
  <2>3. FormedMask(scanCall, m)
    BY <2>1, <2>2 DEF FormedMask, Mask!Calls
  <2>4. ~IsSet(scanCall)
    BY <2>3 DEF FormedMask, IsSet, Mask!Algs, Set!Algs
  <2>5. Size(scanCall) = m
    BY <2>3, <2>4, MaskSize DEF Size
  <2> QED BY <2>3, <2>4, <2>5 DEF FormedScan
<1>2. CASE \E p \in (0..MaxN1) \X (0..MaxN2) : scanCall \in Set!Calls(p[1], p[2], SetKeys)
  <2>1. PICK p \in (0..MaxN1) \X (0..MaxN2) : scanCall \in Set!Calls(p[1], p[2], SetKeys)
    BY <1>2
  <2>2. p[1] \in Nat /\ p[2] \in Nat /\ SetKeys \subseteq Int
    BY <2>1, ScanAssumption
  <2>3. /\ scanCall.alg \in Set!Algs
        /\ scanCall.a \in Set!Sorted(p[1], SetKeys) /\ scanCall.b \in Set!Sorted(p[2], SetKeys)
    BY <2>1 DEF Set!Calls
  <2>4. IsSequence(scanCall.a, p[1]) /\ IsSequence(scanCall.b, p[2])
    BY <2>2, <2>3, SortedSequences
  <2>5. N1 = p[1] /\ N2 = p[2]
    BY <2>4, SequenceSize DEF N1, N2
  <2> QED BY <2>3, <2>4, <2>5 DEF FormedScan, FormedSet, IsSet
<1>3. (\E m \in 0..MaxMasked : scanCall \in Mask!Calls(m))
      \/ (\E p \in (0..MaxN1) \X (0..MaxN2) : scanCall \in Set!Calls(p[1], p[2], SetKeys))
  BY DEF ScanCalls
<1> QED BY <1>1, <1>2, <1>3

\* What a formed call scans, and what it knows of its plan.
LEMMA ScanLengths ==
  ASSUME FormedScan, scanN = ScanLength(scanCall)
  PROVE  /\ scanN \in Nat
         /\ ~IsSet(scanCall) => Base \in Nat /\ Size(scanCall) \in Nat /\ Base + scanN <= Size(scanCall)
                                /\ (scanN > 0 => Base + scanN = Size(scanCall))
                                /\ (~IsSerial => Base + scanN = Size(scanCall))
         /\ IsSet(scanCall) => /\ plan.kind = "set_op" => scanN = N1 - plan.a0
                               /\ plan.kind # "set_op" => scanN = 0
                               /\ plan.kind = "serial" \/ PlansCopies(plan, N1, N2)
                                  \/ PlansSetOp(scanCall, plan, N1, N2)
<1>1. CASE ~IsSet(scanCall)
  <2>1. FormedMask(scanCall, Size(scanCall)) /\ Size(scanCall) = Mask!Size(scanCall)
    BY <1>1 DEF FormedScan, Size
  <2>2. Size(scanCall) \in Nat /\ Base \in 0..Size(scanCall) /\ Base \in Nat
    BY <2>1, MaskBegin DEF Base, FormedMask
  <2>3. scanN = IF Mask!Short(scanCall) THEN 0 ELSE Size(scanCall) - Base
    BY <1>1, <2>1 DEF ScanLength, Base
  <2>4. IsSerial <=> Mask!Short(scanCall)
    BY <1>1 DEF IsSerial
  <2> QED BY <1>1, <2>2, <2>3, <2>4
<1>2. CASE IsSet(scanCall)
  <2>1. FormedSet(scanCall, N1, N2)
    BY <1>2 DEF FormedScan
  <2>2. plan.kind = "serial" \/ PlansCopies(plan, N1, N2) \/ PlansSetOp(scanCall, plan, N1, N2)
    BY <2>1, Plans DEF plan
  <2>3. scanN = IF plan.kind = "set_op" THEN N1 - plan.a0 ELSE 0
    BY <1>2 DEF ScanLength, N1, plan
  <2>4. PlansSetOp(scanCall, plan, N1, N2) => N1 - plan.a0 \in Nat
    BY <2>1 DEF PlansSetOp, FormedSet, IsSequence
  <2>5. plan.kind = "set_op" => PlansSetOp(scanCall, plan, N1, N2)
    BY <2>2 DEF PlansCopies
  <2> QED BY <1>2, <2>2, <2>3, <2>4, <2>5
<1> QED BY <1>1, <1>2

ValueOf(i, j) ==
  IF IsSet(scanCall) THEN Set!Reduce(scanCall, plan, i, j)[2]
  ELSE Mask!Counts(Count(scanCall, Base + i, Base + j, "yes"), Count(scanCall, Base + i, Base + j, "no"))

LEMMA ScannedSet ==
  ASSUME FormedScan, scanN = ScanLength(scanCall), IsSet(scanCall), scanN > 0
  PROVE  FormedSet(scanCall, N1, N2) /\ PlansSetOp(scanCall, plan, N1, N2) /\ scanN = N1 - plan.a0
<1>1. plan.kind = "set_op"
  BY ScanLengths
<1> QED BY <1>1, ScanLengths DEF FormedScan, PlansCopies

LEMMA SetValues ==
  ASSUME FormedScan, scanN = ScanLength(scanCall), IsSet(scanCall),
         NEW i \in 0..scanN, NEW j \in 0..scanN, i < j
  PROVE  /\ ValueOf(i, j) = Set!SetRange(0, ValueOf(i, j).len, StartOf(scanCall, plan, i))
         /\ ValueOf(i, j).len \in Nat
         /\ StartOf(scanCall, plan, i) + ValueOf(i, j).len <= StartOf(scanCall, plan, j)
         /\ Set!Reduce(scanCall, plan, i, j)[1] \in Seq(Items)
         /\ Len(Set!Reduce(scanCall, plan, i, j)[1]) = ValueOf(i, j).len
<1>1. scanN > 0
  BY ScanLengths
<1>2. FormedSet(scanCall, N1, N2) /\ PlansSetOp(scanCall, plan, N1, N2) /\ scanN = N1 - plan.a0
  BY <1>1, ScannedSet
<1>3. PICK res \in Seq(Items) :
           /\ Set!Reduce(scanCall, plan, i, j) = <<res, Set!SetRange(0, Len(res), StartOf(scanCall, plan, i))>>
           /\ Len(res) \in Nat /\ StartOf(scanCall, plan, i) + Len(res) <= StartOf(scanCall, plan, j)
  BY <1>2, BlocksFit
<1>4. ValueOf(i, j) = Set!SetRange(0, Len(res), StartOf(scanCall, plan, i)) /\ Set!Reduce(scanCall, plan, i, j)[1] = res
  BY <1>3 DEF ValueOf
<1>5. ValueOf(i, j).len = Len(res)
  BY <1>4 DEF Set!SetRange
<1> QED BY <1>3, <1>4, <1>5

LEMMA ValuesTyped ==
  ASSUME FormedScan, scanN = ScanLength(scanCall), NEW i \in 0..scanN, NEW j \in 0..scanN, i < j
  PROVE  ValueOf(i, j) \in Values
<1>1. CASE IsSet(scanCall)
  <2>1. scanN > 0
    BY ScanLengths
  <2>2. StartOf(scanCall, plan, i) \in Int
    BY <1>1, <2>1, ScannedSet, Starts
  <2> QED BY <1>1, <2>2, SetValues DEF Values, Set!SetRange
<1>2. CASE ~IsSet(scanCall)
  <2>1. Base + i \in Nat /\ Base + j \in Nat
    BY <1>2, ScanLengths
  <2>2. \A mark : Count(scanCall, Base + i, Base + j, mark) \in Nat
    BY <2>1, Counted
  <2> QED BY <1>2, <2>2 DEF ValueOf, Values, Mask!Counts
<1> QED BY <1>1, <1>2

LEMMA InitialTyped == InitialSum \in Values
<1>1. CASE IsSet(scanCall)
  BY <1>1 DEF InitialSum, Values, Set!NoRange, Set!SetRange
<1>2. CASE ~IsSet(scanCall)
  BY <1>2 DEF InitialSum, Values, Mask!NoCounts, Mask!Counts
<1> QED BY <1>1, <1>2
-------------------------------------------------------------------------------
(* The schedule of the scan, and the mask.                                      *)
Block(b) == [lo |-> b.lo, hi |-> b.hi, val |-> ValueOf(b.lo, b.hi)]

BlocksInOrder ==
  /\ \A b \in sums : b.lo \in 0..scanN /\ b.hi \in 0..scanN /\ b.lo < b.hi /\ b = Block(b)
  /\ \A b, c \in sums : b = c \/ b.hi <= c.lo \/ c.hi <= b.lo
  /\ DOMAIN scanReduced = {<<b.lo, b.hi - b.lo>> : b \in sums}

Everything == \A k \in 0..(scanN - 1) : \E b \in sums : b.lo <= k /\ k < b.hi

Scanning(b) == <<b.lo, b.hi - b.lo, <<-1, b.lo>>>>

ScanInOrder ==
  /\ total # NoSum => Everything
  /\ total = NoSum => DOMAIN scanned = {}
  /\ \A s \in DOMAIN scanned : \E b \in sums : s = Scanning(b)
  /\ scanReturned => total # NoSum /\ \A b \in sums : Scanning(b) \in DOMAIN scanned

Phases ==
  /\ scanPc \in {"begin", "scan", "join", "done"}
  /\ scanPc = "begin" => sums = {} /\ total = NoSum /\ ~scanReturned
  /\ scanPc = "scan" => scanN > 0 /\ ~IsSerial /\ ~scanReturned
  /\ scanPc = "join" => ~IsSerial /\ (scanN = 0 \/ scanReturned)

IsMemory(m) ==
  m = [mask |-> m.mask, src |-> m.src, buf |-> m.buf, out |-> m.out, out2 |-> m.out2, ok |-> m.ok]

MaskIsRight ==
  ~IsSet(scanCall) =>
    /\ DOMAIN memory.mask = 0..(Size(scanCall) - 1)
    /\ Removes /\ scanPc \in {"scan", "join"} => \A k \in DOMAIN memory.mask : memory.mask[k] = MarkOf(scanCall, k)
    /\ \A b \in sums : \A k \in (Base + b.lo)..(Base + b.hi - 1) : memory.mask[k] = MarkOf(scanCall, k)

Scheduled ==
  /\ FormedScan /\ scanN = ScanLength(scanCall)
  /\ BlocksInOrder /\ ScanInOrder /\ Phases /\ IsMemory(memory) /\ MaskIsRight

LEMMA BagElements ==
  ASSUME NEW B, NEW x
  PROVE  DOMAIN Contract!BagAdd(B, x) = DOMAIN B \cup {x}
BY DEF Contract!BagAdd

LEMMA NothingInBag == DOMAIN EmptyBag = {}
BY DEF EmptyBag, SetToBag

LEMMA ScheduledInit == ScanInit => Scheduled
<1> SUFFICES ASSUME ScanInit PROVE Scheduled
  OBVIOUS
<1>1. FormedScan /\ scanN = ScanLength(scanCall)
  BY FormedScans DEF ScanInit
<1>2. BlocksInOrder /\ ScanInOrder /\ Phases
  BY NothingInBag DEF ScanInit, BlocksInOrder, ScanInOrder, Phases
<1>3. IsMemory(memory) /\ memory.mask = Fill(Size(scanCall), "unset")
  BY DEF ScanInit, IsMemory
<1>4. MaskIsRight
  BY <1>3 DEF MaskIsRight, Fill, ScanInit
<1> QED BY <1>1, <1>2, <1>3, <1>4 DEF Scheduled

\* What does not change as long as the call does not.
LEMMA SameCall ==
  ASSUME scanCall' = scanCall
  PROVE  /\ plan' = plan /\ Base' = Base /\ Size(scanCall)' = Size(scanCall) /\ Removes' = Removes
         /\ FormedScan' = FormedScan /\ ScanLength(scanCall)' = ScanLength(scanCall) /\ IsSerial' = IsSerial
         /\ N1' = N1 /\ N2' = N2
         /\ \A i, j : ValueOf(i, j)' = ValueOf(i, j)
         /\ \A b : Block(b)' = Block(b)
BY DEF plan, Base, Size, Removes, FormedScan, ScanLength, IsSerial, N1, N2, ValueOf, Block

LEMMA BlockReduced ==
  ASSUME Scheduled, NEW i \in 0..(scanN - 1), NEW len \in 1..(scanN - i), ReduceBlock(i, len)
  PROVE  /\ scanCall' = scanCall /\ scanN' = scanN /\ scanPc' = scanPc /\ scanPc = "scan"
         /\ total = NoSum /\ UNCHANGED <<total, scanned, scanReturned, copies, scanAnswer>>
         /\ i \in Nat /\ len \in Nat /\ i + len \in 0..scanN /\ i < i + len
         /\ sums' = sums \cup {[lo |-> i, hi |-> i + len, val |-> ValueOf(i, i + len)]}
         /\ \A b \in sums : b.hi <= i \/ i + len <= b.lo
         /\ DOMAIN scanReduced' = DOMAIN scanReduced \cup {<<i, len>>}
         /\ MaskIsRight' /\ IsMemory(memory)'
<1>1. scanPc = "scan" /\ total = NoSum /\ UNCHANGED <<scanCall, copies, scanPc, scanAnswer, scanN, total, scanned, scanReturned>>
      /\ memory' = Reduced(i, i + len)[1]
      /\ sums' = sums \cup {[lo |-> i, hi |-> i + len, val |-> Reduced(i, i + len)[2]]}
      /\ scanReduced' = Contract!BagAdd(scanReduced, <<i, len>>)
      /\ \A b \in DOMAIN scanReduced : ~Contract!Overlap(b, <<i, len>>)
  BY DEF ReduceBlock, Contract!Reduce
<1>2. scanN \in Nat
  BY ScanLengths DEF Scheduled
<1>3. i \in Nat /\ len \in Nat /\ i + len \in Nat /\ i + len \in 0..scanN /\ i < i + len /\ i \in 0..scanN
  BY <1>2
<1>4. DOMAIN scanReduced' = DOMAIN scanReduced \cup {<<i, len>>}
  BY <1>1, BagElements
<1>5. ASSUME NEW b \in sums PROVE b.hi <= i \/ i + len <= b.lo
  <2>1. <<b.lo, b.hi - b.lo>> \in DOMAIN scanReduced /\ b.lo \in Int /\ b.hi \in Int
    BY <1>2 DEF Scheduled, BlocksInOrder
  <2>2. ~(b.lo < i + len /\ i < b.lo + (b.hi - b.lo))
    BY <1>1, <2>1 DEF Contract!Overlap
  <2> QED BY <1>3, <2>1, <2>2
<1>6. CASE IsSet(scanCall)
  <2> DEFINE r == Set!Reduce(scanCall, plan, i, i + len)
  <2>1. Reduced(i, i + len) = <<[memory EXCEPT !.buf = Put(@, r[2].buf, r[1]),
                              !.ok = @ /\ AllAre(memory.buf, r[2].buf, r[2].len, Raw)], r[2]>>
    BY <1>6 DEF Reduced
  <2>2. Reduced(i, i + len)[2] = ValueOf(i, i + len)
    BY <1>6, <2>1 DEF ValueOf
  <2>3. IsMemory(memory')
    <3> DEFINE buf == Put(memory.buf, r[2].buf, r[1])
               ok == memory.ok /\ AllAre(memory.buf, r[2].buf, r[2].len, Raw)
    <3>1. memory' = [memory EXCEPT !.buf = buf, !.ok = ok]
      BY <1>1, <2>1
    <3> HIDE DEF buf, ok
    <3>2. IsMemory(memory)
      BY DEF Scheduled
    <3> QED BY <3>1, <3>2 DEF IsMemory
  <2>4. MaskIsRight'
    BY <1>1, <1>6, SameCall DEF MaskIsRight, IsSet
  <2> QED BY <1>1, <1>3, <1>4, <1>5, <2>2, <2>3, <2>4
<1>7. CASE ~IsSet(scanCall)
  <2> DEFINE mask == IF Removes THEN memory.mask ELSE Mask!Masked(scanCall, memory.mask, i, i + len)
  <2>1. Reduced(i, i + len) = <<[memory EXCEPT !.mask = mask,
                                   !.ok = @ /\ NoneIs(mask, Base + i, (i + len) - i, "unset")],
                                Mask!BlockValue(mask, Base + i, Base + (i + len))>>
    BY <1>7 DEF Reduced, Base
  <2>2. /\ DOMAIN memory.mask = 0..(Size(scanCall) - 1)
        /\ Removes => \A k \in DOMAIN memory.mask : memory.mask[k] = MarkOf(scanCall, k)
        /\ \A b \in sums : \A k \in (Base + b.lo)..(Base + b.hi - 1) : memory.mask[k] = MarkOf(scanCall, k)
    BY <1>1, <1>7 DEF Scheduled, MaskIsRight
  <2>3. Base \in Nat /\ Size(scanCall) \in Nat /\ Base + scanN <= Size(scanCall) /\ (~Removes => Base = 0)
    <3>1. FormedMask(scanCall, Size(scanCall))
      BY <1>7 DEF Scheduled, FormedScan
    <3> QED BY <1>7, <3>1, ScanLengths, MaskBegin DEF Scheduled, Base, Removes
  <2>4. /\ DOMAIN mask = 0..(Size(scanCall) - 1)
        /\ \A k \in (Base + i)..(Base + (i + len) - 1) : mask[k] = MarkOf(scanCall, k)
        /\ \A k \in DOMAIN mask : mask[k] = memory.mask[k] \/ mask[k] = MarkOf(scanCall, k)
    <3>1. \A k \in (Base + i)..(Base + (i + len) - 1) : k \in 0..(Size(scanCall) - 1)
      BY <1>2, <1>3, <2>3
    <3>2. CASE Removes
      BY <2>2, <3>1, <3>2
    <3>3. CASE ~Removes
      BY <2>2, <2>3, <3>1, <3>3 DEF Mask!Masked, MarkOf
    <3> QED BY <3>2, <3>3
  <2> HIDE DEF mask
  <2>5. \A mark : Mask!Marked(mask, Base + i, Base + (i + len), mark) = Mine(scanCall, Base + i, Base + (i + len), mark)
    <3> DEFINE S == (Base + i)..((Base + (i + len)) - 1)
    <3>1. \A k \in S : mask[k] = MarkOf(scanCall, k)
      BY <1>3, <2>3, <2>4
    <3> HIDE DEF S
    <3>2. \A mark : {k \in S : mask[k] = mark} = {k \in S : MarkOf(scanCall, k) = mark}
      BY <3>1
    <3> QED BY <3>2 DEF Mask!Marked, Mine, S
  <2>6. Mask!BlockValue(mask, Base + i, Base + (i + len)) = ValueOf(i, i + len)
    BY <1>7, <2>5, SetCardinality DEF Mask!BlockValue, ValueOf, Count
  <2>7. memory' = [memory EXCEPT !.mask = mask, !.ok = @ /\ NoneIs(mask, Base + i, (i + len) - i, "unset")]
    BY <1>1, <2>1
  <2>8. IsMemory(memory') /\ memory'.mask = mask
    BY <2>7 DEF Scheduled, IsMemory
  <2>9. Removes => mask = memory.mask
    BY DEF mask
  <2>10. \A b \in sums : \A k \in (Base + b.lo)..(Base + b.hi - 1) : k \in DOMAIN mask
    <3>1. \A b \in sums : b.lo \in 0..scanN /\ b.hi \in 0..scanN
      BY DEF Scheduled, BlocksInOrder
    <3> QED BY <1>2, <2>3, <2>4, <3>1
  <2>11. \A b \in sums' : \A k \in (Base + b.lo)..(Base + b.hi - 1) : mask[k] = MarkOf(scanCall, k)
    <3>1. ASSUME NEW b \in sums, NEW k \in (Base + b.lo)..(Base + b.hi - 1) PROVE mask[k] = MarkOf(scanCall, k)
      BY <2>2, <2>4, <2>10, <3>1
    <3>2. ASSUME NEW v, NEW b, b = [lo |-> i, hi |-> i + len, val |-> v], NEW k \in (Base + b.lo)..(Base + b.hi - 1)
          PROVE  mask[k] = MarkOf(scanCall, k)
      BY <2>4, <3>2
    <3> QED BY <1>1, <3>1, <3>2
  <2>12. MaskIsRight'
    <3>1. \A k : MarkOf(scanCall, k)' = MarkOf(scanCall, k)
      BY <1>1 DEF MarkOf
    <3> QED BY <1>1, <2>2, <2>4, <2>8, <2>9, <2>11, <3>1, SameCall DEF MaskIsRight
  <2> QED BY <1>1, <1>3, <1>4, <1>5, <2>1, <2>6, <2>8, <2>12
<1> QED BY <1>6, <1>7

\* The blocks that are reduced stay in order when one more is.
LEMMA ReduceSchedules ==
  ASSUME Scheduled, NEW i \in 0..(scanN - 1), NEW len \in 1..(scanN - i), ReduceBlock(i, len)
  PROVE  Scheduled'
<1> DEFINE new == [lo |-> i, hi |-> i + len, val |-> ValueOf(i, i + len)]
<1>1. /\ scanCall' = scanCall /\ scanN' = scanN /\ scanPc' = scanPc /\ scanPc = "scan"
      /\ total = NoSum /\ UNCHANGED <<total, scanned, scanReturned, copies, scanAnswer>>
      /\ i \in Nat /\ len \in Nat /\ i + len \in 0..scanN /\ i < i + len
      /\ sums' = sums \cup {new}
      /\ \A b \in sums : b.hi <= i \/ i + len <= b.lo
      /\ DOMAIN scanReduced' = DOMAIN scanReduced \cup {<<i, len>>}
      /\ MaskIsRight' /\ IsMemory(memory)'
  BY BlockReduced
<1>2. new.lo = i /\ new.hi = i + len /\ new = Block(new) /\ new.lo \in 0..scanN /\ new.hi \in 0..scanN
      /\ new.hi - new.lo = len
  <2>1. new.lo = i /\ new.hi = i + len /\ new.val = ValueOf(i, i + len)
    OBVIOUS
  <2>2. new = [lo |-> new.lo, hi |-> new.hi, val |-> ValueOf(new.lo, new.hi)]
    BY <2>1
  <2>3. i \in 0..scanN /\ (i + len) - i = len
    BY <1>1, ScanLengths DEF Scheduled
  <2> HIDE DEF new
  <2> QED BY <1>1, <2>1, <2>2, <2>3 DEF Block
<1>3. /\ \A b \in sums : b.lo \in 0..scanN /\ b.hi \in 0..scanN /\ b.lo < b.hi /\ b = Block(b)
      /\ \A b, c \in sums : b = c \/ b.hi <= c.lo \/ c.hi <= b.lo
      /\ DOMAIN scanReduced = {<<b.lo, b.hi - b.lo>> : b \in sums}
  BY DEF Scheduled, BlocksInOrder
<1>4. FormedScan' /\ scanN' = ScanLength(scanCall)'
  BY <1>1, SameCall DEF Scheduled
<1> HIDE DEF new
<1>5. BlocksInOrder'
  <2>1. \A b \in sums' : b.lo \in 0..scanN' /\ b.hi \in 0..scanN' /\ b.lo < b.hi /\ b = Block(b)'
    BY <1>1, <1>2, <1>3, SameCall
  <2>2. \A b, c \in sums' : b = c \/ b.hi <= c.lo \/ c.hi <= b.lo
    BY <1>1, <1>2, <1>3
  <2>3. DOMAIN scanReduced' = {<<b.lo, b.hi - b.lo>> : b \in sums'}
    BY <1>1, <1>2, <1>3
  <2> QED BY <2>1, <2>2, <2>3 DEF BlocksInOrder
<1>6. ScanInOrder' /\ Phases'
  <2>1. ~scanReturned
    BY <1>1 DEF Scheduled, Phases
  <2> QED BY <1>1, <2>1, SameCall DEF Scheduled, ScanInOrder, Phases, Scanning
<1> QED BY <1>1, <1>4, <1>5, <1>6 DEF Scheduled

\* So they do when the sum of all of them is used, and when one of them is scanned.
LEMMA CoveredIsEverything ==
  ASSUME Scheduled
  PROVE  Contract!Covered <=> Everything
<1>1. scanN \in Nat /\ \A b \in sums : b.lo \in 0..scanN /\ b.hi \in 0..scanN
  BY ScanLengths DEF Scheduled, BlocksInOrder
<1>2. ASSUME NEW b \in sums, NEW k \in 0..(scanN - 1)
      PROVE  Contract!Overlap(<<b.lo, b.hi - b.lo>>, <<k, 1>>) <=> b.lo <= k /\ k < b.hi
  <2>1. b.lo \in Nat /\ b.hi \in Nat /\ k \in Nat
    BY <1>1
  <2>2. (b.lo < k + 1 <=> b.lo <= k) /\ b.lo + (b.hi - b.lo) = b.hi
    BY <2>1
  <2> QED BY <2>2 DEF Contract!Overlap
<1>3. DOMAIN scanReduced = {<<c.lo, c.hi - c.lo>> : c \in sums}
  BY DEF Scheduled, BlocksInOrder
<1> QED BY <1>2, <1>3 DEF Contract!Covered, Everything

\* The mask is not written once the scan has begun.
LEMMA MaskStays ==
  ASSUME Scheduled, scanCall' = scanCall, sums' = sums, memory'.mask = memory.mask,
         scanPc' \in {"scan", "join"} => scanPc \in {"scan", "join"}
  PROVE  MaskIsRight'
<1>1. \A k : MarkOf(scanCall, k)' = MarkOf(scanCall, k)
  BY DEF MarkOf
<1> QED BY <1>1, SameCall DEF Scheduled, MaskIsRight

LEMMA RangeMoves ==
  ASSUME NEW s, IsMemory(memory)
  PROVE  IsMemory(MoveRange(s)) /\ MoveRange(s).mask = memory.mask
<1> DEFINE out == Put(memory.out, plan.at + s.pos, [k \in 1..s.len |-> memory.buf[s.buf + k - 1]])
           buf == Put(memory.buf, s.buf, [k \in 1..s.len |-> Raw])
           ok == memory.ok /\ NoneIs(memory.buf, s.buf, s.len, Raw)
                               /\ AllAre(memory.out, plan.at + s.pos, s.len, NotWritten)
<1>1. MoveRange(s) = IF Set!Empty(s) THEN memory ELSE [memory EXCEPT !.out = out, !.buf = buf, !.ok = ok]
  BY DEF MoveRange
<1> HIDE DEF out, buf, ok
<1> QED BY <1>1 DEF IsMemory

LEMMA MaskedCopied ==
  ASSUME NEW i, NEW j, NEW s, IsMemory(memory)
  PROVE  IsMemory(CopyMasked(i, j, s)) /\ CopyMasked(i, j, s).mask = memory.mask
<1> DEFINE yes == Mask!Transfers(memory.mask, Mask!ScanBegin(scanCall) + i, Mask!ScanBegin(scanCall) + j, "yes", s.yes)
           no  == Mask!Transfers(memory.mask, Mask!ScanBegin(scanCall) + i, Mask!ScanBegin(scanCall) + j, "no", s.no)
           moved == Assigned(memory.buf, memory.src, yes)
           left == [k \in DOMAIN memory.src |-> IF \E t \in yes : t[1] = k THEN MovedFrom ELSE memory.src[k]]
           ok1 == memory.ok /\ Targets(memory.buf, yes, Raw) /\ \A t \in yes : memory.src[t[1]] # MovedFrom
           out == Assigned(memory.out, memory.src, yes)
           out2 == Assigned(memory.out2, memory.src, no)
           ok2 == memory.ok /\ Targets(memory.out, yes, NotWritten) /\ Targets(memory.out2, no, NotWritten)
           ok3 == memory.ok /\ Targets(memory.out, yes, NotWritten)
<1>1. CopyMasked(i, j, s) =
        IF Removes THEN [memory EXCEPT !.buf = moved, !.src = left, !.ok = ok1]
        ELSE IF scanCall.alg = "partition_copy" THEN [memory EXCEPT !.out = out, !.out2 = out2, !.ok = ok2]
        ELSE [memory EXCEPT !.out = out, !.ok = ok3]
  BY DEF CopyMasked
<1> HIDE DEF moved, left, ok1, out, out2, ok2, ok3
<1> QED BY <1>1 DEF IsMemory

LEMMA ScheduledNext == Scheduled /\ [ScanNext]_scanVars => Scheduled'
<1> SUFFICES ASSUME Scheduled, [ScanNext]_scanVars PROVE Scheduled'
  OBVIOUS
<1>1. FormedScan /\ scanN = ScanLength(scanCall) /\ IsMemory(memory) /\ scanN \in Nat
  BY ScanLengths DEF Scheduled
<1>2. Everything <=> Contract!Covered
  BY CoveredIsEverything
<1>3. ASSUME UNCHANGED <<scanCall, scanN>> PROVE FormedScan' /\ scanN' = ScanLength(scanCall)'
  BY <1>1, <1>3, SameCall
<1>4. ASSUME UNCHANGED <<scanCall, scanN, sums, scanReduced>> PROVE BlocksInOrder'
  BY <1>4, SameCall DEF Scheduled, BlocksInOrder
<1>5. ASSUME UNCHANGED <<scanCall, scanN, sums, total, scanned, scanReturned>> PROVE ScanInOrder'
  BY <1>5, SameCall DEF Scheduled, ScanInOrder, Everything, Scanning
<1>6. CASE Serially
  <2>1. scanPc = "begin" /\ scanPc' = "done" /\ UNCHANGED <<scanCall, sums, strictScan, copies>>
    BY <1>6 DEF Serially
  <2> DEFINE src == Put(memory.src, 0, Results(TRUE))
             out == Put(memory.out, 0, Results(TRUE))
             out2 == IF scanCall.alg = "partition_copy" THEN Put(memory.out2, 0, Results(FALSE)) ELSE memory.out2
  <2>2. memory' = IF Removes THEN [memory EXCEPT !.src = src] ELSE [memory EXCEPT !.out = out, !.out2 = out2]
    BY <1>6 DEF Serially
  <2>3. IsMemory(memory') /\ memory'.mask = memory.mask
    <3> HIDE DEF src, out, out2
    <3> QED BY <1>1, <2>2 DEF IsMemory
  <2>4. MaskIsRight'
    BY <2>1, <2>3, MaskStays
  <2> QED BY <1>3, <1>4, <1>5, <2>1, <2>3, <2>4 DEF Scheduled, Phases, strictScan
<1>7. CASE Begin
  <2>1. scanPc = "begin" /\ ~IsSerial /\ scanPc' = (IF scanN = 0 THEN "join" ELSE "scan")
        /\ UNCHANGED <<scanCall, sums, strictScan, scanAnswer>>
    BY <1>7 DEF Begin
  <2> DEFINE room == Fill(IF plan.kind = "set_op"
                                 THEN Set!SizeFunc(scanCall.alg, scanN, Set!Size(scanCall.b) - plan.b0) ELSE 0, Raw)
             raw == Fill(scanN, Raw)
             mask == Mask!Masked(scanCall, memory.mask, 0, Size(scanCall))
  <2>2. memory' = IF IsSet(scanCall) THEN [memory EXCEPT !.buf = room]
                  ELSE IF Removes THEN [memory EXCEPT !.buf = raw, !.mask = mask] ELSE memory
    BY <1>7 DEF Begin
  <2>3. IsMemory(memory') /\ memory'.mask = (IF ~IsSet(scanCall) /\ Removes THEN mask ELSE memory.mask)
    <3> HIDE DEF room, raw, mask
    <3> QED BY <1>1, <2>2 DEF IsMemory
  <2>4. sums = {} /\ total = NoSum /\ ~scanReturned
    BY <2>1 DEF Scheduled, Phases
  <2>5. MaskIsRight'
    <3>1. \A k : MarkOf(scanCall, k)' = MarkOf(scanCall, k)
      BY <2>1 DEF MarkOf
    <3>2. ~IsSet(scanCall) => DOMAIN memory.mask = 0..(Size(scanCall) - 1)
      BY DEF Scheduled, MaskIsRight
    <3>3. ~IsSet(scanCall) /\ Removes =>
            DOMAIN mask = 0..(Size(scanCall) - 1) /\ \A k \in DOMAIN mask : mask[k] = MarkOf(scanCall, k)
      BY <3>2 DEF Mask!Masked, MarkOf
    <3> HIDE DEF mask
    <3> QED BY <2>1, <2>3, <2>4, <3>1, <3>2, <3>3, SameCall DEF MaskIsRight
  <2>6. Phases'
    BY <1>1, <2>1, <2>4, SameCall DEF Phases, strictScan
  <2> QED BY <1>3, <1>4, <1>5, <2>1, <2>3, <2>5, <2>6 DEF Scheduled, strictScan
<1>8. CASE ApexCall
  <2>1. scanPc = "scan" /\ UNCHANGED <<scanCall, sums, copies, scanPc, scanAnswer>>
        /\ UNCHANGED <<scanN, scanReduced, scanned, scanReturned>> /\ total = NoSum /\ Everything
        /\ memory' = IF IsSet(scanCall) THEN MoveRange(SumUpTo(scanN)) ELSE memory
    BY <1>2, <1>8 DEF ApexCall, Contract!Apex
  <2>2. IsMemory(memory') /\ memory'.mask = memory.mask
    BY <1>1, <2>1, RangeMoves
  <2>3. MaskIsRight'
    BY <2>1, <2>2, MaskStays
  <2>4. ScanInOrder'
    BY <2>1, SameCall DEF Scheduled, ScanInOrder, Everything, Scanning, Phases
  <2>5. Phases'
    BY <2>1, SameCall DEF Scheduled, Phases
  <2> QED BY <1>3, <1>4, <2>1, <2>2, <2>3, <2>4, <2>5 DEF Scheduled
<1>9. CASE ScanReturns
  <2>1. scanPc = "scan" /\ scanPc' = "join" /\ UNCHANGED <<scanCall, memory, sums, scanAnswer>>
        /\ UNCHANGED <<scanN, scanReduced, scanned, total>> /\ total # NoSum /\ scanReturned' = TRUE
        /\ \A b \in DOMAIN scanReduced : <<b[1], b[2], <<-1, b[1]>>>> \in DOMAIN scanned
    BY <1>9 DEF ScanReturns, Contract!Return
  <2>2. MaskIsRight'
    BY <2>1, MaskStays
  <2>3. \A b \in sums : Scanning(b) \in DOMAIN scanned
    <3>1. \A b \in sums : <<b.lo, b.hi - b.lo>> \in DOMAIN scanReduced
      BY DEF Scheduled, BlocksInOrder
    <3> QED BY <2>1, <3>1 DEF Scanning
  <2>4. ScanInOrder'
    BY <2>1, <2>3, SameCall DEF Scheduled, ScanInOrder, Everything, Scanning
  <2>5. Phases'
    BY <2>1, SameCall DEF Scheduled, Phases
  <2> QED BY <1>1, <1>3, <1>4, <2>1, <2>2, <2>4, <2>5 DEF Scheduled
<1>10. CASE Finish
  <2>1. scanPc = "join" /\ scanPc' = "done" /\ UNCHANGED <<scanCall, memory, sums, strictScan, copies>>
    BY <1>10 DEF Finish
  <2>2. MaskIsRight'
    BY <2>1, MaskStays
  <2> QED BY <1>1, <1>3, <1>4, <1>5, <2>1, <2>2 DEF Scheduled, Phases, strictScan
<1>11. ASSUME NEW i \in 0..(scanN - 1), NEW len \in 1..(scanN - i), ReduceBlock(i, len)
       PROVE  Scheduled'
  BY <1>11, ReduceSchedules
<1>12. ASSUME NEW i \in 0..(scanN - 1), NEW len \in 1..(scanN - i), ScanBlock(i, len)
       PROVE  Scheduled'
  <2>1. scanPc = "scan" /\ UNCHANGED <<scanCall, sums, copies, scanPc, scanAnswer>>
        /\ UNCHANGED <<scanN, scanReduced, total, scanReturned>> /\ total # NoSum /\ ~scanReturned
        /\ <<i, len>> \in DOMAIN scanReduced
        /\ scanned' = Contract!BagAdd(scanned, <<i, len, <<-1, i>>>>)
        /\ memory' = IF IsSet(scanCall) THEN MoveRange(SumUpTo(i)) ELSE CopyMasked(i, i + len, SumUpTo(i))
    BY <1>12 DEF ScanBlock, Contract!Scan
  <2>2. IsMemory(memory') /\ memory'.mask = memory.mask
    BY <1>1, <2>1, RangeMoves, MaskedCopied
  <2>3. MaskIsRight'
    BY <2>1, <2>2, MaskStays
  <2>4. \E b \in sums : <<i, len, <<-1, i>>>> = Scanning(b)
    <3>1. PICK b \in sums : <<i, len>> = <<b.lo, b.hi - b.lo>>
      BY <2>1 DEF Scheduled, BlocksInOrder
    <3> QED BY <3>1 DEF Scanning
  <2>5. DOMAIN scanned' = DOMAIN scanned \cup {<<i, len, <<-1, i>>>>}
    BY <2>1, BagElements
  <2>6. ScanInOrder'
    BY <2>1, <2>4, <2>5, SameCall DEF Scheduled, ScanInOrder, Everything, Scanning
  <2>7. Phases'
    BY <2>1, SameCall DEF Scheduled, Phases
  <2> QED BY <1>3, <1>4, <2>1, <2>2, <2>3, <2>6, <2>7 DEF Scheduled
<1>13. ASSUME NEW t \in copies, CopyRange(t) PROVE Scheduled'
  <2> DEFINE src == [memory.src EXCEPT ![t.at] = memory.buf[t.lo]]
             buf == [memory.buf EXCEPT ![t.lo] = Raw]
             elements == [k \in 1..(t.hi - t.lo) |-> <<t.seq, t.lo + k - 1>>]
             out == Put(memory.out, t.at, elements)
             ok1 == memory.ok /\ memory.buf[t.lo] # Raw
             ok2 == memory.ok /\ AllAre(memory.out, t.at, Len(elements), NotWritten)
  <2>1. UNCHANGED <<scanCall, sums, strictScan, scanPc, scanAnswer>>
        /\ memory' = IF t.seq = 0 THEN [memory EXCEPT !.src = src, !.buf = buf, !.ok = ok1]
                     ELSE [memory EXCEPT !.out = out, !.ok = ok2]
    <3>1. t.seq = 0 => memory' = [memory EXCEPT !.src[t.at] = memory.buf[t.lo], !.buf[t.lo] = Raw,
                                         !.ok = @ /\ memory.buf[t.lo] # Raw]
      BY <1>13 DEF CopyRange
    <3>2. t.seq = 0 => memory' = [memory EXCEPT !.src = src, !.buf = buf, !.ok = ok1]
      BY <1>1, <3>1 DEF IsMemory
    <3>3. t.seq # 0 => memory' = [memory EXCEPT !.out = out, !.ok = ok2]
      BY <1>13 DEF CopyRange
    <3> HIDE DEF src, buf, out, ok1, ok2
    <3>4. UNCHANGED <<scanCall, sums, strictScan, scanPc, scanAnswer>>
      BY <1>13 DEF CopyRange
    <3> QED BY <3>2, <3>3, <3>4
  <2> HIDE DEF src, buf, out, ok1, ok2
  <2>2. IsMemory(memory') /\ memory'.mask = memory.mask
    BY <1>1, <2>1 DEF IsMemory
  <2>3. MaskIsRight'
    BY <2>1, <2>2, MaskStays
  <2>4. Phases'
    BY <2>1, SameCall DEF Scheduled, Phases, strictScan
  <2> QED BY <1>3, <1>4, <1>5, <2>1, <2>2, <2>3, <2>4 DEF Scheduled, strictScan
<1>14. CASE UNCHANGED scanVars
  <2>1. UNCHANGED <<scanCall, memory, sums, strictScan, copies, scanPc, scanAnswer>>
    BY <1>14 DEF scanVars
  <2>2. MaskIsRight'
    BY <2>1, MaskStays
  <2>3. Phases'
    BY <2>1, SameCall DEF Scheduled, Phases, strictScan
  <2> QED BY <1>1, <1>3, <1>4, <1>5, <2>1, <2>2, <2>3 DEF Scheduled, strictScan
<1> QED BY <1>6, <1>7, <1>8, <1>9, <1>10, <1>11, <1>12, <1>13, <1>14 DEF ScanNext
-------------------------------------------------------------------------------
(* The blocks make a chain, and the sums follow it.                             *)
LEMMA Chain ==
  ASSUME Scheduled, Everything
  PROVE  /\ scanN \in Nat /\ Ends \subseteq 0..scanN /\ 0 \in Ends
         /\ scanN \in Ends
         /\ \A b \in sums : /\ b.lo \in Ends /\ b.hi \in Ends /\ b.lo < b.hi /\ b.lo \in 0..scanN
                            /\ b.hi \in 0..scanN /\ b.val \in Values /\ b.hi # 0
                            /\ b = Block(b) /\ b.val = ValueOf(b.lo, b.hi)
         /\ \A b, c \in sums : b.hi = c.hi => b = c
         /\ \A e \in Ends : e # 0 => \E b \in sums : b.hi = e
<1>1. scanN \in Nat
  BY ScanLengths DEF Scheduled
<1>2. /\ \A b \in sums : b.lo \in 0..scanN /\ b.hi \in 0..scanN /\ b.lo < b.hi /\ b = Block(b)
      /\ \A b, c \in sums : b = c \/ b.hi <= c.lo \/ c.hi <= b.lo
  BY DEF Scheduled, BlocksInOrder
<1>3. \A k \in 0..(scanN - 1) : \E b \in sums : b.lo <= k /\ k < b.hi
  BY DEF Everything
<1>4. \A b, c \in sums : b.hi = c.hi => b = c
  BY <1>1, <1>2
<1>5. \A b \in sums : b.val \in Values /\ b.val = ValueOf(b.lo, b.hi)
  <2> SUFFICES ASSUME NEW b \in sums PROVE b.val \in Values /\ b.val = ValueOf(b.lo, b.hi)
    OBVIOUS
  <2>1. b.val = ValueOf(b.lo, b.hi)
    BY <1>2 DEF Block
  <2>2. b.lo \in 0..scanN /\ b.hi \in 0..scanN /\ b.lo < b.hi /\ FormedScan /\ scanN = ScanLength(scanCall)
    BY <1>2 DEF Scheduled
  <2>3. ValueOf(b.lo, b.hi) \in Values
    BY <2>2, ValuesTyped
  <2> QED BY <2>1, <2>3
<1>6. ASSUME NEW k \in 1..scanN, \A b \in sums : b.hi <= k \/ k <= b.lo
      PROVE  \E b \in sums : b.hi = k
  <2>1. k - 1 \in 0..(scanN - 1) /\ k \in Nat
    BY <1>1
  <2>2. PICK b \in sums : b.lo <= k - 1 /\ k - 1 < b.hi
    BY <1>3, <2>1
  <2>3. b.lo \in Nat /\ b.hi \in Nat
    BY <1>1, <1>2
  <2> QED BY <1>6, <2>1, <2>2, <2>3
<1>7. scanN \in Ends
  <2>1. CASE scanN = 0
    BY <2>1 DEF Ends
  <2>2. CASE scanN # 0
    <3>1. scanN \in 1..scanN /\ \A b \in sums : b.hi <= scanN
      BY <1>1, <1>2, <2>2
    <3>2. \E b \in sums : b.hi = scanN
      BY <1>6, <3>1
    <3> QED BY <3>2 DEF Ends
  <2> QED BY <2>1, <2>2
<1>8. \A b \in sums : b.lo \in Ends
  <2> SUFFICES ASSUME NEW b \in sums, b.lo # 0 PROVE b.lo \in Ends
    BY DEF Ends
  <2>1. b.lo \in 1..scanN
    BY <1>1, <1>2
  <2>2. \A c \in sums : c.hi <= b.lo \/ b.lo <= c.lo
    BY <1>1, <1>2
  <2>3. \E c \in sums : c.hi = b.lo
    BY <1>6, <2>1, <2>2
  <2> QED BY <2>3 DEF Ends
<1>9. Ends \subseteq 0..scanN /\ 0 \in Ends /\ (\A b \in sums : b.hi \in Ends) /\ \A e \in Ends : e # 0 => \E b \in sums : b.hi = e
  BY <1>1, <1>2 DEF Ends
<1>10. \A b \in sums : b.hi # 0
  BY <1>1, <1>2
<1> QED BY <1>1, <1>2, <1>4, <1>5, <1>7, <1>8, <1>9, <1>10

\* The block that ends at a place: the one SumUpTo takes.
Ending(j) == CHOOSE b \in sums : b.hi = j

LEMMA SumsAre ==
  ASSUME Scheduled, Everything
  PROVE  /\ SumUpTo(0) = InitialSum
         /\ \A b \in sums : SumUpTo(b.hi) = Combine(SumUpTo(b.lo), b.val)
         /\ \A e \in Ends : SumUpTo(e) \in Values
<1> DEFINE body(j, f) == IF j = 0 THEN InitialSum ELSE Combine(f[Ending(j).lo], Ending(j).val)
           upto[j \in Ends] == IF j = 0 THEN InitialSum
                               ELSE LET s == CHOOSE b \in sums : b.hi = j IN Combine(upto[s.lo], s.val)
           rank == [j \in Ends |-> j]
           step == [x \in Ends \X [Ends -> Values] |-> body(x[1], x[2])]
           start == [j \in Ends |-> InitialSum]
<1>1. \A k : SumUpTo(k) = upto[k]
  BY DEF SumUpTo, Ends
<1>2. scanN \in Nat /\ Ends \subseteq 0..scanN /\ 0 \in Ends
  BY Chain
<1>3. \A e \in Ends : e # 0 => Ending(e) \in sums /\ Ending(e).hi = e /\ Ending(e).lo \in Ends
                             /\ Ending(e).lo < e /\ Ending(e).val \in Values
  BY Chain DEF Ending
<1>4. \A b \in sums : Ending(b.hi) = b /\ b.hi # 0 /\ b.hi \in Ends /\ b.lo \in Ends
  BY Chain DEF Ending
<1>5. ASSUME NEW j \in Ends, NEW f \in [Ends -> Values] PROVE body(j, f) \in Values
  <2>1. CASE j = 0
    BY <2>1, InitialTyped
  <2>2. CASE j # 0
    <3>1. f[Ending(j).lo] \in Values
      BY <1>3, <2>2
    <3> QED BY <1>3, <2>2, <3>1, CombineValues
  <2> QED BY <2>1, <2>2
<1>6. step \in [Ends \X [Ends -> Values] -> Values]
  <2> HIDE DEF body
  <2> QED BY <1>5
<1>7. rank \in [Ends -> 0..scanN] /\ start \in [Ends -> Values]
  BY <1>2, InitialTyped
<1>8. \A d \in Ends, f \in [Ends -> Values] : step[<<d, f>>] = body(d, f)
  <2> HIDE DEF body
  <2> QED OBVIOUS
<1>9. ReadsBelow(Ends, Values, rank, step)
  <2> SUFFICES ASSUME NEW d \in Ends, NEW f \in [Ends -> Values], NEW g \in [Ends -> Values],
                      \A e \in Ends : rank[e] < rank[d] => f[e] = g[e]
               PROVE  body(d, f) = body(d, g)
    <3> HIDE DEF step, body, rank
    <3> QED BY <1>8 DEF ReadsBelow
  <2>1. d # 0 => f[Ending(d).lo] = g[Ending(d).lo]
    BY <1>3
  <2> QED BY <2>1
<1>10. HasSolution(Ends, Values, step)
  <2> HIDE DEF step, rank, start
  <2> QED BY <1>2, <1>6, <1>7, <1>9, Recursion
<1>11. PICK f \in [Ends -> Values] : \A d \in Ends : f[d] = body(d, f)
  <2> HIDE DEF step, body
  <2> QED BY <1>8, <1>10 DEF HasSolution
<1>12. upto = [j \in Ends |-> body(j, upto)]
  <2>1. f = [j \in Ends |-> body(j, f)]
    <3> HIDE DEF body
    <3> QED BY <1>11
  <2> QED BY <2>1, ZenonT(30) DEF Ending
<1> HIDE DEF upto
<1>13. \A j \in Ends : upto[j] = body(j, upto)
  <2> HIDE DEF body
  <2> QED BY <1>12
<1>14. SumUpTo(0) = InitialSum
  BY <1>1, <1>2, <1>13
<1>15. \A b \in sums : SumUpTo(b.hi) = Combine(SumUpTo(b.lo), b.val)
  BY <1>1, <1>4, <1>13
<1>16. ASSUME NEW e \in Ends, \A d \in Ends : d < e => upto[d] \in Values PROVE upto[e] \in Values
  <2>1. e # 0 => upto[Ending(e).lo] \in Values
    BY <1>3, <1>16
  <2> QED BY <1>3, <1>13, <2>1, CombineValues, InitialTyped
<1>17. \A e \in Ends : upto[e] \in Values
  <2> DEFINE S == {m \in Nat : \A e \in Ends : e < m => upto[e] \in Values}
  <2>1. 0 \in S
    BY <1>2
  <2>2. ASSUME NEW m \in Nat, m \in S PROVE m + 1 \in S
    <3>1. ASSUME NEW e \in Ends, e < m + 1 PROVE upto[e] \in Values
      <4>1. \A d \in Ends : d < e => d < m
        BY <1>2, <3>1
      <4> QED BY <1>16, <2>2, <4>1
    <3> QED BY <3>1
  <2> HIDE DEF S
  <2>3. Nat \subseteq S
    BY <2>1, <2>2, Induction
  <2>4. scanN + 1 \in S
    BY <1>2, <2>3
  <2> QED BY <1>2, <2>4 DEF S
<1> QED BY <1>1, <1>14, <1>15, <1>17
(* The ways to put the brackets between two ends, from those between nearer ones. *)
IsBracket(x, p, f) ==
  \/ \E b \in sums : b.lo = p[1] /\ b.hi = p[2] /\ x = b.val
  \/ \E e \in Ends : p[1] < e /\ e < p[2] /\
       \E u \in f[<<p[1], e>>] : \E v \in f[<<e, p[2]>>] : x = Combine(u, v)

LEMMA OneBracket == \A p, f, x : x \in Brackets(p, f) <=> IsBracket(x, p, f)
<1> TAKE p, f, x
<1> DEFINE inner == {d \in Ends : p[1] < d /\ d < p[2]}
           outer == {d \in sums : d.lo = p[1] /\ d.hi = p[2]}
<1>1. \A us, vs : x \in Combined(us, vs) <=> \E u \in us : \E v \in vs : x = Combine(u, v)
  BY DEF Combined
<1>2. \A e : e \in inner <=> e \in Ends /\ p[1] < e /\ e < p[2]
  OBVIOUS
<1>3. \A b : b \in outer <=> b \in sums /\ b.lo = p[1] /\ b.hi = p[2]
  OBVIOUS
<1>4. Brackets(p, f) = {b.val : b \in outer} \cup UNION {Combined(f[<<p[1], e>>], f[<<e, p[2]>>]) : e \in inner}
  BY Zenon DEF Brackets
<1> HIDE DEF inner, outer
<1>5. x \in Brackets(p, f) <=> (\E b \in outer : x = b.val)
                               \/ (\E e \in inner : x \in Combined(f[<<p[1], e>>], f[<<e, p[2]>>]))
  BY <1>4
<1>6. (\E b \in outer : x = b.val) <=> (\E b \in sums : b.lo = p[1] /\ b.hi = p[2] /\ x = b.val)
  BY <1>3, Zenon
<1>7. (\E e \in inner : x \in Combined(f[<<p[1], e>>], f[<<e, p[2]>>]))
        <=> \E e \in Ends : p[1] < e /\ e < p[2] /\ x \in Combined(f[<<p[1], e>>], f[<<e, p[2]>>])
  BY <1>2
<1>8. ASSUME NEW e PROVE x \in Combined(f[<<p[1], e>>], f[<<e, p[2]>>])
        <=> \E u \in f[<<p[1], e>>] : \E v \in f[<<e, p[2]>>] : x = Combine(u, v)
  BY <1>1
<1> QED BY <1>5, <1>6, <1>7, <1>8 DEF IsBracket

LEMMA SpansSplit ==
  ASSUME Scheduled, Everything, NEW p \in Spans, NEW e \in Ends, p[1] < e, e < p[2]
  PROVE  /\ <<p[1], e>> \in Spans /\ <<e, p[2]>> \in Spans
         /\ e - p[1] < p[2] - p[1] /\ p[2] - e < p[2] - p[1]
<1>1. Ends \subseteq 0..scanN /\ p[1] \in Ends /\ p[2] \in Ends /\ scanN \in Nat
  BY Chain DEF Spans
<1>2. p[1] \in Nat /\ p[2] \in Nat /\ e \in Nat
  <2>1. \A d \in Ends : d \in Nat
    BY <1>1
  <2> QED BY <1>1, <2>1
<1>3. <<p[1], e>> \in Spans /\ <<e, p[2]>> \in Spans
  BY <1>1 DEF Spans
<1> QED BY <1>2, <1>3

\* Every way to put the brackets between two ends makes the sum up to one of them
\* that up to the other; and there is such a way.
LEMMA BracketsSolved ==
  ASSUME Scheduled, Everything
  PROVE  \E f \in [Spans -> SUBSET Values] : \A p \in Spans : f[p] = Brackets(p, f)
<1> DEFINE T == SUBSET Values
           rank == [p \in Spans |-> p[2] - p[1]]
           step == [x \in Spans \X [Spans -> T] |-> Brackets(x[1], x[2])]
           start == [p \in Spans |-> {}]
<1>1. scanN \in Nat /\ Ends \subseteq 0..scanN
  BY Chain
<1>2. ASSUME NEW p \in Spans PROVE p[1] \in Nat /\ p[2] \in Nat /\ p[2] - p[1] \in 0..scanN
  <2>1. p[1] \in Ends /\ p[2] \in Ends /\ p[1] < p[2]
    BY DEF Spans
  <2> DEFINE first == p[1]
             last == p[2]
  <2>2. first \in 0..scanN /\ last \in 0..scanN /\ first < last
    BY <1>1, <2>1
  <2> HIDE DEF first, last
  <2>3. first \in Nat /\ last \in Nat /\ last - first \in 0..scanN
    BY <1>1, <2>2
  <2> QED BY <2>1, <2>3 DEF first, last
<1>3. ASSUME NEW p \in Spans, NEW f \in [Spans -> T] PROVE Brackets(p, f) \in T
  <2> SUFFICES ASSUME NEW x \in Brackets(p, f) PROVE x \in Values
    OBVIOUS
  <2>1. CASE \E b \in sums : b.lo = p[1] /\ b.hi = p[2] /\ x = b.val
    BY <2>1, Chain
  <2>2. CASE \E e \in Ends : p[1] < e /\ e < p[2] /\
                \E u \in f[<<p[1], e>>] : \E v \in f[<<e, p[2]>>] : x = Combine(u, v)
    <3>0. PICK e \in Ends : p[1] < e /\ e < p[2] /\
                               \E u \in f[<<p[1], e>>] : \E v \in f[<<e, p[2]>>] : x = Combine(u, v)
      BY <2>2
    <3>1. PICK u \in f[<<p[1], e>>], v \in f[<<e, p[2]>>] : x = Combine(u, v)
      BY <3>0
    <3>2. <<p[1], e>> \in Spans /\ <<e, p[2]>> \in Spans
      BY <3>0, SpansSplit
    <3>3. u \in Values /\ v \in Values
      BY <3>2
    <3> QED BY <3>1, <3>3, CombineValues
  <2> QED BY <2>1, <2>2, OneBracket DEF IsBracket
<1>4. step \in [Spans \X [Spans -> T] -> T]
  <2> HIDE DEF T
  <2> QED BY <1>3
<1>5. rank \in [Spans -> 0..scanN] /\ start \in [Spans -> T]
  BY <1>2
<1>6. \A p \in Spans, f \in [Spans -> T] : step[<<p, f>>] = Brackets(p, f)
  <2> HIDE DEF T
  <2> QED OBVIOUS
<1>7. ReadsBelow(Spans, T, rank, step)
  <2> SUFFICES ASSUME NEW p \in Spans, NEW f \in [Spans -> T], NEW g \in [Spans -> T],
                      \A q \in Spans : rank[q] < rank[p] => f[q] = g[q]
               PROVE  Brackets(p, f) = Brackets(p, g)
    <3> HIDE DEF step, rank, T
    <3> QED BY <1>6 DEF ReadsBelow
  <2>1. ASSUME NEW e \in Ends, p[1] < e, e < p[2]
        PROVE  f[<<p[1], e>>] = g[<<p[1], e>>] /\ f[<<e, p[2]>>] = g[<<e, p[2]>>]
    <3>1. /\ <<p[1], e>> \in Spans /\ <<e, p[2]>> \in Spans
          /\ e - p[1] < p[2] - p[1] /\ p[2] - e < p[2] - p[1]
      BY <2>1, SpansSplit
    <3>2. rank[p] = p[2] - p[1] /\ rank[<<p[1], e>>] = e - p[1] /\ rank[<<e, p[2]>>] = p[2] - e
      BY <3>1
    <3> HIDE DEF rank
    <3> QED BY <3>1, <3>2
  <2>2. \A x : x \in Brackets(p, f) <=> x \in Brackets(p, g)
    <3>1. ASSUME NEW x PROVE IsBracket(x, p, f) <=> IsBracket(x, p, g)
      <4>1. ASSUME NEW e \in Ends, p[1] < e, e < p[2]
            PROVE  (\E u \in f[<<p[1], e>>] : \E v \in f[<<e, p[2]>>] : x = Combine(u, v))
                   <=> (\E u \in g[<<p[1], e>>] : \E v \in g[<<e, p[2]>>] : x = Combine(u, v))
        <5> HIDE DEF T, rank
        <5>1. f[<<p[1], e>>] = g[<<p[1], e>>] /\ f[<<e, p[2]>>] = g[<<e, p[2]>>]
          BY <2>1, <4>1
        <5> QED BY <5>1
      <4> HIDE DEF T, rank
      <4> QED BY <4>1 DEF IsBracket
    <3> QED BY <3>1, OneBracket, Zenon
  <2> QED BY <2>2
<1>8. HasSolution(Spans, T, step)
  <2> HIDE DEF T, step, rank, start
  <2> QED BY <1>1, <1>4, <1>5, <1>7, Recursion
<1> HIDE DEF step, T
<1>9. PICK f \in [Spans -> T] : \A p \in Spans : f[p] = step[<<p, f>>]
  BY <1>8 DEF HasSolution
<1> QED BY <1>6, <1>9 DEF T

LEMMA BracketsAgree ==
  ASSUME Scheduled, Everything, NEW f, \A p \in Spans : f[p] = Brackets(p, f)
  PROVE  \A p \in Spans : f[p] # {} /\ \A x \in f[p] : x \in Values /\ Combine(SumUpTo(p[1]), x) = SumUpTo(p[2])
<1> DEFINE agrees(p) == f[p] # {} /\ \A x \in f[p] : x \in Values /\ Combine(SumUpTo(p[1]), x) = SumUpTo(p[2])
           S == {m \in Nat : \A p \in Spans : p[2] - p[1] < m => agrees(p)}
<1>1. scanN \in Nat /\ Ends \subseteq 0..scanN
  BY Chain
<1>2. \A p \in Spans : p[1] \in Nat /\ p[2] \in Nat /\ p[2] - p[1] \in 0..scanN /\ p[1] \in Ends /\ p[2] \in Ends
                       /\ p[1] < p[2]
  <2> SUFFICES ASSUME NEW p \in Spans
               PROVE  p[1] \in Nat /\ p[2] \in Nat /\ p[2] - p[1] \in 0..scanN /\ p[1] \in Ends /\ p[2] \in Ends
                      /\ p[1] < p[2]
    OBVIOUS
  <2>1. p[1] \in Ends /\ p[2] \in Ends /\ p[1] < p[2]
    BY DEF Spans
  <2> DEFINE first == p[1]
             last == p[2]
  <2>2. first \in 0..scanN /\ last \in 0..scanN /\ first < last
    BY <1>1, <2>1
  <2> HIDE DEF first, last
  <2>3. first \in Nat /\ last \in Nat /\ last - first \in 0..scanN
    BY <1>1, <2>2
  <2> QED BY <2>1, <2>3 DEF first, last
<1>3. ASSUME NEW p \in Spans, \A q \in Spans : q[2] - q[1] < p[2] - p[1] => agrees(q) PROVE agrees(p)
  <2>1. ASSUME NEW e \in Ends, p[1] < e, e < p[2] PROVE agrees(<<p[1], e>>) /\ agrees(<<e, p[2]>>)
    <3>1. /\ <<p[1], e>> \in Spans /\ <<e, p[2]>> \in Spans
          /\ e - p[1] < p[2] - p[1] /\ p[2] - e < p[2] - p[1]
      BY <2>1, SpansSplit
    <3> HIDE DEF agrees
    <3>2. \A q \in Spans : q = <<p[1], e>> \/ q = <<e, p[2]>> => agrees(q)
      BY <1>3, <3>1
    <3> QED BY <3>1, <3>2
  <2>2. \A x : x \in f[p] <=> IsBracket(x, p, f)
    BY OneBracket
  <2>3. PICK b \in sums : b.hi = p[2]
    BY <1>2, Chain
  <2>4. b.lo \in Ends /\ b.lo \in Nat /\ b.lo < p[2]
    BY <1>1, <2>3, Chain
  <2>5. p[1] <= b.lo
    <3> SUFFICES ASSUME b.lo < p[1] PROVE FALSE
      BY <1>2, <2>4
    <3>1. p[1] # 0 /\ p[1] \in Ends
      BY <1>2, <2>4
    <3>2. PICK c \in sums : c.hi = p[1]
      BY <3>1, Chain
    <3>3. b = c \/ b.hi <= c.lo \/ c.hi <= b.lo
      BY DEF Scheduled, BlocksInOrder
    <3>4. c.lo \in Nat /\ c.lo < c.hi
      BY <1>1, Chain
    <3> QED BY <1>2, <2>3, <2>4, <3>2, <3>3, <3>4
  <2>6. f[p] # {}
    <3>1. CASE p[1] = b.lo
      BY <2>2, <2>3, <3>1 DEF IsBracket
    <3>2. CASE p[1] < b.lo
      <4>1. f[<<p[1], b.lo>>] # {} /\ f[<<b.lo, p[2]>>] # {}
        BY <2>1, <2>3, <2>4, <3>2
      <4>2. PICK u \in f[<<p[1], b.lo>>], v \in f[<<b.lo, p[2]>>] : TRUE
        BY <4>1
      <4>3. Combine(u, v) \in f[p]
        BY <2>2, <2>4, <3>2, <4>2 DEF IsBracket
      <4> QED BY <4>3
    <3> QED BY <1>2, <2>4, <2>5, <3>1, <3>2
  <2>7. ASSUME NEW x \in f[p] PROVE x \in Values /\ Combine(SumUpTo(p[1]), x) = SumUpTo(p[2])
    <3>1. CASE \E c \in sums : c.lo = p[1] /\ c.hi = p[2] /\ x = c.val
      BY <3>1, SumsAre, Chain
    <3>2. CASE \E e \in Ends : p[1] < e /\ e < p[2] /\
                  \E u \in f[<<p[1], e>>] : \E v \in f[<<e, p[2]>>] : x = Combine(u, v)
      <4>0. PICK e \in Ends : p[1] < e /\ e < p[2] /\
                                 \E u \in f[<<p[1], e>>] : \E v \in f[<<e, p[2]>>] : x = Combine(u, v)
        BY <3>2
      <4>1. PICK u \in f[<<p[1], e>>], v \in f[<<e, p[2]>>] : x = Combine(u, v)
        BY <4>0
      <4>2. agrees(<<p[1], e>>) /\ agrees(<<e, p[2]>>)
        BY <2>1, <4>0
      <4>3. /\ u \in Values /\ Combine(SumUpTo(p[1]), u) = SumUpTo(e)
            /\ v \in Values /\ Combine(SumUpTo(e), v) = SumUpTo(p[2])
        BY <4>1, <4>2
      <4>4. SumUpTo(p[1]) \in Values
        BY <1>2, SumsAre
      <4>5. Combine(Combine(SumUpTo(p[1]), u), v) = Combine(SumUpTo(p[1]), Combine(u, v))
        BY <4>3, <4>4, CombineAssociates
      <4> QED BY <4>1, <4>3, <4>5, CombineValues
    <3> QED BY <2>2, <2>7, <3>1, <3>2 DEF IsBracket
  <2> QED BY <2>6, <2>7
<1>4. 0 \in S
  BY <1>2
<1>5. ASSUME NEW m \in Nat, m \in S PROVE m + 1 \in S
  <2>1. ASSUME NEW p \in Spans, p[2] - p[1] < m + 1 PROVE agrees(p)
    <3>1. \A q \in Spans : q[2] - q[1] < p[2] - p[1] => q[2] - q[1] < m
      BY <1>2, <2>1
    <3> HIDE DEF agrees
    <3>2. \A q \in Spans : q[2] - q[1] < m => agrees(q)
      BY <1>5
    <3> QED BY <1>3, <3>1, <3>2
  <2> HIDE DEF agrees
  <2> QED BY <2>1
<1> HIDE DEF S, agrees
<1>6. Nat \subseteq S
  BY <1>4, <1>5, Induction
<1>7. scanN + 1 \in S
  BY <1>1, <1>6
<1>8. \A p \in Spans : agrees(p)
  BY <1>1, <1>2, <1>7 DEF S
<1> QED BY <1>8 DEF agrees

LEMMA BracketsAreOne == Scheduled => OneBracketing
<1> SUFFICES ASSUME Scheduled, total = NoSum, scanN > 0, scanPc = "scan", Contract!Covered
             PROVE  OneBracketing
  BY Zenon DEF OneBracketing
<1> DEFINE all[p \in Spans] == Brackets(p, all)
<1>1. Everything
  BY CoveredIsEverything
<1>2. PICK f \in [Spans -> SUBSET Values] : \A p \in Spans : f[p] = Brackets(p, f)
  BY <1>1, BracketsSolved
<1>3. all = [p \in Spans |-> Brackets(p, all)]
  <2>1. f = [p \in Spans |-> Brackets(p, f)]
    BY <1>2
  <2> QED BY <2>1
<1> HIDE DEF all
<1>4. \A p \in Spans : all[p] = Brackets(p, all)
  BY <1>3
<1>5. \A p \in Spans : all[p] # {} /\ \A x \in all[p] : x \in Values /\ Combine(SumUpTo(p[1]), x) = SumUpTo(p[2])
  BY <1>1, <1>4, BracketsAgree
<1>6. <<0, scanN>> \in Spans
  BY <1>1, Chain DEF Spans
<1>7. all[<<0, scanN>>] # {} /\ \A x \in all[<<0, scanN>>] : Combine(SumUpTo(0), x) = SumUpTo(scanN)
  BY <1>5, <1>6
<1>8. SumUpTo(0) = InitialSum
  BY <1>1, SumsAre
<1>9. {Combine(InitialSum, s) : s \in all[<<0, scanN>>]} = {SumUpTo(scanN)}
  BY <1>7, <1>8
<1> QED BY <1>9, Zenon DEF OneBracketing, all

\* The schedule of the scan stays in order in every behaviour.
LEMMA AlwaysScheduled == ScanSpec => []Scheduled
BY ScheduledInit, ScheduledNext, PTL DEF ScanSpec

\* Whichever brackets the scan puts around the values of the blocks, it gets the sum
\* that apex is called with: the body of the set operations and that of the masked
\* copies may be given neighbouring blocks in any order (algorithm_impl.h:3113-3117).
THEOREM AnyBracketsWillDo == ScanSpec => []OneBracketing
<1>1. ScanSpec => []Scheduled
  BY AlwaysScheduled
<1>2. Scheduled => OneBracketing
  BY BracketsAreOne
<1> QED BY <1>1, <1>2, PTL
-------------------------------------------------------------------------------
(* What the scan does to memory. First what a block is scanned with.             *)
LEMMA AlongTheChain ==
  ASSUME Scheduled, Everything, NEW G, 0 \in G, \A b \in sums : b.lo \in G => b.hi \in G
  PROVE  Ends \subseteq G
<1> DEFINE S == {m \in Nat : \A e \in Ends : e < m => e \in G}
<1>1. scanN \in Nat /\ Ends \subseteq 0..scanN
  BY Chain
<1>2. 0 \in S
  BY <1>1
<1>3. ASSUME NEW m \in Nat, m \in S PROVE m + 1 \in S
  <2>1. ASSUME NEW e \in Ends, e < m + 1, e # 0 PROVE e \in G
    <3>1. PICK b \in sums : b.hi = e
      BY <2>1, Chain
    <3>2. b.lo \in Ends /\ b.lo \in Nat /\ b.lo < e /\ e \in Nat
      BY <1>1, <3>1, Chain
    <3>3. b.lo < m
      BY <2>1, <3>2
    <3>4. b.lo \in G
      BY <1>3, <3>2, <3>3
    <3> QED BY <3>1, <3>4
  <2> QED BY <2>1
<1> HIDE DEF S
<1>4. Nat \subseteq S
  BY <1>2, <1>3, Induction
<1>5. scanN + 1 \in S
  BY <1>1, <1>4
<1> QED BY <1>1, <1>5 DEF S

LEMMA CountBound ==
  ASSUME NEW c, NEW i \in Nat, NEW j \in Nat, i <= j, NEW mark
  PROVE  Count(c, i, j, mark) \in Nat /\ Count(c, i, j, mark) <= j - i
<1>1. Mine(c, i, j, mark) \in SUBSET (i..(j - 1)) /\ IsFiniteSet(i..(j - 1))
  BY FS_Interval DEF Mine
<1>2. Cardinality(i..(j - 1)) = j - i
  <2>1. Cardinality(i..(j - 1)) = IF i > j - 1 THEN 0 ELSE (j - 1) - i + 1
    BY FS_Interval
  <2> QED BY <2>1
<1> QED BY <1>1, <1>2, FS_Subset, Counted DEF Count

Rank(k, mark) == Count(scanCall, Base, k, mark)

LEMMA MaskSums ==
  ASSUME Scheduled, Everything, ~IsSet(scanCall)
  PROVE  \A e \in Ends : SumUpTo(e) = Mask!Counts(Rank(Base + e, "yes"), Rank(Base + e, "no"))
<1> DEFINE G == {e \in Ends : SumUpTo(e) = Mask!Counts(Rank(Base + e, "yes"), Rank(Base + e, "no"))}
<1>1. Base \in Nat /\ scanN \in Nat
  BY ScanLengths DEF Scheduled
<1>2. 0 \in G
  <2>1. Base + 0 = Base /\ 0 \in Ends
    BY <1>1, Chain
  <2>2. Rank(Base, "yes") = 0 /\ Rank(Base, "no") = 0
    BY <1>1, CountOfNone DEF Rank
  <2>3. SumUpTo(0) = Mask!Counts(0, 0)
    BY SumsAre DEF InitialSum, Mask!NoCounts
  <2> QED BY <2>1, <2>2, <2>3
<1>3. ASSUME NEW b \in sums, b.lo \in G PROVE b.hi \in G
  <2>1. b.lo \in 0..scanN /\ b.hi \in 0..scanN /\ b.lo < b.hi /\ b.hi \in Ends /\ b.val = ValueOf(b.lo, b.hi)
    BY Chain
  <2>2. SumUpTo(b.hi) = Combine(SumUpTo(b.lo), b.val)
    BY SumsAre
  <2>3. Base + b.lo \in Nat /\ Base + b.hi \in Nat /\ Base <= Base + b.lo /\ Base + b.lo <= Base + b.hi
    BY <1>1, <2>1
  <2>4. \A mark : Rank(Base + b.hi, mark) = Rank(Base + b.lo, mark) + Count(scanCall, Base + b.lo, Base + b.hi, mark)
    BY <1>1, <2>3, CountsAdd DEF Rank
  <2>5. b.val = Mask!Counts(Count(scanCall, Base + b.lo, Base + b.hi, "yes"), Count(scanCall, Base + b.lo, Base + b.hi, "no"))
    BY <2>1 DEF ValueOf
  <2>6. SumUpTo(b.hi) = Mask!Counts(SumUpTo(b.lo).yes + b.val.yes, SumUpTo(b.lo).no + b.val.no)
    BY <2>2 DEF Combine, Mask!Combine
  <2>7. SumUpTo(b.lo).yes = Rank(Base + b.lo, "yes") /\ SumUpTo(b.lo).no = Rank(Base + b.lo, "no")
    BY <1>3 DEF Mask!Counts
  <2>8. b.val.yes = Count(scanCall, Base + b.lo, Base + b.hi, "yes") /\ b.val.no = Count(scanCall, Base + b.lo, Base + b.hi, "no")
    BY <2>5 DEF Mask!Counts
  <2> QED BY <2>1, <2>4, <2>6, <2>7, <2>8
<1>4. Ends \subseteq G
  <2> HIDE DEF G
  <2> QED BY <1>2, <1>3, AlongTheChain
<1> QED BY <1>4

\* The pairs of places a block is copied between: each marked element goes to its rank.
LEMMA TransfersAre ==
  ASSUME Scheduled, Everything, ~IsSet(scanCall), NEW b \in sums, NEW mark
  PROVE  /\ Mask!Transfers(memory.mask, Base + b.lo, Base + b.hi, mark, Rank(Base + b.lo, mark))
              = {<<k, Rank(k, mark)>> : k \in Mine(scanCall, Base + b.lo, Base + b.hi, mark)}
         /\ \A k \in Mine(scanCall, Base + b.lo, Base + b.hi, mark) :
              /\ k \in Base..(Size(scanCall) - 1) /\ k \in 0..(Size(scanCall) - 1) /\ MarkOf(scanCall, k) = mark
              /\ Base + b.lo <= k /\ k < Base + b.hi
              /\ Rank(k, mark) \in 0..(scanN - 1) /\ Rank(k, mark) \in 0..(Size(scanCall) - 1)
<1> DEFINE i == Base + b.lo
           j == Base + b.hi
<1>1. Base \in Nat /\ scanN \in Nat /\ Size(scanCall) \in Nat /\ Base + scanN <= Size(scanCall)
  BY ScanLengths DEF Scheduled
<1>2. b.lo \in 0..scanN /\ b.hi \in 0..scanN /\ b.lo < b.hi
  BY Chain
<1>3. i \in Nat /\ j \in Nat /\ i < j /\ Base <= i /\ j <= Base + scanN
  BY <1>1, <1>2
<1>4. \A k \in i..(j - 1) : memory.mask[k] = MarkOf(scanCall, k)
  <2>1. \A k \in (Base + b.lo)..(Base + b.hi - 1) : memory.mask[k] = MarkOf(scanCall, k)
    BY DEF Scheduled, MaskIsRight
  <2>2. Base + b.hi - 1 = j - 1
    BY <1>1, <1>2
  <2> QED BY <2>1, <2>2
<1> HIDE DEF i, j
<1>5. \A k \in i..j : Mask!Marked(memory.mask, i, k, mark) = Mine(scanCall, i, k, mark)
  <2> SUFFICES ASSUME NEW k \in i..j
               PROVE  Mask!Marked(memory.mask, i, k, mark) = Mine(scanCall, i, k, mark)
    OBVIOUS
  <2>1. \A l \in i..(k - 1) : l \in i..(j - 1)
    BY <1>3
  <2>2. \A l \in i..(k - 1) : memory.mask[l] = MarkOf(scanCall, l)
    BY <1>4, <2>1
  <2> QED BY <2>2 DEF Mask!Marked, Mine
<1>6. Mask!Marked(memory.mask, i, j, mark) = Mine(scanCall, i, j, mark)
  BY <1>3, <1>5
<1>7. ASSUME NEW k \in Mine(scanCall, i, j, mark)
      PROVE  /\ k \in i..(j - 1)
             /\ Rank(i, mark) + Mask!Cardinality(Mask!Marked(memory.mask, i, k, mark)) = Rank(k, mark)
  <2>1. k \in i..(j - 1)
    BY DEF Mine
  <2>2. k \in i..j /\ k \in Nat /\ i <= k
    BY <1>3, <2>1
  <2>3. Mask!Cardinality(Mask!Marked(memory.mask, i, k, mark)) = Count(scanCall, i, k, mark)
    BY <1>5, <2>2, SetCardinality DEF Count
  <2>4. Rank(k, mark) = Rank(i, mark) + Count(scanCall, i, k, mark)
    BY <1>1, <1>3, <2>2, CountsAdd DEF Rank
  <2> QED BY <2>1, <2>3, <2>4
<1>8. Mask!Transfers(memory.mask, i, j, mark, Rank(i, mark)) = {<<k, Rank(k, mark)>> : k \in Mine(scanCall, i, j, mark)}
  <2>1. Mask!Transfers(memory.mask, i, j, mark, Rank(i, mark)) =
          {<<k, Rank(i, mark) + Mask!Cardinality(Mask!Marked(memory.mask, i, k, mark))>> : k \in Mine(scanCall, i, j, mark)}
    BY <1>6 DEF Mask!Transfers
  <2> QED BY <1>7, <2>1
<1>9. ASSUME NEW k \in Mine(scanCall, i, j, mark)
      PROVE  /\ k \in Base..(Size(scanCall) - 1) /\ k \in 0..(Size(scanCall) - 1) /\ MarkOf(scanCall, k) = mark
             /\ i <= k /\ k < j
             /\ Rank(k, mark) \in 0..(scanN - 1) /\ Rank(k, mark) \in 0..(Size(scanCall) - 1)
  <2>1. k \in i..(j - 1) /\ MarkOf(scanCall, k) = mark
    BY DEF Mine
  <2>2. k \in Nat /\ Base <= k /\ i <= k /\ k < j /\ k < Base + scanN
    BY <1>1, <1>3, <2>1
  <2>3. Rank(k, mark) \in Nat /\ Rank(k, mark) <= k - Base
    BY <1>1, <2>2, CountBound DEF Rank
  <2> QED BY <1>1, <2>1, <2>2, <2>3
<1> QED BY <1>8, <1>9 DEF i, j

\* A block that is scanned has been reduced and has not been scanned.
LEMMA BlockScanned ==
  ASSUME Scheduled, NEW i \in 0..(scanN - 1), NEW len \in 1..(scanN - i), ScanBlock(i, len)
  PROVE  \E b \in sums :
           /\ b.lo = i /\ b.hi = i + len /\ Scanning(b) \notin DOMAIN scanned
           /\ DOMAIN scanned' = DOMAIN scanned \cup {Scanning(b)}
           /\ Everything /\ total # NoSum /\ ~scanReturned /\ scanPc = "scan"
           /\ UNCHANGED <<scanCall, sums, copies, scanPc, scanAnswer, scanN, scanReduced, total, scanReturned>>
           /\ memory' = IF IsSet(scanCall) THEN MoveRange(SumUpTo(b.lo)) ELSE CopyMasked(b.lo, b.hi, SumUpTo(b.lo))
<1>1. scanPc = "scan" /\ UNCHANGED <<scanCall, sums, copies, scanPc, scanAnswer>>
      /\ UNCHANGED <<scanN, scanReduced, total, scanReturned>> /\ total # NoSum /\ ~scanReturned
      /\ <<i, len>> \in DOMAIN scanReduced /\ (\A s \in DOMAIN scanned : s[1] # i)
      /\ scanned' = Contract!BagAdd(scanned, <<i, len, <<-1, i>>>>)
      /\ memory' = IF IsSet(scanCall) THEN MoveRange(SumUpTo(i)) ELSE CopyMasked(i, i + len, SumUpTo(i))
  BY DEF ScanBlock, Contract!Scan
<1>2. PICK b \in sums : <<i, len>> = <<b.lo, b.hi - b.lo>>
  BY <1>1 DEF Scheduled, BlocksInOrder
<1>3. b.lo \in 0..scanN /\ b.hi \in 0..scanN /\ b.lo < b.hi /\ scanN \in Nat
  BY ScanLengths DEF Scheduled, BlocksInOrder
<1>4. b.lo = i /\ b.hi - b.lo = len /\ b.hi = i + len
  BY <1>2, <1>3
<1>5. Scanning(b) = <<i, len, <<-1, i>>>> /\ Scanning(b) \notin DOMAIN scanned
  BY <1>1, <1>4 DEF Scanning
<1>6. DOMAIN scanned' = DOMAIN scanned \cup {Scanning(b)}
  BY <1>1, <1>5, BagElements
<1>7. Everything
  BY <1>1 DEF Scheduled, ScanInOrder
<1> QED BY <1>1, <1>4, <1>5, <1>6, <1>7
-------------------------------------------------------------------------------
(* The memory of the masked copies: an element has been copied when its block has *)
(* been scanned, and it went to the place its rank gives it.                     *)
Copied(k) == \E b \in sums : Scanning(b) \in DOMAIN scanned /\ Base + b.lo <= k /\ k < Base + b.hi

Taken(x, mark) ==
  \E k \in Base..(Size(scanCall) - 1) : Copied(k) /\ MarkOf(scanCall, k) = mark /\ Rank(k, mark) = x

Back(x) == Set!Copy(0, x, x + 1, Base + x)

MaskFrame ==
  /\ memory.ok
  /\ DOMAIN memory.src = 0..(Size(scanCall) - 1) /\ DOMAIN memory.out = 0..(Size(scanCall) - 1)
  /\ DOMAIN memory.out2 = 0..(Size(scanCall) - 1)
  /\ scanPc = "begin" \/ ~Removes => DOMAIN memory.buf = {} /\ copies = {}
  /\ scanPc \in {"scan", "join"} /\ Removes => DOMAIN memory.buf = 0..(scanN - 1)
  /\ scanPc = "scan" => copies = {}

MaskWritten ==
  scanPc \in {"begin", "scan"} /\ ~Removes =>
    /\ \A x \in DOMAIN memory.out : memory.out[x] # NotWritten => Taken(x, "yes")
    /\ scanCall.alg = "partition_copy" =>
         \A x \in DOMAIN memory.out2 : memory.out2[x] # NotWritten => Taken(x, "no")

MaskMoved ==
  scanPc \in {"begin", "scan"} /\ Removes =>
    /\ \A k \in DOMAIN memory.src : ~Copied(k) => memory.src[k] = <<1, k>>
    /\ \A x \in DOMAIN memory.buf : memory.buf[x] # Raw <=> Taken(x, "yes")

MaskBack ==
  scanPc = "join" /\ Removes =>
    /\ copies \subseteq {Back(x) : x \in 0..(scanN - 1)}
    /\ \A x \in DOMAIN memory.buf : memory.buf[x] # Raw <=> Back(x) \in copies

MaskRaw == scanPc = "done" => \A x \in DOMAIN memory.buf : memory.buf[x] = Raw

MaskMemory == ~IsSet(scanCall) => MaskFrame /\ MaskWritten /\ MaskMoved /\ MaskBack /\ MaskRaw

LEMMA MaskMemoryInit == ScanInit => MaskMemory
<1> SUFFICES ASSUME ScanInit, ~IsSet(scanCall) PROVE MaskFrame /\ MaskWritten /\ MaskMoved /\ MaskBack /\ MaskRaw
  BY DEF MaskMemory
<1>1. /\ memory = [mask |-> Fill(Size(scanCall), "unset"), src |-> [k \in 0..(Size(scanCall) - 1) |-> <<1, k>>], buf |-> <<>>,
                   out |-> Fill(Size(scanCall), NotWritten), out2 |-> Fill(Size(scanCall), NotWritten), ok |-> TRUE]
      /\ copies = {} /\ scanPc = "begin"
  BY DEF ScanInit
<1>2. /\ memory.src = [k \in 0..(Size(scanCall) - 1) |-> <<1, k>>] /\ memory.buf = <<>> /\ memory.ok
      /\ memory.out = Fill(Size(scanCall), NotWritten) /\ memory.out2 = Fill(Size(scanCall), NotWritten)
  BY <1>1
<1>3. MaskFrame
  BY <1>1, <1>2 DEF MaskFrame, Fill
<1>4. MaskWritten /\ MaskMoved
  BY <1>1, <1>2 DEF MaskWritten, MaskMoved, Fill
<1> QED BY <1>1, <1>3, <1>4 DEF MaskBack, MaskRaw

\* What is copied depends on the call, the blocks and the scans of them.
LEMMA SameCopied ==
  ASSUME UNCHANGED <<scanCall, sums, scanned>>
  PROVE  /\ \A k : Copied(k)' = Copied(k)
         /\ \A x, mark : Taken(x, mark)' = Taken(x, mark)
         /\ \A x : Back(x)' = Back(x)
<1>1. Base' = Base /\ Size(scanCall)' = Size(scanCall) /\ \A k : MarkOf(scanCall, k)' = MarkOf(scanCall, k)
  BY SameCall DEF MarkOf
<1>2. \A k, mark : Rank(k, mark)' = Rank(k, mark)
  BY <1>1 DEF Rank
<1>3. \A b : Scanning(b)' = Scanning(b)
  BY DEF Scanning
<1>4. \A k : Copied(k)' = Copied(k)
  BY <1>1, <1>3 DEF Copied
<1> QED BY <1>1, <1>2, <1>4 DEF Taken, Back

\* The places that are not among the targets stay as they were.
LEMMA AssignedAre ==
  ASSUME NEW mem, NEW from, NEW pairs
  PROVE  /\ DOMAIN Assigned(mem, from, pairs) = DOMAIN mem
         /\ \A x \in DOMAIN mem :
              IF \E t \in pairs : t[2] = x
                THEN \E t \in pairs : t[2] = x /\ Assigned(mem, from, pairs)[x] = from[t[1]]
                ELSE Assigned(mem, from, pairs)[x] = mem[x]
<1> DEFINE chosen(x) == CHOOSE t \in pairs : t[2] = x
<1>1. Assigned(mem, from, pairs) = [x \in DOMAIN mem |-> IF \E t \in pairs : t[2] = x THEN from[chosen(x)[1]] ELSE mem[x]]
  BY DEF Assigned
<1>2. \A x : (\E t \in pairs : t[2] = x) => chosen(x) \in pairs /\ chosen(x)[2] = x
  OBVIOUS
<1> HIDE DEF chosen
<1> QED BY <1>1, <1>2

\* One more block is scanned: its elements are copied too.
LEMMA MoreCopied ==
  ASSUME Scheduled, ~IsSet(scanCall), NEW b \in sums, UNCHANGED <<scanCall, sums>>, Everything,
         DOMAIN scanned' = DOMAIN scanned \cup {Scanning(b)}, Scanning(b) \notin DOMAIN scanned
  PROVE  /\ \A k : Copied(k)' <=> Copied(k) \/ (Base + b.lo <= k /\ k < Base + b.hi)
         /\ \A k \in Nat : Base + b.lo <= k /\ k < Base + b.hi => ~Copied(k)
         /\ \A x, mark : Taken(x, mark)' <=> \/ Taken(x, mark)
                                             \/ \E k \in Mine(scanCall, Base + b.lo, Base + b.hi, mark) : Rank(k, mark) = x
         /\ \A mark : \A k \in Mine(scanCall, Base + b.lo, Base + b.hi, mark) : ~Taken(Rank(k, mark), mark)
<1>1. Base' = Base /\ Size(scanCall)' = Size(scanCall) /\ \A k : MarkOf(scanCall, k)' = MarkOf(scanCall, k)
  BY SameCall DEF MarkOf
<1>2. \A k, mark : Rank(k, mark)' = Rank(k, mark)
  BY <1>1 DEF Rank
<1>3. \A c : Scanning(c)' = Scanning(c)
  BY DEF Scanning
<1>4. \A k : Copied(k)' <=> Copied(k) \/ (Base + b.lo <= k /\ k < Base + b.hi)
  <2>1. \A c \in sums : Scanning(c) = Scanning(b) => c = b
    <3> SUFFICES ASSUME NEW c \in sums, Scanning(c) = Scanning(b) PROVE c = b
      OBVIOUS
    <3>1. c.lo = b.lo /\ b.lo \in 0..scanN /\ c.lo \in 0..scanN /\ b.hi \in 0..scanN /\ c.hi \in 0..scanN
          /\ b.lo < b.hi /\ c.lo < c.hi /\ scanN \in Nat
      BY Chain DEF Scanning
    <3>2. c = b \/ c.hi <= b.lo \/ b.hi <= c.lo
      BY DEF Scheduled, BlocksInOrder
    <3> QED BY <3>1, <3>2
  <2>2. sums' = sums
    OBVIOUS
  <2> QED BY <1>1, <1>3, <2>1, <2>2 DEF Copied
<1>5. Base \in Nat /\ scanN \in Nat
  BY ScanLengths DEF Scheduled
<1>6. ASSUME NEW k \in Nat, Base + b.lo <= k, k < Base + b.hi, Copied(k) PROVE FALSE
  <2>1. PICK c \in sums : Scanning(c) \in DOMAIN scanned /\ Base + c.lo <= k /\ k < Base + c.hi
    BY <1>6 DEF Copied
  <2>2. b.lo \in Nat /\ b.hi \in Nat /\ c.lo \in Nat /\ c.hi \in Nat
    BY <1>5, Chain
  <2>3. c # b
    BY <2>1
  <2>4. c.hi <= b.lo \/ b.hi <= c.lo
    BY <2>3 DEF Scheduled, BlocksInOrder
  <2> QED BY <1>5, <1>6, <2>1, <2>2, <2>4
<1>7. \A mark : \A k \in Mine(scanCall, Base + b.lo, Base + b.hi, mark) :
              /\ k \in Base..(Size(scanCall) - 1) /\ MarkOf(scanCall, k) = mark
              /\ Base + b.lo <= k /\ k < Base + b.hi
  BY TransfersAre
<1>8. \A mark : \A k \in Base..(Size(scanCall) - 1) :
           MarkOf(scanCall, k) = mark /\ Base + b.lo <= k /\ k < Base + b.hi
           => k \in Mine(scanCall, Base + b.lo, Base + b.hi, mark)
  <2>1. b.lo \in Nat /\ b.hi \in Nat /\ Size(scanCall) \in Nat
    BY <1>5, Chain, ScanLengths DEF Scheduled
  <2>2. \A k \in Base..(Size(scanCall) - 1) : Base + b.lo <= k /\ k < Base + b.hi => k \in (Base + b.lo)..((Base + b.hi) - 1)
    BY <1>5, <2>1
  <2> QED BY <2>2 DEF Mine
<1>9. \A x, mark : Taken(x, mark)' <=> \/ Taken(x, mark)
                                       \/ \E k \in Mine(scanCall, Base + b.lo, Base + b.hi, mark) : Rank(k, mark) = x
  <2> TAKE x, mark
  <2>1. Taken(x, mark)' <=> \E k \in Base..(Size(scanCall) - 1) :
           /\ Copied(k) \/ (Base + b.lo <= k /\ k < Base + b.hi)
           /\ MarkOf(scanCall, k) = mark /\ Rank(k, mark) = x
    BY <1>1, <1>2, <1>4 DEF Taken
  <2> QED BY <1>7, <1>8, <2>1 DEF Taken
<1>10. ASSUME NEW mark, NEW k \in Mine(scanCall, Base + b.lo, Base + b.hi, mark), Taken(Rank(k, mark), mark) PROVE FALSE
  <2>1. PICK l \in Base..(Size(scanCall) - 1) : Copied(l) /\ MarkOf(scanCall, l) = mark /\ Rank(l, mark) = Rank(k, mark)
    BY <1>10 DEF Taken
  <2>2. k \in Base..(Size(scanCall) - 1) /\ MarkOf(scanCall, k) = mark /\ Base + b.lo <= k /\ k < Base + b.hi
    BY <1>7
  <2>3. Size(scanCall) \in Nat
    BY ScanLengths DEF Scheduled
  <2>4. k \in Nat /\ l \in Nat /\ Base <= k /\ Base <= l
    BY <1>5, <2>1, <2>2, <2>3
  <2>5. ~Copied(k)
    BY <1>6, <2>2, <2>4
  <2>6. l # k
    BY <2>1, <2>5
  <2>7. Rank(k, mark) \in Nat
    BY <1>5, <2>4, Counted DEF Rank
  <2>8. CASE l < k
    <3>1. Rank(l, mark) < Rank(k, mark)
      BY <1>5, <2>1, <2>4, <2>8, RanksDiffer DEF Rank
    <3> QED BY <2>1, <2>7, <3>1
  <2>9. CASE k < l
    <3>1. Rank(k, mark) < Rank(l, mark)
      BY <1>5, <2>2, <2>4, <2>9, RanksDiffer DEF Rank
    <3> QED BY <2>1, <2>7, <3>1
  <2> QED BY <2>4, <2>6, <2>8, <2>9
<1> QED BY <1>4, <1>6, <1>9, <1>10

\* What a copy by the mask leaves of the pairs it transfers.
CopyLeaves(yes, no) ==
  IF Removes
    THEN [memory EXCEPT !.buf = Assigned(@, memory.src, yes),
                        !.src = [k \in DOMAIN @ |-> IF \E t \in yes : t[1] = k THEN MovedFrom ELSE @[k]],
                        !.ok = @ /\ Targets(memory.buf, yes, Raw) /\ \A t \in yes : memory.src[t[1]] # MovedFrom]
  ELSE IF scanCall.alg = "partition_copy"
    THEN [memory EXCEPT !.out = Assigned(@, memory.src, yes), !.out2 = Assigned(@, memory.src, no),
                        !.ok = @ /\ Targets(memory.out, yes, NotWritten) /\ Targets(memory.out2, no, NotWritten)]
  ELSE [memory EXCEPT !.out = Assigned(@, memory.src, yes),
                      !.ok = @ /\ Targets(memory.out, yes, NotWritten)]

LEMMA PairsAreCopied ==
  ASSUME NEW lo, NEW hi, NEW sum, NEW yes, NEW no,
         Mask!Transfers(memory.mask, Base + lo, Base + hi, "yes", sum.yes) = yes,
         Mask!Transfers(memory.mask, Base + lo, Base + hi, "no", sum.no) = no
  PROVE  CopyMasked(lo, hi, sum) = CopyLeaves(yes, no)
BY DEF CopyMasked, CopyLeaves, Base

LEMMA MaskScanned ==
  ASSUME Scheduled, MaskMemory, ~IsSet(scanCall),
         NEW i \in 0..(scanN - 1), NEW len \in 1..(scanN - i), ScanBlock(i, len)
  PROVE  MaskMemory'
<1>1. PICK b \in sums :
           /\ b.lo = i /\ b.hi = i + len /\ Scanning(b) \notin DOMAIN scanned
           /\ DOMAIN scanned' = DOMAIN scanned \cup {Scanning(b)}
           /\ Everything /\ total # NoSum /\ ~scanReturned /\ scanPc = "scan"
           /\ UNCHANGED <<scanCall, sums, copies, scanPc, scanAnswer, scanN, scanReduced, total, scanReturned>>
           /\ memory' = IF IsSet(scanCall) THEN MoveRange(SumUpTo(b.lo)) ELSE CopyMasked(b.lo, b.hi, SumUpTo(b.lo))
  BY BlockScanned
<1> DEFINE mine(mark) == Mine(scanCall, Base + b.lo, Base + b.hi, mark)
           pairs(mark) == {<<k, Rank(k, mark)>> : k \in mine(mark)}
           yes == pairs("yes")
           no == pairs("no")
<1>2. SumUpTo(b.lo).yes = Rank(Base + b.lo, "yes") /\ SumUpTo(b.lo).no = Rank(Base + b.lo, "no")
  <2>1. b.lo \in Ends
    BY <1>1, Chain
  <2> QED BY <1>1, <2>1, MaskSums DEF Mask!Counts
<1>3. \A mark : /\ Mask!Transfers(memory.mask, Base + b.lo, Base + b.hi, mark, Rank(Base + b.lo, mark)) = pairs(mark)
                /\ \A k \in mine(mark) :
                     /\ k \in Base..(Size(scanCall) - 1) /\ k \in 0..(Size(scanCall) - 1) /\ MarkOf(scanCall, k) = mark
                     /\ Base + b.lo <= k /\ k < Base + b.hi
                     /\ Rank(k, mark) \in 0..(scanN - 1) /\ Rank(k, mark) \in 0..(Size(scanCall) - 1)
  BY <1>1, TransfersAre
<1>4. /\ \A k : Copied(k)' <=> Copied(k) \/ (Base + b.lo <= k /\ k < Base + b.hi)
      /\ \A k \in Nat : Base + b.lo <= k /\ k < Base + b.hi => ~Copied(k)
      /\ \A x, mark : Taken(x, mark)' <=> Taken(x, mark) \/ \E k \in mine(mark) : Rank(k, mark) = x
      /\ \A mark : \A k \in mine(mark) : ~Taken(Rank(k, mark), mark)
  BY <1>1, MoreCopied
<1> HIDE DEF mine
<1>6. memory' = CopyMasked(b.lo, b.hi, SumUpTo(b.lo))
  BY <1>1
<1> DEFINE moved == Assigned(memory.buf, memory.src, yes)
           left == [k \in DOMAIN memory.src |-> IF \E t \in yes : t[1] = k THEN MovedFrom ELSE memory.src[k]]
           out == Assigned(memory.out, memory.src, yes)
           out2 == Assigned(memory.out2, memory.src, no)
           okBuf == memory.ok /\ Targets(memory.buf, yes, Raw) /\ \A t \in yes : memory.src[t[1]] # MovedFrom
           okBoth == memory.ok /\ Targets(memory.out, yes, NotWritten) /\ Targets(memory.out2, no, NotWritten)
           okOut == memory.ok /\ Targets(memory.out, yes, NotWritten)
<1>7. memory' = IF Removes THEN [memory EXCEPT !.buf = moved, !.src = left, !.ok = okBuf]
                ELSE IF scanCall.alg = "partition_copy" THEN [memory EXCEPT !.out = out, !.out2 = out2, !.ok = okBoth]
                ELSE [memory EXCEPT !.out = out, !.ok = okOut]
  <2>1. /\ Mask!Transfers(memory.mask, Base + b.lo, Base + b.hi, "yes", SumUpTo(b.lo).yes) = yes
        /\ Mask!Transfers(memory.mask, Base + b.lo, Base + b.hi, "no", SumUpTo(b.lo).no) = no
    BY <1>2, <1>3
  <2> HIDE DEF yes, no
  <2>2. memory' = CopyLeaves(yes, no)
    BY <1>6, <2>1, PairsAreCopied
  <2> QED BY <2>2 DEF CopyLeaves
<1>8. MaskFrame /\ MaskWritten /\ MaskMoved
  BY DEF MaskMemory
<1>9. IsMemory(memory)
  BY DEF Scheduled
<1>10. /\ scanCall' = scanCall /\ Removes' = Removes /\ Size(scanCall)' = Size(scanCall) /\ IsSet(scanCall)' = IsSet(scanCall)
       /\ scanPc' = "scan" /\ copies' = copies /\ scanN' = scanN
  BY <1>1, SameCall DEF IsSet
<1>11. MaskBack' /\ MaskRaw'
  BY <1>10 DEF MaskBack, MaskRaw
<1>12. \A mark, t : t \in pairs(mark) => t[1] \in mine(mark) /\ t[2] = Rank(t[1], mark)
  OBVIOUS
<1>13. \A mark : \A k \in mine(mark) : <<k, Rank(k, mark)>> \in pairs(mark)
  OBVIOUS
<1>14. \A mark, x : (\E t \in pairs(mark) : t[2] = x) <=> \E k \in mine(mark) : Rank(k, mark) = x
  <2>1. \A mark, k : <<k, Rank(k, mark)>>[2] = Rank(k, mark)
    OBVIOUS
  <2> HIDE DEF pairs
  <2>2. ASSUME NEW mark, NEW x, NEW t \in pairs(mark), t[2] = x PROVE \E k \in mine(mark) : Rank(k, mark) = x
    BY <1>12, <2>2
  <2>3. ASSUME NEW mark, NEW x, NEW k \in mine(mark), Rank(k, mark) = x PROVE \E t \in pairs(mark) : t[2] = x
    <3>1. <<k, Rank(k, mark)>> \in pairs(mark) /\ <<k, Rank(k, mark)>>[2] = x
      BY <1>13, <2>1, <2>3
    <3> DEFINE s == <<k, Rank(k, mark)>>
    <3>2. s \in pairs(mark) /\ s[2] = x
      BY <3>1
    <3> HIDE DEF s
    <3> QED BY <3>2
  <2> QED BY <2>2, <2>3
<1>15. CASE ~Removes
  <2>1. /\ \A x \in DOMAIN memory.out : memory.out[x] # NotWritten => Taken(x, "yes")
        /\ scanCall.alg = "partition_copy" =>
             \A x \in DOMAIN memory.out2 : memory.out2[x] # NotWritten => Taken(x, "no")
    BY <1>1, <1>8, <1>15 DEF MaskWritten
  <2>2. DOMAIN memory.out = 0..(Size(scanCall) - 1) /\ DOMAIN memory.out2 = 0..(Size(scanCall) - 1) /\ memory.ok
        /\ DOMAIN memory.src = 0..(Size(scanCall) - 1) /\ DOMAIN memory.buf = {} /\ copies = {}
    BY <1>8, <1>15 DEF MaskFrame
  <2>3. Targets(memory.out, yes, NotWritten)
    <3> HIDE DEF pairs
    <3>1. ASSUME NEW t \in yes PROVE t[2] \in DOMAIN memory.out /\ memory.out[t[2]] = NotWritten
      <4>1. t[1] \in mine("yes") /\ t[2] = Rank(t[1], "yes")
        BY <1>12
      <4> QED BY <1>3, <1>4, <2>1, <2>2, <4>1
    <3> QED BY <3>1 DEF Targets
  <2>4. scanCall.alg = "partition_copy" => Targets(memory.out2, no, NotWritten)
    <3> HIDE DEF pairs
    <3>1. ASSUME NEW t \in no, scanCall.alg = "partition_copy" PROVE t[2] \in DOMAIN memory.out2 /\ memory.out2[t[2]] = NotWritten
      <4>1. t[1] \in mine("no") /\ t[2] = Rank(t[1], "no")
        BY <1>12
      <4> QED BY <1>3, <1>4, <2>1, <2>2, <3>1, <4>1
    <3> QED BY <3>1 DEF Targets
  <2>5. /\ DOMAIN out = DOMAIN memory.out /\ DOMAIN out2 = DOMAIN memory.out2
        /\ \A x \in DOMAIN memory.out : out[x] # NotWritten => Taken(x, "yes")'
        /\ scanCall.alg = "partition_copy" => \A x \in DOMAIN memory.out2 : out2[x] # NotWritten => Taken(x, "no")'
    <3> HIDE DEF yes, no, pairs
    <3>1. DOMAIN out = DOMAIN memory.out /\ DOMAIN out2 = DOMAIN memory.out2
      BY AssignedAre
    <3>2. \A x \in DOMAIN memory.out : (\E t \in yes : t[2] = x) \/ out[x] = memory.out[x]
      BY AssignedAre
    <3>3. \A x \in DOMAIN memory.out2 : (\E t \in no : t[2] = x) \/ out2[x] = memory.out2[x]
      BY AssignedAre
    <3>4. \A x : (\E t \in yes : t[2] = x) => Taken(x, "yes")'
      BY <1>4, <1>14 DEF yes
    <3>5. \A x : (\E t \in no : t[2] = x) => Taken(x, "no")'
      BY <1>4, <1>14 DEF no
    <3>6. \A x, mark : Taken(x, mark) => Taken(x, mark)'
      BY <1>4
    <3> HIDE DEF out, out2
    <3> QED BY <2>1, <3>1, <3>2, <3>3, <3>4, <3>5, <3>6
  <2>6. /\ memory'.ok /\ memory'.src = memory.src /\ memory'.buf = memory.buf
        /\ memory'.out = out
        /\ memory'.out2 = IF scanCall.alg = "partition_copy" THEN out2 ELSE memory.out2
    <3>1. (scanCall.alg = "partition_copy" => okBoth) /\ okOut
      BY <2>2, <2>3, <2>4
    <3> HIDE DEF out, out2, okBoth, okOut, okBuf, moved, left
    <3> QED BY <1>7, <1>9, <1>15, <3>1 DEF IsMemory
  <2> HIDE DEF out, out2
  <2>7. MaskFrame'
    BY <1>10, <1>15, <2>2, <2>5, <2>6 DEF MaskFrame
  <2>8. MaskWritten'
    BY <1>10, <1>15, <2>2, <2>5, <2>6 DEF MaskWritten
  <2>9. MaskMoved'
    BY <1>10, <1>15 DEF MaskMoved
  <2> QED BY <1>11, <2>7, <2>8, <2>9 DEF MaskMemory
<1>16. CASE Removes
  <2>1. /\ \A k \in DOMAIN memory.src : ~Copied(k) => memory.src[k] = <<1, k>>
        /\ \A x \in DOMAIN memory.buf : memory.buf[x] # Raw <=> Taken(x, "yes")
    BY <1>1, <1>8, <1>16 DEF MaskMoved
  <2>2. DOMAIN memory.out = 0..(Size(scanCall) - 1) /\ DOMAIN memory.out2 = 0..(Size(scanCall) - 1) /\ memory.ok
        /\ DOMAIN memory.src = 0..(Size(scanCall) - 1) /\ DOMAIN memory.buf = 0..(scanN - 1) /\ copies = {}
    BY <1>1, <1>8, <1>16 DEF MaskFrame
  <2>3. \A t \in yes : /\ t[1] \in mine("yes") /\ t[2] = Rank(t[1], "yes")
                       /\ t[2] \in DOMAIN memory.buf /\ memory.buf[t[2]] = Raw
                       /\ memory.src[t[1]] = <<1, t[1]>>
    <3> HIDE DEF pairs
    <3> SUFFICES ASSUME NEW t \in yes
                 PROVE /\ t[1] \in mine("yes") /\ t[2] = Rank(t[1], "yes")
                       /\ t[2] \in DOMAIN memory.buf /\ memory.buf[t[2]] = Raw
                       /\ memory.src[t[1]] = <<1, t[1]>>
      OBVIOUS
    <3>1. t[1] \in mine("yes") /\ t[2] = Rank(t[1], "yes")
      BY <1>12
    <3>2. t[2] \in DOMAIN memory.buf /\ memory.buf[t[2]] = Raw
      BY <1>3, <1>4, <2>1, <2>2, <3>1
    <3>3. t[1] \in Nat /\ Base + b.lo <= t[1] /\ t[1] < Base + b.hi /\ t[1] \in DOMAIN memory.src
      BY <1>3, <2>2, <3>1
    <3>4. ~Copied(t[1])
      BY <1>4, <3>3
    <3> QED BY <2>1, <3>1, <3>2, <3>3, <3>4
  <2> HIDE DEF yes, no, pairs
  <2>4. okBuf
    BY <2>2, <2>3 DEF Targets, MovedFrom
  <2>5. /\ DOMAIN moved = DOMAIN memory.buf
        /\ \A x \in DOMAIN memory.buf : moved[x] # Raw <=> Taken(x, "yes")'
    <3>1. /\ DOMAIN moved = DOMAIN memory.buf
          /\ \A x \in DOMAIN memory.buf :
               IF \E t \in yes : t[2] = x THEN \E t \in yes : t[2] = x /\ moved[x] = memory.src[t[1]]
               ELSE moved[x] = memory.buf[x]
      BY AssignedAre
    <3> HIDE DEF moved
    <3>2. \A x : Taken(x, "yes")' <=> Taken(x, "yes") \/ \E t \in yes : t[2] = x
      BY <1>4, <1>14 DEF yes
    <3>3. \A x \in DOMAIN memory.buf : (\E t \in yes : t[2] = x) => moved[x] # Raw
      BY <2>3, <3>1 DEF Raw
    <3> QED BY <2>1, <3>1, <3>2, <3>3
  <2>6. /\ DOMAIN left = DOMAIN memory.src
        /\ \A k \in DOMAIN memory.src : ~Copied(k)' => left[k] = <<1, k>>
    <3>1. ASSUME NEW k \in DOMAIN memory.src, NEW t \in yes, t[1] = k PROVE Copied(k)'
      BY <1>3, <1>4, <2>3, <3>1
    <3>2. \A k : Copied(k) => Copied(k)'
      BY <1>4
    <3> QED BY <2>1, <3>1, <3>2
  <2>7. /\ memory'.ok /\ memory'.src = left /\ memory'.buf = moved
        /\ memory'.out = memory.out /\ memory'.out2 = memory.out2
    <3> HIDE DEF out, out2, okBoth, okOut, okBuf, moved, left
    <3> QED BY <1>7, <1>9, <1>16, <2>4 DEF IsMemory
  <2> HIDE DEF moved, left
  <2>8. MaskFrame'
    BY <1>10, <1>16, <2>2, <2>5, <2>6, <2>7 DEF MaskFrame
  <2>9. MaskMoved'
    BY <1>10, <1>16, <2>2, <2>5, <2>6, <2>7 DEF MaskMoved
  <2>10. MaskWritten'
    BY <1>10, <1>16 DEF MaskWritten
  <2> QED BY <1>11, <2>8, <2>9, <2>10 DEF MaskMemory
<1> QED BY <1>15, <1>16

\* The other steps of a masked copy.
LEMMA MaskReduced ==
  ASSUME Scheduled, MaskMemory, ~IsSet(scanCall),
         NEW i \in 0..(scanN - 1), NEW len \in 1..(scanN - i), ReduceBlock(i, len)
  PROVE  MaskMemory'
<1> DEFINE mask == IF Removes THEN memory.mask ELSE Mask!Masked(scanCall, memory.mask, i, i + len)
           ok == memory.ok /\ NoneIs(mask, Base + i, (i + len) - i, "unset")
<1>1. /\ scanCall' = scanCall /\ scanN' = scanN /\ scanPc' = scanPc /\ scanPc = "scan"
      /\ total = NoSum /\ UNCHANGED <<total, scanned, scanReturned, copies, scanAnswer>>
      /\ i \in Nat /\ len \in Nat /\ i + len \in 0..scanN /\ i < i + len
      /\ sums' = sums \cup {[lo |-> i, hi |-> i + len, val |-> ValueOf(i, i + len)]}
      /\ MaskIsRight'
  BY BlockReduced
<1>2. memory' = [memory EXCEPT !.mask = mask, !.ok = ok]
  <2>1. Reduced(i, i + len) = <<[memory EXCEPT !.mask = mask,
                                   !.ok = @ /\ NoneIs(mask, Base + i, (i + len) - i, "unset")],
                                Mask!BlockValue(mask, Base + i, Base + (i + len))>>
    BY DEF Reduced, Base
  <2>2. memory' = Reduced(i, i + len)[1]
    BY DEF ReduceBlock
  <2> QED BY <2>1, <2>2
<1>3. IsMemory(memory) /\ MaskFrame /\ MaskWritten /\ MaskMoved
  BY DEF Scheduled, MaskMemory
<1> HIDE DEF mask, ok
<1>4. /\ memory'.mask = mask /\ memory'.ok = ok /\ memory'.src = memory.src /\ memory'.buf = memory.buf
      /\ memory'.out = memory.out /\ memory'.out2 = memory.out2
  BY <1>2, <1>3 DEF IsMemory
<1>5. /\ Removes' = Removes /\ Size(scanCall)' = Size(scanCall) /\ IsSet(scanCall)' = IsSet(scanCall) /\ Base' = Base
  BY <1>1, SameCall DEF IsSet
<1>6. ok
  <2>1. Base \in Nat /\ Size(scanCall) \in Nat /\ Base + scanN <= Size(scanCall) /\ scanN \in Nat
    BY ScanLengths DEF Scheduled
  <2>2. \A k \in (Base + i)..(Base + i + ((i + len) - i) - 1) :
          k \in 0..(Size(scanCall) - 1) /\ k \in (Base + i)..(Base + (i + len) - 1)
    BY <1>1, <2>1
  <2>3. DOMAIN mask = 0..(Size(scanCall) - 1)
    BY <1>1, <1>4, <1>5 DEF MaskIsRight
  <2>4. \A k \in (Base + i)..(Base + (i + len) - 1) : mask[k] = MarkOf(scanCall, k)
    <3> DEFINE new == [lo |-> i, hi |-> i + len, val |-> ValueOf(i, i + len)]
    <3>1. new \in sums' /\ new.lo = i /\ new.hi = i + len
      BY <1>1
    <3> HIDE DEF new
    <3>2. \A k : MarkOf(scanCall, k)' = MarkOf(scanCall, k)
      BY <1>1 DEF MarkOf
    <3> QED BY <1>1, <1>4, <1>5, <3>1, <3>2 DEF MaskIsRight
  <2>5. \A k : MarkOf(scanCall, k) # "unset"
    BY DEF MarkOf
  <2>6. memory.ok
    BY <1>3 DEF MaskFrame
  <2> QED BY <2>2, <2>3, <2>4, <2>5, <2>6 DEF ok, NoneIs
<1>7. \A k : Copied(k)' = Copied(k)
  <2>1. DOMAIN scanned = {}
    BY <1>1 DEF Scheduled, ScanInOrder
  <2> QED BY <1>1, <2>1 DEF Copied
<1>8. \A x, mark : Taken(x, mark)' = Taken(x, mark)
  <2>1. \A k : MarkOf(scanCall, k)' = MarkOf(scanCall, k)
    BY <1>1 DEF MarkOf
  <2>2. \A k, mark : Rank(k, mark)' = Rank(k, mark)
    BY <1>1, <1>5 DEF Rank
  <2> QED BY <1>5, <1>7, <2>1, <2>2 DEF Taken
<1>9. MaskFrame'
  BY <1>1, <1>3, <1>4, <1>5, <1>6 DEF MaskFrame
<1>10. MaskWritten' /\ MaskMoved'
  BY <1>1, <1>3, <1>4, <1>5, <1>7, <1>8 DEF MaskWritten, MaskMoved
<1> QED BY <1>1, <1>9, <1>10 DEF MaskMemory, MaskBack, MaskRaw

LEMMA MaskReturned ==
  ASSUME Scheduled, MaskMemory, ~IsSet(scanCall), ScanReturns
  PROVE  MaskMemory'
<1>1. scanPc = "scan" /\ scanPc' = "join" /\ UNCHANGED <<scanCall, memory, sums, scanAnswer>>
      /\ UNCHANGED <<scanN, scanReduced, scanned, total>> /\ total # NoSum /\ scanReturned' = TRUE
      /\ \A b \in DOMAIN scanReduced : <<b[1], b[2], <<-1, b[1]>>>> \in DOMAIN scanned
  BY DEF ScanReturns, Contract!Return
<1>2. copies' = IF Removes THEN {Back(k) : k \in 0..(SumUpTo(scanN).yes - 1)} ELSE copies
  BY DEF ScanReturns, Back, Base
<1>3. MaskFrame /\ MaskMoved /\ Everything /\ Base \in Nat /\ scanN \in Nat /\ Size(scanCall) \in Nat
  BY <1>1, ScanLengths DEF Scheduled, MaskMemory, ScanInOrder
<1>4. /\ Removes' = Removes /\ Size(scanCall)' = Size(scanCall) /\ IsSet(scanCall)' = IsSet(scanCall)
      /\ Base' = Base /\ scanN' = scanN /\ scanPc' = "join" /\ \A x : Back(x)' = Back(x)
  BY <1>1, SameCall DEF IsSet, Back
<1>5. MaskFrame' /\ MaskWritten' /\ MaskMoved' /\ MaskRaw'
  BY <1>1, <1>2, <1>3, <1>4 DEF MaskFrame, MaskWritten, MaskMoved, MaskRaw
<1>6. SumUpTo(scanN).yes = Rank(Base + scanN, "yes") /\ Base + scanN = Size(scanCall)
  <2>1. scanN \in Ends /\ scanN > 0
    BY <1>1, <1>3, Chain DEF Scheduled, Phases
  <2>2. Base + scanN = Size(scanCall)
    BY <2>1, ScanLengths DEF Scheduled
  <2> QED BY <1>3, <2>1, <2>2, MaskSums DEF Mask!Counts
<1> DEFINE m == Rank(Base + scanN, "yes")
<1>7. m \in Nat /\ m <= scanN
  <2>1. Base + scanN \in Nat /\ Base <= Base + scanN /\ (Base + scanN) - Base = scanN
    BY <1>3
  <2> QED BY <1>3, <2>1, CountBound DEF Rank
<1>8. \A k \in Base..(Size(scanCall) - 1) : Copied(k)
  <2> SUFFICES ASSUME NEW k \in Base..(Size(scanCall) - 1) PROVE Copied(k)
    OBVIOUS
  <2>1. k - Base \in 0..(scanN - 1)
    BY <1>3, <1>6
  <2>2. PICK b \in sums : b.lo <= k - Base /\ k - Base < b.hi
    BY <1>3, <2>1 DEF Everything
  <2>3. b.lo \in Nat /\ b.hi \in Nat /\ <<b.lo, b.hi - b.lo>> \in DOMAIN scanReduced
    BY <1>3, Chain DEF Scheduled, BlocksInOrder
  <2>4. Base + b.lo <= k /\ k < Base + b.hi
    BY <1>3, <2>2, <2>3
  <2>5. Scanning(b) \in DOMAIN scanned
    BY <1>1, <2>3 DEF Scanning
  <2> QED BY <2>4, <2>5 DEF Copied
<1>9. \A x \in 0..(scanN - 1) : Taken(x, "yes") <=> x \in 0..(m - 1)
  <2> SUFFICES ASSUME NEW x \in 0..(scanN - 1) PROVE Taken(x, "yes") <=> x \in 0..(m - 1)
    OBVIOUS
  <2>1. ASSUME Taken(x, "yes") PROVE x \in 0..(m - 1)
    <3>1. PICK k \in Base..(Size(scanCall) - 1) : MarkOf(scanCall, k) = "yes" /\ Rank(k, "yes") = x
      BY <2>1 DEF Taken
    <3>2. k \in Nat /\ Base + scanN \in Nat /\ Base <= k /\ k < Base + scanN
      BY <1>3, <1>6
    <3>3. Rank(k, "yes") < m
      BY <1>3, <3>1, <3>2, RanksDiffer DEF Rank
    <3> QED BY <1>7, <3>1, <3>3
  <2>2. ASSUME x \in 0..(m - 1) PROVE Taken(x, "yes")
    <3>1. Base + scanN \in Nat /\ Base <= Base + scanN
      BY <1>3
    <3>2. PICK k \in Base..((Base + scanN) - 1) : MarkOf(scanCall, k) = "yes" /\ Count(scanCall, Base, k, "yes") = x
      BY <1>3, <2>2, <3>1, EachRankOnce DEF Rank
    <3> QED BY <1>6, <1>8, <3>2 DEF Taken, Rank
  <2> QED BY <2>1, <2>2
<1>10. MaskBack'
  <2> SUFFICES ASSUME Removes
               PROVE  /\ copies' \subseteq {Back(x) : x \in 0..(scanN - 1)}
                      /\ \A x \in DOMAIN memory.buf : memory.buf[x] # Raw <=> Back(x) \in copies'
    BY <1>1, <1>4 DEF MaskBack
  <2>1. copies' = {Back(k) : k \in 0..(m - 1)}
    BY <1>2, <1>6
  <2>2. \A x, y : Back(x) = Back(y) => x = y
    BY DEF Back, Set!Copy
  <2>3. DOMAIN memory.buf = 0..(scanN - 1) /\ \A x \in DOMAIN memory.buf : memory.buf[x] # Raw <=> Taken(x, "yes")
    BY <1>1, <1>3 DEF MaskFrame, MaskMoved
  <2>4. \A x : Back(x) \in copies' <=> x \in 0..(m - 1)
    BY <2>1, <2>2
  <2> HIDE DEF m
  <2>5. copies' \subseteq {Back(x) : x \in 0..(scanN - 1)}
    BY <1>3, <1>7, <2>1
  <2> QED BY <1>9, <2>3, <2>4, <2>5
<1> QED BY <1>5, <1>10 DEF MaskMemory

LEMMA MaskBegun ==
  ASSUME Scheduled, MaskMemory, ~IsSet(scanCall), Begin
  PROVE  MaskMemory'
<1> DEFINE buf == Fill(scanN, Raw)
           mask == Mask!Masked(scanCall, memory.mask, 0, Size(scanCall))
<1>1. /\ scanPc = "begin" /\ scanPc' = (IF scanN = 0 THEN "join" ELSE "scan") /\ copies' = {}
      /\ UNCHANGED <<scanCall, sums, scanned, scanN>>
      /\ memory' = IF Removes THEN [memory EXCEPT !.buf = buf, !.mask = mask] ELSE memory
  BY DEF Begin, strictScan
<1>2. MaskFrame /\ MaskWritten /\ MaskMoved /\ IsMemory(memory) /\ scanN \in Nat
  BY ScanLengths DEF Scheduled, MaskMemory
<1>3. /\ Removes' = Removes /\ Size(scanCall)' = Size(scanCall) /\ IsSet(scanCall)' = IsSet(scanCall)
  BY <1>1, SameCall DEF IsSet
<1>4. DOMAIN buf = 0..(scanN - 1) /\ \A x \in DOMAIN buf : buf[x] = Raw
  BY DEF Fill
<1>5. /\ memory'.ok = memory.ok /\ memory'.src = memory.src
      /\ memory'.buf = (IF Removes THEN buf ELSE memory.buf)
      /\ memory'.out = memory.out /\ memory'.out2 = memory.out2
  <2> HIDE DEF buf, mask
  <2> QED BY <1>1, <1>2 DEF IsMemory
<1> HIDE DEF buf
<1>6. \A k : ~Copied(k)
  BY <1>1 DEF Scheduled, Phases, Copied
<1>7. /\ \A k : Copied(k)' = Copied(k)
      /\ \A x, mark : Taken(x, mark)' = Taken(x, mark)
  BY <1>1, SameCopied
<1>8. \A x, mark : ~Taken(x, mark)
  BY <1>6 DEF Taken
<1>9. MaskFrame'
  BY <1>1, <1>2, <1>3, <1>4, <1>5 DEF MaskFrame
<1>10. MaskWritten' /\ MaskMoved'
  BY <1>1, <1>2, <1>3, <1>4, <1>5, <1>7, <1>8 DEF MaskWritten, MaskMoved
<1>11. MaskBack' /\ MaskRaw'
  BY <1>1, <1>2, <1>3, <1>4, <1>5 DEF MaskBack, MaskRaw
<1> QED BY <1>9, <1>10, <1>11 DEF MaskMemory

\* An element moves back to the range.
LEMMA MaskMovedBack ==
  ASSUME Scheduled, MaskMemory, ~IsSet(scanCall), NEW t \in copies, CopyRange(t)
  PROVE  MaskMemory'
<1>1. /\ scanPc \in {"scan", "join"} /\ copies' = copies \ {t}
      /\ UNCHANGED <<scanCall, sums, scanned, scanN, scanPc>>
      /\ t.seq = 0 => memory' = [memory EXCEPT !.src[t.at] = memory.buf[t.lo], !.buf[t.lo] = Raw,
                                         !.ok = @ /\ memory.buf[t.lo] # Raw]
  BY DEF CopyRange, strictScan
<1>2. MaskFrame /\ MaskBack /\ IsMemory(memory) /\ scanN \in Nat
  BY ScanLengths DEF Scheduled, MaskMemory
<1>3. scanPc = "join" /\ Removes
  BY <1>1, <1>2 DEF MaskFrame
<1>4. /\ copies \subseteq {Back(x) : x \in 0..(scanN - 1)}
      /\ \A x \in DOMAIN memory.buf : memory.buf[x] # Raw <=> Back(x) \in copies
      /\ DOMAIN memory.buf = 0..(scanN - 1) /\ memory.ok
  BY <1>2, <1>3 DEF MaskBack, MaskFrame
<1>5. PICK y \in 0..(scanN - 1) : t = Back(y)
  BY <1>4
<1>6. t.seq = 0 /\ t.lo = y /\ \A x : Back(x) = t <=> x = y
  BY <1>5 DEF Back, Set!Copy
<1> DEFINE src == [memory.src EXCEPT ![t.at] = memory.buf[t.lo]]
           buf == [memory.buf EXCEPT ![t.lo] = Raw]
           ok == memory.ok /\ memory.buf[t.lo] # Raw
<1>7. memory' = [memory EXCEPT !.src = src, !.buf = buf, !.ok = ok]
  BY <1>1, <1>2, <1>6 DEF IsMemory
<1>8. ok /\ DOMAIN src = DOMAIN memory.src /\ DOMAIN buf = DOMAIN memory.buf
      /\ \A x \in DOMAIN memory.buf : buf[x] = IF x = y THEN Raw ELSE memory.buf[x]
  BY <1>4, <1>5, <1>6
<1> HIDE DEF src, buf, ok
<1>9. /\ memory'.ok /\ memory'.src = src /\ memory'.buf = buf
      /\ memory'.out = memory.out /\ memory'.out2 = memory.out2
  BY <1>2, <1>7, <1>8 DEF IsMemory
<1>10. /\ Removes' = Removes /\ Size(scanCall)' = Size(scanCall) /\ IsSet(scanCall)' = IsSet(scanCall)
       /\ scanN' = scanN /\ scanPc' = "join"
  BY <1>1, <1>3, SameCall DEF IsSet
<1>11. \A x : Back(x)' = Back(x)
  BY <1>1, SameCopied
<1>12. MaskFrame'
  BY <1>2, <1>3, <1>8, <1>9, <1>10 DEF MaskFrame
<1>13. MaskBack'
  BY <1>1, <1>4, <1>6, <1>8, <1>9, <1>10, <1>11 DEF MaskBack
<1>14. MaskWritten' /\ MaskMoved' /\ MaskRaw'
  BY <1>10 DEF MaskWritten, MaskMoved, MaskRaw
<1> QED BY <1>12, <1>13, <1>14 DEF MaskMemory

LEMMA PutStays ==
  ASSUME NEW mem, NEW at, NEW seq
  PROVE  DOMAIN Put(mem, at, seq) = DOMAIN mem
BY DEF Put

LEMMA MaskMemoryNext ==
  ASSUME Scheduled, MaskMemory, [ScanNext]_scanVars
  PROVE  MaskMemory'
<1> SUFFICES ASSUME ~IsSet(scanCall)' PROVE MaskMemory'
  BY DEF MaskMemory
<1>1. scanCall' = scanCall
  BY DEF ScanNext, Serially, Begin, ApexCall, ScanReturns, Finish, ReduceBlock, ScanBlock, CopyRange, scanVars
<1>2. ~IsSet(scanCall) /\ Removes' = Removes /\ Size(scanCall)' = Size(scanCall)
  BY <1>1, SameCall DEF IsSet
<1>3. MaskFrame /\ MaskWritten /\ MaskMoved /\ MaskBack /\ MaskRaw /\ IsMemory(memory)
  BY <1>2 DEF Scheduled, MaskMemory
<1>4. ASSUME UNCHANGED <<memory, copies, sums, scanned, scanN>>, scanPc' = scanPc \/ (scanPc = "join" /\ copies = {} /\ scanPc' = "done")
      PROVE  MaskMemory'
  <2>1. /\ \A k : Copied(k)' = Copied(k)
        /\ \A x, mark : Taken(x, mark)' = Taken(x, mark)
        /\ \A x : Back(x)' = Back(x)
    BY <1>1, <1>4, SameCopied
  <2>2. MaskFrame' /\ MaskWritten' /\ MaskMoved' /\ MaskBack'
    <3>1. MaskFrame'
      BY <1>2, <1>3, <1>4 DEF MaskFrame
    <3>2. MaskWritten'
      BY <1>1, <1>2, <1>3, <1>4, <2>1 DEF MaskWritten
    <3>3. MaskMoved'
      BY <1>2, <1>3, <1>4, <2>1 DEF MaskMoved
    <3>4. MaskBack'
      <4>1. MaskBack' \/ scanPc' = "join"
        BY DEF MaskBack
      <4>2. scanPc' = "join" => scanPc = "join" /\ MaskBack
        BY <1>3, <1>4
      <4>3. \A x : Back(x)' = Back(x)
        BY <2>1
      <4>4. {Back(x) : x \in 0..(scanN - 1)}' = {Back(x) : x \in 0..(scanN - 1)}
        BY <1>4, <4>3
      <4> QED BY <1>2, <1>4, <4>1, <4>2, <4>3, <4>4 DEF MaskBack
    <3> QED BY <3>1, <3>2, <3>3, <3>4
  <2>3. MaskRaw'
    BY <1>2, <1>3, <1>4 DEF MaskRaw, MaskBack, MaskFrame
  <2> QED BY <2>2, <2>3 DEF MaskMemory
<1>5. CASE Serially
  <2> DEFINE src == Put(memory.src, 0, Results(TRUE))
             out == Put(memory.out, 0, Results(TRUE))
             out2 == IF scanCall.alg = "partition_copy" THEN Put(memory.out2, 0, Results(FALSE)) ELSE memory.out2
  <2>1. scanPc = "begin" /\ scanPc' = "done" /\ copies' = copies
        /\ memory' = IF Removes THEN [memory EXCEPT !.src = src] ELSE [memory EXCEPT !.out = out, !.out2 = out2]
    BY <1>5 DEF Serially
  <2>2. DOMAIN src = DOMAIN memory.src /\ DOMAIN out = DOMAIN memory.out /\ DOMAIN out2 = DOMAIN memory.out2
    BY PutStays
  <2> HIDE DEF src, out, out2
  <2>3. /\ memory'.ok = memory.ok /\ memory'.buf = memory.buf
        /\ DOMAIN memory'.src = DOMAIN memory.src /\ DOMAIN memory'.out = DOMAIN memory.out
        /\ DOMAIN memory'.out2 = DOMAIN memory.out2
    BY <1>3, <2>1, <2>2 DEF IsMemory
  <2>4. MaskFrame' /\ MaskRaw'
    BY <1>2, <1>3, <2>1, <2>3 DEF MaskFrame, MaskRaw
  <2>5. MaskWritten' /\ MaskMoved' /\ MaskBack'
    BY <2>1 DEF MaskWritten, MaskMoved, MaskBack
  <2> QED BY <2>4, <2>5 DEF MaskMemory
<1>6. CASE Begin
  BY <1>2, <1>6, MaskBegun
<1>7. CASE ApexCall
  <2>1. UNCHANGED <<memory, copies, sums, scanned, scanN, scanPc>>
    BY <1>2, <1>7 DEF ApexCall, Contract!Apex
  <2> QED BY <1>4, <2>1
<1>8. CASE ScanReturns
  BY <1>2, <1>8, MaskReturned
<1>9. CASE Finish
  <2>1. UNCHANGED <<memory, copies, sums, scanned, scanN>> /\ scanPc = "join" /\ copies = {} /\ scanPc' = "done"
    BY <1>9 DEF Finish, strictScan
  <2> QED BY <1>4, <2>1
<1>10. ASSUME NEW i \in 0..(scanN - 1), NEW len \in 1..(scanN - i), ReduceBlock(i, len)
       PROVE  MaskMemory'
  BY <1>2, <1>10, MaskReduced
<1>11. ASSUME NEW i \in 0..(scanN - 1), NEW len \in 1..(scanN - i), ScanBlock(i, len)
       PROVE  MaskMemory'
  BY <1>2, <1>11, MaskScanned
<1>12. ASSUME NEW t \in copies, CopyRange(t) PROVE MaskMemory'
  BY <1>2, <1>12, MaskMovedBack
<1>13. CASE UNCHANGED scanVars
  <2>1. UNCHANGED <<memory, copies, sums, scanned, scanN, scanPc>>
    BY <1>13 DEF scanVars, strictScan
  <2> QED BY <1>4, <2>1
<1> QED BY <1>5, <1>6, <1>7, <1>8, <1>9, <1>10, <1>11, <1>12, <1>13 DEF ScanNext
-------------------------------------------------------------------------------
(* The memory of the set operations: what the sum up to a place is, and where    *)
(* the range it describes is, in the buffer and in the output.                  *)
SumOver(c, blocks, k) ==
  LET upto[j \in {0} \cup {b.hi : b \in blocks}] ==
        IF j = 0 THEN (IF IsSet(c) THEN Set!NoRange ELSE Mask!NoCounts)
        ELSE LET s == CHOOSE b \in blocks : b.hi = j
             IN  IF IsSet(c) THEN Set!Combine(upto[s.lo], s.val) ELSE Mask!Combine(upto[s.lo], s.val)
  IN  upto[k]

LEMMA SameSums ==
  ASSUME UNCHANGED <<scanCall, sums>>
  PROVE  \A e : SumUpTo(e)' = SumUpTo(e)
<1>1. \A e : SumUpTo(e) = SumOver(scanCall, sums, e)
  BY Zenon DEF SumUpTo, SumOver, Combine, InitialSum
<1>2. \A e : SumUpTo(e)' = SumOver(scanCall', sums', e)
  BY Zenon DEF SumUpTo, SumOver, Combine, InitialSum, IsSet
<1> QED BY <1>1, <1>2, Zenon

PlaceOf(e) == StartOf(scanCall, plan, e)

LEMMA Places ==
  ASSUME FormedScan, scanN = ScanLength(scanCall), IsSet(scanCall), scanN > 0
  PROVE  /\ scanN \in Nat /\ Room \in Nat /\ N1 \in Nat /\ N2 \in Nat /\ plan.at \in Nat /\ plan.at + Room <= N1 + N2
         /\ \A e \in 0..scanN : PlaceOf(e) \in 0..Room /\ PlaceOf(e) \in Nat
         /\ \A d, e \in 0..scanN : d <= e => PlaceOf(d) <= PlaceOf(e)
<1>1. FormedSet(scanCall, N1, N2) /\ PlansSetOp(scanCall, plan, N1, N2) /\ scanN = N1 - plan.a0
  BY ScannedSet
<1>2. N1 \in Nat /\ N2 \in Nat /\ scanCall.alg \in Set!Algs
  BY <1>1 DEF FormedSet, IsSequence
<1>3. scanN \in Nat /\ Room \in Nat /\ \A e \in 0..scanN : PlaceOf(e) \in 0..Room
  BY <1>1, Starts DEF PlaceOf, Room
<1>4. ASSUME NEW d \in 0..scanN, NEW e \in 0..scanN, d <= e PROVE PlaceOf(d) <= PlaceOf(e)
  <2> DEFINE s == Set!SizeFunc(scanCall.alg, Cut(scanCall, plan, e) - Cut(scanCall, plan, d), Low(scanCall, plan, e) - Low(scanCall, plan, d))
  <2>1. s \in Nat /\ PlaceOf(d) + s <= PlaceOf(e)
    BY <1>1, <1>4, Starts DEF PlaceOf
  <2> HIDE DEF s
  <2>2. PlaceOf(d) \in Int /\ PlaceOf(e) \in Int
    BY <1>3
  <2> QED BY <2>1, <2>2
<1>5. \A x, y \in Nat : Set!SizeFunc(scanCall.alg, x, y) <= x + y
  BY <1>2 DEF Set!SizeFunc, Set!Algs
<1>6. plan.at \in Nat /\ plan.at + Room <= N1 + N2
  <2>1. plan.a0 \in 0..N1 /\ plan.b0 \in 0..N2 /\ (plan.at = 0 \/ (plan.a0 = plan.at /\ plan.b0 = 0) \/ (plan.a0 = 0 /\ plan.b0 = plan.at))
    BY <1>1 DEF PlansSetOp
  <2>2. scanN \in Nat /\ N2 - plan.b0 \in Nat
    BY <1>2, <1>3, <2>1
  <2>3. Room <= scanN + (N2 - plan.b0)
    BY <1>5, <2>2 DEF Room
  <2> QED BY <1>1, <1>2, <1>3, <2>1, <2>2, <2>3
<1>7. \A e \in 0..scanN : PlaceOf(e) \in Nat
  BY <1>3
<1> QED BY <1>2, <1>3, <1>4, <1>6, <1>7

\* The value of a block is a range of the buffer, before the place of its end.
LEMMA BlockRange ==
  ASSUME Scheduled, IsSet(scanCall), NEW b \in sums
  PROVE  /\ scanN > 0 /\ b.lo \in 0..scanN /\ b.hi \in 0..scanN /\ b.lo < b.hi
         /\ b.val = Set!SetRange(0, b.val.len, PlaceOf(b.lo)) /\ b.val.len \in Nat
         /\ b.val.buf = PlaceOf(b.lo) /\ b.val.pos = 0
         /\ PlaceOf(b.lo) + b.val.len <= PlaceOf(b.hi)
         /\ PlaceOf(b.lo) \in 0..Room /\ PlaceOf(b.hi) \in 0..Room
<1>1. scanN \in Nat /\ FormedScan /\ scanN = ScanLength(scanCall)
  BY ScanLengths DEF Scheduled
<1>2. b.lo \in 0..scanN /\ b.hi \in 0..scanN /\ b.lo < b.hi /\ b = Block(b)
  BY DEF Scheduled, BlocksInOrder
<1>3. b.val = ValueOf(b.lo, b.hi)
  BY <1>2 DEF Block
<1>4. scanN > 0
  BY <1>1, <1>2
<1>5. /\ ValueOf(b.lo, b.hi) = Set!SetRange(0, ValueOf(b.lo, b.hi).len, PlaceOf(b.lo))
      /\ ValueOf(b.lo, b.hi).len \in Nat
      /\ PlaceOf(b.lo) + ValueOf(b.lo, b.hi).len <= PlaceOf(b.hi)
  BY <1>1, <1>2, SetValues DEF PlaceOf
<1>6. PlaceOf(b.lo) \in 0..Room /\ PlaceOf(b.hi) \in 0..Room
  BY <1>1, <1>2, <1>4, Places
<1>7. b.val.buf = PlaceOf(b.lo) /\ b.val.pos = 0
  BY <1>3, <1>5 DEF Set!SetRange
<1> QED BY <1>2, <1>3, <1>4, <1>5, <1>6, <1>7

\* How many elements there are up to a place.
UpTo(e) == SumUpTo(e).pos + SumUpTo(e).len

IsRange(s) == s = Set!SetRange(s.pos, s.len, s.buf) /\ s.pos \in Nat /\ s.len \in Nat /\ s.buf \in Nat

LEMMA RangeCombined ==
  ASSUME IsSet(scanCall), NEW u, NEW v, IsRange(u), IsRange(v), v.pos = 0, u.buf + u.len <= v.buf
  PROVE  Combine(u, v) = Set!SetRange(u.pos + u.len, v.len, v.buf)
<1>1. Combine(u, v) = IF v.buf > u.buf \/ (v.buf = u.buf /\ v.len # 0)
                        THEN Set!SetRange(u.pos + u.len + v.pos, v.len, v.buf)
                        ELSE Set!SetRange(v.pos + v.len + u.pos, u.len, u.buf)
  BY DEF Combine, Set!Combine, Set!Empty
<1>2. u.pos \in Nat /\ u.len \in Nat /\ u.buf \in Nat /\ v.len \in Nat /\ v.buf \in Nat
  BY DEF IsRange
<1>3. u.pos + u.len + v.pos = u.pos + u.len
  BY <1>2
<1>4. v.buf > u.buf \/ v.buf = u.buf
  BY <1>2
<1>5. v.buf = u.buf /\ v.len = 0 => u.len = 0 /\ v.pos + v.len + u.pos = u.pos + u.len
  BY <1>2
<1> QED BY <1>1, <1>3, <1>4, <1>5

LEMMA SetSums ==
  ASSUME Scheduled, Everything, IsSet(scanCall), scanN > 0
  PROVE  /\ \A e \in Ends : /\ IsRange(SumUpTo(e)) /\ UpTo(e) \in Nat
                            /\ SumUpTo(e).buf + SumUpTo(e).len <= PlaceOf(e) /\ UpTo(e) <= PlaceOf(e)
         /\ SumUpTo(0) = Set!NoRange
         /\ \A b \in sums : SumUpTo(b.hi) = Set!SetRange(UpTo(b.lo), b.val.len, PlaceOf(b.lo))
<1> DEFINE good(e) == /\ IsRange(SumUpTo(e)) /\ UpTo(e) \in Nat
                      /\ SumUpTo(e).buf + SumUpTo(e).len <= PlaceOf(e) /\ UpTo(e) <= PlaceOf(e)
           G == {e \in Ends : good(e)}
<1>1. SumUpTo(0) = Set!NoRange /\ 0 \in Ends /\ Ends \subseteq 0..scanN /\ scanN \in Nat
  BY SumsAre, Chain DEF InitialSum
<1>2. SumUpTo(0) = Set!SetRange(0, 0, 0) /\ SumUpTo(0).pos = 0 /\ SumUpTo(0).len = 0 /\ SumUpTo(0).buf = 0
  BY <1>1 DEF Set!NoRange, Set!SetRange
<1>3. \A e \in Ends : PlaceOf(e) \in Nat
  BY <1>1, Places DEF Scheduled
<1>4. 0 \in G
  <2>1. PlaceOf(0) \in Nat
    BY <1>1, <1>3
  <2>2. UpTo(0) = 0
    BY <1>2 DEF UpTo
  <2> QED BY <1>1, <1>2, <2>1, <2>2 DEF IsRange
<1>5. ASSUME NEW b \in sums, good(b.lo)
      PROVE  SumUpTo(b.hi) = Set!SetRange(UpTo(b.lo), b.val.len, PlaceOf(b.lo)) /\ good(b.hi)
  <2> DEFINE u == SumUpTo(b.lo)
             v == b.val
  <2>1. v = Set!SetRange(0, v.len, PlaceOf(b.lo)) /\ v.len \in Nat /\ v.buf = PlaceOf(b.lo) /\ v.pos = 0
        /\ PlaceOf(b.lo) + v.len <= PlaceOf(b.hi)
    BY BlockRange
  <2>2. b.lo \in Ends /\ b.hi \in Ends
    BY Chain
  <2>3. PlaceOf(b.lo) \in Nat /\ PlaceOf(b.hi) \in Nat
    BY <1>3, <2>2
  <2>4. IsRange(u) /\ UpTo(b.lo) \in Nat /\ u.buf + u.len <= PlaceOf(b.lo) /\ UpTo(b.lo) <= PlaceOf(b.lo)
        /\ UpTo(b.lo) = u.pos + u.len
    BY <1>5 DEF UpTo
  <2>5. SumUpTo(b.hi) = Combine(u, v)
    BY SumsAre
  <2> HIDE DEF u, v
  <2>6. IsRange(v)
    BY <2>1, <2>3 DEF IsRange
  <2>7. SumUpTo(b.hi) = Set!SetRange(UpTo(b.lo), v.len, PlaceOf(b.lo))
    BY <2>1, <2>4, <2>5, <2>6, RangeCombined
  <2>8. SumUpTo(b.hi).pos = UpTo(b.lo) /\ SumUpTo(b.hi).len = v.len /\ SumUpTo(b.hi).buf = PlaceOf(b.lo)
    BY <2>7 DEF Set!SetRange
  <2>9. UpTo(b.hi) = UpTo(b.lo) + v.len
    BY <2>8 DEF UpTo
  <2>10. IsRange(SumUpTo(b.hi))
    BY <2>1, <2>3, <2>4, <2>7, <2>8 DEF IsRange
  <2>11. UpTo(b.hi) \in Nat /\ UpTo(b.hi) <= PlaceOf(b.hi) /\ SumUpTo(b.hi).buf + SumUpTo(b.hi).len <= PlaceOf(b.hi)
    BY <2>1, <2>3, <2>4, <2>8, <2>9
  <2> QED BY <2>7, <2>10, <2>11 DEF v
<1>6. \A b \in sums : b.lo \in G => b.hi \in G
  BY <1>5, Chain
<1>7. Ends \subseteq G
  <2> HIDE DEF G
  <2> QED BY <1>4, <1>6, AlongTheChain
<1>8. \A e \in Ends : good(e)
  BY <1>7
<1> HIDE DEF good, G
<1>9. \A b \in sums : good(b.lo)
  BY <1>8, Chain
<1> QED BY <1>1, <1>5, <1>8, <1>9 DEF good

\* What a block adds to the sum, and that the sums rise along the chain.
LEMMA SumsRise ==
  ASSUME Scheduled, Everything, IsSet(scanCall), scanN > 0
  PROVE  /\ \A b \in sums : SumUpTo(b.hi).pos = UpTo(b.lo) /\ SumUpTo(b.hi).len = b.val.len
                            /\ SumUpTo(b.hi).buf = PlaceOf(b.lo) /\ UpTo(b.hi) = UpTo(b.lo) + b.val.len
         /\ \A d, e \in Ends : d <= e => UpTo(d) <= UpTo(e)
<1>1. \A b \in sums : SumUpTo(b.hi).pos = UpTo(b.lo) /\ SumUpTo(b.hi).len = b.val.len
                      /\ SumUpTo(b.hi).buf = PlaceOf(b.lo)
  <2> SUFFICES ASSUME NEW b \in sums
               PROVE  SumUpTo(b.hi).pos = UpTo(b.lo) /\ SumUpTo(b.hi).len = b.val.len /\ SumUpTo(b.hi).buf = PlaceOf(b.lo)
    OBVIOUS
  <2>1. SumUpTo(b.hi) = Set!SetRange(UpTo(b.lo), b.val.len, PlaceOf(b.lo))
    BY SetSums
  <2> QED BY <2>1 DEF Set!SetRange
<1>2. \A b \in sums : UpTo(b.hi) = UpTo(b.lo) + b.val.len
  BY <1>1 DEF UpTo
<1> DEFINE G == {e \in Ends : \A d \in Ends : d <= e => UpTo(d) <= UpTo(e)}
<1>3. scanN \in Nat /\ Ends \subseteq 0..scanN /\ 0 \in Ends /\ \A e \in Ends : UpTo(e) \in Nat
  BY SetSums, Chain
<1>4. 0 \in G
  <2>1. \A d \in Ends : d <= 0 => d = 0
    BY <1>3
  <2> QED BY <1>3, <2>1
<1>5. ASSUME NEW b \in sums, b.lo \in G PROVE b.hi \in G
  <2> SUFFICES ASSUME NEW d \in Ends, d <= b.hi PROVE UpTo(d) <= UpTo(b.hi)
    BY Chain
  <2>1. b.lo \in Ends /\ b.hi \in Ends /\ b.lo < b.hi /\ b.val.len \in Nat
    BY Chain, BlockRange
  <2>2. UpTo(b.lo) \in Nat /\ UpTo(b.hi) \in Nat /\ UpTo(d) \in Nat /\ UpTo(b.lo) <= UpTo(b.hi)
    <3>1. UpTo(b.lo) \in Nat /\ UpTo(b.hi) \in Nat /\ UpTo(d) \in Nat
      BY <1>3, <2>1
    <3>2. UpTo(b.hi) = UpTo(b.lo) + b.val.len
      BY <1>2
    <3> QED BY <2>1, <3>1, <3>2
  <2>3. d = b.hi \/ d <= b.lo
    <3>0. b.lo \in Nat /\ b.hi \in Nat /\ d \in Nat
      <4>1. \A e \in Ends : e \in Nat
        BY <1>3
      <4> QED BY <2>1, <4>1
    <3> SUFFICES ASSUME d # 0, d # b.hi PROVE d <= b.lo
      BY <3>0
    <3>1. PICK c \in sums : c.hi = d
      BY Chain
    <3>2. c = b \/ c.hi <= b.lo \/ b.hi <= c.lo
      BY DEF Scheduled, BlocksInOrder
    <3>3. c.lo \in Nat /\ c.lo < c.hi /\ b.lo \in Nat /\ b.hi \in Nat /\ d \in Nat
      BY <1>3, <3>0, Chain
    <3> QED BY <2>2, <3>1, <3>2, <3>3
  <2>4. d <= b.lo => UpTo(d) <= UpTo(b.lo)
    BY <1>5
  <2> QED BY <2>2, <2>3, <2>4
<1>6. Ends \subseteq G
  <2> HIDE DEF G
  <2> QED BY <1>4, <1>5, AlongTheChain
<1> QED BY <1>1, <1>2, <1>6

\* The range of a block has left the buffer: apex moved the last one, and the scan of
\* the next block the others.
Moved(b) ==
  IF b.hi = scanN THEN total # NoSum
  ELSE \E c \in sums : c.lo = b.hi /\ Scanning(c) \in DOMAIN scanned

InBuffer(b) == PlaceOf(b.lo)..((PlaceOf(b.lo) + b.val.len) - 1)
InOutput(b) == (plan.at + SumUpTo(b.hi).pos)..(((plan.at + SumUpTo(b.hi).pos) + SumUpTo(b.hi).len) - 1)
Target(t) == t.at..((t.at + (t.hi - t.lo)) - 1)

SetFrame ==
  /\ memory.ok
  /\ DOMAIN memory.out = 0..((N1 + N2) - 1)
  /\ scanPc = "begin" => DOMAIN memory.buf = {} /\ \A y \in DOMAIN memory.out : memory.out[y] = NotWritten
  /\ scanPc = "scan" => DOMAIN memory.buf = 0..(Room - 1)
  /\ scanPc \in {"scan", "join"} => copies \subseteq plan.copies

SetBuffer ==
  scanPc = "scan" =>
    \A x \in DOMAIN memory.buf : memory.buf[x] # Raw <=> \E b \in sums : ~Moved(b) /\ x \in InBuffer(b)

SetWritten ==
  scanPc \in {"scan", "join"} =>
    \A y \in DOMAIN memory.out : memory.out[y] # NotWritten =>
      \/ \E b \in sums : Moved(b) /\ y \in InOutput(b)
      \/ \E t \in plan.copies \ copies : y \in Target(t)

SetRaw == scanPc \in {"join", "done"} => \A x \in DOMAIN memory.buf : memory.buf[x] = Raw

SetMemory == IsSet(scanCall) => SetFrame /\ SetBuffer /\ SetWritten /\ SetRaw

LEMMA SetSizes ==
  ASSUME FormedScan, IsSet(scanCall)
  PROVE  N1 \in Nat /\ N2 \in Nat /\ Size(scanCall) = N1 + N2
BY DEF FormedScan, FormedSet, IsSequence, Size, N1, N2

LEMMA SetMemoryInit == ScanInit => SetMemory
<1> SUFFICES ASSUME ScanInit, IsSet(scanCall) PROVE SetFrame /\ SetBuffer /\ SetWritten /\ SetRaw
  BY DEF SetMemory
<1>1. /\ memory = [mask |-> Fill(Size(scanCall), "unset"), src |-> [k \in 0..(Size(scanCall) - 1) |-> <<1, k>>], buf |-> <<>>,
                   out |-> Fill(Size(scanCall), NotWritten), out2 |-> Fill(Size(scanCall), NotWritten), ok |-> TRUE]
      /\ copies = {} /\ scanPc = "begin" /\ scanCall \in ScanCalls
  BY DEF ScanInit
<1>2. memory.buf = <<>> /\ memory.ok /\ memory.out = Fill(Size(scanCall), NotWritten)
  BY <1>1
<1>3. Size(scanCall) = N1 + N2
  BY <1>1, FormedScans, SetSizes
<1>4. SetFrame
  BY <1>1, <1>2, <1>3 DEF SetFrame, Fill
<1> QED BY <1>1, <1>4 DEF SetBuffer, SetWritten, SetRaw

\* Blocks take different places, in the buffer and in the output.
LEMMA BlocksApart ==
  ASSUME Scheduled, IsSet(scanCall), NEW b \in sums, NEW c \in sums, b # c
  PROVE  /\ InBuffer(b) \cap InBuffer(c) = {}
         /\ Everything => InOutput(b) \cap InOutput(c) = {}
<1>1. /\ scanN > 0 /\ scanN \in Nat /\ FormedScan /\ scanN = ScanLength(scanCall)
      /\ \A d \in {b, c} : /\ d.lo \in 0..scanN /\ d.hi \in 0..scanN /\ d.lo < d.hi /\ d.val.len \in Nat
                           /\ PlaceOf(d.lo) + d.val.len <= PlaceOf(d.hi)
                           /\ PlaceOf(d.lo) \in 0..Room /\ PlaceOf(d.hi) \in 0..Room
  BY BlockRange, ScanLengths DEF Scheduled
<1>2. Room \in Nat /\ plan.at \in Nat /\ \A d, e \in 0..scanN : d <= e => PlaceOf(d) <= PlaceOf(e)
  BY <1>1, Places
<1>3. b.hi <= c.lo \/ c.hi <= b.lo
  BY DEF Scheduled, BlocksInOrder
<1>4. ASSUME NEW d \in {b, c}, NEW e \in {b, c}, d.hi <= e.lo
      PROVE  /\ InBuffer(d) \cap InBuffer(e) = {}
             /\ Everything => InOutput(d) \cap InOutput(e) = {}
  <2>1. PlaceOf(d.hi) <= PlaceOf(e.lo)
    BY <1>1, <1>2, <1>4
  <2>2. InBuffer(d) \cap InBuffer(e) = {}
    <3>1. PlaceOf(d.lo) \in Nat /\ PlaceOf(e.lo) \in Nat /\ PlaceOf(d.hi) \in Nat /\ d.val.len \in Nat /\ e.val.len \in Nat
          /\ PlaceOf(d.lo) + d.val.len <= PlaceOf(d.hi)
      BY <1>1, <1>2
    <3>2. ASSUME NEW x, x \in InBuffer(d), x \in InBuffer(e) PROVE FALSE
      BY <2>1, <3>1, <3>2 DEF InBuffer
    <3> QED BY <3>2
  <2>3. ASSUME Everything PROVE InOutput(d) \cap InOutput(e) = {}
    <3>1. /\ SumUpTo(d.hi).pos = UpTo(d.lo) /\ SumUpTo(d.hi).len = d.val.len /\ UpTo(d.hi) = UpTo(d.lo) + d.val.len
          /\ SumUpTo(e.hi).pos = UpTo(e.lo) /\ SumUpTo(e.hi).len = e.val.len
      BY <1>1, <2>3, SumsRise
    <3>2. d.lo \in Ends /\ d.hi \in Ends /\ e.lo \in Ends
      BY <2>3, Chain
    <3>3. UpTo(d.lo) \in Nat /\ UpTo(d.hi) \in Nat /\ UpTo(e.lo) \in Nat /\ UpTo(d.hi) <= UpTo(e.lo)
          /\ d.val.len \in Nat /\ e.val.len \in Nat
      BY <1>1, <1>4, <2>3, <3>2, SetSums, SumsRise
    <3>4. ASSUME NEW x, x \in InOutput(d), x \in InOutput(e) PROVE FALSE
      BY <1>2, <3>1, <3>3, <3>4 DEF InOutput
    <3> QED BY <3>4
  <2> QED BY <2>2, <2>3
<1> QED BY <1>3, <1>4

LEMMA LengthOf ==
  ASSUME NEW n \in Nat, NEW s, s = [k \in 1..n |-> s[k]]
  PROVE  Len(s) = n
OBVIOUS

\* Where elements are put, in a memory that has the places.
LEMMA PutAre ==
  ASSUME NEW mem, NEW at \in Nat, NEW n \in Nat, NEW seq, Len(seq) = n
  PROVE  /\ DOMAIN Put(mem, at, seq) = DOMAIN mem
         /\ \A x \in DOMAIN mem : x \in Nat =>
              Put(mem, at, seq)[x] = IF at <= x /\ x < at + n THEN seq[(x - at) + 1] ELSE mem[x]
<1>2. Put(mem, at, seq) = [k \in DOMAIN mem |-> IF k \in at..(at + n - 1) THEN seq[k - at + 1] ELSE mem[k]]
  BY DEF Put
<1>3. ASSUME NEW x \in DOMAIN mem, x \in Nat
      PROVE  Put(mem, at, seq)[x] = IF at <= x /\ x < at + n THEN seq[(x - at) + 1] ELSE mem[x]
  <2>1. x \in at..(at + n - 1) <=> at <= x /\ x < at + n
    BY <1>3
  <2>2. x - at + 1 = (x - at) + 1
    BY <1>3
  <2> QED BY <1>2, <1>3, <2>1, <2>2
<1> QED BY <1>2, <1>3

\* The element of the buffer that goes to a place of the output.
OfBlock(b, y) == memory.buf[PlaceOf(b.lo) + (y - (plan.at + UpTo(b.lo)))]

\* What it does to the memory that the range of a block moves to the output.
LEMMA RangeLeaves ==
  ASSUME Scheduled, SetMemory, IsSet(scanCall), Everything, scanPc = "scan", NEW b \in sums, ~Moved(b)
  PROVE  LET m == MoveRange(SumUpTo(b.hi))
         IN  /\ m.ok /\ DOMAIN m.out = DOMAIN memory.out /\ DOMAIN m.buf = DOMAIN memory.buf
             /\ \A x \in DOMAIN memory.buf : m.buf[x] # Raw <=> \E c \in sums : c # b /\ ~Moved(c) /\ x \in InBuffer(c)
             /\ \A y \in DOMAIN memory.out : m.out[y] # NotWritten => memory.out[y] # NotWritten \/ y \in InOutput(b)
             /\ \A x \in DOMAIN memory.buf : m.buf[x] = IF x \in InBuffer(b) THEN Raw ELSE memory.buf[x]
             /\ \A y \in DOMAIN memory.out : m.out[y] = IF y \in InOutput(b) THEN OfBlock(b, y) ELSE memory.out[y]
<1> DEFINE s == SumUpTo(b.hi)
           m == MoveRange(s)
           elements == [k \in 1..s.len |-> memory.buf[s.buf + k - 1]]
           raws == [k \in 1..s.len |-> Raw]
           out == Put(memory.out, plan.at + s.pos, elements)
           buf == Put(memory.buf, s.buf, raws)
           ok == memory.ok /\ NoneIs(memory.buf, s.buf, s.len, Raw) /\ AllAre(memory.out, plan.at + s.pos, s.len, NotWritten)
<1>1. m = IF s.len = 0 THEN memory ELSE [memory EXCEPT !.out = out, !.buf = buf, !.ok = ok]
  BY DEF MoveRange, Set!Empty
<1>2. /\ SetFrame /\ SetBuffer /\ SetWritten /\ IsMemory(memory)
      /\ scanN > 0 /\ scanN \in Nat /\ FormedScan /\ scanN = ScanLength(scanCall)
  BY BlockRange, ScanLengths DEF Scheduled, SetMemory
<1>3. /\ memory.ok /\ DOMAIN memory.out = 0..((N1 + N2) - 1) /\ DOMAIN memory.buf = 0..(Room - 1)
      /\ \A x \in DOMAIN memory.buf : memory.buf[x] # Raw <=> \E c \in sums : ~Moved(c) /\ x \in InBuffer(c)
      /\ \A y \in DOMAIN memory.out : memory.out[y] # NotWritten =>
           \/ \E c \in sums : Moved(c) /\ y \in InOutput(c)
           \/ \E t \in plan.copies \ copies : y \in Target(t)
  BY <1>2 DEF SetFrame, SetBuffer, SetWritten
<1>4. s.pos = UpTo(b.lo) /\ s.len = b.val.len /\ s.buf = PlaceOf(b.lo) /\ UpTo(b.hi) = UpTo(b.lo) + b.val.len
  BY <1>2, SumsRise
<1>5. /\ UpTo(b.lo) \in Nat /\ UpTo(b.hi) \in Nat /\ UpTo(b.hi) <= PlaceOf(b.hi)
      /\ PlaceOf(b.lo) \in 0..Room /\ PlaceOf(b.hi) \in 0..Room /\ b.val.len \in Nat
      /\ PlaceOf(b.lo) + b.val.len <= PlaceOf(b.hi)
  BY <1>2, SetSums, Chain, BlockRange
<1>6. Room \in Nat /\ N1 \in Nat /\ N2 \in Nat /\ plan.at \in Nat /\ plan.at + Room <= N1 + N2
  BY <1>2, Places
<1>7. /\ s.pos \in Nat /\ s.len \in Nat /\ s.buf \in Nat /\ s.buf + s.len <= Room
      /\ plan.at + s.pos \in Nat /\ (plan.at + s.pos) + s.len <= N1 + N2
  BY <1>4, <1>5, <1>6
<1> HIDE DEF s
<1>8. InBuffer(b) = s.buf..((s.buf + s.len) - 1) /\ InOutput(b) = (plan.at + s.pos)..(((plan.at + s.pos) + s.len) - 1)
  BY <1>4 DEF InBuffer, InOutput, s
<1>9. \A c \in sums : c # b => InBuffer(b) \cap InBuffer(c) = {} /\ InOutput(b) \cap InOutput(c) = {}
  BY BlocksApart
<1>10. \A t \in plan.copies \ copies : \A y \in Target(t) : y < plan.at
  <2>1. PlansSetOp(scanCall, plan, N1, N2)
    BY <1>2, ScannedSet
  <2>2. plan.copies = {} \/ plan.copies = {Set!Copy(1, 0, plan.at, 0)} \/ plan.copies = {Set!Copy(2, 0, plan.at, 0)}
    BY <2>1 DEF PlansSetOp
  <2>3. \A t \in plan.copies : t.at = 0 /\ t.lo = 0 /\ t.hi = plan.at
    BY <2>2 DEF Set!Copy
  <2>4. \A t \in plan.copies : Target(t) = 0..((0 + (plan.at - 0)) - 1)
    BY <2>3 DEF Target
  <2> QED BY <1>6, <2>4
<1>11. NoneIs(memory.buf, s.buf, s.len, Raw)
  <2>1. \A k \in s.buf..(s.buf + s.len - 1) : k \in 0..(Room - 1) /\ k \in InBuffer(b)
    BY <1>6, <1>7, <1>8
  <2> QED BY <1>3, <2>1 DEF NoneIs
<1>12. AllAre(memory.out, plan.at + s.pos, s.len, NotWritten)
  <2>1. \A y \in (plan.at + s.pos)..(plan.at + s.pos + s.len - 1) :
           y \in 0..((N1 + N2) - 1) /\ y \in InOutput(b) /\ y >= plan.at
    BY <1>6, <1>7, <1>8, SMTT(30)
  <2>2. ASSUME NEW y \in (plan.at + s.pos)..((plan.at + s.pos) + s.len - 1) PROVE memory.out[y] = NotWritten
    <3>1. y \in 0..((N1 + N2) - 1) /\ y \in InOutput(b) /\ y >= plan.at
      BY <1>6, <1>7, <1>8, <2>2, SMTT(30)
    <3>2. y \in Nat /\ ~\E t \in plan.copies \ copies : y \in Target(t)
      BY <1>6, <1>10, <3>1
    <3>3. ~\E c \in sums : Moved(c) /\ y \in InOutput(c)
      BY <1>9, <3>1
    <3> QED BY <1>3, <3>1, <3>2, <3>3
  <2>3. \A y \in (plan.at + s.pos)..((plan.at + s.pos) + s.len - 1) : y \in DOMAIN memory.out
    BY <1>3, <1>6, <1>7
  <2> QED BY <2>2, <2>3 DEF AllAre
<1>13. ok
  BY <1>3, <1>11, <1>12
<1>14. Len(elements) = s.len /\ Len(raws) = s.len /\ \A k \in 1..s.len : raws[k] = Raw
  BY <1>7, LengthOf
<1>22. \A k \in 1..s.len : elements[k] = memory.buf[s.buf + k - 1]
  OBVIOUS
<1> HIDE DEF elements, raws, ok
<1>15. /\ DOMAIN buf = DOMAIN memory.buf
       /\ \A x \in DOMAIN memory.buf : x \in Nat =>
            buf[x] = IF s.buf <= x /\ x < s.buf + s.len THEN raws[(x - s.buf) + 1] ELSE memory.buf[x]
  BY <1>7, <1>14, PutAre
<1>16. /\ DOMAIN out = DOMAIN memory.out
       /\ \A y \in DOMAIN memory.out : y \in Nat =>
            out[y] = IF plan.at + s.pos <= y /\ y < (plan.at + s.pos) + s.len
                       THEN elements[(y - (plan.at + s.pos)) + 1] ELSE memory.out[y]
  BY <1>7, <1>14, PutAre
<1> HIDE DEF buf, out
<1>17. \A x \in DOMAIN memory.buf : buf[x] = IF x \in InBuffer(b) THEN Raw ELSE memory.buf[x]
  <2> SUFFICES ASSUME NEW x \in DOMAIN memory.buf PROVE buf[x] = IF x \in InBuffer(b) THEN Raw ELSE memory.buf[x]
    OBVIOUS
  <2>1. x \in Nat
    BY <1>3, <1>6
  <2>2. x \in InBuffer(b) <=> s.buf <= x /\ x < s.buf + s.len
    BY <1>7, <1>8, <2>1
  <2>3. s.buf <= x /\ x < s.buf + s.len => (x - s.buf) + 1 \in 1..s.len
    BY <1>7, <2>1
  <2> QED BY <1>14, <1>15, <2>1, <2>2, <2>3
<1>18. \A y \in DOMAIN memory.out : out[y] = IF y \in InOutput(b) THEN OfBlock(b, y) ELSE memory.out[y]
  <2> SUFFICES ASSUME NEW y \in DOMAIN memory.out
               PROVE  out[y] = IF y \in InOutput(b) THEN OfBlock(b, y) ELSE memory.out[y]
    OBVIOUS
  <2> DEFINE k == (y - (plan.at + s.pos)) + 1
  <2>1. y \in Nat
    BY <1>3, <1>6
  <2>2. y \in InOutput(b) <=> plan.at + s.pos <= y /\ y < (plan.at + s.pos) + s.len
    BY <1>7, <1>8, <2>1
  <2>3. y \in InOutput(b) => k \in 1..s.len
    BY <1>7, <2>1, <2>2
  <2>4. s.buf + k - 1 = s.buf + (y - (plan.at + s.pos))
    BY <1>7, <2>1
  <2>5. OfBlock(b, y) = memory.buf[s.buf + (y - (plan.at + s.pos))]
    BY <1>4 DEF OfBlock
  <2>6. out[y] = IF plan.at + s.pos <= y /\ y < (plan.at + s.pos) + s.len THEN elements[k] ELSE memory.out[y]
    BY <1>16, <2>1
  <2> HIDE DEF k
  <2>7. y \in InOutput(b) => elements[k] = OfBlock(b, y)
    BY <1>22, <2>3, <2>4, <2>5
  <2> QED BY <2>2, <2>6, <2>7
<1>19. \A x \in DOMAIN memory.buf :
          (IF x \in InBuffer(b) THEN Raw ELSE memory.buf[x]) # Raw <=> \E c \in sums : c # b /\ ~Moved(c) /\ x \in InBuffer(c)
  BY <1>3, <1>9
<1>20. CASE s.len # 0
  <2>1. m.ok = ok /\ m.out = out /\ m.buf = buf
    BY <1>1, <1>2, <1>20 DEF IsMemory
  <2> HIDE DEF m
  <2>2. /\ m.ok /\ DOMAIN m.out = DOMAIN memory.out /\ DOMAIN m.buf = DOMAIN memory.buf
        /\ \A x \in DOMAIN memory.buf : m.buf[x] # Raw <=> \E c \in sums : c # b /\ ~Moved(c) /\ x \in InBuffer(c)
        /\ \A y \in DOMAIN memory.out : m.out[y] # NotWritten => memory.out[y] # NotWritten \/ y \in InOutput(b)
        /\ \A x \in DOMAIN memory.buf : m.buf[x] = IF x \in InBuffer(b) THEN Raw ELSE memory.buf[x]
        /\ \A y \in DOMAIN memory.out : m.out[y] = IF y \in InOutput(b) THEN OfBlock(b, y) ELSE memory.out[y]
    BY <1>13, <1>15, <1>16, <1>17, <1>18, <1>19, <2>1
  <2> QED BY <2>2 DEF m, s
<1>21. CASE s.len = 0
  <2>1. m = memory
    BY <1>1, <1>21
  <2>2. InBuffer(b) = {} /\ InOutput(b) = {}
    BY <1>7, <1>8, <1>21
  <2> HIDE DEF m
  <2>3. /\ m.ok /\ DOMAIN m.out = DOMAIN memory.out /\ DOMAIN m.buf = DOMAIN memory.buf
        /\ \A x \in DOMAIN memory.buf : m.buf[x] # Raw <=> \E c \in sums : c # b /\ ~Moved(c) /\ x \in InBuffer(c)
        /\ \A y \in DOMAIN memory.out : m.out[y] # NotWritten => memory.out[y] # NotWritten \/ y \in InOutput(b)
        /\ \A x \in DOMAIN memory.buf : m.buf[x] = IF x \in InBuffer(b) THEN Raw ELSE memory.buf[x]
        /\ \A y \in DOMAIN memory.out : m.out[y] = IF y \in InOutput(b) THEN OfBlock(b, y) ELSE memory.out[y]
    BY <1>3, <1>19, <2>1, <2>2
  <2> QED BY <2>3 DEF m, s
<1> QED BY <1>20, <1>21


\* What has moved when one more block is scanned, or apex called.
LEMMA MoreMoved ==
  ASSUME Scheduled, IsSet(scanCall), Everything, NEW c \in sums, UNCHANGED <<scanCall, sums, scanN, total>>,
         DOMAIN scanned' = DOMAIN scanned \cup {Scanning(c)}, Scanning(c) \notin DOMAIN scanned
  PROVE  /\ \A b \in sums : Moved(b)' <=> Moved(b) \/ (b.hi # scanN /\ b.hi = c.lo)
         /\ \A b \in sums : b.hi = c.lo => ~Moved(b) /\ b.hi # scanN
<1>1. \A d : Scanning(d)' = Scanning(d)
  BY DEF Scanning
<1>2. \A d \in sums : Scanning(d) = Scanning(c) => d.lo = c.lo
  BY DEF Scanning
<1>3. \A b \in sums : Moved(b)' <=> Moved(b) \/ (b.hi # scanN /\ b.hi = c.lo)
  BY <1>1, <1>2 DEF Moved
<1>4. \A d \in sums : d.lo = c.lo => d = c
  <2> SUFFICES ASSUME NEW d \in sums, d.lo = c.lo PROVE d = c
    OBVIOUS
  <2>1. d = c \/ d.hi <= c.lo \/ c.hi <= d.lo
    BY DEF Scheduled, BlocksInOrder
  <2>2. c.lo \in 0..scanN /\ c.hi \in 0..scanN /\ d.lo \in 0..scanN /\ d.hi \in 0..scanN /\ c.lo < c.hi /\ d.lo < d.hi
        /\ scanN \in Nat
    BY Chain
  <2> QED BY <2>1, <2>2
<1>5. c.lo # scanN
  <2>1. c.lo \in 0..scanN /\ c.hi \in 0..scanN /\ c.lo < c.hi /\ scanN \in Nat
    BY Chain
  <2> QED BY <2>1
<1>6. \A b \in sums : b.hi = c.lo => ~Moved(b) /\ b.hi # scanN
  BY <1>4, <1>5 DEF Moved
<1> QED BY <1>3, <1>6

\* The range of a block moves: the call of apex for the last one, and the scan of the
\* block that follows for the others.
LEMMA SetMoves ==
  ASSUME Scheduled, SetMemory, IsSet(scanCall), Everything, scanPc = "scan", NEW b \in sums, ~Moved(b),
         memory' = MoveRange(SumUpTo(b.hi)), UNCHANGED <<scanCall, sums, copies, scanPc, scanN>>,
         \A c \in sums : Moved(c)' <=> Moved(c) \/ c = b
  PROVE  SetMemory'
<1>1. /\ memory'.ok /\ DOMAIN memory'.out = DOMAIN memory.out /\ DOMAIN memory'.buf = DOMAIN memory.buf
      /\ \A x \in DOMAIN memory.buf : memory'.buf[x] # Raw <=> \E c \in sums : c # b /\ ~Moved(c) /\ x \in InBuffer(c)
      /\ \A y \in DOMAIN memory.out : memory'.out[y] # NotWritten => memory.out[y] # NotWritten \/ y \in InOutput(b)
  BY RangeLeaves
<1>2. SetFrame /\ SetBuffer /\ SetWritten
  BY DEF SetMemory
<1>3. /\ N1' = N1 /\ N2' = N2 /\ plan' = plan /\ Room' = Room
  BY SameCall DEF Room
<1>4. /\ \A c : InBuffer(c)' = InBuffer(c)
      /\ \A c : InOutput(c)' = InOutput(c)
      /\ \A t : Target(t)' = Target(t)
  BY <1>3, SameSums DEF InBuffer, InOutput, Target, PlaceOf
<1>5. SetFrame'
  BY <1>1, <1>2, <1>3 DEF SetFrame
<1>6. SetBuffer'
  BY <1>1, <1>4 DEF SetBuffer
<1>7. SetWritten'
  BY <1>1, <1>2, <1>3, <1>4 DEF SetWritten
<1>8. SetRaw'
  BY DEF SetRaw
<1> QED BY <1>5, <1>6, <1>7, <1>8 DEF SetMemory

\* Nothing moves, and the slots stay as they are.
LEMMA SetStays ==
  ASSUME SetMemory, IsSet(scanCall), UNCHANGED <<scanCall, memory, sums, scanN, copies>>,
         \A b \in sums : Moved(b)' <=> Moved(b), scanPc' = scanPc \/ (scanPc = "join" /\ scanPc' = "done")
  PROVE  SetMemory'
<1>1. SetFrame /\ SetBuffer /\ SetWritten /\ SetRaw
  BY DEF SetMemory
<1>2. /\ N1' = N1 /\ N2' = N2 /\ plan' = plan /\ Room' = Room
  BY SameCall DEF Room
<1>3. /\ \A d : InBuffer(d)' = InBuffer(d)
      /\ \A d : InOutput(d)' = InOutput(d)
      /\ \A u : Target(u)' = Target(u)
  BY <1>2, SameSums DEF InBuffer, InOutput, Target, PlaceOf
<1>4. SetFrame'
  BY <1>1, <1>2 DEF SetFrame
<1>5. SetBuffer' /\ SetRaw'
  BY <1>1, <1>3 DEF SetBuffer, SetRaw
<1>6. SetWritten'
  BY <1>1, <1>2, <1>3 DEF SetWritten
<1> QED BY <1>4, <1>5, <1>6 DEF SetMemory

\* The range of b moves, or nothing does: the first block is scanned with no range.
Moves(b) ==
  /\ ~Moved(b) /\ memory' = MoveRange(SumUpTo(b.hi))
  /\ \A c \in sums : Moved(c)' <=> Moved(c) \/ c = b

NothingMoves == memory' = memory /\ \A b \in sums : Moved(b)' <=> Moved(b)

Moving ==
  /\ scanPc = "scan" /\ Everything /\ UNCHANGED <<scanCall, sums, copies, scanPc, scanN>>
  /\ NothingMoves \/ \E b \in sums : Moves(b)

LEMMA ApexMoves ==
  ASSUME Scheduled, IsSet(scanCall), ApexCall
  PROVE  Moving
<1>1. scanPc = "scan" /\ UNCHANGED <<scanCall, sums, copies, scanPc, scanN, scanned>> /\ total = NoSum /\ Everything
      /\ memory' = MoveRange(SumUpTo(scanN)) /\ total' = <<-1, scanN>>
  BY CoveredIsEverything DEF ApexCall, Contract!Apex
<1>2. scanN > 0 /\ scanN \in Nat /\ scanN \in Ends /\ scanN # 0
  BY <1>1, Chain DEF Scheduled, Phases
<1>3. PICK b \in sums : b.hi = scanN
  BY <1>1, <1>2, Chain
<1>4. total' # NoSum
  BY <1>1, <1>2, ScanAssumption
<1>5. \A c \in sums : c.hi = scanN => c = b
  BY <1>1, <1>3, Chain
<1>6. \A d : Scanning(d)' = Scanning(d)
  BY DEF Scanning
<1>7. ~Moved(b) /\ \A c \in sums : Moved(c)' <=> Moved(c) \/ c = b
  BY <1>1, <1>3, <1>4, <1>5, <1>6 DEF Moved
<1> QED BY <1>1, <1>3, <1>7 DEF Moving, Moves

LEMMA ScanMoves ==
  ASSUME Scheduled, IsSet(scanCall), NEW i \in 0..(scanN - 1), NEW len \in 1..(scanN - i), ScanBlock(i, len)
  PROVE  Moving
<1>1. PICK c \in sums :
           /\ c.lo = i /\ c.hi = i + len /\ Scanning(c) \notin DOMAIN scanned
           /\ DOMAIN scanned' = DOMAIN scanned \cup {Scanning(c)}
           /\ Everything /\ total # NoSum /\ ~scanReturned /\ scanPc = "scan"
           /\ UNCHANGED <<scanCall, sums, copies, scanPc, scanAnswer, scanN, scanReduced, total, scanReturned>>
           /\ memory' = IF IsSet(scanCall) THEN MoveRange(SumUpTo(c.lo)) ELSE CopyMasked(c.lo, c.hi, SumUpTo(c.lo))
  BY BlockScanned
<1>2. /\ \A b \in sums : Moved(b)' <=> Moved(b) \/ (b.hi # scanN /\ b.hi = c.lo)
      /\ \A b \in sums : b.hi = c.lo => ~Moved(b) /\ b.hi # scanN
  BY <1>1, MoreMoved
<1>3. CASE c.lo # 0
  <2>1. c.lo \in Ends
    BY <1>1, Chain
  <2>2. PICK b \in sums : b.hi = c.lo
    BY <1>1, <1>3, <2>1, Chain
  <2>3. \A d \in sums : d.hi = c.lo => d = b
    BY <1>1, <2>2, Chain
  <2>4. ~Moved(b) /\ \A d \in sums : Moved(d)' <=> Moved(d) \/ d = b
    BY <1>2, <2>2, <2>3
  <2> QED BY <1>1, <2>2, <2>4 DEF Moving, Moves
<1>4. CASE c.lo = 0
  <2>1. scanN > 0
    BY BlockRange
  <2>2. SumUpTo(0) = Set!NoRange
    BY <1>1, <2>1, SetSums
  <2>3. memory' = memory
    BY <1>1, <1>4, <2>2 DEF MoveRange, Set!Empty, Set!NoRange, Set!SetRange
  <2>4. \A b \in sums : b.hi # 0
    BY <1>1, Chain
  <2>5. \A b \in sums : Moved(b)' <=> Moved(b)
    BY <1>2, <1>4, <2>4
  <2> QED BY <1>1, <2>3, <2>5 DEF Moving, NothingMoves
<1> QED BY <1>3, <1>4

\* A block is reduced: its elements go to slots of the buffer that are raw.
LEMMA SetReduced ==
  ASSUME Scheduled, SetMemory, IsSet(scanCall),
         NEW i \in 0..(scanN - 1), NEW len \in 1..(scanN - i), ReduceBlock(i, len)
  PROVE  SetMemory'
<1> DEFINE r == Set!Reduce(scanCall, plan, i, i + len)
           buf == Put(memory.buf, r[2].buf, r[1])
           ok == memory.ok /\ AllAre(memory.buf, r[2].buf, r[2].len, Raw)
           new == [lo |-> i, hi |-> i + len, val |-> ValueOf(i, i + len)]
           place == PlaceOf(i)
           n == ValueOf(i, i + len).len
<1>1. /\ scanCall' = scanCall /\ scanN' = scanN /\ scanPc' = scanPc /\ scanPc = "scan"
      /\ total = NoSum /\ UNCHANGED <<total, scanned, scanReturned, copies, scanAnswer>>
      /\ i \in Nat /\ len \in Nat /\ i + len \in 0..scanN /\ i < i + len
      /\ sums' = sums \cup {new}
      /\ \A b \in sums : b.hi <= i \/ i + len <= b.lo
  BY BlockReduced
<1>2. memory' = [memory EXCEPT !.buf = buf, !.ok = ok]
  BY DEF ReduceBlock, Reduced
<1>3. SetFrame /\ SetBuffer /\ SetWritten /\ IsMemory(memory) /\ FormedScan /\ scanN = ScanLength(scanCall) /\ scanN \in Nat
  BY ScanLengths DEF Scheduled, SetMemory
<1>4. i \in 0..scanN /\ scanN > 0
  BY <1>1, <1>3
<1>5. /\ ValueOf(i, i + len) = Set!SetRange(0, n, place) /\ n \in Nat /\ place + n <= PlaceOf(i + len)
      /\ r[1] \in Seq(Items) /\ Len(r[1]) = n /\ r[2] = ValueOf(i, i + len)
  BY <1>1, <1>3, <1>4, SetValues DEF PlaceOf, ValueOf
<1>6. r[2].buf = place /\ r[2].len = n
  BY <1>5 DEF Set!SetRange
<1>7. /\ Room \in Nat /\ place \in 0..Room /\ place \in Nat /\ PlaceOf(i + len) \in 0..Room
      /\ \A d, e \in 0..scanN : d <= e => PlaceOf(d) <= PlaceOf(e)
  BY <1>1, <1>3, <1>4, Places
<1>8. place + n <= Room
  BY <1>5, <1>7
<1>9. new.lo = i /\ new.hi = i + len /\ new.val.len = n
  OBVIOUS
<1> HIDE DEF new
<1>10. /\ memory.ok /\ DOMAIN memory.buf = 0..(Room - 1)
       /\ \A x \in DOMAIN memory.buf : memory.buf[x] # Raw <=> \E b \in sums : ~Moved(b) /\ x \in InBuffer(b)
       /\ \A y \in DOMAIN memory.out : memory.out[y] # NotWritten =>
            \/ \E b \in sums : Moved(b) /\ y \in InOutput(b)
            \/ \E t \in plan.copies \ copies : y \in Target(t)
  BY <1>1, <1>3 DEF SetFrame, SetBuffer, SetWritten
<1>11. /\ N1' = N1 /\ N2' = N2 /\ plan' = plan /\ Room' = Room /\ IsSet(scanCall)'
       /\ \A b : InBuffer(b)' = InBuffer(b)
       /\ \A t : Target(t)' = Target(t)
  BY <1>1, SameCall DEF Room, InBuffer, Target, PlaceOf, IsSet
<1>12. InBuffer(new) = place..((place + n) - 1)
  BY <1>9 DEF InBuffer
<1> HIDE DEF r, place, n
<1>13. ASSUME NEW b \in sums PROVE InBuffer(b) \cap InBuffer(new) = {}
  <2>1. /\ b.lo \in 0..scanN /\ b.hi \in 0..scanN /\ b.val.len \in Nat
        /\ PlaceOf(b.lo) + b.val.len <= PlaceOf(b.hi)
        /\ PlaceOf(b.lo) \in 0..Room /\ PlaceOf(b.hi) \in 0..Room
    BY BlockRange
  <2>2. b.hi <= i \/ i + len <= b.lo
    BY <1>1
  <2>3. PlaceOf(b.hi) <= place \/ PlaceOf(i + len) <= PlaceOf(b.lo)
    <3>1. b.hi <= i => PlaceOf(b.hi) <= PlaceOf(i)
      BY <1>4, <1>7, <2>1
    <3>2. i + len <= b.lo => PlaceOf(i + len) <= PlaceOf(b.lo)
      BY <1>1, <1>7, <2>1
    <3> QED BY <2>2, <3>1, <3>2 DEF place
  <2>4. ASSUME NEW x, x \in InBuffer(b), x \in InBuffer(new) PROVE FALSE
    <3>1. PlaceOf(b.lo) \in Nat /\ PlaceOf(b.hi) \in Nat /\ PlaceOf(i + len) \in Nat /\ n \in Nat /\ place \in Nat
      BY <1>5, <1>7, <2>1
    <3>2. x \in PlaceOf(b.lo)..((PlaceOf(b.lo) + b.val.len) - 1) /\ x \in place..((place + n) - 1)
      BY <1>12, <2>4 DEF InBuffer
    <3> QED BY <1>5, <2>1, <2>3, <3>1, <3>2
  <2> QED BY <2>4
<1>14. \A b \in sums : ~Moved(b)
  <2>1. DOMAIN scanned = {}
    BY <1>1 DEF Scheduled, ScanInOrder
  <2> QED BY <1>1, <2>1 DEF Moved
<1>15. \A b : ~Moved(b)'
  <2>1. DOMAIN scanned' = {}
    BY <1>1 DEF Scheduled, ScanInOrder
  <2> QED BY <1>1, <2>1 DEF Moved
<1>16. ok
  <2>1. AllAre(memory.buf, place, n, Raw)
    <3>1. \A x \in place..(place + n - 1) : x \in 0..(Room - 1) /\ x \in InBuffer(new)
      BY <1>5, <1>7, <1>8, <1>12
    <3> QED BY <1>10, <1>13, <3>1 DEF AllAre
  <2> QED BY <1>6, <1>10, <2>1
<1>17. /\ DOMAIN buf = DOMAIN memory.buf
       /\ \A x \in DOMAIN memory.buf :
            IF x \in InBuffer(new) THEN buf[x] # Raw ELSE buf[x] = memory.buf[x]
  <2>1. /\ DOMAIN Put(memory.buf, place, r[1]) = DOMAIN memory.buf
        /\ \A x \in DOMAIN memory.buf : x \in Nat =>
             Put(memory.buf, place, r[1])[x] = IF place <= x /\ x < place + n THEN r[1][(x - place) + 1] ELSE memory.buf[x]
    BY <1>5, <1>7, PutAre
  <2>2. buf = Put(memory.buf, place, r[1])
    BY <1>6
  <2> HIDE DEF buf
  <2>3. ASSUME NEW x \in DOMAIN memory.buf PROVE IF x \in InBuffer(new) THEN buf[x] # Raw ELSE buf[x] = memory.buf[x]
    <3>1. x \in Nat
      BY <1>7, <1>10
    <3>2. x \in InBuffer(new) <=> place <= x /\ x < place + n
      BY <1>5, <1>7, <1>12, <3>1
    <3>3. place <= x /\ x < place + n => (x - place) + 1 \in 1..Len(r[1])
      BY <1>5, <1>7, <3>1
    <3>4. \A k \in 1..Len(r[1]) : r[1][k] \in Items
      BY <1>5
    <3>5. Raw \notin Items
      BY DEF Raw, Items
    <3> QED BY <2>1, <2>2, <3>1, <3>2, <3>3, <3>4, <3>5
  <2> QED BY <2>1, <2>2, <2>3
<1> HIDE DEF buf, ok
<1>18. memory'.ok /\ memory'.buf = buf /\ memory'.out = memory.out
  BY <1>2, <1>3, <1>16 DEF IsMemory
<1>19. SetFrame'
  BY <1>1, <1>3, <1>11, <1>17, <1>18 DEF SetFrame
<1>20. SetBuffer'
  <2>1. \A x \in DOMAIN memory.buf : buf[x] # Raw <=> \E b \in sums \cup {new} : x \in InBuffer(b)
    BY <1>10, <1>14, <1>17
  <2> QED BY <1>1, <1>11, <1>15, <1>17, <1>18, <2>1 DEF SetBuffer
<1>21. SetWritten'
  BY <1>1, <1>10, <1>11, <1>14, <1>18 DEF SetWritten
<1> QED BY <1>1, <1>19, <1>20, <1>21 DEF SetMemory, SetRaw

LEMMA SetBegun ==
  ASSUME Scheduled, SetMemory, IsSet(scanCall), Begin
  PROVE  SetMemory'
<1> DEFINE size == IF plan.kind = "set_op" THEN Set!SizeFunc(scanCall.alg, scanN, Set!Size(scanCall.b) - plan.b0) ELSE 0
           buf == Fill(size, Raw)
<1>1. /\ scanPc = "begin" /\ scanPc' = (IF scanN = 0 THEN "join" ELSE "scan") /\ copies' = plan.copies
      /\ UNCHANGED <<scanCall, sums, scanned, scanN, total>>
      /\ memory' = [memory EXCEPT !.buf = buf]
  BY DEF Begin, strictScan
<1>2. SetFrame /\ IsMemory(memory) /\ scanN \in Nat
  BY ScanLengths DEF Scheduled, SetMemory
<1>3. DOMAIN buf = 0..(size - 1) /\ \A x \in DOMAIN buf : buf[x] = Raw
  BY DEF Fill
<1>4. scanN > 0 => size = Room
  BY ScannedSet DEF Scheduled, PlansSetOp, Room, N2
<1> HIDE DEF buf, size
<1>5. memory'.ok = memory.ok /\ memory'.out = memory.out /\ memory'.buf = buf
  BY <1>1, <1>2 DEF IsMemory
<1>6. /\ N1' = N1 /\ N2' = N2 /\ plan' = plan /\ Room' = Room
  BY <1>1, SameCall DEF Room
<1>7. sums' = {}
  BY <1>1 DEF Scheduled, Phases
<1>8. SetFrame'
  BY <1>1, <1>2, <1>3, <1>4, <1>5, <1>6 DEF SetFrame
<1>9. SetBuffer' /\ SetRaw'
  BY <1>3, <1>5, <1>7 DEF SetBuffer, SetRaw
<1>10. SetWritten'
  BY <1>1, <1>2, <1>5 DEF SetFrame, SetWritten
<1> QED BY <1>8, <1>9, <1>10 DEF SetMemory

LEMMA SetReturned ==
  ASSUME Scheduled, SetMemory, IsSet(scanCall), ScanReturns
  PROVE  SetMemory'
<1>1. scanPc = "scan" /\ scanPc' = "join" /\ UNCHANGED <<scanCall, memory, sums, scanAnswer>>
      /\ UNCHANGED <<scanN, scanReduced, scanned, total>> /\ total # NoSum
      /\ \A b \in DOMAIN scanReduced : <<b[1], b[2], <<-1, b[1]>>>> \in DOMAIN scanned
  BY DEF ScanReturns, Contract!Return
<1>2. copies' = copies
  BY DEF ScanReturns, Mask!Removes, Removes, IsSet, Set!Algs
<1>3. SetFrame /\ SetBuffer /\ SetWritten /\ Everything /\ scanN \in Nat
  BY <1>1, ScanLengths DEF Scheduled, SetMemory, ScanInOrder
<1>4. /\ N1' = N1 /\ N2' = N2 /\ plan' = plan /\ Room' = Room
  BY <1>1, SameCall DEF Room
<1>5. \A b \in sums : Moved(b)
  <2> SUFFICES ASSUME NEW b \in sums, b.hi # scanN PROVE \E c \in sums : c.lo = b.hi /\ Scanning(c) \in DOMAIN scanned
    BY <1>1 DEF Moved
  <2>1. b.lo \in 0..scanN /\ b.hi \in 0..scanN /\ b.lo < b.hi
    BY <1>3, Chain
  <2>2. b.hi \in 0..(scanN - 1)
    BY <1>3, <2>1
  <2>3. PICK c \in sums : c.lo <= b.hi /\ b.hi < c.hi
    BY <1>3, <2>2 DEF Everything
  <2>4. c = b \/ c.hi <= b.lo \/ b.hi <= c.lo
    BY DEF Scheduled, BlocksInOrder
  <2>5. c.lo \in 0..scanN /\ c.hi \in 0..scanN
    BY <1>3, Chain
  <2>6. c.lo = b.hi
    BY <1>3, <2>1, <2>3, <2>4, <2>5
  <2>7. <<c.lo, c.hi - c.lo>> \in DOMAIN scanReduced
    BY DEF Scheduled, BlocksInOrder
  <2> QED BY <1>1, <2>6, <2>7 DEF Scanning
<1>6. \A x \in DOMAIN memory.buf : memory.buf[x] = Raw
  BY <1>1, <1>3, <1>5 DEF SetBuffer
<1>7. /\ \A d : Moved(d)' = Moved(d)
      /\ \A d : InOutput(d)' = InOutput(d)
      /\ \A t : Target(t)' = Target(t)
  BY <1>1, <1>4, SameSums DEF InOutput, Target, Moved, Scanning
<1>8. SetFrame'
  BY <1>1, <1>2, <1>3, <1>4 DEF SetFrame
<1>9. SetBuffer' /\ SetRaw'
  BY <1>1, <1>6 DEF SetBuffer, SetRaw
<1>10. SetWritten'
  BY <1>1, <1>2, <1>3, <1>4, <1>7 DEF SetWritten
<1> QED BY <1>8, <1>9, <1>10 DEF SetMemory

\* The parallel copies of a plan write different places, before those of the scan.
LEMMA CopiesApart ==
  ASSUME FormedScan, scanN = ScanLength(scanCall), IsSet(scanCall), ~IsSerial, NEW t \in plan.copies
  PROVE  /\ t.seq # 0 /\ t.at \in Nat /\ t.hi - t.lo \in Nat /\ t.at + (t.hi - t.lo) <= N1 + N2
         /\ scanN > 0 => t.at + (t.hi - t.lo) <= plan.at
         /\ \A u \in plan.copies : u = t \/ Target(u) \cap Target(t) = {}
<1>1. N1 \in Nat /\ N2 \in Nat
  BY SetSizes
<1>2. CASE PlansCopies(plan, N1, N2)
  <2>1. scanN = 0
    BY <1>2, ScanLengths DEF PlansCopies
  <2>2. \E first \in {0, N2}, second \in {0, N1} :
          /\ plan.copies \subseteq {Set!Copy(1, 0, N1, first), Set!Copy(2, 0, N2, second)}
          /\ {Set!Copy(1, 0, N1, first), Set!Copy(2, 0, N2, second)} \subseteq plan.copies
               => (first = N2 /\ second = 0) \/ (first = 0 /\ second = N1)
    <3>1. plan.copies = {} \/ plan.copies = {Set!Copy(1, 0, N1, 0)} \/ plan.copies = {Set!Copy(2, 0, N2, 0)}
          => plan.copies \subseteq {Set!Copy(1, 0, N1, 0), Set!Copy(2, 0, N2, N1)}
             \/ plan.copies \subseteq {Set!Copy(1, 0, N1, N2), Set!Copy(2, 0, N2, 0)}
      OBVIOUS
    <3>2. plan.copies \subseteq {Set!Copy(1, 0, N1, 0), Set!Copy(2, 0, N2, N1)}
             \/ plan.copies \subseteq {Set!Copy(1, 0, N1, N2), Set!Copy(2, 0, N2, 0)}
      BY <1>2, <3>1 DEF PlansCopies
    <3>3. CASE plan.copies \subseteq {Set!Copy(1, 0, N1, 0), Set!Copy(2, 0, N2, N1)}
      <4> WITNESS 0 \in {0, N2}, N1 \in {0, N1}
      <4> QED BY <3>3
    <3>4. CASE plan.copies \subseteq {Set!Copy(1, 0, N1, N2), Set!Copy(2, 0, N2, 0)}
      <4> WITNESS N2 \in {0, N2}, 0 \in {0, N1}
      <4> QED BY <3>4
    <3> QED BY <3>2, <3>3, <3>4
  <2>3. PICK first \in {0, N2}, second \in {0, N1} :
          /\ plan.copies \subseteq {Set!Copy(1, 0, N1, first), Set!Copy(2, 0, N2, second)}
          /\ {Set!Copy(1, 0, N1, first), Set!Copy(2, 0, N2, second)} \subseteq plan.copies
               => (first = N2 /\ second = 0) \/ (first = 0 /\ second = N1)
    BY <2>2
  <2> DEFINE c1 == Set!Copy(1, 0, N1, first)
             c2 == Set!Copy(2, 0, N2, second)
  <2>4. /\ c1.seq = 1 /\ c1.lo = 0 /\ c1.hi = N1 /\ c1.at = first
        /\ c2.seq = 2 /\ c2.lo = 0 /\ c2.hi = N2 /\ c2.at = second
    BY DEF Set!Copy
  <2> HIDE DEF c1, c2
  <2>5. /\ c1.at \in Nat /\ c1.hi - c1.lo = N1 /\ c1.at + N1 <= N1 + N2
        /\ c2.at \in Nat /\ c2.hi - c2.lo = N2 /\ c2.at + N2 <= N1 + N2
    BY <1>1, <2>4
  <2>6. t = c1 \/ t = c2
    BY <2>3 DEF c1, c2
  <2>7. ASSUME (first = N2 /\ second = 0) \/ (first = 0 /\ second = N1)
        PROVE  Target(c1) \cap Target(c2) = {}
    <3>1. Target(c1) = first..((first + N1) - 1) /\ Target(c2) = second..((second + N2) - 1)
      BY <2>4, <2>5 DEF Target
    <3> QED BY <1>1, <2>7, <3>1
  <2>8. \A u \in plan.copies : u = c1 \/ u = c2
    BY <2>3 DEF c1, c2
  <2>9. c1 \in plan.copies /\ c2 \in plan.copies => (first = N2 /\ second = 0) \/ (first = 0 /\ second = N1)
    BY <2>3 DEF c1, c2
  <2>10. \A u \in plan.copies : u = t \/ Target(u) \cap Target(t) = {}
    BY <2>6, <2>7, <2>8, <2>9
  <2> QED BY <1>1, <2>1, <2>4, <2>5, <2>6, <2>10
<1>3. CASE PlansSetOp(scanCall, plan, N1, N2)
  <2>1. PICK s \in {1, 2} : plan.copies = {Set!Copy(s, 0, plan.at, 0)} /\ plan.at \in 0..(N1 + N2)
    <3>1. plan.at \in 0..(N1 + N2)
      <4>1. plan.copies # {}
        OBVIOUS
      <4>2. plan.at \in 0..N1 \/ plan.at \in 0..N2
        BY <1>3, <4>1 DEF PlansSetOp
      <4> QED BY <1>1, <4>2
    <3> QED BY <1>3, <3>1 DEF PlansSetOp
  <2>2. t = Set!Copy(s, 0, plan.at, 0)
    BY <2>1
  <2>3. t.seq = s /\ t.lo = 0 /\ t.hi = plan.at /\ t.at = 0
    BY <2>2 DEF Set!Copy
  <2>4. \A u \in plan.copies : u = t
    BY <2>1, <2>2
  <2>5. plan.at - 0 = plan.at /\ plan.at \in Nat /\ plan.at <= N1 + N2
    BY <1>1, <2>1
  <2> QED BY <2>3, <2>4, <2>5
<1>4. plan.kind # "serial"
  BY DEF IsSerial
<1> QED BY <1>2, <1>3, <1>4, ScanLengths

\* One of the parallel copies beside the scan writes places nothing else writes.
LEMMA SetCopied ==
  ASSUME Scheduled, SetMemory, IsSet(scanCall), NEW t \in copies, CopyRange(t)
  PROVE  SetMemory'
<1> DEFINE n == t.hi - t.lo
           elements == [k \in 1..(t.hi - t.lo) |-> <<t.seq, t.lo + k - 1>>]
           out == Put(memory.out, t.at, elements)
           ok == memory.ok /\ AllAre(memory.out, t.at, Len(elements), NotWritten)
<1>1. /\ scanPc \in {"scan", "join"} /\ copies' = copies \ {t}
      /\ UNCHANGED <<scanCall, sums, scanN, scanned, total, scanPc>>
  BY DEF CopyRange, strictScan
<1>2. SetFrame /\ SetBuffer /\ SetWritten /\ SetRaw /\ IsMemory(memory) /\ FormedScan /\ scanN = ScanLength(scanCall)
      /\ ~IsSerial /\ scanN \in Nat
  BY <1>1, ScanLengths DEF Scheduled, SetMemory, Phases
<1>3. t \in plan.copies
  BY <1>1, <1>2 DEF SetFrame
<1>4. /\ t.seq # 0 /\ t.at \in Nat /\ n \in Nat /\ t.at + n <= N1 + N2
      /\ scanN > 0 => t.at + n <= plan.at
      /\ \A u \in plan.copies : u = t \/ Target(u) \cap Target(t) = {}
  BY <1>2, <1>3, CopiesApart
<1>5. memory' = [memory EXCEPT !.out = out, !.ok = ok]
  BY <1>4 DEF CopyRange
<1>6. N1 \in Nat /\ N2 \in Nat
  BY <1>2, SetSizes
<1>7. Len(elements) = n
  BY <1>4, LengthOf
<1> HIDE DEF elements
<1>8. ASSUME NEW b \in sums, Moved(b) PROVE InOutput(b) \cap Target(t) = {}
  <2>1. scanN > 0
    BY BlockRange
  <2>2. Everything
    BY <1>8 DEF Moved, Scheduled, ScanInOrder
  <2>3. SumUpTo(b.hi).pos \in Nat /\ SumUpTo(b.hi).len \in Nat
    <3>1. b.hi \in Ends
      BY <2>2, Chain
    <3> QED BY <2>1, <2>2, <3>1, SetSums DEF IsRange
  <2>4. plan.at \in Nat
    BY <1>2, <2>1, Places
  <2>5. ASSUME NEW y, y \in InOutput(b), y \in Target(t) PROVE FALSE
    BY <1>4, <2>1, <2>3, <2>4, <2>5 DEF InOutput, Target
  <2> QED BY <2>5
<1>9. \A y \in Target(t) : memory.out[y] = NotWritten
  <2> SUFFICES ASSUME NEW y \in Target(t), memory.out[y] # NotWritten PROVE FALSE
    OBVIOUS
  <2>1. y \in DOMAIN memory.out
    BY <1>2, <1>4, <1>6 DEF SetFrame, Target
  <2>2. (\E b \in sums : Moved(b) /\ y \in InOutput(b)) \/ (\E u \in plan.copies \ copies : y \in Target(u))
    BY <1>1, <1>2, <2>1 DEF SetWritten
  <2> QED BY <1>4, <1>8, <2>2
<1>10. Target(t) \subseteq DOMAIN memory.out
  BY <1>2, <1>4, <1>6 DEF SetFrame, Target
<1>11. ok = TRUE
  <2>1. AllAre(memory.out, t.at, Len(elements), NotWritten)
    <3>1. \A y \in t.at..(t.at + n - 1) : y \in Target(t)
      BY <1>4 DEF Target
    <3> QED BY <1>7, <1>9, <1>10, <3>1 DEF AllAre
  <2> QED BY <1>2, <2>1 DEF SetFrame
<1>12. /\ DOMAIN out = DOMAIN memory.out
       /\ \A y \in DOMAIN memory.out : y \in Target(t) \/ out[y] = memory.out[y]
  <2>1. /\ DOMAIN out = DOMAIN memory.out
        /\ \A y \in DOMAIN memory.out : y \in Nat =>
             out[y] = IF t.at <= y /\ y < t.at + n THEN elements[(y - t.at) + 1] ELSE memory.out[y]
    BY <1>4, <1>7, PutAre
  <2> HIDE DEF out
  <2>2. ASSUME NEW y \in DOMAIN memory.out PROVE y \in Target(t) \/ out[y] = memory.out[y]
    <3>1. y \in Nat
      BY <1>2 DEF SetFrame
    <3>2. y \in Target(t) <=> t.at <= y /\ y < t.at + n
      BY <1>4, <3>1 DEF Target
    <3> QED BY <2>1, <3>1, <3>2
  <2> QED BY <2>1, <2>2
<1> HIDE DEF out, ok
<1>13. memory'.ok /\ memory'.out = out /\ memory'.buf = memory.buf
  BY <1>2, <1>5, <1>11 DEF IsMemory
<1>14. /\ N1' = N1 /\ N2' = N2 /\ plan' = plan /\ Room' = Room
  BY <1>1, SameCall DEF Room
<1>15. /\ \A d : Moved(d)' = Moved(d)
       /\ \A d : InBuffer(d)' = InBuffer(d)
       /\ \A d : InOutput(d)' = InOutput(d)
       /\ \A u : Target(u)' = Target(u)
  BY <1>1, <1>14, SameSums DEF InBuffer, InOutput, Target, Moved, Scanning, PlaceOf
<1>16. SetFrame'
  BY <1>1, <1>2, <1>12, <1>13, <1>14 DEF SetFrame
<1>17. SetBuffer' /\ SetRaw'
  BY <1>1, <1>2, <1>13, <1>15 DEF SetBuffer, SetRaw
<1>18. SetWritten'
  <2> SUFFICES ASSUME NEW y \in DOMAIN memory.out, out[y] # NotWritten
               PROVE  \/ \E b \in sums : Moved(b) /\ y \in InOutput(b)
                      \/ \E u \in plan.copies \ (copies \ {t}) : y \in Target(u)
    BY <1>1, <1>12, <1>13, <1>14, <1>15 DEF SetWritten
  <2>1. CASE y \in Target(t)
    BY <1>3, <2>1
  <2>2. CASE memory.out[y] # NotWritten
    <3>1. (\E b \in sums : Moved(b) /\ y \in InOutput(b)) \/ (\E u \in plan.copies \ copies : y \in Target(u))
      BY <1>1, <1>2, <2>2 DEF SetWritten
    <3> QED BY <3>1
  <2> QED BY <1>12, <2>1, <2>2
<1> QED BY <1>16, <1>17, <1>18 DEF SetMemory

LEMMA SetMemoryNext ==
  ASSUME Scheduled, SetMemory, [ScanNext]_scanVars
  PROVE  SetMemory'
<1> SUFFICES ASSUME IsSet(scanCall)' PROVE SetMemory'
  BY DEF SetMemory
<1>1. scanCall' = scanCall
  BY DEF ScanNext, Serially, Begin, ApexCall, ScanReturns, Finish, ReduceBlock, ScanBlock, CopyRange, scanVars
<1>3. IsSet(scanCall) /\ N1' = N1 /\ N2' = N2 /\ plan' = plan
  BY <1>1, SameCall DEF IsSet
<1>4. SetFrame /\ SetBuffer /\ SetWritten /\ SetRaw /\ IsMemory(memory)
  BY <1>3 DEF Scheduled, SetMemory
<1>5. ASSUME UNCHANGED <<memory, copies, sums, scanned, total, scanN>>, scanPc' = scanPc \/ (scanPc = "join" /\ scanPc' = "done")
      PROVE  SetMemory'
  <2>1. \A d : Moved(d)' = Moved(d)
    BY <1>1, <1>5 DEF Moved, Scanning
  <2> QED BY <1>1, <1>3, <1>5, <2>1, SetStays
<1>2. ASSUME Moving PROVE SetMemory'
  <2>1. CASE NothingMoves
    BY <1>2, <1>3, <2>1, SetStays DEF Moving, NothingMoves
  <2>2. ASSUME NEW b \in sums, Moves(b) PROVE SetMemory'
    BY <1>2, <1>3, <2>2, SetMoves DEF Moving, Moves
  <2> QED BY <1>2, <2>1, <2>2 DEF Moving
<1>6. CASE Serially
  <2> DEFINE out == Put(memory.out, 0, Results(TRUE))
             out2 == IF scanCall.alg = "partition_copy" THEN Put(memory.out2, 0, Results(FALSE)) ELSE memory.out2
  <2>1. ~Removes
    BY <1>3 DEF Mask!Removes, Removes, IsSet, Set!Algs
  <2>2. scanPc = "begin" /\ scanPc' = "done" /\ memory' = [memory EXCEPT !.out = out, !.out2 = out2]
    BY <1>6, <2>1 DEF Serially
  <2>3. DOMAIN out = DOMAIN memory.out
    BY PutStays
  <2> HIDE DEF out, out2
  <2>4. memory'.ok = memory.ok /\ memory'.buf = memory.buf /\ DOMAIN memory'.out = DOMAIN memory.out
    BY <1>4, <2>2, <2>3 DEF IsMemory
  <2>5. SetFrame' /\ SetRaw'
    BY <1>3, <1>4, <2>2, <2>4 DEF SetFrame, SetRaw
  <2>6. SetBuffer' /\ SetWritten'
    BY <2>2 DEF SetBuffer, SetWritten
  <2> QED BY <2>5, <2>6 DEF SetMemory
<1>7. CASE Begin
  BY <1>3, <1>7, SetBegun
<1>8. CASE ApexCall
  BY <1>2, <1>3, <1>8, ApexMoves
<1>9. CASE ScanReturns
  BY <1>3, <1>9, SetReturned
<1>10. CASE Finish
  <2>1. UNCHANGED <<memory, copies, sums, scanned, total, scanN>> /\ scanPc = "join" /\ scanPc' = "done"
    BY <1>10 DEF Finish, strictScan
  <2> QED BY <1>5, <2>1
<1>11. ASSUME NEW i \in 0..(scanN - 1), NEW len \in 1..(scanN - i), ReduceBlock(i, len)
       PROVE  SetMemory'
  BY <1>3, <1>11, SetReduced
<1>12. ASSUME NEW i \in 0..(scanN - 1), NEW len \in 1..(scanN - i), ScanBlock(i, len)
       PROVE  SetMemory'
  BY <1>2, <1>3, <1>12, ScanMoves
<1>13. ASSUME NEW t \in copies, CopyRange(t) PROVE SetMemory'
  BY <1>3, <1>13, SetCopied
<1>14. CASE UNCHANGED scanVars
  <2>1. UNCHANGED <<memory, copies, sums, scanned, total, scanN, scanPc>>
    BY <1>14 DEF scanVars, strictScan
  <2> QED BY <1>5, <2>1
<1> QED BY <1>6, <1>7, <1>8, <1>9, <1>10, <1>11, <1>12, <1>13, <1>14 DEF ScanNext

\* The functors of a strict scan use the memory as it may be used: raw memory of the
\* buffer is constructed in once and moved from once, and is raw when the call ends; a
\* slot of the output is written once; the mask is read after it is written. The blocks
\* that are reduced and scanned, which the functors of the set operations shift to the
\* ends of equal elements, take places of their own (algorithm_impl.h:1468, 3068-3112).
THEOREM LifetimesAreKept == ScanSpec => []LifetimesKept
<1> DEFINE Kept == Scheduled /\ MaskMemory /\ SetMemory
<1>1. ScanInit => Kept
  BY ScheduledInit, MaskMemoryInit, SetMemoryInit
<1>2. Kept /\ [ScanNext]_scanVars => Kept'
  <2> SUFFICES ASSUME Kept, [ScanNext]_scanVars PROVE Kept'
    OBVIOUS
  <2>1. Scheduled'
    BY ScheduledNext
  <2>2. MaskMemory'
    BY MaskMemoryNext
  <2>3. SetMemory'
    BY SetMemoryNext
  <2> QED BY <2>1, <2>2, <2>3
<1>3. Kept => LifetimesKept
  <2>1. CASE IsSet(scanCall)
    BY <2>1 DEF SetMemory, SetFrame, SetRaw, LifetimesKept
  <2>2. CASE ~IsSet(scanCall)
    BY <2>2 DEF MaskMemory, MaskFrame, MaskRaw, LifetimesKept
  <2> QED BY <2>1, <2>2
<1> QED BY <1>1, <1>2, <1>3, PTL DEF ScanSpec
-------------------------------------------------------------------------------
(* What a masked copy leaves. Ranks from the beginning of the range tell where an *)
(* element ends up: those that precede the scanned part are all kept.            *)
Whole(mark) == Count(scanCall, 0, Size(scanCall), mark)

\* The elements with the mark that have been copied are where their ranks say.
InPlace(mem, mark) ==
  \A k \in Base..(Size(scanCall) - 1) : Copied(k) /\ MarkOf(scanCall, k) = mark => mem[Rank(k, mark)] = <<1, k>>

\* A memory of slots written at most by the elements with the mark.
IsOutput(mem, mark) ==
  /\ mem = [x \in 0..(Size(scanCall) - 1) |-> mem[x]]
  /\ InPlace(mem, mark)
  /\ \A x \in 0..(Size(scanCall) - 1) : mem[x] # NotWritten => Taken(x, mark)

\* The elements that __remove_elements keeps are in the range, in the buffer or back.
RemovesInPlace ==
  /\ \A k \in 0..(Base - 1) : memory.src[k] = <<1, k>>
  /\ scanPc # "join" => InPlace(memory.buf, "yes")
  /\ scanPc = "join" =>
       \A k \in Base..(Size(scanCall) - 1) :
         MarkOf(scanCall, k) = "yes" =>
           IF Back(Rank(k, "yes")) \in copies THEN memory.buf[Rank(k, "yes")] = <<1, k>>
           ELSE memory.src[Base + Rank(k, "yes")] = <<1, k>>

CopiesInPlace ==
  scanPc # "done" =>
    /\ Removes => RemovesInPlace
    /\ ~Removes => IsOutput(memory.out, "yes") /\ \A k \in DOMAIN memory.src : memory.src[k] = <<1, k>>
    /\ scanCall.alg = "partition_copy" => IsOutput(memory.out2, "no")
    /\ scanPc = "join" => \A k \in Base..(Size(scanCall) - 1) : Copied(k)

\* A memory that begins with the elements with the mark, in order, and holds no more.
Holds(mem, mark) ==
  /\ mem = [x \in 0..(Size(scanCall) - 1) |-> mem[x]]
  /\ \A k \in 0..(Size(scanCall) - 1) : MarkOf(scanCall, k) = mark => mem[Count(scanCall, 0, k, mark)] = <<1, k>>
  /\ \A x \in Whole(mark)..(Size(scanCall) - 1) : mem[x] = NotWritten

MaskResult ==
  scanPc = "done" =>
    /\ scanAnswer = {Whole("yes")}
    /\ Removes => \A k \in 0..(Size(scanCall) - 1) :
                    MarkOf(scanCall, k) = "yes" => memory.src[Count(scanCall, 0, k, "yes")] = <<1, k>>
    /\ ~Removes => Holds(memory.out, "yes")
    /\ scanCall.alg = "partition_copy" => Holds(memory.out2, "no")

MaskRight == ~IsSet(scanCall) => CopiesInPlace /\ MaskResult

LEMMA MaskPlaces ==
  ASSUME Scheduled, ~IsSet(scanCall)
  PROVE  /\ scanN \in Nat /\ Base \in Nat /\ Size(scanCall) \in Nat /\ Base <= Size(scanCall)
         /\ scanN > 0 => Base + scanN = Size(scanCall)
         /\ ~IsSerial => Base + scanN = Size(scanCall)
         /\ ~Removes => Base = 0
         /\ FormedMask(scanCall, Size(scanCall))
         /\ \A mark : Whole(mark) \in Nat
         /\ \A k \in Nat : \A mark : Rank(k, mark) \in Nat
         /\ \A k \in 0..Base : Removes => Count(scanCall, 0, k, "yes") = k
         /\ \A k \in 0..(Base - 1) : MarkOf(scanCall, k) = "yes"
         /\ \A k \in Nat : \A mark : Base <= k /\ (Removes => mark = "yes") =>
               Count(scanCall, 0, k, mark) = Base + Rank(k, mark)
         /\ \A k, l \in Base..(Size(scanCall) - 1) : \A mark :
               MarkOf(scanCall, k) = mark /\ MarkOf(scanCall, l) = mark /\ Rank(k, mark) = Rank(l, mark) => k = l
<1>1. /\ scanN \in Nat /\ Base \in Nat /\ Size(scanCall) \in Nat /\ Base + scanN <= Size(scanCall)
      /\ scanN > 0 => Base + scanN = Size(scanCall)
      /\ ~IsSerial => Base + scanN = Size(scanCall)
  BY ScanLengths DEF Scheduled
<1>2. FormedMask(scanCall, Size(scanCall))
  BY DEF Scheduled, FormedScan
<1>3. /\ ~Removes => Base = 0
      /\ Removes => \A l \in 0..(Base - 1) : Mask!Keeps(scanCall, l)
  BY <1>2, MaskBegin DEF Removes, Base
<1>4. \A k \in 0..(Base - 1) : MarkOf(scanCall, k) = "yes"
  BY <1>1, <1>3 DEF MarkOf
<1>5. ASSUME NEW k \in 0..Base PROVE Count(scanCall, 0, k, "yes") = k
  <2>1. Mine(scanCall, 0, k, "yes") = 0..(k - 1)
    <3>1. \A l \in 0..(k - 1) : l \in 0..(Base - 1)
      BY <1>1
    <3> QED BY <1>4, <3>1 DEF Mine
  <2>2. Cardinality(0..(k - 1)) = k
    BY <1>1, FS_Interval
  <2> QED BY <2>1, <2>2 DEF Count
<1>6. \A k \in Nat : \A mark : Rank(k, mark) \in Nat
  BY <1>1, Counted DEF Rank
<1>7. \A mark : Whole(mark) \in Nat
  BY <1>1, Counted DEF Whole
<1>8. ASSUME NEW k \in Nat, NEW mark, Base <= k, Removes => mark = "yes"
      PROVE  Count(scanCall, 0, k, mark) = Base + Rank(k, mark)
  <2>1. Count(scanCall, 0, k, mark) = Count(scanCall, 0, Base, mark) + Rank(k, mark)
    BY <1>1, <1>8, CountsAdd DEF Rank
  <2>2. Count(scanCall, 0, Base, mark) = Base
    <3>1. CASE Removes
      BY <1>1, <1>5, <1>8, <3>1
    <3>2. CASE ~Removes
      BY <1>3, <3>2, CountOfNone
    <3> QED BY <3>1, <3>2
  <2> QED BY <2>1, <2>2
<1>9. ASSUME NEW k \in Base..(Size(scanCall) - 1), NEW l \in Base..(Size(scanCall) - 1), NEW mark,
             MarkOf(scanCall, k) = mark, MarkOf(scanCall, l) = mark, Rank(k, mark) = Rank(l, mark)
      PROVE  k = l
  <2>1. \A p, q \in Base..(Size(scanCall) - 1) : p < q /\ MarkOf(scanCall, p) = mark => Rank(p, mark) < Rank(q, mark)
    BY <1>1, RanksDiffer DEF Rank
  <2>2. Rank(k, mark) \in Nat /\ k \in Nat /\ l \in Nat
    BY <1>1, <1>6
  <2> QED BY <1>9, <2>1, <2>2
<1> QED BY <1>1, <1>2, <1>3, <1>4, <1>5, <1>6, <1>7, <1>8, <1>9

\* As many pairs as places.
LEMMA PairsOf ==
  ASSUME NEW S, IsFiniteSet(S)
  PROVE  Cardinality({<<1, k>> : k \in S}) = Cardinality(S)
<1> DEFINE T == {<<1, k>> : k \in S}
           f == [k \in S |-> <<1, k>>]
<1>1. f \in [S -> T] /\ \A k, l \in S : f[k] = f[l] => k = l
  OBVIOUS
<1>2. \A t \in T : \E k \in S : f[k] = t
  OBVIOUS
<1> HIDE DEF f, T
<1>3. f \in Injection(S, T) /\ f \in Surjection(S, T)
  BY <1>1, <1>2 DEF Injection, IsInjective, Surjection
<1>4. ExistsBijection(S, T)
  BY <1>3 DEF ExistsBijection, Bijection
<1> QED BY <1>4, FS_Bijection DEF T

(* The elements std's algorithm keeps, and those it does not, are the marked ones, *)
(* and the rank of an element is its place among them.                             *)
MarkFor(yes) == IF yes THEN "yes" ELSE "no"

LEMMA ChosenAre ==
  ASSUME NEW c, NEW m, FormedMask(c, m), NEW yes \in BOOLEAN
  PROVE  Mask!Chosen(c, yes) = {<<1, k>> : k \in Mine(c, 0, m, MarkFor(yes))}
<1> DEFINE FirstOfRun(k) == \A l \in DOMAIN c.keys : l + 1 = k => c.keys[l] # c.keys[k]
           Stays(k) == CASE c.alg = "remove_if" -> c.keys[k] = 2
                         [] c.alg \in {"unique", "unique_copy"} -> FirstOfRun(k)
                         [] OTHER -> c.keys[k] = 1
<1>1. m \in Nat /\ DOMAIN c.keys = 0..(m - 1) /\ \A k \in 0..(m - 1) : c.keys[k] \in {1, 2}
  BY DEF FormedMask
<1>2. ASSUME NEW k \in 0..(m - 1) PROVE Stays(k) <=> Mask!Keeps(c, k)
  <2>1. FirstOfRun(k) <=> (k > 0 => c.keys[k] # c.keys[k - 1])
    <3>1. CASE k > 0
      <4>1. k - 1 \in 0..(m - 1) /\ \A l \in 0..(m - 1) : l + 1 = k <=> l = k - 1
        BY <1>1, <3>1
      <4> QED BY <1>1, <3>1, <4>1
    <3>2. CASE ~(k > 0)
      <4>1. \A l \in 0..(m - 1) : l + 1 # k
        BY <1>1, <3>2
      <4> QED BY <1>1, <3>2, <4>1
    <3> QED BY <3>1, <3>2
  <2> HIDE DEF FirstOfRun
  <2>2. c.alg \in {"copy_if", "partition_copy", "unique_copy", "remove_if", "unique"}
    BY DEF FormedMask, Mask!Algs
  <2>3. CASE c.alg \in {"copy_if", "partition_copy"}
    BY <2>3 DEF Mask!Keeps
  <2>4. CASE c.alg = "remove_if"
    BY <1>1, <2>4 DEF Mask!Keeps
  <2>5. CASE c.alg \in {"unique", "unique_copy"}
    <3>1. Stays(k) <=> FirstOfRun(k)
      BY <2>5
    <3>2. Mask!Keeps(c, k) <=> (k > 0 => c.keys[k] # c.keys[k - 1])
      BY <2>5 DEF Mask!Keeps
    <3> QED BY <2>1, <3>1, <3>2
  <2> QED BY <2>2, <2>3, <2>4, <2>5
<1>3. Mask!Chosen(c, yes) = {<<1, k>> : k \in {l \in DOMAIN c.keys : Stays(l) = yes}}
  BY Zenon DEF Mask!Chosen
<1> HIDE DEF Stays
<1>4. {l \in DOMAIN c.keys : Stays(l) = yes} = Mine(c, 0, m, MarkFor(yes))
  <2>1. \A l \in 0..(m - 1) : Stays(l) = yes <=> MarkOf(c, l) = MarkFor(yes)
    <3> SUFFICES ASSUME NEW l \in 0..(m - 1) PROVE Stays(l) = yes <=> MarkOf(c, l) = MarkFor(yes)
      OBVIOUS
    <3>1. CASE yes
      <4>1. (Stays(l) = yes) <=> Mask!Keeps(c, l)
        <5>1. Stays(l) \in BOOLEAN
          BY DEF Stays
        <5> QED BY <1>2, <3>1, <5>1
      <4> QED BY <3>1, <4>1 DEF MarkOf, MarkFor
    <3>2. CASE ~yes
      <4>1. (Stays(l) = yes) <=> ~Mask!Keeps(c, l)
        <5>1. Stays(l) \in BOOLEAN
          BY DEF Stays
        <5> QED BY <1>2, <3>2, <5>1
      <4> QED BY <3>2, <4>1 DEF MarkOf, MarkFor
    <3> QED BY <3>1, <3>2
  <2> QED BY <1>1, <2>1 DEF Mine
<1> QED BY <1>3, <1>4

LEMMA NthAre ==
  ASSUME NEW c, NEW m, FormedMask(c, m), NEW yes \in BOOLEAN
  PROVE  /\ Cardinality(Mask!Chosen(c, yes)) = Count(c, 0, m, MarkFor(yes))
         /\ \A k \in 0..(m - 1) : MarkOf(c, k) = MarkFor(yes) =>
              Mask!Nth(c, yes, Count(c, 0, k, MarkFor(yes))) = <<1, k>>
<1> DEFINE mark == MarkFor(yes)
           S == Mask!Chosen(c, yes)
<1>1. m \in Nat
  BY DEF FormedMask
<1>2. S = {<<1, k>> : k \in Mine(c, 0, m, mark)}
  BY ChosenAre
<1> HIDE DEF S, mark
<1>3. Cardinality(S) = Count(c, 0, m, mark)
  <2>1. IsFiniteSet(Mine(c, 0, m, mark))
    BY <1>1, Counted
  <2> QED BY <1>2, <2>1, PairsOf DEF Count
<1>4. ASSUME NEW k \in 0..(m - 1) PROVE Cardinality({u \in S : u[2] < k}) = Count(c, 0, k, mark)
  <2>1. {u \in S : u[2] < k} = {<<1, l>> : l \in Mine(c, 0, k, mark)}
    <3>1. \A l : l \in Mine(c, 0, k, mark) <=> l \in Mine(c, 0, m, mark) /\ l < k
      BY <1>1 DEF Mine
    <3> QED BY <1>2, <3>1
  <2>2. IsFiniteSet(Mine(c, 0, k, mark))
    BY <1>1, Counted
  <2> QED BY <2>1, <2>2, PairsOf DEF Count
<1>5. ASSUME NEW k \in 0..(m - 1), MarkOf(c, k) = mark
      PROVE  Mask!Nth(c, yes, Count(c, 0, k, mark)) = <<1, k>>
  <2> DEFINE q == Count(c, 0, k, mark)
             Fits(t) == Cardinality({u \in S : u[2] < t[2]}) = q
  <2>1. Mask!Nth(c, yes, q) = CHOOSE t \in S : Fits(t)
    BY SetCardinality, Zenon DEF Mask!Nth, S
  <2>2. <<1, k>> \in S /\ <<1, k>>[2] = k
    <3>1. k \in Mine(c, 0, m, mark)
      BY <1>5 DEF Mine
    <3> QED BY <1>2, <3>1
  <2>3. Fits(<<1, k>>)
    BY <1>4, <2>2
  <2>4. ASSUME NEW t \in S, Fits(t) PROVE t = <<1, k>>
    <3>1. PICK l \in Mine(c, 0, m, mark) : t = <<1, l>>
      BY <1>2
    <3>2. t[2] = l /\ l \in 0..(m - 1) /\ MarkOf(c, l) = mark
      BY <3>1 DEF Mine
    <3>3. Count(c, 0, l, mark) = q
      BY <1>4, <2>4, <3>2
    <3>4. l \in Nat /\ k \in Nat /\ 0 \in Nat /\ q \in Nat
      BY <1>1, <3>2, Counted
    <3>5. ~(l < k)
      <4>1. l < k => Count(c, 0, l, mark) < q
        BY <3>2, <3>4, RanksDiffer
      <4> QED BY <3>3, <3>4, <4>1
    <3>6. ~(k < l)
      <4>1. k < l => q < Count(c, 0, l, mark)
        BY <1>5, <3>4, RanksDiffer
      <4> QED BY <3>3, <3>4, <4>1
    <3> QED BY <3>1, <3>4, <3>5, <3>6
  <2> HIDE DEF q, Fits
  <2>5. (CHOOSE t \in S : Fits(t)) = <<1, k>>
    BY <2>2, <2>3, <2>4
  <2> QED BY <2>1, <2>5 DEF q
<1> QED BY <1>3, <1>5 DEF S, mark

LEMMA ResultsAre ==
  ASSUME Scheduled, ~IsSet(scanCall), NEW yes \in BOOLEAN
  PROVE  /\ Len(Results(yes)) = Whole(MarkFor(yes))
         /\ Whole(MarkFor(yes)) \in 0..Size(scanCall)
         /\ \A k \in 0..(Size(scanCall) - 1) : MarkOf(scanCall, k) = MarkFor(yes) =>
              /\ Count(scanCall, 0, k, MarkFor(yes)) \in 0..(Whole(MarkFor(yes)) - 1)
              /\ Results(yes)[Count(scanCall, 0, k, MarkFor(yes)) + 1] = <<1, k>>
         /\ \A x \in 1..Whole(MarkFor(yes)) : \E k \in 0..(Size(scanCall) - 1) :
              MarkOf(scanCall, k) = MarkFor(yes) /\ Count(scanCall, 0, k, MarkFor(yes)) = x - 1 /\ Results(yes)[x] = <<1, k>>
<1> DEFINE mark == MarkFor(yes)
           n == Whole(mark)
           m == Size(scanCall)
<1>1. m \in Nat /\ FormedMask(scanCall, m)
  BY MaskPlaces
<1>2. n \in Nat /\ n <= m
  <2>1. Count(scanCall, 0, m, mark) \in Nat /\ Count(scanCall, 0, m, mark) <= m - 0
    BY <1>1, CountBound
  <2> QED BY <1>1, <2>1 DEF Whole
<1>3. Results(yes) = [k \in 1..n |-> Mask!Nth(scanCall, yes, k - 1)]
  <2>1. Cardinality(Mask!Chosen(scanCall, yes)) = n
    BY <1>1, NthAre DEF Whole
  <2> HIDE DEF n
  <2> QED BY <2>1 DEF Results
<1> HIDE DEF n, mark, m
<1>4. Len(Results(yes)) = n
  BY <1>2, <1>3
<1>5. ASSUME NEW k \in 0..(m - 1), MarkOf(scanCall, k) = mark
      PROVE  /\ Count(scanCall, 0, k, mark) \in 0..(n - 1)
             /\ Results(yes)[Count(scanCall, 0, k, mark) + 1] = <<1, k>>
  <2>1. Count(scanCall, 0, k, mark) \in Nat /\ Count(scanCall, 0, k, mark) < n
    <3>1. Count(scanCall, 0, k, mark) < Count(scanCall, 0, m, mark)
      BY <1>1, <1>5, RanksDiffer
    <3> QED BY <1>1, <3>1, Counted DEF n, Whole, m
  <2>2. Mask!Nth(scanCall, yes, Count(scanCall, 0, k, mark)) = <<1, k>>
    BY <1>1, <1>5, NthAre DEF mark
  <2> DEFINE q == Count(scanCall, 0, k, mark)
  <2>3. q \in 0..(n - 1) /\ q + 1 \in 1..n /\ (q + 1) - 1 = q
    BY <1>2, <2>1
  <2> HIDE DEF q
  <2>4. Results(yes)[q + 1] = Mask!Nth(scanCall, yes, q)
    BY <1>3, <2>3
  <2> QED BY <2>2, <2>3, <2>4 DEF q
<1>6. ASSUME NEW x \in 1..n
      PROVE  \E k \in 0..(m - 1) : MarkOf(scanCall, k) = mark /\ Count(scanCall, 0, k, mark) = x - 1 /\ Results(yes)[x] = <<1, k>>
  <2>1. x - 1 \in 0..(Count(scanCall, 0, m, mark) - 1) /\ (x - 1) + 1 = x
    BY <1>2 DEF n, Whole, m
  <2>2. PICK k \in 0..(m - 1) : MarkOf(scanCall, k) = mark /\ Count(scanCall, 0, k, mark) = x - 1
    BY <1>1, <2>1, EachRankOnce
  <2> QED BY <1>5, <2>1, <2>2
<1> QED BY <1>1, <1>2, <1>4, <1>5, <1>6 DEF n, mark, m

LEMMA SameMarks ==
  ASSUME scanCall' = scanCall
  PROVE  /\ Base' = Base /\ Size(scanCall)' = Size(scanCall) /\ Removes' = Removes /\ IsSet(scanCall)' = IsSet(scanCall)
         /\ \A k : MarkOf(scanCall, k)' = MarkOf(scanCall, k)
         /\ \A k, mark : Rank(k, mark)' = Rank(k, mark)
         /\ \A k, mark : Count(scanCall, 0, k, mark)' = Count(scanCall, 0, k, mark)
         /\ \A mark : Whole(mark)' = Whole(mark)
         /\ \A x : Back(x)' = Back(x)
<1>1. Base' = Base /\ Size(scanCall)' = Size(scanCall) /\ Removes' = Removes /\ IsSet(scanCall)' = IsSet(scanCall)
      /\ \A k : MarkOf(scanCall, k)' = MarkOf(scanCall, k)
  BY SameCall DEF MarkOf, IsSet
<1>2. \A k, mark : Rank(k, mark)' = Rank(k, mark)
  BY <1>1 DEF Rank
<1>3. \A k, mark : Count(scanCall, 0, k, mark)' = Count(scanCall, 0, k, mark)
  OBVIOUS
<1>4. \A mark : Whole(mark)' = Whole(mark)
  BY <1>1, <1>3 DEF Whole
<1> QED BY <1>1, <1>2, <1>3, <1>4 DEF Back

\* A finished call that left what it should is correct.
LEMMA ResultGives ==
  ASSUME Scheduled, MaskMemory, ~IsSet(scanCall), MaskResult
  PROVE  ScanIsCorrect
<1> SUFFICES ASSUME scanPc = "done" PROVE ScanIsCorrect
  BY DEF ScanIsCorrect
<1> DEFINE kept == Results(TRUE)
           others == Results(FALSE)
           m == Size(scanCall)
<1>1. scanCall.alg # "intersection"
  BY DEF IsSet, Set!Algs
<1>2. m \in Nat /\ DOMAIN memory.out = 0..(m - 1) /\ DOMAIN memory.out2 = 0..(m - 1)
  BY MaskPlaces DEF MaskMemory, MaskFrame
<1>3. /\ scanAnswer = {Whole("yes")}
      /\ Removes => \A k \in 0..(m - 1) : MarkOf(scanCall, k) = "yes" => memory.src[Count(scanCall, 0, k, "yes")] = <<1, k>>
      /\ ~Removes => Holds(memory.out, "yes")
      /\ scanCall.alg = "partition_copy" => Holds(memory.out2, "no")
  BY DEF MaskResult
<1>4. MarkFor(TRUE) = "yes" /\ MarkFor(FALSE) = "no"
  BY DEF MarkFor
<1>5. /\ Len(kept) = Whole("yes") /\ Whole("yes") \in 0..m
      /\ \A x \in 1..Whole("yes") : \E k \in 0..(m - 1) :
              MarkOf(scanCall, k) = "yes" /\ Count(scanCall, 0, k, "yes") = x - 1 /\ kept[x] = <<1, k>>
  <2>1. TRUE \in BOOLEAN
    OBVIOUS
  <2> QED BY <1>4, <2>1, ResultsAre
<1>6. /\ Len(others) = Whole("no") /\ Whole("no") \in 0..m
      /\ \A x \in 1..Whole("no") : \E k \in 0..(m - 1) :
              MarkOf(scanCall, k) = "no" /\ Count(scanCall, 0, k, "no") = x - 1 /\ others[x] = <<1, k>>
  <2>1. FALSE \in BOOLEAN
    OBVIOUS
  <2> QED BY <1>4, <2>1, ResultsAre
<1> HIDE DEF kept, others, m
<1>7. scanAnswer = {Len(kept)}
  BY <1>3, <1>5
<1>8. Removes => \A k \in 1..Len(kept) : memory.src[k - 1] = kept[k]
  <2> SUFFICES ASSUME Removes, NEW x \in 1..Whole("yes") PROVE memory.src[x - 1] = kept[x]
    BY <1>5
  <2>1. PICK k \in 0..(m - 1) : MarkOf(scanCall, k) = "yes" /\ Count(scanCall, 0, k, "yes") = x - 1 /\ kept[x] = <<1, k>>
    BY <1>5
  <2>2. memory.src[Count(scanCall, 0, k, "yes")] = <<1, k>>
    BY <1>3, <2>1
  <2> QED BY <2>1, <2>2
<1>9. ~Removes => /\ \A k \in 1..Len(kept) : memory.out[k - 1] # NotWritten /\ memory.out[k - 1] = kept[k]
                  /\ AllAre(memory.out, Len(kept), m - Len(kept), NotWritten)
  <2> SUFFICES ASSUME ~Removes
               PROVE  /\ \A x \in 1..Whole("yes") : memory.out[x - 1] # NotWritten /\ memory.out[x - 1] = kept[x]
                      /\ AllAre(memory.out, Whole("yes"), m - Whole("yes"), NotWritten)
    BY <1>5
  <2>1. Holds(memory.out, "yes")
    BY <1>3
  <2>2. ASSUME NEW x \in 1..Whole("yes") PROVE memory.out[x - 1] # NotWritten /\ memory.out[x - 1] = kept[x]
    <3>1. PICK k \in 0..(m - 1) : MarkOf(scanCall, k) = "yes" /\ Count(scanCall, 0, k, "yes") = x - 1 /\ kept[x] = <<1, k>>
      BY <1>5
    <3>2. memory.out[Count(scanCall, 0, k, "yes")] = <<1, k>>
      BY <2>1, <3>1 DEF Holds, m
    <3>3. <<1, k>> # NotWritten
      BY DEF NotWritten
    <3> QED BY <3>1, <3>2, <3>3
  <2>3. \A x \in Whole("yes")..(m - 1) : memory.out[x] = NotWritten
    BY <2>1 DEF Holds, m
  <2>4. Whole("yes") \in Nat /\ \A x \in Whole("yes")..(Whole("yes") + (m - Whole("yes")) - 1) : x \in Whole("yes")..(m - 1) /\ x \in 0..(m - 1)
    <3> DEFINE w == Whole("yes")
    <3>1. w \in 0..m
      BY <1>5
    <3> HIDE DEF w
    <3>2. w \in Nat /\ \A x \in w..(w + (m - w) - 1) : x \in w..(m - 1) /\ x \in 0..(m - 1)
      BY <1>2, <3>1
    <3> QED BY <3>2 DEF w
  <2>5. AllAre(memory.out, Whole("yes"), m - Whole("yes"), NotWritten)
    BY <1>2, <2>3, <2>4 DEF AllAre
  <2> QED BY <2>2, <2>5
<1>10. scanCall.alg = "partition_copy" => memory.out2 = Put(Fill(m, NotWritten), 0, others)
  <2> SUFFICES ASSUME scanCall.alg = "partition_copy" PROVE memory.out2 = Put(Fill(m, NotWritten), 0, others)
    OBVIOUS
  <2> DEFINE f == Put(Fill(m, NotWritten), 0, others)
             w == Whole("no")
  <2>1. Holds(memory.out2, "no")
    BY <1>3
  <2>2. memory.out2 = [x \in 0..(m - 1) |-> memory.out2[x]]
    BY <2>1 DEF Holds, m
  <2>3. f = [x \in 0..(m - 1) |-> IF x \in 0..(w - 1) THEN others[x + 1] ELSE NotWritten]
    <3>1. w \in Nat /\ Len(others) = w
      BY <1>2, <1>6
    <3> HIDE DEF w
    <3>2. 0..(0 + Len(others) - 1) = 0..(w - 1)
      BY <3>1
    <3>3. \A x \in 0..(w - 1) : x - 0 + 1 = x + 1
      BY <3>1
    <3>4. Fill(m, NotWritten) = [x \in 0..(m - 1) |-> NotWritten]
      BY DEF Fill
    <3>5. f = [x \in 0..(m - 1) |-> IF x \in 0..(w - 1) THEN others[x - 0 + 1] ELSE NotWritten]
      BY <3>2, <3>4 DEF Put
    <3> QED BY <3>3, <3>5
  <2>4. ASSUME NEW x \in 0..(m - 1) PROVE memory.out2[x] = IF x \in 0..(w - 1) THEN others[x + 1] ELSE NotWritten
    <3>1. CASE x \in 0..(w - 1)
      <4>1. x + 1 \in 1..w /\ (x + 1) - 1 = x
        BY <1>2, <1>6, <3>1
      <4>2. PICK k \in 0..(m - 1) : MarkOf(scanCall, k) = "no" /\ Count(scanCall, 0, k, "no") = (x + 1) - 1 /\ others[x + 1] = <<1, k>>
        BY <1>6, <4>1
      <4>3. memory.out2[Count(scanCall, 0, k, "no")] = <<1, k>>
        BY <2>1, <4>2 DEF Holds, m
      <4> QED BY <3>1, <4>1, <4>2, <4>3
    <3>2. CASE x \notin 0..(w - 1)
      <4>1. x \in w..(m - 1)
        BY <1>2, <1>6, <3>2
      <4> QED BY <2>1, <3>2, <4>1 DEF Holds, m
    <3> QED BY <3>1, <3>2
  <2> HIDE DEF f, w
  <2>5. memory.out2 = f
    BY <2>2, <2>3, <2>4
  <2> QED BY <2>5 DEF f
<1> QED BY <1>1, <1>7, <1>8, <1>9, <1>10 DEF ScanIsCorrect, kept, others, m

\* Before the scan nothing has been copied.
LEMMA NothingCopied ==
  ASSUME Scheduled, scanPc = "begin"
  PROVE  /\ \A k : ~Copied(k)
         /\ \A x, mark : ~Taken(x, mark)
<1>1. \A k : ~Copied(k)
  BY DEF Scheduled, Phases, Copied
<1> QED BY <1>1 DEF Taken

LEMMA MaskRightInit == ScanInit => MaskRight
<1> SUFFICES ASSUME ScanInit, ~IsSet(scanCall) PROVE CopiesInPlace /\ MaskResult
  BY DEF MaskRight
<1>1. /\ memory = [mask |-> Fill(Size(scanCall), "unset"), src |-> [k \in 0..(Size(scanCall) - 1) |-> <<1, k>>], buf |-> <<>>,
                   out |-> Fill(Size(scanCall), NotWritten), out2 |-> Fill(Size(scanCall), NotWritten), ok |-> TRUE]
      /\ scanPc = "begin"
  BY DEF ScanInit
<1>2. /\ memory.src = [k \in 0..(Size(scanCall) - 1) |-> <<1, k>>]
      /\ memory.out = [x \in 0..(Size(scanCall) - 1) |-> NotWritten]
      /\ memory.out2 = [x \in 0..(Size(scanCall) - 1) |-> NotWritten]
  BY <1>1 DEF Fill
<1>3. Scheduled
  BY ScheduledInit
<1>4. \A k : ~Copied(k)
  BY <1>1, <1>3, NothingCopied
<1>5. IsOutput(memory.out, "yes") /\ IsOutput(memory.out2, "no")
  BY <1>2, <1>4 DEF IsOutput, InPlace
<1>6. Removes => RemovesInPlace
  <2> SUFFICES ASSUME Removes PROVE RemovesInPlace
    OBVIOUS
  <2>1. Base \in Nat /\ Size(scanCall) \in Nat /\ Base <= Size(scanCall)
    BY <1>3, MaskPlaces
  <2>2. \A k \in 0..(Base - 1) : k \in 0..(Size(scanCall) - 1)
    BY <2>1
  <2> QED BY <1>1, <1>2, <1>4, <2>2 DEF RemovesInPlace, InPlace
<1> QED BY <1>1, <1>2, <1>5, <1>6 DEF CopiesInPlace, MaskResult

\* A step that leaves the elements and what has been copied leaves all this true.
LEMMA CopiesStay ==
  ASSUME MaskRight, ~IsSet(scanCall), UNCHANGED <<scanCall, scanPc, scanAnswer, copies>>,
         memory'.src = memory.src, memory'.buf = memory.buf, memory'.out = memory.out, memory'.out2 = memory.out2,
         \A k : Copied(k)' = Copied(k)
  PROVE  MaskRight'
<1>1. CopiesInPlace /\ MaskResult
  BY DEF MaskRight
<1>2. /\ Base' = Base /\ Size(scanCall)' = Size(scanCall) /\ Removes' = Removes
      /\ \A k : MarkOf(scanCall, k)' = MarkOf(scanCall, k)
      /\ \A k, mark : Rank(k, mark)' = Rank(k, mark)
      /\ \A k, mark : Count(scanCall, 0, k, mark)' = Count(scanCall, 0, k, mark)
      /\ \A mark : Whole(mark)' = Whole(mark)
      /\ \A x : Back(x)' = Back(x)
  BY SameMarks
<1>3. \A x, mark : Taken(x, mark)' = Taken(x, mark)
  BY <1>2 DEF Taken
<1>4. /\ InPlace(memory.buf, "yes")' <=> InPlace(memory.buf, "yes")
      /\ InPlace(memory.out, "yes")' <=> InPlace(memory.out, "yes")
      /\ InPlace(memory.out2, "no")' <=> InPlace(memory.out2, "no")
  BY <1>2 DEF InPlace
<1>5. /\ IsOutput(memory.out, "yes")' <=> IsOutput(memory.out, "yes")
      /\ IsOutput(memory.out2, "no")' <=> IsOutput(memory.out2, "no")
  BY <1>2, <1>3, <1>4 DEF IsOutput
<1>6. RemovesInPlace' <=> RemovesInPlace
  BY <1>2, <1>4 DEF RemovesInPlace
<1>7. CopiesInPlace'
  BY <1>1, <1>2, <1>5, <1>6 DEF CopiesInPlace
<1>8. /\ Holds(memory.out, "yes")' <=> Holds(memory.out, "yes")
      /\ Holds(memory.out2, "no")' <=> Holds(memory.out2, "no")
  BY <1>2 DEF Holds
<1>9. MaskResult'
  BY <1>1, <1>2, <1>8 DEF MaskResult
<1> QED BY <1>7, <1>9 DEF MaskRight

\* The memory that gets the elements with the mark begins with them.
LEMMA PutResults ==
  ASSUME Scheduled, ~IsSet(scanCall), NEW yes \in BOOLEAN, NEW mem, DOMAIN mem = 0..(Size(scanCall) - 1)
  PROVE  LET f == Put(mem, 0, Results(yes))
         IN  /\ \A k \in 0..(Size(scanCall) - 1) :
                  MarkOf(scanCall, k) = MarkFor(yes) => f[Count(scanCall, 0, k, MarkFor(yes))] = <<1, k>>
             /\ (\A x \in 0..(Size(scanCall) - 1) : mem[x] = NotWritten) => Holds(f, MarkFor(yes))
<1> DEFINE f == Put(mem, 0, Results(yes))
           res == Results(yes)
           mark == MarkFor(yes)
           w == Whole(mark)
           m == Size(scanCall)
<1>1. /\ Len(res) = w /\ w \in 0..m
      /\ \A k \in 0..(m - 1) : MarkOf(scanCall, k) = mark =>
              Count(scanCall, 0, k, mark) \in 0..(w - 1) /\ res[Count(scanCall, 0, k, mark) + 1] = <<1, k>>
  BY ResultsAre
<1>2. m \in Nat
  BY MaskPlaces
<1> HIDE DEF w, mark, m
<1>3. f = [x \in 0..(m - 1) |-> IF x \in 0..(w - 1) THEN res[x + 1] ELSE mem[x]]
  <2> HIDE DEF res
  <2>1. 0..(0 + Len(res) - 1) = 0..(w - 1)
    BY <1>1, <1>2
  <2>2. \A x \in 0..(w - 1) : x - 0 + 1 = x + 1
    BY <1>1, <1>2
  <2>3. f = [x \in 0..(m - 1) |-> IF x \in 0..(w - 1) THEN res[x - 0 + 1] ELSE mem[x]]
    BY <2>1 DEF Put, res, m
  <2> QED BY <2>2, <2>3
<1> HIDE DEF f, res
<1>4. f = [x \in 0..(m - 1) |-> f[x]]
  BY <1>3
<1>5. ASSUME NEW k \in 0..(m - 1), MarkOf(scanCall, k) = mark PROVE f[Count(scanCall, 0, k, mark)] = <<1, k>>
  <2> DEFINE q == Count(scanCall, 0, k, mark)
  <2>1. q \in 0..(w - 1) /\ res[q + 1] = <<1, k>>
    BY <1>1, <1>5
  <2> HIDE DEF q
  <2>2. q \in 0..(m - 1)
    BY <1>1, <1>2, <2>1
  <2>3. f[q] = res[q + 1]
    BY <1>3, <2>1, <2>2
  <2> QED BY <2>1, <2>3 DEF q
<1>6. ASSUME NEW x \in w..(m - 1) PROVE f[x] = mem[x]
  <2>1. x \in 0..(m - 1) /\ x \notin 0..(w - 1)
    BY <1>1, <1>2
  <2> QED BY <1>3, <2>1
<1>7. ASSUME \A x \in 0..(m - 1) : mem[x] = NotWritten PROVE Holds(f, mark)
  <2>1. \A x \in w..(m - 1) : f[x] = NotWritten
    <3> SUFFICES ASSUME NEW x \in w..(m - 1) PROVE f[x] = NotWritten
      OBVIOUS
    <3>1. x \in 0..(m - 1)
      BY <1>1, <1>2
    <3> QED BY <1>6, <1>7, <3>1
  <2> QED BY <1>4, <1>5, <2>1 DEF Holds, m, w
<1> QED BY <1>5, <1>7 DEF f, res, mark, w, m

LEMMA MaskSerially ==
  ASSUME Scheduled, MaskMemory, MaskRight, ~IsSet(scanCall), Serially
  PROVE  MaskRight'
<1> DEFINE src == Put(memory.src, 0, Results(TRUE))
           out == Put(memory.out, 0, Results(TRUE))
           kept2 == Put(memory.out2, 0, Results(FALSE))
           out2 == IF scanCall.alg = "partition_copy" THEN kept2 ELSE memory.out2
           m == Size(scanCall)
<1>1. scanPc = "begin" /\ scanPc' = "done" /\ scanCall' = scanCall /\ scanAnswer' = {Len(Results(TRUE))}
      /\ memory' = IF Removes THEN [memory EXCEPT !.src = src] ELSE [memory EXCEPT !.out = out, !.out2 = out2]
  BY DEF Serially
<1>2. CopiesInPlace /\ MaskFrame /\ IsMemory(memory)
  BY DEF MaskRight, MaskMemory, Scheduled
<1>3. MarkFor(TRUE) = "yes" /\ MarkFor(FALSE) = "no" /\ TRUE \in BOOLEAN /\ FALSE \in BOOLEAN
  BY DEF MarkFor
<1>4. DOMAIN memory.src = 0..(m - 1) /\ DOMAIN memory.out = 0..(m - 1) /\ DOMAIN memory.out2 = 0..(m - 1)
  BY <1>2 DEF MaskFrame
<1>5. \A x, mark : ~Taken(x, mark)
  BY <1>1, NothingCopied
<1>6. /\ ~Removes => \A x \in 0..(m - 1) : memory.out[x] = NotWritten
      /\ scanCall.alg = "partition_copy" => \A x \in 0..(m - 1) : memory.out2[x] = NotWritten
  BY <1>1, <1>2, <1>5 DEF CopiesInPlace, IsOutput
<1>7. Len(Results(TRUE)) = Whole("yes") /\ Whole("yes") \in 0..m /\ Whole("no") \in 0..m /\ m \in Nat
  BY <1>3, ResultsAre, MaskPlaces
<1>8. \A k \in 0..(m - 1) : MarkOf(scanCall, k) = "yes" => src[Count(scanCall, 0, k, "yes")] = <<1, k>>
  BY <1>3, <1>4, PutResults
<1>9. (\A x \in 0..(m - 1) : memory.out[x] = NotWritten) => Holds(out, "yes")
  BY <1>3, <1>4, PutResults
<1>10. (\A x \in 0..(m - 1) : memory.out2[x] = NotWritten) => Holds(kept2, "no")
  BY <1>3, <1>4, PutResults
<1> HIDE DEF src, out, kept2
<1>11. ~Removes => Holds(out, "yes")
  BY <1>6, <1>9
<1>12. scanCall.alg = "partition_copy" => Holds(kept2, "no")
  BY <1>6, <1>10
<1>13. Removes => scanCall.alg # "partition_copy"
  BY DEF Removes, Mask!Removes
<1>14. /\ Removes => memory'.src = src
       /\ ~Removes => memory'.out = out /\ memory'.out2 = out2
  <2> HIDE DEF out2
  <2> QED BY <1>1, <1>2 DEF IsMemory
<1>15. /\ Size(scanCall)' = Size(scanCall) /\ Removes' = Removes
       /\ \A k : MarkOf(scanCall, k)' = MarkOf(scanCall, k)
       /\ \A k, mark : Count(scanCall, 0, k, mark)' = Count(scanCall, 0, k, mark)
       /\ \A mark : Whole(mark)' = Whole(mark)
  BY <1>1, SameMarks
<1>16. /\ ~Removes => Holds(memory.out, "yes")'
       /\ scanCall.alg = "partition_copy" => Holds(memory.out2, "no")'
  <2>1. ~Removes => Holds(memory'.out, "yes")
    BY <1>11, <1>14
  <2>2. scanCall.alg = "partition_copy" => Holds(memory'.out2, "no")
    BY <1>12, <1>13, <1>14
  <2> QED BY <1>15, <2>1, <2>2 DEF Holds
<1>17. Removes => \A k \in 0..(m - 1) : MarkOf(scanCall, k) = "yes" => memory'.src[Count(scanCall, 0, k, "yes")] = <<1, k>>
  BY <1>8, <1>14
<1>18. MaskResult'
  BY <1>1, <1>7, <1>15, <1>16, <1>17 DEF MaskResult
<1>19. CopiesInPlace'
  BY <1>1 DEF CopiesInPlace
<1> QED BY <1>18, <1>19 DEF MaskRight

LEMMA MaskStarts ==
  ASSUME Scheduled, MaskMemory, MaskRight, ~IsSet(scanCall), Begin
  PROVE  MaskRight'
<1> DEFINE buf == Fill(scanN, Raw)
           mask == Mask!Masked(scanCall, memory.mask, 0, Size(scanCall))
<1>1. /\ scanPc = "begin" /\ scanPc' = (IF scanN = 0 THEN "join" ELSE "scan") /\ copies' = {}
      /\ UNCHANGED <<scanCall, sums, scanned, scanN>> /\ ~IsSerial
      /\ memory' = IF Removes THEN [memory EXCEPT !.buf = buf, !.mask = mask] ELSE memory
  BY DEF Begin, strictScan
<1>2. CopiesInPlace /\ IsMemory(memory)
  BY DEF MaskRight, Scheduled
<1>3. /\ memory'.src = memory.src /\ memory'.out = memory.out /\ memory'.out2 = memory.out2
  <2> HIDE DEF buf, mask
  <2> QED BY <1>1, <1>2 DEF IsMemory
<1>4. /\ Base' = Base /\ Size(scanCall)' = Size(scanCall) /\ Removes' = Removes
      /\ \A k : MarkOf(scanCall, k)' = MarkOf(scanCall, k)
      /\ \A k, mark : Rank(k, mark)' = Rank(k, mark)
      /\ \A x : Back(x)' = Back(x)
  BY <1>1, SameMarks
<1>5. \A k : ~Copied(k)
  BY <1>1, NothingCopied
<1>6. /\ \A k : Copied(k)' = Copied(k)
      /\ \A x, mark : Taken(x, mark)' = Taken(x, mark)
  BY <1>1, SameCopied
<1>7. /\ Base + scanN = Size(scanCall) /\ Base \in Nat /\ Size(scanCall) \in Nat
  BY <1>1, MaskPlaces
<1>8. scanPc' = "join" => \A k \in Base..(Size(scanCall) - 1) : FALSE
  BY <1>1, <1>7
<1>9. /\ IsOutput(memory.out, "yes")' <=> IsOutput(memory.out, "yes")
      /\ IsOutput(memory.out2, "no")' <=> IsOutput(memory.out2, "no")
  BY <1>3, <1>4, <1>6 DEF IsOutput, InPlace
<1>10. Removes => RemovesInPlace'
  <2>1. Removes => \A k \in 0..(Base - 1) : memory.src[k] = <<1, k>>
    BY <1>1, <1>2 DEF CopiesInPlace, RemovesInPlace
  <2>2. InPlace(memory.buf, "yes")'
    BY <1>5, <1>6 DEF InPlace
  <2> QED BY <1>3, <1>4, <1>8, <2>1, <2>2 DEF RemovesInPlace
<1>11. CopiesInPlace'
  BY <1>1, <1>2, <1>3, <1>4, <1>8, <1>9, <1>10 DEF CopiesInPlace
<1>12. MaskResult'
  BY <1>1 DEF MaskResult
<1> QED BY <1>11, <1>12 DEF MaskRight

LEMMA MaskFinishes ==
  ASSUME Scheduled, MaskMemory, MaskRight, ~IsSet(scanCall), Finish
  PROVE  MaskRight'
<1> DEFINE m == Size(scanCall)
           m2 == IF scanN = 0 THEN 0 ELSE OutputLength(SumUpTo(scanN))
<1>1. scanPc = "join" /\ scanPc' = "done" /\ scanCall' = scanCall /\ memory' = memory /\ copies = {}
      /\ scanAnswer' = {Base + m2}
  BY DEF Finish, Base
<1>2. CopiesInPlace /\ MaskFrame
  BY DEF MaskRight, MaskMemory
<1>3. ~IsSerial /\ (scanN = 0 \/ scanReturned)
  BY <1>1 DEF Scheduled, Phases
<1>4. /\ scanN \in Nat /\ Base \in Nat /\ m \in Nat /\ Base + scanN = m
      /\ ~Removes => Base = 0
      /\ \A mark : Whole(mark) \in Nat
      /\ \A k \in Nat : \A mark : Rank(k, mark) \in Nat
      /\ \A k \in 0..Base : Removes => Count(scanCall, 0, k, "yes") = k
      /\ \A k \in Nat : \A mark : Base <= k /\ (Removes => mark = "yes") =>
               Count(scanCall, 0, k, mark) = Base + Rank(k, mark)
  BY <1>3, MaskPlaces
<1>5. \A mark : (Removes => mark = "yes") => Whole(mark) = Base + Rank(m, mark)
  BY <1>4 DEF Whole
<1>6. Base + m2 = Whole("yes")
  <2>1. CASE scanN = 0
    <3>1. Rank(m, "yes") = 0
      BY <1>4, <2>1, CountOfNone DEF Rank
    <3> QED BY <1>4, <1>5, <2>1, <3>1
  <2>2. CASE scanN # 0
    <3>1. Everything
      BY <1>3, <2>2 DEF Scheduled, ScanInOrder
    <3>2. scanN \in Ends
      BY <1>4, <2>2, <3>1, Chain
    <3>3. SumUpTo(scanN).yes = Rank(m, "yes")
      BY <1>4, <3>1, <3>2, MaskSums DEF Mask!Counts
    <3>4. m2 = Rank(m, "yes")
      BY <2>2, <3>3 DEF OutputLength
    <3> HIDE DEF m2
    <3> QED BY <1>5, <3>4
  <2> QED BY <2>1, <2>2
<1> HIDE DEF m, m2
<1>7. \A k \in Base..(m - 1) : Copied(k)
  BY <1>1, <1>2 DEF CopiesInPlace, m
<1>8. Removes => \A k \in 0..(m - 1) : MarkOf(scanCall, k) = "yes" => memory.src[Count(scanCall, 0, k, "yes")] = <<1, k>>
  <2> SUFFICES ASSUME Removes, NEW k \in 0..(m - 1), MarkOf(scanCall, k) = "yes"
               PROVE  memory.src[Count(scanCall, 0, k, "yes")] = <<1, k>>
    OBVIOUS
  <2>1. RemovesInPlace
    BY <1>1, <1>2 DEF CopiesInPlace
  <2>2. CASE k < Base
    <3>1. k \in 0..Base /\ k \in 0..(Base - 1)
      BY <1>4, <2>2
    <3> QED BY <1>4, <2>1, <3>1 DEF RemovesInPlace
  <2>3. CASE ~(k < Base)
    <3>1. k \in Base..(m - 1) /\ k \in Nat /\ Base <= k
      BY <1>4, <2>3
    <3>2. memory.src[Base + Rank(k, "yes")] = <<1, k>>
      BY <1>1, <2>1, <3>1 DEF RemovesInPlace, m
    <3> QED BY <1>4, <3>1, <3>2
  <2> QED BY <2>2, <2>3
<1>9. ASSUME NEW mem, NEW mark, ~Removes, IsOutput(mem, mark) PROVE Holds(mem, mark)
  <2>1. Base = 0 /\ \A k \in Nat : Count(scanCall, 0, k, mark) = Rank(k, mark)
    BY <1>4, <1>9
  <2>2. mem = [x \in 0..(m - 1) |-> mem[x]]
    BY <1>9 DEF IsOutput, m
  <2>3. ASSUME NEW k \in 0..(m - 1), MarkOf(scanCall, k) = mark PROVE mem[Count(scanCall, 0, k, mark)] = <<1, k>>
    <3>1. k \in Base..(m - 1) /\ k \in Nat
      BY <1>4, <2>1
    <3> QED BY <1>7, <1>9, <2>1, <2>3, <3>1 DEF IsOutput, InPlace, m
  <2>4. ASSUME NEW x \in Whole(mark)..(m - 1) PROVE mem[x] = NotWritten
    <3> SUFFICES ASSUME mem[x] # NotWritten PROVE FALSE
      OBVIOUS
    <3>1. x \in 0..(m - 1) /\ Whole(mark) \in Nat
      BY <1>4
    <3>2. Taken(x, mark)
      BY <1>9, <3>1 DEF IsOutput, m
    <3>3. PICK k \in Base..(m - 1) : MarkOf(scanCall, k) = mark /\ Rank(k, mark) = x
      BY <3>2 DEF Taken, m
    <3>4. k \in Nat /\ k < m /\ Base <= k
      BY <1>4, <3>3
    <3>5. Rank(k, mark) < Rank(m, mark)
      BY <1>4, <3>3, <3>4, RanksDiffer DEF Rank
    <3>6. Whole(mark) = Rank(m, mark)
      BY <1>4, <1>5, <1>9, <2>1
    <3> QED BY <1>4, <3>1, <3>3, <3>5, <3>6
  <2> QED BY <2>2, <2>3, <2>4 DEF Holds, m
<1>10. /\ ~Removes => Holds(memory.out, "yes")
       /\ scanCall.alg = "partition_copy" => Holds(memory.out2, "no")
  <2>1. scanCall.alg = "partition_copy" => ~Removes
    BY DEF Removes, Mask!Removes
  <2> QED BY <1>1, <1>2, <1>9, <2>1 DEF CopiesInPlace
<1>11. /\ Size(scanCall)' = Size(scanCall) /\ Removes' = Removes
       /\ \A k : MarkOf(scanCall, k)' = MarkOf(scanCall, k)
       /\ \A k, mark : Count(scanCall, 0, k, mark)' = Count(scanCall, 0, k, mark)
       /\ \A mark : Whole(mark)' = Whole(mark)
  BY <1>1, SameMarks
<1>12. /\ ~Removes => Holds(memory.out, "yes")'
       /\ scanCall.alg = "partition_copy" => Holds(memory.out2, "no")'
  BY <1>1, <1>10, <1>11 DEF Holds
<1>13. MaskResult'
  BY <1>1, <1>6, <1>8, <1>11, <1>12 DEF MaskResult, m
<1>14. CopiesInPlace'
  BY <1>1 DEF CopiesInPlace
<1> QED BY <1>13, <1>14 DEF MaskRight

\* The scan returns: each element has been copied.
LEMMA AllIsCopied ==
  ASSUME Scheduled, ~IsSet(scanCall), ScanReturns
  PROVE  /\ Base + scanN = Size(scanCall) /\ Everything
         /\ SumUpTo(scanN).yes = Rank(Size(scanCall), "yes")
         /\ \A k \in Base..(Size(scanCall) - 1) : Copied(k)
<1>1. scanPc = "scan" /\ total # NoSum
      /\ \A b \in DOMAIN scanReduced : <<b[1], b[2], <<-1, b[1]>>>> \in DOMAIN scanned
  BY DEF ScanReturns, Contract!Return
<1>2. scanN > 0 /\ Everything
  BY <1>1 DEF Scheduled, Phases, ScanInOrder
<1>3. Base \in Nat /\ scanN \in Nat /\ Size(scanCall) \in Nat /\ Base + scanN = Size(scanCall)
  BY <1>2, MaskPlaces
<1>4. SumUpTo(scanN).yes = Rank(Size(scanCall), "yes")
  <2>1. scanN \in Ends
    BY <1>2, Chain
  <2> QED BY <1>2, <1>3, <2>1, MaskSums DEF Mask!Counts
<1>5. ASSUME NEW k \in Base..(Size(scanCall) - 1) PROVE Copied(k)
  <2>1. k - Base \in 0..(scanN - 1)
    BY <1>3
  <2>2. PICK b \in sums : b.lo <= k - Base /\ k - Base < b.hi
    BY <1>2, <2>1 DEF Everything
  <2>3. b.lo \in Nat /\ b.hi \in Nat /\ <<b.lo, b.hi - b.lo>> \in DOMAIN scanReduced
    BY <1>2, <1>3, Chain DEF Scheduled, BlocksInOrder
  <2>4. Base + b.lo <= k /\ k < Base + b.hi
    BY <1>3, <2>2, <2>3
  <2>5. Scanning(b) \in DOMAIN scanned
    BY <1>1, <2>3 DEF Scanning
  <2> QED BY <2>4, <2>5 DEF Copied
<1> QED BY <1>2, <1>3, <1>4, <1>5

LEMMA MaskJoins ==
  ASSUME Scheduled, MaskMemory, MaskRight, ~IsSet(scanCall), ScanReturns
  PROVE  MaskRight'
<1> DEFINE m == Size(scanCall)
<1>1. scanPc = "scan" /\ scanPc' = "join" /\ UNCHANGED <<scanCall, memory, sums, scanned>>
  BY DEF ScanReturns, Contract!Return
<1>2. copies' = IF Removes THEN {Back(k) : k \in 0..(SumUpTo(scanN).yes - 1)} ELSE copies
  BY DEF ScanReturns, Back, Base
<1>3. CopiesInPlace
  BY DEF MaskRight
<1>4. /\ Base \in Nat /\ m \in Nat /\ Base <= m
      /\ \A k \in Nat : \A mark : Rank(k, mark) \in Nat
  BY MaskPlaces
<1>5. /\ SumUpTo(scanN).yes = Rank(m, "yes")
      /\ \A k \in Base..(m - 1) : Copied(k)
  BY AllIsCopied
<1>6. /\ Base' = Base /\ Size(scanCall)' = m /\ Removes' = Removes
      /\ \A k : MarkOf(scanCall, k)' = MarkOf(scanCall, k)
      /\ \A k, mark : Rank(k, mark)' = Rank(k, mark)
      /\ \A x : Back(x)' = Back(x)
  BY <1>1, SameMarks
<1>7. /\ \A k : Copied(k)' = Copied(k)
      /\ \A x, mark : Taken(x, mark)' = Taken(x, mark)
  BY <1>1, SameCopied
<1>8. /\ IsOutput(memory.out, "yes")' <=> IsOutput(memory.out, "yes")
      /\ IsOutput(memory.out2, "no")' <=> IsOutput(memory.out2, "no")
  BY <1>1, <1>6, <1>7 DEF IsOutput, InPlace
<1> HIDE DEF m
<1>9. Removes => RemovesInPlace'
  <2> SUFFICES ASSUME Removes PROVE RemovesInPlace'
    OBVIOUS
  <2>1. RemovesInPlace /\ InPlace(memory.buf, "yes")
    BY <1>1, <1>3 DEF CopiesInPlace, RemovesInPlace
  <2>2. ASSUME NEW k \in Base..(m - 1), MarkOf(scanCall, k) = "yes"
        PROVE  Back(Rank(k, "yes")) \in copies' /\ memory.buf[Rank(k, "yes")] = <<1, k>>
    <3>1. memory.buf[Rank(k, "yes")] = <<1, k>>
      BY <1>5, <2>1, <2>2 DEF InPlace, m
    <3>2. k \in Nat /\ Base <= k /\ k < m
      BY <1>4
    <3>3. Rank(k, "yes") < Rank(m, "yes")
      BY <1>4, <2>2, <3>2, RanksDiffer DEF Rank
    <3>4. Rank(k, "yes") \in 0..(Rank(m, "yes") - 1)
      BY <1>4, <3>2, <3>3
    <3> QED BY <1>2, <1>5, <3>1, <3>4
  <2> QED BY <1>1, <1>6, <2>1, <2>2 DEF RemovesInPlace, m
<1>10. CopiesInPlace'
  BY <1>1, <1>3, <1>5, <1>6, <1>7, <1>8, <1>9 DEF CopiesInPlace, m
<1>11. MaskResult'
  BY <1>1 DEF MaskResult
<1> QED BY <1>10, <1>11 DEF MaskRight

\* An element moves back: its slot of the range holds it from then on.
LEMMA MaskGoesBack ==
  ASSUME Scheduled, MaskMemory, MaskRight, ~IsSet(scanCall), NEW t \in copies, CopyRange(t)
  PROVE  MaskRight'
<1> DEFINE m == Size(scanCall)
<1>1. /\ scanPc \in {"scan", "join"} /\ copies' = copies \ {t}
      /\ UNCHANGED <<scanCall, sums, scanned, scanN, scanPc>>
      /\ t.seq = 0 => memory' = [memory EXCEPT !.src[t.at] = memory.buf[t.lo], !.buf[t.lo] = Raw,
                                         !.ok = @ /\ memory.buf[t.lo] # Raw]
  BY DEF CopyRange, strictScan
<1>2. MaskFrame /\ MaskBack /\ IsMemory(memory) /\ CopiesInPlace
  BY DEF Scheduled, MaskMemory, MaskRight
<1>3. scanPc = "join" /\ Removes /\ scanCall.alg # "partition_copy"
  BY <1>1, <1>2 DEF MaskFrame, Removes, Mask!Removes
<1>4. /\ copies \subseteq {Back(x) : x \in 0..(scanN - 1)}
      /\ DOMAIN memory.buf = 0..(scanN - 1) /\ DOMAIN memory.src = 0..(m - 1)
  BY <1>2, <1>3 DEF MaskBack, MaskFrame
<1>5. PICK y \in 0..(scanN - 1) : t = Back(y)
  BY <1>4
<1>6. t.seq = 0 /\ t.lo = y /\ t.at = Base + y /\ \A x : Back(x) = t <=> x = y
  BY <1>5 DEF Back, Set!Copy
<1>7. /\ Base \in Nat /\ scanN \in Nat /\ m \in Nat /\ Base + scanN <= m
      /\ \A k \in Nat : \A mark : Rank(k, mark) \in Nat
  BY ScanLengths, MaskPlaces DEF Scheduled
<1> DEFINE src == [memory.src EXCEPT ![Base + y] = memory.buf[y]]
           buf == [memory.buf EXCEPT ![y] = Raw]
           ok == memory.ok /\ memory.buf[y] # Raw
<1>8. memory' = [memory EXCEPT !.src = src, !.buf = buf, !.ok = ok]
  BY <1>1, <1>2, <1>6 DEF IsMemory
<1>9. /\ \A x \in 0..(m - 1) : src[x] = IF x = Base + y THEN memory.buf[y] ELSE memory.src[x]
      /\ \A x \in 0..(scanN - 1) : x # y => buf[x] = memory.buf[x]
  BY <1>4
<1> HIDE DEF src, buf, ok
<1>10. memory'.src = src /\ memory'.buf = buf
  BY <1>2, <1>8 DEF IsMemory
<1>11. /\ Base' = Base /\ Size(scanCall)' = m /\ Removes' = Removes /\ scanPc' = "join"
       /\ \A k : MarkOf(scanCall, k)' = MarkOf(scanCall, k)
       /\ \A k, mark : Rank(k, mark)' = Rank(k, mark)
       /\ \A x : Back(x)' = Back(x)
  BY <1>1, <1>3, SameMarks
<1>12. \A k : Copied(k)' = Copied(k)
  BY <1>1, SameCopied
<1>13. RemovesInPlace
  BY <1>2, <1>3 DEF CopiesInPlace
<1> HIDE DEF m
<1>14. ASSUME NEW k \in 0..(Base - 1) PROVE src[k] = <<1, k>>
  <2>1. k \in 0..(m - 1) /\ k # Base + y
    BY <1>7
  <2> QED BY <1>9, <1>13, <2>1 DEF RemovesInPlace
<1>15. ASSUME NEW k \in Base..(m - 1), MarkOf(scanCall, k) = "yes"
       PROVE  IF Back(Rank(k, "yes")) \in copies' THEN buf[Rank(k, "yes")] = <<1, k>>
              ELSE src[Base + Rank(k, "yes")] = <<1, k>>
  <2> DEFINE r == Rank(k, "yes")
  <2>1. r \in 0..(scanN - 1) /\ Base + r \in 0..(m - 1)
    <3>1. k \in Nat /\ Base <= k /\ k < m
      BY <1>7
    <3>2. r \in Nat /\ r <= k - Base
      BY <1>7, <3>1, CountBound DEF Rank
    <3>3. Base + scanN = m
      BY <1>7, <3>1, MaskPlaces DEF m
    <3> HIDE DEF r
    <3> QED BY <1>7, <3>1, <3>2, <3>3
  <2>2. IF Back(r) \in copies THEN memory.buf[r] = <<1, k>> ELSE memory.src[Base + r] = <<1, k>>
    BY <1>3, <1>13, <1>15 DEF RemovesInPlace, m
  <2>3. Back(r) \in copies' <=> Back(r) \in copies /\ r # y
    BY <1>1, <1>6
  <2>4. Back(y) \in copies
    BY <1>5
  <2> SUFFICES IF Back(r) \in copies' THEN buf[r] = <<1, k>> ELSE src[Base + r] = <<1, k>>
    OBVIOUS
  <2> HIDE DEF r
  <2>5. CASE r = y
    BY <1>9, <2>1, <2>2, <2>3, <2>4, <2>5
  <2>6. CASE r # y
    <3>1. Base + r # Base + y
      BY <1>7, <2>1, <2>6
    <3> QED BY <1>9, <2>1, <2>2, <2>3, <2>6, <3>1
  <2> QED BY <2>5, <2>6
<1>16. RemovesInPlace'
  BY <1>10, <1>11, <1>14, <1>15 DEF RemovesInPlace
<1>17. CopiesInPlace'
  <2>1. \A k \in Base..(m - 1) : Copied(k)
    BY <1>2, <1>3 DEF CopiesInPlace, m
  <2> QED BY <1>1, <1>3, <1>11, <1>12, <1>16, <2>1 DEF CopiesInPlace
<1>18. MaskResult'
  BY <1>11 DEF MaskResult
<1> QED BY <1>17, <1>18 DEF MaskRight

\* The pairs of places that a block is copied between, and what it leaves in the range.
Pairs(b, mark) == {<<k, Rank(k, mark)>> : k \in Mine(scanCall, Base + b.lo, Base + b.hi, mark)}

MovedOut(b) ==
  [k \in DOMAIN memory.src |-> IF \E t \in Pairs(b, "yes") : t[1] = k THEN MovedFrom ELSE memory.src[k]]

LEMMA PairsAre ==
  ASSUME NEW b, NEW mark
  PROVE  /\ \A t \in Pairs(b, mark) : /\ t[1] \in Mine(scanCall, Base + b.lo, Base + b.hi, mark)
                                      /\ t[2] = Rank(t[1], mark)
         /\ \A k \in Mine(scanCall, Base + b.lo, Base + b.hi, mark) :
              \E t \in Pairs(b, mark) : t[1] = k /\ t[2] = Rank(k, mark)
<1> DEFINE mine == Mine(scanCall, Base + b.lo, Base + b.hi, mark)
           rank(k) == Rank(k, mark)
<1>1. Pairs(b, mark) = {<<k, rank(k)>> : k \in mine}
  BY DEF Pairs
<1> HIDE DEF mine, rank
<1>2. /\ \A t \in Pairs(b, mark) : t[1] \in mine /\ t[2] = rank(t[1])
      /\ \A k \in mine : <<k, rank(k)>> \in Pairs(b, mark) /\ <<k, rank(k)>>[1] = k /\ <<k, rank(k)>>[2] = rank(k)
  BY <1>1
<1>3. \A k \in mine : \E t \in Pairs(b, mark) : t[1] = k /\ t[2] = rank(k)
  <2> SUFFICES ASSUME NEW k \in mine PROVE \E t \in Pairs(b, mark) : t[1] = k /\ t[2] = rank(k)
    OBVIOUS
  <2> DEFINE s == <<k, rank(k)>>
  <2>1. s \in Pairs(b, mark) /\ s[1] = k /\ s[2] = rank(k)
    BY <1>2
  <2> HIDE DEF s
  <2> QED BY <2>1
<1> QED BY <1>2, <1>3 DEF mine, rank

\* What the functor writes for a block.
LEMMA BlockCopied ==
  ASSUME Scheduled, ~IsSet(scanCall), NEW i \in 0..(scanN - 1), NEW len \in 1..(scanN - i), ScanBlock(i, len)
  PROVE  \E b \in sums :
           /\ Scanning(b) \notin DOMAIN scanned /\ DOMAIN scanned' = DOMAIN scanned \cup {Scanning(b)}
           /\ Everything /\ scanPc = "scan"
           /\ UNCHANGED <<scanCall, sums, copies, scanPc, scanAnswer, scanN>>
           /\ Removes => /\ memory'.buf = Assigned(memory.buf, memory.src, Pairs(b, "yes"))
                         /\ memory'.src = MovedOut(b)
           /\ ~Removes => /\ memory'.src = memory.src /\ memory'.buf = memory.buf
                          /\ memory'.out = Assigned(memory.out, memory.src, Pairs(b, "yes"))
           /\ scanCall.alg = "partition_copy" => memory'.out2 = Assigned(memory.out2, memory.src, Pairs(b, "no"))
<1>1. PICK b \in sums :
           /\ b.lo = i /\ b.hi = i + len /\ Scanning(b) \notin DOMAIN scanned
           /\ DOMAIN scanned' = DOMAIN scanned \cup {Scanning(b)}
           /\ Everything /\ total # NoSum /\ ~scanReturned /\ scanPc = "scan"
           /\ UNCHANGED <<scanCall, sums, copies, scanPc, scanAnswer, scanN, scanReduced, total, scanReturned>>
           /\ memory' = IF IsSet(scanCall) THEN MoveRange(SumUpTo(b.lo)) ELSE CopyMasked(b.lo, b.hi, SumUpTo(b.lo))
  BY BlockScanned
<1> DEFINE yes == Pairs(b, "yes")
           no == Pairs(b, "no")
<1>2. SumUpTo(b.lo).yes = Rank(Base + b.lo, "yes") /\ SumUpTo(b.lo).no = Rank(Base + b.lo, "no")
  <2>1. b.lo \in Ends
    BY <1>1, Chain
  <2> QED BY <1>1, <2>1, MaskSums DEF Mask!Counts
<1>3. \A mark : Mask!Transfers(memory.mask, Base + b.lo, Base + b.hi, mark, Rank(Base + b.lo, mark)) = Pairs(b, mark)
  BY <1>1, TransfersAre DEF Pairs
<1> HIDE DEF yes, no
<1>5. memory' = CopyMasked(b.lo, b.hi, SumUpTo(b.lo))
  BY <1>1
<1> DEFINE buf == Assigned(memory.buf, memory.src, yes)
           left == [k \in DOMAIN memory.src |-> IF \E t \in yes : t[1] = k THEN MovedFrom ELSE memory.src[k]]
           out == Assigned(memory.out, memory.src, yes)
           out2 == Assigned(memory.out2, memory.src, no)
           okBuf == memory.ok /\ Targets(memory.buf, yes, Raw) /\ \A t \in yes : memory.src[t[1]] # MovedFrom
           okBoth == memory.ok /\ Targets(memory.out, yes, NotWritten) /\ Targets(memory.out2, no, NotWritten)
           okOut == memory.ok /\ Targets(memory.out, yes, NotWritten)
<1>6. memory' = IF Removes THEN [memory EXCEPT !.buf = buf, !.src = left, !.ok = okBuf]
                ELSE IF scanCall.alg = "partition_copy" THEN [memory EXCEPT !.out = out, !.out2 = out2, !.ok = okBoth]
                ELSE [memory EXCEPT !.out = out, !.ok = okOut]
  <2>1. /\ Mask!Transfers(memory.mask, Base + b.lo, Base + b.hi, "yes", SumUpTo(b.lo).yes) = yes
        /\ Mask!Transfers(memory.mask, Base + b.lo, Base + b.hi, "no", SumUpTo(b.lo).no) = no
    BY <1>2, <1>3 DEF yes, no
  <2>2. memory' = CopyLeaves(yes, no)
    BY <1>5, <2>1, PairsAreCopied
  <2> QED BY <2>2 DEF CopyLeaves
<1>7. left = MovedOut(b)
  BY DEF MovedOut, yes
<1>8. IsMemory(memory)
  BY DEF Scheduled
<1>9. scanCall.alg = "partition_copy" => ~Removes
  BY DEF Removes, Mask!Removes
<1> HIDE DEF buf, left, out, out2, okBuf, okBoth, okOut
<1>10. /\ Removes => memory'.buf = buf /\ memory'.src = left
       /\ ~Removes => memory'.src = memory.src /\ memory'.buf = memory.buf /\ memory'.out = out
       /\ scanCall.alg = "partition_copy" => memory'.out2 = out2
  BY <1>6, <1>8, <1>9 DEF IsMemory
<1> QED BY <1>1, <1>7, <1>10 DEF buf, out, out2, yes, no

\* One more block is where its ranks say, and the others still are.
LEMMA MoreInPlace ==
  ASSUME Scheduled, ~IsSet(scanCall), NEW b \in sums, UNCHANGED <<scanCall, sums>>, Everything,
         DOMAIN scanned' = DOMAIN scanned \cup {Scanning(b)}, Scanning(b) \notin DOMAIN scanned,
         NEW mark, NEW mem, NEW src, InPlace(mem, mark),
         \A k \in Mine(scanCall, Base + b.lo, Base + b.hi, mark) : src[k] = <<1, k>>,
         NEW k \in Base..(Size(scanCall) - 1), Copied(k)', MarkOf(scanCall, k) = mark, Rank(k, mark) \in DOMAIN mem
  PROVE  Assigned(mem, src, Pairs(b, mark))[Rank(k, mark)] = <<1, k>>
<1> DEFINE P == Pairs(b, mark)
           out == Assigned(mem, src, P)
           mine == Mine(scanCall, Base + b.lo, Base + b.hi, mark)
           x == Rank(k, mark)
<1>1. IF \E t \in P : t[2] = x THEN \E t \in P : t[2] = x /\ out[x] = src[t[1]] ELSE out[x] = mem[x]
  BY AssignedAre
<1>2. /\ \A t \in P : t[1] \in mine /\ t[2] = Rank(t[1], mark)
      /\ \A l \in mine : \E t \in P : t[1] = l /\ t[2] = Rank(l, mark)
  BY PairsAre
<1>3. \A l \in mine : l \in Base..(Size(scanCall) - 1) /\ MarkOf(scanCall, l) = mark
  BY TransfersAre
<1>4. \A l, p \in Base..(Size(scanCall) - 1) :
         MarkOf(scanCall, l) = mark /\ MarkOf(scanCall, p) = mark /\ Rank(l, mark) = Rank(p, mark) => l = p
  BY MaskPlaces
<1>5. k \in mine \/ Copied(k)
  <2>1. Copied(k) \/ (Base + b.lo <= k /\ k < Base + b.hi)
    BY MoreCopied
  <2>2. Base \in Nat /\ b.lo \in Nat /\ b.hi \in Nat /\ Size(scanCall) \in Nat
    BY MaskPlaces, Chain
  <2>3. Base + b.lo <= k /\ k < Base + b.hi => k \in (Base + b.lo)..((Base + b.hi) - 1)
    BY <2>2
  <2> QED BY <2>1, <2>3 DEF Mine
<1> HIDE DEF P, out, mine, x
<1>6. CASE \E t \in P : t[2] = x
  <2>1. PICK t \in P : t[2] = x /\ out[x] = src[t[1]]
    BY <1>1, <1>6
  <2>2. t[1] \in mine /\ Rank(t[1], mark) = Rank(k, mark)
    BY <1>2, <2>1 DEF x
  <2>3. t[1] = k
    BY <1>3, <1>4, <2>2
  <2> QED BY <2>1, <2>2, <2>3 DEF out, mine, x, P
<1>7. CASE ~\E t \in P : t[2] = x
  <2>1. k \notin mine
    BY <1>2, <1>7 DEF x
  <2>2. mem[x] = <<1, k>>
    BY <1>5, <2>1 DEF InPlace, x
  <2> QED BY <1>1, <1>7, <2>2 DEF out, P, x
<1> QED BY <1>6, <1>7

LEMMA MaskScans ==
  ASSUME Scheduled, MaskMemory, MaskRight, MaskMemory', ~IsSet(scanCall),
         NEW i \in 0..(scanN - 1), NEW len \in 1..(scanN - i), ScanBlock(i, len)
  PROVE  MaskRight'
<1> DEFINE m == Size(scanCall)
<1>1. PICK b \in sums :
           /\ Scanning(b) \notin DOMAIN scanned /\ DOMAIN scanned' = DOMAIN scanned \cup {Scanning(b)}
           /\ Everything /\ scanPc = "scan"
           /\ UNCHANGED <<scanCall, sums, copies, scanPc, scanAnswer, scanN>>
           /\ Removes => /\ memory'.buf = Assigned(memory.buf, memory.src, Pairs(b, "yes"))
                         /\ memory'.src = MovedOut(b)
           /\ ~Removes => /\ memory'.src = memory.src /\ memory'.buf = memory.buf
                          /\ memory'.out = Assigned(memory.out, memory.src, Pairs(b, "yes"))
           /\ scanCall.alg = "partition_copy" => memory'.out2 = Assigned(memory.out2, memory.src, Pairs(b, "no"))
  BY BlockCopied
<1>2. MaskFrame /\ MaskMoved /\ CopiesInPlace /\ MaskFrame' /\ MaskWritten'
  <2>1. IsSet(scanCall)' = IsSet(scanCall)
    BY <1>1, SameMarks
  <2> QED BY <2>1 DEF MaskMemory, MaskRight
<1>3. /\ Base' = Base /\ Size(scanCall)' = m /\ Removes' = Removes
      /\ \A k : MarkOf(scanCall, k)' = MarkOf(scanCall, k)
      /\ \A k, mark : Rank(k, mark)' = Rank(k, mark)
  BY <1>1, SameMarks
<1>4. /\ Base \in Nat /\ m \in Nat /\ Base <= m /\ scanN \in Nat
      /\ scanN > 0 => Base + scanN = m
  BY MaskPlaces
<1>5. \A mark : \A k \in Mine(scanCall, Base + b.lo, Base + b.hi, mark) :
              k \in Base..(m - 1) /\ k \in 0..(m - 1) /\ Base + b.lo <= k /\ k < Base + b.hi
  BY <1>1, TransfersAre
<1>6. \A k \in Base..(m - 1) : \A mark : Rank(k, mark) \in 0..(scanN - 1) /\ Rank(k, mark) \in 0..(m - 1)
  <2> SUFFICES ASSUME NEW k \in Base..(m - 1), NEW mark
               PROVE Rank(k, mark) \in 0..(scanN - 1) /\ Rank(k, mark) \in 0..(m - 1)
    OBVIOUS
  <2>1. k \in Nat /\ Base <= k /\ k < m
    BY <1>4
  <2>2. Rank(k, mark) \in Nat /\ Rank(k, mark) <= k - Base
    BY <1>4, <2>1, CountBound DEF Rank
  <2>3. scanN > 0
    BY <1>1 DEF Scheduled, Phases
  <2> QED BY <1>4, <2>1, <2>2, <2>3
<1>7. DOMAIN memory.src = 0..(m - 1) /\ DOMAIN memory.out = 0..(m - 1) /\ DOMAIN memory.out2 = 0..(m - 1)
      /\ (Removes => DOMAIN memory.buf = 0..(scanN - 1))
  BY <1>1, <1>2 DEF MaskFrame
<1> HIDE DEF m
<1>8. CASE Removes
  <2>1. \A k \in DOMAIN memory.src : ~Copied(k) => memory.src[k] = <<1, k>>
    BY <1>1, <1>2, <1>8 DEF MaskMoved
  <2>2. \A k \in Mine(scanCall, Base + b.lo, Base + b.hi, "yes") : memory.src[k] = <<1, k>>
    <3> SUFFICES ASSUME NEW k \in Mine(scanCall, Base + b.lo, Base + b.hi, "yes") PROVE memory.src[k] = <<1, k>>
      OBVIOUS
    <3>1. k \in 0..(m - 1) /\ k \in Nat /\ Base + b.lo <= k /\ k < Base + b.hi
      BY <1>4, <1>5
    <3>2. ~Copied(k)
      BY <1>1, <3>1, MoreCopied
    <3> QED BY <1>7, <2>1, <3>1, <3>2
  <2>3. RemovesInPlace /\ InPlace(memory.buf, "yes")
    BY <1>1, <1>2, <1>8 DEF CopiesInPlace, RemovesInPlace
  <2>4. ASSUME NEW k \in Base..(m - 1), Copied(k)', MarkOf(scanCall, k) = "yes"
        PROVE  memory'.buf[Rank(k, "yes")] = <<1, k>>
    <3>1. Rank(k, "yes") \in DOMAIN memory.buf
      BY <1>6, <1>7, <1>8
    <3>2. Assigned(memory.buf, memory.src, Pairs(b, "yes"))[Rank(k, "yes")] = <<1, k>>
      BY <1>1, <2>2, <2>3, <2>4, <3>1, MoreInPlace DEF m
    <3> QED BY <1>1, <1>8, <3>2
  <2>5. ASSUME NEW k \in 0..(Base - 1) PROVE memory'.src[k] = <<1, k>>
    <3>1. k \in DOMAIN memory.src /\ k \notin Base..(m - 1)
      BY <1>4, <1>7
    <3>2. ~\E t \in Pairs(b, "yes") : t[1] = k
      BY <1>5, <3>1, PairsAre
    <3>3. MovedOut(b)[k] = memory.src[k]
      BY <3>1, <3>2 DEF MovedOut
    <3> QED BY <1>1, <1>8, <2>3, <3>3 DEF RemovesInPlace
  <2>6. RemovesInPlace'
    BY <1>1, <1>3, <2>4, <2>5 DEF RemovesInPlace, InPlace
  <2>7. CopiesInPlace' /\ MaskResult'
    <3>1. scanCall.alg # "partition_copy"
      BY <1>8 DEF Removes, Mask!Removes
    <3> QED BY <1>1, <1>3, <1>8, <2>6, <3>1 DEF CopiesInPlace, MaskResult
  <2> QED BY <2>7 DEF MaskRight
<1>9. CASE ~Removes
  <2>1. \A k \in DOMAIN memory.src : memory.src[k] = <<1, k>>
    BY <1>1, <1>2, <1>9 DEF CopiesInPlace
  <2>2. \A mark : \A k \in Mine(scanCall, Base + b.lo, Base + b.hi, mark) : memory.src[k] = <<1, k>>
    BY <1>5, <1>7, <2>1
  <2>3. IsOutput(memory.out, "yes") /\ (scanCall.alg = "partition_copy" => IsOutput(memory.out2, "no"))
    BY <1>1, <1>2, <1>9 DEF CopiesInPlace
  <2>4. ASSUME NEW mem, NEW mark, IsOutput(mem, mark), DOMAIN mem = 0..(m - 1),
               NEW k \in Base..(m - 1), Copied(k)', MarkOf(scanCall, k) = mark
        PROVE  Assigned(mem, memory.src, Pairs(b, mark))[Rank(k, mark)] = <<1, k>>
    <3>1. InPlace(mem, mark)
      BY <2>4 DEF IsOutput
    <3>2. Rank(k, mark) \in DOMAIN mem
      BY <1>6, <2>4
    <3>3. \A l \in Mine(scanCall, Base + b.lo, Base + b.hi, mark) : memory.src[l] = <<1, l>>
      BY <2>2
    <3>4. Copied(k)' /\ MarkOf(scanCall, k) = mark /\ k \in Base..(Size(scanCall) - 1)
      BY <2>4 DEF m
    <3>5. /\ UNCHANGED <<scanCall, sums>> /\ Everything /\ Scanning(b) \notin DOMAIN scanned
          /\ DOMAIN scanned' = DOMAIN scanned \cup {Scanning(b)}
      BY <1>1
    <3> QED BY <3>1, <3>2, <3>3, <3>4, <3>5, MoreInPlace
  <2>5. \A mem, mark : DOMAIN mem = 0..(m - 1) =>
           Assigned(mem, memory.src, Pairs(b, mark)) = [x \in 0..(m - 1) |-> Assigned(mem, memory.src, Pairs(b, mark))[x]]
    BY DEF Assigned
  <2>6. /\ \A x \in 0..(m - 1) : memory'.out[x] # NotWritten => Taken(x, "yes")'
        /\ scanCall.alg = "partition_copy" => \A x \in 0..(m - 1) : memory'.out2[x] # NotWritten => Taken(x, "no")'
    BY <1>1, <1>2, <1>3, <1>9 DEF MaskWritten, MaskFrame
  <2> DEFINE out == Assigned(memory.out, memory.src, Pairs(b, "yes"))
             out2 == Assigned(memory.out2, memory.src, Pairs(b, "no"))
  <2>7. /\ \A k \in Base..(m - 1) : Copied(k)' /\ MarkOf(scanCall, k) = "yes" => out[Rank(k, "yes")] = <<1, k>>
        /\ out = [x \in 0..(m - 1) |-> out[x]]
    BY <1>7, <2>3, <2>4, <2>5
  <2>8. scanCall.alg = "partition_copy" =>
          /\ \A k \in Base..(m - 1) : Copied(k)' /\ MarkOf(scanCall, k) = "no" => out2[Rank(k, "no")] = <<1, k>>
          /\ out2 = [x \in 0..(m - 1) |-> out2[x]]
    BY <1>7, <2>3, <2>4, <2>5
  <2>9. memory'.src = memory.src /\ memory'.out = out /\ (scanCall.alg = "partition_copy" => memory'.out2 = out2)
    BY <1>1, <1>9
  <2> HIDE DEF out, out2
  <2>10. IsOutput(memory.out, "yes")'
    <3>1. memory'.out = [x \in 0..(m - 1) |-> memory'.out[x]]
      BY <2>7, <2>9
    <3>2. \A k \in Base..(m - 1) : Copied(k)' /\ MarkOf(scanCall, k) = "yes" => memory'.out[Rank(k, "yes")] = <<1, k>>
      BY <2>7, <2>9
    <3> QED BY <1>3, <2>6, <3>1, <3>2 DEF IsOutput, InPlace
  <2>11. scanCall.alg = "partition_copy" => IsOutput(memory.out2, "no")'
    <3> SUFFICES ASSUME scanCall.alg = "partition_copy" PROVE IsOutput(memory.out2, "no")'
      OBVIOUS
    <3>1. memory'.out2 = [x \in 0..(m - 1) |-> memory'.out2[x]]
      BY <2>8, <2>9
    <3>2. \A k \in Base..(m - 1) : Copied(k)' /\ MarkOf(scanCall, k) = "no" => memory'.out2[Rank(k, "no")] = <<1, k>>
      BY <2>8, <2>9
    <3> QED BY <1>3, <2>6, <3>1, <3>2 DEF IsOutput, InPlace
  <2>12. CopiesInPlace' /\ MaskResult'
    BY <1>1, <1>3, <1>9, <2>1, <2>9, <2>10, <2>11 DEF CopiesInPlace, MaskResult
  <2> QED BY <2>12 DEF MaskRight
<1> QED BY <1>8, <1>9

LEMMA MaskReduces ==
  ASSUME Scheduled, MaskRight, ~IsSet(scanCall),
         NEW i \in 0..(scanN - 1), NEW len \in 1..(scanN - i), ReduceBlock(i, len)
  PROVE  MaskRight'
<1> DEFINE mask == IF Removes THEN memory.mask ELSE Mask!Masked(scanCall, memory.mask, i, i + len)
           ok == memory.ok /\ NoneIs(mask, Base + i, (i + len) - i, "unset")
<1>1. /\ UNCHANGED <<scanCall, scanPc, scanAnswer, copies, scanned>> /\ total = NoSum
      /\ sums' = sums \cup {[lo |-> i, hi |-> i + len, val |-> ValueOf(i, i + len)]}
  BY BlockReduced DEF ReduceBlock
<1>2. memory' = [memory EXCEPT !.mask = mask, !.ok = ok]
  <2>1. Reduced(i, i + len) = <<[memory EXCEPT !.mask = mask,
                                   !.ok = @ /\ NoneIs(mask, Base + i, (i + len) - i, "unset")],
                                Mask!BlockValue(mask, Base + i, Base + (i + len))>>
    BY DEF Reduced, Base
  <2>2. memory' = Reduced(i, i + len)[1]
    BY DEF ReduceBlock
  <2> QED BY <2>1, <2>2
<1>3. IsMemory(memory) /\ DOMAIN scanned = {}
  BY <1>1 DEF Scheduled, ScanInOrder
<1> HIDE DEF mask, ok
<1>4. /\ memory'.src = memory.src /\ memory'.buf = memory.buf
      /\ memory'.out = memory.out /\ memory'.out2 = memory.out2
  BY <1>2, <1>3 DEF IsMemory
<1>5. \A k : Copied(k)' = Copied(k)
  BY <1>1, <1>3 DEF Copied
<1> QED BY <1>1, <1>4, <1>5, CopiesStay

LEMMA MaskRightNext ==
  ASSUME Scheduled, MaskMemory, MaskMemory', MaskRight, [ScanNext]_scanVars
  PROVE  MaskRight'
<1>1. scanCall' = scanCall
  BY DEF ScanNext, Serially, Begin, ApexCall, ScanReturns, Finish, ReduceBlock, ScanBlock, CopyRange, scanVars
<1>2. CASE IsSet(scanCall)
  BY <1>1, <1>2, SameMarks DEF MaskRight
<1>3. CASE ~IsSet(scanCall)
  <2>1. ASSUME UNCHANGED <<scanPc, scanAnswer, copies, memory, sums, scanned>> PROVE MaskRight'
    <3>1. \A k : Copied(k)' = Copied(k)
      BY <1>1, <2>1, SameCopied
    <3> QED BY <1>1, <1>3, <2>1, <3>1, CopiesStay
  <2>2. CASE Serially
    BY <1>3, <2>2, MaskSerially
  <2>3. CASE Begin
    BY <1>3, <2>3, MaskStarts
  <2>4. CASE ApexCall
    <3>1. UNCHANGED <<scanPc, scanAnswer, copies, memory, sums, scanned>>
      BY <1>3, <2>4 DEF ApexCall, Contract!Apex
    <3> QED BY <2>1, <3>1
  <2>5. CASE ScanReturns
    BY <1>3, <2>5, MaskJoins
  <2>6. CASE Finish
    BY <1>3, <2>6, MaskFinishes
  <2>7. ASSUME NEW i \in 0..(scanN - 1), NEW len \in 1..(scanN - i), ReduceBlock(i, len) PROVE MaskRight'
    BY <1>3, <2>7, MaskReduces
  <2>8. ASSUME NEW i \in 0..(scanN - 1), NEW len \in 1..(scanN - i), ScanBlock(i, len) PROVE MaskRight'
    BY <1>3, <2>8, MaskScans
  <2>9. ASSUME NEW t \in copies, CopyRange(t) PROVE MaskRight'
    BY <1>3, <2>9, MaskGoesBack
  <2>10. CASE UNCHANGED scanVars
    BY <2>1, <2>10 DEF scanVars, strictScan
  <2> QED BY <2>2, <2>3, <2>4, <2>5, <2>6, <2>7, <2>8, <2>9, <2>10 DEF ScanNext
<1> QED BY <1>2, <1>3

(* Whatever the blocks and the order they are scanned in, and whatever the order in    *)
(* which elements move back, a masked copy (copy_if, partition_copy, unique_copy,       *)
(* remove_if, unique) leaves the elements it keeps, in order, in the output or at the   *)
(* beginning of the range, writes nothing beyond them and returns their end             *)
(* (algorithm_impl.h:1269 to 1475, 1545 to 1711).                                       *)
THEOREM MaskedCopiesAreCorrect == ScanSpec => [](~IsSet(scanCall) => ScanIsCorrect)
<1> DEFINE Kept == Scheduled /\ MaskMemory /\ MaskRight
           Correct == ~IsSet(scanCall) => ScanIsCorrect
<1>1. ScanInit => Kept
  BY ScheduledInit, MaskMemoryInit, MaskRightInit
<1>2. Kept /\ [ScanNext]_scanVars => Kept'
  <2> SUFFICES ASSUME Kept, [ScanNext]_scanVars PROVE Kept'
    OBVIOUS
  <2>1. Scheduled'
    BY ScheduledNext
  <2>2. MaskMemory'
    BY MaskMemoryNext
  <2>3. MaskRight'
    BY <2>2, MaskRightNext
  <2> QED BY <2>1, <2>2, <2>3
<1>3. Kept => Correct
  <2> SUFFICES ASSUME Kept, ~IsSet(scanCall) PROVE ScanIsCorrect
    OBVIOUS
  <2> QED BY ResultGives DEF MaskRight
<1> QED BY <1>1, <1>2, <1>3, PTL DEF ScanSpec
-------------------------------------------------------------------------------
(* What a set operation leaves. A sequence lists some elements of the call if it  *)
(* has each of them, in the order of std's algorithm; there is one such sequence. *)
Lists(c, s, X) ==
  /\ s \in Seq(Items)
  /\ \A x \in 1..Len(s) : s[x] \in X
  /\ \A t \in X : \E x \in 1..Len(s) : s[x] = t
  /\ \A x, y \in 1..Len(s) : x < y => Set!Precedes(c, s[x], s[y])

\* The elements at places [p, e1) and [q, e2) of the sequences.
Within(p, e1, q, e2) == {<<1, k>> : k \in p..(e1 - 1)} \cup {<<2, k>> : k \in q..(e2 - 1)}

LEMMA ElementsAre ==
  ASSUME NEW c, NEW n1, NEW n2, FormedSet(c, n1, n2)
  PROVE  /\ n1 \in Nat /\ n2 \in Nat
         /\ Set!Elements(c) = Within(0, n1, 0, n2)
         /\ Set!Elements(c) \subseteq Items
         /\ \A t \in Set!Elements(c) : Set!Key(c, t) \in Int /\ t[1] \in {1, 2} /\ t[2] \in Nat /\ t = <<t[1], t[2]>>
         /\ \A k \in 0..(n1 - 1) : c.a[k] \in Int /\ Set!Key(c, <<1, k>>) = c.a[k]
         /\ \A k \in 0..(n2 - 1) : c.b[k] \in Int /\ Set!Key(c, <<2, k>>) = c.b[k]
<1>1. n1 \in Nat /\ n2 \in Nat /\ c.a \in [0..(n1 - 1) -> Int] /\ c.b \in [0..(n2 - 1) -> Int]
  BY DEF FormedSet, IsSequence
<1>2. DOMAIN c.a = 0..(n1 - 1) /\ DOMAIN c.b = 0..(n2 - 1)
  BY <1>1
<1>3. Set!Elements(c) = Within(0, n1, 0, n2)
  BY <1>2, Zenon DEF Set!Elements, Within
<1>4. /\ \A k \in 0..(n1 - 1) : c.a[k] \in Int /\ Set!Key(c, <<1, k>>) = c.a[k]
      /\ \A k \in 0..(n2 - 1) : c.b[k] \in Int /\ Set!Key(c, <<2, k>>) = c.b[k]
  BY <1>1 DEF Set!Key
<1>5. Within(0, n1, 0, n2) \subseteq Items
  BY <1>1 DEF Within, Items
<1>6. ASSUME NEW t \in Set!Elements(c)
      PROVE  Set!Key(c, t) \in Int /\ t[1] \in {1, 2} /\ t[2] \in Nat /\ t = <<t[1], t[2]>>
  <2>1. (\E k \in 0..(n1 - 1) : t = <<1, k>>) \/ (\E k \in 0..(n2 - 1) : t = <<2, k>>)
    BY <1>3, Zenon DEF Within
  <2> QED BY <1>1, <1>4, <2>1
<1> QED BY <1>1, <1>3, <1>4, <1>5, <1>6

LEMMA PrecedesOrders ==
  ASSUME NEW c, NEW n1, NEW n2, FormedSet(c, n1, n2)
  PROVE  /\ \A t, u \in Set!Elements(c) : t = u \/ Set!Precedes(c, t, u) \/ Set!Precedes(c, u, t)
         /\ \A t \in Set!Elements(c) : ~Set!Precedes(c, t, t)
         /\ \A t, u, w \in Set!Elements(c) :
              Set!Precedes(c, t, u) /\ Set!Precedes(c, u, w) => Set!Precedes(c, t, w)
<1> DEFINE E == Set!Elements(c)
           key == [t \in E |-> Set!Key(c, t)]
<1>1. \A t \in E : key[t] \in Int /\ key[t] = Set!Key(c, t) /\ t[1] \in Int /\ t[2] \in Int /\ t = <<t[1], t[2]>>
  BY ElementsAre
<1>2. \A t, u \in E : Set!Precedes(c, t, u) <=>
        \/ key[t] < key[u]
        \/ key[t] = key[u] /\ (t[1] < u[1] \/ (t[1] = u[1] /\ t[2] < u[2]))
  BY <1>1 DEF Set!Precedes
<1> HIDE DEF E, key
<1>3. \A t, u \in E : t = u \/ Set!Precedes(c, t, u) \/ Set!Precedes(c, u, t)
  BY <1>1, <1>2
<1>4. \A t \in E : ~Set!Precedes(c, t, t)
  BY <1>1, <1>2
<1>5. \A t, u, w \in E : Set!Precedes(c, t, u) /\ Set!Precedes(c, u, w) => Set!Precedes(c, t, w)
  BY <1>1, <1>2
<1> QED BY <1>3, <1>4, <1>5 DEF E

\* As many elements come before the x-th as there are places before x.
LEMMA PlaceInList ==
  ASSUME NEW c, NEW n1, NEW n2, FormedSet(c, n1, n2), NEW X, X \subseteq Set!Elements(c),
         NEW s, Lists(c, s, X)
  PROVE  /\ Len(s) \in Nat
         /\ \A x, y \in 1..Len(s) : Set!Precedes(c, s[x], s[y]) <=> x < y
         /\ \A x, y \in 1..Len(s) : s[x] = s[y] => x = y
         /\ \A x \in 1..Len(s) : Cardinality({u \in X : Set!Precedes(c, u, s[x])}) = x - 1
         /\ Cardinality(X) = Len(s)
<1>1. Len(s) \in Nat /\ \A x \in 1..Len(s) : s[x] \in X /\ s[x] \in Set!Elements(c)
  BY DEF Lists
<1>2. \A x, y \in 1..Len(s) : Set!Precedes(c, s[x], s[y]) <=> x < y
  <2> SUFFICES ASSUME NEW x \in 1..Len(s), NEW y \in 1..Len(s) PROVE Set!Precedes(c, s[x], s[y]) <=> x < y
    OBVIOUS
  <2>1. x < y => Set!Precedes(c, s[x], s[y])
    BY DEF Lists
  <2>2. y < x => Set!Precedes(c, s[y], s[x])
    BY DEF Lists
  <2>3. ~(Set!Precedes(c, s[x], s[y]) /\ (Set!Precedes(c, s[y], s[x]) \/ x = y))
    BY <1>1, PrecedesOrders
  <2> QED BY <1>1, <2>1, <2>2, <2>3
<1>3. \A x, y \in 1..Len(s) : s[x] = s[y] => x = y
  <2> SUFFICES ASSUME NEW x \in 1..Len(s), NEW y \in 1..Len(s), s[x] = s[y] PROVE x = y
    OBVIOUS
  <2>1. ~Set!Precedes(c, s[x], s[y]) /\ ~Set!Precedes(c, s[y], s[x])
    BY <1>1, PrecedesOrders
  <2> QED BY <1>1, <1>2, <2>1
<1>4. ASSUME NEW m \in 0..Len(s) PROVE Cardinality({s[y] : y \in 1..m}) = m
  <2> DEFINE S == 1..m
             T == {s[y] : y \in S}
             f == [y \in S |-> s[y]]
  <2>1. f \in [S -> T] /\ \A k, l \in S : f[k] = f[l] => k = l
    BY <1>1, <1>3
  <2>2. \A t \in T : \E k \in S : f[k] = t
    OBVIOUS
  <2>3. IsFiniteSet(S) /\ Cardinality(S) = m
    BY <1>1, FS_Interval
  <2> HIDE DEF f, T, S
  <2>4. f \in Injection(S, T) /\ f \in Surjection(S, T)
    BY <2>1, <2>2 DEF Injection, IsInjective, Surjection
  <2>5. ExistsBijection(S, T)
    BY <2>4 DEF ExistsBijection, Bijection
  <2> QED BY <2>3, <2>5, FS_Bijection DEF T, S
<1>5. ASSUME NEW x \in 1..Len(s) PROVE Cardinality({u \in X : Set!Precedes(c, u, s[x])}) = x - 1
  <2>1. {u \in X : Set!Precedes(c, u, s[x])} = {s[y] : y \in 1..(x - 1)}
    <3>1. ASSUME NEW u \in X, Set!Precedes(c, u, s[x]) PROVE \E y \in 1..(x - 1) : u = s[y]
      <4>1. PICK y \in 1..Len(s) : s[y] = u
        BY DEF Lists
      <4>2. y < x
        BY <1>2, <3>1, <4>1
      <4>3. y \in 1..(x - 1)
        BY <1>1, <4>2
      <4> QED BY <4>1, <4>3
    <3>2. ASSUME NEW y \in 1..(x - 1) PROVE s[y] \in X /\ Set!Precedes(c, s[y], s[x])
      <4>1. y \in 1..Len(s) /\ y < x
        BY <1>1
      <4> QED BY <1>1, <1>2, <4>1
    <3> QED BY <3>1, <3>2
  <2>2. x - 1 \in 0..Len(s)
    BY <1>1
  <2> QED BY <1>4, <2>1, <2>2
<1>6. Cardinality(X) = Len(s)
  <2>1. X = {s[y] : y \in 1..Len(s)}
    BY DEF Lists
  <2> QED BY <1>1, <1>4, <2>1
<1> QED BY <1>1, <1>2, <1>3, <1>5, <1>6

LEMMA OneList ==
  ASSUME NEW c, NEW n1, NEW n2, FormedSet(c, n1, n2), NEW X, X \subseteq Set!Elements(c),
         NEW s, Lists(c, s, X), NEW r, Lists(c, r, X)
  PROVE  s = r
<1>1. Len(s) = Len(r) /\ Len(s) \in Nat
  BY PlaceInList
<1>2. ASSUME NEW x \in 1..Len(s) PROVE s[x] = r[x]
  <2>1. s[x] \in X
    BY DEF Lists
  <2>2. PICK y \in 1..Len(r) : r[y] = s[x]
    BY <2>1 DEF Lists
  <2>3. Cardinality({u \in X : Set!Precedes(c, u, s[x])}) = x - 1
    BY PlaceInList
  <2>4. Cardinality({u \in X : Set!Precedes(c, u, r[y])}) = y - 1
    BY PlaceInList
  <2>5. x = y
    BY <1>1, <2>2, <2>3, <2>4
  <2> QED BY <2>2, <2>5
<1>3. s \in Seq(Items) /\ r \in Seq(Items)
  BY DEF Lists
<1> QED BY <1>1, <1>2, <1>3

LEMMA ListsJoin ==
  ASSUME NEW c, NEW X, NEW Y, NEW s, Lists(c, s, X), NEW r, Lists(c, r, Y),
         \A t \in X, u \in Y : Set!Precedes(c, t, u)
  PROVE  Lists(c, s \o r, X \cup Y)
<1> DEFINE m == Len(s)
           n == Len(r)
           j == s \o r
<1>1. /\ s \in Seq(Items) /\ r \in Seq(Items) /\ m \in Nat /\ n \in Nat
      /\ j \in Seq(Items) /\ Len(j) = m + n
      /\ \A x \in 1..m : j[x] = s[x]
      /\ \A x \in (m + 1)..(m + n) : j[x] = r[x - m] /\ x - m \in 1..n
      /\ \A y \in 1..n : j[m + y] = r[y] /\ m + y \in 1..(m + n)
  <2>1. s \in Seq(Items) /\ r \in Seq(Items)
    BY DEF Lists
  <2> QED BY <2>1
<1>2. \A x \in 1..(m + n) : x \in 1..m \/ x \in (m + 1)..(m + n)
  BY <1>1
<1> HIDE DEF m, n, j
<1>3. \A x \in 1..m : s[x] \in X
  BY DEF Lists, m
<1>4. \A x \in 1..n : r[x] \in Y
  BY DEF Lists, n
<1>5. \A x \in 1..(m + n) : j[x] \in X \cup Y
  BY <1>1, <1>2, <1>3, <1>4
<1>6. \A t \in X \cup Y : \E x \in 1..(m + n) : j[x] = t
  <2>1. ASSUME NEW t \in X PROVE \E x \in 1..(m + n) : j[x] = t
    <3>1. PICK x \in 1..m : s[x] = t
      BY DEF Lists, m
    <3>2. x \in 1..(m + n)
      BY <1>1
    <3> QED BY <1>1, <3>1, <3>2
  <2>2. ASSUME NEW t \in Y PROVE \E x \in 1..(m + n) : j[x] = t
    <3>1. PICK x \in 1..n : r[x] = t
      BY DEF Lists, n
    <3> QED BY <1>1, <3>1
  <2> QED BY <2>1, <2>2
<1>7. ASSUME NEW x \in 1..(m + n), NEW y \in 1..(m + n), x < y PROVE Set!Precedes(c, j[x], j[y])
  <2>1. CASE y \in 1..m
    <3>1. x \in 1..m
      BY <1>1, <1>7, <2>1
    <3>2. Set!Precedes(c, s[x], s[y])
      BY <1>7, <2>1, <3>1 DEF Lists, m
    <3> QED BY <1>1, <2>1, <3>1, <3>2
  <2>2. CASE x \in 1..m /\ y \in (m + 1)..(m + n)
    BY <1>1, <1>3, <1>4, <2>2
  <2>3. CASE x \in (m + 1)..(m + n) /\ y \in (m + 1)..(m + n)
    <3>1. x - m \in 1..n /\ y - m \in 1..n /\ x - m < y - m
      BY <1>1, <1>7, <2>3
    <3>2. Set!Precedes(c, r[x - m], r[y - m])
      BY <3>1 DEF Lists, n
    <3> QED BY <1>1, <2>3, <3>2
  <2>4. ~(x \in (m + 1)..(m + n) /\ y \in 1..m)
    BY <1>1, <1>7
  <2> QED BY <1>2, <2>1, <2>2, <2>3, <2>4
<1> QED BY <1>1, <1>5, <1>6, <1>7 DEF Lists, j

LEMMA ShortLists ==
  ASSUME NEW c
  PROVE  /\ Lists(c, <<>>, {})
         /\ \A t \in Items : Lists(c, <<t>>, {t})
<1>1. Lists(c, <<>>, {})
  BY DEF Lists
<1>2. ASSUME NEW t \in Items PROVE Lists(c, <<t>>, {t})
  <2>1. <<t>> \in Seq(Items) /\ Len(<<t>>) = 1 /\ <<t>>[1] = t
    OBVIOUS
  <2>2. \A x \in 1..1 : x = 1
    OBVIOUS
  <2> QED BY <2>1, <2>2 DEF Lists
<1> QED BY <1>1, <1>2

\* The list of the elements to keep is the result of the algorithm.
LEMMA ListIsNth ==
  ASSUME NEW c, NEW n1, NEW n2, FormedSet(c, n1, n2), NEW s, Lists(c, s, Set!Chosen(c))
  PROVE  s = [k \in 1..Cardinality(Set!Chosen(c)) |-> Set!Nth(c, k - 1)]
<1> DEFINE X == Set!Chosen(c)
           Fits(t, k) == Cardinality({u \in X : Set!Precedes(c, u, t)}) = k
<1>1. X \subseteq Set!Elements(c)
  BY DEF Set!Chosen
<1>2. \A k : Set!Nth(c, k) = CHOOSE t \in X : Fits(t, k)
  BY SetCardinality, Zenon DEF Set!Nth
<1>3. Lists(c, s, X)
  OBVIOUS
<1> HIDE DEF X
<1>4. /\ Len(s) \in Nat /\ Cardinality(X) = Len(s)
      /\ \A x, y \in 1..Len(s) : s[x] = s[y] => x = y
      /\ \A x \in 1..Len(s) : Fits(s[x], x - 1)
  BY <1>1, <1>3, PlaceInList
<1> HIDE DEF Fits
<1>5. ASSUME NEW x \in 1..Len(s) PROVE Set!Nth(c, x - 1) = s[x]
  <2>1. s[x] \in X /\ Fits(s[x], x - 1)
    BY <1>3, <1>4 DEF Lists
  <2>2. ASSUME NEW t \in X, Fits(t, x - 1) PROVE t = s[x]
    <3>1. PICK y \in 1..Len(s) : s[y] = t
      BY <1>3 DEF Lists
    <3>2. Fits(t, y - 1)
      BY <1>4, <3>1
    <3>3. x - 1 = y - 1
      BY <2>2, <3>2 DEF Fits
    <3> QED BY <1>4, <3>1, <3>3
  <2>3. (CHOOSE t \in X : Fits(t, x - 1)) = s[x]
    BY <2>1, <2>2
  <2> QED BY <1>2, <2>3
<1>6. s \in Seq(Items)
  BY <1>3 DEF Lists
<1>7. s = [k \in 1..Len(s) |-> s[k]]
  BY <1>6
<1> QED BY <1>4, <1>5, <1>7 DEF X

LEMMA ListResults ==
  ASSUME IsSet(scanCall), FormedScan, NEW s, Lists(scanCall, s, Set!Chosen(scanCall))
  PROVE  Results(TRUE) = s
<1>1. FormedSet(scanCall, N1, N2)
  BY DEF FormedScan
<1> QED BY <1>1, ListIsNth DEF Results

(* The rank of an element among the equal ones of its sequence, and how many of    *)
(* the other sequence are equal to it: what std's algorithms decide by.            *)
From(s, n, key) == Set!LowerBound(s, 0, n, key)
Past(s, n, key) == Set!UpperBound(s, 0, n, key)

AreRanks(s, n, key) ==
  /\ n \in Nat /\ From(s, n, key) \in 0..n /\ Past(s, n, key) \in 0..n /\ From(s, n, key) <= Past(s, n, key)
  /\ \A k \in 0..(n - 1) : s[k] \in Int
  /\ \A k \in 0..(n - 1) : s[k] < key <=> k < From(s, n, key)
  /\ \A k \in 0..(n - 1) : s[k] <= key <=> k < Past(s, n, key)
  /\ \A k \in 0..(n - 1) : s[k] = key <=> From(s, n, key) <= k /\ k < Past(s, n, key)

LEMMA Ranks ==
  ASSUME NEW s, NEW n, IsSequence(s, n), NEW key \in Int
  PROVE  AreRanks(s, n, key)
<1> DEFINE L == From(s, n, key)
           U == Past(s, n, key)
<1>1. n \in Nat /\ \A k \in 0..(n - 1) : s[k] \in Int
  BY DEF IsSequence
<1>2. L \in 0..n /\ (\A k \in 0..(L - 1) : s[k] < key) /\ \A k \in L..(n - 1) : s[k] >= key
  BY <1>1, LowerBounds DEF From
<1>3. U \in 0..n /\ (\A k \in 0..(U - 1) : s[k] <= key) /\ \A k \in U..(n - 1) : s[k] > key
  BY <1>1, UpperBounds DEF Past
<1> HIDE DEF L, U
<1>4. ASSUME NEW k \in 0..(n - 1)
      PROVE  (s[k] < key <=> k < L) /\ (s[k] <= key <=> k < U)
  <2>1. k < L \/ k \in L..(n - 1)
    BY <1>1, <1>2
  <2>2. k < U \/ k \in U..(n - 1)
    BY <1>1, <1>3
  <2> QED BY <1>1, <1>2, <1>3, <2>1, <2>2
<1>5. L <= U
  <2> SUFFICES ASSUME U < L PROVE FALSE
    BY <1>2, <1>3
  <2>1. U \in 0..(n - 1)
    BY <1>1, <1>2, <1>3
  <2> QED BY <1>1, <1>4, <2>1
<1> QED BY <1>1, <1>2, <1>3, <1>4, <1>5 DEF L, U, AreRanks

\* So many elements are at the places from i to before j.
PlacesOf(s, i, j) == {<<s, k>> : k \in i..(j - 1)}

LEMMA PlacesCounted ==
  ASSUME NEW s, NEW i \in Int, NEW j \in Int, i <= j
  PROVE  Cardinality(PlacesOf(s, i, j)) = j - i
<1> DEFINE S == i..(j - 1)
           T == {<<s, k>> : k \in S}
           f == [k \in S |-> <<s, k>>]
<1>1. f \in [S -> T] /\ \A k, l \in S : f[k] = f[l] => k = l
  OBVIOUS
<1>2. \A t \in T : \E k \in S : f[k] = t
  OBVIOUS
<1>3. IsFiniteSet(S) /\ Cardinality(S) = j - i
  <2>1. j - 1 \in Int /\ ~(i > j - 1 /\ j - 1 - i + 1 # 0) /\ (j - 1) - i + 1 = j - i
    OBVIOUS
  <2>2. IsFiniteSet(i..(j - 1)) /\ Cardinality(i..(j - 1)) = IF i > j - 1 THEN 0 ELSE (j - 1) - i + 1
    BY <2>1, FS_Interval
  <2>3. (IF i > j - 1 THEN 0 ELSE (j - 1) - i + 1) = j - i
    OBVIOUS
  <2> QED BY <2>2, <2>3
<1> HIDE DEF f, T, S
<1>4. f \in Injection(S, T) /\ f \in Surjection(S, T)
  BY <1>1, <1>2 DEF Injection, IsInjective, Surjection
<1>5. ExistsBijection(S, T)
  BY <1>4 DEF ExistsBijection, Bijection
<1> QED BY <1>3, <1>5, FS_Bijection DEF T, S, PlacesOf

LEMMA EqualsAre ==
  ASSUME NEW c, NEW n1, NEW n2, FormedSet(c, n1, n2), NEW key \in Int
  PROVE  /\ Set!Equals(c, 1, key) = PlacesOf(1, From(c.a, n1, key), Past(c.a, n1, key))
         /\ Set!Equals(c, 2, key) = PlacesOf(2, From(c.b, n2, key), Past(c.b, n2, key))
<1>1. /\ n1 \in Nat /\ n2 \in Nat /\ IsSequence(c.a, n1) /\ IsSequence(c.b, n2)
      /\ Set!Elements(c) = Within(0, n1, 0, n2)
      /\ \A k \in 0..(n1 - 1) : Set!Key(c, <<1, k>>) = c.a[k]
      /\ \A k \in 0..(n2 - 1) : Set!Key(c, <<2, k>>) = c.b[k]
  BY ElementsAre DEF FormedSet
<1>2. Set!Equals(c, 1, key) = {<<1, k>> : k \in {l \in 0..(n1 - 1) : c.a[l] = key}}
  BY <1>1 DEF Set!Equals, Within
<1>3. Set!Equals(c, 2, key) = {<<2, k>> : k \in {l \in 0..(n2 - 1) : c.b[l] = key}}
  BY <1>1 DEF Set!Equals, Within
<1>4. ASSUME NEW s, NEW n, IsSequence(s, n)
      PROVE  {l \in 0..(n - 1) : s[l] = key} = From(s, n, key)..(Past(s, n, key) - 1)
  <2> DEFINE L == From(s, n, key)
             U == Past(s, n, key)
  <2>1. /\ n \in Nat /\ L \in 0..n /\ U \in 0..n
        /\ \A k \in 0..(n - 1) : s[k] = key <=> L <= k /\ k < U
    BY <1>4, Ranks DEF AreRanks
  <2> SUFFICES {l \in 0..(n - 1) : s[l] = key} = L..(U - 1)
    OBVIOUS
  <2> HIDE DEF L, U
  <2>2. \A l : l \in L..(U - 1) <=> l \in 0..(n - 1) /\ L <= l /\ l < U
    BY <2>1
  <2> QED BY <2>1, <2>2
<1>5. /\ {l \in 0..(n1 - 1) : c.a[l] = key} = From(c.a, n1, key)..(Past(c.a, n1, key) - 1)
      /\ {l \in 0..(n2 - 1) : c.b[l] = key} = From(c.b, n2, key)..(Past(c.b, n2, key) - 1)
  BY <1>1, <1>4
<1> QED BY <1>2, <1>3, <1>5 DEF PlacesOf

\* Whether an element of sequence s is kept, lacking being that its rank is no less
\* than the number of elements of the other sequence that are equal to it.
Kept(alg, s, lacking) ==
  CASE alg = "union"        -> s = 1 \/ lacking
    [] alg = "intersection" -> s = 1 /\ ~lacking
    [] alg = "difference"   -> s = 1 /\ lacking
    [] OTHER                -> lacking

Lacks(s, n, r, m, k) == k - From(s, n, s[k]) >= Past(r, m, s[k]) - From(r, m, s[k])

LEMMA RankCounted ==
  ASSUME NEW s \in {1, 2}, NEW i \in Int, NEW j \in Int, NEW k \in i..(j - 1)
  PROVE  Cardinality({u \in PlacesOf(s, i, j) : u[2] < k}) = k - i
<1>1. i \in Int /\ k \in Int /\ i <= k
  OBVIOUS
<1>2. \A l : l \in i..(j - 1) /\ l < k <=> l \in i..(k - 1)
  OBVIOUS
<1>3. \A l : <<s, l>>[2] = l
  OBVIOUS
<1>4. {u \in PlacesOf(s, i, j) : u[2] < k} = PlacesOf(s, i, k)
  BY <1>2, <1>3, Zenon DEF PlacesOf
<1> QED BY <1>1, <1>4, PlacesCounted

LEMMA ChosenIs ==
  ASSUME NEW c, NEW n1, NEW n2, FormedSet(c, n1, n2)
  PROVE  /\ \A k \in 0..(n1 - 1) : <<1, k>> \in Set!Chosen(c) <=> Kept(c.alg, 1, Lacks(c.a, n1, c.b, n2, k))
         /\ \A k \in 0..(n2 - 1) : <<2, k>> \in Set!Chosen(c) <=> Kept(c.alg, 2, Lacks(c.b, n2, c.a, n1, k))
         /\ Set!Chosen(c) \subseteq Set!Elements(c)
<1>1. /\ n1 \in Nat /\ n2 \in Nat /\ IsSequence(c.a, n1) /\ IsSequence(c.b, n2)
      /\ \A k \in 0..(n1 - 1) : c.a[k] \in Int /\ Set!Key(c, <<1, k>>) = c.a[k]
      /\ \A k \in 0..(n2 - 1) : c.b[k] \in Int /\ Set!Key(c, <<2, k>>) = c.b[k]
      /\ \A k \in 0..(n1 - 1) : <<1, k>> \in Set!Elements(c)
      /\ \A k \in 0..(n2 - 1) : <<2, k>> \in Set!Elements(c)
  BY ElementsAre DEF FormedSet, Within
<1>2. ASSUME NEW key \in Int
      PROVE  /\ Set!Cardinality(Set!Equals(c, 1, key)) = Past(c.a, n1, key) - From(c.a, n1, key)
             /\ Set!Cardinality(Set!Equals(c, 2, key)) = Past(c.b, n2, key) - From(c.b, n2, key)
  <2>1. /\ From(c.a, n1, key) \in Int /\ Past(c.a, n1, key) \in Int /\ From(c.a, n1, key) <= Past(c.a, n1, key)
        /\ From(c.b, n2, key) \in Int /\ Past(c.b, n2, key) \in Int /\ From(c.b, n2, key) <= Past(c.b, n2, key)
    <3>1. AreRanks(c.a, n1, key) /\ AreRanks(c.b, n2, key)
      BY <1>1, Ranks
    <3> QED BY <3>1 DEF AreRanks
  <2>2. /\ Cardinality(PlacesOf(1, From(c.a, n1, key), Past(c.a, n1, key))) = Past(c.a, n1, key) - From(c.a, n1, key)
        /\ Cardinality(PlacesOf(2, From(c.b, n2, key), Past(c.b, n2, key))) = Past(c.b, n2, key) - From(c.b, n2, key)
    BY <2>1, PlacesCounted
  <2> QED BY <2>2, EqualsAre, SetCardinality, Zenon
<1>3. ASSUME NEW k \in 0..(n1 - 1)
      PROVE  <<1, k>> \in Set!Chosen(c) <=> Kept(c.alg, 1, Lacks(c.a, n1, c.b, n2, k))
  <2> DEFINE key == c.a[k]
             t == <<1, k>>
             rank == Set!Cardinality({u \in Set!Equals(c, 1, key) : u[2] < k})
  <2>1. key \in Int /\ Set!Key(c, t) = key /\ t \in Set!Elements(c)
    BY <1>1
  <2>2. t[1] = 1 /\ t[2] = k /\ 3 - t[1] = 2
    OBVIOUS
  <2> HIDE DEF key
  <2>3. From(c.a, n1, key) \in Int /\ Past(c.a, n1, key) \in Int /\ k \in From(c.a, n1, key)..(Past(c.a, n1, key) - 1)
    <3>1. AreRanks(c.a, n1, key) /\ c.a[k] = key
      BY <1>1, <2>1, Ranks DEF key
    <3> QED BY <3>1 DEF AreRanks
  <2>4. Cardinality({u \in PlacesOf(1, From(c.a, n1, key), Past(c.a, n1, key)) : u[2] < k}) = k - From(c.a, n1, key)
    BY <2>3, RankCounted
  <2>5. rank = k - From(c.a, n1, key)
    BY <2>1, <2>4, EqualsAre, SetCardinality, Zenon
  <2>6. Set!Cardinality(Set!Equals(c, 2, key)) = Past(c.b, n2, key) - From(c.b, n2, key)
    BY <1>2, <2>1
  <2> DEFINE other == Set!Cardinality(Set!Equals(c, 2, key))
  <2>7. t \in Set!Chosen(c) <=>
          CASE c.alg = "union"        -> t[1] = 1 \/ rank >= other
            [] c.alg = "intersection" -> t[1] = 1 /\ rank < other
            [] c.alg = "difference"   -> t[1] = 1 /\ rank >= other
            [] OTHER                  -> rank >= other
    <3> HIDE DEF t
    <3> QED BY <2>1, <2>2 DEF Set!Chosen
  <2>8. Lacks(c.a, n1, c.b, n2, k) <=> rank >= other
    BY <2>5, <2>6 DEF Lacks, key
  <2>9. rank \in Int /\ other \in Int
    <3>1. AreRanks(c.a, n1, key) /\ AreRanks(c.b, n2, key)
      BY <1>1, <2>1, Ranks
    <3> QED BY <2>3, <2>5, <2>6, <3>1 DEF AreRanks
  <2>10. rank < other <=> ~(rank >= other)
    <3> HIDE DEF rank, other
    <3> QED BY <2>9
  <2> HIDE DEF rank, other
  <2> QED BY <2>2, <2>7, <2>8, <2>10, Zenon DEF Kept
<1>4. ASSUME NEW k \in 0..(n2 - 1)
      PROVE  <<2, k>> \in Set!Chosen(c) <=> Kept(c.alg, 2, Lacks(c.b, n2, c.a, n1, k))
  <2> DEFINE key == c.b[k]
             t == <<2, k>>
             rank == Set!Cardinality({u \in Set!Equals(c, 2, key) : u[2] < k})
  <2>1. key \in Int /\ Set!Key(c, t) = key /\ t \in Set!Elements(c)
    BY <1>1
  <2>2. t[1] = 2 /\ t[2] = k /\ 3 - t[1] = 1
    OBVIOUS
  <2> HIDE DEF key
  <2>3. From(c.b, n2, key) \in Int /\ Past(c.b, n2, key) \in Int /\ k \in From(c.b, n2, key)..(Past(c.b, n2, key) - 1)
    <3>1. AreRanks(c.b, n2, key) /\ c.b[k] = key
      BY <1>1, <2>1, Ranks DEF key
    <3> QED BY <3>1 DEF AreRanks
  <2>4. Cardinality({u \in PlacesOf(2, From(c.b, n2, key), Past(c.b, n2, key)) : u[2] < k}) = k - From(c.b, n2, key)
    BY <2>3, RankCounted
  <2>5. rank = k - From(c.b, n2, key)
    BY <2>1, <2>4, EqualsAre, SetCardinality, Zenon
  <2>6. Set!Cardinality(Set!Equals(c, 1, key)) = Past(c.a, n1, key) - From(c.a, n1, key)
    BY <1>2, <2>1
  <2> DEFINE other == Set!Cardinality(Set!Equals(c, 1, key))
  <2>7. t \in Set!Chosen(c) <=>
          CASE c.alg = "union"        -> t[1] = 1 \/ rank >= other
            [] c.alg = "intersection" -> t[1] = 1 /\ rank < other
            [] c.alg = "difference"   -> t[1] = 1 /\ rank >= other
            [] OTHER                  -> rank >= other
    <3> HIDE DEF t
    <3> QED BY <2>1, <2>2 DEF Set!Chosen
  <2>8. Lacks(c.b, n2, c.a, n1, k) <=> rank >= other
    BY <2>5, <2>6 DEF Lacks, key
  <2>9. rank \in Int /\ other \in Int
    <3>1. AreRanks(c.a, n1, key) /\ AreRanks(c.b, n2, key)
      BY <1>1, <2>1, Ranks
    <3> QED BY <2>3, <2>5, <2>6, <3>1 DEF AreRanks
  <2>10. rank < other <=> ~(rank >= other) /\ 1 # 2
    <3> HIDE DEF rank, other
    <3> QED BY <2>9
  <2>11. t[1] # 1
    OBVIOUS
  <2> HIDE DEF rank, other
  <2> QED BY <2>2, <2>7, <2>8, <2>10, <2>11, Zenon DEF Kept
<1> QED BY <1>3, <1>4 DEF Set!Chosen

LEMMA FromIs ==
  ASSUME NEW s, NEW n, IsSequence(s, n), NEW key \in Int, NEW m \in 0..n,
         m = 0 \/ s[m - 1] < key, m = n \/ s[m] >= key
  PROVE  From(s, n, key) = m
<1>1. AreRanks(s, n, key)
  BY Ranks
<1> DEFINE L == From(s, n, key)
<1>2. /\ n \in Nat /\ L \in 0..n
      /\ \A k \in 0..(n - 1) : s[k] \in Int /\ (s[k] < key <=> k < L)
  BY <1>1 DEF AreRanks
<1> HIDE DEF L
<1>3. m > 0 => m - 1 < L
  BY <1>2
<1>4. m < n => ~(m < L)
  BY <1>2
<1> QED BY <1>2, <1>3, <1>4 DEF L

LEMMA PastIs ==
  ASSUME NEW s, NEW n, IsSequence(s, n), NEW key \in Int, NEW m \in 0..n,
         m = 0 \/ s[m - 1] <= key, m = n \/ s[m] > key
  PROVE  Past(s, n, key) = m
<1>1. AreRanks(s, n, key)
  BY Ranks
<1> DEFINE U == Past(s, n, key)
<1>2. /\ n \in Nat /\ U \in 0..n
      /\ \A k \in 0..(n - 1) : s[k] \in Int /\ (s[k] <= key <=> k < U)
  BY <1>1 DEF AreRanks
<1> HIDE DEF U
<1>3. m > 0 => m - 1 < U
  BY <1>2
<1>4. m < n => ~(m < U)
  BY <1>2
<1> QED BY <1>2, <1>3, <1>4 DEF U

LEMMA RankIs ==
  ASSUME NEW s, NEW n, IsSequence(s, n), NEW k \in 0..(n - 1)
  PROVE  /\ s[k] \in Int /\ From(s, n, s[k]) \in Nat /\ Past(s, n, s[k]) \in Nat
         /\ From(s, n, s[k]) <= k /\ k < Past(s, n, s[k])
<1>1. s[k] \in Int /\ n \in Nat
  BY DEF IsSequence
<1>2. AreRanks(s, n, s[k])
  BY <1>1, Ranks
<1> QED BY <1>1, <1>2 DEF AreRanks

(* The places p and q that merging two sequences passes: equal elements are passed   *)
(* in pairs, so that one passed alone has no partner.                                *)
InStep(s, n, r, m, p, q) ==
  /\ (p > 0 /\ q < m) => s[p - 1] <= r[q]
  /\ (q > 0 /\ p < n) => r[q - 1] <= s[p]
  /\ (p < n /\ q < m /\ s[p] = r[q]) => p - From(s, n, s[p]) = q - From(r, m, r[q])
  /\ (p < n /\ (q = m \/ s[p] < r[q])) => Lacks(s, n, r, m, p)
  /\ (q < m /\ (p = n \/ r[q] < s[p])) => Lacks(r, m, s, n, q)

LEMMA InStepBothWays ==
  ASSUME NEW s, NEW n, NEW r, NEW m, IsSequence(s, n), IsSequence(r, m), NEW p \in 0..n, NEW q \in 0..m
  PROVE  InStep(s, n, r, m, p, q) <=> InStep(r, m, s, n, q, p)
<1>1. n \in Nat /\ m \in Nat /\ (\A k \in 0..(n - 1) : s[k] \in Int) /\ (\A k \in 0..(m - 1) : r[k] \in Int)
  BY DEF IsSequence
<1>2. (p < n /\ q < m /\ s[p] = r[q]) =>
        (p - From(s, n, s[p]) = q - From(r, m, r[q]) <=> q - From(r, m, r[q]) = p - From(s, n, s[p]))
  OBVIOUS
<1> QED BY <1>1, <1>2 DEF InStep

LEMMA FirstPassed ==
  ASSUME NEW s, NEW n, NEW r, NEW m, IsSequence(s, n), IsSequence(r, m),
         NEW p \in 0..(n - 1), NEW q \in 0..m, q = m \/ s[p] < r[q], InStep(s, n, r, m, p, q)
  PROVE  InStep(s, n, r, m, p + 1, q)
<1>1. /\ n \in Nat /\ m \in Nat
      /\ \A k \in 0..(n - 1) : s[k] \in Int
      /\ \A k \in 0..(m - 1) : r[k] \in Int
      /\ p + 1 < n => s[p] <= s[p + 1] /\ s[p + 1] \in Int
  BY DEF IsSequence
<1>2. s[p] \in Int /\ p + 1 \in 0..n /\ (p + 1) - 1 = p /\ p < n
  BY <1>1
<1>3. q > 0 => r[q - 1] <= s[p] /\ r[q - 1] \in Int
  BY <1>1, <1>2 DEF InStep
<1>4. q < m => r[q] \in Int /\ s[p] < r[q]
  BY <1>1
<1>5. (p + 1 < n /\ q < m /\ s[p + 1] = r[q]) => (p + 1) - From(s, n, s[p + 1]) = q - From(r, m, r[q])
  <2> SUFFICES ASSUME p + 1 < n, q < m, s[p + 1] = r[q]
               PROVE  (p + 1) - From(s, n, s[p + 1]) = q - From(r, m, r[q])
    OBVIOUS
  <2>1. From(s, n, s[p + 1]) = p + 1
    BY <1>1, <1>2, <1>4, FromIs
  <2>2. From(r, m, r[q]) = q
    BY <1>1, <1>3, <1>4, FromIs
  <2> QED BY <2>1, <2>2
<1>6. (p + 1 < n /\ (q = m \/ s[p + 1] < r[q])) => Lacks(s, n, r, m, p + 1)
  <2> SUFFICES ASSUME p + 1 < n, q = m \/ s[p + 1] < r[q] PROVE Lacks(s, n, r, m, p + 1)
    OBVIOUS
  <2>1. CASE s[p + 1] = s[p]
    <3>1. Lacks(s, n, r, m, p)
      BY <1>2 DEF InStep
    <3>2. From(s, n, s[p]) \in Nat
      BY <1>1, RankIs
    <3>3. AreRanks(r, m, s[p])
      BY <1>2, Ranks
    <3>4. From(r, m, s[p]) \in Int /\ Past(r, m, s[p]) \in Int
      BY <1>1, <3>3 DEF AreRanks
    <3> QED BY <2>1, <3>1, <3>2, <3>4 DEF Lacks
  <2>2. CASE s[p + 1] # s[p]
    <3>1. s[p] < s[p + 1]
      BY <1>1, <1>2, <2>2
    <3>2. From(s, n, s[p + 1]) = p + 1
      BY <1>1, <1>2, <3>1, FromIs
    <3>3. From(r, m, s[p + 1]) = q /\ Past(r, m, s[p + 1]) = q
      <4>1. q = 0 \/ r[q - 1] < s[p + 1]
        BY <1>1, <1>2, <1>3, <3>1
      <4>2. q = 0 \/ r[q - 1] <= s[p + 1]
        BY <1>1, <1>3, <4>1
      <4>3. q = m \/ r[q] >= s[p + 1]
        BY <1>1, <1>4
      <4>4. q = m \/ r[q] > s[p + 1]
        BY <1>1, <1>4
      <4>5. s[p + 1] \in Int
        BY <1>1
      <4>6. From(r, m, s[p + 1]) = q
        BY <4>1, <4>3, <4>5, FromIs
      <4>7. Past(r, m, s[p + 1]) = q
        BY <4>2, <4>4, <4>5, PastIs
      <4> QED BY <4>6, <4>7
    <3> QED BY <3>2, <3>3 DEF Lacks
  <2> QED BY <2>1, <2>2
<1>7. (q < m /\ (p + 1 = n \/ r[q] < s[p + 1])) => Lacks(r, m, s, n, q)
  <2> SUFFICES ASSUME q < m, p + 1 = n \/ r[q] < s[p + 1] PROVE Lacks(r, m, s, n, q)
    OBVIOUS
  <2>1. From(s, n, r[q]) = p + 1 /\ Past(s, n, r[q]) = p + 1
    <3>1. s[p] < r[q] /\ s[p] <= r[q] /\ r[q] \in Int
      BY <1>2, <1>4
    <3>2. p + 1 = n \/ s[p + 1] >= r[q]
      BY <1>1, <3>1
    <3>3. p + 1 = n \/ s[p + 1] > r[q]
      BY <1>1, <3>1
    <3>4. From(s, n, r[q]) = p + 1
      BY <1>2, <3>1, <3>2, FromIs
    <3>5. Past(s, n, r[q]) = p + 1
      BY <1>2, <3>1, <3>3, PastIs
    <3> QED BY <3>4, <3>5
  <2>2. q \in 0..(m - 1)
    BY <1>1
  <2>3. From(r, m, r[q]) \in Nat /\ From(r, m, r[q]) <= q
    BY <2>2, RankIs
  <2> QED BY <2>1, <2>2, <2>3 DEF Lacks
<1>8. q < m => s[(p + 1) - 1] <= r[q]
  BY <1>2, <1>4
<1>9. (q > 0 /\ p + 1 < n) => r[q - 1] <= s[p + 1]
  BY <1>1, <1>2, <1>3
<1> QED BY <1>5, <1>6, <1>7, <1>8, <1>9 DEF InStep

LEMMA BothPassed ==
  ASSUME NEW s, NEW n, NEW r, NEW m, IsSequence(s, n), IsSequence(r, m),
         NEW p \in 0..(n - 1), NEW q \in 0..(m - 1), s[p] = r[q], InStep(s, n, r, m, p, q)
  PROVE  InStep(s, n, r, m, p + 1, q + 1) /\ ~Lacks(s, n, r, m, p) /\ ~Lacks(r, m, s, n, q)
<1>1. /\ n \in Nat /\ m \in Nat
      /\ \A k \in 0..(n - 1) : s[k] \in Int
      /\ \A k \in 0..(m - 1) : r[k] \in Int
      /\ p + 1 < n => s[p] <= s[p + 1] /\ s[p + 1] \in Int
      /\ q + 1 < m => r[q] <= r[q + 1] /\ r[q + 1] \in Int
  BY DEF IsSequence
<1>2. /\ s[p] \in Int /\ r[q] \in Int /\ p + 1 \in 0..n /\ q + 1 \in 0..m
      /\ (p + 1) - 1 = p /\ (q + 1) - 1 = q /\ p < n /\ q < m
  BY <1>1
<1>3. /\ From(s, n, s[p]) \in Nat /\ Past(s, n, s[p]) \in Nat /\ p < Past(s, n, s[p])
      /\ From(r, m, r[q]) \in Nat /\ Past(r, m, r[q]) \in Nat /\ q < Past(r, m, r[q])
  BY RankIs
<1>4. p - From(s, n, s[p]) = q - From(r, m, r[q])
  BY <1>2 DEF InStep
<1>5. ~Lacks(s, n, r, m, p) /\ ~Lacks(r, m, s, n, q)
  BY <1>3, <1>4 DEF Lacks
<1>6. (p + 1 < n /\ q + 1 < m /\ s[p + 1] = r[q + 1]) =>
        (p + 1) - From(s, n, s[p + 1]) = (q + 1) - From(r, m, r[q + 1])
  <2> SUFFICES ASSUME p + 1 < n, q + 1 < m, s[p + 1] = r[q + 1]
               PROVE  (p + 1) - From(s, n, s[p + 1]) = (q + 1) - From(r, m, r[q + 1])
    OBVIOUS
  <2>1. CASE s[p + 1] = s[p]
    BY <1>2, <1>3, <1>4, <2>1
  <2>2. CASE s[p + 1] # s[p]
    <3>1. s[p] < s[p + 1] /\ r[q] < r[q + 1] /\ s[p + 1] \in Int /\ r[q + 1] \in Int
      BY <1>1, <1>2, <2>2
    <3>2. From(s, n, s[p + 1]) = p + 1
      BY <1>2, <3>1, FromIs
    <3>3. From(r, m, r[q + 1]) = q + 1
      BY <1>2, <3>1, FromIs
    <3> QED BY <3>2, <3>3
  <2> QED BY <2>1, <2>2
<1>7. ASSUME NEW t, NEW i, NEW u, NEW j, IsSequence(t, i), IsSequence(u, j), i \in Nat, j \in Nat,
             NEW x \in 0..(i - 1), NEW y \in 0..(j - 1), t[x] = u[y],
             x - From(t, i, t[x]) = y - From(u, j, u[y]),
             x + 1 < i, y + 1 = j \/ t[x + 1] < u[y + 1]
      PROVE  Lacks(t, i, u, j, x + 1)
  <2>1. /\ t[x] \in Int /\ u[y] \in Int /\ t[x + 1] \in Int /\ t[x] <= t[x + 1]
        /\ y + 1 < j => u[y + 1] \in Int
    BY <1>7 DEF IsSequence
  <2>2. x + 1 \in 0..i /\ y + 1 \in 0..j /\ (x + 1) - 1 = x /\ (y + 1) - 1 = y
    BY <1>7
  <2>3. From(t, i, t[x]) \in Nat /\ From(u, j, u[y]) \in Nat
    BY <1>7, RankIs
  <2>4. y + 1 = j \/ (u[y + 1] > t[x + 1] /\ u[y + 1] >= t[x + 1])
    BY <1>7, <2>1
  <2>5. CASE t[x + 1] = t[x]
    <3>1. Past(u, j, t[x]) = y + 1
      <4>1. u[y] <= t[x] /\ (y + 1 = j \/ u[y + 1] > t[x])
        BY <1>7, <2>1, <2>4, <2>5
      <4> QED BY <1>7, <2>1, <2>2, <4>1, PastIs
    <3> QED BY <1>7, <2>2, <2>3, <2>5, <3>1 DEF Lacks
  <2>6. CASE t[x + 1] # t[x]
    <3>1. t[x] < t[x + 1] /\ u[y] < t[x + 1] /\ u[y] <= t[x + 1]
      BY <1>7, <2>1, <2>6
    <3>2. From(t, i, t[x + 1]) = x + 1
      BY <1>7, <2>1, <2>2, <3>1, FromIs
    <3>3. From(u, j, t[x + 1]) = y + 1
      <4>1. u[(y + 1) - 1] < t[x + 1]
        BY <2>2, <3>1
      <4>2. y + 1 = j \/ u[y + 1] >= t[x + 1]
        BY <2>4
      <4>3. t[x + 1] \in Int
        BY <2>1
      <4> QED BY <1>7, <2>2, <4>1, <4>2, <4>3, FromIs
    <3>4. Past(u, j, t[x + 1]) = y + 1
      BY <1>7, <2>1, <2>2, <2>4, <3>1, PastIs
    <3> QED BY <2>2, <3>2, <3>3, <3>4 DEF Lacks
  <2> QED BY <2>5, <2>6
<1>8. (p + 1 < n /\ (q + 1 = m \/ s[p + 1] < r[q + 1])) => Lacks(s, n, r, m, p + 1)
  BY <1>1, <1>4, <1>7
<1>9. (q + 1 < m /\ (p + 1 = n \/ r[q + 1] < s[p + 1])) => Lacks(r, m, s, n, q + 1)
  <2>1. r[q] = s[p] /\ q - From(r, m, r[q]) = p - From(s, n, s[p])
    BY <1>4
  <2> QED BY <1>1, <1>7, <2>1
<1>10. q + 1 < m => s[(p + 1) - 1] <= r[q + 1]
  BY <1>1, <1>2
<1>11. p + 1 < n => r[(q + 1) - 1] <= s[p + 1]
  BY <1>1, <1>2
<1> QED BY <1>5, <1>6, <1>8, <1>9, <1>10, <1>11 DEF InStep

(* A place of both sequences that everything before is less than everything after.   *)
CutAt(c, n1, n2, x, y) ==
  /\ x \in 0..n1 /\ y \in 0..n2
  /\ \A k \in 0..(x - 1) : /\ \A l \in x..(n1 - 1) : c.a[k] < c.a[l]
                           /\ \A l \in y..(n2 - 1) : c.a[k] < c.b[l]
  /\ \A k \in 0..(y - 1) : /\ \A l \in x..(n1 - 1) : c.b[k] < c.a[l]
                           /\ \A l \in y..(n2 - 1) : c.b[k] < c.b[l]

LEMMA CutInStep ==
  ASSUME NEW c, NEW n1, NEW n2, FormedSet(c, n1, n2), NEW x, NEW y, CutAt(c, n1, n2, x, y)
  PROVE  InStep(c.a, n1, c.b, n2, x, y)
<1> DEFINE s == c.a
           r == c.b
<1>1. /\ n1 \in Nat /\ n2 \in Nat /\ IsSequence(s, n1) /\ IsSequence(r, n2)
      /\ \A k \in 0..(n1 - 1) : s[k] \in Int
      /\ \A k \in 0..(n2 - 1) : r[k] \in Int
  BY ElementsAre DEF FormedSet
<1>2. /\ x \in 0..n1 /\ y \in 0..n2
      /\ x > 0 /\ x < n1 => s[x - 1] < s[x]
      /\ x > 0 /\ y < n2 => s[x - 1] < r[y]
      /\ y > 0 /\ x < n1 => r[y - 1] < s[x]
      /\ y > 0 /\ y < n2 => r[y - 1] < r[y]
  BY <1>1 DEF CutAt
<1> HIDE DEF s, r
<1>3. /\ x > 0 => s[x - 1] \in Int
      /\ y > 0 => r[y - 1] \in Int
      /\ x < n1 => s[x] \in Int
      /\ y < n2 => r[y] \in Int
  BY <1>1, <1>2
<1>4. ASSUME x < n1
      PROVE  /\ From(s, n1, s[x]) = x
             /\ (y = n2 \/ s[x] < r[y]) => From(r, n2, s[x]) = y /\ Past(r, n2, s[x]) = y
  <2>1. From(s, n1, s[x]) = x
    BY <1>1, <1>2, <1>3, <1>4, FromIs
  <2>2. ASSUME y = n2 \/ s[x] < r[y] PROVE From(r, n2, s[x]) = y /\ Past(r, n2, s[x]) = y
    <3>1. (y = 0 \/ r[y - 1] < s[x]) /\ (y = 0 \/ r[y - 1] <= s[x])
      BY <1>2, <1>3, <1>4
    <3>2. (y = n2 \/ r[y] >= s[x]) /\ (y = n2 \/ r[y] > s[x])
      BY <1>1, <1>2, <1>3, <1>4, <2>2
    <3>3. From(r, n2, s[x]) = y
      BY <1>1, <1>2, <1>3, <1>4, <3>1, <3>2, FromIs
    <3>4. Past(r, n2, s[x]) = y
      BY <1>1, <1>2, <1>3, <1>4, <3>1, <3>2, PastIs
    <3> QED BY <3>3, <3>4
  <2> QED BY <2>1, <2>2
<1>5. ASSUME y < n2
      PROVE  /\ From(r, n2, r[y]) = y
             /\ (x = n1 \/ r[y] < s[x]) => From(s, n1, r[y]) = x /\ Past(s, n1, r[y]) = x
  <2>1. From(r, n2, r[y]) = y
    BY <1>1, <1>2, <1>3, <1>5, FromIs
  <2>2. ASSUME x = n1 \/ r[y] < s[x] PROVE From(s, n1, r[y]) = x /\ Past(s, n1, r[y]) = x
    <3>1. (x = 0 \/ s[x - 1] < r[y]) /\ (x = 0 \/ s[x - 1] <= r[y])
      BY <1>2, <1>3, <1>5
    <3>2. (x = n1 \/ s[x] >= r[y]) /\ (x = n1 \/ s[x] > r[y])
      BY <1>1, <1>2, <1>3, <1>5, <2>2
    <3>3. From(s, n1, r[y]) = x
      BY <1>1, <1>2, <1>3, <1>5, <3>1, <3>2, FromIs
    <3>4. Past(s, n1, r[y]) = x
      BY <1>1, <1>2, <1>3, <1>5, <3>1, <3>2, PastIs
    <3> QED BY <3>3, <3>4
  <2> QED BY <2>1, <2>2
<1>6. InStep(s, n1, r, n2, x, y)
  BY <1>1, <1>2, <1>3, <1>4, <1>5 DEF InStep, Lacks
<1> QED BY <1>6 DEF s, r

LEMMA WithinSplits ==
  ASSUME NEW e1 \in Nat, NEW e2 \in Nat, NEW p \in 0..e1, NEW q \in 0..e2
  PROVE  /\ p < e1 => Within(p, e1, q, e2) = {<<1, p>>} \cup Within(p + 1, e1, q, e2)
         /\ q < e2 => Within(p, e1, q, e2) = {<<2, q>>} \cup Within(p, e1, q + 1, e2)
         /\ p = e1 /\ q = e2 => Within(p, e1, q, e2) = {}
<1>1. /\ p < e1 => p..(e1 - 1) = {p} \cup ((p + 1)..(e1 - 1))
      /\ q < e2 => q..(e2 - 1) = {q} \cup ((q + 1)..(e2 - 1))
      /\ p = e1 => p..(e1 - 1) = {}
      /\ q = e2 => q..(e2 - 1) = {}
  OBVIOUS
<1> QED BY <1>1, Zenon DEF Within

LEMMA OneMore ==
  ASSUME NEW c, NEW t \in Items, NEW C, NEW X, NEW s, Lists(c, s, C \cap X),
         \A u \in X : Set!Precedes(c, t, u), NEW keep \in BOOLEAN, keep <=> t \in C
  PROVE  Lists(c, (IF keep THEN <<t>> ELSE <<>>) \o s, C \cap ({t} \cup X))
<1>1. CASE keep
  <2>1. Lists(c, <<t>>, {t})
    BY ShortLists
  <2>2. \A x \in {t}, u \in C \cap X : Set!Precedes(c, x, u)
    OBVIOUS
  <2>3. Lists(c, <<t>> \o s, {t} \cup (C \cap X))
    BY <2>1, <2>2, ListsJoin
  <2>4. C \cap ({t} \cup X) = {t} \cup (C \cap X)
    BY <1>1
  <2> QED BY <1>1, <2>3, <2>4
<1>2. CASE ~keep
  <2>1. C \cap ({t} \cup X) = C \cap X
    BY <1>2
  <2>2. <<>> \o s = s
    BY DEF Lists
  <2> QED BY <1>2, <2>1, <2>2
<1> QED BY <1>1, <1>2

LEMMA FirstPrecedes ==
  ASSUME NEW c, NEW n1, NEW n2, FormedSet(c, n1, n2), NEW e1 \in 0..n1, NEW e2 \in 0..n2,
         NEW p \in 0..(e1 - 1), NEW q \in 0..e2, q < e2 => c.a[p] <= c.b[q]
  PROVE  \A u \in Within(p + 1, e1, q, e2) : Set!Precedes(c, <<1, p>>, u)
<1>1. /\ n1 \in Nat /\ n2 \in Nat
      /\ \A k \in 0..(n1 - 1) : c.a[k] \in Int /\ Set!Key(c, <<1, k>>) = c.a[k]
      /\ \A k \in 0..(n2 - 1) : c.b[k] \in Int /\ Set!Key(c, <<2, k>>) = c.b[k]
      /\ \A k, l \in 0..(n1 - 1) : k <= l => c.a[k] <= c.a[l]
      /\ \A k, l \in 0..(n2 - 1) : k <= l => c.b[k] <= c.b[l]
  BY ElementsAre DEF FormedSet, IsSequence
<1>2. ASSUME NEW k \in (p + 1)..(e1 - 1) PROVE Set!Precedes(c, <<1, p>>, <<1, k>>)
  <2>1. /\ p \in 0..(n1 - 1) /\ k \in 0..(n1 - 1) /\ p < k /\ p <= k
    BY <1>1
  <2>2. c.a[p] \in Int /\ c.a[k] \in Int /\ c.a[p] <= c.a[k]
    BY <1>1, <2>1
  <2>3. c.a[p] < c.a[k] \/ c.a[p] = c.a[k]
    BY <2>2
  <2>4. /\ <<1, p>>[1] = 1 /\ <<1, p>>[2] = p /\ <<1, k>>[1] = 1 /\ <<1, k>>[2] = k
    OBVIOUS
  <2> QED BY <1>1, <2>1, <2>3, <2>4, Zenon DEF Set!Precedes
<1>3. ASSUME NEW k \in q..(e2 - 1) PROVE Set!Precedes(c, <<1, p>>, <<2, k>>)
  <2>1. /\ p \in 0..(n1 - 1) /\ q \in 0..(n2 - 1) /\ k \in 0..(n2 - 1) /\ q <= k /\ q < e2
    BY <1>1
  <2>2. c.a[p] \in Int /\ c.b[q] \in Int /\ c.b[k] \in Int /\ c.a[p] <= c.b[q] /\ c.b[q] <= c.b[k]
    BY <1>1, <2>1
  <2>3. c.a[p] < c.b[k] \/ c.a[p] = c.b[k]
    BY <2>2
  <2>4. /\ <<1, p>>[1] = 1 /\ <<1, p>>[2] = p /\ <<2, k>>[1] = 2 /\ <<2, k>>[2] = k /\ 1 < 2
    OBVIOUS
  <2> QED BY <1>1, <2>1, <2>3, <2>4, Zenon DEF Set!Precedes
<1> QED BY <1>2, <1>3, Zenon DEF Within

LEMMA SecondPrecedes ==
  ASSUME NEW c, NEW n1, NEW n2, FormedSet(c, n1, n2), NEW e1 \in 0..n1, NEW e2 \in 0..n2,
         NEW p \in 0..e1, NEW q \in 0..(e2 - 1), p < e1 => c.b[q] < c.a[p]
  PROVE  \A u \in Within(p, e1, q + 1, e2) : Set!Precedes(c, <<2, q>>, u)
<1>1. /\ n1 \in Nat /\ n2 \in Nat
      /\ \A k \in 0..(n1 - 1) : c.a[k] \in Int /\ Set!Key(c, <<1, k>>) = c.a[k]
      /\ \A k \in 0..(n2 - 1) : c.b[k] \in Int /\ Set!Key(c, <<2, k>>) = c.b[k]
      /\ \A k, l \in 0..(n1 - 1) : k <= l => c.a[k] <= c.a[l]
      /\ \A k, l \in 0..(n2 - 1) : k <= l => c.b[k] <= c.b[l]
  BY ElementsAre DEF FormedSet, IsSequence
<1>2. ASSUME NEW k \in (q + 1)..(e2 - 1) PROVE Set!Precedes(c, <<2, q>>, <<2, k>>)
  <2>1. /\ q \in 0..(n2 - 1) /\ k \in 0..(n2 - 1) /\ q < k /\ q <= k
    BY <1>1
  <2>2. c.b[q] \in Int /\ c.b[k] \in Int /\ c.b[q] <= c.b[k]
    BY <1>1, <2>1
  <2>3. c.b[q] < c.b[k] \/ c.b[q] = c.b[k]
    BY <2>2
  <2>4. /\ <<2, q>>[1] = 2 /\ <<2, q>>[2] = q /\ <<2, k>>[1] = 2 /\ <<2, k>>[2] = k
    OBVIOUS
  <2> QED BY <1>1, <2>1, <2>3, <2>4, Zenon DEF Set!Precedes
<1>3. ASSUME NEW k \in p..(e1 - 1) PROVE Set!Precedes(c, <<2, q>>, <<1, k>>)
  <2>1. /\ q \in 0..(n2 - 1) /\ p \in 0..(n1 - 1) /\ k \in 0..(n1 - 1) /\ p <= k /\ p < e1
    BY <1>1
  <2>2. c.b[q] \in Int /\ c.a[p] \in Int /\ c.a[k] \in Int /\ c.b[q] < c.a[p] /\ c.a[p] <= c.a[k]
    BY <1>1, <2>1
  <2>3. c.b[q] < c.a[k]
    BY <2>2
  <2> QED BY <1>1, <2>1, <2>3, Zenon DEF Set!Precedes
<1> QED BY <1>2, <1>3, Zenon DEF Within

(* What Construct builds of a part of the sequences that ends at a cut lists the       *)
(* elements to keep of the part.                                                      *)
LEMMA ConstructLists ==
  ASSUME NEW c, NEW n1, NEW n2, FormedSet(c, n1, n2), NEW e1, NEW e2, CutAt(c, n1, n2, e1, e2),
         NEW b1 \in 0..e1, NEW b2 \in 0..e2, InStep(c.a, n1, c.b, n2, b1, b2)
  PROVE  Lists(c, Set!Construct(c, 1, 2, b1, e1, b2, e2), Set!Chosen(c) \cap Within(b1, e1, b2, e2))
<1> DEFINE X(p, q) == Set!Chosen(c) \cap Within(p, e1, q, e2)
<1>1. /\ n1 \in Nat /\ n2 \in Nat /\ IsSequence(c.a, n1) /\ IsSequence(c.b, n2)
      /\ e1 \in 0..n1 /\ e2 \in 0..n2 /\ e1 \in Nat /\ e2 \in Nat /\ b1 \in Nat /\ b2 \in Nat /\ b1 <= e1 /\ b2 <= e2
      /\ c.alg \in Set!Algs
      /\ \A k \in 0..(n1 - 1) : c.a[k] \in Int
      /\ \A k \in 0..(n2 - 1) : c.b[k] \in Int
  <2>1. IsSequence(c.a, n1) /\ IsSequence(c.b, n2) /\ c.alg \in Set!Algs
    BY DEF FormedSet
  <2>2. n1 \in Nat /\ n2 \in Nat /\ e1 \in 0..n1 /\ e2 \in 0..n2
    BY ElementsAre DEF CutAt
  <2> QED BY <2>1, <2>2 DEF IsSequence
<1>2. PICK f : /\ Solves(c, 1, 2, b1, e1, b2, e2, f)
               /\ Set!Construct(c, 1, 2, b1, e1, b2, e2) = f[<<b1, b2>>]
  <2>1. IsSolved(c, 1, 2, b1, e1, b2, e2)
    BY <1>1, ConstructSolved
  <2> QED BY <2>1, Zenon DEF IsSolved
<1> DEFINE Right(p, q) == Lists(c, f[<<p, q>>], X(p, q))
           good == {r \in Nat : \A p \in b1..e1, q \in b2..e2 :
                      (e1 - p) + (e2 - q) < r /\ InStep(c.a, n1, c.b, n2, p, q) => Right(p, q)}
<1>3. ASSUME NEW p \in b1..e1, NEW q \in b2..e2, InStep(c.a, n1, c.b, n2, p, q),
             p < e1 /\ InStep(c.a, n1, c.b, n2, p + 1, q) => Right(p + 1, q),
             q < e2 /\ InStep(c.a, n1, c.b, n2, p, q + 1) => Right(p, q + 1),
             p < e1 /\ q < e2 /\ InStep(c.a, n1, c.b, n2, p + 1, q + 1) => Right(p + 1, q + 1)
      PROVE  Right(p, q)
  <2>1. /\ p \in Nat /\ q \in Nat /\ p \in 0..e1 /\ q \in 0..e2 /\ p \in 0..n1 /\ q \in 0..n2
        /\ p < e1 => p \in 0..(n1 - 1) /\ p \in 0..(e1 - 1) /\ p # e1 /\ p < n1 /\ p + 1 \in 0..e1
        /\ q < e2 => q \in 0..(n2 - 1) /\ q \in 0..(e2 - 1) /\ q # e2 /\ q < n2 /\ q + 1 \in 0..e2
        /\ (p = e1 \/ p < e1) /\ (q = e2 \/ q < e2)
    BY <1>1
  <2>2. f[<<p, q>>] = ConstructStep(c, 1, 2, e1, e2, p, q, f)
    BY <1>2, Zenon DEF Solves
  <2>3. /\ p < e1 => c.a[p] \in Int
        /\ q < e2 => c.b[q] \in Int
    BY <1>1, <2>1
  <2>4. /\ p < e1 /\ q = e2 => q = n2 \/ c.a[p] < c.b[q]
        /\ q < e2 /\ p = e1 => p = n1 \/ c.b[q] < c.a[p]
    <3>1. p < e1 /\ e2 < n2 => c.a[p] < c.b[e2]
      BY <1>1, <2>1 DEF CutAt
    <3>2. q < e2 /\ e1 < n1 => c.b[q] < c.a[e1]
      BY <1>1, <2>1 DEF CutAt
    <3> QED BY <1>1, <3>1, <3>2
  <2>5. c.alg \in {"union", "intersection", "difference", "symmetric_difference"}
    BY <1>1 DEF Set!Algs
  <2>6. <<1, p>> \in Items /\ <<2, q>> \in Items /\ 2 # 1
    BY <2>1 DEF Items
  <2>7. CASE p = e1 /\ q = e2
    <3>1. f[<<p, q>>] = <<>>
      BY <2>2, <2>7, Zenon DEF ConstructStep
    <3>2. X(p, q) = {}
      BY <1>1, <2>1, <2>7, WithinSplits
    <3> QED BY <3>1, <3>2, ShortLists
  <2>8. CASE p < e1 /\ (q = e2 \/ c.a[p] < c.b[q])
    <3>1. q = n2 \/ c.a[p] < c.b[q]
      BY <2>4, <2>8
    <3>2. InStep(c.a, n1, c.b, n2, p + 1, q)
      BY <1>1, <1>3, <2>1, <2>8, <3>1, FirstPassed
    <3>3. Right(p + 1, q)
      BY <1>3, <2>8, <3>2
    <3> DEFINE keep == c.alg \in Set!KeepsFirst
    <3>4. f[<<p, q>>] = (IF keep THEN <<<<1, p>>>> ELSE <<>>) \o f[<<p + 1, q>>]
      BY <2>1, <2>2, <2>6, <2>8, Zenon DEF ConstructStep
    <3>5. Lacks(c.a, n1, c.b, n2, p)
      BY <1>3, <2>1, <2>8, <3>1 DEF InStep
    <3>6. <<1, p>> \in Set!Chosen(c) <=> Kept(c.alg, 1, TRUE)
      BY <2>1, <2>8, <3>5, ChosenIs
    <3>7. keep <=> <<1, p>> \in Set!Chosen(c)
      BY <2>5, <3>6 DEF Kept, Set!KeepsFirst
    <3>8. q < e2 => c.a[p] <= c.b[q]
      BY <2>1, <2>3, <2>8
    <3>9. \A u \in Within(p + 1, e1, q, e2) : Set!Precedes(c, <<1, p>>, u)
      BY <1>1, <2>1, <2>8, <3>8, FirstPrecedes
    <3>10. Within(p, e1, q, e2) = {<<1, p>>} \cup Within(p + 1, e1, q, e2)
      BY <1>1, <2>1, <2>8, WithinSplits
    <3> HIDE DEF keep
    <3>11. keep \in BOOLEAN
      BY DEF keep
    <3>12. Lists(c, f[<<p + 1, q>>], Set!Chosen(c) \cap Within(p + 1, e1, q, e2))
      BY <3>3
    <3>13. Lists(c, (IF keep THEN <<<<1, p>>>> ELSE <<>>) \o f[<<p + 1, q>>],
                 Set!Chosen(c) \cap ({<<1, p>>} \cup Within(p + 1, e1, q, e2)))
      BY <2>6, <3>7, <3>9, <3>11, <3>12, OneMore
    <3> QED BY <3>4, <3>10, <3>13
  <2>9. CASE q < e2 /\ (p = e1 \/ c.b[q] < c.a[p])
    <3>1. p = n1 \/ c.b[q] < c.a[p]
      BY <2>4, <2>9
    <3>2. InStep(c.a, n1, c.b, n2, p, q + 1)
      <4>1. InStep(c.b, n2, c.a, n1, q, p)
        BY <1>1, <1>3, <2>1, InStepBothWays
      <4>2. InStep(c.b, n2, c.a, n1, q + 1, p)
        BY <1>1, <2>1, <2>9, <3>1, <4>1, FirstPassed
      <4>3. q + 1 \in 0..n2
        BY <1>1, <2>1, <2>9
      <4> QED BY <1>1, <2>1, <4>2, <4>3, InStepBothWays
    <3>3. Right(p, q + 1)
      BY <1>3, <2>9, <3>2
    <3> DEFINE keep == c.alg \in Set!KeepsSecond
    <3>4. f[<<p, q>>] = (IF keep THEN <<<<2, q>>>> ELSE <<>>) \o f[<<p, q + 1>>]
      <4>1. p = e1 \/ ~(c.a[p] < c.b[q])
        BY <2>1, <2>3, <2>9
      <4> QED BY <2>1, <2>2, <2>6, <2>9, <4>1, Zenon DEF ConstructStep
    <3>5. Lacks(c.b, n2, c.a, n1, q)
      BY <1>3, <2>1, <2>9, <3>1 DEF InStep
    <3>6. <<2, q>> \in Set!Chosen(c) <=> Kept(c.alg, 2, TRUE)
      BY <2>1, <2>9, <3>5, ChosenIs
    <3>7. keep <=> <<2, q>> \in Set!Chosen(c)
      BY <2>5, <3>6 DEF Kept, Set!KeepsSecond
    <3>8. \A u \in Within(p, e1, q + 1, e2) : Set!Precedes(c, <<2, q>>, u)
      <4>1. p < e1 => c.b[q] < c.a[p]
        BY <2>1, <2>9
      <4> QED BY <1>1, <2>1, <2>9, <4>1, SecondPrecedes
    <3>9. Within(p, e1, q, e2) = {<<2, q>>} \cup Within(p, e1, q + 1, e2)
      BY <1>1, <2>1, <2>9, WithinSplits
    <3> HIDE DEF keep
    <3>10. keep \in BOOLEAN
      BY DEF keep
    <3>11. Lists(c, f[<<p, q + 1>>], Set!Chosen(c) \cap Within(p, e1, q + 1, e2))
      BY <3>3
    <3>12. Lists(c, (IF keep THEN <<<<2, q>>>> ELSE <<>>) \o f[<<p, q + 1>>],
                 Set!Chosen(c) \cap ({<<2, q>>} \cup Within(p, e1, q + 1, e2)))
      BY <2>6, <3>7, <3>8, <3>10, <3>11, OneMore
    <3> QED BY <3>4, <3>9, <3>12
  <2>10. CASE p < e1 /\ q < e2 /\ c.a[p] = c.b[q]
    <3>1. /\ InStep(c.a, n1, c.b, n2, p + 1, q + 1)
          /\ ~Lacks(c.a, n1, c.b, n2, p) /\ ~Lacks(c.b, n2, c.a, n1, q)
      BY <1>1, <1>3, <2>1, <2>10, BothPassed
    <3>2. Right(p + 1, q + 1)
      BY <1>3, <2>10, <3>1
    <3> DEFINE keep == c.alg \in Set!KeepsEqual
               Y == Within(p + 1, e1, q + 1, e2)
    <3>3. f[<<p, q>>] = (IF keep THEN <<<<1, p>>>> ELSE <<>>) \o f[<<p + 1, q + 1>>]
      <4>1. ~(c.a[p] < c.b[q]) /\ ~(c.b[q] < c.a[p])
        BY <2>3, <2>10
      <4> QED BY <2>1, <2>2, <2>6, <2>10, <4>1, Zenon DEF ConstructStep
    <3>4. /\ <<1, p>> \in Set!Chosen(c) <=> Kept(c.alg, 1, FALSE)
          /\ <<2, q>> \in Set!Chosen(c) <=> Kept(c.alg, 2, FALSE)
      <4>1. Lacks(c.a, n1, c.b, n2, p) = FALSE /\ Lacks(c.b, n2, c.a, n1, q) = FALSE
        BY <3>1 DEF Lacks
      <4>2. /\ <<1, p>> \in Set!Chosen(c) <=> Kept(c.alg, 1, Lacks(c.a, n1, c.b, n2, p))
            /\ <<2, q>> \in Set!Chosen(c) <=> Kept(c.alg, 2, Lacks(c.b, n2, c.a, n1, q))
        BY <2>1, <2>10, ChosenIs
      <4> QED BY <4>1, <4>2
    <3>5. keep <=> <<1, p>> \in Set!Chosen(c)
      BY <2>5, <3>4 DEF Kept, Set!KeepsEqual
    <3>6. <<2, q>> \notin Set!Chosen(c)
      BY <2>5, <3>4 DEF Kept
    <3>7. c.a[p] <= c.b[q]
      BY <2>3, <2>10
    <3>8. \A u \in Within(p + 1, e1, q, e2) : Set!Precedes(c, <<1, p>>, u)
      BY <1>1, <2>1, <2>10, <3>7, FirstPrecedes
    <3>9. Within(p, e1, q, e2) = {<<1, p>>} \cup Within(p + 1, e1, q, e2)
      BY <1>1, <2>1, <2>10, WithinSplits
    <3>10. Within(p + 1, e1, q, e2) = {<<2, q>>} \cup Y
      BY <1>1, <2>1, <2>10, WithinSplits
    <3> HIDE DEF keep, Y
    <3>11. keep \in BOOLEAN
      BY DEF keep
    <3>12. Lists(c, f[<<p + 1, q + 1>>], Set!Chosen(c) \cap Y)
      BY <3>2 DEF Y
    <3>13. \A u \in Y : Set!Precedes(c, <<1, p>>, u)
      BY <3>8, <3>10
    <3>14. Lists(c, (IF keep THEN <<<<1, p>>>> ELSE <<>>) \o f[<<p + 1, q + 1>>], Set!Chosen(c) \cap ({<<1, p>>} \cup Y))
      BY <2>6, <3>5, <3>11, <3>12, <3>13, OneMore
    <3>15. X(p, q) = Set!Chosen(c) \cap ({<<1, p>>} \cup Y)
      BY <3>6, <3>9, <3>10
    <3> QED BY <3>3, <3>14, <3>15
  <2>11. p < e1 /\ q < e2 => c.a[p] < c.b[q] \/ c.b[q] < c.a[p] \/ c.a[p] = c.b[q]
    BY <2>3
  <2> QED BY <2>1, <2>7, <2>8, <2>9, <2>10, <2>11
<1> HIDE DEF Right
<1>4. Nat \subseteq good
  <2>1. 0 \in good
    <3>1. \A p \in b1..e1, q \in b2..e2 : ~((e1 - p) + (e2 - q) < 0)
      BY <1>1
    <3> QED BY <3>1
  <2>2. ASSUME NEW r \in Nat, r \in good PROVE r + 1 \in good
    <3>1. ASSUME NEW p \in b1..e1, NEW q \in b2..e2, (e1 - p) + (e2 - q) < r + 1, InStep(c.a, n1, c.b, n2, p, q)
          PROVE  Right(p, q)
      <4>1. /\ p < e1 => p + 1 \in b1..e1 /\ (e1 - (p + 1)) + (e2 - q) < r
            /\ q < e2 => q + 1 \in b2..e2 /\ (e1 - p) + (e2 - (q + 1)) < r
            /\ p < e1 /\ q < e2 => (e1 - (p + 1)) + (e2 - (q + 1)) < r
        BY <1>1, <3>1
      <4>2. \A x \in b1..e1, y \in b2..e2 :
              (e1 - x) + (e2 - y) < r /\ InStep(c.a, n1, c.b, n2, x, y) => Right(x, y)
        BY <2>2
      <4> HIDE DEF good
      <4>3. p < e1 /\ InStep(c.a, n1, c.b, n2, p + 1, q) => Right(p + 1, q)
        BY <4>1, <4>2
      <4>4. q < e2 /\ InStep(c.a, n1, c.b, n2, p, q + 1) => Right(p, q + 1)
        BY <4>1, <4>2
      <4>5. p < e1 /\ q < e2 /\ InStep(c.a, n1, c.b, n2, p + 1, q + 1) => Right(p + 1, q + 1)
        BY <4>1, <4>2
      <4> QED BY <1>3, <3>1, <4>3, <4>4, <4>5
    <3> QED BY <3>1
  <2> HIDE DEF good
  <2> QED BY <2>1, <2>2, Induction
<1>5. Right(b1, b2)
  <2>1. (e1 - b1) + (e2 - b2) \in Nat /\ ((e1 - b1) + (e2 - b2)) + 1 \in Nat
        /\ (e1 - b1) + (e2 - b2) < ((e1 - b1) + (e2 - b2)) + 1 /\ b1 \in b1..e1 /\ b2 \in b2..e2
    BY <1>1
  <2>2. ((e1 - b1) + (e2 - b2)) + 1 \in good
    BY <1>4, <2>1
  <2> QED BY <2>1, <2>2
<1> QED BY <1>2, <1>5 DEF Right

-------------------------------------------------------------------------------
(* What set_intersection leaves may come from either sequence; else the elements are    *)
(* the ones std's algorithm keeps.                                                     *)
Same(c, t, u) == IF c.alg = "intersection" THEN Set!Key(c, t) = Set!Key(c, u) ELSE t = u

Alike(c, s, r) ==
  /\ s \in Seq(Items) /\ r \in Seq(Items) /\ Len(s) = Len(r)
  /\ \A x \in 1..Len(s) : Same(c, s[x], r[x])

LEMMA AlikeJoins ==
  ASSUME NEW c, NEW s1, NEW r1, NEW s2, NEW r2, Alike(c, s1, r1), Alike(c, s2, r2)
  PROVE  Alike(c, s1 \o s2, r1 \o r2)
<1>1. /\ s1 \in Seq(Items) /\ r1 \in Seq(Items) /\ s2 \in Seq(Items) /\ r2 \in Seq(Items)
      /\ Len(s1) = Len(r1) /\ Len(s2) = Len(r2)
      /\ \A x \in 1..Len(s1) : Same(c, s1[x], r1[x])
      /\ \A x \in 1..Len(s2) : Same(c, s2[x], r2[x])
  BY DEF Alike
<1>2. /\ s1 \o s2 \in Seq(Items) /\ r1 \o r2 \in Seq(Items)
      /\ Len(s1 \o s2) = Len(s1) + Len(s2) /\ Len(r1 \o r2) = Len(r1) + Len(r2)
  BY <1>1
<1>3. ASSUME NEW x \in 1..Len(s1 \o s2) PROVE Same(c, (s1 \o s2)[x], (r1 \o r2)[x])
  <2>1. CASE x <= Len(s1)
    <3>1. x \in 1..Len(s1) /\ (s1 \o s2)[x] = s1[x] /\ (r1 \o r2)[x] = r1[x]
      BY <1>1, <1>2, <2>1
    <3> QED BY <1>1, <3>1
  <2>2. CASE x > Len(s1)
    <3>1. x - Len(s1) \in 1..Len(s2) /\ (s1 \o s2)[x] = s2[x - Len(s1)] /\ (r1 \o r2)[x] = r2[x - Len(s1)]
      BY <1>1, <1>2, <2>2
    <3> QED BY <1>1, <3>1
  <2>3. x <= Len(s1) \/ x > Len(s1)
    BY <1>1, <1>2
  <2> QED BY <2>1, <2>2, <2>3
<1> QED BY <1>1, <1>2, <1>3 DEF Alike

LEMMA AlikeItself ==
  ASSUME NEW c, NEW s \in Seq(Items)
  PROVE  Alike(c, s, s)
BY DEF Alike, Same

(* set_intersection swaps the sequences, and builds as many elements with the same keys. *)
LEMMA SwappedConstruct ==
  ASSUME NEW c, NEW n1, NEW n2, FormedSet(c, n1, n2), c.alg = "intersection",
         NEW e1 \in 0..n1, NEW e2 \in 0..n2, NEW b1 \in 0..e1, NEW b2 \in 0..e2
  PROVE  Alike(c, Set!Construct(c, 2, 1, b2, e2, b1, e1), Set!Construct(c, 1, 2, b1, e1, b2, e2))
<1>1. /\ n1 \in Nat /\ n2 \in Nat
      /\ e1 \in Nat /\ e2 \in Nat /\ b1 \in Nat /\ b2 \in Nat /\ b1 <= e1 /\ b2 <= e2
      /\ \A k \in 0..(n1 - 1) : c.a[k] \in Int /\ Set!Key(c, <<1, k>>) = c.a[k]
      /\ \A k \in 0..(n2 - 1) : c.b[k] \in Int /\ Set!Key(c, <<2, k>>) = c.b[k]
  <2>1. n1 \in Nat /\ n2 \in Nat /\ Set!Elements(c) = Within(0, n1, 0, n2)
        /\ \A t \in Set!Elements(c) : Set!Key(c, t) \in Int
    BY ElementsAre
  <2>2. \A k : Set!Key(c, <<1, k>>) = c.a[k] /\ Set!Key(c, <<2, k>>) = c.b[k]
    BY DEF Set!Key
  <2>3. /\ \A k \in 0..(n1 - 1) : <<1, k>> \in Set!Elements(c)
        /\ \A k \in 0..(n2 - 1) : <<2, k>> \in Set!Elements(c)
    BY <2>1 DEF Within
  <2>4. \A k \in 0..(n1 - 1) : c.a[k] \in Int
    BY <2>1, <2>2, <2>3
  <2>5. \A k \in 0..(n2 - 1) : c.b[k] \in Int
    BY <2>1, <2>2, <2>3
  <2>6. e1 \in Nat /\ e2 \in Nat
    BY <2>1
  <2> QED BY <2>1, <2>2, <2>4, <2>5, <2>6
<1>2. PICK f : /\ Solves(c, 1, 2, b1, e1, b2, e2, f)
               /\ Set!Construct(c, 1, 2, b1, e1, b2, e2) = f[<<b1, b2>>]
  <2>1. IsSolved(c, 1, 2, b1, e1, b2, e2)
    BY <1>1, ConstructSolved
  <2> QED BY <2>1, Zenon DEF IsSolved
<1>3. PICK g : /\ Solves(c, 2, 1, b2, e2, b1, e1, g)
               /\ Set!Construct(c, 2, 1, b2, e2, b1, e1) = g[<<b2, b1>>]
  <2>1. IsSolved(c, 2, 1, b2, e2, b1, e1)
    BY <1>1, ConstructSolved
  <2> QED BY <2>1, Zenon DEF IsSolved
<1> DEFINE Right(p, q) == Alike(c, g[<<q, p>>], f[<<p, q>>])
           good == {r \in Nat : \A p \in b1..e1, q \in b2..e2 : (e1 - p) + (e2 - q) < r => Right(p, q)}
<1>4. ASSUME NEW p \in b1..e1, NEW q \in b2..e2,
             p < e1 => Right(p + 1, q), q < e2 => Right(p, q + 1), p < e1 /\ q < e2 => Right(p + 1, q + 1)
      PROVE  Right(p, q)
  <2>1. /\ p \in Nat /\ q \in Nat
        /\ p < e1 => p \in 0..(n1 - 1) /\ p # e1
        /\ q < e2 => q \in 0..(n2 - 1) /\ q # e2
        /\ (p = e1 \/ p < e1) /\ (q = e2 \/ q < e2)
    BY <1>1
  <2>2. f[<<p, q>>] = ConstructStep(c, 1, 2, e1, e2, p, q, f)
    BY <1>2, Zenon DEF Solves
  <2>3. g[<<q, p>>] = ConstructStep(c, 2, 1, e2, e1, q, p, g)
    BY <1>3, Zenon DEF Solves
  <2>4. /\ (c.alg \in Set!KeepsFirst) = FALSE /\ (c.alg \in Set!KeepsSecond) = FALSE /\ c.alg \in Set!KeepsEqual
    BY DEF Set!KeepsFirst, Set!KeepsSecond, Set!KeepsEqual
  <2>5. 2 # 1 /\ <<>> \in Seq(Items) /\ Alike(c, <<>>, <<>>)
    <3>1. <<>> \in Seq(Items)
      OBVIOUS
    <3>2. Alike(c, <<>>, <<>>)
      BY <3>1, AlikeItself
    <3> QED BY <3>1, <3>2
  <2>11. /\ p < e1 => c.a[p] \in Int
         /\ q < e2 => c.b[q] \in Int
    BY <1>1, <2>1
  <2>6. CASE p = e1 /\ q = e2
    <3>1. f[<<p, q>>] = <<>> /\ g[<<q, p>>] = <<>>
      BY <2>2, <2>3, <2>6, Zenon DEF ConstructStep
    <3> QED BY <2>5, <3>1
  <2>7. CASE p < e1 /\ (q = e2 \/ c.a[p] < c.b[q])
    <3>1. Right(p + 1, q)
      BY <1>4, <2>7
    <3>2. q = e2 \/ ~(c.b[q] < c.a[p])
      BY <2>1, <2>11, <2>7
    <3>3. f[<<p, q>>] = <<>> \o f[<<p + 1, q>>]
      BY <2>1, <2>2, <2>4, <2>5, <2>7, Zenon DEF ConstructStep
    <3>4. g[<<q, p>>] = <<>> \o g[<<q, p + 1>>]
      BY <2>1, <2>3, <2>4, <2>5, <2>7, <3>2, Zenon DEF ConstructStep
    <3>5. Alike(c, <<>> \o g[<<q, p + 1>>], <<>> \o f[<<p + 1, q>>])
      BY <2>5, <3>1, AlikeJoins
    <3> QED BY <3>3, <3>4, <3>5
  <2>8. CASE q < e2 /\ (p = e1 \/ c.b[q] < c.a[p])
    <3>1. Right(p, q + 1)
      BY <1>4, <2>8
    <3>2. p = e1 \/ ~(c.a[p] < c.b[q])
      BY <2>1, <2>11, <2>8
    <3>3. f[<<p, q>>] = <<>> \o f[<<p, q + 1>>]
      BY <2>1, <2>2, <2>4, <2>5, <2>8, <3>2, Zenon DEF ConstructStep
    <3>4. g[<<q, p>>] = <<>> \o g[<<q + 1, p>>]
      BY <2>1, <2>3, <2>4, <2>5, <2>8, Zenon DEF ConstructStep
    <3>5. Alike(c, <<>> \o g[<<q + 1, p>>], <<>> \o f[<<p, q + 1>>])
      BY <2>5, <3>1, AlikeJoins
    <3> QED BY <3>3, <3>4, <3>5
  <2>9. CASE p < e1 /\ q < e2 /\ c.a[p] = c.b[q]
    <3>1. Right(p + 1, q + 1)
      BY <1>4, <2>9
    <3>2. ~(c.a[p] < c.b[q]) /\ ~(c.b[q] < c.a[p])
      BY <2>11, <2>9
    <3>3. f[<<p, q>>] = <<<<1, p>>>> \o f[<<p + 1, q + 1>>]
      BY <2>1, <2>2, <2>4, <2>5, <2>9, <3>2, Zenon DEF ConstructStep
    <3>4. g[<<q, p>>] = <<<<2, q>>>> \o g[<<q + 1, p + 1>>]
      BY <2>1, <2>3, <2>4, <2>5, <2>9, <3>2, Zenon DEF ConstructStep
    <3>5. Alike(c, <<<<2, q>>>>, <<<<1, p>>>>)
      <4>1. Same(c, <<2, q>>, <<1, p>>)
        BY <1>1, <2>1, <2>9 DEF Same
      <4>2. <<2, q>> \in Items /\ <<1, p>> \in Items
        BY <2>1 DEF Items
      <4> QED BY <4>1, <4>2 DEF Alike
    <3>6. Alike(c, <<<<2, q>>>> \o g[<<q + 1, p + 1>>], <<<<1, p>>>> \o f[<<p + 1, q + 1>>])
      BY <3>1, <3>5, AlikeJoins
    <3> QED BY <3>3, <3>4, <3>6
  <2>10. p < e1 /\ q < e2 => c.a[p] < c.b[q] \/ c.b[q] < c.a[p] \/ c.a[p] = c.b[q]
    BY <2>11
  <2> QED BY <2>1, <2>6, <2>7, <2>8, <2>9, <2>10
<1> HIDE DEF Right
<1>5. Nat \subseteq good
  <2>1. 0 \in good
    <3>1. \A p \in b1..e1, q \in b2..e2 : ~((e1 - p) + (e2 - q) < 0)
      BY <1>1
    <3> QED BY <3>1
  <2>2. ASSUME NEW r \in Nat, r \in good PROVE r + 1 \in good
    <3>1. ASSUME NEW p \in b1..e1, NEW q \in b2..e2, (e1 - p) + (e2 - q) < r + 1
          PROVE  Right(p, q)
      <4>1. /\ p < e1 => p + 1 \in b1..e1 /\ (e1 - (p + 1)) + (e2 - q) < r
            /\ q < e2 => q + 1 \in b2..e2 /\ (e1 - p) + (e2 - (q + 1)) < r
            /\ p < e1 /\ q < e2 => (e1 - (p + 1)) + (e2 - (q + 1)) < r
        BY <1>1, <3>1
      <4>2. \A x \in b1..e1, y \in b2..e2 : (e1 - x) + (e2 - y) < r => Right(x, y)
        BY <2>2
      <4> HIDE DEF good
      <4>3. p < e1 => Right(p + 1, q)
        BY <4>1, <4>2
      <4>4. q < e2 => Right(p, q + 1)
        BY <4>1, <4>2
      <4>5. p < e1 /\ q < e2 => Right(p + 1, q + 1)
        BY <4>1, <4>2
      <4> QED BY <1>4, <3>1, <4>3, <4>4, <4>5
    <3> QED BY <3>1
  <2> HIDE DEF good
  <2> QED BY <2>1, <2>2, Induction
<1>6. Right(b1, b2)
  <2>1. (e1 - b1) + (e2 - b2) \in Nat /\ ((e1 - b1) + (e2 - b2)) + 1 \in Nat
        /\ (e1 - b1) + (e2 - b2) < ((e1 - b1) + (e2 - b2)) + 1 /\ b1 \in b1..e1 /\ b2 \in b2..e2
    BY <1>1
  <2>2. ((e1 - b1) + (e2 - b2)) + 1 \in good
    BY <1>5, <2>1
  <2> QED BY <2>1, <2>2
<1> QED BY <1>2, <1>3, <1>6 DEF Right

(* What is built of the sequences up to a cut is built part by part, and all of it is   *)
(* the result.                                                                         *)
Part(c, x1, x2, y1, y2) == Set!Construct(c, 1, 2, x1, x2, y1, y2)
Built(c, x, y) == Part(c, 0, x, 0, y)

LEMMA CutAtEnds ==
  ASSUME NEW c, NEW n1, NEW n2, FormedSet(c, n1, n2)
  PROVE  CutAt(c, n1, n2, 0, 0) /\ CutAt(c, n1, n2, n1, n2)
<1>1. n1 \in Nat /\ n2 \in Nat
  BY ElementsAre
<1>2. 0 \in 0..n1 /\ 0 \in 0..n2 /\ n1 \in 0..n1 /\ n2 \in 0..n2 /\ 0..(0 - 1) = {} /\ n1..(n1 - 1) = {} /\ n2..(n2 - 1) = {}
  BY <1>1
<1> QED BY <1>2, Zenon DEF CutAt

LEMMA BuiltJoins ==
  ASSUME NEW c, NEW n1, NEW n2, FormedSet(c, n1, n2), NEW x1, NEW y1, CutAt(c, n1, n2, x1, y1),
         NEW x2, NEW y2, CutAt(c, n1, n2, x2, y2), x1 <= x2, y1 <= y2
  PROVE  /\ Built(c, x1, y1) \in Seq(Items) /\ Part(c, x1, x2, y1, y2) \in Seq(Items)
         /\ Built(c, x2, y2) = Built(c, x1, y1) \o Part(c, x1, x2, y1, y2)
<1> DEFINE C == Set!Chosen(c)
           A == Built(c, x1, y1)
           B == Part(c, x1, x2, y1, y2)
           X == Within(0, x1, 0, y1)
           Y == Within(x1, x2, y1, y2)
           Z == Within(0, x2, 0, y2)
<1>1. /\ n1 \in Nat /\ n2 \in Nat
      /\ x1 \in 0..n1 /\ y1 \in 0..n2 /\ x2 \in 0..n1 /\ y2 \in 0..n2
      /\ x1 \in 0..x2 /\ y1 \in 0..y2 /\ 0 \in 0..x1 /\ 0 \in 0..y1 /\ 0 \in 0..x2 /\ 0 \in 0..y2
  <2>1. n1 \in Nat /\ n2 \in Nat /\ x1 \in 0..n1 /\ y1 \in 0..n2 /\ x2 \in 0..n1 /\ y2 \in 0..n2
    BY ElementsAre DEF CutAt
  <2> QED BY <2>1
<1>2. InStep(c.a, n1, c.b, n2, 0, 0) /\ InStep(c.a, n1, c.b, n2, x1, y1)
  BY CutAtEnds, CutInStep
<1>3. Lists(c, A, C \cap X)
  BY <1>1, <1>2, ConstructLists DEF Built, Part
<1>4. Lists(c, B, C \cap Y)
  BY <1>1, <1>2, ConstructLists DEF Part
<1>5. Lists(c, Built(c, x2, y2), C \cap Z)
  BY <1>1, <1>2, ConstructLists DEF Built, Part
<1>6. ASSUME NEW t \in X, NEW u \in Y PROVE Set!Precedes(c, t, u)
  <2>1. \A k : Set!Key(c, <<1, k>>) = c.a[k] /\ Set!Key(c, <<2, k>>) = c.b[k]
    BY DEF Set!Key
  <2>2. \/ \E k \in 0..(x1 - 1) : t = <<1, k>>
        \/ \E k \in 0..(y1 - 1) : t = <<2, k>>
    BY DEF Within
  <2>3. \/ \E l \in x1..(x2 - 1) : u = <<1, l>>
        \/ \E l \in y1..(y2 - 1) : u = <<2, l>>
    BY DEF Within
  <2>4. x1..(x2 - 1) \subseteq x1..(n1 - 1) /\ y1..(y2 - 1) \subseteq y1..(n2 - 1)
    BY <1>1
  <2>5. Set!Key(c, t) < Set!Key(c, u)
    BY <2>1, <2>2, <2>3, <2>4, Zenon DEF CutAt
  <2> QED BY <2>5 DEF Set!Precedes
<1>7. X \cup Y = Z
  <2>1. /\ 0..(x2 - 1) = (0..(x1 - 1)) \cup (x1..(x2 - 1))
        /\ 0..(y2 - 1) = (0..(y1 - 1)) \cup (y1..(y2 - 1))
    BY <1>1
  <2> QED BY <2>1, Zenon DEF Within
<1> HIDE DEF A, B, C, X, Y, Z
<1>8. Lists(c, A \o B, (C \cap X) \cup (C \cap Y))
  BY <1>3, <1>4, <1>6, ListsJoin
<1>9. (C \cap X) \cup (C \cap Y) = C \cap Z
  BY <1>7
<1>10. C \cap Z \subseteq Set!Elements(c)
  BY DEF C, Set!Chosen
<1>11. Built(c, x2, y2) = A \o B
  BY <1>5, <1>8, <1>9, <1>10, OneList
<1>12. A \in Seq(Items) /\ B \in Seq(Items)
  BY <1>3, <1>4 DEF Lists
<1> QED BY <1>11, <1>12 DEF A, B

LEMMA BuiltResults ==
  ASSUME IsSet(scanCall), FormedScan
  PROVE  /\ Results(TRUE) = Built(scanCall, N1, N2)
         /\ Results(TRUE) \in Seq(Items)
<1>1. FormedSet(scanCall, N1, N2)
  BY DEF FormedScan
<1>2. CutAt(scanCall, N1, N2, 0, 0) /\ CutAt(scanCall, N1, N2, N1, N2)
  BY <1>1, CutAtEnds
<1>3. InStep(scanCall.a, N1, scanCall.b, N2, 0, 0)
  BY <1>1, <1>2, CutInStep
<1>4. N1 \in Nat /\ N2 \in Nat /\ 0 \in 0..N1 /\ 0 \in 0..N2 /\ Set!Elements(scanCall) = Within(0, N1, 0, N2)
  <2>1. N1 \in Nat /\ N2 \in Nat /\ Set!Elements(scanCall) = Within(0, N1, 0, N2)
    BY <1>1, ElementsAre
  <2> QED BY <2>1
<1>5. Lists(scanCall, Built(scanCall, N1, N2), Set!Chosen(scanCall) \cap Within(0, N1, 0, N2))
  BY <1>1, <1>2, <1>3, <1>4, ConstructLists DEF Built, Part
<1>6. Set!Chosen(scanCall) \cap Within(0, N1, 0, N2) = Set!Chosen(scanCall)
  BY <1>4 DEF Set!Chosen
<1>7. Lists(scanCall, Built(scanCall, N1, N2), Set!Chosen(scanCall))
  BY <1>5, <1>6
<1>8. Built(scanCall, N1, N2) \in Seq(Items)
  BY <1>7 DEF Lists
<1> QED BY <1>7, <1>8, ListResults

(* Where one of the sequences is at its end, Construct copies the other or leaves it out. *)
Row(s, lo, hi) == [k \in 1..(hi - lo) |-> <<s, lo + (k - 1)>>]

LEMMA RowGrows ==
  ASSUME NEW s \in {1, 2}, NEW lo \in Nat, NEW hi \in Nat, lo < hi, Row(s, lo + 1, hi) \in Seq(Items)
  PROVE  <<<<s, lo>>>> \o Row(s, lo + 1, hi) = Row(s, lo, hi) /\ Row(s, lo, hi) \in Seq(Items)
<1> DEFINE l == <<<<s, lo>>>> \o Row(s, lo + 1, hi)
           n == hi - lo
<1>1. Len(Row(s, lo + 1, hi)) = n - 1 /\ n \in Nat /\ n - 1 \in Nat
  <2>1. n \in Nat /\ n - 1 \in Nat /\ hi - (lo + 1) = n - 1
    OBVIOUS
  <2> QED BY <2>1 DEF Row
<1>2. l \in Seq(Items) /\ Len(l) = n
  <2>1. <<<<s, lo>>>> \in Seq(Items) /\ Len(<<<<s, lo>>>>) = 1
    BY DEF Items
  <2>2. l \in Seq(Items) /\ Len(l) = 1 + Len(Row(s, lo + 1, hi))
    BY <2>1
  <2> HIDE DEF l, n
  <2> QED BY <1>1, <2>2
<1>3. ASSUME NEW k \in 1..n PROVE l[k] = <<s, lo + (k - 1)>>
  <2>1. CASE k = 1
    <3>1. l[1] = <<s, lo>>
      BY <1>1, <1>2
    <3>2. lo + (1 - 1) = lo
      OBVIOUS
    <3> QED BY <2>1, <3>1, <3>2
  <2>2. CASE k # 1
    <3>1. k - 1 \in 1..(n - 1) /\ (lo + 1) + ((k - 1) - 1) = lo + (k - 1)
      BY <1>1, <2>2
    <3>2. l[k] = Row(s, lo + 1, hi)[k - 1]
      BY <1>1, <1>2, <2>2
    <3>3. k - 1 \in 1..(hi - (lo + 1))
      BY <3>1
    <3>4. Row(s, lo + 1, hi)[k - 1] = <<s, (lo + 1) + ((k - 1) - 1)>>
      BY <3>3 DEF Row
    <3> QED BY <3>1, <3>2, <3>4
  <2> QED BY <2>1, <2>2
<1> HIDE DEF l, n
<1>4. l = [k \in 1..n |-> <<s, lo + (k - 1)>>]
  <2>1. l = [k \in 1..n |-> l[k]]
    BY <1>2
  <2> QED BY <1>3, <2>1
<1>5. l = Row(s, lo, hi)
  BY <1>4 DEF Row, n
<1> QED BY <1>2, <1>5 DEF l

Copying(s, lo, hi, keep, f) ==
  /\ f[hi] = <<>>
  /\ \A x \in lo..(hi - 1) : f[x] = (IF keep THEN <<<<s, x>>>> ELSE <<>>) \o f[x + 1]

LEMMA RowBuilt ==
  ASSUME NEW s \in {1, 2}, NEW lo \in Nat, NEW hi \in Nat, lo <= hi, NEW keep \in BOOLEAN, NEW f,
         Copying(s, lo, hi, keep, f)
  PROVE  /\ f[lo] = (IF keep THEN Row(s, lo, hi) ELSE <<>>)
         /\ Row(s, lo, hi) \in Seq(Items)
<1> DEFINE Right(x) == /\ f[x] = (IF keep THEN Row(s, x, hi) ELSE <<>>)
                       /\ Row(s, x, hi) \in Seq(Items)
           good == {d \in Nat : d <= hi - lo => Right(hi - d)}
<1>1. Right(hi)
  <2>1. hi - hi = 0 /\ 1..0 = {}
    OBVIOUS
  <2>2. Row(s, hi, hi) = <<>>
    BY <2>1 DEF Row
  <2>3. <<>> \in Seq(Items)
    OBVIOUS
  <2>4. f[hi] = <<>>
    BY DEF Copying
  <2> QED BY <2>2, <2>3, <2>4
<1>2. ASSUME NEW x \in lo..(hi - 1), Right(x + 1) PROVE Right(x)
  <2>1. x \in Nat /\ x < hi
    OBVIOUS
  <2>2. <<<<s, x>>>> \o Row(s, x + 1, hi) = Row(s, x, hi) /\ Row(s, x, hi) \in Seq(Items)
    BY <1>2, <2>1, RowGrows
  <2>3. <<>> \o <<>> = <<>>
    OBVIOUS
  <2>4. f[x] = (IF keep THEN <<<<s, x>>>> ELSE <<>>) \o f[x + 1]
    BY DEF Copying
  <2> QED BY <1>2, <2>2, <2>3, <2>4, Zenon
<1> HIDE DEF Right
<1>3. Nat \subseteq good
  <2>1. 0 \in good
    <3>1. hi - 0 = hi
      OBVIOUS
    <3> QED BY <1>1, <3>1
  <2>2. ASSUME NEW d \in Nat, d \in good PROVE d + 1 \in good
    <3>1. ASSUME d + 1 <= hi - lo PROVE Right(hi - (d + 1))
      <4>1. hi - (d + 1) \in lo..(hi - 1) /\ (hi - (d + 1)) + 1 = hi - d /\ d <= hi - lo
        BY <3>1
      <4> QED BY <1>2, <2>2, <4>1
    <3> QED BY <3>1
  <2> HIDE DEF good
  <2> QED BY <2>1, <2>2, Induction
<1>4. Right(lo)
  <2>1. hi - lo \in Nat /\ hi - lo <= hi - lo /\ hi - (hi - lo) = lo
    OBVIOUS
  <2>2. hi - lo \in good
    BY <1>3, <2>1
  <2> QED BY <2>1, <2>2
<1> QED BY <1>4 DEF Right

LEMMA Straight ==
  ASSUME NEW c, NEW x1 \in Nat, NEW x2 \in Nat, NEW y1 \in Nat, NEW y2 \in Nat, x1 <= x2, y1 <= y2
  PROVE  /\ Part(c, x1, x2, y1, y1) = IF c.alg \in Set!KeepsFirst THEN Row(1, x1, x2) ELSE <<>>
         /\ Part(c, x1, x1, y1, y2) = IF c.alg \in Set!KeepsSecond THEN Row(2, y1, y2) ELSE <<>>
         /\ Row(1, x1, x2) \in Seq(Items) /\ Row(2, y1, y2) \in Seq(Items)
<1>1. /\ Part(c, x1, x2, y1, y1) = IF c.alg \in Set!KeepsFirst THEN Row(1, x1, x2) ELSE <<>>
      /\ Row(1, x1, x2) \in Seq(Items)
  <2>1. PICK f : Solves(c, 1, 2, x1, x2, y1, y1, f) /\ Part(c, x1, x2, y1, y1) = f[<<x1, y1>>]
    <3>1. IsSolved(c, 1, 2, x1, x2, y1, y1)
      BY ConstructSolved
    <3> QED BY <3>1, Zenon DEF IsSolved, Part
  <2> DEFINE h == [x \in x1..x2 |-> f[<<x, y1>>]]
             keep == c.alg \in Set!KeepsFirst
  <2>2. h[x2] = <<>> /\ h[x1] = f[<<x1, y1>>]
    <3>1. x2 \in x1..x2 /\ x1 \in x1..x2 /\ y1 \in y1..y1
      OBVIOUS
    <3>2. f[<<x2, y1>>] = ConstructStep(c, 1, 2, x2, y1, x2, y1, f)
      BY <2>1, <3>1, Zenon DEF Solves
    <3>3. f[<<x2, y1>>] = <<>>
      BY <3>2, Zenon DEF ConstructStep
    <3> QED BY <3>1, <3>3
  <2>3. ASSUME NEW x \in x1..(x2 - 1) PROVE h[x] = (IF keep THEN <<<<1, x>>>> ELSE <<>>) \o h[x + 1]
    <3>1. x \in x1..x2 /\ x + 1 \in x1..x2 /\ y1 \in y1..y1 /\ x # x2
      OBVIOUS
    <3>2. f[<<x, y1>>] = ConstructStep(c, 1, 2, x2, y1, x, y1, f)
      BY <2>1, <3>1, Zenon DEF Solves
    <3>3. f[<<x, y1>>] = (IF keep THEN <<<<1, x>>>> ELSE <<>>) \o f[<<x + 1, y1>>]
      BY <3>1, <3>2, Zenon DEF ConstructStep
    <3> QED BY <3>1, <3>3
  <2> HIDE DEF h, keep
  <2>4. keep \in BOOLEAN
    BY DEF keep
  <2>5. h[x1] = (IF keep THEN Row(1, x1, x2) ELSE <<>>) /\ Row(1, x1, x2) \in Seq(Items)
    <3>1. 1 \in {1, 2}
      OBVIOUS
    <3>2. Copying(1, x1, x2, keep, h)
      BY <2>2, <2>3 DEF Copying
    <3> QED BY <2>4, <3>1, <3>2, RowBuilt
  <2> QED BY <2>1, <2>2, <2>5 DEF keep
<1>2. /\ Part(c, x1, x1, y1, y2) = IF c.alg \in Set!KeepsSecond THEN Row(2, y1, y2) ELSE <<>>
      /\ Row(2, y1, y2) \in Seq(Items)
  <2>1. PICK f : Solves(c, 1, 2, x1, x1, y1, y2, f) /\ Part(c, x1, x1, y1, y2) = f[<<x1, y1>>]
    <3>1. x1 <= x1 /\ 1 \in {1, 2} /\ 2 \in {1, 2}
      OBVIOUS
    <3>2. IsSolved(c, 1, 2, x1, x1, y1, y2)
      BY <3>1, ConstructSolved
    <3> QED BY <3>2, Zenon DEF IsSolved, Part
  <2> DEFINE h == [y \in y1..y2 |-> f[<<x1, y>>]]
             keep == c.alg \in Set!KeepsSecond
  <2>2. h[y2] = <<>> /\ h[y1] = f[<<x1, y1>>]
    <3>1. y2 \in y1..y2 /\ y1 \in y1..y2 /\ x1 \in x1..x1
      OBVIOUS
    <3>2. f[<<x1, y2>>] = ConstructStep(c, 1, 2, x1, y2, x1, y2, f)
      BY <2>1, <3>1, Zenon DEF Solves
    <3>3. f[<<x1, y2>>] = <<>>
      BY <3>2, Zenon DEF ConstructStep
    <3> QED BY <3>1, <3>3
  <2>3. ASSUME NEW y \in y1..(y2 - 1) PROVE h[y] = (IF keep THEN <<<<2, y>>>> ELSE <<>>) \o h[y + 1]
    <3>1. y \in y1..y2 /\ y + 1 \in y1..y2 /\ x1 \in x1..x1 /\ y # y2
      OBVIOUS
    <3>2. f[<<x1, y>>] = ConstructStep(c, 1, 2, x1, y2, x1, y, f)
      BY <2>1, <3>1, Zenon DEF Solves
    <3>3. f[<<x1, y>>] = (IF keep THEN <<<<2, y>>>> ELSE <<>>) \o f[<<x1, y + 1>>]
      BY <3>1, <3>2, Zenon DEF ConstructStep
    <3> QED BY <3>1, <3>3
  <2> HIDE DEF h, keep
  <2>4. keep \in BOOLEAN
    BY DEF keep
  <2>5. h[y1] = (IF keep THEN Row(2, y1, y2) ELSE <<>>) /\ Row(2, y1, y2) \in Seq(Items)
    <3>1. 2 \in {1, 2}
      OBVIOUS
    <3>2. Copying(2, y1, y2, keep, h)
      BY <2>2, <2>3 DEF Copying
    <3> QED BY <2>4, <3>1, <3>2, RowBuilt
  <2> QED BY <2>1, <2>2, <2>5 DEF keep
<1> QED BY <1>1, <1>2

(* The copies a set operation plans beside its scan are copies of a part of the result,  *)
(* and fill what precedes the place at which the scan's part begins.                    *)
Gives(cs, at, s) ==
  /\ at \in 0..Len(s)
  /\ \A t \in cs : \A k \in 0..((t.hi - t.lo) - 1) :
       t.at + k \in 0..(at - 1) /\ s[(t.at + k) + 1] = <<t.seq, t.lo + k>>
  /\ \A y \in 0..(at - 1) : \E t \in cs : y \in t.at..((t.at + (t.hi - t.lo)) - 1)

PlanRight(c, p, n1, n2) ==
  /\ Gives(p.copies, p.at, Built(c, n1, n2))
  /\ p.kind = "copies" => p.at = Len(Built(c, n1, n2))
  /\ p.kind = "set_op" => CutAt(c, n1, n2, p.a0, p.b0) /\ p.at = Len(Built(c, p.a0, p.b0))

LEMMA CopiesGive ==
  ASSUME NEW s \in {1, 2}, NEW r \in {1, 2}, NEW m \in Nat, NEW n \in Nat, NEW rest \in Seq(Items),
         Row(s, 0, m) \in Seq(Items), Row(r, 0, n) \in Seq(Items)
  PROVE  /\ Gives({}, 0, rest)
         /\ Gives({Set!Copy(s, 0, m, 0)}, m, Row(s, 0, m) \o rest)
         /\ Gives({Set!Copy(s, 0, m, 0), Set!Copy(r, 0, n, m)}, m + n, Row(s, 0, m) \o Row(r, 0, n))
         /\ Len(Row(s, 0, m)) = m /\ Len(Row(s, 0, m) \o Row(r, 0, n)) = m + n
<1> DEFINE x == Row(s, 0, m)
           y == Row(r, 0, n)
           u == Set!Copy(s, 0, m, 0)
           v == Set!Copy(r, 0, n, m)
<1>1. /\ u.seq = s /\ u.lo = 0 /\ u.hi = m /\ u.at = 0
      /\ v.seq = r /\ v.lo = 0 /\ v.hi = n /\ v.at = m
  BY DEF Set!Copy
<1>2. /\ x \in Seq(Items) /\ Len(x) = m /\ \A k \in 0..(m - 1) : x[k + 1] = <<s, k>>
      /\ y \in Seq(Items) /\ Len(y) = n /\ \A k \in 0..(n - 1) : y[k + 1] = <<r, k>>
  <2>1. m - 0 = m /\ n - 0 = n
    OBVIOUS
  <2>2. Len(x) = m /\ Len(y) = n
    BY <2>1 DEF Row
  <2>3. ASSUME NEW k \in 0..(m - 1) PROVE x[k + 1] = <<s, k>>
    <3>1. k + 1 \in 1..(m - 0) /\ 0 + ((k + 1) - 1) = k
      OBVIOUS
    <3> QED BY <3>1 DEF Row
  <2>4. ASSUME NEW k \in 0..(n - 1) PROVE y[k + 1] = <<r, k>>
    <3>1. k + 1 \in 1..(n - 0) /\ 0 + ((k + 1) - 1) = k
      OBVIOUS
    <3> QED BY <3>1 DEF Row
  <2> QED BY <2>2, <2>3, <2>4
<1> HIDE DEF x, y, u, v
<1>3. Gives({}, 0, rest)
  <2>1. Len(rest) \in Nat
    OBVIOUS
  <2>2. 0 \in 0..Len(rest) /\ 0..(0 - 1) = {}
    BY <2>1
  <2> QED BY <2>2, Zenon DEF Gives
<1>4. Gives({u}, m, x \o rest)
  <2>1. /\ x \o rest \in Seq(Items) /\ m \in 0..Len(x \o rest)
        /\ \A k \in 0..(m - 1) : (x \o rest)[k + 1] = x[k + 1]
    BY <1>2
  <2>2. ASSUME NEW k \in 0..((u.hi - u.lo) - 1)
        PROVE  u.at + k \in 0..(m - 1) /\ (x \o rest)[(u.at + k) + 1] = <<u.seq, u.lo + k>>
    <3>1. k \in 0..(m - 1) /\ u.at + k = k /\ u.lo + k = k
      BY <1>1
    <3> QED BY <1>1, <1>2, <2>1, <3>1
  <2>3. \A z \in 0..(m - 1) : z \in u.at..((u.at + (u.hi - u.lo)) - 1)
    BY <1>1
  <2> QED BY <2>1, <2>2, <2>3, Zenon DEF Gives
<1>5. Gives({u, v}, m + n, x \o y)
  <2>1. /\ x \o y \in Seq(Items) /\ Len(x \o y) = m + n /\ m + n \in Nat
        /\ \A k \in 0..(m - 1) : (x \o y)[k + 1] = x[k + 1]
    <3>1. x \in Seq(Items) /\ y \in Seq(Items) /\ Len(x) = m /\ Len(y) = n
      BY <1>2
    <3>2. x \o y \in Seq(Items) /\ Len(x \o y) = m + n /\ m + n \in Nat
      BY <3>1
    <3>3. ASSUME NEW k \in 0..(m - 1) PROVE (x \o y)[k + 1] = x[k + 1]
      BY <3>1
    <3> QED BY <3>2, <3>3
  <2>2. ASSUME NEW k \in 0..((u.hi - u.lo) - 1)
        PROVE  u.at + k \in 0..((m + n) - 1) /\ (x \o y)[(u.at + k) + 1] = <<u.seq, u.lo + k>>
    <3>1. k \in 0..(m - 1) /\ u.at + k = k /\ u.lo + k = k /\ k \in 0..((m + n) - 1)
      BY <1>1
    <3> QED BY <1>1, <1>2, <2>1, <3>1
  <2>3. ASSUME NEW k \in 0..((v.hi - v.lo) - 1)
        PROVE  v.at + k \in 0..((m + n) - 1) /\ (x \o y)[(v.at + k) + 1] = <<v.seq, v.lo + k>>
    <3>1. k \in 0..(n - 1) /\ v.at + k = m + k /\ v.lo + k = k /\ m + k \in 0..((m + n) - 1)
      BY <1>1
    <3>2. (x \o y)[(m + k) + 1] = y[k + 1]
      <4>1. (m + k) + 1 \in 1..(m + n) /\ (m + k) + 1 > m /\ ((m + k) + 1) - m = k + 1
        BY <3>1
      <4> QED BY <1>2, <2>1, <4>1
    <3>3. y[k + 1] = <<r, k>>
      BY <1>2, <3>1
    <3> QED BY <1>1, <3>1, <3>2, <3>3
  <2>4. ASSUME NEW z \in 0..((m + n) - 1)
        PROVE  z \in u.at..((u.at + (u.hi - u.lo)) - 1) \/ z \in v.at..((v.at + (v.hi - v.lo)) - 1)
    BY <1>1
  <2>5. m + n \in 0..Len(x \o y)
    BY <2>1
  <2> QED BY <2>2, <2>3, <2>4, <2>5, Zenon DEF Gives
<1>6. Len(x \o y) = m + n
  BY <1>2
<1> QED BY <1>2, <1>3, <1>4, <1>5, <1>6 DEF x, y, u, v

(* Where a sequence alone precedes everything of the other, the result begins with it,   *)
(* and an operation that does not keep it leaves none of it.                             *)
LEMMA CutFirst ==
  ASSUME NEW c, NEW n1, NEW n2, FormedSet(c, n1, n2), NEW x, CutAt(c, n1, n2, x, 0)
  PROVE  /\ x \in Nat /\ x <= n1
         /\ Built(c, x, 0) = IF c.alg \in Set!KeepsFirst THEN Row(1, 0, x) ELSE <<>>
         /\ Part(c, x, n1, 0, n2) \in Seq(Items)
         /\ Built(c, n1, n2) = Built(c, x, 0) \o Part(c, x, n1, 0, n2)
         /\ x = n1 => Part(c, x, n1, 0, n2) = IF c.alg \in Set!KeepsSecond THEN Row(2, 0, n2) ELSE <<>>
         /\ Row(1, 0, x) \in Seq(Items) /\ Row(2, 0, n2) \in Seq(Items)
<1>1. n1 \in Nat /\ n2 \in Nat /\ x \in Nat /\ x <= n1 /\ n1 <= n1 /\ 0 \in Nat /\ 0 <= x /\ 0 <= n2 /\ 0 <= 0
  <2>1. n1 \in Nat /\ n2 \in Nat /\ x \in 0..n1
    BY ElementsAre DEF CutAt
  <2> QED BY <2>1
<1>2. CutAt(c, n1, n2, n1, n2)
  BY CutAtEnds
<1>3. /\ Part(c, x, n1, 0, n2) \in Seq(Items)
      /\ Built(c, n1, n2) = Built(c, x, 0) \o Part(c, x, n1, 0, n2)
  BY <1>1, <1>2, BuiltJoins
<1>4. /\ Part(c, 0, x, 0, 0) = IF c.alg \in Set!KeepsFirst THEN Row(1, 0, x) ELSE <<>>
      /\ Row(1, 0, x) \in Seq(Items)
  BY <1>1, Straight
<1>5. /\ Part(c, n1, n1, 0, n2) = IF c.alg \in Set!KeepsSecond THEN Row(2, 0, n2) ELSE <<>>
      /\ Row(2, 0, n2) \in Seq(Items)
  BY <1>1, Straight
<1> QED BY <1>1, <1>3, <1>4, <1>5 DEF Built

LEMMA CutSecond ==
  ASSUME NEW c, NEW n1, NEW n2, FormedSet(c, n1, n2), NEW y, CutAt(c, n1, n2, 0, y)
  PROVE  /\ y \in Nat /\ y <= n2
         /\ Built(c, 0, y) = IF c.alg \in Set!KeepsSecond THEN Row(2, 0, y) ELSE <<>>
         /\ Part(c, 0, n1, y, n2) \in Seq(Items)
         /\ Built(c, n1, n2) = Built(c, 0, y) \o Part(c, 0, n1, y, n2)
         /\ y = n2 => Part(c, 0, n1, y, n2) = IF c.alg \in Set!KeepsFirst THEN Row(1, 0, n1) ELSE <<>>
         /\ Row(2, 0, y) \in Seq(Items) /\ Row(1, 0, n1) \in Seq(Items)
<1>1. n1 \in Nat /\ n2 \in Nat /\ y \in Nat /\ y <= n2 /\ n2 <= n2 /\ 0 \in Nat /\ 0 <= y /\ 0 <= n1 /\ 0 <= 0
  <2>1. n1 \in Nat /\ n2 \in Nat /\ y \in 0..n2
    BY ElementsAre DEF CutAt
  <2> QED BY <2>1
<1>2. CutAt(c, n1, n2, n1, n2)
  BY CutAtEnds
<1>3. /\ Part(c, 0, n1, y, n2) \in Seq(Items)
      /\ Built(c, n1, n2) = Built(c, 0, y) \o Part(c, 0, n1, y, n2)
  BY <1>1, <1>2, BuiltJoins
<1>4. /\ Part(c, 0, 0, 0, y) = IF c.alg \in Set!KeepsSecond THEN Row(2, 0, y) ELSE <<>>
      /\ Row(2, 0, y) \in Seq(Items)
  BY <1>1, Straight
<1>5. /\ Part(c, 0, n1, n2, n2) = IF c.alg \in Set!KeepsFirst THEN Row(1, 0, n1) ELSE <<>>
      /\ Row(1, 0, n1) \in Seq(Items)
  BY <1>1, Straight
<1> QED BY <1>1, <1>3, <1>4, <1>5 DEF Built

\* The lower bounds a plan is made by are such places.
LEMMA BoundsAreCuts ==
  ASSUME NEW c, NEW n1, NEW n2, FormedSet(c, n1, n2)
  PROVE  /\ n2 # 0 => CutAt(c, n1, n2, Set!LowerBound(c.a, 0, n1, c.b[0]), 0)
         /\ n1 # 0 => CutAt(c, n1, n2, 0, Set!LowerBound(c.b, 0, n2, c.a[0]))
<1>1. /\ n1 \in Nat /\ n2 \in Nat /\ IsSequence(c.a, n1) /\ IsSequence(c.b, n2)
      /\ \A k \in 0..(n1 - 1) : c.a[k] \in Int
      /\ \A k \in 0..(n2 - 1) : c.b[k] \in Int
      /\ \A k, l \in 0..(n1 - 1) : k <= l => c.a[k] <= c.a[l]
      /\ \A k, l \in 0..(n2 - 1) : k <= l => c.b[k] <= c.b[l]
  <2>1. IsSequence(c.a, n1) /\ IsSequence(c.b, n2)
    BY DEF FormedSet
  <2> QED BY <2>1 DEF IsSequence
<1>2. 0..(0 - 1) = {} /\ 0 \in Nat /\ 0 \in 0..n1 /\ 0 \in 0..n2 /\ n1 \in 0..n1 /\ n2 \in 0..n2 /\ 0 <= n1 /\ 0 <= n2
  BY <1>1
<1>3. ASSUME n2 # 0 PROVE CutAt(c, n1, n2, Set!LowerBound(c.a, 0, n1, c.b[0]), 0)
  <2> DEFINE x == Set!LowerBound(c.a, 0, n1, c.b[0])
  <2>1. 0 \in 0..(n2 - 1)
    BY <1>1, <1>3
  <2>2. c.b[0] \in Int
    BY <1>1, <2>1
  <2>3. x \in 0..n1 /\ (\A k \in 0..(x - 1) : c.a[k] < c.b[0]) /\ \A k \in x..(n1 - 1) : c.a[k] >= c.b[0]
    BY <1>1, <1>2, <2>2, LowerBounds
  <2> HIDE DEF x
  <2>4. ASSUME NEW k \in 0..(x - 1)
        PROVE  /\ \A l \in x..(n1 - 1) : c.a[k] < c.a[l]
               /\ \A l \in 0..(n2 - 1) : c.a[k] < c.b[l]
    <3>1. k \in 0..(n1 - 1) /\ c.a[k] < c.b[0]
      BY <1>1, <2>3
    <3>2. c.a[k] \in Int
      BY <1>1, <3>1
    <3>3. ASSUME NEW l \in x..(n1 - 1) PROVE c.a[k] < c.a[l]
      <4>1. c.a[l] \in Int /\ c.a[l] >= c.b[0]
        BY <1>1, <2>3
      <4> QED BY <2>2, <3>1, <3>2, <4>1
    <3>4. ASSUME NEW l \in 0..(n2 - 1) PROVE c.a[k] < c.b[l]
      <4>1. c.b[l] \in Int /\ c.b[0] <= c.b[l]
        BY <1>1, <2>1
      <4> QED BY <2>2, <3>1, <3>2, <4>1
    <3> QED BY <3>3, <3>4
  <2>5. CutAt(c, n1, n2, x, 0)
    BY <1>2, <2>3, <2>4, Zenon DEF CutAt
  <2> QED BY <2>5 DEF x
<1>4. ASSUME n1 # 0 PROVE CutAt(c, n1, n2, 0, Set!LowerBound(c.b, 0, n2, c.a[0]))
  <2> DEFINE y == Set!LowerBound(c.b, 0, n2, c.a[0])
  <2>1. 0 \in 0..(n1 - 1)
    BY <1>1, <1>4
  <2>2. c.a[0] \in Int
    BY <1>1, <2>1
  <2>3. y \in 0..n2 /\ (\A k \in 0..(y - 1) : c.b[k] < c.a[0]) /\ \A k \in y..(n2 - 1) : c.b[k] >= c.a[0]
    BY <1>1, <1>2, <2>2, LowerBounds
  <2> HIDE DEF y
  <2>4. ASSUME NEW k \in 0..(y - 1)
        PROVE  /\ \A l \in 0..(n1 - 1) : c.b[k] < c.a[l]
               /\ \A l \in y..(n2 - 1) : c.b[k] < c.b[l]
    <3>1. k \in 0..(n2 - 1) /\ c.b[k] < c.a[0]
      BY <1>1, <2>3
    <3>2. c.b[k] \in Int
      BY <1>1, <3>1
    <3>3. ASSUME NEW l \in y..(n2 - 1) PROVE c.b[k] < c.b[l]
      <4>1. c.b[l] \in Int /\ c.b[l] >= c.a[0]
        BY <1>1, <2>3
      <4> QED BY <2>2, <3>1, <3>2, <4>1
    <3>4. ASSUME NEW l \in 0..(n1 - 1) PROVE c.b[k] < c.a[l]
      <4>1. c.a[l] \in Int /\ c.a[0] <= c.a[l]
        BY <1>1, <2>1
      <4> QED BY <2>2, <3>1, <3>2, <4>1
    <3> QED BY <3>3, <3>4
  <2>5. CutAt(c, n1, n2, 0, y)
    BY <1>2, <2>3, <2>4, Zenon DEF CutAt
  <2> QED BY <2>5 DEF y
<1> QED BY <1>3, <1>4

LEMMA PlansAreRight ==
  ASSUME NEW c, NEW n1, NEW n2, FormedSet(c, n1, n2)
  PROVE  Set!Plan(c).kind = "serial" \/ PlanRight(c, Set!Plan(c), n1, n2)
<1> DEFINE lb1 == IF n2 = 0 THEN 0 ELSE Set!LowerBound(c.a, 0, n1, c.b[0])
           lb2 == IF n1 = 0 THEN 0 ELSE Set!LowerBound(c.b, 0, n2, c.a[0])
           p == Set!Plan(c)
           first == c.alg \in Set!KeepsFirst
           second == c.alg \in Set!KeepsSecond
           R == Built(c, n1, n2)
           planned(q) == q.kind = "serial" \/ PlanRight(c, q, n1, n2)
           head == Set!Copy(1, 0, n1, 0)
           headCopy == Set!Copies({head}, n1)
           bothCopies == Set!Copies({head, Set!Copy(2, 0, n2, n1)}, n1 + n2)
           swappedCopies == Set!Copies({Set!Copy(2, 0, n2, 0), Set!Copy(1, 0, n1, n2)}, n1 + n2)
           nothing == Set!Copies({}, 0)
           beginSet == Set!SetOp({}, 0, 0, 0)
           swapped(y) == [Set!SetOp({}, 0, 0, y) EXCEPT !.swap = TRUE]
<1>1. n1 \in Nat /\ n2 \in Nat /\ Set!Size(c.a) = n1 /\ Set!Size(c.b) = n2
  BY SequenceSize DEF FormedSet, IsSequence
<1>2. p = CASE c.alg = "intersection" -> Set!IntersectionPlan(c, n1, n2, lb1, lb2)
            [] c.alg = "difference"   -> Set!DifferencePlan(c, n1, n2, lb1, lb2)
            [] OTHER -> IF n1 + n2 <= SetCutOff THEN Set!Serial ELSE Set!UnionPlan(c, n1, n2, lb1, lb2)
  BY <1>1, Zenon DEF Set!Plan
<1>3. /\ n2 # 0 => CutAt(c, n1, n2, lb1, 0)
      /\ n1 # 0 => CutAt(c, n1, n2, 0, lb2)
      /\ n2 = 0 => CutAt(c, n1, n2, n1, 0)
      /\ n1 = 0 => CutAt(c, n1, n2, 0, n2)
      /\ CutAt(c, n1, n2, 0, 0)
  BY BoundsAreCuts, CutAtEnds
<1> HIDE DEF lb1, lb2, p
<1>4. /\ c.alg = "intersection" => ~first /\ ~second
      /\ c.alg = "difference" => first /\ ~second
      /\ c.alg \in {"union", "symmetric_difference"} => first /\ second
      /\ c.alg \in {"union", "intersection", "difference", "symmetric_difference"}
  BY DEF Set!KeepsFirst, Set!KeepsSecond, FormedSet, Set!Algs
<1>5. ASSUME NEW cs, NEW at, Gives(cs, at, R), Len(R) = at PROVE planned(Set!Copies(cs, at))
  BY <1>5 DEF PlanRight, Set!Copies
<1>6. ASSUME NEW cs, NEW at, NEW a0, NEW b0, Gives(cs, at, R), CutAt(c, n1, n2, a0, b0), Len(Built(c, a0, b0)) = at
      PROVE  planned(Set!SetOp(cs, at, a0, b0)) /\ planned([Set!SetOp(cs, at, a0, b0) EXCEPT !.swap = TRUE])
  BY <1>6 DEF PlanRight, Set!SetOp
<1>7. planned(Set!Serial)
  BY DEF Set!Serial, Set!Copies
<1> HIDE DEF planned
<1>8. /\ <<>> \in Seq(Items) /\ Len(<<>>) = 0 /\ <<>> \o <<>> = <<>> /\ 1 \in {1, 2} /\ 2 \in {1, 2}
      /\ \A s \in Seq(Items) : <<>> \o s = s /\ s \o <<>> = s
  OBVIOUS
<1>9. ASSUME NEW x, CutAt(c, n1, n2, x, 0)
      PROVE  /\ first => planned(Set!SetOp({Set!Copy(1, 0, x, 0)}, x, x, 0))
             /\ ~first => planned(Set!SetOp({}, 0, x, 0))
             /\ x = n1 => /\ first /\ second => planned(bothCopies)
                          /\ first /\ ~second => planned(headCopy)
                          /\ ~first /\ ~second => planned(nothing)
                          /\ first /\ n2 = 0 => planned(headCopy)
  <2> DEFINE rest == Part(c, x, n1, 0, n2)
             one == Row(1, 0, x)
             two == Row(2, 0, n2)
  <2>1. /\ x \in Nat /\ Built(c, x, 0) = (IF first THEN one ELSE <<>>)
        /\ rest \in Seq(Items) /\ R = Built(c, x, 0) \o rest
        /\ x = n1 => rest = IF second THEN two ELSE <<>>
        /\ one \in Seq(Items) /\ two \in Seq(Items)
    BY <1>9, CutFirst
  <2>2. /\ Gives({}, 0, rest)
        /\ Gives({Set!Copy(1, 0, x, 0)}, x, one \o rest)
        /\ Gives({Set!Copy(1, 0, x, 0), Set!Copy(2, 0, n2, x)}, x + n2, one \o two)
        /\ Len(one) = x /\ Len(one \o two) = x + n2
    <3>1. x \in Nat /\ n2 \in Nat /\ rest \in Seq(Items) /\ one \in Seq(Items) /\ two \in Seq(Items)
      BY <1>1, <2>1
    <3>2. 1 \in {1, 2} /\ 2 \in {1, 2}
      OBVIOUS
    <3> HIDE DEF rest
    <3> QED BY <3>1, <3>2, CopiesGive, Zenon
  <2>3. n2 = 0 => two = <<>>
    <3>1. 1..(0 - 0) = {}
      OBVIOUS
    <3> QED BY <3>1 DEF Row
  <2> HIDE DEF rest, one, two, R, first, second
  <2>4. first => planned(Set!SetOp({Set!Copy(1, 0, x, 0)}, x, x, 0))
    <3>1. first => R = one \o rest /\ Built(c, x, 0) = one
      BY <2>1
    <3> QED BY <1>6, <1>9, <2>2, <3>1
  <2>5. ~first => planned(Set!SetOp({}, 0, x, 0))
    <3>1. ~first => R = rest /\ Built(c, x, 0) = <<>>
      BY <1>8, <2>1
    <3> QED BY <1>6, <1>8, <1>9, <2>2, <3>1
  <2>6. x = n1 /\ first /\ second => planned(bothCopies)
    <3>1. x = n1 /\ first /\ second => R = one \o two
      BY <2>1
    <3> QED BY <1>5, <2>2, <3>1
  <2>7. x = n1 /\ first /\ (~second \/ n2 = 0) => planned(headCopy)
    <3>1. x = n1 /\ first /\ (~second \/ n2 = 0) => R = one \o <<>> /\ rest = <<>>
      BY <1>8, <2>1, <2>3
    <3>2. one \o <<>> = one
      BY <1>8, <2>1
    <3> QED BY <1>5, <2>2, <3>1, <3>2
  <2>8. x = n1 /\ ~first /\ ~second => planned(nothing)
    <3>1. x = n1 /\ ~first /\ ~second => R = <<>> /\ rest = <<>>
      BY <1>8, <2>1
    <3> QED BY <1>5, <1>8, <2>2, <3>1
  <2> QED BY <2>4, <2>5, <2>6, <2>7, <2>8
<1>10. ASSUME NEW y, CutAt(c, n1, n2, 0, y)
       PROVE  /\ second => planned(Set!SetOp({Set!Copy(2, 0, y, 0)}, y, 0, y))
              /\ ~second => planned(swapped(y))
              /\ y = n2 => /\ first /\ second => planned(swappedCopies)
                           /\ first /\ ~second => planned(headCopy)
                           /\ ~first /\ ~second => planned(nothing)
                           /\ second /\ n1 = 0 => planned(Set!Copies({Set!Copy(2, 0, n2, 0)}, n2))
                           /\ first /\ ~second /\ n1 = 0 => planned(nothing)
  <2> DEFINE rest == Part(c, 0, n1, y, n2)
             one == Row(1, 0, n1)
             two == Row(2, 0, y)
  <2>1. /\ y \in Nat /\ Built(c, 0, y) = (IF second THEN two ELSE <<>>)
        /\ rest \in Seq(Items) /\ R = Built(c, 0, y) \o rest
        /\ y = n2 => rest = IF first THEN one ELSE <<>>
        /\ one \in Seq(Items) /\ two \in Seq(Items)
    BY <1>10, CutSecond
  <2>2. /\ Gives({}, 0, rest)
        /\ Gives({Set!Copy(2, 0, y, 0)}, y, two \o rest)
        /\ Gives({Set!Copy(2, 0, y, 0), Set!Copy(1, 0, n1, y)}, y + n1, two \o one)
        /\ Len(two) = y /\ Len(two \o one) = y + n1
    <3>1. y \in Nat /\ n1 \in Nat /\ rest \in Seq(Items) /\ two \in Seq(Items) /\ one \in Seq(Items)
      BY <1>1, <2>1
    <3>2. 1 \in {1, 2} /\ 2 \in {1, 2}
      OBVIOUS
    <3> HIDE DEF rest
    <3> QED BY <3>1, <3>2, CopiesGive, Zenon
  <2>3. n1 = 0 => one = <<>>
    <3>1. 1..(0 - 0) = {}
      OBVIOUS
    <3> QED BY <3>1 DEF Row
  <2>4. Gives({head}, n1, one \o <<>>) /\ Len(one) = n1 /\ one \o <<>> = one
    BY <1>1, <1>8, <2>1, CopiesGive
  <2>5. y + n1 = n1 + y
    BY <1>1, <2>1
  <2> HIDE DEF rest, one, two, R, first, second
  <2>6. second => planned(Set!SetOp({Set!Copy(2, 0, y, 0)}, y, 0, y))
    <3>1. second => R = two \o rest /\ Built(c, 0, y) = two
      BY <2>1
    <3> QED BY <1>6, <1>10, <2>2, <3>1
  <2>7. ~second => planned(swapped(y))
    <3>1. ~second => R = rest /\ Built(c, 0, y) = <<>>
      BY <1>8, <2>1
    <3> QED BY <1>6, <1>8, <1>10, <2>2, <3>1
  <2>8. y = n2 /\ first /\ second => planned(swappedCopies)
    <3>1. y = n2 /\ first /\ second => R = two \o one
      BY <2>1
    <3> QED BY <1>5, <2>2, <2>5, <3>1
  <2>9. y = n2 /\ first /\ ~second => planned(headCopy)
    <3>1. y = n2 /\ first /\ ~second => R = one
      BY <1>8, <2>1
    <3> QED BY <1>5, <2>4, <3>1
  <2>10. y = n2 /\ ~first /\ ~second => planned(nothing)
    <3>1. y = n2 /\ ~first /\ ~second => R = <<>> /\ rest = <<>>
      BY <1>8, <2>1
    <3> QED BY <1>5, <1>8, <2>2, <3>1
  <2>11. y = n2 /\ second /\ n1 = 0 => planned(Set!Copies({Set!Copy(2, 0, n2, 0)}, n2))
    <3>1. y = n2 /\ second /\ n1 = 0 => R = two \o <<>> /\ rest = <<>>
      BY <1>8, <2>1, <2>3
    <3>2. two \o <<>> = two
      BY <1>8, <2>1
    <3> QED BY <1>5, <2>2, <3>1, <3>2
  <2>12. y = n2 /\ first /\ ~second /\ n1 = 0 => planned(nothing)
    <3>1. y = n2 /\ first /\ ~second /\ n1 = 0 => R = <<>> /\ rest = <<>>
      BY <1>8, <2>1, <2>3
    <3> QED BY <1>5, <1>8, <2>2, <3>1
  <2> QED BY <2>6, <2>7, <2>8, <2>9, <2>10, <2>11, <2>12
<1>11. planned(beginSet)
  <2>1. CutAt(c, n1, n2, 0, 0) /\ Built(c, 0, 0) = <<>> /\ Gives({}, 0, R)
    <3>1. /\ Built(c, 0, 0) = (IF first THEN Row(1, 0, 0) ELSE <<>>)
          /\ Part(c, 0, n1, 0, n2) \in Seq(Items) /\ Row(1, 0, 0) \in Seq(Items)
      BY <1>3, CutFirst
    <3>2. Row(1, 0, 0) = <<>>
      <4>1. 1..(0 - 0) = {}
        OBVIOUS
      <4> QED BY <4>1 DEF Row
    <3>3. Gives({}, 0, Part(c, 0, n1, 0, n2))
      <4>1. 0 \in Nat
        OBVIOUS
      <4> QED BY <1>8, <3>1, <4>1, CopiesGive
    <3> QED BY <1>3, <3>1, <3>2, <3>3 DEF Built
  <2> QED BY <1>6, <1>8, <2>1
<1> HIDE DEF first, second, R, head, headCopy, bothCopies, swappedCopies, nothing, beginSet, swapped
<1>12. c.alg = "intersection" => planned(Set!IntersectionPlan(c, n1, n2, lb1, lb2))
  <2> SUFFICES ASSUME c.alg = "intersection" PROVE planned(Set!IntersectionPlan(c, n1, n2, lb1, lb2))
    OBVIOUS
  <2>1. n1 = 0 \/ n2 = 0 \/ lb1 = n1 \/ lb2 = n2 => planned(nothing)
    BY <1>3, <1>4, <1>9, <1>10, Zenon
  <2>2. n1 # 0 /\ n2 # 0 => planned(Set!SetOp({}, 0, lb1, 0)) /\ planned(swapped(lb2))
    BY <1>3, <1>4, <1>9, <1>10, Zenon
  <2> QED BY <1>7, <2>1, <2>2, Zenon DEF Set!IntersectionPlan, nothing, swapped
<1>13. c.alg = "difference" => planned(Set!DifferencePlan(c, n1, n2, lb1, lb2))
  <2> SUFFICES ASSUME c.alg = "difference" PROVE planned(Set!DifferencePlan(c, n1, n2, lb1, lb2))
    OBVIOUS
  <2>1. n1 = 0 => planned(nothing)
    BY <1>3, <1>4, <1>10, Zenon
  <2>2. n1 # 0 /\ (n2 = 0 \/ lb1 = n1 \/ lb2 = n2) => planned(headCopy)
    BY <1>3, <1>4, <1>9, <1>10, Zenon
  <2> QED BY <1>7, <1>11, <2>1, <2>2, Zenon DEF Set!DifferencePlan, nothing, headCopy, head, beginSet
<1>14. c.alg \in {"union", "symmetric_difference"} => planned(Set!UnionPlan(c, n1, n2, lb1, lb2))
  <2> SUFFICES ASSUME c.alg \in {"union", "symmetric_difference"} PROVE planned(Set!UnionPlan(c, n1, n2, lb1, lb2))
    OBVIOUS
  <2>1. first /\ second
    BY <1>4
  <2>2. n2 = 0 => planned(headCopy)
    BY <1>3, <1>9, <2>1, Zenon
  <2>3. n1 = 0 => planned(Set!Copies({Set!Copy(2, 0, n2, 0)}, n2))
    BY <1>3, <1>10, <2>1, Zenon
  <2>4. n1 # 0 /\ n2 # 0 =>
          /\ lb1 = n1 => planned(bothCopies)
          /\ lb2 = n2 => planned(swappedCopies)
          /\ planned(Set!SetOp({Set!Copy(1, 0, lb1, 0)}, lb1, lb1, 0))
          /\ planned(Set!SetOp({Set!Copy(2, 0, lb2, 0)}, lb2, 0, lb2))
    BY <1>3, <1>9, <1>10, <2>1, Zenon
  <2> QED BY <1>11, <2>2, <2>3, <2>4, Zenon DEF Set!UnionPlan, headCopy, head, bothCopies, swappedCopies, beginSet
<1>15. planned(p)
  <2>1. c.alg # "intersection" /\ c.alg # "difference" => c.alg \in {"union", "symmetric_difference"}
    BY <1>4
  <2> QED BY <1>2, <1>7, <1>12, <1>13, <1>14, <2>1
<1> QED BY <1>15 DEF planned, p

(* The blocks of the scan begin and end at places that everything before is less than   *)
(* everything after.                                                                   *)
LEMMA ScanIsLeft ==
  ASSUME NEW c, NEW n1, NEW n2, FormedSet(c, n1, n2), Set!Plan(c).kind = "set_op"
  PROVE  Set!Plan(c).a0 # n1
<1> DEFINE lb1 == IF n2 = 0 THEN 0 ELSE Set!LowerBound(c.a, 0, n1, c.b[0])
           lb2 == IF n1 = 0 THEN 0 ELSE Set!LowerBound(c.b, 0, n2, c.a[0])
           p == Set!Plan(c)
           planned(q) == q.kind = "set_op" => q.a0 # n1
<1>1. Set!Size(c.a) = n1 /\ Set!Size(c.b) = n2
  BY SequenceSize DEF FormedSet
<1>2. p = CASE c.alg = "intersection" -> Set!IntersectionPlan(c, n1, n2, lb1, lb2)
            [] c.alg = "difference"   -> Set!DifferencePlan(c, n1, n2, lb1, lb2)
            [] OTHER -> IF n1 + n2 <= SetCutOff THEN Set!Serial ELSE Set!UnionPlan(c, n1, n2, lb1, lb2)
  BY <1>1, Zenon DEF Set!Plan
<1> HIDE DEF lb1, lb2, p
<1>3. planned(Set!Serial) /\ \A cs, at : planned(Set!Copies(cs, at))
  BY DEF Set!Serial, Set!Copies
<1>4. ASSUME NEW cs, NEW at, NEW a0, NEW b0, a0 # n1
      PROVE  planned(Set!SetOp(cs, at, a0, b0)) /\ planned([Set!SetOp(cs, at, a0, b0) EXCEPT !.swap = TRUE])
  BY <1>4 DEF Set!SetOp
<1> HIDE DEF planned
<1>5. planned(Set!IntersectionPlan(c, n1, n2, lb1, lb2))
  BY <1>3, <1>4, Zenon DEF Set!IntersectionPlan
<1>6. planned(Set!DifferencePlan(c, n1, n2, lb1, lb2))
  BY <1>3, <1>4, Zenon DEF Set!DifferencePlan
<1>7. planned(Set!UnionPlan(c, n1, n2, lb1, lb2))
  BY <1>3, <1>4, Zenon DEF Set!UnionPlan
<1>8. planned(p)
  BY <1>2, <1>3, <1>5, <1>6, <1>7
<1> QED BY <1>8 DEF planned, p

LEMMA BlocksAtCuts ==
  ASSUME NEW c, NEW n1, NEW n2, FormedSet(c, n1, n2), NEW p, PlansSetOp(c, p, n1, n2),
         CutAt(c, n1, n2, p.a0, p.b0), NEW k \in 0..(n1 - p.a0)
  PROVE  /\ CutAt(c, n1, n2, Cut(c, p, k), Low(c, p, k))
         /\ k # 0 /\ k = n1 - p.a0 => Cut(c, p, k) = n1 /\ Low(c, p, k) = n2
<1> DEFINE x == Cut(c, p, k)
           y == Low(c, p, k)
           e == p.a0 + k
<1>1. /\ n1 \in Nat /\ n2 \in Nat /\ p.a0 \in 0..n1 /\ p.b0 \in 0..n2 /\ k \in Nat /\ e \in Nat
      /\ \A z \in 0..(n1 - 1) : c.a[z] \in Int
      /\ \A z \in 0..(n2 - 1) : c.b[z] \in Int
      /\ \A z, w \in 0..(n1 - 1) : z <= w => c.a[z] <= c.a[w]
  <2>1. n1 \in Nat /\ n2 \in Nat /\ p.a0 \in 0..n1 /\ p.b0 \in 0..n2
    BY DEF FormedSet, IsSequence, PlansSetOp
  <2>2. k \in Nat /\ e \in Nat
    BY <2>1
  <2> QED BY <2>1, <2>2 DEF FormedSet, IsSequence
<1>2. /\ x \in Nat /\ x \in e..n1
      /\ k # 0 => \/ e = n1 /\ x = n1
                  \/ /\ e < n1
                     /\ \A z \in e..(x - 1) : c.a[z] <= c.a[e]
                     /\ \A z \in x..(n1 - 1) : c.a[z] > c.a[e]
  BY CutPlace
<1>3. /\ y \in Nat /\ y \in p.b0..n2
      /\ k # 0 => \/ x = n1 /\ y = n2
                  \/ /\ x < n1
                     /\ \A z \in p.b0..(y - 1) : c.b[z] < c.a[x]
                     /\ \A z \in y..(n2 - 1) : c.b[z] >= c.a[x]
  BY LowPlace
<1>4. CASE k = 0
  <2>1. x = p.a0 /\ y = p.b0
    BY <1>4 DEF Cut, Low
  <2> QED BY <1>4, <2>1
<1>5. CASE k # 0 /\ x = n1
  <2>1. y = n2
    <3> HIDE DEF x, y
    <3> QED BY <1>1, <1>3, <1>5
  <2> QED BY <1>5, <2>1, CutAtEnds
<1>6. CASE k # 0 /\ x # n1
  <2>1. e < n1 /\ x < n1 /\ e < x
    <3>1. x < n1 /\ e < n1 /\ (\A z \in x..(n1 - 1) : c.a[z] > c.a[e])
      <4> HIDE DEF x, y, e
      <4> QED BY <1>1, <1>2, <1>6
    <3>2. x # e
      <4> SUFFICES ASSUME x = e PROVE FALSE
        OBVIOUS
      <4> HIDE DEF x, y, e
      <4>1. e \in x..(n1 - 1) /\ e \in 0..(n1 - 1)
        BY <1>1, <1>2, <3>1
      <4>2. c.a[e] > c.a[e] /\ c.a[e] \in Int
        BY <1>1, <3>1, <4>1
      <4> QED BY <4>2
    <3> HIDE DEF x, y, e
    <3> QED BY <1>1, <1>2, <3>1, <3>2
  <2> HIDE DEF x, y, e
  <2>2. /\ \A z \in e..(x - 1) : c.a[z] <= c.a[e]
        /\ \A z \in x..(n1 - 1) : c.a[z] > c.a[e]
        /\ \A z \in p.b0..(y - 1) : c.b[z] < c.a[x]
        /\ \A z \in y..(n2 - 1) : c.b[z] >= c.a[x]
    <3>1. e # n1 /\ x # n1
      BY <1>1, <1>2, <2>1
    <3> QED BY <1>2, <1>3, <1>6, <3>1, Zenon
  <2>3. c.a[e] \in Int /\ c.a[x] \in Int /\ x \in 0..(n1 - 1) /\ e \in 0..(n1 - 1) /\ x \in x..(n1 - 1)
    BY <1>1, <1>2, <2>1
  <2>4. c.a[e] < c.a[x]
    BY <2>2, <2>3
  <2>5. ASSUME NEW z \in 0..(x - 1)
        PROVE  /\ \A l \in x..(n1 - 1) : c.a[z] < c.a[l]
               /\ \A l \in y..(n2 - 1) : c.a[z] < c.b[l]
    <3>1. z \in 0..(n1 - 1) /\ c.a[z] \in Int
      BY <1>1, <1>2, <2>1
    <3>2. c.a[z] <= c.a[e]
      <4>1. z <= e \/ z \in e..(x - 1)
        BY <1>1, <1>2
      <4> QED BY <1>1, <2>2, <2>3, <3>1, <4>1
    <3>3. ASSUME NEW l \in x..(n1 - 1) PROVE c.a[z] < c.a[l]
      <4>1. l \in 0..(n1 - 1)
        BY <1>2
      <4>2. c.a[l] \in Int /\ c.a[l] > c.a[e]
        BY <1>1, <2>2, <4>1
      <4> QED BY <2>3, <3>1, <3>2, <4>2
    <3>4. ASSUME NEW l \in y..(n2 - 1) PROVE c.a[z] < c.b[l]
      <4>1. l \in 0..(n2 - 1)
        BY <1>3
      <4>2. c.b[l] \in Int /\ c.b[l] >= c.a[x]
        BY <1>1, <2>2, <4>1
      <4> QED BY <2>3, <2>4, <3>1, <3>2, <4>2
    <3> QED BY <3>3, <3>4
  <2>6. ASSUME NEW z \in 0..(y - 1)
        PROVE  /\ \A l \in x..(n1 - 1) : c.b[z] < c.a[l]
               /\ \A l \in y..(n2 - 1) : c.b[z] < c.b[l]
    <3>1. z \in 0..(n2 - 1) /\ c.b[z] \in Int
      BY <1>1, <1>3
    <3>2. CASE z < p.b0
      <4>1. z \in 0..(p.b0 - 1) /\ x..(n1 - 1) \subseteq p.a0..(n1 - 1) /\ y..(n2 - 1) \subseteq p.b0..(n2 - 1)
        <5>1. p.a0 <= x /\ p.b0 <= y
          BY <1>1, <1>2, <1>3 DEF e
        <5> QED BY <1>1, <1>2, <1>3, <3>2, <5>1
      <4> QED BY <4>1, Zenon DEF CutAt
    <3>3. CASE ~(z < p.b0)
      <4>1. c.b[z] < c.a[x]
        <5>1. z \in p.b0..(y - 1)
          BY <1>1, <1>3, <3>3
        <5> QED BY <2>2, <5>1
      <4>2. ASSUME NEW l \in x..(n1 - 1) PROVE c.b[z] < c.a[l]
        <5>1. l \in 0..(n1 - 1) /\ x <= l
          BY <1>2
        <5>2. c.a[l] \in Int /\ c.a[x] <= c.a[l]
          BY <1>1, <2>3, <5>1
        <5> QED BY <2>3, <3>1, <4>1, <5>2
      <4>3. ASSUME NEW l \in y..(n2 - 1) PROVE c.b[z] < c.b[l]
        <5>1. l \in 0..(n2 - 1)
          BY <1>3
        <5>2. c.b[l] \in Int /\ c.b[l] >= c.a[x]
          BY <1>1, <2>2, <5>1
        <5> QED BY <2>3, <3>1, <4>1, <5>2
      <4> QED BY <4>2, <4>3
    <3> QED BY <3>2, <3>3
  <2>7. x \in 0..n1 /\ y \in 0..n2
    BY <1>1, <1>2, <1>3
  <2>8. CutAt(c, n1, n2, x, y)
    BY <2>5, <2>6, <2>7, Zenon DEF CutAt
  <2>9. k # n1 - p.a0
    BY <1>1, <2>1 DEF e
  <2> QED BY <2>8, <2>9 DEF x, y
<1> QED BY <1>4, <1>5, <1>6

(* The value of a block is what is built of the part between its ends.                 *)
LEMMA ReduceBuilds ==
  ASSUME NEW c, NEW n1, NEW n2, FormedSet(c, n1, n2), NEW p, PlansSetOp(c, p, n1, n2),
         NEW i \in 0..(n1 - p.a0), NEW j \in 0..(n1 - p.a0), i < j
  PROVE  Alike(c, Set!Reduce(c, p, i, j)[1], Part(c, Cut(c, p, i), Cut(c, p, j), Low(c, p, i), Low(c, p, j)))
<1> DEFINE b == Cut(c, p, i)
           e == Cut(c, p, j)
           bb == Low(c, p, i)
           ee == Low(c, p, j)
           res == Reducing(c, p, i, j)
<1>1. n1 \in Nat /\ n2 \in Nat /\ p.a0 \in Nat /\ c.alg \in Set!Algs /\ i \in Nat /\ j \in Nat /\ j # 0 /\ i <= j
  <2>1. n1 \in Nat /\ n2 \in Nat /\ p.a0 \in 0..n1 /\ c.alg \in Set!Algs
    BY DEF FormedSet, IsSequence, PlansSetOp
  <2> QED BY <2>1
<1>2. b \in Nat /\ e \in Nat /\ bb \in Nat /\ ee \in Nat /\ b <= e /\ bb <= ee /\ e <= n1 /\ ee <= n2
  <2>1. b \in Nat /\ e \in Nat /\ e \in (p.a0 + j)..n1 /\ bb \in Nat /\ ee \in Nat /\ ee \in p.b0..n2
    BY CutPlace, LowPlace
  <2>2. b <= e /\ bb <= ee
    BY <1>1, CutsRise, LowsRise
  <2>3. p.b0 \in Nat
    BY DEF FormedSet, IsSequence, PlansSetOp
  <2> HIDE DEF b, e, bb, ee
  <2> QED BY <1>1, <2>1, <2>2, <2>3
<1>3. Set!Reduce(c, p, i, j)[1] = res /\ (e - b < 1 => i # 0)
  BY ReduceIs
<1>4. res = IF e - b < 1 THEN <<>> ELSE IF p.swap THEN Set!Construct(c, 2, 1, bb, ee, b, e)
                                   ELSE Set!Construct(c, 1, 2, b, e, bb, ee)
  BY DEF Reducing
<1>5. b = e /\ i # 0 => bb = ee
  BY <1>1 DEF Low
<1> HIDE DEF b, e, bb, ee, res
<1>6. Alike(c, res, Part(c, b, e, bb, ee))
  <2>1. CASE e - b < 1
    <3>1. b = e /\ bb = ee /\ b <= b /\ bb <= bb
      BY <1>2, <1>3, <1>5, <2>1
    <3>2. Part(c, b, b, bb, bb) = IF c.alg \in Set!KeepsFirst THEN Row(1, b, b) ELSE <<>>
      BY <1>2, <3>1, Straight
    <3>3. Row(1, b, b) = <<>>
      <4>1. b - b = 0 /\ 1..0 = {}
        BY <1>2
      <4> QED BY <4>1 DEF Row
    <3>4. <<>> \in Seq(Items)
      OBVIOUS
    <3>5. Alike(c, <<>>, <<>>)
      BY <3>4, AlikeItself
    <3> QED BY <1>4, <2>1, <3>1, <3>2, <3>3, <3>5
  <2>2. CASE ~(e - b < 1) /\ p.swap
    <3>1. c.alg = "intersection"
      BY <2>2 DEF PlansSetOp
    <3>2. e \in 0..n1 /\ ee \in 0..n2 /\ b \in 0..e /\ bb \in 0..ee
      BY <1>1, <1>2
    <3>3. Alike(c, Set!Construct(c, 2, 1, bb, ee, b, e), Set!Construct(c, 1, 2, b, e, bb, ee))
      BY <3>1, <3>2, SwappedConstruct
    <3> QED BY <1>4, <2>2, <3>3 DEF Part
  <2>3. CASE ~(e - b < 1) /\ ~p.swap
    <3>1. Set!Construct(c, 1, 2, b, e, bb, ee) \in Seq(Items)
      <4>1. 1 \in {1, 2} /\ 2 \in {1, 2}
        OBVIOUS
      <4> QED BY <1>1, <1>2, <4>1, Constructed
    <3>2. Alike(c, Set!Construct(c, 1, 2, b, e, bb, ee), Set!Construct(c, 1, 2, b, e, bb, ee))
      BY <3>1, AlikeItself
    <3> QED BY <1>4, <2>3, <3>2 DEF Part
  <2> QED BY <2>1, <2>2, <2>3
<1> QED BY <1>3, <1>6 DEF b, e, bb, ee

-------------------------------------------------------------------------------
(* The result of a call, an element that may stand at a place of it, and the number of   *)
(* its elements before a block.                                                        *)
Result(c) == Built(c, Set!Size(c.a), Set!Size(c.b))
Held(c, v, m) == v \in Items /\ m \in 1..Len(Result(c)) /\ Same(c, v, Result(c)[m])
NumberAt(c, e) == Len(Built(c, Cut(c, Set!Plan(c), e), Low(c, Set!Plan(c), e)))

LEMMA ResultIs ==
  ASSUME IsSet(scanCall), FormedScan
  PROVE  /\ FormedSet(scanCall, N1, N2) /\ N1 \in Nat /\ N2 \in Nat /\ Size(scanCall) = N1 + N2
         /\ Results(TRUE) = Result(scanCall) /\ Result(scanCall) = Built(scanCall, N1, N2)
         /\ Result(scanCall) \in Seq(Items) /\ Len(Result(scanCall)) \in Nat
         /\ Len(Result(scanCall)) <= N1 + N2
<1>1. /\ FormedSet(scanCall, N1, N2) /\ N1 \in Nat /\ N2 \in Nat /\ Size(scanCall) = N1 + N2
      /\ scanCall.alg \in Set!Algs
  <2>1. FormedSet(scanCall, N1, N2)
    BY DEF FormedScan
  <2>2. N1 \in Nat /\ N2 \in Nat /\ Size(scanCall) = N1 + N2
    BY SetSizes
  <2>3. scanCall.alg \in Set!Algs
    BY <2>1 DEF FormedSet
  <2> QED BY <2>1, <2>2, <2>3
<1>2. Result(scanCall) = Built(scanCall, N1, N2)
  BY DEF Result, N1, N2
<1>3. Results(TRUE) = Result(scanCall) /\ Result(scanCall) \in Seq(Items)
  BY <1>2, BuiltResults
<1>4. Len(Result(scanCall)) \in Nat
  BY <1>3
<1>5. Len(Result(scanCall)) <= N1 + N2
  <2> DEFINE made == Set!Construct(scanCall, 1, 2, 0, N1, 0, N2)
  <2>1. 1 \in {1, 2} /\ 2 \in {1, 2} /\ 0 \in Nat /\ 0 <= N1 /\ 0 <= N2 /\ N1 - 0 = N1 /\ N2 - 0 = N2
    BY <1>1
  <2>2. Len(made) <= Set!SizeFunc(scanCall.alg, N1 - 0, N2 - 0)
    BY <1>1, <2>1, Constructed
  <2>3. made = Result(scanCall)
    BY <1>2 DEF Built, Part
  <2> HIDE DEF made
  <2>4. Set!SizeFunc(scanCall.alg, N1, N2) <= N1 + N2 /\ Set!SizeFunc(scanCall.alg, N1, N2) \in Nat
    BY <1>1 DEF Set!SizeFunc, Set!Algs
  <2> QED BY <1>1, <1>4, <2>1, <2>2, <2>3, <2>4
<1> QED BY <1>1, <1>2, <1>3, <1>4, <1>5

(* A block reduced holds the elements of the result that come after those of the blocks  *)
(* before it.                                                                           *)
LEMMA BlockHolds ==
  ASSUME FormedScan, scanN = ScanLength(scanCall), IsSet(scanCall), scanN > 0
  PROVE  /\ \A i, j \in 0..scanN : i < j =>
              /\ NumberAt(scanCall, j) = NumberAt(scanCall, i) + ValueOf(i, j).len
              /\ \A k \in 1..ValueOf(i, j).len :
                   Held(scanCall, Set!Reduce(scanCall, plan, i, j)[1][k], NumberAt(scanCall, i) + k)
         /\ \A i \in 0..scanN : NumberAt(scanCall, i) \in Nat
         /\ NumberAt(scanCall, 0) = plan.at
         /\ NumberAt(scanCall, scanN) = Len(Result(scanCall))
<1> DEFINE c == scanCall
           R == Result(c)
           x(e) == Cut(c, plan, e)
           y(e) == Low(c, plan, e)
           B(e) == Built(c, x(e), y(e))
<1>1. FormedSet(c, N1, N2) /\ PlansSetOp(c, plan, N1, N2) /\ scanN = N1 - plan.a0
  BY ScannedSet
<1>2. scanN \in Nat /\ N1 \in Nat /\ N2 \in Nat /\ R = Built(c, N1, N2) /\ R \in Seq(Items) /\ Len(R) \in Nat
  BY ScanLengths, ResultIs
<1>3. plan = Set!Plan(c) /\ plan.kind = "set_op"
  BY <1>1 DEF plan, PlansSetOp
<1>4. CutAt(c, N1, N2, plan.a0, plan.b0) /\ plan.at = Len(Built(c, plan.a0, plan.b0))
  <2>1. PlanRight(c, plan, N1, N2)
    <3>1. Set!Plan(c).kind # "serial"
      BY <1>3
    <3> QED BY <1>1, <1>3, <3>1, PlansAreRight
  <2> QED BY <1>3, <2>1 DEF PlanRight
<1>5. \A e \in 0..scanN : CutAt(c, N1, N2, x(e), y(e))
  BY <1>1, <1>4, BlocksAtCuts
<1>6. x(0) = plan.a0 /\ y(0) = plan.b0 /\ x(scanN) = N1 /\ y(scanN) = N2
  <2>1. scanN \in 0..scanN /\ scanN # 0
    BY <1>2
  <2>2. x(scanN) = N1 /\ y(scanN) = N2
    BY <1>1, <1>4, <2>1, BlocksAtCuts
  <2>3. x(0) = plan.a0 /\ y(0) = plan.b0
    BY DEF Cut, Low
  <2> QED BY <2>2, <2>3
<1>7. \A e \in 0..scanN : NumberAt(c, e) = Len(B(e)) /\ B(e) \in Seq(Items)
  <2>1. \A e : NumberAt(c, e) = Len(B(e))
    BY <1>3 DEF NumberAt
  <2>2. ASSUME NEW e \in 0..scanN PROVE B(e) \in Seq(Items)
    <3>1. CutAt(c, N1, N2, x(e), y(e)) /\ x(e) <= x(e) /\ y(e) <= y(e)
      <4>1. CutAt(c, N1, N2, x(e), y(e))
        BY <1>5
      <4>2. x(e) \in Nat /\ y(e) \in Nat
        BY <1>2, <4>1 DEF CutAt
      <4> HIDE DEF x, y
      <4> QED BY <4>1, <4>2
    <3> HIDE DEF x, y
    <3> QED BY <1>1, <3>1, BuiltJoins
  <2> QED BY <2>1, <2>2
<1>8. \A e \in 0..scanN : NumberAt(c, e) \in Nat
  BY <1>7
<1>9. ASSUME NEW i \in 0..scanN, NEW j \in 0..scanN, i < j
      PROVE  /\ NumberAt(c, j) = NumberAt(c, i) + ValueOf(i, j).len
             /\ \A k \in 1..ValueOf(i, j).len : Held(c, Set!Reduce(c, plan, i, j)[1][k], NumberAt(c, i) + k)
  <2> DEFINE r == Set!Reduce(c, plan, i, j)[1]
             P == Part(c, x(i), x(j), y(i), y(j))
             Q == Part(c, x(j), N1, y(j), N2)
  <2>1. Alike(c, r, P)
    BY <1>1, <1>9, ReduceBuilds
  <2>2. r \in Seq(Items) /\ Len(r) = ValueOf(i, j).len
    BY <1>9, SetValues
  <2>3. i <= j
    BY <1>2, <1>9
  <2>4. x(i) <= x(j) /\ y(i) <= y(j)
    BY <1>1, <2>3, CutsRise, LowsRise
  <2>5. CutAt(c, N1, N2, x(i), y(i)) /\ CutAt(c, N1, N2, x(j), y(j)) /\ CutAt(c, N1, N2, N1, N2)
        /\ x(j) <= N1 /\ y(j) <= N2
    <3>1. CutAt(c, N1, N2, x(i), y(i)) /\ CutAt(c, N1, N2, x(j), y(j)) /\ CutAt(c, N1, N2, N1, N2)
      BY <1>1, <1>5, CutAtEnds
    <3>2. x(j) \in 0..N1 /\ y(j) \in 0..N2
      BY <3>1 DEF CutAt
    <3> HIDE DEF x, y
    <3> QED BY <1>2, <3>1, <3>2
  <2>6. B(j) = B(i) \o P /\ P \in Seq(Items) /\ B(i) \in Seq(Items)
    <3> HIDE DEF x, y
    <3> QED BY <1>1, <2>4, <2>5, BuiltJoins
  <2>7. R = B(j) \o Q /\ Q \in Seq(Items) /\ B(j) \in Seq(Items)
    <3> HIDE DEF x, y
    <3> QED BY <1>1, <1>2, <2>5, BuiltJoins
  <2>8. NumberAt(c, i) = Len(B(i)) /\ NumberAt(c, j) = Len(B(j))
    BY <1>7
  <2> HIDE DEF r, P, Q, B, R, x, y
  <2>9. Len(r) = Len(P) /\ \A k \in 1..Len(r) : r[k] \in Items /\ Same(c, r[k], P[k])
    BY <2>1, <2>2 DEF Alike
  <2>10. Len(B(j)) = Len(B(i)) + Len(P)
    BY <2>6
  <2>11. ASSUME NEW k \in 1..Len(r) PROVE Held(c, r[k], NumberAt(c, i) + k)
    <3>1. k \in 1..Len(P) /\ Len(P) \in Nat /\ Len(B(i)) \in Nat /\ Len(Q) \in Nat
      BY <2>6, <2>7, <2>9
    <3>2. Len(B(i)) + k \in 1..Len(B(j)) /\ B(j)[Len(B(i)) + k] = P[k]
      BY <2>6, <2>10, <3>1
    <3>3. Len(B(i)) + k \in 1..Len(R) /\ R[Len(B(i)) + k] = B(j)[Len(B(i)) + k]
      BY <2>7, <3>1, <3>2
    <3> QED BY <2>8, <2>9, <3>2, <3>3 DEF Held, R
  <2>12. NumberAt(c, j) = NumberAt(c, i) + ValueOf(i, j).len
    BY <2>2, <2>8, <2>9, <2>10
  <2> QED BY <2>2, <2>11, <2>12 DEF r
<1>10. NumberAt(c, 0) = plan.at /\ NumberAt(c, scanN) = Len(R)
  <2>1. 0 \in 0..scanN /\ scanN \in 0..scanN
    BY <1>2
  <2>2. NumberAt(c, 0) = Len(B(0)) /\ NumberAt(c, scanN) = Len(B(scanN))
    BY <1>7, <2>1
  <2>3. B(0) = Built(c, plan.a0, plan.b0) /\ B(scanN) = Built(c, N1, N2)
    BY <1>6
  <2> HIDE DEF B, R
  <2> QED BY <1>2, <1>4, <2>2, <2>3
<1> QED BY <1>8, <1>9, <1>10

-------------------------------------------------------------------------------
(* What the scan of a set operation leaves: the elements of a block wait in the buffer    *)
(* to be moved, the places written hold elements of the result, and all that has been    *)
(* moved or copied is written.                                                          *)
SetHeld ==
  scanPc = "scan" =>
    \A b \in sums : ~Moved(b) =>
      \A k \in 0..(b.val.len - 1) :
        Held(scanCall, memory.buf[PlaceOf(b.lo) + k], (NumberAt(scanCall, b.lo) + k) + 1)

SetOutput ==
  scanPc \in {"scan", "join"} =>
    \A y \in DOMAIN memory.out : memory.out[y] # NotWritten => Held(scanCall, memory.out[y], y + 1)

SetFilled ==
  scanPc \in {"scan", "join"} =>
    \A y \in DOMAIN memory.out :
      (\E b \in sums : Moved(b) /\ y \in InOutput(b)) \/ (\E t \in plan.copies \ copies : y \in Target(t))
        => memory.out[y] # NotWritten

\* The output begins with the result, and nothing is written after it.
SetResult ==
  scanPc = "done" =>
    /\ scanAnswer = {Len(Result(scanCall))}
    /\ \A y \in DOMAIN memory.out :
         IF y < Len(Result(scanCall)) THEN Held(scanCall, memory.out[y], y + 1) ELSE memory.out[y] = NotWritten

SetRight == IsSet(scanCall) => SetHeld /\ SetOutput /\ SetFilled /\ SetResult

LEMMA NumbersAgree ==
  ASSUME Scheduled, Everything, IsSet(scanCall), scanN > 0
  PROVE  /\ \A e \in Ends : plan.at + UpTo(e) = NumberAt(scanCall, e)
         /\ \A b \in sums : InOutput(b) = NumberAt(scanCall, b.lo)..((NumberAt(scanCall, b.lo) + b.val.len) - 1)
         /\ \A b \in sums : NumberAt(scanCall, b.hi) = NumberAt(scanCall, b.lo) + b.val.len
<1> DEFINE G == {e \in Ends : plan.at + UpTo(e) = NumberAt(scanCall, e)}
<1>1. FormedScan /\ scanN = ScanLength(scanCall) /\ scanN \in Nat /\ plan.at \in Nat /\ Ends \subseteq 0..scanN /\ 0 \in Ends
  BY ScanLengths, Places, Chain DEF Scheduled
<1>2. ASSUME NEW b \in sums
      PROVE  /\ b.lo \in Ends /\ b.hi \in Ends /\ b.val.len \in Nat
             /\ NumberAt(scanCall, b.hi) = NumberAt(scanCall, b.lo) + b.val.len
  <2>1. b.lo \in 0..scanN /\ b.hi \in 0..scanN /\ b.lo < b.hi /\ b.val = ValueOf(b.lo, b.hi) /\ b.val.len \in Nat
    BY BlockRange DEF Scheduled, BlocksInOrder, Block
  <2>2. b.lo \in Ends /\ b.hi \in Ends
    BY Chain
  <2> QED BY <1>1, <2>1, <2>2, BlockHolds
<1>3. \A e \in Ends : UpTo(e) \in Nat /\ NumberAt(scanCall, e) \in Nat
  BY <1>1, SetSums, BlockHolds
<1>4. 0 \in G
  <2>1. SumUpTo(0).pos = 0 /\ SumUpTo(0).len = 0
    BY <1>1, SetSums DEF Set!NoRange, Set!SetRange
  <2>2. plan.at + UpTo(0) = plan.at
    BY <1>1, <2>1 DEF UpTo
  <2> QED BY <1>1, <2>2, BlockHolds
<1>5. ASSUME NEW b \in sums, b.lo \in G PROVE b.hi \in G
  <2>1. UpTo(b.hi) = UpTo(b.lo) + b.val.len
    BY <1>1, SumsRise
  <2>2. UpTo(b.lo) \in Nat /\ plan.at + UpTo(b.lo) = NumberAt(scanCall, b.lo)
    BY <1>2, <1>3, <1>5
  <2>3. plan.at + (UpTo(b.lo) + b.val.len) = (plan.at + UpTo(b.lo)) + b.val.len
    BY <1>1, <1>2, <2>2
  <2> QED BY <1>2, <2>1, <2>2, <2>3
<1>6. Ends \subseteq G
  <2> HIDE DEF G
  <2> QED BY <1>4, <1>5, AlongTheChain
<1>7. \A e \in Ends : plan.at + UpTo(e) = NumberAt(scanCall, e)
  BY <1>6
<1>8. ASSUME NEW b \in sums
      PROVE  InOutput(b) = NumberAt(scanCall, b.lo)..((NumberAt(scanCall, b.lo) + b.val.len) - 1)
  <2>1. SumUpTo(b.hi).pos = UpTo(b.lo) /\ SumUpTo(b.hi).len = b.val.len
    BY <1>1, SumsRise
  <2> QED BY <1>2, <1>7, <2>1 DEF InOutput
<1> QED BY <1>2, <1>7, <1>8

LEMMA HeldIsWritten ==
  ASSUME NEW v, NEW m, Held(scanCall, v, m)
  PROVE  v # NotWritten /\ v # Raw
<1>1. v \in Items
  BY DEF Held
<1>2. NotWritten \notin Items /\ Raw \notin Items
  BY DEF NotWritten, Raw, Items
<1> QED BY <1>1, <1>2

LEMMA RightMoves ==
  ASSUME Scheduled, SetMemory, SetRight, IsSet(scanCall), Everything, scanPc = "scan", NEW b \in sums, ~Moved(b),
         memory' = MoveRange(SumUpTo(b.hi)), UNCHANGED <<scanCall, sums, copies, scanPc, scanN>>,
         \A c \in sums : Moved(c)' <=> Moved(c) \/ c = b
  PROVE  SetRight'
<1>1. /\ DOMAIN memory'.out = DOMAIN memory.out
      /\ \A x \in DOMAIN memory.buf : memory'.buf[x] = IF x \in InBuffer(b) THEN Raw ELSE memory.buf[x]
      /\ \A y \in DOMAIN memory.out : memory'.out[y] = IF y \in InOutput(b) THEN OfBlock(b, y) ELSE memory.out[y]
  BY RangeLeaves
<1>2. SetHeld /\ SetOutput /\ SetFilled /\ SetFrame /\ scanN > 0 /\ scanN = ScanLength(scanCall) /\ FormedScan
  BY BlockRange DEF SetMemory, SetRight, Scheduled
<1>3. /\ N1' = N1 /\ N2' = N2 /\ plan' = plan /\ Room' = Room
  BY SameCall DEF Room
<1>4. /\ \A c : InOutput(c)' = InOutput(c)
      /\ \A t : Target(t)' = Target(t)
      /\ \A e : PlaceOf(e)' = PlaceOf(e)
  BY <1>3, SameSums DEF InOutput, Target, PlaceOf
<1>5. \A y \in InOutput(b) : Held(scanCall, OfBlock(b, y), y + 1)
  <2> SUFFICES ASSUME NEW y \in InOutput(b) PROVE Held(scanCall, OfBlock(b, y), y + 1)
    OBVIOUS
  <2> DEFINE m == NumberAt(scanCall, b.lo)
             k == y - m
  <2>1. b.lo \in Ends /\ b.lo \in 0..scanN /\ b.val.len \in Nat
    BY Chain, BlockRange
  <2>2. m \in Nat /\ plan.at + UpTo(b.lo) = m /\ InOutput(b) = m..((m + b.val.len) - 1)
    BY <1>2, <2>1, BlockHolds, NumbersAgree
  <2>3. OfBlock(b, y) = memory.buf[PlaceOf(b.lo) + k]
    BY <2>2 DEF OfBlock
  <2> HIDE DEF m
  <2>4. k \in 0..(b.val.len - 1) /\ (m + k) + 1 = y + 1
    BY <2>1, <2>2
  <2> HIDE DEF k
  <2>5. Held(scanCall, memory.buf[PlaceOf(b.lo) + k], (m + k) + 1)
    BY <1>2, <2>4 DEF SetHeld, m
  <2> QED BY <2>3, <2>4, <2>5
<1>6. SetHeld'
  <2> SUFFICES ASSUME NEW c \in sums, c # b, ~Moved(c), NEW k \in 0..(c.val.len - 1)
               PROVE  Held(scanCall, memory'.buf[PlaceOf(c.lo) + k], (NumberAt(scanCall, c.lo) + k) + 1)
    BY <1>4 DEF SetHeld
  <2>1. Held(scanCall, memory.buf[PlaceOf(c.lo) + k], (NumberAt(scanCall, c.lo) + k) + 1)
    BY <1>2 DEF SetHeld
  <2>2. PlaceOf(c.lo) + k \in InBuffer(c) /\ PlaceOf(c.lo) + k \in 0..(Room - 1)
    <3>1. c.val.len \in Nat /\ PlaceOf(c.lo) \in 0..Room /\ PlaceOf(c.hi) \in 0..Room
          /\ PlaceOf(c.lo) + c.val.len <= PlaceOf(c.hi)
      BY BlockRange
    <3>2. Room \in Nat
      BY <1>2, Places
    <3> QED BY <3>1, <3>2 DEF InBuffer
  <2>3. PlaceOf(c.lo) + k \notin InBuffer(b)
    BY <2>2, BlocksApart
  <2>4. PlaceOf(c.lo) + k \in DOMAIN memory.buf
    BY <1>2, <2>2 DEF SetFrame
  <2> QED BY <1>1, <2>1, <2>3, <2>4
<1>7. SetOutput'
  BY <1>1, <1>2, <1>5 DEF SetOutput
<1>8. SetFilled'
  <2> SUFFICES ASSUME NEW y \in DOMAIN memory.out,
                      \/ \E c \in sums : (Moved(c) \/ c = b) /\ y \in InOutput(c)
                      \/ \E t \in plan.copies \ copies : y \in Target(t)
               PROVE  memory'.out[y] # NotWritten
    BY <1>1, <1>3, <1>4 DEF SetFilled
  <2>1. CASE y \in InOutput(b)
    BY <1>1, <1>5, <2>1, HeldIsWritten
  <2>2. CASE y \notin InOutput(b)
    BY <1>1, <1>2, <2>2 DEF SetFilled
  <2> QED BY <2>1, <2>2
<1> QED BY <1>6, <1>7, <1>8 DEF SetRight, SetResult

\* Nothing that is waited for, moved or copied changes.
LEMMA RightStays ==
  ASSUME SetRight, IsSet(scanCall), UNCHANGED <<scanCall, memory, sums, scanN, copies>>,
         \A b \in sums : Moved(b)' <=> Moved(b), scanPc' \in {scanPc, "join"}, scanPc \in {"scan", "join"}
  PROVE  SetRight'
<1>1. SetHeld /\ SetOutput /\ SetFilled
  BY DEF SetRight
<1>2. /\ N1' = N1 /\ N2' = N2 /\ plan' = plan /\ Room' = Room
  BY SameCall DEF Room
<1>3. /\ \A c : InOutput(c)' = InOutput(c)
      /\ \A t : Target(t)' = Target(t)
      /\ \A e : PlaceOf(e)' = PlaceOf(e)
  BY <1>2, SameSums DEF InOutput, Target, PlaceOf
<1>4. SetHeld'
  BY <1>1, <1>3 DEF SetHeld
<1>5. SetOutput'
  BY <1>1 DEF SetOutput
<1>6. SetFilled'
  BY <1>1, <1>2, <1>3 DEF SetFilled
<1> QED BY <1>4, <1>5, <1>6 DEF SetRight, SetResult

LEMMA RightMoving ==
  ASSUME Scheduled, SetMemory, SetRight, IsSet(scanCall), Moving
  PROVE  SetRight'
<1>1. CASE NothingMoves
  BY <1>1, RightStays DEF Moving, NothingMoves
<1>2. ASSUME NEW b \in sums, Moves(b) PROVE SetRight'
  BY <1>2, RightMoves DEF Moving, Moves
<1> QED BY <1>1, <1>2 DEF Moving

LEMMA RightReduced ==
  ASSUME Scheduled, SetMemory, SetRight, IsSet(scanCall),
         NEW i \in 0..(scanN - 1), NEW len \in 1..(scanN - i), ReduceBlock(i, len)
  PROVE  SetRight'
<1> DEFINE r == Set!Reduce(scanCall, plan, i, i + len)
           buf == Put(memory.buf, r[2].buf, r[1])
           new == [lo |-> i, hi |-> i + len, val |-> ValueOf(i, i + len)]
           place == PlaceOf(i)
           n == ValueOf(i, i + len).len
<1>1. /\ scanCall' = scanCall /\ scanN' = scanN /\ scanPc' = scanPc /\ scanPc = "scan"
      /\ total = NoSum /\ UNCHANGED <<total, scanned, scanReturned, copies, scanAnswer>>
      /\ i \in Nat /\ len \in Nat /\ i + len \in 0..scanN /\ i < i + len
      /\ sums' = sums \cup {new}
      /\ \A b \in sums : b.hi <= i \/ i + len <= b.lo
  BY BlockReduced
<1>2. memory'.buf = buf /\ memory'.out = memory.out
  <2> DEFINE ok == memory.ok /\ AllAre(memory.buf, r[2].buf, r[2].len, Raw)
  <2>1. memory' = [memory EXCEPT !.buf = buf, !.ok = ok]
    BY DEF ReduceBlock, Reduced
  <2> HIDE DEF buf, ok
  <2> QED BY <2>1 DEF Scheduled, IsMemory
<1>3. /\ SetFrame /\ SetHeld /\ SetOutput /\ SetFilled /\ FormedScan /\ scanN = ScanLength(scanCall) /\ scanN \in Nat
      /\ scanN > 0 /\ i \in 0..scanN
  BY <1>1, ScanLengths DEF Scheduled, SetMemory, SetRight
<1>4. /\ n \in Nat /\ place + n <= PlaceOf(i + len)
      /\ r[1] \in Seq(Items) /\ Len(r[1]) = n /\ r[2] = ValueOf(i, i + len) /\ r[2].buf = place
  <2>1. /\ ValueOf(i, i + len) = Set!SetRange(0, n, place) /\ n \in Nat /\ place + n <= PlaceOf(i + len)
        /\ r[1] \in Seq(Items) /\ Len(r[1]) = n /\ r[2] = ValueOf(i, i + len)
    BY <1>1, <1>3, SetValues DEF PlaceOf, ValueOf
  <2> QED BY <2>1 DEF Set!SetRange
<1>5. \A k \in 1..n : Held(scanCall, r[1][k], NumberAt(scanCall, i) + k)
  BY <1>1, <1>3, BlockHolds
<1>6. /\ Room \in Nat /\ place \in Nat /\ PlaceOf(i + len) \in 0..Room
      /\ \A d, e \in 0..scanN : d <= e => PlaceOf(d) <= PlaceOf(e)
  BY <1>1, <1>3, Places
<1>7. new.lo = i /\ new.hi = i + len /\ new.val.len = n
  OBVIOUS
<1>8. /\ N1' = N1 /\ N2' = N2 /\ plan' = plan /\ Room' = Room /\ IsSet(scanCall)'
      /\ \A t : Target(t)' = Target(t)
      /\ \A e : PlaceOf(e)' = PlaceOf(e)
  BY <1>1, SameCall DEF Room, Target, PlaceOf, IsSet
<1>9. \A b : (~Moved(b) /\ ~Moved(b)') \/ b.hi = scanN
  <2>1. DOMAIN scanned = {} /\ DOMAIN scanned' = {}
    BY <1>1 DEF Scheduled, ScanInOrder
  <2> QED BY <1>1, <2>1 DEF Moved
<1>10. \A b : ~Moved(b) /\ ~Moved(b)'
  BY <1>1, <1>9 DEF Moved
<1>11. DOMAIN memory.buf = 0..(Room - 1)
  BY <1>1, <1>3 DEF SetFrame
<1>12. \A x \in 0..(Room - 1) : buf[x] = IF place <= x /\ x < place + n THEN r[1][(x - place) + 1] ELSE memory.buf[x]
  <2>1. \A x \in DOMAIN memory.buf : x \in Nat =>
             Put(memory.buf, place, r[1])[x] = IF place <= x /\ x < place + n THEN r[1][(x - place) + 1] ELSE memory.buf[x]
    BY <1>4, <1>6, PutAre
  <2>2. buf = Put(memory.buf, place, r[1])
    BY <1>4
  <2> HIDE DEF buf
  <2> QED BY <1>6, <1>11, <2>1, <2>2
<1> HIDE DEF buf, r, new, place, n
<1>13. ASSUME NEW b \in sums, NEW k \in 0..(b.val.len - 1)
       PROVE  Held(scanCall, buf[PlaceOf(b.lo) + k], (NumberAt(scanCall, b.lo) + k) + 1)
  <2>1. /\ b.lo \in 0..scanN /\ b.hi \in 0..scanN /\ b.val.len \in Nat
        /\ PlaceOf(b.lo) + b.val.len <= PlaceOf(b.hi)
        /\ PlaceOf(b.lo) \in 0..Room /\ PlaceOf(b.hi) \in 0..Room
    BY BlockRange
  <2>2. PlaceOf(b.hi) <= place \/ PlaceOf(i + len) <= PlaceOf(b.lo)
    <3>1. b.hi <= i \/ i + len <= b.lo
      BY <1>1
    <3>2. b.hi <= i => PlaceOf(b.hi) <= PlaceOf(i)
      BY <1>3, <1>6, <2>1
    <3>3. i + len <= b.lo => PlaceOf(i + len) <= PlaceOf(b.lo)
      BY <1>1, <1>6, <2>1
    <3> QED BY <3>1, <3>2, <3>3 DEF place
  <2> DEFINE x == PlaceOf(b.lo) + k
  <2>3. x \in 0..(Room - 1) /\ ~(place <= x /\ x < place + n)
    <3>1. PlaceOf(i + len) \in Nat /\ PlaceOf(b.lo) \in Nat /\ PlaceOf(b.hi) \in Nat /\ PlaceOf(b.hi) <= Room /\ k \in Nat
          /\ k < b.val.len
      BY <1>6, <2>1
    <3> DEFINE lo == PlaceOf(b.lo)
               hi == PlaceOf(b.hi)
               next == PlaceOf(i + len)
               m == b.val.len
    <3>2. /\ lo \in Nat /\ hi \in Nat /\ next \in Nat /\ m \in Nat /\ hi <= Room /\ k \in Nat /\ k < m
          /\ lo + m <= hi /\ place + n <= next /\ (hi <= place \/ next <= lo)
      BY <1>4, <2>1, <2>2, <3>1
    <3> HIDE DEF lo, hi, next, m
    <3>3. lo + k \in 0..(Room - 1) /\ ~(place <= lo + k /\ lo + k < place + n)
      BY <1>4, <1>6, <3>2
    <3> QED BY <3>3 DEF lo
  <2> HIDE DEF x
  <2>4. buf[x] = memory.buf[x]
    BY <1>12, <2>3
  <2>5. Held(scanCall, memory.buf[x], (NumberAt(scanCall, b.lo) + k) + 1)
    BY <1>1, <1>3, <1>10 DEF SetHeld, x
  <2> QED BY <2>4, <2>5 DEF x
<1>14. ASSUME NEW k \in 0..(n - 1)
       PROVE  Held(scanCall, buf[place + k], (NumberAt(scanCall, i) + k) + 1)
  <2>1. k + 1 \in 1..n /\ (place + k - place) + 1 = k + 1 /\ place <= place + k /\ place + k < place + n
        /\ place + k \in 0..(Room - 1) /\ ((place + k) - place) + 1 = k + 1
    BY <1>4, <1>6
  <2>2. buf[place + k] = r[1][k + 1]
    BY <1>12, <2>1
  <2>3. NumberAt(scanCall, i) \in Nat
    BY <1>3, BlockHolds
  <2>4. NumberAt(scanCall, i) + (k + 1) = (NumberAt(scanCall, i) + k) + 1
    BY <1>4, <2>3
  <2> QED BY <1>5, <2>1, <2>2, <2>4
<1>15. SetHeld'
  <2> SUFFICES ASSUME NEW b \in sums \cup {new}, NEW k \in 0..(b.val.len - 1)
               PROVE  Held(scanCall, buf[PlaceOf(b.lo) + k], (NumberAt(scanCall, b.lo) + k) + 1)
    BY <1>1, <1>2, <1>8 DEF SetHeld
  <2>1. CASE b \in sums
    BY <1>13, <2>1
  <2>2. CASE b = new
    BY <1>7, <1>14, <2>2 DEF place
  <2> QED BY <2>1, <2>2
<1>16. SetOutput'
  BY <1>1, <1>2, <1>3 DEF SetOutput
<1>17. SetFilled'
  <2>1. ASSUME NEW y \in DOMAIN memory.out, \E t \in plan.copies \ copies : y \in Target(t)
        PROVE  memory.out[y] # NotWritten
    BY <1>1, <1>3, <2>1 DEF SetFilled
  <2> QED BY <1>1, <1>2, <1>8, <1>10, <2>1 DEF SetFilled
<1> QED BY <1>1, <1>15, <1>16, <1>17 DEF SetRight, SetResult

\* The parallel copies of a plan put the beginning of the result in place.
LEMMA CopiesAreRight ==
  ASSUME FormedScan, IsSet(scanCall), ~IsSerial
  PROVE  PlanRight(scanCall, plan, N1, N2) /\ Gives(plan.copies, plan.at, Result(scanCall))
<1>1. FormedSet(scanCall, N1, N2) /\ Result(scanCall) = Built(scanCall, N1, N2)
  BY ResultIs
<1>2. Set!Plan(scanCall).kind # "serial"
  BY DEF IsSerial, plan
<1>3. PlanRight(scanCall, plan, N1, N2)
  BY <1>1, <1>2, PlansAreRight DEF plan
<1> QED BY <1>1, <1>3 DEF PlanRight

LEMMA RightBegun ==
  ASSUME Scheduled, SetMemory, SetRight, IsSet(scanCall), Begin
  PROVE  SetRight'
<1>1. /\ scanPc = "begin" /\ scanPc' = (IF scanN = 0 THEN "join" ELSE "scan") /\ copies' = plan.copies
      /\ UNCHANGED <<scanCall, sums, scanned, scanN, total>> /\ memory'.out = memory.out
  <2> DEFINE buf == Fill(IF plan.kind = "set_op"
                           THEN Set!SizeFunc(scanCall.alg, scanN, Set!Size(scanCall.b) - plan.b0) ELSE 0, Raw)
  <2>1. memory' = [memory EXCEPT !.buf = buf]
    BY DEF Begin
  <2> HIDE DEF buf
  <2>2. memory'.out = memory.out
    BY <2>1 DEF Scheduled, IsMemory
  <2> QED BY <2>2 DEF Begin, strictScan
<1>2. \A y \in DOMAIN memory.out : memory.out[y] = NotWritten
  BY <1>1 DEF SetMemory, SetFrame
<1>3. sums' = {} /\ plan' = plan
  BY <1>1, SameCall DEF Scheduled, Phases
<1>4. SetHeld'
  BY <1>3 DEF SetHeld
<1>5. SetOutput'
  BY <1>1, <1>2 DEF SetOutput
<1>6. SetFilled'
  BY <1>1, <1>3 DEF SetFilled
<1> QED BY <1>1, <1>4, <1>5, <1>6 DEF SetRight, SetResult

LEMMA RightReturned ==
  ASSUME Scheduled, SetMemory, SetRight, IsSet(scanCall), ScanReturns
  PROVE  SetRight'
<1>1. scanPc = "scan" /\ scanPc' = "join" /\ UNCHANGED <<scanCall, memory, sums, scanN, scanned, total>>
  BY DEF ScanReturns, Contract!Return
<1>2. copies' = copies
  BY DEF ScanReturns, Mask!Removes, Removes, IsSet, Set!Algs
<1>3. \A b : Moved(b)' = Moved(b)
  BY <1>1 DEF Moved, Scanning
<1> QED BY <1>1, <1>2, <1>3, RightStays

LEMMA RightCopied ==
  ASSUME Scheduled, SetMemory, SetRight, IsSet(scanCall), NEW t \in copies, CopyRange(t)
  PROVE  SetRight'
<1> DEFINE n == t.hi - t.lo
           elements == [k \in 1..(t.hi - t.lo) |-> <<t.seq, t.lo + k - 1>>]
           out == Put(memory.out, t.at, elements)
           ok == memory.ok /\ AllAre(memory.out, t.at, Len(elements), NotWritten)
           R == Result(scanCall)
<1>1. /\ scanPc \in {"scan", "join"} /\ copies' = copies \ {t}
      /\ UNCHANGED <<scanCall, sums, scanN, scanned, total, scanPc>>
  BY DEF CopyRange, strictScan
<1>2. /\ SetFrame /\ SetHeld /\ SetOutput /\ SetFilled /\ FormedScan /\ scanN = ScanLength(scanCall)
      /\ ~IsSerial /\ N1 \in Nat /\ N2 \in Nat /\ IsMemory(memory)
  BY <1>1, SetSizes DEF Scheduled, SetMemory, SetRight, Phases
<1>3. t \in plan.copies /\ copies \subseteq plan.copies
  BY <1>1, <1>2 DEF SetFrame
<1>4. /\ t.seq # 0 /\ t.at \in Nat /\ n \in Nat /\ t.at + n <= N1 + N2
      /\ \A u \in plan.copies : u = t \/ Target(u) \cap Target(t) = {}
  BY <1>2, <1>3, CopiesApart
<1>5. memory' = [memory EXCEPT !.out = out, !.ok = ok]
  BY <1>4 DEF CopyRange
<1>6. Len(elements) = n /\ \A k \in 0..(n - 1) : elements[k + 1] = <<t.seq, t.lo + k>>
  <2>1. Len(elements) = n
    BY <1>4, LengthOf
  <2>2. \A k \in 0..(n - 1) : k + 1 \in 1..n /\ t.lo + (k + 1) - 1 = t.lo + k
    BY <1>4
  <2> QED BY <2>1, <2>2
<1> HIDE DEF elements
<1>7. /\ plan.at \in 0..Len(R)
      /\ \A k \in 0..(n - 1) : t.at + k \in 0..(plan.at - 1) /\ R[(t.at + k) + 1] = <<t.seq, t.lo + k>>
  BY <1>2, <1>3, CopiesAreRight DEF Gives
<1>8. R \in Seq(Items) /\ Len(R) \in Nat
  BY <1>2, ResultIs
<1>9. ASSUME NEW k \in 0..(n - 1) PROVE Held(scanCall, elements[k + 1], (t.at + k) + 1)
  <2>1. (t.at + k) + 1 \in 1..Len(R)
    BY <1>4, <1>7, <1>8
  <2> HIDE DEF n, R
  <2>2. elements[k + 1] = R[(t.at + k) + 1]
    <3>1. elements[k + 1] = <<t.seq, t.lo + k>>
      BY <1>6
    <3>2. R[(t.at + k) + 1] = <<t.seq, t.lo + k>>
      BY <1>7
    <3> QED BY <3>1, <3>2
  <2>3. R[(t.at + k) + 1] \in Items
    BY <1>8, <2>1
  <2> QED BY <2>1, <2>2, <2>3 DEF Held, Same, R
<1>10. /\ DOMAIN out = DOMAIN memory.out
       /\ \A y \in DOMAIN memory.out : IF y \in Target(t) THEN Held(scanCall, out[y], y + 1) ELSE out[y] = memory.out[y]
  <2>1. /\ DOMAIN out = DOMAIN memory.out
        /\ \A y \in DOMAIN memory.out : y \in Nat =>
             out[y] = IF t.at <= y /\ y < t.at + n THEN elements[(y - t.at) + 1] ELSE memory.out[y]
    BY <1>4, <1>6, PutAre
  <2> HIDE DEF out
  <2>2. ASSUME NEW y \in DOMAIN memory.out
        PROVE  IF y \in Target(t) THEN Held(scanCall, out[y], y + 1) ELSE out[y] = memory.out[y]
    <3>1. y \in Nat
      BY <1>2 DEF SetFrame
    <3>2. y \in Target(t) <=> t.at <= y /\ y < t.at + n
      BY <1>4, <3>1 DEF Target
    <3>3. y \in Target(t) => y - t.at \in 0..(n - 1) /\ t.at + (y - t.at) = y
      BY <1>4, <3>1, <3>2
    <3>4. y \in Target(t) => Held(scanCall, elements[(y - t.at) + 1], y + 1)
      BY <1>9, <3>3
    <3> QED BY <2>1, <3>1, <3>2, <3>4
  <2> QED BY <2>1, <2>2
<1> HIDE DEF out, ok
<1>11. memory'.out = out /\ memory'.buf = memory.buf
  BY <1>2, <1>5 DEF IsMemory
<1>12. plan' = plan
  BY <1>1, SameCall
<1>13. /\ \A d : Moved(d)' = Moved(d)
       /\ \A d : InOutput(d)' = InOutput(d)
       /\ \A u : Target(u)' = Target(u)
       /\ \A e : PlaceOf(e)' = PlaceOf(e)
  BY <1>1, <1>12, SameSums DEF InOutput, Target, Moved, Scanning, PlaceOf
<1>14. SetHeld'
  BY <1>1, <1>2, <1>11, <1>13 DEF SetHeld
<1>15. SetOutput'
  BY <1>1, <1>2, <1>10, <1>11 DEF SetOutput
<1>16. SetFilled'
  <2> SUFFICES ASSUME NEW y \in DOMAIN memory.out,
                      \/ \E b \in sums : Moved(b) /\ y \in InOutput(b)
                      \/ \E u \in plan.copies \ (copies \ {t}) : y \in Target(u)
               PROVE  out[y] # NotWritten
    BY <1>1, <1>10, <1>11, <1>12, <1>13 DEF SetFilled
  <2>1. CASE y \in Target(t)
    BY <1>10, <2>1, HeldIsWritten
  <2>2. CASE y \notin Target(t)
    <3>1. (\E b \in sums : Moved(b) /\ y \in InOutput(b)) \/ \E u \in plan.copies \ copies : y \in Target(u)
      BY <2>2
    <3>2. memory.out[y] # NotWritten
      BY <1>1, <1>2, <3>1 DEF SetFilled
    <3> QED BY <1>10, <2>2, <3>2
  <2> QED BY <2>1, <2>2
<1> QED BY <1>1, <1>14, <1>15, <1>16 DEF SetRight, SetResult

\* The call that the serial algorithm does.
LEMMA RightSerially ==
  ASSUME Scheduled, SetMemory, SetRight, IsSet(scanCall), Serially
  PROVE  SetRight'
<1> DEFINE R == Result(scanCall)
           out == Put(memory.out, 0, Results(TRUE))
           out2 == IF scanCall.alg = "partition_copy" THEN Put(memory.out2, 0, Results(FALSE)) ELSE memory.out2
<1>1. ~Removes
  BY DEF Mask!Removes, Removes, IsSet, Set!Algs
<1>2. /\ scanPc = "begin" /\ scanPc' = "done" /\ memory' = [memory EXCEPT !.out = out, !.out2 = out2]
      /\ scanCall' = scanCall /\ scanAnswer' = {Len(Results(TRUE))}
  BY <1>1 DEF Serially
<1>3. SetFrame /\ FormedScan /\ IsMemory(memory)
  BY DEF Scheduled, SetMemory
<1>4. /\ Results(TRUE) = R /\ R \in Seq(Items) /\ Len(R) \in Nat /\ N1 \in Nat /\ N2 \in Nat
  BY <1>3, ResultIs
<1>5. out = Put(memory.out, 0, R)
  BY <1>4
<1> HIDE DEF out, out2, R
<1>6. memory'.out = out
  BY <1>2, <1>3 DEF IsMemory
<1>7. /\ DOMAIN out = DOMAIN memory.out
      /\ \A y \in DOMAIN memory.out : y \in Nat =>
           out[y] = IF 0 <= y /\ y < 0 + Len(R) THEN R[(y - 0) + 1] ELSE memory.out[y]
  <2>1. 0 \in Nat
    OBVIOUS
  <2> QED BY <1>4, <1>5, <2>1, PutAre
<1>8. ASSUME NEW y \in DOMAIN memory.out
      PROVE  IF y < Len(R) THEN Held(scanCall, out[y], y + 1) ELSE out[y] = NotWritten
  <2>1. y \in Nat /\ memory.out[y] = NotWritten
    BY <1>2, <1>3 DEF SetFrame
  <2>2. y < Len(R) => y + 1 \in 1..Len(R) /\ (y - 0) + 1 = y + 1 /\ 0 <= y /\ y < 0 + Len(R)
    BY <1>4, <2>1
  <2>3. ~(y < Len(R)) => ~(y < 0 + Len(R))
    BY <1>4, <2>1
  <2>4. CASE y < Len(R)
    <3>1. out[y] = R[y + 1]
      BY <1>7, <2>1, <2>2, <2>4
    <3>2. R[y + 1] \in Items
      BY <1>4, <2>2, <2>4
    <3> QED BY <2>2, <2>4, <3>1, <3>2 DEF Held, Same, R
  <2>5. CASE ~(y < Len(R))
    BY <1>7, <2>1, <2>3, <2>5
  <2> QED BY <2>4, <2>5
<1>9. SetResult'
  BY <1>2, <1>4, <1>6, <1>7, <1>8 DEF SetResult, R
<1> QED BY <1>2, <1>9 DEF SetRight, SetHeld, SetOutput, SetFilled

LEMMA AllHaveMoved ==
  ASSUME Scheduled, IsSet(scanCall), scanReturned
  PROVE  \A b \in sums : Moved(b)
<1>1. total # NoSum /\ Everything /\ \A b \in sums : Scanning(b) \in DOMAIN scanned
  BY DEF Scheduled, ScanInOrder
<1> SUFFICES ASSUME NEW b \in sums, b.hi # scanN PROVE \E c \in sums : c.lo = b.hi
  BY <1>1 DEF Moved
<1>2. b.lo \in 0..scanN /\ b.hi \in 0..scanN /\ b.lo < b.hi /\ scanN \in Nat
  BY <1>1, Chain
<1>3. b.hi \in 0..(scanN - 1)
  BY <1>2
<1>4. PICK c \in sums : c.lo <= b.hi /\ b.hi < c.hi
  BY <1>1, <1>3 DEF Everything
<1>5. c = b \/ c.hi <= b.lo \/ b.hi <= c.lo
  BY DEF Scheduled, BlocksInOrder
<1>6. c.lo \in 0..scanN /\ c.hi \in 0..scanN
  BY <1>1, Chain
<1>7. c.lo = b.hi
  BY <1>2, <1>4, <1>5, <1>6
<1> QED BY <1>7

\* All has been moved and copied when the call ends: the places up to the end of the
\* result are those of a copy or of a block.
LEMMA AllIsPlaced ==
  ASSUME Scheduled, SetMemory, IsSet(scanCall), scanPc = "join", copies = {}
  PROVE  /\ \A y \in 0..(Len(Result(scanCall)) - 1) :
              \/ \E b \in sums : Moved(b) /\ y \in InOutput(b)
              \/ \E t \in plan.copies \ copies : y \in Target(t)
         /\ plan.at + (IF scanN = 0 THEN 0 ELSE OutputLength(SumUpTo(scanN))) = Len(Result(scanCall))
<1> DEFINE R == Result(scanCall)
           placed(y) == \/ \E b \in sums : Moved(b) /\ y \in InOutput(b)
                        \/ \E t \in plan.copies \ copies : y \in Target(t)
<1>1. /\ FormedScan /\ scanN = ScanLength(scanCall) /\ ~IsSerial /\ scanN \in Nat
      /\ (scanN = 0 \/ scanReturned)
  BY ScanLengths DEF Scheduled, Phases
<1>2. FormedSet(scanCall, N1, N2) /\ Len(R) \in Nat /\ R = Built(scanCall, N1, N2)
  BY <1>1, ResultIs
<1>3. PlanRight(scanCall, plan, N1, N2) /\ Gives(plan.copies, plan.at, R)
  BY <1>1, CopiesAreRight
<1>4. plan.at \in 0..Len(R) /\ plan.at \in Nat
  BY <1>2, <1>3 DEF Gives
<1> HIDE DEF R
<1>5. \A y \in 0..(plan.at - 1) : placed(y)
  BY <1>3 DEF Gives, Target
<1>6. CASE scanN = 0
  <2>1. plan.kind = "copies"
    <3>1. ASSUME PlansSetOp(scanCall, plan, N1, N2) PROVE FALSE
      <4>1. plan.kind = "set_op" /\ plan.a0 \in 0..N1 /\ N1 \in Nat /\ scanN = N1 - plan.a0
        BY <1>1, <3>1, ScanLengths, SetSizes DEF PlansSetOp
      <4>2. plan.a0 # N1
        BY <1>2, <4>1, ScanIsLeft DEF plan
      <4> QED BY <1>6, <4>1, <4>2
    <3>2. plan.kind # "serial"
      BY <1>1 DEF IsSerial
    <3>3. PlansCopies(plan, N1, N2)
      BY <1>1, <3>1, <3>2, ScanLengths
    <3> QED BY <3>3 DEF PlansCopies
  <2>2. plan.at = Len(R)
    BY <1>2, <1>3, <2>1 DEF PlanRight
  <2>3. plan.at + 0 = plan.at
    BY <1>4
  <2> QED BY <1>5, <1>6, <2>2, <2>3 DEF R
<1>7. CASE scanN # 0
  <2>1. scanN > 0 /\ scanReturned /\ total # NoSum /\ Everything
    BY <1>1, <1>7 DEF Scheduled, ScanInOrder
  <2>2. \A b \in sums : Moved(b)
    BY <2>1, AllHaveMoved
  <2> DEFINE G == {e \in Ends : \A y \in plan.at..(NumberAt(scanCall, e) - 1) : placed(y)}
  <2>3. NumberAt(scanCall, 0) = plan.at /\ NumberAt(scanCall, scanN) = Len(R) /\ Ends \subseteq 0..scanN /\ 0 \in Ends
        /\ scanN \in Ends
    BY <1>1, <2>1, BlockHolds, Chain DEF R
  <2>4. 0 \in G
    BY <1>4, <2>3
  <2>5. ASSUME NEW b \in sums, b.lo \in G PROVE b.hi \in G
    <3>1. /\ b.hi \in Ends /\ b.lo \in 0..scanN /\ b.val.len \in Nat /\ NumberAt(scanCall, b.lo) \in Nat
          /\ InOutput(b) = NumberAt(scanCall, b.lo)..((NumberAt(scanCall, b.lo) + b.val.len) - 1)
          /\ NumberAt(scanCall, b.hi) = NumberAt(scanCall, b.lo) + b.val.len
      BY <1>1, <2>1, Chain, BlockRange, BlockHolds, NumbersAgree
    <3>2. ASSUME NEW y \in plan.at..(NumberAt(scanCall, b.hi) - 1) PROVE placed(y)
      <4>1. y \in plan.at..(NumberAt(scanCall, b.lo) - 1) \/ y \in InOutput(b)
        BY <1>4, <3>1
      <4> QED BY <2>2, <2>5, <4>1
    <3> HIDE DEF placed
    <3> QED BY <3>1, <3>2
  <2>6. Ends \subseteq G
    <3> HIDE DEF G
    <3> QED BY <2>1, <2>4, <2>5, AlongTheChain
  <2>7. \A y \in plan.at..(Len(R) - 1) : placed(y)
    <3> HIDE DEF placed
    <3> QED BY <2>3, <2>6
  <2>8. \A y \in 0..(Len(R) - 1) : placed(y)
    <3> HIDE DEF placed
    <3>1. \A y \in 0..(Len(R) - 1) : y \in 0..(plan.at - 1) \/ y \in plan.at..(Len(R) - 1)
      BY <1>2, <1>4
    <3> QED BY <1>5, <2>7, <3>1
  <2>9. plan.at + OutputLength(SumUpTo(scanN)) = NumberAt(scanCall, scanN)
    <3>1. OutputLength(SumUpTo(scanN)) = UpTo(scanN)
      BY DEF OutputLength, UpTo
    <3> QED BY <2>1, <2>3, <3>1, NumbersAgree
  <2> QED BY <1>7, <2>3, <2>8, <2>9 DEF R
<1> QED BY <1>6, <1>7

LEMMA RightFinished ==
  ASSUME Scheduled, SetMemory, SetRight, IsSet(scanCall), Finish
  PROVE  SetRight'
<1> DEFINE R == Result(scanCall)
           end == plan.at + (IF scanN = 0 THEN 0 ELSE OutputLength(SumUpTo(scanN)))
<1>1. /\ scanPc = "join" /\ copies = {} /\ scanPc' = "done" /\ UNCHANGED <<scanCall, memory>>
      /\ scanAnswer' = {end}
  BY DEF Finish
<1>2. SetFrame /\ SetOutput /\ SetFilled /\ FormedScan /\ Len(R) \in Nat
  BY ResultIs DEF Scheduled, SetMemory, SetRight
<1>3. /\ \A y \in 0..(Len(R) - 1) : \/ \E b \in sums : Moved(b) /\ y \in InOutput(b)
                                    \/ \E t \in plan.copies \ copies : y \in Target(t)
      /\ end = Len(R)
  BY <1>1, AllIsPlaced
<1> HIDE DEF R, end
<1>4. ASSUME NEW y \in DOMAIN memory.out
      PROVE  IF y < Len(R) THEN Held(scanCall, memory.out[y], y + 1) ELSE memory.out[y] = NotWritten
  <2>1. y \in Nat
    BY <1>2 DEF SetFrame
  <2>2. CASE y < Len(R)
    <3>1. y \in 0..(Len(R) - 1)
      BY <1>2, <2>1, <2>2
    <3>2. memory.out[y] # NotWritten
      BY <1>1, <1>2, <1>3, <3>1 DEF SetFilled
    <3> QED BY <1>1, <1>2, <2>2, <3>2 DEF SetOutput
  <2>3. CASE ~(y < Len(R))
    <3>1. ~Held(scanCall, memory.out[y], y + 1)
      <4>1. y + 1 \notin 1..Len(R)
        BY <1>2, <2>1, <2>3
      <4> QED BY <4>1 DEF Held, R
    <3>2. memory.out[y] = NotWritten
      BY <1>1, <1>2, <3>1 DEF SetOutput
    <3> QED BY <2>3, <3>2
  <2> QED BY <2>2, <2>3
<1>5. SetResult'
  BY <1>1, <1>3, <1>4 DEF SetResult, R
<1> QED BY <1>1, <1>5 DEF SetRight, SetHeld, SetOutput, SetFilled

LEMMA SetRightInit == ScanInit => SetRight
BY DEF ScanInit, SetRight, SetHeld, SetOutput, SetFilled, SetResult

LEMMA SetRightNext ==
  ASSUME Scheduled, SetMemory, SetRight, [ScanNext]_scanVars
  PROVE  SetRight'
<1> SUFFICES ASSUME IsSet(scanCall)' PROVE SetRight'
  BY DEF SetRight
<1>1. scanCall' = scanCall
  BY DEF ScanNext, Serially, Begin, ApexCall, ScanReturns, Finish, ReduceBlock, ScanBlock, CopyRange, scanVars
<1>2. IsSet(scanCall)
  BY <1>1 DEF IsSet
<1>3. CASE Serially
  BY <1>2, <1>3, RightSerially
<1>4. CASE Begin
  BY <1>2, <1>4, RightBegun
<1>5. CASE ApexCall
  BY <1>2, <1>5, ApexMoves, RightMoving
<1>6. CASE ScanReturns
  BY <1>2, <1>6, RightReturned
<1>7. CASE Finish
  BY <1>2, <1>7, RightFinished
<1>8. ASSUME NEW i \in 0..(scanN - 1), NEW len \in 1..(scanN - i), ReduceBlock(i, len)
      PROVE  SetRight'
  BY <1>2, <1>8, RightReduced
<1>9. ASSUME NEW i \in 0..(scanN - 1), NEW len \in 1..(scanN - i), ScanBlock(i, len)
      PROVE  SetRight'
  BY <1>2, <1>9, ScanMoves, RightMoving
<1>10. ASSUME NEW t \in copies, CopyRange(t) PROVE SetRight'
  BY <1>2, <1>10, RightCopied
<1>11. CASE UNCHANGED scanVars
  <2>1. UNCHANGED <<scanCall, memory, sums, scanN, copies, scanPc, scanned, total, scanAnswer>>
    BY <1>11 DEF scanVars, strictScan
  <2>2. \A b : Moved(b)' = Moved(b)
    BY <2>1 DEF Moved, Scanning
  <2>3. CASE scanPc \in {"scan", "join"}
    BY <1>2, <2>1, <2>2, <2>3, RightStays
  <2>4. CASE scanPc \notin {"scan", "join"}
    <3>1. SetResult'
      BY <1>2, <2>1 DEF SetRight, SetResult
    <3> QED BY <2>1, <2>4, <3>1 DEF SetRight, SetHeld, SetOutput, SetFilled
  <2> QED BY <2>3, <2>4
<1> QED BY <1>3, <1>4, <1>5, <1>6, <1>7, <1>8, <1>9, <1>10, <1>11 DEF ScanNext

LEMMA SetResultGives ==
  ASSUME Scheduled, SetMemory, SetRight, IsSet(scanCall)
  PROVE  ScanIsCorrect
<1> DEFINE R == Result(scanCall)
<1> SUFFICES ASSUME scanPc = "done" PROVE ScanIsCorrect
  BY DEF ScanIsCorrect
<1>1. SetResult /\ SetFrame /\ FormedScan
  BY DEF Scheduled, SetMemory, SetRight
<1>2. /\ Results(TRUE) = R /\ R \in Seq(Items) /\ Len(R) \in Nat /\ Len(R) <= N1 + N2
      /\ Size(scanCall) = N1 + N2 /\ N1 \in Nat /\ N2 \in Nat
  BY <1>1, ResultIs
<1>3. ~Removes /\ scanCall.alg # "partition_copy"
  BY DEF Mask!Removes, Removes, IsSet, Set!Algs
<1>4. scanAnswer = {Len(R)}
  BY <1>1 DEF SetResult
<1> HIDE DEF R
<1>5. \A y \in 0..((N1 + N2) - 1) :
         IF y < Len(R) THEN Held(scanCall, memory.out[y], y + 1) ELSE memory.out[y] = NotWritten
  BY <1>1 DEF SetResult, SetFrame, R
<1>6. ASSUME NEW k \in 1..Len(R) PROVE memory.out[k - 1] # NotWritten /\ Same(scanCall, memory.out[k - 1], R[k])
  <2>1. k - 1 \in 0..((N1 + N2) - 1) /\ k - 1 < Len(R) /\ (k - 1) + 1 = k
    BY <1>2
  <2>2. Held(scanCall, memory.out[k - 1], k)
    BY <1>5, <2>1
  <2> QED BY <2>2, HeldIsWritten DEF Held, R
<1>7. AllAre(memory.out, Len(R), Size(scanCall) - Len(R), NotWritten)
  <2>1. \A y \in Len(R)..(Len(R) + (Size(scanCall) - Len(R)) - 1) : y \in 0..((N1 + N2) - 1) /\ ~(y < Len(R))
    BY <1>2
  <2>2. DOMAIN memory.out = 0..((N1 + N2) - 1)
    BY <1>1 DEF SetFrame
  <2> QED BY <1>5, <2>1, <2>2 DEF AllAre
<1> QED BY <1>2, <1>3, <1>4, <1>6, <1>7 DEF ScanIsCorrect, Same

\* Every call built on the strict scan ends right: the output holds the elements that
\* the serial algorithm keeps, in order, nothing is written after them, and the call
\* returns their end - the copies by a mask, __remove_elements, and the set operations
\* with the ranges they leave out, the blocks they shift to the ends of equal elements
\* and the parallel copies beside the scan (algorithm_impl.h:1269 to 3554).
THEOREM ScansAreCorrect == ScanSpec => []ScanIsCorrect
<1> DEFINE SetKept == Scheduled /\ SetMemory /\ SetRight
<1>1. ScanInit => SetKept
  BY ScheduledInit, SetMemoryInit, SetRightInit
<1>2. SetKept /\ [ScanNext]_scanVars => SetKept'
  <2> SUFFICES ASSUME SetKept, [ScanNext]_scanVars PROVE SetKept'
    OBVIOUS
  <2>1. Scheduled'
    BY ScheduledNext
  <2>2. SetMemory'
    BY SetMemoryNext
  <2>3. SetRight'
    BY SetRightNext
  <2> QED BY <2>1, <2>2, <2>3
<1>3. SetKept => (IsSet(scanCall) => ScanIsCorrect)
  BY SetResultGives
<1>4. ScanSpec => [](~IsSet(scanCall) => ScanIsCorrect)
  BY MaskedCopiesAreCorrect
<1>5. (~IsSet(scanCall) => ScanIsCorrect) /\ (IsSet(scanCall) => ScanIsCorrect) => ScanIsCorrect
  OBVIOUS
<1> QED BY <1>1, <1>2, <1>3, <1>4, <1>5, PTL DEF ScanSpec
===============================================================================
