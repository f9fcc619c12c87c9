--------------------------- MODULE StrictScanProofs ---------------------------
(* Proofs about the strict scan, for a range of any length and any number of   *)
(* workers, tiles and steps of the two trees of tasks.                          *)
EXTENDS ParallelStrictScan, NaturalLemmas

-------------------------------------------------------------------------------
(* Powers of two: numbers without an odd divisor. They divide one another in   *)
(* their order, which is all that the two sweeps ask of __split and of          *)
(* x & (x - 1).                                                                *)
Divides(b, a) == \E q \in 0..a : a = b * q

LEMMA DividesNat ==
  ASSUME NEW b \in Nat \ {0}, NEW q \in Nat
  PROVE  Divides(b, b * q)
<1> DEFINE a == b * q
<1>1. a \in Nat /\ q <= a
  <2>1. q = 1 * q /\ 1 * q <= b * q
    OBVIOUS
  <2> QED BY <2>1
<1> QED BY <1>1 DEF Divides

LEMMA OneIsPow2 == IsPow2(1)
BY DEF IsPow2

\* A power of two beyond one is even, and so is its half unless it is one.
LEMMA Pow2Half ==
  ASSUME NEW x \in Nat, x >= 2, IsPow2(x)
  PROVE  \E y \in Nat \ {0} : x = 2 * y /\ IsPow2(y)
<1>1. x % 2 = 0
  <2>1. x \in 2..x /\ 1 \in 1..x /\ x = x * 1
    OBVIOUS
  <2> QED BY <2>1 DEF IsPow2
<1>2. PICK y \in Nat \ {0} : x = 2 * y
  BY <1>1
<1>3. ASSUME NEW d \in 2..y, NEW e \in 1..y, y = d * e PROVE d % 2 = 0
  <2>1. x = d * (2 * e)
    <3>1. d \in Nat /\ e \in Nat
      OBVIOUS
    <3> QED BY <1>2, <1>3, <3>1
  <2>2. d \in 2..x /\ 2 * e \in 1..x
    BY <1>2
  <2> QED BY <2>1, <2>2 DEF IsPow2
<1>4. IsPow2(y)
  BY <1>3 DEF IsPow2
<1> QED BY <1>2, <1>4

LEMMA Pow2Double ==
  ASSUME NEW y \in Nat \ {0}, IsPow2(y)
  PROVE  IsPow2(2 * y)
<1> SUFFICES ASSUME NEW d \in 2..(2 * y), NEW e \in 1..(2 * y), 2 * y = d * e, d % 2 # 0
             PROVE  FALSE
  BY DEF IsPow2
<1>1. PICK a \in Nat : d = 2 * a + 1
  <2>1. d = 2 * (d \div 2) + (d % 2) /\ d % 2 \in 0..1 /\ d \div 2 \in Nat
    OBVIOUS
  <2> QED BY <2>1
<1> DEFINE ae == a * e
<1>2. ae \in Nat /\ d * e = 2 * ae + e
  BY <1>1
<1> HIDE DEF ae
<1>3. e = 2 * (y - ae) /\ y - ae \in Nat \ {0}
  BY <1>2
<1> DEFINE f == y - ae
<1>4. 2 * y = 2 * (d * f)
  <2>1. f \in Nat /\ d \in Nat
    BY <1>3
  <2>2. d * e = d * (2 * f)
    BY <1>3
  <2> HIDE DEF f
  <2> QED BY <2>1, <2>2
<1>5. y = d * f
  <2> DEFINE df == d * f
  <2>1. df \in Nat
    BY <1>3
  <2>2. 2 * y = 2 * df
    BY <1>4
  <2> HIDE DEF df
  <2>3. y = df
    BY <2>1, <2>2
  <2> QED BY <2>3 DEF df
<1>6. d <= y /\ f <= y
  <2>1. f \in Nat \ {0} /\ d \in Nat \ {0}
    BY <1>3
  <2> HIDE DEF f
  <2>2. d * 1 <= d * f /\ 1 * f <= d * f
    BY <2>1
  <2> QED BY <1>5, <2>1, <2>2
<1>7. d % 2 = 0
  <2>1. d \in 2..y /\ f \in 1..y
    BY <1>3, <1>6
  <2> HIDE DEF f
  <2> QED BY <1>5, <2>1 DEF IsPow2
<1> QED BY <1>7

\* The less of two powers of two divides the greater one.
LEMMA Pow2Divides ==
  ASSUME NEW a \in Nat \ {0}, NEW b \in Nat \ {0}, a <= b, IsPow2(a), IsPow2(b)
  PROVE  \E e \in Nat \ {0} : b = a * e
<1> DEFINE S == {i \in Nat : \A x, y \in 1..i : IsPow2(x) /\ IsPow2(y) /\ x <= y =>
                               \E e \in Nat \ {0} : y = x * e}
<1>1. 0 \in S
  OBVIOUS
<1>2. ASSUME NEW i \in Nat, i \in S PROVE i + 1 \in S
  <2> SUFFICES ASSUME NEW x \in 1..(i + 1), NEW y \in 1..(i + 1), IsPow2(x), IsPow2(y), x <= y
               PROVE  \E e \in Nat \ {0} : y = x * e
    OBVIOUS
  <2>1. CASE x = 1
    <3>1. y \in Nat \ {0} /\ y = x * y
      BY <2>1
    <3> QED BY <3>1
  <2>2. CASE x # 1
    <3>1. PICK u \in Nat \ {0} : x = 2 * u /\ IsPow2(u)
      BY <2>2, Pow2Half
    <3>2. PICK v \in Nat \ {0} : y = 2 * v /\ IsPow2(v)
      BY <2>2, Pow2Half
    <3>3. u \in 1..i /\ v \in 1..i /\ u <= v
      BY <3>1, <3>2
    <3>4. PICK e \in Nat \ {0} : v = u * e
      BY <1>2, <3>1, <3>2, <3>3
    <3>5. y = x * e
      BY <3>1, <3>2, <3>4
    <3> QED BY <3>5
  <2> QED BY <2>1, <2>2
<1> HIDE DEF S
<1>3. b \in S
  BY <1>1, <1>2, Induction
<1> QED BY <1>3 DEF S

LEMMA Pow2Gap ==
  ASSUME NEW a \in Nat \ {0}, NEW b \in Nat \ {0}, a < b, IsPow2(a), IsPow2(b)
  PROVE  2 * a <= b
<1>1. PICK e \in Nat \ {0} : b = a * e
  BY Pow2Divides
<1>2. e >= 2
  BY <1>1
<1>3. a * 2 <= a * e
  BY <1>2
<1> QED BY <1>1, <1>3
-------------------------------------------------------------------------------
(* __split: the greatest power of two below m.                                 *)
LEMMA SplitIs ==
  ASSUME NEW m \in Nat, m >= 2
  PROVE  Split(m) \in 1..(m - 1) /\ IsPow2(Split(m)) /\ m <= 2 * Split(m)
<1> DEFINE S == {i \in Nat : \E s \in 1..(i + 1) : IsPow2(s) /\ i + 2 <= 2 * s}
<1>1. 0 \in S
  <2>1. 1 \in 1..(0 + 1) /\ 0 + 2 <= 2 * 1
    OBVIOUS
  <2> QED BY <2>1, OneIsPow2
<1>2. ASSUME NEW i \in Nat, i \in S PROVE i + 1 \in S
  <2>1. PICK s \in 1..(i + 1) : IsPow2(s) /\ i + 2 <= 2 * s
    BY <1>2
  <2>2. CASE i + 3 <= 2 * s
    BY <2>1, <2>2
  <2>3. CASE i + 3 > 2 * s
    <3>1. 2 * s \in 1..(i + 2) /\ i + 3 <= 2 * (2 * s)
      BY <2>1, <2>3
    <3>2. IsPow2(2 * s)
      BY <2>1, Pow2Double
    <3> QED BY <3>1, <3>2
  <2> QED BY <2>1, <2>2, <2>3
<1> HIDE DEF S
<1>3. m - 2 \in S
  BY <1>1, <1>2, Induction
<1>4. \E s \in 1..(m - 1) : IsPow2(s) /\ m <= 2 * s
  BY <1>3 DEF S
<1> QED BY <1>4 DEF Split

LEMMA SplitOfPow2 ==
  ASSUME NEW m \in Nat, m >= 2
  PROVE  m = 2 * Split(m) <=> IsPow2(m)
<1> DEFINE s == Split(m)
<1>1. s \in Nat \ {0} /\ s < m /\ IsPow2(s) /\ m <= 2 * s
  BY SplitIs
<1> HIDE DEF s
<1>2. IsPow2(m) => 2 * s <= m
  BY <1>1, Pow2Gap
<1>3. IsPow2(2 * s)
  BY <1>1, Pow2Double
<1>4. m = 2 * s <=> IsPow2(m)
  BY <1>1, <1>2, <1>3
<1> QED BY <1>4 DEF s

-------------------------------------------------------------------------------
(* x & (x - 1): x = d * (2 * q + 1) without the power of two d.                *)
LEMMA Cancel ==
  ASSUME NEW d \in Nat \ {0}, NEW u \in Nat, NEW v \in Nat, d * u = d * v
  PROVE  u = v
<1>1. ASSUME NEW a \in Nat, NEW b \in Nat, a < b PROVE d * a < d * b
  <2>1. d * 1 <= d * (b - a)
    BY <1>1
  <2>2. d * (b - a) = d * b - d * a
    OBVIOUS
  <2> DEFINE db == d * b
             da == d * a
  <2>3. da \in Nat /\ db \in Nat /\ d <= db - da
    BY <2>1, <2>2
  <2> HIDE DEF da, db
  <2>4. da < db
    BY <2>3
  <2> QED BY <2>4 DEF da, db
<1>2. u < v \/ v < u \/ u = v
  OBVIOUS
<1>3. u < v => d * u < d * v
  BY <1>1
<1>4. v < u => d * v < d * u
  BY <1>1
<1> DEFINE du == d * u
           dv == d * v
<1>5. du \in Nat /\ dv \in Nat /\ du = dv /\ (u < v => du < dv) /\ (v < u => dv < du)
  BY <1>3, <1>4
<1> HIDE DEF du, dv
<1> QED BY <1>2, <1>5

\* No power of two greater than d divides d * (2 * q + 1).
LEMMA LowestBound ==
  ASSUME NEW d \in Nat \ {0}, NEW q \in Nat, NEW b \in Nat \ {0}, NEW w \in Nat,
         IsPow2(d), IsPow2(b), d * (2 * q + 1) = b * w
  PROVE  b <= d
<1> SUFFICES ASSUME d < b PROVE FALSE
  OBVIOUS
<1>1. 2 * d <= b /\ IsPow2(2 * d)
  BY Pow2Gap, Pow2Double
<1>2. PICK e \in Nat \ {0} : b = (2 * d) * e
  <2> DEFINE dd == 2 * d
  <2>1. dd \in Nat \ {0} /\ dd <= b /\ IsPow2(dd)
    BY <1>1
  <2> HIDE DEF dd
  <2>2. \E e \in Nat \ {0} : b = dd * e
    BY <2>1, Pow2Divides
  <2> QED BY <2>2 DEF dd
<1> DEFINE ew == e * w
           u == 2 * q + 1
           v == 2 * ew
<1>3. ew \in Nat
  OBVIOUS
<1>4. b * w = d * v
  <2>1. b * w = ((2 * d) * e) * w
    BY <1>2
  <2>2. ((2 * d) * e) * w = d * (2 * (e * w))
    OBVIOUS
  <2> QED BY <2>1, <2>2
<1>5. d * u = d * v
  BY <1>4
<1>6. u \in Nat /\ v \in Nat
  BY <1>3
<1>7. u = v
  <2> HIDE DEF u, v, ew
  <2> QED BY <1>5, <1>6, Cancel
<1> HIDE DEF ew
<1> QED BY <1>3, <1>7

LEMMA LowestExists ==
  ASSUME NEW x \in Nat \ {0}
  PROVE  \E d \in 1..x : IsPow2(d) /\ \E q \in 0..x : x = d * (2 * q + 1)
<1> DEFINE S == {i \in Nat : \A y \in 1..i : \E d \in 1..y : IsPow2(d) /\ \E q \in 0..y : y = d * (2 * q + 1)}
<1>1. 0 \in S
  OBVIOUS
<1>2. ASSUME NEW i \in Nat, i \in S PROVE i + 1 \in S
  <2> SUFFICES ASSUME NEW y \in 1..(i + 1)
               PROVE  \E d \in 1..y : IsPow2(d) /\ \E q \in 0..y : y = d * (2 * q + 1)
    OBVIOUS
  <2>1. y = 2 * (y \div 2) + (y % 2) /\ y % 2 \in 0..1 /\ y \div 2 \in Nat
    OBVIOUS
  <2> DEFINE h == y \div 2
  <2>2. h \in 0..y /\ (y = 2 * h \/ y = 2 * h + 1)
    BY <2>1
  <2> HIDE DEF h
  <2>3. CASE y = 2 * h + 1
    <3>1. 1 \in 1..y /\ y = 1 * (2 * h + 1)
      BY <2>2, <2>3
    <3> QED BY <2>2, <3>1, OneIsPow2
  <2>4. CASE y = 2 * h
    <3>1. h \in 1..i
      BY <2>2, <2>4
    <3>2. PICK d \in 1..h : IsPow2(d) /\ \E q \in 0..h : h = d * (2 * q + 1)
      BY <1>2, <3>1
    <3>3. PICK q \in 0..h : h = d * (2 * q + 1)
      BY <3>2
    <3>4. y = (2 * d) * (2 * q + 1)
      BY <2>4, <3>1, <3>3
    <3>5. 2 * d \in 1..y /\ q \in 0..y
      BY <2>4, <3>1
    <3>6. IsPow2(2 * d)
      BY <3>1, <3>2, Pow2Double
    <3> QED BY <3>4, <3>5, <3>6
  <2> QED BY <2>2, <2>3, <2>4
<1> HIDE DEF S
<1>3. x \in S
  BY <1>1, <1>2, Induction
<1> QED BY <1>3 DEF S

\* What is left is less, and the rest divides it twice.
LEMMA ClearLowestIs ==
  ASSUME NEW x \in Nat \ {0}
  PROVE  \E d \in 1..x : /\ IsPow2(d) /\ ClearLowest(x) = x - d
                         /\ \E q \in 0..x : x = d * (2 * q + 1)
<1> DEFINE Fits(d) == IsPow2(d) /\ \E q \in 0..x : x = d * (2 * q + 1)
           low == CHOOSE d \in 1..x : Fits(d)
<1>1. low \in 1..x /\ Fits(low)
  <2>1. \E d \in 1..x : Fits(d)
    BY LowestExists
  <2> HIDE DEF Fits
  <2> QED BY <2>1
<1>2. ClearLowest(x) = x - low
  BY DEF ClearLowest
<1> HIDE DEF low
<1> QED BY <1>1, <1>2

LEMMA ClearLowestOf ==
  ASSUME NEW s \in Nat \ {0}, IsPow2(s), NEW q \in Nat
  PROVE  ClearLowest((2 * s) * q + s) = (2 * s) * q
<1> DEFINE x == (2 * s) * q + s
           a == 2 * q + 1
<1>1. x \in Nat \ {0} /\ x = s * a
  <2> DEFINE sq == s * q
  <2>1. sq \in Nat /\ x = 2 * sq + s /\ s * a = 2 * sq + s
    OBVIOUS
  <2> QED BY <2>1
<1>2. PICK d \in 1..x : /\ IsPow2(d) /\ ClearLowest(x) = x - d
                        /\ \E u \in 0..x : x = d * (2 * u + 1)
  <2> HIDE DEF x
  <2> QED BY <1>1, ClearLowestIs
<1>3. PICK u \in 0..x : x = d * (2 * u + 1)
  BY <1>2
<1> HIDE DEF x
<1>4. d \in Nat \ {0} /\ u \in Nat /\ 2 * u + 1 \in Nat /\ a \in Nat
  BY <1>1
<1>5. s <= d
  <2>1. d * (2 * u + 1) = s * a
    BY <1>1, <1>3
  <2> HIDE DEF a
  <2> QED BY <1>2, <1>4, <2>1, LowestBound
<1>6. d <= s
  <2> DEFINE b == 2 * u + 1
  <2>1. s * (2 * q + 1) = d * b
    BY <1>1, <1>3
  <2> HIDE DEF b
  <2> QED BY <1>2, <1>4, <2>1, LowestBound DEF b
<1>7. d = s
  BY <1>4, <1>5, <1>6
<1>8. ClearLowest(x) = x - s
  BY <1>2, <1>7
<1>9. x - s = (2 * s) * q
  <2> DEFINE ss == (2 * s) * q
  <2>1. ss \in Nat /\ x = ss + s
    BY DEF x
  <2> HIDE DEF ss
  <2>2. x - s = ss
    BY <2>1
  <2> QED BY <2>2 DEF ss
<1> QED BY <1>8, <1>9 DEF x
-------------------------------------------------------------------------------
(* The tree of tasks. A node is an interval of tiles; Tree says of the states   *)
(* of a sweep's nodes that the called ones are nested or apart, that nothing    *)
(* below a task that has not forked has been called, that a task returns after  *)
(* all below it, and that a node is as far to the right as a power of two not   *)
(* less than its length allows.                                                *)
Inside(x, y) == y[1] <= x[1] /\ x[1] + x[2] <= y[1] + y[2]
Apart(x, y) == x[1] + x[2] <= y[1] \/ y[1] + y[2] <= x[1]
Fresh == {"run", "argument"}
NodeStates == {"idle", "run", "argument", "join", "done"}

Aligned(x) == x[1] = 0 \/ \E b \in 1..x[1] : IsPow2(b) /\ x[2] <= b /\ Divides(b, x[1])

Laminar(st) ==
  \A x, y \in Nodes : st[x] # "idle" /\ st[y] # "idle" => Inside(x, y) \/ Inside(y, x) \/ Apart(x, y)
FreshIsLowest(st) ==
  \A x, y \in Nodes : st[x] \in Fresh /\ Inside(y, x) /\ y # x => st[y] = "idle"
DoneIsWhole(st) ==
  \A x, y \in Nodes : st[x] = "done" /\ Inside(y, x) => st[y] \in {"idle", "done"}
HalvesAreCalled(st) ==
  \A x \in Nodes : x[2] > 1 /\ st[x] \in {"join", "done"} =>
    /\ st[Left(x)] # "idle" /\ st[Right(x)] # "idle"
    /\ \A y \in Nodes : st[y] # "idle" /\ Inside(y, x) => y = x \/ Inside(y, Left(x)) \/ Inside(y, Right(x))
ForksAreWide(st) == \A x \in Nodes : st[x] = "join" => x[2] > 1
NodesAreAligned(st) == \A x \in Nodes : st[x] # "idle" => Aligned(x)

Tree(st) ==
  /\ st \in [Nodes -> NodeStates]
  /\ Laminar(st) /\ FreshIsLowest(st) /\ DoneIsWhole(st) /\ HalvesAreCalled(st)
  /\ ForksAreWide(st) /\ NodesAreAligned(st)

(* What the slots of r hold: the sum of the widest full node that ends there.   *)
TileEnd(j) == IF j = tiles THEN n ELSE j * tilesize
NodeSum(x) == <<x[1] * tilesize, TileEnd(x[1] + x[2])>>
Tile(j) == <<j * tilesize, TileEnd(j + 1) - j * tilesize>>
Tiles == 0..(tiles - 1)
ScanCall(j) == <<Tile(j)[1], Tile(j)[2], <<-1, Tile(j)[1]>>>>

Phase ==
  /\ n \in Nat /\ p \in Nat \ {0} /\ limit \in Nat \ {0}
  /\ tiles \in Nat /\ tilesize \in Nat
  /\ tiles = 0 => pc \in {"begin", "block", "apex", "scan", "return", "done", "bad_alloc"}
  /\ tiles > 0 => /\ pc \in {"up", "fold", "apex", "down", "done"}
                  /\ tilesize > 0 /\ (tiles - 1) * tilesize < n /\ n <= tiles * tilesize
  /\ pc = "block" \/ pc = "scan" => n > 0
  /\ pc = "return" /\ n > 0 => tiles = 0

Trees ==
  tiles > 0 =>
    /\ Tree(up) /\ Tree(down)
    /\ up[Root] # "idle" /\ (down[Root] # "idle" <=> pc \in {"down", "done"})
    /\ pc = "up" => \A x \in Nodes : down[x] = "idle"
    /\ pc # "up" => up[Root] = "done"
    /\ pc \in {"fold", "apex"} => \A x \in Nodes : down[x] = "idle"
    /\ pc = "done" => down[Root] = "done"
    /\ \A x \in Nodes : up[x] # "argument" /\ (down[x] # "idle" => up[x] = "done")

Sizes ==
  tiles > 0 =>
    /\ DOMAIN lastsize = Nodes
    /\ pc = "up" => \A x \in Nodes : up[x] # "idle" => lastsize[x] = Tile(LastSlot(x))[2]
    /\ pc = "down" => \A x \in Nodes : down[x] # "idle" => lastsize[x] = Tile(LastSlot(x))[2]

SlotsHoldSums ==
  tiles > 0 =>
    /\ DOMAIN r = Tiles
    /\ \A x \in Nodes : up[x] = "done" /\ IsPow2(x[2]) =>
         \/ r[LastSlot(x)] = NodeSum(x)
         \/ \E y \in Nodes : /\ up[y] = "done" /\ IsPow2(y[2]) /\ y # x
                             /\ Inside(x, y) /\ LastSlot(y) = LastSlot(x)

FoldedSum ==
  /\ pc = "fold" => k \in 1..tiles /\ t = <<ClearLowest(k) * tilesize, n>>
  /\ pc = "apex" /\ n > 0 => t = <<0, n>>

Prefixes ==
  tiles > 0 =>
    /\ DOMAIN initial = Nodes
    /\ pc # "down" /\ pc # "done" => \A x \in Nodes : initial[x] = InitialSum
    /\ \A x \in Nodes :
         /\ down[x] \in {"run", "join", "done"} => initial[x] = <<-1, x[1] * tilesize>>
         /\ down[x] = "argument" =>
              /\ x[1] > 0
              /\ \E i \in 0..x[1] : initial[x] = <<-1, i * tilesize>> /\ r[x[1] - 1] = <<i * tilesize, x[1] * tilesize>>

TotalIsSum ==
  total = IF pc \in {"begin", "block", "up", "fold", "apex", "bad_alloc"} THEN Bad ELSE <<-1, n>>
TreeCalls ==
  /\ \A b \in DOMAIN reduced : \E j \in Tiles : up[<<j, 1>>] = "done" /\ b = Tile(j)
  /\ \A b \in DOMAIN scanned : \E j \in Tiles : down[<<j, 1>>] = "done" /\ b = ScanCall(j)
  /\ \A j \in Tiles : /\ up[<<j, 1>>] = "done" => Tile(j) \in DOMAIN reduced
                      /\ down[<<j, 1>>] = "done" => ScanCall(j) \in DOMAIN scanned
BlockCalls ==
  /\ reduced = IF n > 0 /\ pc \in {"apex", "scan", "return", "done"} THEN SetToBag({<<0, n>>}) ELSE EmptyBag
  /\ scanned = IF n > 0 /\ pc \in {"return", "done"} THEN SetToBag({<<0, n, <<-1, 0>>>>}) ELSE EmptyBag
Calls == TotalIsSum /\ IF tiles = 0 THEN BlockCalls ELSE TreeCalls

IInv == Phase /\ Trees /\ Sizes /\ SlotsHoldSums /\ FoldedSum /\ Prefixes /\ Calls
-------------------------------------------------------------------------------
(* Nodes and their halves.                                                     *)
LEMMA NodeIs ==
  ASSUME tiles \in Nat, NEW x \in Nodes
  PROVE  /\ x[1] \in Nat /\ x[2] \in Nat \ {0} /\ x[1] + x[2] <= tiles /\ x = <<x[1], x[2]>>
         /\ x[1] \in Tiles /\ LastSlot(x) \in Tiles
BY DEF Nodes, NodesOf, Tiles, LastSlot

LEMMA IsNode ==
  ASSUME tiles \in Nat, NEW i \in Nat, NEW m \in Nat \ {0}, i + m <= tiles
  PROVE  <<i, m>> \in Nodes
BY DEF Nodes, NodesOf

LEMMA LeafIs ==
  ASSUME tiles \in Nat, NEW j \in Tiles
  PROVE  <<j, 1>> \in Nodes
<1>1. j \in Nat /\ 1 \in Nat \ {0} /\ j + 1 <= tiles
  BY DEF Tiles
<1> QED BY <1>1, IsNode

LEMMA SameNode ==
  ASSUME tiles \in Nat, NEW x \in Nodes, NEW y \in Nodes, x[1] = y[1], x[2] = y[2]
  PROVE  x = y
BY NodeIs

LEMMA Halves ==
  ASSUME tiles \in Nat, NEW x \in Nodes, x[2] > 1
  PROVE  /\ Left(x) \in Nodes /\ Right(x) \in Nodes
         /\ Left(x)[1] = x[1] /\ Left(x)[2] = Split(x[2]) /\ Right(x)[1] = x[1] + Split(x[2])
         /\ Right(x)[2] = x[2] - Split(x[2])
         /\ Left(x)[2] < x[2] /\ Right(x)[2] < x[2] /\ Right(x)[2] <= Left(x)[2]
         /\ IsPow2(Left(x)[2])
         /\ Inside(Left(x), x) /\ Inside(Right(x), x) /\ Apart(Left(x), Right(x))
         /\ Left(x) # x /\ Right(x) # x /\ Left(x) # Right(x)
<1> DEFINE s == Split(x[2])
<1>1. x[1] \in Nat /\ x[2] \in Nat /\ x[2] >= 2 /\ x[1] + x[2] <= tiles
  BY NodeIs
<1>2. s \in 1..(x[2] - 1) /\ IsPow2(s) /\ x[2] <= 2 * s
  BY <1>1, SplitIs
<1>3. Left(x) = <<x[1], s>> /\ Right(x) = <<x[1] + s, x[2] - s>>
  BY DEF Left, Right
<1> HIDE DEF s
<1>4. Left(x) \in Nodes /\ Right(x) \in Nodes
  <2>1. x[1] + s \in Nat /\ x[2] - s \in Nat \ {0} /\ s \in Nat \ {0}
    BY <1>1, <1>2
  <2> QED BY <1>1, <1>2, <1>3, <2>1, IsNode
<1>5. Left(x)[2] = s /\ Right(x)[2] = x[2] - s /\ Left(x)[1] = x[1] /\ Right(x)[1] = x[1] + s
  BY <1>3
<1> QED BY <1>1, <1>2, <1>4, <1>5 DEF Inside, Apart, s

LEMMA InsideTransitive ==
  ASSUME tiles \in Nat, NEW x \in Nodes, NEW y \in Nodes, NEW z \in Nodes, Inside(x, y)
  PROVE  /\ Inside(y, z) => Inside(x, z)
         /\ Apart(y, z) => Apart(x, z) /\ Apart(z, x)
         /\ ~Apart(x, y) /\ (Inside(y, x) => x = y)
<1>1. /\ x[1] \in Nat /\ x[2] \in Nat \ {0} /\ y[1] \in Nat /\ y[2] \in Nat \ {0}
      /\ z[1] \in Nat /\ z[2] \in Nat \ {0}
  BY NodeIs
<1>2. Inside(y, x) => x = y
  BY <1>1, SameNode DEF Inside
<1> QED BY <1>1, <1>2 DEF Inside, Apart

LEMMA InsideRoot ==
  ASSUME tiles \in Nat, NEW x \in Nodes
  PROVE  Inside(x, Root) /\ Root \in Nodes
<1>1. x[1] \in Nat /\ x[2] \in Nat \ {0} /\ x[1] + x[2] <= tiles
  BY NodeIs
<1>2. Root[1] = 0 /\ Root[2] = tiles
  BY DEF Root
<1>3. Root \in Nodes
  BY <1>1, IsNode DEF Root
<1> QED BY <1>1, <1>2, <1>3 DEF Inside

LEMMA HalvesAreAligned ==
  ASSUME tiles \in Nat, NEW x \in Nodes, x[2] > 1, Aligned(x)
  PROVE  Aligned(Left(x)) /\ Aligned(Right(x)) /\ Divides(Left(x)[2], Right(x)[1])
<1> DEFINE i == x[1]
           s == Left(x)[2]
<1>1. /\ i \in Nat /\ s \in Nat \ {0} /\ s < x[2] /\ x[2] \in Nat /\ IsPow2(s)
      /\ Left(x)[1] = i /\ Right(x)[1] = i + s /\ Right(x)[2] <= s
  <2>1. Left(x)[2] \in Nat \ {0}
    BY Halves, NodeIs
  <2> QED BY <2>1, Halves, NodeIs
<1>2. Divides(s, i + s)
  <2>1. CASE i = 0
    <3>1. i + s = s * 1 /\ 1 \in Nat
      BY <1>1, <2>1
    <3> HIDE DEF i, s
    <3> QED BY <1>1, <3>1, DividesNat
  <2>2. CASE i # 0
    <3>1. PICK b \in 1..i : IsPow2(b) /\ x[2] <= b /\ Divides(b, i)
      BY <1>1, <2>2 DEF Aligned
    <3>2. PICK q \in 0..i : i = b * q
      BY <3>1 DEF Divides
    <3> HIDE DEF i, s
    <3>3. b \in Nat \ {0} /\ s <= b
      BY <1>1, <3>1
    <3>4. PICK e \in Nat \ {0} : b = s * e
      BY <1>1, <3>1, <3>3, Pow2Divides
    <3>5. e * q \in Nat /\ i = s * (e * q)
      BY <1>1, <3>2, <3>4
    <3>6. i + s = s * (e * q + 1)
      <4> DEFINE u == e * q
      <4>1. u \in Nat /\ i = s * u
        BY <3>5
      <4> HIDE DEF u
      <4>2. i + s = s * (u + 1)
        BY <1>1, <4>1
      <4> QED BY <4>2 DEF u
    <3>7. e * q + 1 \in Nat
      BY <3>5
    <3> QED BY <1>1, <3>6, <3>7, DividesNat
  <2> QED BY <2>1, <2>2
<1> HIDE DEF s
<1>3. Aligned(Left(x))
  BY <1>1 DEF Aligned, s
<1>4. Aligned(Right(x))
  <2>1. s \in 1..(i + s)
    BY <1>1
  <2> QED BY <1>1, <1>2, <2>1 DEF Aligned
<1>5. Divides(Left(x)[2], Right(x)[1])
  BY <1>1, <1>2 DEF s
<1> QED BY <1>3, <1>4, <1>5
(* The steps of a sweep keep its tree: a call, a fork and a return.            *)
LEMMA TreeBegins ==
  ASSUME tiles \in Nat \ {0}
  PROVE  Tree([x \in Nodes |-> IF x = Root THEN "run" ELSE "idle"])
<1> DEFINE st == [x \in Nodes |-> IF x = Root THEN "run" ELSE "idle"]
<1>1. \A x \in Nodes : st[x] = IF x = Root THEN "run" ELSE "idle"
  OBVIOUS
<1>2. st \in [Nodes -> NodeStates]
  BY DEF NodeStates
<1>3. Aligned(Root)
  BY DEF Aligned, Root
<1>4. Inside(Root, Root)
  BY DEF Inside, Root
<1> HIDE DEF st
<1>5. Laminar(st)
  BY <1>1, <1>4 DEF Laminar
<1>6. FreshIsLowest(st)
  BY <1>1 DEF FreshIsLowest, Fresh
<1>7. DoneIsWhole(st) /\ HalvesAreCalled(st) /\ ForksAreWide(st)
  BY <1>1 DEF DoneIsWhole, HalvesAreCalled, ForksAreWide
<1>8. NodesAreAligned(st)
  BY <1>1, <1>3 DEF NodesAreAligned
<1> QED BY <1>2, <1>5, <1>6, <1>7, <1>8 DEF Tree, st

LEMMA TreeForks ==
  ASSUME tiles \in Nat, NEW st, Tree(st), NEW x \in Nodes, st[x] = "run", x[2] > 1,
         NEW a \in Fresh
  PROVE  Tree([st EXCEPT ![x] = "join", ![Left(x)] = "run", ![Right(x)] = a])
<1> DEFINE now == [st EXCEPT ![x] = "join", ![Left(x)] = "run", ![Right(x)] = a]
           L == Left(x)
           R == Right(x)
<1>1. /\ L \in Nodes /\ R \in Nodes /\ L # x /\ R # x /\ L # R
      /\ Inside(L, x) /\ Inside(R, x) /\ Apart(L, R) /\ Apart(R, L)
  BY Halves DEF Apart
<1>2. now \in [Nodes -> NodeStates]
  BY <1>1 DEF Tree, NodeStates, Fresh
<1>3. /\ now[x] = "join" /\ now[L] = "run" /\ now[R] = a
      /\ \A y \in Nodes : y # x /\ y # L /\ y # R => now[y] = st[y]
  BY <1>1 DEF Tree
<1> HIDE DEF now, L, R
<1>4. \A y \in Nodes : Inside(y, x) /\ y # x => st[y] = "idle"
  BY DEF Tree, FreshIsLowest, Fresh
<1>5. a # "idle" /\ a # "join" /\ a # "done"
  BY DEF Fresh
<1>6. \A y \in Nodes : st[y] # "idle" => Inside(x, y) \/ Apart(x, y)
  <2> SUFFICES ASSUME NEW y \in Nodes, st[y] # "idle" PROVE Inside(x, y) \/ Apart(x, y)
    OBVIOUS
  <2>1. Inside(x, y) \/ Inside(y, x) \/ Apart(x, y)
    BY DEF Tree, Laminar
  <2>2. CASE y = x
    <3>1. Inside(x, x)
      BY NodeIs DEF Inside
    <3> QED BY <2>2, <3>1
  <2>3. CASE y # x
    BY <1>4, <2>1, <2>3
  <2> QED BY <2>2, <2>3
<1>7. ASSUME NEW h \in {L, R}, NEW y \in Nodes
      PROVE  /\ Inside(x, y) => Inside(h, y)
             /\ Apart(x, y) => Apart(h, y) /\ Apart(y, h) /\ ~Inside(h, y) /\ ~Inside(y, h)
             /\ Inside(y, h) => Inside(y, x) /\ y # x
             /\ Inside(h, h)
  <2>1. h \in Nodes /\ Inside(h, x) /\ h # x
    BY <1>1
  <2>2. ~Inside(x, h)
    BY <2>1, InsideTransitive
  <2>3. Inside(x, y) => Inside(h, y)
    BY <2>1, InsideTransitive
  <2>4. Apart(x, y) => Apart(h, y) /\ Apart(y, h)
    BY <2>1, InsideTransitive
  <2>5. Apart(h, y) => ~Inside(h, y)
    BY <2>1, InsideTransitive
  <2>6. Apart(y, h) => ~Inside(y, h)
    BY <2>1, InsideTransitive
  <2>7. Inside(y, h) => Inside(y, x)
    BY <2>1, InsideTransitive
  <2>8. Inside(h, h)
    BY <2>1, NodeIs DEF Inside
  <2>9. Inside(y, h) => y # x
    BY <2>2
  <2> QED BY <2>3, <2>4, <2>5, <2>6, <2>7, <2>8, <2>9
<1>8. \A y \in Nodes : now[y] # "idle" => y = L \/ y = R \/ st[y] # "idle"
  BY <1>3
<1>9. Laminar(now)
  <2> SUFFICES ASSUME NEW y \in Nodes, NEW z \in Nodes, now[y] # "idle", now[z] # "idle"
               PROVE  Inside(y, z) \/ Inside(z, y) \/ Apart(y, z)
    BY DEF Laminar
  <2>1. CASE y \in {L, R} /\ z \in {L, R}
    BY <1>1, <1>7, <2>1
  <2>2. CASE y \in {L, R} /\ z \notin {L, R}
    BY <1>6, <1>7, <1>8, <2>2
  <2>3. CASE y \notin {L, R} /\ z \in {L, R}
    BY <1>6, <1>7, <1>8, <2>3
  <2>4. CASE y \notin {L, R} /\ z \notin {L, R}
    BY <1>8, <2>4 DEF Tree, Laminar
  <2> QED BY <2>1, <2>2, <2>3, <2>4
<1>10. FreshIsLowest(now)
  <2> SUFFICES ASSUME NEW y \in Nodes, NEW z \in Nodes, now[y] \in Fresh, Inside(z, y), z # y
               PROVE  now[z] = "idle"
    BY DEF FreshIsLowest
  <2>1. CASE y \in {L, R}
    <3>1. Inside(z, x) /\ z # x
      BY <1>7, <2>1
    <3>2. z \notin {L, R}
      BY <1>1, <1>7, <2>1, InsideTransitive
    <3> QED BY <1>3, <1>4, <3>1, <3>2
  <2>2. CASE y \notin {L, R}
    <3>1. y # x /\ st[y] \in Fresh
      BY <1>3, <2>2 DEF Fresh
    <3>2. st[z] = "idle" /\ z # x
      BY <3>1 DEF Tree, FreshIsLowest
    <3>3. ~Inside(x, y)
      BY <3>1 DEF Tree, FreshIsLowest
    <3>4. Apart(x, y)
      BY <1>6, <3>1, <3>3 DEF Fresh
    <3>5. z \notin {L, R}
      BY <1>7, <3>4
    <3> QED BY <1>3, <3>2, <3>5
  <2> QED BY <2>1, <2>2
<1>11. DoneIsWhole(now)
  <2> SUFFICES ASSUME NEW y \in Nodes, NEW z \in Nodes, now[y] = "done", Inside(z, y)
               PROVE  now[z] \in {"idle", "done"}
    BY DEF DoneIsWhole
  <2>1. st[y] = "done" /\ y # x
    BY <1>3, <1>5
  <2>2. ~Inside(x, y)
    BY <2>1 DEF Tree, DoneIsWhole
  <2>3. Apart(x, y)
    BY <1>6, <2>1, <2>2
  <2>4. z \notin {L, R} /\ z # x
    BY <1>7, <2>2, <2>3
  <2> QED BY <1>3, <2>1, <2>4 DEF Tree, DoneIsWhole
<1>12. HalvesAreCalled(now)
  <2> SUFFICES ASSUME NEW y \in Nodes, y[2] > 1, now[y] \in {"join", "done"}
               PROVE  /\ now[Left(y)] # "idle" /\ now[Right(y)] # "idle"
                      /\ \A z \in Nodes : now[z] # "idle" /\ Inside(z, y) =>
                           z = y \/ Inside(z, Left(y)) \/ Inside(z, Right(y))
    BY DEF HalvesAreCalled
  <2>1. CASE y = x
    BY <1>3, <1>4, <1>5, <1>7, <1>8, <2>1 DEF L, R
  <2>2. CASE y # x
    <3>1. st[y] \in {"join", "done"}
      BY <1>3, <1>5, <2>2
    <3>2. Left(y) \in Nodes /\ Right(y) \in Nodes
      BY Halves
    <3>3. st[Left(y)] # "idle" /\ st[Right(y)] # "idle"
      BY <3>1 DEF Tree, HalvesAreCalled
    <3>4. \A z \in Nodes : st[z] # "idle" => now[z] # "idle"
      BY <1>3, <1>5
    <3>5. ASSUME NEW z \in Nodes, now[z] # "idle", Inside(z, y)
          PROVE  z = y \/ Inside(z, Left(y)) \/ Inside(z, Right(y))
      <4>1. CASE z \notin {L, R}
        BY <1>8, <3>1, <3>5, <4>1 DEF Tree, HalvesAreCalled
      <4>2. CASE z \in {L, R}
        <5>1. Inside(x, y)
          BY <1>6, <1>7, <3>1, <3>5, <4>2
        <5>2. Inside(x, Left(y)) \/ Inside(x, Right(y))
          BY <2>2, <3>1, <5>1 DEF Tree, HalvesAreCalled
        <5> QED BY <1>7, <3>2, <4>2, <5>2
      <4> QED BY <4>1, <4>2
    <3> QED BY <3>2, <3>3, <3>4, <3>5
  <2> QED BY <2>1, <2>2
<1>13. ForksAreWide(now)
  BY <1>3, <1>5 DEF Tree, ForksAreWide
<1>14. NodesAreAligned(now)
  <2>1. Aligned(L) /\ Aligned(R)
    <3>1. Aligned(x)
      BY DEF Tree, NodesAreAligned
    <3> QED BY <3>1, HalvesAreAligned DEF L, R
  <2> QED BY <1>8, <2>1 DEF Tree, NodesAreAligned
<1>15. Tree(now)
  BY <1>2, <1>9, <1>10, <1>11, <1>12, <1>13, <1>14 DEF Tree
<1> QED BY <1>15 DEF now

\* A second half begins, or a task returns when what it called has returned.
LEMMA TreeAdvances ==
  ASSUME tiles \in Nat, NEW st, Tree(st), NEW x \in Nodes, NEW v \in {"run", "done"},
         v = "run" => st[x] = "argument",
         v = "done" => \/ st[x] = "run" /\ x[2] = 1
                       \/ st[x] = "join" /\ st[Left(x)] = "done" /\ st[Right(x)] = "done"
  PROVE  Tree([st EXCEPT ![x] = v])
<1> DEFINE now == [st EXCEPT ![x] = v]
<1>1. now \in [Nodes -> NodeStates]
  BY DEF Tree, NodeStates
<1>2. now[x] = v /\ \A y \in Nodes : y # x => now[y] = st[y]
  BY DEF Tree
<1> HIDE DEF now
<1>3. \A y \in Nodes : now[y] # "idle" <=> st[y] # "idle"
  BY <1>2
<1>4. Laminar(now)
  BY <1>3 DEF Tree, Laminar
<1>5. NodesAreAligned(now)
  BY <1>3 DEF Tree, NodesAreAligned
<1>6. ForksAreWide(now)
  BY <1>2 DEF Tree, ForksAreWide
<1>7. FreshIsLowest(now)
  <2>1. \A y \in Nodes : now[y] \in Fresh => st[y] \in Fresh
    BY <1>2 DEF Fresh
  <2>2. \A y \in Nodes : st[y] = "idle" => now[y] = "idle"
    BY <1>3
  <2> QED BY <2>1, <2>2 DEF Tree, FreshIsLowest
<1>8. \A y \in Nodes : v = "done" /\ st[y] # "idle" /\ Inside(y, x) => y = x \/ st[y] = "done"
  <2> SUFFICES ASSUME NEW y \in Nodes, v = "done", st[y] # "idle", Inside(y, x), y # x
               PROVE  st[y] = "done"
    OBVIOUS
  <2>1. st[x] # "run"
    BY DEF Tree, FreshIsLowest, Fresh
  <2>2. st[x] = "join" /\ st[Left(x)] = "done" /\ st[Right(x)] = "done" /\ x[2] > 1
    BY <2>1 DEF Tree, ForksAreWide
  <2>3. Inside(y, Left(x)) \/ Inside(y, Right(x))
    BY <2>2 DEF Tree, HalvesAreCalled
  <2>4. Left(x) \in Nodes /\ Right(x) \in Nodes
    BY <2>2, Halves
  <2> QED BY <2>2, <2>3, <2>4 DEF Tree, DoneIsWhole
<1>9. DoneIsWhole(now)
  <2> SUFFICES ASSUME NEW y \in Nodes, NEW z \in Nodes, now[y] = "done", Inside(z, y)
               PROVE  now[z] \in {"idle", "done"}
    BY DEF DoneIsWhole
  <2>1. CASE y = x
    BY <1>2, <1>3, <1>8, <2>1
  <2>2. CASE y # x
    BY <1>2, <2>2 DEF Tree, DoneIsWhole
  <2> QED BY <2>1, <2>2
<1>10. HalvesAreCalled(now)
  <2>1. \A y \in Nodes : y[2] > 1 /\ now[y] \in {"join", "done"} => st[y] \in {"join", "done"}
    BY <1>2
  <2>2. \A y \in Nodes : y[2] > 1 => Left(y) \in Nodes /\ Right(y) \in Nodes
    BY Halves
  <2> QED BY <1>3, <2>1, <2>2 DEF Tree, HalvesAreCalled
<1>11. Tree(now)
  BY <1>1, <1>4, <1>5, <1>6, <1>7, <1>9, <1>10 DEF Tree
<1> QED BY <1>11 DEF now
-------------------------------------------------------------------------------
(* When a sweep has returned, the node that ends before tile j and whose length *)
(* is the lowest power of two in j is in its tree, for every j.                 *)
SumNode(j) == <<ClearLowest(j), j - ClearLowest(j)>>

LEMMA SumNodeOf ==
  ASSUME tiles \in Nat, NEW x \in Nodes, IsPow2(x[2]),
         x[1] = 0 \/ \E b \in 1..x[1] : IsPow2(b) /\ x[2] < b /\ Divides(b, x[1])
  PROVE  SumNode(x[1] + x[2]) = x
<1> DEFINE i == x[1]
           s == x[2]
<1>1. i \in Nat /\ s \in Nat \ {0} /\ x = <<i, s>>
  BY NodeIs
<1> HIDE DEF i, s
<1>2. \E w \in Nat : i = (2 * s) * w
  <2>1. CASE i = 0
    <3>1. 0 \in Nat /\ i = (2 * s) * 0
      BY <1>1, <2>1
    <3> QED BY <3>1
  <2>2. CASE i # 0
    <3>1. PICK b \in 1..i : IsPow2(b) /\ s < b /\ Divides(b, i)
      BY <2>2 DEF i, s
    <3>2. PICK q \in 0..i : i = b * q
      BY <3>1 DEF Divides
    <3> DEFINE d == 2 * s
    <3>3. d \in Nat \ {0} /\ d <= b /\ IsPow2(d) /\ b \in Nat \ {0}
      BY <1>1, <3>1, Pow2Gap, Pow2Double DEF s
    <3> HIDE DEF d
    <3>4. PICK e \in Nat \ {0} : b = d * e
      BY <3>1, <3>3, Pow2Divides
    <3>5. e * q \in Nat /\ i = d * (e * q)
      BY <1>1, <3>2, <3>3, <3>4
    <3> QED BY <3>5 DEF d
  <2> QED BY <2>1, <2>2
<1>3. PICK w \in Nat : i = (2 * s) * w
  BY <1>2
<1>4. ClearLowest(i + s) = i
  <2>1. ClearLowest((2 * s) * w + s) = (2 * s) * w
    BY <1>1, ClearLowestOf DEF s
  <2> QED BY <1>3, <2>1
<1>5. i + s - i = s
  BY <1>1
<1> QED BY <1>1, <1>4, <1>5 DEF SumNode, i, s

LEMMA SumNodesAreDone ==
  ASSUME tiles \in Nat \ {0}, NEW st, Tree(st), st[Root] = "done", NEW j \in 1..tiles
  PROVE  SumNode(j) \in Nodes /\ st[SumNode(j)] = "done"
<1> DEFINE Full(q) == SumNode(q) \in Nodes /\ st[SumNode(q)] = "done"
           Wide(x) == x[1] = 0 \/ \E b \in 1..x[1] : IsPow2(b) /\ x[2] < b /\ Divides(b, x[1])
           S == {m \in Nat : \A x \in Nodes : x[2] <= m /\ st[x] = "done" =>
                               /\ \A q \in (x[1] + 1)..(x[1] + x[2] - 1) : Full(q)
                               /\ Wide(x) => Full(x[1] + x[2])}
<1>1. 0 \in S
  BY NodeIs
<1>2. ASSUME NEW m \in Nat, m \in S PROVE m + 1 \in S
  <2> SUFFICES ASSUME NEW x \in Nodes, x[2] <= m + 1, st[x] = "done"
               PROVE  /\ \A q \in (x[1] + 1)..(x[1] + x[2] - 1) : Full(q)
                      /\ Wide(x) => Full(x[1] + x[2])
    OBVIOUS
  <2>1. x[1] \in Nat /\ x[2] \in Nat \ {0} /\ Aligned(x)
    BY NodeIs DEF Tree, NodesAreAligned
  <2>2. IsPow2(x[2]) /\ Wide(x) => Full(x[1] + x[2])
    BY SumNodeOf
  <2>3. CASE x[2] = 1
    <3>1. IsPow2(x[2])
      BY <2>3, OneIsPow2
    <3> HIDE DEF Full, Wide
    <3> QED BY <2>1, <2>2, <2>3, <3>1
  <2>4. CASE x[2] > 1
    <3> DEFINE L == Left(x)
               R == Right(x)
    <3>1. /\ L \in Nodes /\ R \in Nodes /\ L[1] = x[1] /\ R[1] = x[1] + L[2] /\ R[2] = x[2] - L[2]
          /\ L[2] \in Nat \ {0} /\ R[2] \in Nat \ {0} /\ R[2] <= L[2] /\ IsPow2(L[2])
          /\ Inside(L, x) /\ Inside(R, x) /\ L[2] = Split(x[2])
      BY <2>4, Halves, NodeIs
    <3>2. Divides(L[2], R[1])
      BY <2>1, <2>4, HalvesAreAligned
    <3>3. st[L] = "done" /\ st[R] = "done"
      BY <2>4, <3>1 DEF Tree, HalvesAreCalled, DoneIsWhole
    <3> HIDE DEF L, R
    <3>4. L[2] <= m /\ R[2] <= m
      BY <2>1, <3>1
    <3>5. /\ \A q \in (L[1] + 1)..(L[1] + L[2] - 1) : Full(q)
          /\ \A q \in (R[1] + 1)..(R[1] + R[2] - 1) : Full(q)
          /\ Wide(R) => Full(R[1] + R[2])
      BY <1>2, <3>1, <3>3, <3>4
    <3>6. Full(L[1] + L[2])
      <4>1. Wide(L)
        BY <2>1, <2>4, <3>1 DEF Aligned
      <4>2. SumNode(L[1] + L[2]) = L
        BY <3>1, <4>1, SumNodeOf
      <4> QED BY <3>1, <3>3, <4>2
    <3>7. Wide(x) => Full(x[1] + x[2])
      <4>1. CASE IsPow2(x[2])
        BY <2>2, <4>1
      <4>2. CASE ~IsPow2(x[2])
        <5>1. R[2] < L[2]
          <6>1. x[2] # 2 * Split(x[2])
            BY <2>1, <2>4, <4>2, SplitOfPow2
          <6> QED BY <2>1, <3>1, <6>1
        <5>2. L[2] \in 1..R[1]
          BY <2>1, <3>1
        <5>3. Wide(R)
          BY <3>1, <3>2, <5>1, <5>2
        <5>4. R[1] + R[2] = x[1] + x[2]
          BY <2>1, <3>1
        <5> HIDE DEF Full, Wide
        <5> QED BY <3>5, <5>3, <5>4
      <4> QED BY <4>1, <4>2
    <3>8. ASSUME NEW q \in (x[1] + 1)..(x[1] + x[2] - 1) PROVE Full(q)
      <4> HIDE DEF Full, Wide
      <4>1. \/ q \in (L[1] + 1)..(L[1] + L[2] - 1)
            \/ q = L[1] + L[2]
            \/ q \in (R[1] + 1)..(R[1] + R[2] - 1)
        BY <2>1, <3>1
      <4> QED BY <3>5, <3>6, <4>1
    <3> HIDE DEF Full, Wide
    <3> QED BY <3>7, <3>8
  <2> HIDE DEF Full, Wide
  <2> QED BY <2>1, <2>3, <2>4
<1> HIDE DEF S
<1>3. tiles \in S
  BY <1>1, <1>2, Induction
<1>4. Root \in Nodes /\ Root[1] = 0 /\ Root[2] = tiles
  BY IsNode DEF Root
<1>5. Wide(Root)
  BY <1>4
<1>6. (\A q \in 1..(tiles - 1) : Full(q)) /\ Full(tiles)
  <2> HIDE DEF Full, Wide
  <2>1. /\ \A q \in (0 + 1)..(0 + tiles - 1) : Full(q)
        /\ Wide(Root) => Full(0 + tiles)
    BY <1>3, <1>4 DEF S
  <2> QED BY <1>5, <2>1
<1>7. j \in 1..(tiles - 1) \/ j = tiles
  OBVIOUS
<1> QED BY <1>6, <1>7

LEMMA LeavesAreDone ==
  ASSUME tiles \in Nat \ {0}, NEW st, Tree(st), st[Root] = "done", NEW j \in Tiles
  PROVE  <<j, 1>> \in Nodes /\ st[<<j, 1>>] = "done"
<1> DEFINE S == {m \in Nat : \A x \in Nodes : x[2] <= m /\ st[x] = "done" =>
                               \A q \in x[1]..(x[1] + x[2] - 1) : st[<<q, 1>>] = "done"}
<1>1. 0 \in S
  BY NodeIs
<1>2. ASSUME NEW m \in Nat, m \in S PROVE m + 1 \in S
  <2> SUFFICES ASSUME NEW x \in Nodes, x[2] <= m + 1, st[x] = "done",
                      NEW q \in x[1]..(x[1] + x[2] - 1)
               PROVE  st[<<q, 1>>] = "done"
    OBVIOUS
  <2>1. x[1] \in Nat /\ x[2] \in Nat \ {0} /\ x = <<x[1], x[2]>>
    BY NodeIs
  <2>2. CASE x[2] = 1
    <3>1. q = x[1]
      BY <2>1, <2>2
    <3>2. <<q, 1>> = x
      BY <2>1, <2>2, <3>1
    <3> QED BY <3>2
  <2>3. CASE x[2] > 1
    <3> DEFINE L == Left(x)
               R == Right(x)
    <3>1. /\ L \in Nodes /\ R \in Nodes /\ L[1] = x[1] /\ R[1] = x[1] + L[2] /\ R[2] = x[2] - L[2]
          /\ L[2] \in Nat \ {0} /\ R[2] \in Nat \ {0} /\ Inside(L, x) /\ Inside(R, x)
      BY <2>3, Halves, NodeIs
    <3>2. st[L] = "done" /\ st[R] = "done"
      BY <2>3, <3>1 DEF Tree, HalvesAreCalled, DoneIsWhole
    <3> HIDE DEF L, R
    <3>3. L[2] <= m /\ R[2] <= m
      BY <2>1, <3>1
    <3>4. q \in L[1]..(L[1] + L[2] - 1) \/ q \in R[1]..(R[1] + R[2] - 1)
      BY <2>1, <3>1
    <3> QED BY <1>2, <3>1, <3>2, <3>3, <3>4
  <2> QED BY <2>1, <2>2, <2>3
<1> HIDE DEF S
<1>3. tiles \in S
  BY <1>1, <1>2, Induction
<1>4. Root \in Nodes /\ Root[1] = 0 /\ Root[2] = tiles
  BY IsNode DEF Root
<1>5. \A q \in Root[1]..(Root[1] + Root[2] - 1) : st[<<q, 1>>] = "done"
  <2>1. Root[2] <= tiles
    BY <1>4
  <2> QED BY <1>3, <1>4, <2>1 DEF S
<1>6. j \in Root[1]..(Root[1] + Root[2] - 1)
  BY <1>4 DEF Tiles
<1>7. <<j, 1>> \in Nodes
  BY IsNode DEF Tiles
<1> QED BY <1>5, <1>6, <1>7
-------------------------------------------------------------------------------
(* The sums the second half of the scan reads. A full node that another full    *)
(* node of the same end contains has been added to it; the others are in r.     *)
LEMMA FullNodeIsMultiple ==
  ASSUME tiles \in Nat, NEW x \in Nodes, Aligned(x), IsPow2(x[2])
  PROVE  \E w \in Nat : x[1] + x[2] = x[2] * w
<1> DEFINE i == x[1]
           m == x[2]
<1>1. i \in Nat /\ m \in Nat \ {0} /\ IsPow2(m)
  BY NodeIs
<1>2. \E w \in Nat : i = m * w
  <2>1. CASE i = 0
    <3> HIDE DEF m
    <3>1. 0 \in Nat /\ i = m * 0
      BY <1>1, <2>1
    <3> QED BY <3>1
  <2>2. CASE i # 0
    <3>1. PICK b \in 1..i : IsPow2(b) /\ m <= b /\ Divides(b, i)
      BY <2>2 DEF Aligned
    <3>2. PICK q \in 0..i : i = b * q
      BY <3>1 DEF Divides
    <3> HIDE DEF i, m
    <3>3. b \in Nat \ {0}
      OBVIOUS
    <3>4. PICK e \in Nat \ {0} : b = m * e
      BY <1>1, <3>1, <3>3, Pow2Divides
    <3>5. e * q \in Nat /\ i = m * (e * q)
      BY <1>1, <3>2, <3>4
    <3> QED BY <3>5
  <2> QED BY <2>1, <2>2
<1> HIDE DEF i, m
<1>3. PICK w \in Nat : i = m * w
  BY <1>2
<1>4. i + m = m * (w + 1) /\ w + 1 \in Nat
  BY <1>1, <1>3
<1> QED BY <1>4 DEF i, m

LEMMA ChainSum ==
  ASSUME Phase, Trees, SlotsHoldSums, tiles > 0, up[Root] = "done", NEW j \in 1..tiles
  PROVE  r[j - 1] = <<ClearLowest(j) * tilesize, TileEnd(j)>>
<1> DEFINE x == SumNode(j)
<1>1. tiles \in Nat \ {0} /\ Tree(up)
  BY DEF Phase, Trees
<1>2. x \in Nodes /\ up[x] = "done"
  BY <1>1, SumNodesAreDone
<1>3. PICK d \in 1..j : /\ IsPow2(d) /\ ClearLowest(j) = j - d
                        /\ \E q \in 0..j : j = d * (2 * q + 1)
  <2>1. j \in Nat \ {0}
    BY <1>1
  <2> HIDE DEF x
  <2> QED BY <2>1, ClearLowestIs
<1>4. x[1] = j - d /\ x[2] = d /\ LastSlot(x) = j - 1 /\ x[1] + x[2] = j
  <2>1. d \in Nat /\ j \in Nat /\ j - (j - d) = d /\ j - d + d - 1 = j - 1 /\ j - d + d = j
    OBVIOUS
  <2>2. x = <<j - d, d>>
    BY <1>3, <2>1 DEF SumNode
  <2> HIDE DEF x
  <2>3. x[1] = j - d /\ x[2] = d
    BY <2>2
  <2> QED BY <2>1, <2>3 DEF LastSlot
<1> HIDE DEF x
<1>5. ASSUME NEW y \in Nodes, up[y] = "done", IsPow2(y[2]), y # x, Inside(x, y), LastSlot(y) = j - 1
      PROVE  FALSE
  <2>1. y[1] \in Nat /\ y[2] \in Nat \ {0} /\ Aligned(y)
    BY <1>1, <1>5, NodeIs DEF Tree, NodesAreAligned
  <2>2. y[1] + y[2] = j
    BY <1>5, <2>1 DEF LastSlot
  <2>3. PICK w \in Nat : j = y[2] * w
    BY <1>1, <1>5, <2>1, <2>2, FullNodeIsMultiple
  <2>4. PICK q \in 0..j : j = d * (2 * q + 1)
    BY <1>3
  <2>5. y[2] <= d
    <3> DEFINE m == y[2]
    <3>1. m \in Nat \ {0} /\ IsPow2(m) /\ d * (2 * q + 1) = m * w /\ d \in Nat \ {0} /\ q \in Nat
      BY <1>5, <2>1, <2>3, <2>4
    <3> HIDE DEF m
    <3>2. m <= d
      BY <1>3, <3>1, LowestBound
    <3> QED BY <3>2 DEF m
  <2>6. y[1] = x[1] /\ y[2] = x[2]
    BY <1>4, <1>5, <2>1, <2>2, <2>5 DEF Inside
  <2> QED BY <1>1, <1>2, <1>5, <2>6, SameNode
<1>6. r[LastSlot(x)] = NodeSum(x)
  BY <1>2, <1>3, <1>4, <1>5 DEF SlotsHoldSums
<1> QED BY <1>3, <1>4, <1>6 DEF NodeSum

\* The sum of a first half stays in its last slot as long as its node exists.
LEMMA LeftHalfSum ==
  ASSUME Phase, Trees, SlotsHoldSums, tiles > 0, NEW x \in Nodes, x[2] > 1,
         up[x] \in {"join", "done"}, up[Left(x)] = "done"
  PROVE  r[LastSlot(Left(x))] = NodeSum(Left(x))
<1> DEFINE L == Left(x)
<1>1. tiles \in Nat \ {0} /\ Tree(up)
  BY DEF Phase, Trees
<1>2. /\ L \in Nodes /\ Right(x) \in Nodes /\ L[1] = x[1] /\ Inside(L, x) /\ IsPow2(L[2]) /\ L # x
      /\ Right(x)[1] = L[1] + L[2] /\ L[2] < x[2]
      /\ x[1] \in Nat /\ x[2] \in Nat /\ L[2] \in Nat \ {0}
  BY <1>1, Halves, NodeIs
<1>3. \A y \in Nodes : up[y] # "idle" /\ Inside(y, x) => y = x \/ Inside(y, L) \/ Inside(y, Right(x))
  BY DEF Trees, Tree, HalvesAreCalled
<1> HIDE DEF L
<1>4. ASSUME NEW y \in Nodes, up[y] = "done", y # L, Inside(L, y), LastSlot(y) = LastSlot(L)
      PROVE  FALSE
  <2>1. y[1] \in Nat /\ y[2] \in Nat \ {0} /\ y[1] + y[2] = L[1] + L[2]
    <3>1. y[1] \in Nat /\ y[2] \in Nat \ {0}
      BY <1>1, NodeIs
    <3> QED BY <1>2, <1>4, <3>1 DEF LastSlot
  <2>2. Inside(y, x) \/ Inside(x, y) \/ Apart(x, y)
    BY <1>1, <1>4 DEF Tree, Laminar
  <2>3. ~Inside(x, y) /\ ~Apart(x, y)
    BY <1>2, <1>4, <2>1 DEF Inside, Apart
  <2>4. y # x
    BY <1>2, <2>1
  <2>5. Inside(y, L) \/ Inside(y, Right(x))
    BY <1>3, <1>4, <2>2, <2>3, <2>4
  <2>6. Inside(y, L)
    <3>1. Right(x)[2] \in Nat \ {0}
      BY <1>1, <1>2, NodeIs
    <3> QED BY <1>2, <2>1, <2>5, <3>1 DEF Inside
  <2> QED BY <1>1, <1>2, <1>4, <2>6, InsideTransitive
<1> QED BY <1>2, <1>4 DEF SlotsHoldSums, L

LEMMA TreesKept ==
  ASSUME tiles' = tiles
  PROVE  /\ Nodes' = Nodes /\ Tiles' = Tiles /\ Root' = Root
         /\ Tree(up)' <=> Tree(up')
         /\ Tree(down)' <=> Tree(down')
<1>1. Nodes' = Nodes /\ Tiles' = Tiles /\ Root' = Root
  BY DEF Nodes, Tiles, Root
<1>2. Tree(up)' <=> Tree(up')
  BY <1>1 DEF Tree, Laminar, FreshIsLowest, DoneIsWhole, HalvesAreCalled, ForksAreWide, NodesAreAligned,
              Aligned, Inside, Apart, Left, Right
<1>3. Tree(down)' <=> Tree(down')
  BY <1>1 DEF Tree, Laminar, FreshIsLowest, DoneIsWhole, HalvesAreCalled, ForksAreWide, NodesAreAligned,
              Aligned, Inside, Apart, Left, Right
<1> QED BY <1>1, <1>2, <1>3
-------------------------------------------------------------------------------
(* The parts of the invariant after a step of the sweeps, which leaves the      *)
(* range and its tiles alone.                                                  *)
LEMMA BagGrows ==
  ASSUME NEW B, NEW e
  PROVE  DOMAIN BagAdd(B, e) = DOMAIN B \cup {e}
BY DEF BagAdd

LEMMA TreesAfter ==
  ASSUME tiles' = tiles, tiles > 0,
         Tree(up'), Tree(down'), up'[Root] # "idle", down'[Root] # "idle" <=> pc' \in {"down", "done"},
         pc' \in {"up", "fold", "apex"} => \A x \in Nodes : down'[x] = "idle",
         pc' # "up" => up'[Root] = "done",
         pc' = "done" => down'[Root] = "done",
         \A x \in Nodes : up'[x] # "argument" /\ (down'[x] # "idle" => up'[x] = "done")
  PROVE  Trees'
BY TreesKept DEF Trees

LEMMA LayoutKept ==
  ASSUME n' = n, tiles' = tiles, tilesize' = tilesize
  PROVE  /\ \A j : TileEnd(j)' = TileEnd(j) /\ Tile(j)' = Tile(j)
         /\ \A x : NodeSum(x)' = NodeSum(x)
BY DEF TileEnd, Tile, NodeSum

LEMMA SizesAfter ==
  ASSUME n' = n, tiles' = tiles, tilesize' = tilesize, DOMAIN lastsize' = Nodes,
         pc' = "up" => \A x \in Nodes : up'[x] # "idle" => lastsize'[x] = Tile(LastSlot(x))[2],
         pc' = "down" => \A x \in Nodes : down'[x] # "idle" => lastsize'[x] = Tile(LastSlot(x))[2]
  PROVE  Sizes'
BY TreesKept, LayoutKept DEF Sizes

LEMMA SlotsAfter ==
  ASSUME n' = n, tiles' = tiles, tilesize' = tilesize, DOMAIN r' = Tiles,
         \A x \in Nodes : up'[x] = "done" /\ IsPow2(x[2]) =>
           \/ r'[LastSlot(x)] = NodeSum(x)
           \/ \E y \in Nodes : /\ up'[y] = "done" /\ IsPow2(y[2]) /\ y # x
                               /\ Inside(x, y) /\ LastSlot(y) = LastSlot(x)
  PROVE  SlotsHoldSums'
BY TreesKept, LayoutKept DEF SlotsHoldSums

LEMMA PrefixesAfter ==
  ASSUME tiles' = tiles, tilesize' = tilesize, DOMAIN initial' = Nodes,
         pc' # "down" /\ pc' # "done" => \A x \in Nodes : initial'[x] = InitialSum,
         \A x \in Nodes :
           /\ down'[x] \in {"run", "join", "done"} => initial'[x] = <<-1, x[1] * tilesize>>
           /\ down'[x] = "argument" =>
                /\ x[1] > 0
                /\ \E i \in 0..x[1] : /\ initial'[x] = <<-1, i * tilesize>>
                                      /\ r'[x[1] - 1] = <<i * tilesize, x[1] * tilesize>>
  PROVE  Prefixes'
BY TreesKept DEF Prefixes

LEMMA CallsAfter ==
  ASSUME n' = n, tiles' = tiles, tilesize' = tilesize, tiles > 0,
         total' = IF pc' \in {"up", "fold", "apex"} THEN Bad ELSE <<-1, n>>,
         pc' \in {"up", "fold", "apex", "down", "done"},
         \A b \in DOMAIN reduced' : \E j \in Tiles : up'[<<j, 1>>] = "done" /\ b = Tile(j),
         \A b \in DOMAIN scanned' : \E j \in Tiles : down'[<<j, 1>>] = "done" /\ b = ScanCall(j),
         \A j \in Tiles : /\ up'[<<j, 1>>] = "done" => Tile(j) \in DOMAIN reduced'
                          /\ down'[<<j, 1>>] = "done" => ScanCall(j) \in DOMAIN scanned'
  PROVE  Calls'
<1>1. Tiles' = Tiles /\ \A j : Tile(j)' = Tile(j) /\ ScanCall(j)' = ScanCall(j)
  BY TreesKept, LayoutKept DEF ScanCall
<1>2. TotalIsSum'
  BY DEF TotalIsSum
<1>3. TreeCalls'
  <2>1. (\A b \in DOMAIN reduced : \E j \in Tiles : up[<<j, 1>>] = "done" /\ b = Tile(j))'
    BY <1>1
  <2>2. (\A b \in DOMAIN scanned : \E j \in Tiles : down[<<j, 1>>] = "done" /\ b = ScanCall(j))'
    BY <1>1
  <2>3. (\A j \in Tiles : /\ up[<<j, 1>>] = "done" => Tile(j) \in DOMAIN reduced
                          /\ down[<<j, 1>>] = "done" => ScanCall(j) \in DOMAIN scanned)'
    BY <1>1
  <2> QED BY <2>1, <2>2, <2>3 DEF TreeCalls
<1>4. tiles' # 0
  OBVIOUS
<1> QED BY <1>2, <1>3, <1>4 DEF Calls

LEMMA UpIsUp ==
  ASSUME IInv, NEW x \in Nodes, up[x] \in {"run", "join"}
  PROVE  tiles \in Nat \ {0} /\ pc = "up" /\ Tree(up) /\ Tree(down)
<1>1. tiles \in Nat \ {0}
  BY NodeIs DEF IInv, Phase
<1>2. up[Root] # "done"
  BY <1>1, InsideRoot DEF IInv, Trees, Tree, DoneIsWhole
<1> QED BY <1>1, <1>2 DEF IInv, Trees

LEMMA DownIsDown ==
  ASSUME IInv, NEW x \in Nodes, down[x] \in {"run", "argument", "join"}
  PROVE  tiles \in Nat \ {0} /\ pc = "down" /\ Tree(up) /\ Tree(down) /\ up[Root] = "done"
<1>1. tiles \in Nat \ {0}
  BY NodeIs DEF IInv, Phase
<1>2. down[Root] # "done"
  BY <1>1, InsideRoot DEF IInv, Trees, Tree, DoneIsWhole
<1>3. pc \notin {"up", "fold", "apex", "done"}
  BY <1>1, <1>2 DEF IInv, Trees
<1> QED BY <1>1, <1>3 DEF IInv, Trees, Phase
LEMMA TileIs ==
  ASSUME Phase, tiles > 0, NEW j \in Tiles
  PROVE  /\ tiles \in Nat \ {0} /\ tilesize \in Nat \ {0} /\ n \in Nat
         /\ j * tilesize \in Nat /\ j * tilesize < n
         /\ TileEnd(j + 1) \in Nat /\ TileEnd(j + 1) <= n /\ TileEnd(j + 1) <= j * tilesize + tilesize
         /\ Tile(j) = <<j * tilesize, TileEnd(j + 1) - j * tilesize>>
         /\ TileEnd(j + 1) - j * tilesize > 0
<1>1. /\ tiles \in Nat \ {0} /\ tilesize \in Nat \ {0} /\ n \in Nat
      /\ (tiles - 1) * tilesize < n /\ n <= tiles * tilesize
  BY DEF Phase
<1> DEFINE jt == j * tilesize
           last == (tiles - 1) * tilesize
<1>2. jt \in Nat /\ last \in Nat /\ (j + 1) * tilesize = jt + tilesize /\ tiles * tilesize = last + tilesize
  BY <1>1 DEF Tiles
<1>3. jt <= last
  <2>1. j \in Nat /\ j <= tiles - 1
    BY <1>1 DEF Tiles
  <2> QED BY <1>1, <2>1
<1>4. j + 1 # tiles => jt + tilesize <= last
  <2>1. j \in Nat /\ (j + 1 # tiles => j + 1 <= tiles - 1)
    BY <1>1 DEF Tiles
  <2>2. j + 1 # tiles => (j + 1) * tilesize <= (tiles - 1) * tilesize
    BY <1>1, <2>1
  <2> QED BY <1>2, <2>2
<1>5. j + 1 = tiles => jt = last
  BY <1>1 DEF Tiles
<1>6. TileEnd(j + 1) = IF j + 1 = tiles THEN n ELSE jt + tilesize
  BY <1>2 DEF TileEnd
<1>7. Tile(j) = <<jt, TileEnd(j + 1) - jt>>
  BY DEF Tile
<1> HIDE DEF jt, last
<1>8. /\ jt \in Nat /\ jt < n /\ TileEnd(j + 1) \in Nat /\ TileEnd(j + 1) <= n
      /\ TileEnd(j + 1) <= jt + tilesize /\ TileEnd(j + 1) - jt > 0
  BY <1>1, <1>2, <1>3, <1>4, <1>5, <1>6
<1> QED BY <1>1, <1>7, <1>8 DEF jt

\* What a step of the first sweep leaves to show.
LEMMA UpKeeps ==
  ASSUME IInv, tiles > 0, pc = "up", Tree(up'), \A x \in Nodes : up[x] # "idle" => up'[x] # "idle",
         \A x \in Nodes : up'[x] # "argument",
         UNCHANGED <<setup, pc, layout, down, initial, fold, total, scanned>>,
         DOMAIN lastsize' = Nodes,
         \A x \in Nodes : up'[x] # "idle" => lastsize'[x] = Tile(LastSlot(x))[2],
         SlotsHoldSums',
         \A b \in DOMAIN reduced' : \E j \in Tiles : up'[<<j, 1>>] = "done" /\ b = Tile(j),
         \A j \in Tiles : up'[<<j, 1>>] = "done" => Tile(j) \in DOMAIN reduced'
  PROVE  IInv'
<1> USE DEF IInv, setup, layout, fold
<1>1. tiles \in Nat \ {0} /\ Root \in Nodes
  BY IsNode DEF Phase, Root
<1>2. Phase'
  BY DEF Phase
<1>3. Trees'
  <2>1. Tree(down') /\ (\A x \in Nodes : down'[x] = "idle") /\ up[Root] # "idle"
    BY DEF Trees
  <2> QED BY <1>1, <2>1, TreesAfter
<1>4. Sizes'
  BY SizesAfter
<1>5. FoldedSum'
  BY DEF FoldedSum
<1>6. Prefixes'
  <2>1. \A x \in Nodes : down[x] = "idle"
    BY DEF Trees
  <2>2. DOMAIN initial = Nodes /\ \A x \in Nodes : initial[x] = InitialSum
    BY DEF Prefixes
  <2> QED BY <2>1, <2>2, PrefixesAfter
<1>7. Calls'
  <2>1. /\ total = Bad
        /\ \A b \in DOMAIN scanned : \E j \in Tiles : down[<<j, 1>>] = "done" /\ b = ScanCall(j)
        /\ \A j \in Tiles : down[<<j, 1>>] = "done" => ScanCall(j) \in DOMAIN scanned
    BY <1>1 DEF Calls, TotalIsSum, TreeCalls
  <2> QED BY <2>1, CallsAfter
<1> QED BY <1>2, <1>3, <1>4, <1>5, <1>6, <1>7

LEMMA UpLeafIInv ==
  ASSUME IInv, NEW x \in Nodes, UpLeaf(x)
  PROVE  IInv'
<1> USE DEF UpLeaf
<1>1. tiles \in Nat \ {0} /\ pc = "up" /\ Tree(up) /\ Phase
  BY UpIsUp DEF IInv
<1>2. /\ x[1] \in Tiles /\ LastSlot(x) = x[1] /\ x = <<x[1], 1>>
      /\ r' = [r EXCEPT ![x[1]] = <<x[1] * tilesize, x[1] * tilesize + lastsize[x]>>]
      /\ reduced' = BagAdd(reduced, <<x[1] * tilesize, lastsize[x]>>)
  BY <1>1, NodeIs DEF LastSlot
<1>3. up'[x] = "done" /\ \A y \in Nodes : y # x => up'[y] = up[y]
  BY <1>1 DEF Tree
<1>4. lastsize[x] = Tile(x[1])[2]
  BY <1>1, <1>2 DEF IInv, Sizes
<1>5. /\ Tile(x[1]) = <<x[1] * tilesize, lastsize[x]>>
      /\ NodeSum(x) = <<x[1] * tilesize, x[1] * tilesize + lastsize[x]>>
  <2> DEFINE lo == x[1] * tilesize
             hi == TileEnd(x[1] + 1)
  <2>1. lo \in Nat /\ hi \in Nat /\ Tile(x[1]) = <<lo, hi - lo>>
    BY <1>1, <1>2, TileIs
  <2>2. NodeSum(x) = <<lo, hi>>
    BY <1>2 DEF NodeSum
  <2> HIDE DEF lo, hi
  <2>3. lastsize[x] = hi - lo
    BY <1>4, <2>1
  <2>4. hi = lo + lastsize[x]
    BY <2>1, <2>3
  <2> QED BY <2>1, <2>2, <2>3, <2>4 DEF lo
<1>6. Tree(up')
  BY <1>1, TreeAdvances
<1>7. SlotsHoldSums'
  <2>1. DOMAIN r = Tiles /\ DOMAIN r' = Tiles /\ r'[x[1]] = NodeSum(x)
    BY <1>1, <1>2, <1>5 DEF IInv, SlotsHoldSums
  <2>2. ASSUME NEW y \in Nodes, y # x, up[y] = "done" PROVE LastSlot(y) # x[1]
    <3>1. ~Inside(x, y)
      BY <1>1, <2>2 DEF Tree, DoneIsWhole
    <3>2. ~Inside(y, x)
      BY <1>1, <2>2 DEF Tree, FreshIsLowest, Fresh
    <3>3. Apart(x, y)
      BY <1>1, <2>2, <3>1, <3>2 DEF Tree, Laminar
    <3>4. y[1] \in Nat /\ y[2] \in Nat \ {0} /\ x[1] \in Nat /\ x[2] = 1
      BY <1>1, NodeIs
    <3> QED BY <3>3, <3>4 DEF Apart, LastSlot
  <2>3. \A y \in Nodes : y # x /\ up[y] = "done" => r'[LastSlot(y)] = r[LastSlot(y)]
    BY <1>1, <1>2, <2>1, <2>2, NodeIs
  <2> SUFFICES ASSUME NEW y \in Nodes, up'[y] = "done", IsPow2(y[2])
               PROVE  \/ r'[LastSlot(y)] = NodeSum(y)
                      \/ \E z \in Nodes : /\ up'[z] = "done" /\ IsPow2(z[2]) /\ z # y
                                          /\ Inside(y, z) /\ LastSlot(z) = LastSlot(y)
    BY <2>1, SlotsAfter DEF layout, setup
  <2>4. CASE y = x
    BY <1>2, <2>1, <2>4
  <2>5. CASE y # x
    <3>1. up[y] = "done"
      BY <1>3, <2>5
    <3>2. \/ r[LastSlot(y)] = NodeSum(y)
          \/ \E z \in Nodes : /\ up[z] = "done" /\ IsPow2(z[2]) /\ z # y
                              /\ Inside(y, z) /\ LastSlot(z) = LastSlot(y)
      BY <1>1, <3>1 DEF IInv, SlotsHoldSums
    <3>3. \A z \in Nodes : up[z] = "done" => up'[z] = "done"
      BY <1>3
    <3>4. r'[LastSlot(y)] = r[LastSlot(y)]
      BY <2>3, <2>5, <3>1
    <3> HIDE DEF UpLeaf
    <3> QED BY <3>2, <3>3, <3>4
  <2> QED BY <2>4, <2>5
<1>8. DOMAIN reduced' = DOMAIN reduced \cup {Tile(x[1])}
  <2>1. reduced' = BagAdd(reduced, Tile(x[1]))
    BY <1>2, <1>5
  <2> HIDE DEF UpLeaf
  <2> QED BY <2>1, BagGrows
<1>9. TreeCalls
  BY <1>1 DEF IInv, Calls
<1>10. \A b \in DOMAIN reduced' : \E j \in Tiles : up'[<<j, 1>>] = "done" /\ b = Tile(j)
  <2>1. \A j \in Tiles : up[<<j, 1>>] = "done" => up'[<<j, 1>>] = "done"
    BY <1>1, <1>3, LeafIs
  <2> QED BY <1>2, <1>3, <1>8, <1>9, <2>1 DEF TreeCalls
<1>11. \A j \in Tiles : up'[<<j, 1>>] = "done" => Tile(j) \in DOMAIN reduced'
  <2>1. \A j \in Tiles : <<j, 1>> \in Nodes
    BY <1>1, LeafIs
  <2>2. \A j \in Tiles : <<j, 1>> = x => j = x[1]
    BY <1>2
  <2> QED BY <1>3, <1>8, <1>9, <2>1, <2>2 DEF TreeCalls
<1>12. DOMAIN lastsize' = Nodes /\ \A y \in Nodes : up'[y] # "idle" => lastsize'[y] = Tile(LastSlot(y))[2]
  BY <1>1, <1>3 DEF IInv, Sizes
<1>13. \A y \in Nodes : (up[y] # "idle" => up'[y] # "idle") /\ up'[y] # "argument"
  BY <1>1, <1>3 DEF IInv, Trees
<1>14. tiles > 0
  BY <1>1
<1> QED BY <1>1, <1>6, <1>7, <1>10, <1>11, <1>12, <1>13, <1>14, UpKeeps

LEMMA HalvesEnd ==
  ASSUME Phase, tiles > 0, NEW x \in Nodes, x[2] > 1
  PROVE  /\ Tile(LastSlot(Left(x)))[2] = tilesize /\ LastSlot(Right(x)) = LastSlot(x)
         /\ LastSlot(Left(x)) = Right(x)[1] - 1 /\ LastSlot(Left(x)) # LastSlot(x)
<1>1. tiles \in Nat \ {0} /\ tilesize \in Nat
  BY DEF Phase
<1>2. /\ x[1] \in Nat /\ x[2] \in Nat /\ Left(x)[1] = x[1] /\ Left(x)[2] < x[2] /\ Left(x)[2] \in Nat \ {0}
      /\ Right(x)[1] = x[1] + Left(x)[2] /\ Right(x)[2] = x[2] - Left(x)[2] /\ x[1] + x[2] <= tiles
  BY <1>1, Halves, NodeIs
<1> DEFINE j == LastSlot(Left(x))
<1>3. j = x[1] + Left(x)[2] - 1 /\ LastSlot(x) = x[1] + x[2] - 1 /\ LastSlot(Right(x)) = Right(x)[1] + Right(x)[2] - 1
  BY <1>2 DEF LastSlot
<1>4. j \in Nat /\ j + 1 < tiles
  BY <1>1, <1>2, <1>3
<1> HIDE DEF j
<1>5. TileEnd(j + 1) = (j + 1) * tilesize
  BY <1>1, <1>4 DEF TileEnd
<1>6. Tile(j)[2] = (j + 1) * tilesize - j * tilesize
  BY <1>5 DEF Tile
<1>7. (j + 1) * tilesize - j * tilesize = tilesize
  <2> DEFINE jt == j * tilesize
  <2>1. jt \in Nat /\ (j + 1) * tilesize = jt + tilesize
    BY <1>1, <1>4
  <2> HIDE DEF jt
  <2>2. (j + 1) * tilesize - jt = tilesize
    BY <1>1, <2>1
  <2> QED BY <2>2 DEF jt
<1>8. LastSlot(Right(x)) = LastSlot(x) /\ j = Right(x)[1] - 1 /\ j # LastSlot(x)
  BY <1>2, <1>3
<1> QED BY <1>6, <1>7, <1>8 DEF j

LEMMA UpForkIInv ==
  ASSUME IInv, NEW x \in Nodes, UpFork(x)
  PROVE  IInv'
<1> USE DEF UpFork
<1> DEFINE L == Left(x)
           R == Right(x)
<1>1. tiles \in Nat \ {0} /\ pc = "up" /\ Tree(up) /\ Phase /\ tiles > 0
  BY UpIsUp DEF IInv
<1>2. /\ L \in Nodes /\ R \in Nodes /\ L # x /\ R # x /\ L # R /\ Inside(L, x) /\ Inside(R, x)
  BY <1>1, Halves
<1>3. up[L] = "idle" /\ up[R] = "idle"
  BY <1>1, <1>2 DEF Tree, FreshIsLowest, Fresh
<1>4. LastSlot(R) = LastSlot(x) /\ Tile(LastSlot(L))[2] = tilesize
  BY <1>1, HalvesEnd
<1>5. Tree(up')
  BY <1>1, TreeForks DEF Fresh
<1>6. DOMAIN lastsize = Nodes /\ \A y \in Nodes : up[y] # "idle" => lastsize[y] = Tile(LastSlot(y))[2]
  BY <1>1 DEF IInv, Sizes
<1> HIDE DEF L, R
<1>7. /\ up'[x] = "join" /\ up'[L] = "run" /\ up'[R] = "run"
      /\ \A y \in Nodes : y # x /\ y # L /\ y # R => up'[y] = up[y]
  BY <1>1, <1>2 DEF Tree, L, R
<1>8. \A y \in Nodes : (up'[y] = "done" <=> up[y] = "done") /\ (up[y] # "idle" => up'[y] # "idle")
  BY <1>3, <1>7
<1>9. /\ DOMAIN lastsize' = Nodes
      /\ \A y \in Nodes : up'[y] # "idle" => lastsize'[y] = Tile(LastSlot(y))[2]
  BY ZenonT(60), <1>2, <1>4, <1>6, <1>7 DEF L, R
<1>10. SlotsHoldSums'
  <2>1. /\ DOMAIN r = Tiles
        /\ \A y \in Nodes : up[y] = "done" /\ IsPow2(y[2]) =>
             \/ r[LastSlot(y)] = NodeSum(y)
             \/ \E z \in Nodes : /\ up[z] = "done" /\ IsPow2(z[2]) /\ z # y
                                 /\ Inside(y, z) /\ LastSlot(z) = LastSlot(y)
    BY <1>1 DEF IInv, SlotsHoldSums
  <2> QED BY <1>8, <2>1, SlotsAfter DEF layout, setup
<1>11. /\ \A b \in DOMAIN reduced' : \E j \in Tiles : up'[<<j, 1>>] = "done" /\ b = Tile(j)
       /\ \A j \in Tiles : up'[<<j, 1>>] = "done" => Tile(j) \in DOMAIN reduced'
  <2>1. TreeCalls
    BY <1>1 DEF IInv, Calls
  <2>2. \A j \in Tiles : <<j, 1>> \in Nodes
    BY <1>1, LeafIs
  <2> QED BY <1>8, <2>1, <2>2 DEF TreeCalls, calls
<1>12. \A y \in Nodes : up'[y] # "argument"
  BY <1>1, <1>7 DEF IInv, Trees
<1>13. UNCHANGED <<setup, pc, layout, down, initial, fold, total, scanned>>
  BY DEF calls
<1> QED BY <1>1, <1>5, <1>8, <1>9, <1>10, <1>11, <1>12, <1>13, UpKeeps

\* A node that is waiting for its halves ends where no other called node around it does.
LEMMA JoinIsLast ==
  ASSUME tiles \in Nat, Tree(up), NEW x \in Nodes, up[x] = "join", NEW y \in Nodes, up[y] = "done",
         LastSlot(y) = LastSlot(x)
  PROVE  y # x /\ Inside(y, x)
<1>1. ~Inside(x, y)
  BY DEF Tree, DoneIsWhole
<1>2. ~Apart(x, y)
  BY NodeIs DEF Apart, LastSlot
<1> QED BY <1>1, <1>2 DEF Tree, Laminar

LEMMA RightHalfSum ==
  ASSUME Phase, Trees, SlotsHoldSums, tiles > 0, NEW x \in Nodes, up[x] = "join",
         up[Right(x)] = "done", IsPow2(Right(x)[2])
  PROVE  r[LastSlot(x)] = NodeSum(Right(x))
<1> DEFINE R == Right(x)
           L == Left(x)
<1>1. tiles \in Nat \ {0} /\ Tree(up) /\ x[2] > 1
  BY DEF Phase, Trees, Tree, ForksAreWide
<1>2. /\ L \in Nodes /\ R \in Nodes /\ LastSlot(R) = LastSlot(x) /\ Apart(L, R)
      /\ LastSlot(L) = R[1] - 1
  BY <1>1, Halves, HalvesEnd
<1>3. ASSUME NEW z \in Nodes, up[z] = "done", z # R, Inside(R, z), LastSlot(z) = LastSlot(x)
      PROVE  FALSE
  <2>1. z # x /\ Inside(z, x)
    BY <1>1, <1>3, JoinIsLast
  <2>2. Inside(z, L) \/ Inside(z, R)
    BY <1>1, <1>3, <2>1 DEF Tree, HalvesAreCalled
  <2>3. ~Inside(z, R)
    BY <1>1, <1>2, <1>3, InsideTransitive
  <2>4. Inside(R, L)
    BY <1>1, <1>2, <1>3, <2>2, <2>3, InsideTransitive
  <2> QED BY <1>1, <1>2, <2>4, InsideTransitive DEF Apart
<1> HIDE DEF R
<1> QED BY <1>2, <1>3 DEF SlotsHoldSums, R

LEMMA UpJoinIInv ==
  ASSUME IInv, NEW x \in Nodes, UpJoin(x)
  PROVE  IInv'
<1> USE DEF UpJoin, UpJoined
<1> DEFINE L == Left(x)
           R == Right(x)
<1>1. tiles \in Nat \ {0} /\ pc = "up" /\ Tree(up) /\ Phase /\ tiles > 0 /\ x[2] > 1 /\ x[2] \in Nat
  BY UpIsUp, NodeIs DEF IInv, Tree, ForksAreWide
<1>2. /\ L \in Nodes /\ R \in Nodes /\ Split(x[2]) = L[2] /\ R[1] = x[1] + L[2] /\ R[2] = x[2] - L[2]
      /\ L[1] = x[1] /\ R[1] + R[2] = x[1] + x[2] /\ R[1] = L[1] + L[2] /\ R[1] < tiles /\ R[1] \in Nat
  <2>1. L \in Nodes /\ R \in Nodes /\ Split(x[2]) = L[2] /\ R[1] = x[1] + L[2] /\ R[2] = x[2] - L[2] /\ L[1] = x[1]
    BY <1>1, Halves
  <2>2. x[1] \in Nat /\ L[2] \in Nat /\ R[1] \in Nat /\ R[2] \in Nat \ {0} /\ R[1] + R[2] <= tiles
    BY <1>1, <2>1, NodeIs
  <2> HIDE DEF L, R
  <2>3. R[1] + R[2] = x[1] + x[2]
    BY <1>1, <2>1, <2>2
  <2>4. R[1] < tiles
    BY <1>1, <2>2
  <2> QED BY <2>1, <2>2, <2>3, <2>4
<1>3. x[2] = 2 * Split(x[2]) <=> IsPow2(x[2])
  BY <1>1, SplitOfPow2
<1>4. Tree(up')
  BY <1>1, TreeAdvances
<1>5. DOMAIN r = Tiles /\ LastSlot(x) \in Tiles /\ SlotsHoldSums /\ Trees
  BY <1>1, NodeIs DEF IInv, SlotsHoldSums
<1>6. ASSUME IsPow2(x[2]) PROVE r'[LastSlot(x)] = NodeSum(x)
  <2>1. r[LastSlot(L)] = NodeSum(L)
    BY <1>1, <1>5, LeftHalfSum
  <2>2. R[2] = L[2] /\ IsPow2(L[2])
    <3>1. IsPow2(L[2])
      BY <1>1, Halves
    <3>2. L[2] \in Nat
      BY <1>1, <1>2, NodeIs
    <3> HIDE DEF L, R
    <3>3. R[2] = L[2]
      BY <1>1, <1>2, <1>3, <1>6, <3>2
    <3> QED BY <3>1, <3>3
  <2>3. r[LastSlot(x)] = NodeSum(R)
    BY <1>1, <1>5, <2>2, RightHalfSum
  <2>4. r'[LastSlot(x)] = Combine(NodeSum(L), NodeSum(R))
    BY <1>3, <1>5, <1>6, <2>1, <2>3
  <2>5. TileEnd(L[1] + L[2]) = R[1] * tilesize
    BY <1>2 DEF TileEnd
  <2> HIDE DEF L, R
  <2>6. NodeSum(L) = <<x[1] * tilesize, R[1] * tilesize>>
    BY <1>2, <2>5 DEF NodeSum
  <2>7. NodeSum(R) = <<R[1] * tilesize, TileEnd(x[1] + x[2])>>
    BY <1>2 DEF NodeSum
  <2> QED BY <2>4, <2>6, <2>7 DEF Combine, NodeSum
<1> HIDE DEF L, R
<1>7. \A j \in Tiles : j # LastSlot(x) \/ ~IsPow2(x[2]) => r'[j] = r[j]
  BY <1>3, <1>5
<1>8. up'[x] = "done" /\ \A y \in Nodes : y # x => up'[y] = up[y]
  BY <1>1 DEF Tree
<1>9. \A y \in Nodes : up[y] = "done" => up'[y] = "done" /\ y # x
  BY <1>8
<1>10. DOMAIN r' = Tiles
  BY <1>5
<1>11. SlotsHoldSums'
  <2> SUFFICES ASSUME NEW y \in Nodes, up'[y] = "done", IsPow2(y[2])
               PROVE  \/ r'[LastSlot(y)] = NodeSum(y)
                      \/ \E z \in Nodes : /\ up'[z] = "done" /\ IsPow2(z[2]) /\ z # y
                                          /\ Inside(y, z) /\ LastSlot(z) = LastSlot(y)
    BY <1>10, SlotsAfter DEF layout, setup
  <2>1. CASE y = x
    BY <1>6, <2>1
  <2>2. CASE y # x /\ LastSlot(y) = LastSlot(x) /\ IsPow2(x[2])
    <3>1. up[y] = "done"
      BY <1>8, <2>2
    <3>2. Inside(y, x)
      BY <1>1, <2>2, <3>1, JoinIsLast
    <3> QED BY <1>8, <2>2, <3>2
  <2>3. CASE y # x /\ (LastSlot(y) # LastSlot(x) \/ ~IsPow2(x[2]))
    <3>1. up[y] = "done" /\ LastSlot(y) \in Tiles
      BY <1>1, <1>8, <2>3, NodeIs
    <3>2. \/ r[LastSlot(y)] = NodeSum(y)
          \/ \E z \in Nodes : /\ up[z] = "done" /\ IsPow2(z[2]) /\ z # y
                              /\ Inside(y, z) /\ LastSlot(z) = LastSlot(y)
      BY <1>1, <1>5, <3>1 DEF SlotsHoldSums
    <3>3. r'[LastSlot(y)] = r[LastSlot(y)]
      BY <1>7, <2>3, <3>1
    <3> QED BY <1>9, <3>2, <3>3
  <2> QED BY <2>1, <2>2, <2>3
<1>12. \A j \in Tiles : <<j, 1>> \in Nodes /\ <<j, 1>> # x
  <2>1. \A j \in Tiles : <<j, 1>> # x
    BY <1>1
  <2> QED BY <1>1, <2>1, LeafIs
<1>13. /\ \A b \in DOMAIN reduced' : \E j \in Tiles : up'[<<j, 1>>] = "done" /\ b = Tile(j)
       /\ \A j \in Tiles : up'[<<j, 1>>] = "done" => Tile(j) \in DOMAIN reduced'
  <2>1. TreeCalls
    BY <1>1 DEF IInv, Calls
  <2> QED BY <1>8, <1>12, <2>1 DEF TreeCalls, calls
<1>14. /\ DOMAIN lastsize' = Nodes
       /\ \A y \in Nodes : up'[y] # "idle" => lastsize'[y] = Tile(LastSlot(y))[2]
  BY <1>1, <1>8 DEF IInv, Sizes
<1>15. \A y \in Nodes : (up[y] # "idle" => up'[y] # "idle") /\ up'[y] # "argument"
  BY <1>1, <1>8 DEF IInv, Trees
<1>16. UNCHANGED <<setup, pc, layout, down, initial, fold, total, scanned>>
  BY DEF calls
<1> QED BY <1>1, <1>4, <1>11, <1>13, <1>14, <1>15, <1>16, UpKeeps

\* What a step between the sweeps leaves to show.
LEMMA FoldKeeps ==
  ASSUME IInv, tiles > 0, up[Root] = "done", pc \in {"up", "fold"}, pc' \in {"fold", "apex"}, FoldedSum',
         UNCHANGED <<setup, layout, r, up, down, lastsize, initial, calls>>
  PROVE  IInv'
<1> USE DEF IInv, setup, layout, calls
<1>1. Phase'
  BY DEF Phase
<1>2. /\ \A x \in Nodes : down[x] = "idle" /\ down'[x] = "idle"
      /\ Tree(up') /\ Tree(down') /\ up'[Root] # "idle" /\ Root \in Nodes
      /\ \A x \in Nodes : up'[x] # "argument"
  <2>1. tiles \in Nat \ {0}
    BY DEF Phase
  <2> QED BY <2>1, IsNode DEF Trees, Root
<1>3. Trees'
  BY <1>2, TreesAfter
<1>4. Sizes'
  BY SizesAfter DEF Sizes
<1>5. SlotsHoldSums'
  BY SlotsAfter DEF SlotsHoldSums
<1>6. Prefixes'
  <2>1. DOMAIN initial = Nodes /\ \A x \in Nodes : initial[x] = InitialSum
    BY DEF Prefixes
  <2> QED BY <1>2, <2>1, PrefixesAfter
<1>7. Calls'
  <2>1. total = Bad /\ TreeCalls
    BY DEF Calls, TotalIsSum
  <2> QED BY <2>1, CallsAfter DEF TreeCalls
<1> QED BY <1>1, <1>3, <1>4, <1>5, <1>6, <1>7

LEMMA FoldBeginIInv ==
  ASSUME IInv, FoldBegin
  PROVE  IInv'
<1>1. pc = "up" /\ tiles > 0 /\ tiles \in Nat \ {0} /\ up[Root] = "done" /\ Phase /\ Trees /\ SlotsHoldSums
  BY DEF FoldBegin, IInv, Phase
<1>2. tiles \in 1..tiles /\ TileEnd(tiles) = n
  BY <1>1 DEF TileEnd
<1>3. t' = <<ClearLowest(tiles) * tilesize, n>> /\ k' = tiles
  BY <1>1, <1>2, ChainSum DEF FoldBegin
<1>4. FoldedSum'
  BY <1>2, <1>3 DEF FoldedSum, FoldBegin, setup, layout
<1> QED BY <1>1, <1>4, FoldKeeps DEF FoldBegin

LEMMA FoldStepIInv ==
  ASSUME IInv, FoldStep
  PROVE  IInv'
<1>1. /\ pc = "fold" /\ tiles > 0 /\ tiles \in Nat \ {0} /\ tilesize \in Nat /\ n \in Nat
      /\ up[Root] = "done" /\ Phase /\ Trees /\ SlotsHoldSums
  BY DEF FoldStep, IInv, Phase, Trees
<1>2. k \in 1..tiles /\ t = <<ClearLowest(k) * tilesize, n>>
  BY <1>1 DEF IInv, FoldedSum
<1>3. k' = ClearLowest(k) /\ k' \in 0..(k - 1)
  <2>1. k \in Nat \ {0}
    BY <1>1, <1>2
  <2>2. \E d \in 1..k : ClearLowest(k) = k - d
    BY <2>1, ClearLowestIs
  <2> QED BY <2>1, <2>2 DEF FoldStep
<1>4. CASE k' # 0
  <2>1. k' \in 1..tiles /\ k' < tiles
    BY <1>1, <1>2, <1>3, <1>4
  <2>2. r[k' - 1] = <<ClearLowest(k') * tilesize, TileEnd(k')>>
    BY <1>1, <2>1, ChainSum
  <2>3. TileEnd(k') = k' * tilesize
    BY <2>1 DEF TileEnd
  <2>4. t' = Combine(r[k' - 1], t) /\ pc' = "fold"
    BY <1>1, <1>4 DEF FoldStep
  <2>5. t' = <<ClearLowest(k') * tilesize, n>>
    BY <1>2, <1>3, <2>2, <2>3, <2>4 DEF Combine
  <2>6. FoldedSum'
    BY <2>1, <2>4, <2>5 DEF FoldedSum, FoldStep, setup, layout
  <2> QED BY <1>1, <2>4, <2>6, FoldKeeps DEF FoldStep
<1>5. CASE k' = 0
  <2>1. t' = t /\ pc' = "apex"
    BY <1>5 DEF FoldStep
  <2>2. t = <<0, n>>
    BY <1>1, <1>2, <1>3, <1>5
  <2>3. FoldedSum'
    BY <2>1, <2>2 DEF FoldedSum, FoldStep, setup
  <2> QED BY <1>1, <2>1, <2>3, FoldKeeps DEF FoldStep
<1> QED BY <1>4, <1>5

\* Without tiles there are no trees.
LEMMA NoTrees ==
  ASSUME tiles' = 0, Phase', FoldedSum', Calls'
  PROVE  IInv'
<1>1. ~(tiles > 0)'
  OBVIOUS
<1>2. Trees' /\ Sizes' /\ SlotsHoldSums' /\ Prefixes'
  BY <1>1 DEF Trees, Sizes, SlotsHoldSums, Prefixes
<1> QED BY <1>2 DEF IInv

LEMMA ApexIInv ==
  ASSUME IInv, Apex
  PROVE  IInv'
<1>1. pc = "apex" /\ Phase /\ FoldedSum /\ Calls /\ n \in Nat
  BY DEF Apex, IInv, Phase
<1>2. total' = <<-1, n>> /\ n' = n /\ tiles' = tiles
  <2>1. CASE n = 0
    BY <2>1 DEF Apex, InitialSum, setup, layout
  <2>2. CASE n > 0
    <3>1. t = <<0, n>>
      BY <1>1, <2>2 DEF FoldedSum
    <3> QED BY <2>2, <3>1 DEF Apex, InitialSum, Combine, setup, layout
  <2> QED BY <1>1, <2>1, <2>2
<1>3. CASE tiles = 0
  <2>1. pc' = IF n > 0 THEN "scan" ELSE "return"
    BY <1>3 DEF Apex
  <2>2. Phase'
    BY <1>1, <1>2, <1>3, <2>1 DEF Phase, Apex, setup, layout
  <2>3. FoldedSum'
    BY <2>1 DEF FoldedSum
  <2>4. TotalIsSum'
    BY <1>2, <2>1 DEF TotalIsSum
  <2>5. BlockCalls
    BY <1>1, <1>3 DEF Calls
  <2>6. BlockCalls'
    BY <1>1, <1>2, <2>1, <2>5 DEF BlockCalls, Apex
  <2> QED BY <1>2, <1>3, <2>2, <2>3, <2>4, <2>6, NoTrees DEF Calls
<1>4. CASE tiles # 0
  <2>1. /\ tiles > 0 /\ tiles \in Nat \ {0} /\ Trees /\ SlotsHoldSums /\ Prefixes /\ TreeCalls
        /\ pc' = "down" /\ Root \in Nodes /\ up[Root] = "done"
    <3>1. tiles > 0 /\ tiles \in Nat \ {0}
      BY <1>1, <1>4 DEF Phase
    <3> QED BY <1>1, <1>4, <3>1, IsNode DEF IInv, Calls, Apex, Root, Trees
  <2>2. down' = [x \in Nodes |-> IF x = Root THEN "run" ELSE "idle"]
    BY DEF Apex
  <2>3. UNCHANGED <<setup, layout, r, up, initial, fold, reduced, scanned>>
    BY DEF Apex
  <2>4. lastsize' = [x \in Nodes |-> n - (tiles - 1) * tilesize]
    BY DEF Apex
  <2>5. Phase'
    BY <1>1, <2>1, <2>3 DEF Phase, setup, layout
  <2>6. Trees'
    <3>1. Tree(down') /\ Tree(up') /\ up'[Root] # "idle" /\ down'[Root] # "idle"
      BY <2>1, <2>2, <2>3, TreeBegins DEF Trees
    <3>2. up'[Root] = "done" /\ \A x \in Nodes : up'[x] # "argument" /\ (down'[x] # "idle" => up'[x] = "done")
      BY <2>1, <2>2, <2>3 DEF Trees
    <3> QED BY <2>1, <2>3, <3>1, <3>2, TreesAfter DEF layout
  <2>7. Sizes'
    <3>1. LastSlot(Root) = tiles - 1 /\ tiles - 1 + 1 = tiles
      BY <2>1 DEF LastSlot, Root
    <3>2. Tile(tiles - 1)[2] = n - (tiles - 1) * tilesize
      BY <3>1 DEF Tile, TileEnd
    <3>3. \A x \in Nodes : down'[x] # "idle" => lastsize'[x] = Tile(LastSlot(x))[2]
      BY <2>1, <2>2, <2>4, <3>1, <3>2
    <3> QED BY <2>1, <2>3, <2>4, <3>3, SizesAfter DEF setup, layout
  <2>8. SlotsHoldSums'
    BY <2>1, <2>3, SlotsAfter DEF SlotsHoldSums, setup, layout
  <2>9. FoldedSum'
    BY <2>1 DEF FoldedSum
  <2>10. Prefixes'
    <3>1. DOMAIN initial' = Nodes /\ \A x \in Nodes : initial'[x] = <<-1, 0>>
      BY <1>1, <2>1, <2>3 DEF Prefixes, InitialSum
    <3>2. Root[1] * tilesize = 0
      BY <1>1 DEF Root, Phase
    <3>3. \A x \in Nodes : down'[x] # "idle" => x = Root /\ down'[x] = "run"
      BY <2>2
    <3> QED BY <2>1, <2>3, <3>1, <3>2, <3>3, PrefixesAfter DEF layout
  <2>11. Calls'
    <3>1. \A x \in Nodes : down[x] # "done" /\ down'[x] # "done"
      BY <1>1, <2>1, <2>2 DEF Trees
    <3>2. \A j \in Tiles : <<j, 1>> \in Nodes
      BY <2>1, LeafIs
    <3>3. \A b \in DOMAIN scanned' : \E j \in Tiles : down'[<<j, 1>>] = "done" /\ b = ScanCall(j)
      BY <2>1, <2>3, <3>1, <3>2 DEF TreeCalls
    <3>4. /\ \A b \in DOMAIN reduced' : \E j \in Tiles : up'[<<j, 1>>] = "done" /\ b = Tile(j)
          /\ \A j \in Tiles : /\ up'[<<j, 1>>] = "done" => Tile(j) \in DOMAIN reduced'
                              /\ down'[<<j, 1>>] = "done" => ScanCall(j) \in DOMAIN scanned'
      BY <2>1, <2>3, <3>1, <3>2 DEF TreeCalls
    <3> QED BY <1>2, <2>1, <2>3, <3>3, <3>4, CallsAfter DEF setup, layout
  <2> QED BY <2>5, <2>6, <2>7, <2>8, <2>9, <2>10, <2>11 DEF IInv
<1> QED BY <1>3, <1>4

LEMMA BlockIInv ==
  ASSUME IInv, BeginBlock \/ OutOfMemory \/ ReduceBlock \/ ScanBlock \/ (pc = "return" /\ Return)
  PROVE  IInv'
<1>1. /\ tiles = 0 /\ Phase /\ TotalIsSum /\ BlockCalls /\ tiles' = tiles /\ n' = n
      /\ UNCHANGED <<setup, layout>> /\ n \in Nat
  BY DEF IInv, Phase, Calls, BeginBlock, OutOfMemory, ReduceBlock, ScanBlock, Return, setup, layout
<1>2. Phase'
  BY <1>1 DEF Phase, BeginBlock, OutOfMemory, ReduceBlock, ScanBlock, Return, setup, layout
<1>3. FoldedSum'
  BY <1>1 DEF FoldedSum, BeginBlock, OutOfMemory, ReduceBlock, ScanBlock, Return
<1>4. TotalIsSum'
  BY <1>1 DEF TotalIsSum, BeginBlock, OutOfMemory, ReduceBlock, ScanBlock, Return, calls
<1>5. BlockCalls'
  <2>1. CASE BeginBlock \/ OutOfMemory
    BY <1>1, <2>1 DEF BlockCalls, BeginBlock, OutOfMemory, calls
  <2>2. CASE pc = "return" /\ Return
    BY <1>1, <2>2 DEF BlockCalls, Return, calls
  <2>3. \A e : BagAdd(EmptyBag, e) = SetToBag({e})
    BY DEF EmptyBag, SetToBag, BagAdd
  <2>4. CASE ReduceBlock
    BY <1>1, <2>3, <2>4 DEF BlockCalls, ReduceBlock, Phase
  <2>5. CASE ScanBlock
    BY <1>1, <2>3, <2>5 DEF BlockCalls, ScanBlock, InitialSum, Phase
  <2> QED BY <2>1, <2>2, <2>4, <2>5
<1> QED BY <1>1, <1>2, <1>3, <1>4, <1>5, NoTrees DEF Calls

LEMMA ReturnIInv ==
  ASSUME IInv, Return, pc # "return"
  PROVE  IInv'
<1>1. /\ pc = "down" /\ down[Root] = "done" /\ pc' = "done" /\ tiles > 0 /\ tiles # 0
      /\ Phase /\ Trees /\ Sizes /\ SlotsHoldSums /\ Prefixes /\ TotalIsSum /\ TreeCalls
      /\ UNCHANGED <<setup, layout, r, up, down, lastsize, initial, fold, calls>>
  BY DEF Return, IInv, Phase, Calls
<1> USE <1>1 DEF setup, layout, calls
<1>2. Phase'
  BY DEF Phase
<1>3. Trees'
  BY TreesAfter DEF Trees
<1>4. Sizes'
  BY SizesAfter DEF Sizes
<1>5. SlotsHoldSums'
  BY SlotsAfter DEF SlotsHoldSums
<1>6. FoldedSum'
  BY DEF FoldedSum
<1>7. Prefixes'
  BY PrefixesAfter DEF Prefixes
<1>8. Calls'
  BY CallsAfter DEF TotalIsSum, TreeCalls
<1> QED BY <1>2, <1>3, <1>4, <1>5, <1>6, <1>7, <1>8 DEF IInv

LEMMA BeginTreeIInv ==
  ASSUME IInv, BeginTree
  PROVE  IInv'
<1>1. /\ pc = "begin" /\ pc' = "up" /\ tiles = 0 /\ n \in Nat /\ p \in Nat \ {0} /\ limit \in Nat \ {0} /\ n > limit
      /\ n' = n /\ p' = p /\ limit' = limit /\ total = Bad /\ reduced = EmptyBag /\ scanned = EmptyBag
      /\ total' = total /\ reduced' = reduced /\ scanned' = scanned
  BY DEF BeginTree, IInv, Phase, Calls, TotalIsSum, BlockCalls, setup, calls
<1>2. tilesize' = (n - 1) \div (4 * p) + 1 /\ tilesize' \in Nat \ {0}
  <2>1. n - 1 \in Nat /\ 4 * p \in Nat \ {0}
    BY <1>1
  <2>2. (n - 1) \div (4 * p) \in Nat
    BY <2>1, Division
  <2> QED BY <2>2 DEF BeginTree
<1>3. /\ tiles' \in Nat \ {0}
      /\ (tiles' - 1) * tilesize' < n /\ n <= tiles' * tilesize'
  <2> DEFINE q == (n - 1) \div tilesize'
  <2>1. n - 1 \in Nat /\ tiles' = q + 1
    BY <1>1 DEF BeginTree
  <2>2. q \in Nat /\ q * tilesize' <= n - 1 /\ n - 1 < (q + 1) * tilesize'
    <3>1. q \in Nat /\ q * tilesize' <= n - 1 /\ n - 1 < q * tilesize' + tilesize'
      BY <1>2, <2>1, Division
    <3>2. (q + 1) * tilesize' = q * tilesize' + tilesize'
      <4> HIDE DEF q
      <4> QED BY <1>2, <3>1
    <3> QED BY <3>1, <3>2
  <2> HIDE DEF q
  <2>3. tiles' - 1 = q /\ tiles' \in Nat \ {0} /\ (q + 1) * tilesize' \in Nat /\ q * tilesize' \in Nat
    BY <1>2, <2>1, <2>2
  <2>4. (tiles' - 1) * tilesize' < n
    <3> DEFINE qt == q * tilesize'
    <3>1. qt \in Nat /\ qt <= n - 1 /\ (tiles' - 1) * tilesize' = qt
      BY <2>2, <2>3
    <3> HIDE DEF qt
    <3> QED BY <1>1, <3>1
  <2>5. n <= tiles' * tilesize'
    BY <1>1, <2>1, <2>2, <2>3
  <2> QED BY <2>3, <2>4, <2>5
<1>4. Nodes' = NodesOf(tiles') /\ Tiles' = 0..(tiles' - 1) /\ Root' = <<0, tiles'>> /\ Root' \in Nodes'
  <2>1. <<0, tiles'>> \in NodesOf(tiles')
    BY <1>3 DEF NodesOf
  <2> QED BY <2>1 DEF Nodes, Tiles, Root
<1>5. up' = [x \in Nodes' |-> IF x = Root' THEN "run" ELSE "idle"]
  BY <1>4 DEF BeginTree
<1>6. /\ down' = [x \in Nodes' |-> "idle"] /\ r' = [j \in Tiles' |-> Bad]
      /\ lastsize' = [x \in Nodes' |-> n - (tiles' - 1) * tilesize']
      /\ initial' = [x \in Nodes' |-> InitialSum]
  BY <1>4 DEF BeginTree
<1>7. Phase'
  <2>1. tilesize' > 0 /\ tiles' > 0 /\ tiles' # 0
    BY <1>2, <1>3
  <2>2. ((tiles - 1) * tilesize < n)' /\ (n <= tiles * tilesize)'
    BY <1>1, <1>3
  <2> QED BY <1>1, <1>2, <1>3, <2>1, <2>2 DEF Phase
<1>8. Trees'
  <2>1. (tiles \in Nat \ {0} => Tree([x \in Nodes |-> IF x = Root THEN "run" ELSE "idle"]))'
    BY TreeBegins, PTL
  <2>2. Tree(up)'
    BY <1>3, <1>5, <2>1
  <2>3. Tree(down)'
    BY <1>6 DEF Tree, NodeStates, Laminar, FreshIsLowest, DoneIsWhole, HalvesAreCalled, ForksAreWide,
                NodesAreAligned, Fresh
  <2> QED BY <1>1, <1>4, <1>5, <1>6, <2>2, <2>3 DEF Trees
<1>9. Sizes'
  <2>1. LastSlot(Root)' = tiles' - 1 /\ tiles' - 1 + 1 = tiles'
    <3>1. tiles' \in Nat
      BY <1>3
    <3>2. Root'[1] = 0 /\ Root'[2] = tiles'
      BY <1>4
    <3>3. 0 + tiles' - 1 = tiles' - 1 /\ tiles' - 1 + 1 = tiles'
      <4>1. \A m \in Nat : 0 + m - 1 = m - 1 /\ m - 1 + 1 = m
        OBVIOUS
      <4> QED BY <3>1, <4>1
    <3> QED BY <3>2, <3>3 DEF LastSlot
  <2>2. Tile(tiles - 1)' = <<(tiles' - 1) * tilesize', n - (tiles' - 1) * tilesize'>>
    BY <1>1, <2>1 DEF Tile, TileEnd
  <2>3. (\A x \in Nodes : up[x] # "idle" => lastsize[x] = Tile(LastSlot(x))[2])'
    BY <1>5, <1>6, <2>1, <2>2
  <2>4. (\A x \in Nodes : down[x] = "idle")'
    BY <1>6
  <2> QED BY <1>1, <1>6, <2>3, <2>4 DEF Sizes
<1>10. SlotsHoldSums'
  <2>1. (\A x \in Nodes : up[x] # "done")'
    BY <1>5
  <2> QED BY <1>6, <2>1 DEF SlotsHoldSums
<1>11. FoldedSum'
  BY <1>1 DEF FoldedSum
<1>12. Prefixes'
  BY <1>1, <1>6 DEF Prefixes
<1>13. Calls'
  <2>1. (\A j \in Tiles : <<j, 1>> \in Nodes)'
    <3>1. ASSUME NEW j \in 0..(tiles' - 1) PROVE <<j, 1>> \in NodesOf(tiles')
      <4>1. tiles' \in Nat \ {0}
        BY <1>3
      <4>2. j \in Nat /\ j + 1 <= tiles' /\ 1 \in 1..tiles'
        <5>1. \A m \in Nat \ {0} : \A i \in 0..(m - 1) : i \in Nat /\ i + 1 <= m /\ 1 \in 1..m
          OBVIOUS
        <5> QED BY <4>1, <5>1
      <4> QED BY <4>2 DEF NodesOf
    <3> QED BY <1>4, <3>1
  <2>2. DOMAIN reduced' = {} /\ DOMAIN scanned' = {}
    BY <1>1 DEF EmptyBag, SetToBag
  <2>3. TreeCalls'
    BY <1>5, <1>6, <2>1, <2>2 DEF TreeCalls
  <2>4. TotalIsSum'
    BY <1>1 DEF TotalIsSum
  <2>5. ~(tiles = 0)'
    BY <1>3
  <2> QED BY <2>3, <2>4, <2>5 DEF Calls
<1> QED BY <1>7, <1>8, <1>9, <1>10, <1>11, <1>12, <1>13 DEF IInv

\* What a step of the second sweep leaves to show.
LEMMA DownKeeps ==
  ASSUME IInv, tiles > 0, pc = "down", Tree(down'), \A x \in Nodes : down[x] # "idle" => down'[x] # "idle",
         \A x \in Nodes : down'[x] # "idle" => up[x] = "done",
         UNCHANGED <<setup, pc, layout, r, up, fold, reduced, total>>,
         DOMAIN lastsize' = Nodes,
         \A x \in Nodes : down'[x] # "idle" => lastsize'[x] = Tile(LastSlot(x))[2],
         Prefixes',
         \A b \in DOMAIN scanned' : \E j \in Tiles : down'[<<j, 1>>] = "done" /\ b = ScanCall(j),
         \A j \in Tiles : down'[<<j, 1>>] = "done" => ScanCall(j) \in DOMAIN scanned'
  PROVE  IInv'
<1> USE DEF IInv, setup, layout
<1>1. tiles \in Nat \ {0} /\ Root \in Nodes
  BY IsNode DEF Phase, Root
<1>2. Phase'
  BY DEF Phase
<1>3. Trees'
  <2>1. Tree(up') /\ up'[Root] = "done" /\ down'[Root] # "idle" /\ \A x \in Nodes : up'[x] # "argument"
    BY <1>1 DEF Trees
  <2> QED BY <1>1, <2>1, TreesAfter
<1>4. Sizes'
  BY SizesAfter
<1>5. SlotsHoldSums'
  BY SlotsAfter DEF SlotsHoldSums
<1>6. FoldedSum'
  BY DEF FoldedSum
<1>7. Calls'
  <2>1. /\ total = <<-1, n>>
        /\ \A b \in DOMAIN reduced : \E j \in Tiles : up[<<j, 1>>] = "done" /\ b = Tile(j)
        /\ \A j \in Tiles : up[<<j, 1>>] = "done" => Tile(j) \in DOMAIN reduced
    BY <1>1 DEF Calls, TotalIsSum, TreeCalls
  <2> QED BY <2>1, CallsAfter
<1> QED BY <1>2, <1>3, <1>4, <1>5, <1>6, <1>7

\* Of the tiles scanned so far when no tile is added.
LEMMA ScannedAfter ==
  ASSUME IInv, tiles > 0, tiles \in Nat, scanned' = scanned,
         \A j \in Tiles : down'[<<j, 1>>] = "done" <=> down[<<j, 1>>] = "done"
  PROVE  /\ \A b \in DOMAIN scanned' : \E j \in Tiles : down'[<<j, 1>>] = "done" /\ b = ScanCall(j)
         /\ \A j \in Tiles : down'[<<j, 1>>] = "done" => ScanCall(j) \in DOMAIN scanned'
BY DEF IInv, Calls, TreeCalls

LEMMA DownArgumentIInv ==
  ASSUME IInv, NEW x \in Nodes, DownArgument(x)
  PROVE  IInv'
<1> USE DEF DownArgument
<1>1. tiles \in Nat \ {0} /\ tiles > 0 /\ pc = "down" /\ Tree(down) /\ Phase /\ Prefixes /\ Sizes /\ Trees
  BY DownIsDown DEF IInv
<1>2. down'[x] = "run" /\ \A y \in Nodes : y # x => down'[y] = down[y]
  BY <1>1 DEF Tree
<1>3. Tree(down')
  BY <1>1, TreeAdvances
<1>4. initial'[x] = <<-1, x[1] * tilesize>> /\ \A y \in Nodes : y # x => initial'[y] = initial[y]
  <2>1. DOMAIN initial = Nodes
    BY <1>1 DEF Prefixes
  <2>2. PICK i \in 0..x[1] : initial[x] = <<-1, i * tilesize>> /\ r[x[1] - 1] = <<i * tilesize, x[1] * tilesize>>
    BY <1>1 DEF Prefixes
  <2>3. Combine(initial[x], r[x[1] - 1]) = <<-1, x[1] * tilesize>>
    BY <2>2 DEF Combine
  <2> QED BY <2>1, <2>3
<1>5. Prefixes'
  <2>1. DOMAIN initial' = Nodes
    BY <1>1 DEF Prefixes
  <2>2. UNCHANGED <<pc, tiles, tilesize, r>>
    BY DEF layout
  <2> QED BY <1>1, <1>2, <1>4, <2>1, <2>2, PrefixesAfter DEF Prefixes
<1>6. \A j \in Tiles : down'[<<j, 1>>] = "done" <=> down[<<j, 1>>] = "done"
  BY <1>1, <1>2, LeafIs
<1>7. \A y \in Nodes : (down[y] # "idle" => down'[y] # "idle") /\ (down'[y] # "idle" => up[y] = "done")
  BY <1>1, <1>2 DEF Trees
<1>8. DOMAIN lastsize' = Nodes /\ \A y \in Nodes : down'[y] # "idle" => lastsize'[y] = Tile(LastSlot(y))[2]
  BY <1>1, <1>2 DEF Sizes
<1>9. UNCHANGED <<setup, pc, layout, r, up, fold, reduced, total>> /\ scanned' = scanned
  BY DEF calls
<1> QED BY <1>1, <1>3, <1>5, <1>6, <1>7, <1>8, <1>9, ScannedAfter, DownKeeps

LEMMA DownJoinIInv ==
  ASSUME IInv, NEW x \in Nodes, DownJoin(x)
  PROVE  IInv'
<1> USE DEF DownJoin
<1>1. /\ tiles \in Nat \ {0} /\ tiles > 0 /\ pc = "down" /\ Tree(down) /\ Phase /\ Prefixes /\ Sizes /\ Trees
      /\ x[2] > 1
  BY DownIsDown DEF IInv, Tree, ForksAreWide
<1>2. down'[x] = "done" /\ \A y \in Nodes : y # x => down'[y] = down[y]
  BY <1>1 DEF Tree
<1>3. Tree(down')
  BY <1>1, TreeAdvances
<1>4. UNCHANGED <<setup, pc, layout, r, up, lastsize, initial, fold, reduced, total>> /\ scanned' = scanned
  BY DEF calls
<1>5. Prefixes'
  BY <1>1, <1>2, <1>4, PrefixesAfter DEF Prefixes, layout
<1>6. \A j \in Tiles : down'[<<j, 1>>] = "done" <=> down[<<j, 1>>] = "done"
  <2>1. \A j \in Tiles : <<j, 1>> # x
    BY <1>1
  <2> QED BY <1>1, <1>2, <2>1, LeafIs
<1>7. \A y \in Nodes : (down[y] # "idle" => down'[y] # "idle") /\ (down'[y] # "idle" => up[y] = "done")
  BY <1>1, <1>2 DEF Trees
<1>8. DOMAIN lastsize' = Nodes /\ \A y \in Nodes : down'[y] # "idle" => lastsize'[y] = Tile(LastSlot(y))[2]
  BY <1>1, <1>2, <1>4 DEF Sizes
<1> QED BY <1>1, <1>3, <1>4, <1>5, <1>6, <1>7, <1>8, ScannedAfter, DownKeeps

LEMMA DownLeafIInv ==
  ASSUME IInv, NEW x \in Nodes, DownLeaf(x)
  PROVE  IInv'
<1> USE DEF DownLeaf
<1>1. tiles \in Nat \ {0} /\ tiles > 0 /\ pc = "down" /\ Tree(down) /\ Phase /\ Prefixes /\ Sizes /\ Trees
  BY DownIsDown DEF IInv
<1>2. down'[x] = "done" /\ \A y \in Nodes : y # x => down'[y] = down[y]
  BY <1>1 DEF Tree
<1>3. Tree(down')
  BY <1>1, TreeAdvances
<1>4. x[1] \in Tiles /\ LastSlot(x) = x[1] /\ x = <<x[1], 1>>
  BY <1>1, NodeIs DEF LastSlot
<1>5. <<x[1] * tilesize, lastsize[x], initial[x]>> = ScanCall(x[1])
  <2>1. lastsize[x] = Tile(x[1])[2] /\ initial[x] = <<-1, x[1] * tilesize>>
    BY <1>1, <1>4 DEF Sizes, Prefixes
  <2>2. Tile(x[1])[1] = x[1] * tilesize
    BY DEF Tile
  <2> QED BY <2>1, <2>2 DEF ScanCall
<1>6. DOMAIN scanned' = DOMAIN scanned \cup {ScanCall(x[1])}
  BY <1>5, BagGrows
<1>7. UNCHANGED <<setup, pc, layout, r, up, lastsize, initial, fold, reduced, total>>
  OBVIOUS
<1>8. Prefixes'
  BY <1>1, <1>2, <1>7, PrefixesAfter DEF Prefixes, layout
<1>9. /\ \A b \in DOMAIN scanned' : \E j \in Tiles : down'[<<j, 1>>] = "done" /\ b = ScanCall(j)
      /\ \A j \in Tiles : down'[<<j, 1>>] = "done" => ScanCall(j) \in DOMAIN scanned'
  <2>1. \A j \in Tiles : <<j, 1>> \in Nodes
    BY <1>1, LeafIs
  <2>2. \A j \in Tiles : <<j, 1>> = x => j = x[1]
    BY <1>4
  <2>3. /\ \A b \in DOMAIN scanned : \E j \in Tiles : down[<<j, 1>>] = "done" /\ b = ScanCall(j)
        /\ \A j \in Tiles : down[<<j, 1>>] = "done" => ScanCall(j) \in DOMAIN scanned
    BY <1>1 DEF IInv, Calls, TreeCalls
  <2>4. \A j \in Tiles : down[<<j, 1>>] = "done" => down'[<<j, 1>>] = "done"
    BY <1>2, <2>1
  <2>5. \A b \in DOMAIN scanned' : \E j \in Tiles : down'[<<j, 1>>] = "done" /\ b = ScanCall(j)
    BY <1>2, <1>4, <1>6, <2>3, <2>4
  <2>6. \A j \in Tiles : down'[<<j, 1>>] = "done" => ScanCall(j) \in DOMAIN scanned'
    BY <1>2, <1>6, <2>1, <2>2, <2>3
  <2> QED BY <2>5, <2>6
<1>10. \A y \in Nodes : (down[y] # "idle" => down'[y] # "idle") /\ (down'[y] # "idle" => up[y] = "done")
  BY <1>1, <1>2 DEF Trees
<1>11. DOMAIN lastsize' = Nodes /\ \A y \in Nodes : down'[y] # "idle" => lastsize'[y] = Tile(LastSlot(y))[2]
  BY <1>1, <1>2, <1>7 DEF Sizes
<1> QED BY <1>1, <1>3, <1>7, <1>8, <1>9, <1>10, <1>11, DownKeeps

LEMMA DownForkIInv ==
  ASSUME IInv, NEW x \in Nodes, DownFork(x)
  PROVE  IInv'
<1> USE DEF DownFork
<1> DEFINE L == Left(x)
           R == Right(x)
<1>1. /\ tiles \in Nat \ {0} /\ tiles > 0 /\ pc = "down" /\ Tree(down) /\ Tree(up) /\ Phase
      /\ Prefixes /\ Sizes /\ Trees /\ SlotsHoldSums
  BY DownIsDown DEF IInv
<1>2. /\ L \in Nodes /\ R \in Nodes /\ L # x /\ R # x /\ L # R /\ Inside(L, x) /\ Inside(R, x)
      /\ L[1] = x[1] /\ R[1] = L[1] + L[2] /\ x[1] \in Nat /\ L[2] \in Nat \ {0} /\ R[1] < tiles
  <2>1. /\ L \in Nodes /\ R \in Nodes /\ L # x /\ R # x /\ L # R /\ Inside(L, x) /\ Inside(R, x)
        /\ L[1] = x[1] /\ R[1] = L[1] + L[2]
    BY <1>1, Halves
  <2>2. x[1] \in Nat /\ L[2] \in Nat \ {0} /\ R[1] \in Tiles
    BY <1>1, <2>1, NodeIs
  <2>3. R[1] < tiles
    BY <1>1, <2>2 DEF Tiles
  <2> QED BY <2>1, <2>2, <2>3
<1>3. LastSlot(R) = LastSlot(x) /\ Tile(LastSlot(L))[2] = tilesize /\ LastSlot(L) = R[1] - 1
  BY <1>1, HalvesEnd
<1>4. Tree(down')
  BY <1>1, TreeForks DEF Fresh
<1>5. up[x] = "done" /\ up[L] = "done" /\ up[R] = "done"
  <2>1. up[x] = "done"
    BY <1>1 DEF Trees
  <2> QED BY <1>1, <1>2, <2>1 DEF Tree, DoneIsWhole, HalvesAreCalled
<1>6. DOMAIN lastsize = Nodes /\ \A y \in Nodes : down[y] # "idle" => lastsize[y] = Tile(LastSlot(y))[2]
  BY <1>1 DEF Sizes
<1>7. /\ down'[x] = "join" /\ down'[L] = "run" /\ down'[R] = "argument"
      /\ \A y \in Nodes : y # x /\ y # L /\ y # R => down'[y] = down[y]
  BY <1>1, <1>2 DEF Tree
<1>8. r[R[1] - 1] = <<x[1] * tilesize, R[1] * tilesize>>
  <2>1. r[LastSlot(L)] = NodeSum(L)
    BY <1>1, <1>5, LeftHalfSum
  <2>2. TileEnd(L[1] + L[2]) = R[1] * tilesize
    BY <1>2 DEF TileEnd
  <2> HIDE DEF L, R
  <2> QED BY <1>2, <1>3, <2>1, <2>2 DEF NodeSum
<1>9. down[L] = "idle" /\ down[R] = "idle"
  BY <1>1, <1>2 DEF Tree, FreshIsLowest, Fresh
<1>10. UNCHANGED <<setup, pc, layout, r, up, fold, reduced, total>> /\ scanned' = scanned
  BY DEF calls
<1>11. /\ initial' = [initial EXCEPT ![L] = initial[x], ![R] = initial[x]]
       /\ lastsize' = [lastsize EXCEPT ![L] = tilesize, ![R] = lastsize[x]]
       /\ down[x] = "run"
  OBVIOUS
<1> HIDE DEF L, R, DownFork
<1>12. Prefixes'
  <2>1. DOMAIN initial = Nodes /\ initial[x] = <<-1, x[1] * tilesize>>
    BY <1>1, <1>11 DEF Prefixes
  <2>2. /\ DOMAIN initial' = Nodes /\ initial'[L] = initial[x] /\ initial'[R] = initial[x]
        /\ \A y \in Nodes : y # L /\ y # R => initial'[y] = initial[y]
    BY <1>2, <1>11, <2>1
  <2>3. r' = r /\ tiles' = tiles /\ tilesize' = tilesize /\ pc' = "down"
    BY <1>1, <1>10 DEF layout
  <2>4. x[1] \in 0..R[1] /\ R[1] > 0
    BY <1>2
  <2>5. ASSUME NEW y \in Nodes PROVE
           /\ down'[y] \in {"run", "join", "done"} => initial'[y] = <<-1, y[1] * tilesize>>
           /\ down'[y] = "argument" =>
                /\ y[1] > 0
                /\ \E i \in 0..y[1] : /\ initial'[y] = <<-1, i * tilesize>>
                                      /\ r'[y[1] - 1] = <<i * tilesize, y[1] * tilesize>>
    <3>1. CASE y = L
      BY <1>2, <1>7, <2>1, <2>2, <3>1
    <3>2. CASE y = R
      <4>1. initial'[R] = <<-1, x[1] * tilesize>> /\ r'[R[1] - 1] = <<x[1] * tilesize, R[1] * tilesize>>
        BY <1>8, <2>1, <2>2, <2>3
      <4> QED BY <1>7, <2>4, <3>2, <4>1
    <3>3. CASE y = x
      BY <1>2, <1>7, <2>1, <2>2, <3>3
    <3>4. CASE y # x /\ y # L /\ y # R
      BY <1>1, <1>7, <2>2, <2>3, <3>4 DEF Prefixes
    <3> QED BY <3>1, <3>2, <3>3, <3>4
  <2> QED BY <2>2, <2>3, <2>5, PrefixesAfter
<1>13. \A j \in Tiles : down'[<<j, 1>>] = "done" <=> down[<<j, 1>>] = "done"
  <2>1. \A j \in Tiles : <<j, 1>> \in Nodes
    BY <1>1, LeafIs
  <2> QED BY <1>7, <1>9, <1>11, <2>1
<1>14. \A y \in Nodes : (down[y] # "idle" => down'[y] # "idle") /\ (down'[y] # "idle" => up[y] = "done")
  BY <1>1, <1>5, <1>7 DEF Trees
<1>15. DOMAIN lastsize' = Nodes /\ \A y \in Nodes : down'[y] # "idle" => lastsize'[y] = Tile(LastSlot(y))[2]
  <2>1. /\ DOMAIN lastsize' = Nodes /\ lastsize'[L] = tilesize /\ lastsize'[R] = lastsize[x]
        /\ \A y \in Nodes : y # L /\ y # R => lastsize'[y] = lastsize[y]
    BY <1>2, <1>6, <1>11
  <2> QED BY <1>2, <1>3, <1>6, <1>7, <1>11, <2>1
<1> QED BY <1>1, <1>4, <1>10, <1>12, <1>13, <1>14, <1>15, ScannedAfter, DownKeeps

LEMMA InitIInv ==
  ASSUME Init
  PROVE  IInv
<1>1. n \in Nat /\ p \in Nat \ {0} /\ limit \in Nat \ {0} /\ tiles = 0 /\ tilesize = 0 /\ pc = "begin"
  BY StrictAssumption DEF Init
<1>2. Phase /\ Trees /\ Sizes /\ SlotsHoldSums /\ FoldedSum /\ Prefixes
  BY <1>1 DEF Phase, Trees, Sizes, SlotsHoldSums, FoldedSum, Prefixes
<1>3. Calls
  BY <1>1 DEF Calls, TotalIsSum, BlockCalls, Init
<1> QED BY <1>2, <1>3 DEF IInv

LEMMA NextIInv ==
  ASSUME IInv, [Next]_vars
  PROVE  IInv'
<1>1. CASE BeginBlock \/ OutOfMemory \/ ReduceBlock \/ ScanBlock \/ (pc = "return" /\ Return)
  BY <1>1, BlockIInv
<1>2. CASE BeginTree
  BY <1>2, BeginTreeIInv
<1>3. CASE FoldBegin
  BY <1>3, FoldBeginIInv
<1>4. CASE FoldStep
  BY <1>4, FoldStepIInv
<1>5. CASE Apex
  BY <1>5, ApexIInv
<1>6. CASE Return /\ pc # "return"
  BY <1>6, ReturnIInv
<1>7. ASSUME NEW x \in Nodes, Up(x) PROVE IInv'
  BY <1>7, UpLeafIInv, UpForkIInv, UpJoinIInv DEF Up
<1>8. ASSUME NEW x \in Nodes, Down(x) PROVE IInv'
  BY <1>8, DownArgumentIInv, DownLeafIInv, DownForkIInv, DownJoinIInv DEF Down
<1>9. CASE UNCHANGED vars
  <2>1. UNCHANGED <<n, p, limit, pc, tilesize, tiles, r, up, down, lastsize, initial, k, t, reduced, total, scanned>>
    BY <1>9 DEF vars, setup, layout, fold, calls
  <2>3. Phase' <=> Phase
    BY <2>1 DEF Phase
  <2>4. Trees' <=> Trees
    BY <2>1, TreesKept DEF Trees
  <2>5. Sizes' <=> Sizes
    BY <2>1, TreesKept, LayoutKept DEF Sizes
  <2>6. SlotsHoldSums' <=> SlotsHoldSums
    BY <2>1, TreesKept, LayoutKept DEF SlotsHoldSums
  <2>7. FoldedSum' <=> FoldedSum
    BY <2>1 DEF FoldedSum
  <2>8. Prefixes' <=> Prefixes
    BY <2>1, TreesKept DEF Prefixes
  <2>9. Calls' <=> Calls
    <3>1. \A j : Tile(j)' = Tile(j) /\ ScanCall(j)' = ScanCall(j)
      BY <2>1, LayoutKept DEF ScanCall
    <3>2. TreeCalls' <=> TreeCalls
      BY <2>1, <3>1, TreesKept DEF TreeCalls
    <3> QED BY <2>1, <3>2 DEF Calls, TotalIsSum, BlockCalls
  <2> QED BY <2>3, <2>4, <2>5, <2>6, <2>7, <2>8, <2>9 DEF IInv
<1> QED BY <1>1, <1>2, <1>3, <1>4, <1>5, <1>6, <1>7, <1>8, <1>9 DEF Next

LEMMA Invariant == Spec => []IInv
<1>1. Init => IInv
  BY InitIInv
<1>2. IInv /\ [Next]_vars => IInv'
  BY NextIInv
<1> QED BY <1>1, <1>2, PTL DEF Spec

\* Each scan starts from the sum of exactly what precedes its block, for any
\* number of tiles, a power of two or not (parallel_backend_tbb.h:356).
THEOREM ScansStartFromExactPrefixes == Spec => []ExactPrefix
<1>1. IInv => ExactPrefix
  <2> SUFFICES ASSUME IInv, NEW s \in DOMAIN scanned PROVE s[3] = <<-1, s[1]>>
    BY DEF ExactPrefix
  <2>1. CASE tiles = 0
    <3>1. \A e : DOMAIN SetToBag({e}) = {e}
      BY DEF SetToBag
    <3>2. DOMAIN EmptyBag = {}
      BY DEF EmptyBag, SetToBag
    <3>3. BlockCalls
      BY <2>1 DEF IInv, Calls
    <3>4. s = <<0, n, <<-1, 0>>>>
      BY ZenonT(60), <3>1, <3>2, <3>3 DEF BlockCalls
    <3> QED BY <3>4
  <2>2. CASE tiles # 0
    <3>1. TreeCalls
      BY <2>2 DEF IInv, Calls
    <3>2. PICK j \in Tiles : s = ScanCall(j)
      BY <3>1 DEF TreeCalls
    <3> QED BY <3>2 DEF ScanCall
  <2> QED BY <2>1, <2>2
<1> QED BY <1>1, Invariant, PTL

\* Two tasks that are about to write slots of r, or one to write and one to read,
\* are of nodes apart, and every slot a task uses is in its node.
LEMMA TaskSlots ==
  ASSUME NEW x \in Nodes
  PROVE  /\ Writes(x) # {} => (up[x] = "run" /\ x[2] = 1) \/ Combines(x)
         /\ Writes(x) \subseteq {LastSlot(x)}
         /\ Combines(x) /\ down[x] # "argument" => Reads(x) = {LastSlot(Left(x)), LastSlot(x)}
         /\ ~Combines(x) /\ down[x] # "argument" => Reads(x) = {}
         /\ ~Combines(x) /\ down[x] = "argument" => Reads(x) = {x[1] - 1}
<1>1. Writes(x) # {} => (up[x] = "run" /\ x[2] = 1) \/ Combines(x)
  BY DEF Writes
<1>2. Writes(x) \subseteq {LastSlot(x)}
  BY DEF Writes
<1>3. Combines(x) /\ down[x] # "argument" => Reads(x) = {LastSlot(Left(x)), LastSlot(x)}
  BY DEF Reads
<1>4. ~Combines(x) /\ down[x] # "argument" => Reads(x) = {}
  BY DEF Reads
<1>5. ~Combines(x) /\ down[x] = "argument" => Reads(x) = {x[1] - 1}
  BY DEF Reads
<1> QED BY <1>1, <1>2, <1>3, <1>4, <1>5

LEMMA ActiveNodesAreApart ==
  ASSUME tiles \in Nat, Tree(up), NEW x \in Nodes, NEW y \in Nodes, x # y, up[x] # "idle",
         up[x] # "done", (up[y] = "run" /\ y[2] = 1) \/ Combines(y)
  PROVE  ~Inside(x, y)
<1> SUFFICES ASSUME Inside(x, y) PROVE FALSE
  OBVIOUS
<1>1. CASE up[y] = "run"
  BY <1>1 DEF Tree, FreshIsLowest, Fresh
<1>2. CASE Combines(y)
  <2>1. up[y] = "join" /\ up[Left(y)] = "done" /\ up[Right(y)] = "done" /\ y[2] > 1
    BY <1>2 DEF Combines, UpJoined, Tree, ForksAreWide
  <2>2. Left(y) \in Nodes /\ Right(y) \in Nodes
    BY <2>1, Halves
  <2>3. Inside(x, Left(y)) \/ Inside(x, Right(y))
    BY <2>1 DEF Tree, HalvesAreCalled
  <2> QED BY <2>1, <2>2, <2>3 DEF Tree, DoneIsWhole
<1> QED BY <1>1, <1>2

\* No two tasks that may run at the same time use the same slot of r, one of them
\* to write it (parallel_backend_tbb.h:326 and 336).
THEOREM NoTwoTasksShareASlot == Spec => []ScanTasksShareNothing
<1>1. IInv => ScanTasksShareNothing
  <2> SUFFICES ASSUME IInv, NEW x \in Nodes, NEW y \in Nodes, x # y, Writes(x) # {}
               PROVE  LastSlot(x) \notin Writes(y) \cup Reads(y)
    <3>1. \A u \in Nodes : Writes(u) \subseteq {LastSlot(u)}
      BY TaskSlots
    <3> QED BY <3>1 DEF ScanTasksShareNothing
  <2>1. tiles \in Nat
    BY DEF IInv, Phase
  <2>2. (up[x] = "run" /\ x[2] = 1) \/ Combines(x)
    BY <2>1, TaskSlots
  <2>3. up[x] \in {"run", "join"}
    BY <2>2 DEF Combines, UpJoined
  <2>4. tiles \in Nat \ {0} /\ pc = "up" /\ Tree(up) /\ down[y] = "idle" /\ Phase /\ tiles > 0
    BY <2>3, UpIsUp DEF IInv, Trees
  <2>5. CASE (up[y] = "run" /\ y[2] = 1) \/ Combines(y)
    <3>1. up[y] \in {"run", "join"}
      BY <2>5 DEF Combines, UpJoined
    <3>2. Apart(x, y)
      BY <2>1, <2>2, <2>3, <2>4, <2>5, <3>1, ActiveNodesAreApart DEF Tree, Laminar
    <3>3. /\ x[1] \in Nat /\ x[2] \in Nat \ {0} /\ y[1] \in Nat /\ y[2] \in Nat \ {0}
      BY <2>1, NodeIs
    <3>4. LastSlot(x) # LastSlot(y)
      BY <3>2, <3>3 DEF Apart, LastSlot
    <3>5. Combines(y) => LastSlot(x) # LastSlot(Left(y))
      <4> SUFFICES ASSUME Combines(y) PROVE LastSlot(x) # LastSlot(Left(y))
        OBVIOUS
      <4>1. y[2] > 1
        BY <2>4 DEF Combines, UpJoined, Tree, ForksAreWide
      <4>2. Left(y) \in Nodes /\ Left(y)[1] = y[1] /\ Left(y)[2] < y[2]
        BY <2>1, <4>1, Halves
      <4>3. Left(y)[2] \in Nat \ {0}
        BY <2>1, <4>2, NodeIs
      <4> DEFINE l == Left(y)
      <4>4. LastSlot(l) = y[1] + l[2] - 1 /\ LastSlot(x) = x[1] + x[2] - 1
        BY <4>2 DEF LastSlot
      <4>5. l[2] \in Nat \ {0} /\ l[2] < y[2] /\ (x[1] + x[2] <= y[1] \/ y[1] + y[2] <= x[1])
        BY <3>2, <4>2, <4>3 DEF Apart
      <4> HIDE DEF l
      <4>6. LastSlot(x) # LastSlot(l)
        BY <3>3, <4>4, <4>5
      <4> QED BY <4>6 DEF l
    <3>6. Writes(y) \subseteq {LastSlot(y)} /\ Reads(y) \subseteq {LastSlot(Left(y)), LastSlot(y)}
      BY <2>1, <2>4, TaskSlots
    <3>7. ~Combines(y) => Reads(y) = {}
      BY <2>1, <2>4, TaskSlots
    <3> QED BY <3>4, <3>5, <3>6, <3>7
  <2>6. CASE ~((up[y] = "run" /\ y[2] = 1) \/ Combines(y))
    BY <2>1, <2>4, <2>6, TaskSlots
  <2> QED BY <2>5, <2>6
<1> QED BY <1>1, Invariant, PTL

\* Every slot of the raw buffer that a task or the folding loop is about to read
\* has been written (parallel_backend_tbb.h:387).
THEOREM SlotsAreWrittenBeforeTheyAreRead == Spec => []ReadsAreWritten
<1>1. IInv => ReadsAreWritten
  <2> SUFFICES ASSUME IInv PROVE ReadsAreWritten
    OBVIOUS
  <2>1. /\ tiles \in Nat /\ tilesize \in Nat /\ Phase /\ Trees /\ SlotsHoldSums /\ Prefixes
        /\ \A i \in Nat : i * tilesize \in Nat
    BY DEF IInv, Phase
  <2>2. \A a, b : a \in Nat => <<a, b>> # Bad
    BY DEF Bad
  <2>3. \A x \in Nodes : NodeSum(x) # Bad
    BY <2>1, <2>2, NodeIs DEF NodeSum
  <2>4. ASSUME NEW x \in Nodes, NEW s \in Reads(x) PROVE r[s] # Bad
    <3>1. CASE Combines(x)
      <4>1. up[x] = "join" /\ up[Left(x)] = "done" /\ up[Right(x)] = "done" /\ x[2] = 2 * Split(x[2])
        BY <3>1 DEF Combines, UpJoined
      <4>2. tiles > 0 /\ Tree(up) /\ x[2] > 1 /\ x[2] \in Nat
        BY <2>1, <4>1, UpIsUp, NodeIs DEF Tree, ForksAreWide
      <4>3. r[LastSlot(Left(x))] = NodeSum(Left(x)) /\ Left(x) \in Nodes /\ Right(x) \in Nodes
        BY <2>1, <4>1, <4>2, LeftHalfSum, Halves
      <4>4. IsPow2(Right(x)[2])
        <5>1. IsPow2(Left(x)[2]) /\ Left(x)[2] = Split(x[2]) /\ Right(x)[2] = x[2] - Split(x[2])
          BY <2>1, <4>2, Halves
        <5>2. Split(x[2]) \in Nat
          BY <4>2, SplitIs
        <5>3. x[2] - Split(x[2]) = Split(x[2])
          BY <4>1, <4>2, <5>2
        <5> QED BY <5>1, <5>3
      <4>5. r[LastSlot(x)] = NodeSum(Right(x))
        BY <2>1, <4>1, <4>2, <4>4, RightHalfSum
      <4>6. down[x] # "argument"
        BY <2>1, <4>1, <4>2, UpIsUp DEF Trees
      <4>7. s = LastSlot(Left(x)) \/ s = LastSlot(x)
        BY <3>1, <4>6, TaskSlots
      <4> QED BY <2>3, <4>3, <4>5, <4>7
    <3>2. CASE ~Combines(x)
      <4>1. down[x] = "argument" /\ s = x[1] - 1
        BY <2>1, <3>2, TaskSlots
      <4>2. tiles > 0
        BY <2>1, <4>1, DownIsDown
      <4>3. PICK i \in 0..x[1] : r[x[1] - 1] = <<i * tilesize, x[1] * tilesize>>
        BY <2>1, <4>1, <4>2 DEF Prefixes
      <4>4. i \in Nat
        BY <2>1, NodeIs
      <4> QED BY <2>1, <2>2, <4>1, <4>3, <4>4
    <3> QED BY <3>1, <3>2
  <2>5. ASSUME pc = "fold", ClearLowest(k) # 0 PROVE r[ClearLowest(k) - 1] # Bad
    <3> DEFINE j == ClearLowest(k)
    <3>1. k \in 1..tiles /\ tiles > 0 /\ up[Root] = "done"
      BY <2>1, <2>5 DEF IInv, FoldedSum, Phase, Trees
    <3>2. k \in Nat \ {0}
      BY <2>1, <3>1
    <3>3. \E d \in 1..k : j = k - d
      BY <3>2, ClearLowestIs
    <3>4. j # 0
      BY <2>5
    <3> HIDE DEF j
    <3>5. j \in 1..tiles /\ j \in Nat \ {0}
      BY <2>1, <3>1, <3>3, <3>4
    <3>6. r[j - 1] = <<ClearLowest(j) * tilesize, TileEnd(j)>>
      BY <2>1, <3>1, <3>5, ChainSum
    <3>7. ClearLowest(j) \in Nat
      <4>1. \E d \in 1..j : ClearLowest(j) = j - d
        BY <3>5, ClearLowestIs
      <4> QED BY <3>5, <4>1
    <3>8. r[j - 1] # Bad
      BY <2>1, <2>2, <3>6, <3>7
    <3> QED BY <3>8 DEF j
  <2> QED BY <2>4, <2>5 DEF ReadsAreWritten
<1> QED BY <1>1, Invariant, PTL

-------------------------------------------------------------------------------
(* The refinement of ScanContract: a leaf of the first sweep reduces its tile,  *)
(* a leaf of the second scans it; forks, joins and the folding loop stutter.    *)
LEMMA TilesAreApart ==
  ASSUME Phase, tiles > 0, NEW i \in Tiles, NEW j \in Tiles, i # j
  PROVE  ~Contract!Overlap(Tile(i), Tile(j)) /\ Tile(i)[1] # Tile(j)[1]
<1>1. /\ i \in Nat /\ j \in Nat /\ tilesize \in Nat \ {0}
      /\ i * tilesize \in Nat /\ TileEnd(i + 1) \in Nat /\ TileEnd(i + 1) <= i * tilesize + tilesize
      /\ j * tilesize \in Nat /\ TileEnd(j + 1) \in Nat /\ TileEnd(j + 1) <= j * tilesize + tilesize
  BY TileIs DEF Tiles
<1> DEFINE it == i * tilesize
           jt == j * tilesize
<1>2. i < j => it + tilesize <= jt
  <2>1. i < j => (i + 1) * tilesize <= j * tilesize
    BY <1>1
  <2>2. (i + 1) * tilesize = it + tilesize
    BY <1>1
  <2> QED BY <2>1, <2>2
<1>3. j < i => jt + tilesize <= it
  <2>1. j < i => (j + 1) * tilesize <= i * tilesize
    BY <1>1
  <2>2. (j + 1) * tilesize = jt + tilesize
    BY <1>1
  <2> QED BY <2>1, <2>2
<1>4. Tile(i)[1] = it /\ Tile(i)[2] = TileEnd(i + 1) - it /\ Tile(j)[1] = jt /\ Tile(j)[2] = TileEnd(j + 1) - jt
  BY DEF Tile
<1> HIDE DEF it, jt
<1>5. /\ it + (TileEnd(i + 1) - it) = TileEnd(i + 1) /\ jt + (TileEnd(j + 1) - jt) = TileEnd(j + 1)
      /\ it \in Nat /\ jt \in Nat /\ TileEnd(i + 1) <= it + tilesize /\ TileEnd(j + 1) <= jt + tilesize
  BY <1>1 DEF it, jt
<1>6. i < j \/ j < i
  BY <1>1
<1> QED BY <1>1, <1>2, <1>3, <1>4, <1>5, <1>6 DEF Contract!Overlap

LEMMA TilesCover ==
  ASSUME Phase, tiles > 0, NEW i \in 0..(n - 1)
  PROVE  \E j \in Tiles : Contract!Overlap(Tile(j), <<i, 1>>)
<1> DEFINE j == i \div tilesize
<1>1. tiles \in Nat \ {0} /\ tilesize \in Nat \ {0} /\ n \in Nat /\ n <= tiles * tilesize /\ i \in Nat /\ i < n
  BY DEF Phase
<1>2. j \in Nat /\ tilesize * j <= i /\ i - tilesize * j < tilesize
  BY <1>1, Division
<1> HIDE DEF j
<1> DEFINE jt == j * tilesize
<1>3. jt \in Nat /\ jt <= i /\ i < jt + tilesize /\ (j + 1) * tilesize = jt + tilesize
  <2>1. tilesize * j = jt /\ jt \in Nat /\ (j + 1) * tilesize = jt + tilesize
    BY <1>1, <1>2
  <2> HIDE DEF jt
  <2> QED BY <1>1, <1>2, <2>1
<1>4. j \in Tiles
  <2>1. tiles <= j => tiles * tilesize <= jt
    BY <1>1, <1>2
  <2> HIDE DEF jt
  <2>2. ~(tiles <= j)
    <3> DEFINE all == tiles * tilesize
    <3>1. all \in Nat /\ n <= all
      BY <1>1
    <3> HIDE DEF all
    <3> QED BY <1>1, <1>3, <2>1, <3>1 DEF all
  <2> QED BY <1>1, <1>2, <2>2 DEF Tiles
<1>5. Tile(j) = <<jt, TileEnd(j + 1) - jt>> /\ TileEnd(j + 1) \in Nat
  BY <1>4, TileIs
<1>6. i < TileEnd(j + 1)
  BY <1>1, <1>3 DEF TileEnd
<1>7. Tile(j)[1] = jt /\ Tile(j)[2] = TileEnd(j + 1) - jt
  BY <1>5
<1> HIDE DEF jt
<1>8. jt < i + 1 /\ i < jt + (TileEnd(j + 1) - jt)
  BY <1>1, <1>3, <1>5, <1>6
<1> QED BY <1>4, <1>7, <1>8 DEF Contract!Overlap

LEMMA SameBags ==
  /\ Contract!EmptyBag = EmptyBag
  /\ \A B, e : Contract!BagAdd(B, e) = BagAdd(B, e)
<1>1. Contract!EmptyBag = EmptyBag
  BY DEF EmptyBag, SetToBag, Contract!EmptyBag, Contract!SetToBag
<1>2. \A B, e : Contract!BagAdd(B, e) = BagAdd(B, e)
  BY DEF BagAdd, Contract!BagAdd
<1> QED BY <1>1, <1>2

LEMMA BeginsAsPromised ==
  ASSUME Init
  PROVE  Contract!Init
BY SameBags, StrictAssumption DEF Init, Contract!Init

LEMMA SumsAreReal ==
  ASSUME IInv
  PROVE  total # Bad <=> pc \in {"down", "scan", "return", "done"}
<1>1. pc \in {"begin", "block", "up", "fold", "apex", "down", "scan", "return", "done", "bad_alloc"}
  BY DEF IInv, Phase
<1>2. <<-1, n>> # Bad
  BY DEF Bad
<1> QED BY <1>1, <1>2 DEF IInv, Calls, TotalIsSum

LEMMA ReducesAsPromised ==
  ASSUME IInv, NEW x \in Nodes, UpLeaf(x)
  PROVE  Contract!Next
<1>1. tiles \in Nat \ {0} /\ tiles > 0 /\ pc = "up" /\ Phase /\ TreeCalls
  BY UpIsUp DEF IInv, UpLeaf, Calls
<1>2. x[1] \in Tiles /\ LastSlot(x) = x[1] /\ x = <<x[1], 1>>
  BY <1>1, NodeIs DEF LastSlot, UpLeaf
<1> DEFINE lo == x[1] * tilesize
           hi == TileEnd(x[1] + 1)
<1>3. lo \in 0..(n - 1) /\ hi - lo \in 1..(n - lo) /\ Tile(x[1]) = <<lo, hi - lo>>
  BY <1>1, <1>2, TileIs
<1>4. lastsize[x] = hi - lo
  BY <1>1, <1>2, <1>3 DEF IInv, Sizes, UpLeaf
<1>5. reduced' = BagAdd(reduced, <<lo, hi - lo>>)
  BY <1>4 DEF UpLeaf
<1>6. \A b \in DOMAIN reduced : ~Contract!Overlap(b, <<lo, hi - lo>>)
  <2> SUFFICES ASSUME NEW b \in DOMAIN reduced PROVE ~Contract!Overlap(b, Tile(x[1]))
    BY <1>3
  <2>1. PICK j \in Tiles : up[<<j, 1>>] = "done" /\ b = Tile(j)
    BY <1>1 DEF TreeCalls
  <2>2. j # x[1]
    BY <1>2, <2>1 DEF UpLeaf
  <2> QED BY <1>1, <1>2, <2>1, <2>2, TilesAreApart
<1>7. total = Bad /\ pc # "done" /\ UNCHANGED <<n, total, scanned, pc>>
  BY <1>1, SumsAreReal DEF UpLeaf, setup
<1> HIDE DEF lo, hi
<1>8. Contract!Reduce(lo, hi - lo)
  BY <1>5, <1>6, <1>7, SameBags DEF Contract!Reduce
<1> QED BY <1>3, <1>8 DEF Contract!Next

LEMMA ScansAsPromised ==
  ASSUME IInv, NEW x \in Nodes, DownLeaf(x)
  PROVE  Contract!Next
<1>1. tiles \in Nat \ {0} /\ tiles > 0 /\ pc = "down" /\ Phase /\ TreeCalls
  BY DownIsDown DEF IInv, DownLeaf, Calls
<1>2. x[1] \in Tiles /\ LastSlot(x) = x[1] /\ x = <<x[1], 1>>
  BY <1>1, NodeIs DEF LastSlot, DownLeaf
<1> DEFINE lo == x[1] * tilesize
           hi == TileEnd(x[1] + 1)
<1>3. lo \in 0..(n - 1) /\ hi - lo \in 1..(n - lo) /\ Tile(x[1]) = <<lo, hi - lo>>
  BY <1>1, <1>2, TileIs
<1>4. lastsize[x] = hi - lo
  BY <1>1, <1>2, <1>3 DEF IInv, Sizes, DownLeaf
<1>5. initial[x] = <<-1, lo>>
  BY <1>1 DEF IInv, Prefixes, DownLeaf
<1>6. scanned' = BagAdd(scanned, <<lo, hi - lo, <<-1, lo>>>>)
  BY <1>4, <1>5 DEF DownLeaf
<1>7. <<lo, hi - lo>> \in DOMAIN reduced
  <2>1. up[x] = "done"
    BY <1>1 DEF IInv, Trees, DownLeaf
  <2> QED BY <1>1, <1>2, <1>3, <2>1 DEF TreeCalls
<1>8. \A s \in DOMAIN scanned : s[1] # lo
  <2> SUFFICES ASSUME NEW s \in DOMAIN scanned PROVE s[1] # Tile(x[1])[1]
    BY <1>3
  <2>1. PICK j \in Tiles : down[<<j, 1>>] = "done" /\ s = ScanCall(j)
    BY <1>1 DEF TreeCalls
  <2>2. j # x[1] /\ s[1] = Tile(j)[1]
    BY <1>2, <2>1 DEF DownLeaf, ScanCall
  <2> QED BY <1>1, <1>2, <2>2, TilesAreApart
<1>9. total # Bad /\ pc # "done" /\ UNCHANGED <<n, total, reduced, pc>>
  BY <1>1, SumsAreReal DEF DownLeaf, setup
<1> HIDE DEF lo, hi
<1>10. Contract!Scan(lo, hi - lo)
  BY <1>6, <1>7, <1>8, <1>9, SameBags DEF Contract!Scan
<1> QED BY <1>3, <1>10 DEF Contract!Next

LEMMA BlockAsPromised ==
  ASSUME IInv, ReduceBlock \/ ScanBlock
  PROVE  Contract!Next
<1>1. Phase /\ n \in Nat /\ n > 0 /\ tiles = 0 /\ BlockCalls
  BY DEF IInv, Phase, Calls, ReduceBlock, ScanBlock
<1>2. 0 \in 0..(n - 1) /\ n \in 1..(n - 0)
  BY <1>1
<1>3. \A e : DOMAIN SetToBag({e}) = {e}
  BY DEF SetToBag
<1>4. DOMAIN EmptyBag = {}
  BY DEF EmptyBag, SetToBag
<1>5. CASE ReduceBlock
  <2>1. total = Bad /\ pc # "done" /\ pc' # "done" /\ UNCHANGED <<n, total, scanned>>
    BY <1>5, SumsAreReal DEF ReduceBlock, setup
  <2>2. reduced = EmptyBag
    BY <1>1, <1>5 DEF BlockCalls, ReduceBlock
  <2>3. Contract!Reduce(0, n)
    BY <1>4, <1>5, <2>1, <2>2, SameBags DEF Contract!Reduce, ReduceBlock
  <2> QED BY <1>2, <2>3 DEF Contract!Next
<1>6. CASE ScanBlock
  <2>1. total # Bad /\ pc # "done" /\ pc' # "done" /\ UNCHANGED <<n, total, reduced>>
    BY <1>6, SumsAreReal DEF ScanBlock, setup
  <2>2. DOMAIN scanned = {} /\ <<0, n>> \in DOMAIN reduced
    BY <1>1, <1>3, <1>4, <1>6 DEF BlockCalls, ScanBlock
  <2>3. scanned' = BagAdd(scanned, <<0, n, <<-1, 0>>>>)
    BY <1>6 DEF ScanBlock, InitialSum
  <2>4. Contract!Scan(0, n)
    BY <2>1, <2>2, <2>3, SameBags DEF Contract!Scan
  <2> QED BY <1>2, <2>4 DEF Contract!Next
<1> QED BY <1>5, <1>6

LEMMA AppliesAsPromised ==
  ASSUME IInv, IInv', Apex
  PROVE  Contract!Next
<1>1. Phase /\ n \in Nat /\ Calls /\ pc = "apex" /\ tiles \in Nat
  BY DEF IInv, Phase, Apex
<1>2. total = Bad /\ pc' # "done" /\ pc' \notin {"begin", "block", "up", "fold", "apex", "bad_alloc"}
  BY <1>1, SumsAreReal DEF Apex
<1>3. n' = n /\ reduced' = reduced /\ scanned' = scanned
  BY DEF Apex, setup
<1>4. total' = <<-1, n>>
  BY <1>2, <1>3 DEF IInv, Calls, TotalIsSum
<1>5. ASSUME NEW i \in 0..(n - 1) PROVE \E b \in DOMAIN reduced : Contract!Overlap(b, <<i, 1>>)
  <2>1. n > 0 /\ i \in Nat /\ i < n
    BY <1>1
  <2>2. CASE tiles = 0
    <3>1. <<0, n>> \in DOMAIN reduced
      <4>1. reduced = SetToBag({<<0, n>>})
        BY <1>1, <2>1, <2>2 DEF Calls, BlockCalls
      <4> QED BY <4>1 DEF SetToBag
    <3>2. Contract!Overlap(<<0, n>>, <<i, 1>>)
      BY <1>1, <2>1 DEF Contract!Overlap
    <3> QED BY <3>1, <3>2
  <2>3. CASE tiles # 0
    <3>1. tiles \in Nat \ {0} /\ tiles > 0 /\ up[Root] = "done" /\ Tree(up) /\ TreeCalls
      BY <1>1, <2>3 DEF IInv, Trees, Calls
    <3>2. PICK j \in Tiles : Contract!Overlap(Tile(j), <<i, 1>>)
      BY <1>1, <3>1, TilesCover
    <3>3. up[<<j, 1>>] = "done"
      BY <3>1, LeavesAreDone
    <3> QED BY <3>1, <3>2, <3>3 DEF TreeCalls
  <2> QED BY <2>2, <2>3
<1>6. Contract!Covered
  BY <1>5 DEF Contract!Covered
<1>7. Contract!Apex
  BY <1>1, <1>2, <1>3, <1>4, <1>6 DEF Contract!Apex
<1> QED BY <1>7 DEF Contract!Next

LEMMA ReturnsAsPromised ==
  ASSUME IInv, Return
  PROVE  Contract!Next
<1>1. Phase /\ n \in Nat /\ Calls /\ tiles \in Nat /\ pc \in {"return", "down"}
  BY DEF IInv, Phase, Return
<1>2. total # Bad /\ pc # "done" /\ pc' = "done" /\ UNCHANGED <<n, reduced, total, scanned>>
  BY <1>1, SumsAreReal DEF Return, setup, calls
<1>3. ASSUME NEW b \in DOMAIN reduced PROVE <<b[1], b[2], <<-1, b[1]>>>> \in DOMAIN scanned
  <2>1. \A e : DOMAIN SetToBag({e}) = {e}
    BY DEF SetToBag
  <2>2. DOMAIN EmptyBag = {}
    BY DEF EmptyBag, SetToBag
  <2>3. CASE tiles = 0
    <3>1. pc = "return" /\ BlockCalls
      BY <1>1, <2>3 DEF Phase, Calls
    <3>2. CASE n = 0
      BY <1>1, <2>2, <3>1, <3>2 DEF BlockCalls
    <3>3. CASE n > 0
      <4>1. reduced = SetToBag({<<0, n>>}) /\ scanned = SetToBag({<<0, n, <<-1, 0>>>>})
        BY <3>1, <3>3 DEF BlockCalls
      <4>2. b = <<0, n>> /\ <<0, n, <<-1, 0>>>> \in DOMAIN scanned
        BY <2>1, <4>1
      <4> QED BY <4>2
    <3> QED BY <1>1, <3>2, <3>3
  <2>4. CASE tiles # 0
    <3>1. pc = "down" /\ down[Root] = "done" /\ Tree(down) /\ TreeCalls /\ tiles \in Nat \ {0}
      BY <1>1, <2>4 DEF IInv, Phase, Trees, Calls, Return
    <3>2. PICK j \in Tiles : b = Tile(j)
      BY <3>1 DEF TreeCalls
    <3>3. down[<<j, 1>>] = "done"
      BY <3>1, LeavesAreDone
    <3>4. ScanCall(j) \in DOMAIN scanned
      BY <3>1, <3>3 DEF TreeCalls
    <3> QED BY <3>2, <3>4 DEF ScanCall
  <2> QED BY <2>3, <2>4
<1>4. Contract!Return
  BY <1>2, <1>3 DEF Contract!Return
<1> QED BY <1>4 DEF Contract!Next

\* The calls of reduce, apex and scan are those the comment before
\* __parallel_strict_scan promises (parallel_backend_tbb.h:361-374): reduce for
\* disjoint blocks, then apex with the sum of everything, then scan once for each
\* of the blocks from the sum of what precedes it, however the tasks interleave.
THEOREM StrictScanKeepsItsContract == Spec => ContractIsKept
<1>1. Init => Contract!Init
  BY BeginsAsPromised
<1>2. ASSUME IInv, IInv', [Next]_vars PROVE [Contract!Next]_(Contract!vars)
  <2> DEFINE Stutters == /\ UNCHANGED <<n, reduced, total, scanned>>
                         /\ (pc' = "done") = (pc = "done")
  <2>1. Stutters => UNCHANGED Contract!vars
    BY DEF Contract!vars
  <2>2. CASE BeginBlock \/ BeginTree \/ OutOfMemory
    <3>1. Stutters
      BY <2>2 DEF BeginBlock, BeginTree, OutOfMemory, setup, calls
    <3> QED BY <2>1, <3>1
  <2>3. CASE ReduceBlock \/ ScanBlock
    BY <1>2, <2>3, BlockAsPromised
  <2>4. CASE FoldBegin \/ FoldStep
    <3>1. Stutters
      BY <2>4 DEF FoldBegin, FoldStep, setup, calls
    <3> QED BY <2>1, <3>1
  <2>5. CASE Apex
    BY <1>2, <2>5, AppliesAsPromised
  <2>6. CASE Return
    BY <1>2, <2>6, ReturnsAsPromised
  <2>7. ASSUME NEW x \in Nodes, Up(x) PROVE [Contract!Next]_(Contract!vars)
    <3>1. CASE UpLeaf(x)
      BY <1>2, <3>1, ReducesAsPromised
    <3>2. CASE UpFork(x) \/ UpJoin(x)
      <4>1. Stutters
        BY <3>2 DEF UpFork, UpJoin, setup, calls
      <4> QED BY <2>1, <4>1
    <3> QED BY <2>7, <3>1, <3>2 DEF Up
  <2>8. ASSUME NEW x \in Nodes, Down(x) PROVE [Contract!Next]_(Contract!vars)
    <3>1. CASE DownLeaf(x)
      BY <1>2, <3>1, ScansAsPromised
    <3>2. CASE DownArgument(x) \/ DownFork(x) \/ DownJoin(x)
      <4>1. Stutters
        BY <3>2 DEF DownArgument, DownFork, DownJoin, setup, calls
      <4> QED BY <2>1, <4>1
    <3> QED BY <2>8, <3>1, <3>2 DEF Down
  <2>9. CASE UNCHANGED vars
    <3>1. Stutters
      BY <2>9 DEF vars, setup, calls
    <3> QED BY <2>1, <3>1
  <2> QED BY <1>2, <2>2, <2>3, <2>4, <2>5, <2>6, <2>7, <2>8, <2>9 DEF Next
<1> QED BY <1>1, <1>2, Invariant, PTL DEF Spec, ContractIsKept, Contract!Spec
===============================================================================
