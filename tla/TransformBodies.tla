---------------------------- MODULE TransformBodies ----------------------------
(* The loops of the TBB backend whose body classes carry a value of their own.      *)
(* __parallel_transform_reduce runs __par_trans_red_body: the first body starts     *)
(* from the initial value, a body made by a split has no value until it combines    *)
(* the first two elements it is given. __parallel_transform_scan runs               *)
(* __trans_scan_body under the protocol of tbb::parallel_scan, which is external: a  *)
(* body made by a split may sum up a piece before the sum in front of it is known   *)
(* (pre-scan), learns that sum from the body on its left (reverse_join), and writes *)
(* the results of a piece only then (final scan). A value is the sequence of what   *)
(* was combined (any associative operation); the initial value is the term -1 and   *)
(* element i the term i.                                                            *)
EXTENDS Integers, Sequences

CONSTANTS MaxSum, Grain,   \* bound on the length of the range to reduce; the grain size
          MaxScan          \* bound on the length of the range to scan

(* The code's grain size is 3.                                                      *)
ASSUME SizesAssumption == MaxSum \in Nat /\ Grain \in Nat /\ Grain >= 3
ASSUME ScanAssumption == MaxScan \in Nat

Terms(i, j) == [k \in 1..(j - i) |-> i + k - 1]
-------------------------------------------------------------------------------
(* __parallel_transform_reduce.                                                     *)
VARIABLES sumN, given, x, pieces, bodies, sumPc, answer

NoSum == << >>             \* _M_has_sum is false

Places(m) == {m}           \* the elements are told apart by their places alone
NeverShort(m, r) == FALSE
NoTrivialAnswer(m, r) == NoSum
Initial(m, r) == Terms(-1, 0)
NoValueYet(m, r) == NoSum

\* operator(): a body without a value starts with two elements of its piece.
BodyCall(r, i, j, sum) ==
  {<<r, IF sum = NoSum THEN (Terms(i, i + 1) \o Terms(i + 1, i + 2)) \o Terms(i + 2, j)
                       ELSE sum \o Terms(i, j)>>}

\* [mutant] The operands are swapped.
Combined_Swapped(r, a, b) == {<<r, b \o a>>}

Combined(r, a, b) == {<<r, a \o b>>}

Sum(r, sum) == sum

Reduce == INSTANCE ParallelReduce WITH
  n <- sumN, pc <- sumPc, MaxN <- MaxSum,
  Contents <- Places, Short <- NeverShort, Trivial <- NoTrivialAnswer, First <- Initial,
  Identity <- NoValueYet, RealBody <- BodyCall, Reduction <- Combined, Answer <- Sum
-------------------------------------------------------------------------------
\* Every variable stays in its set.
TypeOK ==
  /\ sumN \in 0..MaxSum /\ given = sumN /\ x = given
  /\ pieces \subseteq {p \in (0..sumN) \X (0..sumN) : p[1] <= p[2]}
  /\ \A b \in bodies : b.lo \in 0..sumN /\ b.hi \in b.lo..sumN /\ b.val \in Seq(-1..(sumN - 1))
  /\ sumPc \in {"begin", "reduce", "done"}

\* "generalized non-commutative sum" (parallel_backend_tbb.h:149): the result is
\* the initial value and every element once, in the order of the range, although
\* the bodies split by a thief start without a value.
ResultIsExact == sumPc = "done" => answer = {Terms(-1, sumN)}

\* A piece that a new body may be given never has fewer than the two elements the
\* body combines without a test (parallel_backend_tbb.h:196).
TwoElementsLeft == \A p \in pieces : p[1] # 0 => p[2] - p[1] >= 2
-------------------------------------------------------------------------------
(* __parallel_transform_scan.                                                       *)
VARIABLES scanN, inclusive, \* the length of the range; _Inclusive
          unscanned,        \* the pieces <<i, j>> that had no final scan
          summed,           \* the pieces that had a pre-scan
          scanBodies,       \* the bodies: where each was split off, the part it stands for, _M_sum_storage
          out,              \* out[e]: the value written for element e
          scanPc, scanTotal \* __body.sum(), once returned

scanVars == <<scanN, inclusive, unscanned, summed, scanBodies, out, scanPc, scanTotal>>

Raw == <<-2>>              \* storage no value was constructed in: _M_has_sum is false

ScanBody(at, lo, hi, sum) == [at |-> at, lo |-> lo, hi |-> hi, sum |-> sum]
InPlaceOf(b, c) == (scanBodies \ {b}) \cup {c}

\* The ways the scheduler may cut the range into pieces: what lies between
\* neighbours among the ends of the pieces.
Between(ends) == {q \in ends \X ends : q[1] < q[2] /\ (\A k \in ends : k <= q[1] \/ q[2] <= k)}
Tilings(m) == {Between(S \cup {0, m}) : S \in SUBSET (1..(m - 1))}

ScanInit ==
  /\ scanN \in 0..MaxScan
  /\ inclusive \in BOOLEAN
  /\ unscanned \in Tilings(scanN)
  /\ summed = {}
  /\ scanBodies = {ScanBody(0, 0, 0, Terms(-1, 0))}
  /\ out = [e \in 0..(scanN - 1) |-> Raw]
  /\ scanPc = "scan" /\ scanTotal = Raw

\* A thief gets a body of its own for a piece (the splitting constructor).
SplitBody(p) ==
  /\ p \in unscanned
  /\ p[1] # 0
  /\ \A b \in scanBodies : b.at # p[1]
  /\ scanBodies' = scanBodies \cup {ScanBody(p[1], p[1], p[1], Raw)}
  /\ UNCHANGED <<scanN, inclusive, unscanned, summed, out, scanPc, scanTotal>>

\* The sum after a pre-scan of <<i, j>>: a body without one starts with element i.
PreScanned(sum, i, j) ==
  IF sum = Raw THEN Terms(i, i + 1) \o Terms(i + 1, j) ELSE sum \o Terms(i, j)

PreScan(b, p) ==
  /\ b \in scanBodies /\ p \in unscanned \ summed
  /\ b.lo # 0 /\ b.hi = p[1]
  /\ summed' = summed \cup {p}
  /\ scanBodies' = InPlaceOf(b, ScanBody(b.at, b.lo, p[2], PreScanned(b.sum, p[1], p[2])))
  /\ UNCHANGED <<scanN, inclusive, unscanned, out, scanPc, scanTotal>>

\* [mutant] The operands are swapped.
Joined_Swapped(a, b) == IF b.sum = Raw THEN a.sum ELSE b.sum \o a.sum

\* The sum of body b after reverse_join(a).
Joined(a, b) == IF b.sum = Raw THEN a.sum ELSE a.sum \o b.sum

\* Body b was split off where what body a stands for ends.
ReverseJoin(a, b) ==
  /\ scanPc = "scan"
  /\ a \in scanBodies /\ b \in scanBodies
  /\ a.hi = b.lo /\ b.lo # 0
  /\ scanBodies' = InPlaceOf(b, ScanBody(b.at, a.lo, b.hi, Joined(a, b)))
  /\ UNCHANGED <<scanN, inclusive, unscanned, summed, out, scanPc, scanTotal>>

\* A body that stands for all that lies before a piece writes the results of it.
FinalScan(b, p) ==
  /\ b \in scanBodies /\ p \in unscanned
  /\ b.lo = 0 /\ b.hi = p[1]
  /\ unscanned' = unscanned \ {p}
  /\ scanBodies' = InPlaceOf(b, ScanBody(b.at, 0, p[2], b.sum \o Terms(p[1], p[2])))
  /\ out' = [e \in DOMAIN out |->
               IF e \in p[1]..(p[2] - 1) THEN b.sum \o Terms(p[1], IF inclusive THEN e + 1 ELSE e) ELSE out[e]]
  /\ UNCHANGED <<scanN, inclusive, summed, scanPc, scanTotal>>

\* assign: the caller's body takes the sum of the body that scanned the last piece.
ScanReturn(b) ==
  /\ scanPc = "scan" /\ unscanned = {}
  /\ b \in scanBodies
  /\ b.lo = 0 /\ b.hi = scanN
  /\ scanPc' = "done" /\ scanTotal' = b.sum
  /\ UNCHANGED <<scanN, inclusive, unscanned, summed, scanBodies, out>>

ScanNext ==
  \/ \E p \in unscanned : SplitBody(p)
  \/ \E b \in scanBodies, p \in unscanned : PreScan(b, p) \/ FinalScan(b, p)
  \/ \E a \in scanBodies, b \in scanBodies : ReverseJoin(a, b)
  \/ \E b \in scanBodies : ScanReturn(b)

ScanSpec == ScanInit /\ [][ScanNext]_scanVars
-------------------------------------------------------------------------------
\* Every result is the initial value and the elements before it (with it, when the
\* scan is inclusive) once and in order, and the sum returned is that of all of
\* them (parallel_backend_tbb.h:253-299), although bodies begin without a sum, some
\* of them never see a pre-scan, and each learns what lies before it at any time.
ScanResultsAreExact ==
  scanPc = "done" => /\ \A e \in 0..(scanN - 1) : out[e] = Terms(-1, IF inclusive THEN e + 1 ELSE e)
                     /\ scanTotal = Terms(-1, scanN)
===============================================================================
