----------------------------- MODULE NaturalLemmas -----------------------------
(* Facts about the natural numbers that the proofs of several modules use:     *)
(* induction, in a form that takes a set instead of an operator, and division. *)
EXTENDS Integers, FiniteSetTheorems, TLAPS

(* Induction over the naturals for a set of them: a set that holds 0 and, with *)
(* each number, the next one holds all. A least counterexample is a minimal    *)
(* element of the intervals 0..x, which strict inclusion orders well.          *)
LEMMA LeastNumber ==
  ASSUME NEW T, T \subseteq Nat, T # {}
  PROVE  \E x \in T : \A y \in T : x <= y
<1> DEFINE U == {0..x : x \in T}
           R == StrictSubsetOrdering(Nat)
<1>1. U \subseteq FiniteSubsetsOf(Nat) /\ U # {}
  <2>1. \A x \in T : IsFiniteSet(0..x) /\ 0..x \in SUBSET Nat
    BY FS_Interval
  <2> QED BY <2>1 DEF FiniteSubsetsOf
<1>2. IsWellFoundedOn(R, FiniteSubsetsOf(Nat))
  BY FS_StrictSubsetOrderingWellFounded
<1>3. \E u \in U : \A v \in U : <<v, u>> \notin R
  <2> HIDE DEF R, U
  <2> QED BY <1>1, <1>2, WFMin
<1>4. PICK x \in T : \A y \in T : <<0..y, 0..x>> \notin R
  <2> HIDE DEF R
  <2> QED BY <1>3
<1>5. ASSUME NEW y \in T, y < x PROVE FALSE
  <2>1. 0..y \subseteq 0..x /\ 0..y # 0..x
    <3>1. x \in 0..x /\ x \notin 0..y
      BY <1>5
    <3> QED BY <1>5, <3>1
  <2>2. <<0..y, 0..x>> \in R
    BY <2>1 DEF StrictSubsetOrdering
  <2> QED BY <1>4, <2>2
<1> QED BY <1>5

LEMMA Induction ==
  ASSUME NEW S, 0 \in S, \A i \in Nat : i \in S => i + 1 \in S
  PROVE  Nat \subseteq S
<1> SUFFICES ASSUME Nat \ S # {} PROVE FALSE
  OBVIOUS
<1>1. PICK x \in Nat \ S : \A y \in Nat \ S : x <= y
  BY LeastNumber
<1>2. x # 0 /\ x - 1 \in Nat
  BY <1>1
<1>3. x - 1 \in S
  BY <1>1, <1>2
<1> QED BY <1>1, <1>2, <1>3

(* Quotient and remainder, the only facts about division that are needed.      *)
LEMMA Division ==
  ASSUME NEW a \in Nat, NEW b \in Nat \ {0}
  PROVE  /\ a \div b \in Nat
         /\ b * (a \div b) <= a
         /\ a - b * (a \div b) < b
OBVIOUS

\* The quotient is the only one whose remainder is less than the divisor.
LEMMA DivisionUnique ==
  ASSUME NEW b \in Nat \ {0}, NEW q \in Nat, NEW r \in 0..(b - 1)
  PROVE  (b * q + r) \div b = q /\ (b * q + r) % b = r
<1> DEFINE a == b * q + r
           d == a \div b
<1>1. a \in Nat
  OBVIOUS
<1>2. d \in Nat /\ b * d <= a /\ a - b * d < b
  <2> HIDE DEF a
  <2> QED BY <1>1, Division
<1>3. d = q
  <2> HIDE DEF d
  <2>1. d > q => b * d >= b * q + b
    <3>1. d > q => b * (d - q) >= b
      BY <1>2
    <3> QED BY <1>2, <3>1
  <2>2. d < q => b * q >= b * d + b
    <3>1. d < q => b * (q - d) >= b
      BY <1>2
    <3> QED BY <1>2, <3>1
  <2> QED BY <1>2, <2>1, <2>2
<1>4. a % b = a - b * (a \div b)
  <2> HIDE DEF a
  <2> QED BY <1>1
<1> QED BY <1>3, <1>4
===============================================================================
