------------------------------ MODULE RandomStream ------------------------------
(* What a distribution promises: its numbers come one after the other from the      *)
(* numbers of the engine, however the caller asks for them. A distribution either   *)
(* makes one number of each, or takes the engine's numbers two at a time and makes  *)
(* a pair of them, of which it may still owe the second.                            *)
EXTENDS Integers, Sequences

CONSTANT MaxVector       \* the longest vector a call returns

VARIABLES paired,        \* numbers are made in pairs
          taken,         \* numbers taken from the engine
          pending,       \* the two numbers a pair was made of whose second is owed, or << >>
          delivered      \* the numbers of the last call

vars == <<paired, taken, pending, delivered>>

One(k) == <<"one", k>>
First(u) == <<"sin", u[1], u[2]>>
Second(u) == <<"cos", u[1], u[2]>>

Init ==
  /\ paired \in BOOLEAN
  /\ taken = 0 /\ pending = << >> /\ delivered = << >>

DeliverSingly(m) ==
  /\ ~paired
  /\ delivered' = [i \in 1..m |-> One(taken + i - 1)]
  /\ taken' = taken + m
  /\ UNCHANGED <<paired, pending>>

\* The owed number comes first; m numbers finish or start as many pairs as it takes.
DeliverFromPairs(m) ==
  LET owed == IF m > 0 /\ pending # << >> THEN 1 ELSE 0
      pairs == (m - owed + 1) \div 2
      Pair(k) == <<taken + 2 * k, taken + 2 * k + 1>>
  IN  /\ paired
      /\ delivered' = [i \in 1..m |->
           IF i <= owed THEN Second(pending)
           ELSE LET j == i - owed - 1
                IN  IF j % 2 = 0 THEN First(Pair(j \div 2)) ELSE Second(Pair(j \div 2))]
      /\ taken' = taken + 2 * pairs
      /\ pending' = IF m = 0 THEN pending ELSE IF (m - owed) % 2 = 1 THEN Pair(pairs - 1) ELSE << >>
      /\ UNCHANGED paired

\* reset(): what comes next does not depend on what came before.
Reset == pending' = << >> /\ delivered' = << >> /\ UNCHANGED <<paired, taken>>

Next ==
  \/ \E m \in 0..MaxVector : DeliverSingly(m) \/ DeliverFromPairs(m)
  \/ Reset

Spec == Init /\ [][Next]_vars
===============================================================================
