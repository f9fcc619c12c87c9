----------------------------- MODULE ScanContract -----------------------------
(* What __parallel_strict_scan promises its callers (the comment before it): [0, n) is    *)
(* cut into blocks; reduce is called once per block, then apex once, with the  *)
(* sum of everything, then scan once per block, with the sum of what comes     *)
(* before the block. Sums are of an associative operation that need not        *)
(* commute: the sum of a range is the range itself, from its first to past its *)
(* last element, and the initial value is an element of its own, at -1.        *)
EXTENDS Integers, BagsExt, Bags

CONSTANT NoSum         \* what total is before apex has been called

VARIABLES n,           \* the length of the range
          reduced,     \* bag of the blocks <<i, len>> reduce has been called with
          total,       \* the argument of apex, NoSum before the call
          scanned,     \* bag of the blocks scan has been called with, and the sums
          returned     \* the call has returned

vars == <<n, reduced, total, scanned, returned>>

Overlap(b, c) == b[1] < c[1] + c[2] /\ c[1] < b[1] + b[2]

Covered == \A i \in 0..(n - 1) : \E b \in DOMAIN reduced : Overlap(b, <<i, 1>>)

Init ==
  /\ n \in Nat
  /\ reduced = EmptyBag
  /\ total = NoSum
  /\ scanned = EmptyBag
  /\ returned = FALSE

\* A block is handed to reduce: no element of it has been before.
Reduce(i, len) ==
  /\ total = NoSum
  /\ ~returned
  /\ \A b \in DOMAIN reduced : ~Overlap(b, <<i, len>>)
  /\ reduced' = BagAdd(reduced, <<i, len>>)
  /\ UNCHANGED <<n, total, scanned, returned>>

\* apex is called once, with the whole sum, when every block has been reduced.
Apex ==
  /\ total = NoSum
  /\ ~returned
  /\ Covered
  /\ total' = <<-1, n>>
  /\ UNCHANGED <<n, reduced, scanned, returned>>

\* A block that was reduced is scanned from the sum of all that precedes it.
Scan(i, len) ==
  /\ total # NoSum
  /\ ~returned
  /\ <<i, len>> \in DOMAIN reduced
  /\ \A s \in DOMAIN scanned : s[1] # i
  /\ scanned' = BagAdd(scanned, <<i, len, <<-1, i>>>>)
  /\ UNCHANGED <<n, reduced, total, returned>>

\* The call returns when every block has been scanned.
Return ==
  /\ total # NoSum
  /\ ~returned
  /\ \A b \in DOMAIN reduced : <<b[1], b[2], <<-1, b[1]>>>> \in DOMAIN scanned
  /\ returned' = TRUE
  /\ UNCHANGED <<n, reduced, total, scanned>>

Next ==
  \/ \E i \in 0..(n - 1) : \E len \in 1..(n - i) : Reduce(i, len) \/ Scan(i, len)
  \/ Apex
  \/ Return

Spec == Init /\ [][Next]_vars
===============================================================================
