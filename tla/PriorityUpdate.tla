---------------------------- MODULE PriorityUpdate ----------------------------
(* What __parallel_find promises to its callers: a shared cell that only ever  *)
(* moves towards a better candidate and that holds the best one when the call  *)
(* returns (the "priority update" of the comment in parallel_impl.h). Nothing  *)
(* is said of chunks, threads or compare-and-swap.                             *)
EXTENDS Integers

CONSTANT MaxN          \* bound on the length of the range

VARIABLES n,           \* length of the range
          isFirst,     \* look for the first (TRUE) or the last match
          match,       \* the indices the predicate accepts
          best,        \* the cell
          answer       \* what the call returned, or Running

puVars == <<n, isFirst, match, best, answer>>

Running == -2

\* __comp: "a is a better answer than b".
Better(first, a, b) == IF first THEN a < b ELSE a > b

\* __initial_dist: worse than every index of the range.
Initial(first, len) == IF first THEN len ELSE -1

\* What std::find_if / find_end would return, as a distance: the match no other
\* match is better than, or the length of the range when there is none.
IsAnswer(first, len, accepted, r) ==
  IF accepted = {}
    THEN r = len
    ELSE r \in accepted /\ \A m \in accepted : ~Better(first, m, r)

Init ==
  /\ n \in 0..MaxN
  /\ isFirst \in BOOLEAN
  /\ match \in SUBSET (0..(n - 1))
  /\ best = Initial(isFirst, n)
  /\ answer = Running

Improve ==
  /\ answer = Running
  /\ \E m \in match : Better(isFirst, m, best) /\ best' = m
  /\ UNCHANGED <<n, isFirst, match, answer>>

Return ==
  /\ answer = Running
  /\ answer' \in 0..n
  /\ IsAnswer(isFirst, n, match, answer')
  /\ best = IF match = {} THEN Initial(isFirst, n) ELSE answer'
  /\ UNCHANGED <<n, isFirst, match, best>>

Next == Improve \/ Return

Spec == Init /\ [][Next]_puVars
===============================================================================
