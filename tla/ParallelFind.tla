----------------------------- MODULE ParallelFind -----------------------------
(* __parallel_find: the subranges ("chunks") of [0, n) are searched by tasks   *)
(* that run in any order and at the same time, and that meet in one atomic     *)
(* cell, extremum. The module has one action per access to that cell.          *)
EXTENDS Integers

CONSTANT MaxN          \* bound on the length of the range

ASSUME MaxNAssumption == MaxN \in Nat

VARIABLES n,           \* __n
          isFirst,     \* _IsFirst::value
          match,       \* indices of [0, n) the brick's predicate accepts
          chunks,      \* the subranges <<i, j>> the backend calls the body with
          extremum,    \* the atomic __extremum
          pc,          \* pc[c]: the next access chunk c's task makes
          res,         \* res[c]: __res - __first, once the brick has run
          old,         \* old[c]: __old, the value last read from extremum
          answer       \* the returned distance, Running before that

input == <<n, isFirst, match, chunks>>
vars == <<n, isFirst, match, chunks, extremum, pc, res, old, answer>>

Running == -2
Better(first, a, b) == IF first THEN a < b ELSE a > b
Initial(first, len) == IF first THEN len ELSE -1
In(k, c) == c[1] <= k /\ k < c[2]

(* The TBB backend splits [0, n) into disjoint non-empty subranges that cover  *)
(* it, as its scheduler likes; the chunks of the OpenMP backend are one such    *)
(* split, except that an empty range is one empty chunk there.                 *)
IsTiling(C, len) ==
  /\ \A k \in 0..(len - 1) : \E c \in C : In(k, c)
  /\ \A c \in C, d \in C : c # d => c[2] <= d[1] \/ d[2] <= c[1]

Subranges(len) == {c \in (0..len) \X (0..len) : c[1] < c[2] \/ (len = 0 /\ c[1] = c[2])}

\* The brick f[i, j): the first (last) match of the chunk, or j.
BrickResult(first, accepted, c, r) ==
  LET found == {k \in accepted : In(k, c)}
  IN  IF found = {}
        THEN r = c[2]
        ELSE r \in found /\ \A m \in found : ~Better(first, m, r)

Init ==
  /\ n \in 0..MaxN
  /\ isFirst \in BOOLEAN
  /\ match \in SUBSET (0..(n - 1))
  /\ chunks \in SUBSET Subranges(n)
  /\ IsTiling(chunks, n)
  /\ extremum = Initial(isFirst, n)
  /\ pc = [c \in chunks |-> "check"]
  /\ res = [c \in chunks |-> c[2]]
  /\ old = [c \in chunks |-> Initial(isFirst, n)]
  /\ answer = Running

\* [mutant] The early exit compares the end of the chunk with the cell.
Check_WrongBound(c) ==
  /\ pc[c] = "check"
  /\ pc' = [pc EXCEPT ![c] = IF Better(isFirst, c[2], extremum) THEN "brick" ELSE "done"]
  /\ UNCHANGED <<input, extremum, res, old, answer>>

\* if (__comp(__i - __first, __extremum)): a chunk that cannot hold a better
\* match is not searched.
Check(c) ==
  /\ pc[c] = "check"
  /\ pc' = [pc EXCEPT ![c] = IF Better(isFirst, c[1], extremum) THEN "brick" ELSE "done"]
  /\ UNCHANGED <<input, extremum, res, old, answer>>

\* __res = __f(__i, __j); if (__res != __j).
Brick(c) ==
  /\ pc[c] = "brick"
  /\ \E r \in c[1]..c[2] :
       /\ BrickResult(isFirst, match, c, r)
       /\ res' = [res EXCEPT ![c] = r]
       /\ pc' = [pc EXCEPT ![c] = IF r # c[2] THEN "load" ELSE "done"]
  /\ UNCHANGED <<input, extremum, old, answer>>

\* [mutant] The loop condition accepts an equal value and never lets the winner leave.
Load_NotStrict(c) ==
  /\ pc[c] = "load"
  /\ old' = [old EXCEPT ![c] = extremum]
  /\ pc' = [pc EXCEPT ![c] = IF ~Better(isFirst, extremum, res[c]) THEN "cas" ELSE "done"]
  /\ UNCHANGED <<input, extremum, res, answer>>

\* __old = __extremum; __comp(__k, __old): the loop's initialisation, its
\* increment and its condition.
Load(c) ==
  /\ pc[c] = "load"
  /\ old' = [old EXCEPT ![c] = extremum]
  /\ pc' = [pc EXCEPT ![c] = IF Better(isFirst, res[c], extremum) THEN "cas" ELSE "done"]
  /\ UNCHANGED <<input, extremum, res, answer>>

\* __extremum.compare_exchange_weak(__old, __k) that finds __old and stores __k.
CasStore(c) ==
  /\ pc[c] = "cas"
  /\ extremum = old[c]
  /\ extremum' = res[c]
  /\ pc' = [pc EXCEPT ![c] = "load"]
  /\ UNCHANGED <<input, res, old, answer>>

\* [mutant] The loop is left after one failed attempt.
CasFail_NoRetry(c) ==
  /\ pc[c] = "cas"
  /\ old' = [old EXCEPT ![c] = extremum]
  /\ pc' = [pc EXCEPT ![c] = "done"]
  /\ UNCHANGED <<input, extremum, res, answer>>

\* A compare_exchange_weak that fails, because another task stored in between or
\* spuriously; it leaves the value it saw in __old, which the loop reads again.
CasFail(c) ==
  /\ pc[c] = "cas"
  /\ old' = [old EXCEPT ![c] = extremum]
  /\ pc' = [pc EXCEPT ![c] = "load"]
  /\ UNCHANGED <<input, extremum, res, answer>>

\* [mutant] The comparison with __initial_dist uses __n for both directions.
Return_WrongInitial ==
  /\ answer = Running
  /\ \A c \in chunks : pc[c] = "done"
  /\ answer' = IF extremum # n THEN extremum ELSE n
  /\ UNCHANGED <<input, extremum, pc, res, old>>

\* The parallel loop is over; return __extremum != __initial_dist ? ... : __last.
Return ==
  /\ answer = Running
  /\ \A c \in chunks : pc[c] = "done"
  /\ answer' = IF extremum # Initial(isFirst, n) THEN extremum ELSE n
  /\ UNCHANGED <<input, extremum, pc, res, old>>

Step(c) == Check(c) \/ Brick(c) \/ Load(c) \/ CasStore(c) \/ CasFail(c)

Next == (\E c \in chunks : Step(c)) \/ Return

Spec == Init /\ [][Next]_vars
-------------------------------------------------------------------------------
\* Every variable stays in its set.
TypeOK ==
  /\ n \in 0..MaxN
  /\ isFirst \in BOOLEAN
  /\ match \subseteq 0..(n - 1)
  /\ chunks \subseteq Subranges(n)
  /\ extremum \in -1..n
  /\ pc \in [chunks -> {"check", "brick", "load", "cas", "done"}]
  /\ res \in [chunks -> 0..n]
  /\ old \in [chunks -> -1..n]
  /\ answer \in 0..n \cup {Running}

IsAnswer(r) ==
  IF match = {}
    THEN r = n
    ELSE r \in match /\ \A m \in match : ~Better(isFirst, m, r)

\* The call returns exactly what the sequential search would: the first (last)
\* match of the whole range, or its end (parallel_impl.h:33), however the chunks
\* were ordered and whatever they were refused by the early exit of line 51.
AnswerIsExtremum == answer # Running => IsAnswer(answer)

\* A chunk whose task has ended holds no match better than the cell: neither the
\* early exit (line 51) nor a lost compare-and-swap (line 61) may forget one.
NothingForgotten ==
  \A c \in chunks : pc[c] = "done" =>
    \A m \in match : In(m, c) => ~Better(isFirst, m, extremum)

\* A stored value is never replaced by a worse one: the compare-and-swap of a
\* task that was overtaken between its read and its write must not store
\* (parallel_impl.h:58-62).
NeverWorse == [][extremum' # extremum => Better(isFirst, extremum', extremum)]_extremum

(* The inductive strengthening of the two invariants above. Chunks do not      *)
(* overlap (ChunksTile), a task past its brick holds the best match of its own *)
(* chunk (ResultOfChunk) and, between the loop's test and its compare-and-swap,*)
(* one better than the value it read (OldIsWorse); the cell holds its initial  *)
(* value or a match (CellIsMatch), and a match of a chunk that has been         *)
(* searched (CellFromSearched): a backward search relies on the last one when  *)
(* it compares the beginning of a chunk with the cell.                         *)
ChunksTile == IsTiling(chunks, n)
ResultOfChunk ==
  \A c \in chunks : pc[c] \in {"load", "cas"} =>
    /\ res[c] \in match
    /\ \A m \in match : In(m, c) => ~Better(isFirst, m, res[c])
    /\ In(res[c], c)
OldIsWorse == \A c \in chunks : pc[c] = "cas" => Better(isFirst, res[c], old[c])
CellIsMatch == extremum = Initial(isFirst, n) \/ extremum \in match
AnswerAfterAll == answer # Running => \A c \in chunks : pc[c] = "done"
CellFromSearched ==
  \A c \in chunks : In(extremum, c) => pc[c] \in {"load", "cas", "done"}

IInv ==
  /\ TypeOK
  /\ ChunksTile
  /\ ResultOfChunk
  /\ OldIsWorse
  /\ CellIsMatch
  /\ CellFromSearched
  /\ NothingForgotten
  /\ AnswerIsExtremum
  /\ AnswerAfterAll

\* __parallel_find implements the priority update of its comment (lines 49-50).
Abstract == INSTANCE PriorityUpdate WITH best <- extremum
Refines == Abstract!Spec
===============================================================================
