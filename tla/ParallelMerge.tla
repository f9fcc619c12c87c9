----------------------------- MODULE ParallelMerge -----------------------------
(* __parallel_merge of the TBB and OpenMP backends, and its callers merge and  *)
(* inplace_merge. A merge too long for one task is cut into one of what goes   *)
(* before the cut and one of what goes after it, which run at the same time.   *)
(* inplace_merge moves the elements to a raw buffer and back.                  *)
EXTENDS BufferedElements

CONSTANTS MaxN, Keys,  \* bounds on the length of both sequences together, the keys
          CutOff       \* _ONEDPL_MERGE_CUT_OFF, or __default_chunk_size with OpenMP

(* With a cut-off of 1 two elements in order would be cut into none and both.  *)
ASSUME ConstantsAssumption ==
  MaxN \in Nat /\ Keys \subseteq Nat \ {0} /\ CutOff \in Nat \ {0, 1}

VARIABLES n, middle,   \* the first sequence is [0, middle), the second [middle, n)
          inplace,     \* the caller is inplace_merge
          input,       \* what the caller passes
          x,           \* the slots of both sequences
          z,           \* the slots of the output, or of the buffer
          tasks,       \* the merges that have not ended, by the ranges they read
          ok,          \* no slot has been misused
          pc

args == <<n, middle, inplace, input>>
vars == <<n, middle, inplace, input, x, z, tasks, ok, pc>>

Before(a, b) == Less(a, b) \/ (a[1] = b[1] /\ a[2] < b[2])
Slots == Span(0, n)

SizeX(t) == t.xe - t.xs
SizeY(t) == t.ye - t.ys
Size(t) == SizeX(t) + SizeY(t)
OutBegin(t) == t.xs + (t.ys - middle)
InputSlots(t) == Span(t.xs, t.xe) \cup Span(t.ys, t.ye)
OutputSlots(t) == Span(OutBegin(t), OutBegin(t) + Size(t))

Init ==
  /\ n \in 0..MaxN
  /\ middle \in 0..n
  /\ inplace \in BOOLEAN
  /\ \E key \in [Slots -> Keys] :
       /\ \A i \in Slots, j \in Slots :
            i < j /\ (j < middle \/ middle <= i) => key[i] <= key[j]
       /\ input = [i \in Slots |-> <<key[i], i>>]
  /\ x = input
  /\ z = [i \in Slots |-> Raw]
  /\ tasks = {}
  /\ ok = TRUE
  /\ pc = "begin"

\* inplace_merge returns at once if there is nothing to merge.
Nothing ==
  /\ pc = "begin"
  /\ inplace
  /\ middle \in {0, n}
  /\ pc' = "done"
  /\ UNCHANGED <<args, x, z, tasks, ok>>

\* __parallel_merge: one merge of everything. It begins with the test of its size,
\* like every other, so that a short one has a leaf and nothing else.
Begin ==
  /\ pc = "begin"
  /\ inplace => middle \notin {0, n}
  /\ tasks' = {[xs |-> 0, xe |-> middle, ys |-> middle, ye |-> n]}
  /\ pc' = "merge"
  /\ UNCHANGED <<args, x, z, ok>>

\* [mutant] Of equal elements those of the second sequence go first.
Merges_YFirst(t, out) ==
  /\ \A s \in InputSlots(t) : \E i \in OutputSlots(t) : out[i] = s
  /\ \A i \in OutputSlots(t), j \in OutputSlots(t) : i < j =>
       \/ Less(x[out[i]], x[out[j]])
       \/ ~Less(x[out[j]], x[out[i]]) /\ out[i] > out[j]

\* What std::merge and __serial_move_merge do with two sorted sequences: output i
\* gets what was in out[i], those of the first sequence first if they are equal.
Merges(t, out) ==
  /\ \A s \in InputSlots(t) : \E i \in OutputSlots(t) : out[i] = s
  /\ \A i \in OutputSlots(t), j \in OutputSlots(t) : i < j =>
       \/ Less(x[out[i]], x[out[j]])
       \/ ~Less(x[out[j]], x[out[i]]) /\ out[i] < out[j]

\* A short merge is done by the leaf: merge copies, inplace_merge moves into the
\* raw memory of its buffer.
Leaf(t) ==
  /\ t \in tasks
  /\ Size(t) <= CutOff
  /\ \E out \in [OutputSlots(t) -> InputSlots(t)] :
       /\ Merges(t, out)
       /\ z' = [i \in Slots |-> IF i \in OutputSlots(t) THEN x[out[i]] ELSE z[i]]
  /\ x' = [i \in Slots |-> IF inplace /\ i \in InputSlots(t) THEN MovedFrom ELSE x[i]]
  /\ ok' = (/\ ok
            /\ \A i \in InputSlots(t) : IsItem(x[i])
            /\ \A i \in OutputSlots(t) : z[i] = Raw)
  /\ tasks' = tasks \ {t}
  /\ UNCHANGED <<args, pc>>

(* std::upper_bound and std::lower_bound in a sorted range.                    *)
UpperBounds(lo, hi, v) ==
  {k \in lo..hi : \A j \in Span(lo, hi) : (j < k) <=> ~Less(v, x[j])}
LowerBounds(lo, hi, v) ==
  {k \in lo..hi : \A j \in Span(lo, hi) : (j < k) <=> Less(x[j], v)}

\* The test that decides which of the ranges is halved; the other is searched.
HalvesY(t) == SizeX(t) < SizeY(t)

\* [mutant] The second sequence is searched with upper_bound.
Cuts_Unstable(t) ==
  IF HalvesY(t)
    THEN LET ym == t.ys + SizeY(t) \div 2
         IN  {<<xm, ym>> : xm \in UpperBounds(t.xs, t.xe, x[ym])}
    ELSE LET xm == t.xs + SizeX(t) \div 2
         IN  {<<xm, ym>> : ym \in UpperBounds(t.ys, t.ye, x[xm])}

\* Where the ranges are cut: the longer in the middle, the other where the element
\* at that cut belongs.
Cuts(t) ==
  IF HalvesY(t)
    THEN LET ym == t.ys + SizeY(t) \div 2
         IN  {<<xm, ym>> : xm \in UpperBounds(t.xs, t.xe, x[ym])}
    ELSE LET xm == t.xs + SizeX(t) \div 2
         IN  {<<xm, ym>> : ym \in LowerBounds(t.ys, t.ye, x[xm])}

\* [mutant] The piece after the cut begins with the whole of the second sequence.
Split_Overlap(t) ==
  /\ t \in tasks
  /\ Size(t) > CutOff
  /\ \E c \in Cuts(t) :
       tasks' = (tasks \ {t}) \cup {[t EXCEPT !.xe = c[1], !.ye = c[2]], [t EXCEPT !.xs = c[1]]}
  /\ UNCHANGED <<args, x, z, ok, pc>>

\* A long merge: what follows the cut is spawned, this task goes on with the rest.
Split(t) ==
  /\ t \in tasks
  /\ Size(t) > CutOff
  /\ \E c \in Cuts(t) :
       tasks' = (tasks \ {t}) \cup {[t EXCEPT !.xe = c[1], !.ye = c[2]],
                                    [t EXCEPT !.xs = c[1], !.ys = c[2]]}
  /\ UNCHANGED <<args, x, z, ok, pc>>

\* All merges have ended; merge returns.
ReturnCopied ==
  /\ pc = "merge"
  /\ tasks = {}
  /\ ~inplace
  /\ pc' = "done"
  /\ UNCHANGED <<args, x, z, tasks, ok>>

\* [mutant] What is moved back is not destroyed.
MoveBack_NotDestroyed ==
  /\ pc = "merge"
  /\ tasks = {}
  /\ inplace
  /\ x' = z
  /\ z' = z
  /\ ok' = (ok /\ \A i \in Slots : IsItem(z[i]))
  /\ pc' = "done"
  /\ UNCHANGED <<args, tasks>>

\* All merges have ended; inplace_merge moves the elements back and destroys what
\* is left in the buffer.
MoveBack ==
  /\ pc = "merge"
  /\ tasks = {}
  /\ inplace
  /\ x' = z
  /\ z' = [i \in Slots |-> Raw]
  /\ ok' = (ok /\ \A i \in Slots : IsItem(z[i]))
  /\ pc' = "done"
  /\ UNCHANGED <<args, tasks>>

Next ==
  \/ Nothing \/ Begin \/ ReturnCopied \/ MoveBack
  \/ \E t \in tasks : Leaf(t) \/ Split(t)

Spec == Init /\ [][Next]_vars

-------------------------------------------------------------------------------
\* Every variable stays in its set, and the tasks in the two sequences.
Items == Keys \X Slots
IsTask(t) ==
  /\ t.xs \in 0..t.xe /\ t.xe \in 0..middle
  /\ t.ys \in middle..t.ye /\ t.ye \in middle..n
TypeOK ==
  /\ n \in 0..MaxN /\ middle \in 0..n /\ inplace \in BOOLEAN
  /\ input \in [Slots -> Items]
  /\ x \in [Slots -> Items \cup {MovedFrom}]
  /\ z \in [Slots -> Items \cup {Raw, MovedFrom}]
  /\ tasks \subseteq [xs : 0..n, xe : 0..n, ys : 0..n, ye : 0..n]
  /\ \A t \in tasks : IsTask(t)
  /\ ok \in BOOLEAN
  /\ pc \in {"begin", "merge", "done"}

(* Where the result is.                                                        *)
Output == IF inplace THEN x ELSE z

\* When the call returns, the output holds elements of the input, in the order of
\* a stable merge: in strict order, so none of them twice and none is lost
\* (parallel_backend_tbb.h:1249-1258 and omp/parallel_merge.h:45-54, upper_bound on
\* one side and lower_bound on the other).
MergedStably ==
  pc = "done" =>
    /\ \A i \in Slots : \E s \in Slots : Output[i] = input[s]
    /\ \A i \in Slots, j \in Slots : i < j => Before(Output[i], Output[j])

\* No output slot is written twice, no element is read after it was moved, and
\* the buffer of inplace_merge is raw memory again when it is freed
\* (algorithm_impl.h:2933-2957).
LifetimesKept ==
  /\ ok
  /\ pc = "done" /\ inplace => \A i \in Slots : z[i] = Raw

\* Of two merges that are under way one lies before the other in both sequences:
\* they share no slot of the input, which may be moved from, nor of the output.
Precedes(t, u) == t.xe <= u.xs /\ t.ye <= u.ys
NoSharedSlot == \A t \in tasks, u \in tasks : t # u => Precedes(t, u) \/ Precedes(u, t)

\* Whatever has been merged and whatever remains, what a merge still has to output
\* belongs between what is on its left and what is on its right: each cut is final
\* although it is taken before anything is merged.
CutsAreFinal ==
  \A t \in tasks : \A s \in InputSlots(t) :
    /\ \A u \in tasks : u # t /\ Precedes(t, u) => \A v \in InputSlots(u) : Before(x[s], x[v])
    /\ \A i \in Slots : z[i] # Raw =>
         /\ i < OutBegin(t) => Before(z[i], x[s])
         /\ i >= OutBegin(t) => Before(x[s], z[i])
===============================================================================
