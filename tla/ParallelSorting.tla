---------------------------- MODULE ParallelSorting ----------------------------
(* The parallel algorithms of the backends that order elements: merge and        *)
(* inplace_merge over __parallel_merge, and the sorts over                        *)
(* __parallel_stable_sort. A behaviour is one call of one of them; the other      *)
(* stands where a call on an empty range has left it.                            *)
EXTENDS ParallelMerge, ParallelStableSort

MergeEnded ==
  /\ n = 0 /\ middle = 0 /\ inplace = FALSE
  /\ input = << >> /\ x = << >> /\ z = << >>
  /\ tasks = {} /\ ok = TRUE
  /\ pc = "done"

SortEnded ==
  /\ cutOff = (CHOOSE c \in SortCutOffs : TRUE) /\ sortN = 0 /\ nsort = 1 /\ stable = TRUE
  /\ mem = [x |-> << >>, z |-> << >>, ok |-> TRUE]
  /\ sorts = {} /\ merges = << >> /\ refcount = << >>
  /\ sortPc = "done"

SortingInit == (Init /\ SortEnded) \/ (MergeEnded /\ SortInit)

SortingNext ==
  \/ Next /\ UNCHANGED sortVars
  \/ SortNext /\ UNCHANGED vars

\* A worker of the pool always goes on with some task that can.
SortingSpec ==
  SortingInit /\ [][SortingNext]_<<vars, sortVars>> /\ WF_<<vars, sortVars>>(SortingNext)
-------------------------------------------------------------------------------
\* Every call ends: a merge's cuts leave shorter merges, and in a sort every parent
\* gets its turn (parallel_backend_tbb.h:661-685, 1249-1273).
EveryCallEnds == <>(pc = "done" /\ sortPc = "done")
===============================================================================
