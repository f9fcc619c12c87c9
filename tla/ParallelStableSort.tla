-------------------------- MODULE ParallelStableSort --------------------------
(* __parallel_stable_sort of the TBB backend, which sort, stable_sort and      *)
(* partial_sort share. Sort tasks halve the range down to leaves; each half is *)
(* a child of a merge task, the continuation of the sort task it comes from.   *)
(* Merges go back and forth between the range x and the raw buffer z, and a    *)
(* merge too long for one task splits into siblings. A task runs when the last *)
(* of its children, which the reference counts tell, has finished.             *)
(* The elements have a destructor: a slot of z is raw, or holds an object.     *)
EXTENDS BufferedElements, FiniteSets, Sequences

CONSTANTS MaxSort, SortKeys, \* bounds on the length and the set of keys
          SortCutOffs,       \* the values of _ONEDPL_STABLE_SORT_CUT_OFF
          MergeCutOff        \* _ONEDPL_MERGE_CUT_OFF

(* With a cut-off of 1 two elements in order would be cut into none and both.  *)
ASSUME SortAssumption ==
  /\ MaxSort \in Nat /\ SortKeys \subseteq Nat \ {0}
  /\ SortCutOffs \subseteq Nat \ {0} /\ MergeCutOff \in Nat \ {0, 1}

VARIABLES cutOff,            \* a sort task of at most this length is a leaf
          sortN, nsort,      \* the length, and how many elements are to be sorted
          stable,            \* the leaves are sorted with std::stable_sort
          mem,               \* the slots of x and z; ok: no slot has been misused
          sorts,             \* the __stable_sort_func tasks
          merges,            \* the __merge_func tasks, by the range they output
          refcount,          \* _M_refcount of the root and of the merge tasks
          sortPc

sortInput == <<cutOff, sortN, nsort, stable>>
sortVars == <<sortInput, mem, sorts, merges, refcount, sortPc>>

Root == <<-1, -1>>
Minimum(a, b) == IF a < b THEN a ELSE b

-------------------------------------------------------------------------------
(* Moving elements between x and z.                                            *)

\* __move_range_construct: objects are constructed in raw slots of z.
ToBuffer(M, lo, hi) ==
  [x  |-> [i \in DOMAIN M.x |-> IF i \in Span(lo, hi) THEN MovedFrom ELSE M.x[i]],
   z  |-> [i \in DOMAIN M.z |-> IF i \in Span(lo, hi) THEN M.x[i] ELSE M.z[i]],
   ok |-> M.ok /\ \A i \in Span(lo, hi) : IsItem(M.x[i]) /\ M.z[i] = Raw]

\* __move_range and __cleanup_range: objects are assigned to x, destroyed in z.
ToOrigin(M, lo, hi) ==
  [x  |-> [i \in DOMAIN M.x |-> IF i \in Span(lo, hi) THEN M.z[i] ELSE M.x[i]],
   z  |-> [i \in DOMAIN M.z |-> IF i \in Span(lo, hi) THEN Raw ELSE M.z[i]],
   ok |-> M.ok /\ \A i \in Span(lo, hi) : IsItem(M.z[i])]

SlotsOf(array, lo, hi) == [i \in 1..(hi - lo) |-> array[lo + i - 1]]

\* [mutant] On equal keys the element of the second sequence goes first.
SerialMoveMerge_YFirst(X, Y, nmerge) ==
  LET nx == Len(X)
      ny == Len(Y)
      RestX(i) == SubSeq(X, i + 1, nx)
      RestY(j) == SubSeq(Y, j + 1, ny)
      merged[p \in (0..nx) \X (0..ny)] ==
        LET i == p[1]
            j == p[2]
        IN  IF i = nx THEN RestY(j) ELSE IF j = ny THEN RestX(i)
            ELSE IF i + j = nmerge THEN RestX(i) \o RestY(j)
            ELSE IF ~Less(X[i + 1], Y[j + 1]) THEN <<Y[j + 1]>> \o merged[<<i, j + 1>>]
                                              ELSE <<X[i + 1]>> \o merged[<<i + 1, j>>]
  IN  merged[<<0, 0>>]

\* __serial_move_merge: nmerge elements are merged (more than none), the rest of
\* one sequence follows, and then the rest of the other.
SerialMoveMerge(X, Y, nmerge) ==
  LET nx == Len(X)
      ny == Len(Y)
      RestX(i) == SubSeq(X, i + 1, nx)
      RestY(j) == SubSeq(Y, j + 1, ny)
      merged[p \in (0..nx) \X (0..ny)] ==
        LET i == p[1]
            j == p[2]
        IN  IF i = nx THEN RestY(j)
            ELSE IF j = ny THEN RestX(i)
            ELSE IF Less(Y[j + 1], X[i + 1])
              THEN <<Y[j + 1]>> \o (IF i + j + 1 = nmerge /\ j + 1 < ny
                                      THEN RestY(j + 1) \o RestX(i) ELSE merged[<<i, j + 1>>])
              ELSE <<X[i + 1]>> \o (IF i + j + 1 = nmerge /\ i + 1 < nx
                                      THEN RestX(i + 1) \o RestY(j) ELSE merged[<<i + 1, j>>])
  IN  merged[<<0, 0>>]

MergeInputs(m) == Span(m.xs, m.xe) \cup Span(m.ys, m.ye)
MergeOutputs(m) == Span(m.zs, m.zs + (m.xe - m.xs) + (m.ye - m.ys))

\* The leaf merge of the subranges of m, from x to z or back; what it leaves in z
\* is destroyed.
LeafMerge(M, m) ==
  LET from == IF m.x_orig THEN M.x ELSE M.z
      out  == SerialMoveMerge(SlotsOf(from, m.xs, m.xe), SlotsOf(from, m.ys, m.ye), m.nmerge)
      To(array) == [i \in DOMAIN array |->
                      IF i \in MergeOutputs(m) THEN out[i - m.zs + 1] ELSE array[i]]
      Left(array, v) == [i \in DOMAIN array |-> IF i \in MergeInputs(m) THEN v ELSE array[i]]
      good == M.ok /\ \A i \in MergeInputs(m) : IsItem(from[i])
  IN  IF m.x_orig
        THEN [x |-> Left(M.x, MovedFrom), z |-> To(M.z),
              ok |-> good /\ \A i \in MergeOutputs(m) : M.z[i] = Raw]
        ELSE [x |-> To(M.x), z |-> Left(M.z, Raw), ok |-> good]

-------------------------------------------------------------------------------
(* What std::sort, std::stable_sort and std::partial_sort may do with a leaf,  *)
(* and what std::upper_bound and std::lower_bound may return for a range that  *)
(* is only sorted at its beginning: where a binary search can end.             *)

\* The order of a leaf: index i gets what was at p[i].
LeafOrders(x, lo, hi) ==
  {p \in [Span(lo, hi) -> Span(lo, hi)] :
     \A i \in Span(lo, hi), j \in Span(lo, hi) : i < j =>
       /\ p[i] # p[j]
       /\ i < lo + nsort => ~Less(x[p[j]], x[p[i]])
       /\ stable /\ ~Less(x[p[i]], x[p[j]]) => p[i] < p[j]}

\* The positions std::upper_bound and std::lower_bound may return.
UpperPositions(array, lo, hi, v) ==
  {k \in lo..hi : (k = lo \/ ~Less(v, array[k - 1])) /\ (k = hi \/ Less(v, array[k]))}
LowerPositions(array, lo, hi, v) ==
  {k \in lo..hi : (k = lo \/ Less(array[k - 1], v)) /\ (k = hi \/ ~Less(array[k], v))}

SortInit ==
  /\ cutOff \in SortCutOffs
  /\ sortN \in 0..MaxSort
  /\ stable \in BOOLEAN
  /\ nsort \in 1..(IF sortN = 0 THEN 1 ELSE sortN)
  /\ stable => nsort = IF sortN = 0 THEN 1 ELSE sortN
  /\ \E key \in [Span(0, sortN) -> SortKeys] :
       mem = [x |-> [i \in Span(0, sortN) |-> <<key[i], i>>], z |-> [i \in Span(0, sortN) |-> Raw], ok |-> TRUE]
  /\ sorts = {}
  /\ merges = <<>>
  /\ refcount = <<>>
  /\ sortPc = "begin"

\* A short range is sorted by the caller.
SerialSort ==
  /\ sortPc = "begin"
  /\ sortN <= cutOff
  /\ \E p \in LeafOrders(mem.x, 0, sortN) :
       mem' = [mem EXCEPT !.x = [i \in Span(0, sortN) |-> mem.x[p[i]]]]
  /\ sortPc' = "done"
  /\ UNCHANGED <<sortInput, sorts, merges, refcount>>

\* The root task and the first sort task are created; the caller waits.
SpawnRoot ==
  /\ sortPc = "begin"
  /\ sortN > cutOff
  /\ sorts' = {[lo |-> 0, hi |-> sortN, root |-> TRUE, parent |-> Root, finished |-> FALSE]}
  /\ refcount' = [id \in {Root} |-> 1]
  /\ sortPc' = "wait"
  /\ UNCHANGED <<sortInput, mem, merges>>

\* __stable_sort_func for a leaf.
SortLeaf(s) ==
  /\ s \in sorts
  /\ ~s.finished
  /\ s.hi - s.lo <= cutOff
  /\ \E p \in LeafOrders(mem.x, s.lo, s.hi) :
       mem' = [mem EXCEPT !.x = [i \in Span(0, sortN) |->
                                   IF i \in Span(s.lo, s.hi) THEN mem.x[p[i]] ELSE mem.x[i]]]
  /\ sorts' = (sorts \ {s}) \cup {[s EXCEPT !.finished = TRUE]}
  /\ UNCHANGED <<sortInput, merges, refcount, sortPc>>

\* [mutant] The merge task is told of one child.
SortSplit_OneChild(s) ==
  /\ s \in sorts
  /\ ~s.finished
  /\ s.hi - s.lo > cutOff
  /\ LET mid == s.lo + (s.hi - s.lo) \div 2
         id  == <<s.lo, s.hi>>
         half(lo, hi) == [lo |-> lo, hi |-> hi, root |-> FALSE, parent |-> id, finished |-> FALSE]
     IN  /\ merges' = [i \in DOMAIN merges \cup {id} |->
               IF i # id THEN merges[i]
               ELSE [xs |-> s.lo, xe |-> mid, ys |-> mid, ye |-> s.hi, zs |-> s.lo,
                     x_orig |-> TRUE, y_orig |-> TRUE, root |-> s.root, split |-> FALSE,
                     nmerge |-> Minimum(nsort, s.hi - s.lo), parent |-> s.parent, finished |-> FALSE]]
         /\ refcount' = [i \in DOMAIN refcount \cup {id} |-> IF i = id THEN 1 ELSE refcount[i]]
         /\ sorts' = (sorts \ {s}) \cup {half(s.lo, mid), half(mid, s.hi)}
  /\ UNCHANGED <<sortInput, mem, sortPc>>

\* __stable_sort_func for a longer range: a merge task takes its place, its second
\* half is spawned as a child of that task, and it goes on as the first half.
SortSplit(s) ==
  /\ s \in sorts
  /\ ~s.finished
  /\ s.hi - s.lo > cutOff
  /\ LET mid == s.lo + (s.hi - s.lo) \div 2
         id  == <<s.lo, s.hi>>
         half(lo, hi) == [lo |-> lo, hi |-> hi, root |-> FALSE, parent |-> id, finished |-> FALSE]
     IN  /\ merges' = [i \in DOMAIN merges \cup {id} |->
               IF i # id THEN merges[i]
               ELSE [xs |-> s.lo, xe |-> mid, ys |-> mid, ye |-> s.hi, zs |-> s.lo,
                     x_orig |-> TRUE, y_orig |-> TRUE, root |-> s.root, split |-> FALSE,
                     nmerge |-> Minimum(nsort, s.hi - s.lo), parent |-> s.parent, finished |-> FALSE]]
         /\ refcount' = [i \in DOMAIN refcount \cup {id} |-> IF i = id THEN 2 ELSE refcount[i]]
         /\ sorts' = (sorts \ {s}) \cup {half(s.lo, mid), half(mid, s.hi)}
  /\ UNCHANGED <<sortInput, mem, sortPc>>

\* A task that has run is destroyed, and its parent's count is decremented; the
\* task that brings it to zero runs the parent.
FinishSort(s) ==
  /\ s \in sorts
  /\ s.finished
  /\ sorts' = sorts \ {s}
  /\ refcount' = [refcount EXCEPT ![s.parent] = @ - 1]
  /\ UNCHANGED <<sortInput, mem, merges, sortPc>>

\* [mutant] The pieces of a split merge never release their parent.
FinishMerge_NotReleased(id) ==
  /\ merges[id].finished
  /\ merges' = [i \in DOMAIN merges \ {id} |-> merges[i]]
  /\ refcount' = [i \in DOMAIN refcount \ {id} |->
                    refcount[i] - (IF i = merges[id].parent /\ ~merges[id].split THEN 1 ELSE 0)]
  /\ UNCHANGED <<sortInput, mem, sorts, sortPc>>

\* The same for a merge task.
FinishMerge(id) ==
  /\ merges[id].finished
  /\ merges' = [i \in DOMAIN merges \ {id} |-> merges[i]]
  /\ refcount' = [i \in DOMAIN refcount \ {id} |->
                    refcount[i] - (IF i = merges[id].parent THEN 1 ELSE 0)]
  /\ UNCHANGED <<sortInput, mem, sorts, sortPc>>
-------------------------------------------------------------------------------
(* __merge_func.                                                               *)

Runnable(id) == ~merges[id].finished /\ refcount[id] = 0

(* A merge task m and the memory M after one of its moves.                     *)
MoveX(m, M) ==
  [m |-> [m EXCEPT !.x_orig = ~m.x_orig],
   M |-> IF m.x_orig THEN ToBuffer(M, m.xs, m.xe) ELSE ToOrigin(M, m.xs, m.xe)]
MoveY(m, M) ==
  [m |-> [m EXCEPT !.y_orig = ~m.y_orig],
   M |-> IF m.y_orig THEN ToBuffer(M, m.ys, m.ye) ELSE ToOrigin(M, m.ys, m.ye)]
MoveBoth(m, M) == LET x == MoveX(m, M) IN MoveY(x.m, x.M)

\* operator(): if the halves lie in different containers one of them is moved, at
\* the root into z, elsewhere the shorter one.
Aligned(id) ==
  LET m == merges[id]
  IN  IF m.split \/ m.x_orig = m.y_orig THEN [m |-> m, M |-> mem]
      ELSE IF (IF m.root THEN m.x_orig ELSE m.xe - m.xs < m.ye - m.ys)
        THEN MoveX(m, mem)
        ELSE MoveY(m, mem)

\* x_less_y: nothing in y goes before the last element of x that matters.
XLessY(m, M) ==
  LET from == IF m.x_orig THEN M.x ELSE M.z
  IN  ~Less(from[m.ys], from[m.xs + Minimum(nsort, m.xe - m.xs) - 1])

\* A task that was split never asks.
InOrder(id) == ~merges[id].split /\ LET a == Aligned(id) IN XLessY(a.m, a.M)

\* set_odd: the parent is told where the child has left its output.
SetOdd(ms, parent, idx, orig) ==
  IF parent = Root THEN ms
  ELSE IF ms[parent].xs = idx
    THEN [ms EXCEPT ![parent].x_orig = orig]
    ELSE [ms EXCEPT ![parent].y_orig = orig]

\* [mutant] At the root, too, the sequence stays where it is.
MergeInOrder_StaysInBuffer(id) ==
  /\ Runnable(id)
  /\ InOrder(id)
  /\ LET a == Aligned(id)
     IN  /\ mem' = a.M
         /\ merges' = [SetOdd(merges, a.m.parent, a.m.zs, a.m.x_orig)
                         EXCEPT ![id] = [a.m EXCEPT !.finished = TRUE]]
  /\ UNCHANGED <<sortInput, sorts, refcount, sortPc>>

\* process_ranges, if the two halves are one sorted sequence already: it stays
\* where it is, unless this is the root and it is in z.
MergeInOrder(id) ==
  /\ Runnable(id)
  /\ InOrder(id)
  /\ LET a == Aligned(id)
         b == IF a.m.root /\ ~a.m.x_orig THEN MoveBoth(a.m, a.M) ELSE a
     IN  /\ mem' = b.M
         /\ merges' = [SetOdd(merges, a.m.parent, a.m.zs, a.m.x_orig)
                         EXCEPT ![id] = [b.m EXCEPT !.finished = TRUE]]
  /\ UNCHANGED <<sortInput, sorts, refcount, sortPc>>

(* Any other merge, before its merge_ranges: the root moves its halves to z, so *)
(* that it merges into x. A task that was split has done so before.             *)
ToMerge(id) ==
  LET a == Aligned(id)
  IN  IF ~a.m.split /\ a.m.root /\ a.m.x_orig THEN MoveBoth(a.m, a.M) ELSE a
TellParent(m) == IF m.split THEN merges ELSE SetOdd(merges, m.parent, m.zs, ~m.x_orig)
SizeOf(m) == (m.xe - m.xs) + (m.ye - m.ys)

\* process_ranges and merge_ranges of a short merge.
MergeRanges(id) ==
  /\ Runnable(id)
  /\ ~InOrder(id)
  /\ LET a == ToMerge(id)
     IN  /\ SizeOf(a.m) <= MergeCutOff
         /\ mem' = LeafMerge(a.M, a.m)
         /\ merges' = [TellParent(a.m) EXCEPT ![id] = [a.m EXCEPT !.finished = TRUE]]
  /\ UNCHANGED <<sortInput, sorts, refcount, sortPc>>

\* split_merging: the longer half is cut in the middle, the other where its
\* elements go after (before) the one at the cut.
SplitPoints(m, from) ==
  LET nx == m.xe - m.xs
      ny == m.ye - m.ys
  IN  IF nx < ny
        THEN LET ym == m.ys + ny \div 2
             IN  {<<xm, ym>> : xm \in UpperPositions(from, m.xs, m.xe, from[ym])}
        ELSE LET xm == m.xs + nx \div 2
             IN  {<<xm, ym>> : ym \in LowerPositions(from, m.ys, m.ye, from[xm])}

\* [mutant] The new sibling is not counted by the parent.
MergeSplit_NotCounted(id) ==
  /\ Runnable(id)
  /\ ~InOrder(id)
  /\ LET a    == ToMerge(id)
         from == IF a.m.x_orig THEN a.M.x ELSE a.M.z
     IN  /\ SizeOf(a.m) > MergeCutOff
         /\ mem' = a.M
         /\ \E cut \in SplitPoints(a.m, from) :
              LET zm    == a.m.zs + (cut[1] - a.m.xs) + (cut[2] - a.m.ys)
                  left  == <<a.m.zs, zm>>
                  right == <<zm, a.m.zs + SizeOf(a.m)>>
                  piece == [a.m EXCEPT !.split = TRUE]
              IN  /\ merges' = [i \in (DOMAIN merges \ {id}) \cup {left, right} |->
                        CASE i = left  -> [piece EXCEPT !.xe = cut[1], !.ye = cut[2]]
                          [] i = right -> [piece EXCEPT !.xs = cut[1], !.ys = cut[2], !.zs = zm]
                          [] OTHER     -> TellParent(a.m)[i]]
                  /\ refcount' = [i \in (DOMAIN refcount \ {id}) \cup {left, right} |->
                        IF i \in {left, right} THEN 0
                        ELSE refcount[i]]
  /\ UNCHANGED <<sortInput, sorts, sortPc>>

\* process_ranges and merge_ranges of a long merge: a task for what follows the cut
\* is spawned beside this one, which goes on with what precedes it.
MergeSplit(id) ==
  /\ Runnable(id)
  /\ ~InOrder(id)
  /\ LET a    == ToMerge(id)
         from == IF a.m.x_orig THEN a.M.x ELSE a.M.z
     IN  /\ SizeOf(a.m) > MergeCutOff
         /\ mem' = a.M
         /\ \E cut \in SplitPoints(a.m, from) :
              LET zm    == a.m.zs + (cut[1] - a.m.xs) + (cut[2] - a.m.ys)
                  left  == <<a.m.zs, zm>>
                  right == <<zm, a.m.zs + SizeOf(a.m)>>
                  piece == [a.m EXCEPT !.split = TRUE]
              IN  /\ merges' = [i \in (DOMAIN merges \ {id}) \cup {left, right} |->
                        CASE i = left  -> [piece EXCEPT !.xe = cut[1], !.ye = cut[2]]
                          [] i = right -> [piece EXCEPT !.xs = cut[1], !.ys = cut[2], !.zs = zm]
                          [] OTHER     -> TellParent(a.m)[i]]
                  /\ refcount' = [i \in (DOMAIN refcount \ {id}) \cup {left, right} |->
                        IF i \in {left, right} THEN 0
                        ELSE refcount[i] + (IF i = a.m.parent THEN 1 ELSE 0)]
  /\ UNCHANGED <<sortInput, sorts, sortPc>>

\* The root's count is zero: the caller's wait ends.
SortReturn ==
  /\ sortPc = "wait"
  /\ refcount[Root] = 0
  /\ sortPc' = "done"
  /\ UNCHANGED <<sortInput, mem, sorts, merges, refcount>>

SortNext ==
  \/ SerialSort \/ SpawnRoot \/ SortReturn
  \/ \E s \in sorts : SortLeaf(s) \/ SortSplit(s) \/ FinishSort(s)
  \/ \E id \in DOMAIN merges :
       MergeInOrder(id) \/ MergeRanges(id) \/ MergeSplit(id) \/ FinishMerge(id)

SortSpec == SortInit /\ [][SortNext]_sortVars

-------------------------------------------------------------------------------
\* When the call returns, the first nsort elements are the smallest, in order,
\* those of equal keys in the order they came in if the sort is stable, and no
\* element is lost (parallel_backend_tbb.h:1017-1064, where a range sorted only at
\* its beginning is searched, and 1006, where a merge is skipped).
Sorted ==
  sortPc = "done" =>
    /\ {mem.x[i][2] : i \in Span(0, sortN)} = Span(0, sortN)
    /\ \A i \in Span(0, sortN), j \in Span(0, sortN) : i < j =>
         /\ i < nsort => ~Less(mem.x[j], mem.x[i])
         /\ stable /\ mem.x[i][1] = mem.x[j][1] => mem.x[i][2] < mem.x[j][2]

\* A merge task's halves lie where its flags say when its children are done,
\* although each child only sees its own part.
FlagsTellWhere ==
  \A id \in DOMAIN merges : Runnable(id) =>
    LET m == merges[id]
    IN  /\ \A i \in Span(m.xs, m.xe) : IsItem(IF m.x_orig THEN mem.x[i] ELSE mem.z[i])
        /\ \A i \in Span(m.ys, m.ye) : IsItem(IF m.y_orig THEN mem.x[i] ELSE mem.z[i])

\* In a sort no object is constructed over another, read after it was moved or
\* destroyed twice, and none is left in the buffer, which is freed as raw memory
\* (parallel_backend_tbb.h:897-931 and 945-966); a merge task's halves lie where its
\* flags say when its children are done, although each child only sees its own part
\* (parallel_backend_tbb.h:1003-1012).
SortKeepsLifetimes ==
  /\ mem.ok
  /\ sortPc = "done" => \A i \in Span(0, sortN) : mem.z[i] = Raw
  /\ FlagsTellWhere

(* The slots that the next step of a task reads or writes.                     *)
InArray(array, S) == {<<array, i>> : i \in S}
MergeSlots(m) ==
  IF m.split
    THEN InArray(IF m.x_orig THEN "x" ELSE "z", MergeInputs(m))
         \cup InArray(IF m.x_orig THEN "z" ELSE "x", MergeOutputs(m))
    ELSE InArray("x", Span(m.xs, m.ye)) \cup InArray("z", Span(m.xs, m.ye))
ActiveTasks ==
  {[id |-> <<s.lo, s.hi, 0>>, slots |-> InArray("x", Span(s.lo, s.hi))] : s \in {s \in sorts : ~s.finished}}
  \cup {[id |-> <<id[1], id[2], 1>>, slots |-> MergeSlots(merges[id])] : id \in {i \in DOMAIN merges : Runnable(i)}}

\* Two tasks of a sort that may run at the same time never use the same slot of the
\* range or of the buffer: in particular the pieces of a split merge, one of which
\* writes where the other does not read, and a merge and the tasks it is made from
\* (parallel_backend_tbb.h:1051-1064, 1166-1176).
SortTasksShareNothing ==
  \A a \in ActiveTasks, b \in ActiveTasks : a.id # b.id => a.slots \cap b.slots = {}

\* A count is the number of tasks that will still decrement it: a parent runs
\* neither before its last child, although siblings come and go, nor never
\* (parallel_backend_tbb.h:587-594 and 661-685).
CountsChildren ==
  \A id \in DOMAIN refcount :
    refcount[id] = Cardinality({s \in sorts : s.parent = id})
                   + Cardinality({i \in DOMAIN merges : merges[i].parent = id})
===============================================================================
