--------------------------- MODULE StableSortProofs ---------------------------
(* The tasks of the stable sort form a tree, whatever the length, the cut-offs *)
(* and the order in which tasks run. It follows that tasks that may run at the *)
(* same time share no slot, and that a reference count is the number of tasks  *)
(* that will still decrement it; and, with what each task relies on in memory, *)
(* that no object is lost, built over another or left in the buffer. The second *)
(* half of the module shows that the range is left in order.                    *)
EXTENDS ParallelStableSort, NaturalLemmas, FiniteSetTheorems, SequenceTheorems, TLAPS

(* The nodes of the tree: sort tasks, and merge tasks by their ids.            *)
SortNode(s) == <<"sort", s>>
MergeNode(id) == <<"merge", id>>
Nodes == {SortNode(s) : s \in sorts} \cup {MergeNode(id) : id \in DOMAIN merges}

Up(t) == IF t[1] = "sort" THEN t[2].parent ELSE merges[t[2]].parent
IsSplit(t) == t[1] = "merge" /\ merges[t[2]].split
IsWhole(t) == t[1] = "merge" /\ ~merges[t[2]].split

(* The halves of the range of a merge that was not split. A child has one of   *)
(* them as its home; the pieces a child was split into share it.               *)
HalfX(id) == <<merges[id].xs, merges[id].xe>>
HalfY(id) == <<merges[id].ys, merges[id].ye>>
HalfAt(p, i) == IF p = Root THEN <<0, sortN>> ELSE IF i < merges[p].xe THEN HalfX(p) ELSE HalfY(p)
Home(t) ==
  IF t[1] = "sort" THEN <<t[2].lo, t[2].hi>>
  ELSE IF merges[t[2]].split THEN HalfAt(merges[t[2]].parent, merges[t[2]].zs)
  ELSE t[2]

Apart(h, k) == h[2] <= k[1] \/ k[2] <= h[1]
Within(h, k) == k[1] <= h[1] /\ h[2] <= k[2]
Below(t, u) == IsWhole(u) /\ (Within(Home(t), HalfX(u[2])) \/ Within(Home(t), HalfY(u[2])))

\* Two pieces of one merge: both go the same way, and neither uses the other's slots.
Siblings(t, u) ==
  /\ IsSplit(t) /\ IsSplit(u) /\ Up(t) = Up(u) /\ Home(t) = Home(u)
  /\ merges[t[2]].x_orig = merges[u[2]].x_orig
  /\ MergeInputs(merges[t[2]]) \cap MergeInputs(merges[u[2]]) = {}
  /\ MergeOutputs(merges[t[2]]) \cap MergeOutputs(merges[u[2]]) = {}

Parents == (Nat \X Nat) \cup {Root}
SortTasks == [lo : Nat, hi : Nat, root : BOOLEAN, parent : Parents, finished : BOOLEAN]
MergeTasks ==
  [xs : Nat, xe : Nat, ys : Nat, ye : Nat, zs : Nat, x_orig : BOOLEAN, y_orig : BOOLEAN,
   root : BOOLEAN, split : BOOLEAN, nmerge : Nat, parent : Parents, finished : BOOLEAN]

\* Every variable of the tree stays in its set.
TreeTypeOK ==
  /\ cutOff \in SortCutOffs /\ sortN \in 0..MaxSort /\ nsort \in Nat \ {0}
  /\ sorts \subseteq SortTasks /\ IsFiniteSet(sorts)
  /\ merges \in [DOMAIN merges -> MergeTasks]
  /\ DOMAIN merges \subseteq Nat \X Nat /\ IsFiniteSet(DOMAIN merges)
  /\ refcount \in [DOMAIN refcount -> Nat]
  /\ \/ DOMAIN refcount = {Root} \cup DOMAIN merges
     \/ DOMAIN refcount = {} /\ sorts = {} /\ DOMAIN merges = {}
  /\ sortPc = "begin" => DOMAIN refcount = {}

\* What the records of the tasks look like.
SortShape(s) == s.lo < s.hi
MergeShape(id) ==
  LET m == merges[id]
      h == Home(MergeNode(id))
  IN  /\ id[1] = m.zs /\ id[2] = m.zs + SizeOf(m) /\ SizeOf(m) > 0
      /\ m.xs <= m.xe /\ m.xe <= m.ys /\ m.ys <= m.ye
      /\ ~m.split => m.zs = m.xs /\ m.xs < m.xe /\ m.xe = m.ys /\ m.ys < m.ye
      /\ m.split => h[1] <= m.xs /\ m.ye <= h[2] /\ h[1] <= m.zs /\ m.zs + SizeOf(m) <= h[2]
Shapes == (\A s \in sorts : SortShape(s)) /\ (\A id \in DOMAIN merges : MergeShape(id))

\* A task's parent waits for it, and has given it one of its halves.
HasParent(t) ==
  \/ Up(t) = Root /\ Home(t) = <<0, sortN>>
  \/ /\ Up(t) \in DOMAIN merges
     /\ ~merges[Up(t)].split /\ ~merges[Up(t)].finished
     /\ Home(t) \in {HalfX(Up(t)), HalfY(Up(t))}
ParentsWait == \A t \in Nodes : HasParent(t)

\* Two tasks lie apart, or one below the other, or are pieces of one merge.
Related(t, u) ==
  \/ Apart(Home(t), Home(u))
  \/ Below(t, u) \/ Below(u, t)
  \/ Siblings(t, u)
Nested == \A t \in Nodes, u \in Nodes : t # u => Related(t, u)

\* What lies below a task lies below, or is, a child of it.
ChildBetween(t, u) == \E c \in Nodes : Up(c) = u[2] /\ Within(Home(t), Home(c))
Connected == \A t \in Nodes, u \in Nodes : Below(t, u) => ChildBetween(t, u)

\* Every task lies below the root, in a child of it.
Rooted == \A t \in Nodes : \E c \in Nodes : Up(c) = Root /\ Within(Home(t), Home(c))

TreeInv == TreeTypeOK /\ Shapes /\ ParentsWait /\ Nested /\ Connected /\ Rooted /\ CountsChildren
-------------------------------------------------------------------------------
(* Homes.                                                                      *)

LEMMA HomesAreRanges ==
  ASSUME TreeTypeOK, Shapes, ParentsWait, NEW t \in Nodes
  PROVE  Home(t) \in Nat \X Nat /\ Home(t)[1] < Home(t)[2]
<1>1. CASE t[1] = "sort"
  <2>1. PICK s \in sorts : t = SortNode(s)
    BY <1>1 DEF Nodes, SortNode, MergeNode
  <2> QED BY <2>1 DEF TreeTypeOK, SortTasks, Shapes, SortShape, Home, SortNode
<1>2. CASE t[1] # "sort"
  <2>1. PICK id \in DOMAIN merges : t = MergeNode(id)
    BY <1>2 DEF Nodes, SortNode
  <2>2. merges[id] \in MergeTasks /\ id \in Nat \X Nat
    BY DEF TreeTypeOK
  <2>3. MergeShape(id) /\ HasParent(t)
    BY DEF Shapes, ParentsWait
  <2>4. CASE ~merges[id].split
    BY <2>1, <2>2, <2>3, <2>4 DEF MergeShape, Home, MergeNode, SizeOf, MergeTasks
  <2>5. CASE merges[id].split
    <3>1. Home(t) \in Nat \X Nat
      <4>1. CASE Up(t) = Root
        <5>1. Home(t) = <<0, sortN>>
          BY <2>1, <2>5, <4>1 DEF Home, Up, MergeNode, HalfAt
        <5> QED BY <5>1 DEF TreeTypeOK
      <4>2. CASE Up(t) # Root
        <5>1. Up(t) \in DOMAIN merges /\ Home(t) \in {HalfX(Up(t)), HalfY(Up(t))}
          BY <2>3, <4>2 DEF HasParent
        <5>2. merges[Up(t)] \in MergeTasks
          BY <5>1 DEF TreeTypeOK
        <5> QED BY <5>1, <5>2 DEF HalfX, HalfY, MergeTasks
      <4> QED BY <4>1, <4>2
    <3>2. Home(t)[1] <= merges[id].zs /\ merges[id].zs + SizeOf(merges[id]) <= Home(t)[2] /\ SizeOf(merges[id]) > 0
      BY <2>1, <2>3, <2>5 DEF MergeShape
    <3> QED BY <2>2, <3>1, <3>2 DEF SizeOf, MergeTasks
  <2> QED BY <2>4, <2>5
<1> QED BY <1>1, <1>2

\* The halves of a whole merge are shorter than its home and lie in it.
LEMMA HalvesAreShorter ==
  ASSUME TreeTypeOK, Shapes, NEW u \in Nodes, IsWhole(u)
  PROVE  /\ u[2] \in DOMAIN merges /\ Home(u) = u[2]
         /\ HalfX(u[2]) \in Nat \X Nat /\ HalfY(u[2]) \in Nat \X Nat
         /\ HalfX(u[2])[1] = Home(u)[1] /\ HalfX(u[2])[2] = HalfY(u[2])[1] /\ HalfY(u[2])[2] = Home(u)[2]
         /\ HalfX(u[2])[1] < HalfX(u[2])[2] /\ HalfY(u[2])[1] < HalfY(u[2])[2]
<1>1. PICK id \in DOMAIN merges : u = MergeNode(id)
  BY DEF Nodes, SortNode, IsWhole
<1>2. merges[id] \in MergeTasks /\ id \in Nat \X Nat /\ MergeShape(id) /\ ~merges[id].split
  BY <1>1 DEF TreeTypeOK, Shapes, IsWhole, MergeNode
<1>3. Home(u) = id
  BY <1>1, <1>2 DEF Home, MergeNode
<1> QED BY <1>1, <1>2, <1>3 DEF MergeShape, SizeOf, HalfX, HalfY, MergeTasks, MergeNode

LEMMA WithinApart ==
  ASSUME NEW h \in Nat \X Nat, NEW k \in Nat \X Nat, NEW g \in Nat \X Nat, Within(h, k), Apart(k, g)
  PROVE  Apart(h, g) /\ Apart(g, h)
BY DEF Within, Apart

LEMMA WithinTransitive ==
  ASSUME NEW h \in Nat \X Nat, NEW k \in Nat \X Nat, NEW g \in Nat \X Nat, Within(h, k), Within(k, g)
  PROVE  Within(h, g)
BY DEF Within

\* What is not empty does not lie apart from what it lies in.
LEMMA WithinIsNotApart ==
  ASSUME NEW h \in Nat \X Nat, NEW k \in Nat \X Nat, h[1] < h[2], Within(h, k)
  PROVE  ~Apart(h, k) /\ ~Apart(k, h)
BY DEF Within, Apart

\* What lies below a merge is smaller than it.
LEMMA BelowIsSmaller ==
  ASSUME TreeTypeOK, Shapes, ParentsWait, NEW u \in Nodes, NEW t, Home(t) \in Nat \X Nat, Below(t, u)
  PROVE  Within(Home(t), Home(u)) /\ ~Within(Home(u), Home(t))
<1>1. IsWhole(u)
  BY DEF Below
<1>2. Home(u) \in Nat \X Nat
  BY HomesAreRanges
<1> QED BY <1>1, <1>2, HalvesAreShorter DEF Below, Within
-------------------------------------------------------------------------------
(* A step of a task t that has no children (it is idle) replaces t by the tasks *)
(* of a set N and leaves the others as they are.                               *)

Idle(t) == \A u \in Nodes, i \in DOMAIN merges : t = MergeNode(i) => Up(u) # i

SameTask(m, k) ==
  /\ m.xs = k.xs /\ m.xe = k.xe /\ m.ys = k.ys /\ m.ye = k.ye /\ m.zs = k.zs
  /\ m.parent = k.parent /\ m.split = k.split /\ m.finished = k.finished /\ m.root = k.root /\ m.nmerge = k.nmerge
  /\ k.split => m.x_orig = k.x_orig /\ m.y_orig = k.y_orig
SameMerge(i) == i \in DOMAIN merges' /\ SameTask(merges'[i], merges[i])

Replaces(t, N) ==
  /\ sortN' = sortN
  /\ Nodes' = (Nodes \ {t}) \cup N
  /\ \A i \in DOMAIN merges : t # MergeNode(i) => SameMerge(i)

Kept(u) ==
  /\ Home(u)' = Home(u) /\ Up(u)' = Up(u)
  /\ IsWhole(u)' <=> IsWhole(u)
  /\ IsSplit(u)' <=> IsSplit(u)
  /\ IsWhole(u) => HalfX(u[2])' = HalfX(u[2]) /\ HalfY(u[2])' = HalfY(u[2])
  /\ IsSplit(u) => /\ merges'[u[2]].x_orig = merges[u[2]].x_orig
                   /\ MergeInputs(merges'[u[2]]) = MergeInputs(merges[u[2]])
                   /\ MergeOutputs(merges'[u[2]]) = MergeOutputs(merges[u[2]])

LEMMA OthersAreKept ==
  ASSUME TreeTypeOK, ParentsWait, NEW t \in Nodes, Idle(t), NEW N, Replaces(t, N), NEW u \in Nodes, u # t
  PROVE  Kept(u) /\ HasParent(u)'
<1>0. PICK p : p = Up(u)
  OBVIOUS
<1>1. p = Root \/ (p \in DOMAIN merges /\ SameMerge(p))
  BY <1>0 DEF ParentsWait, HasParent, Idle, Replaces
<1>2. p # Root => HalfX(p)' = HalfX(p) /\ HalfY(p)' = HalfY(p)
  BY <1>1 DEF SameMerge, SameTask, HalfX, HalfY
<1>3. \A i : HalfAt(p, i)' = HalfAt(p, i)
  BY <1>1, <1>2 DEF SameMerge, SameTask, HalfAt, Replaces
<1>4. Kept(u)
  <2>1. CASE u[1] = "sort"
    BY <2>1 DEF Kept, Home, Up, IsWhole, IsSplit
  <2>2. CASE u[1] # "sort"
    <3>1. PICK id \in DOMAIN merges : u = MergeNode(id)
      BY <2>2 DEF Nodes, SortNode
    <3>2. SameMerge(id)
      BY <3>1 DEF Replaces
    <3>3. Up(u)' = Up(u) /\ p = merges[id].parent /\ p = merges'[id].parent
      BY <1>0, <3>1, <3>2 DEF Up, SameMerge, SameTask, MergeNode
    <3>4. Home(u)' = Home(u)
      BY <3>1, <3>2, <3>3, <1>3 DEF Home, SameMerge, SameTask, MergeNode
    <3>5. /\ IsWhole(u)' <=> IsWhole(u)
          /\ IsSplit(u)' <=> IsSplit(u)
      BY <3>1, <3>2 DEF IsWhole, IsSplit, SameMerge, SameTask, MergeNode
    <3>6. HalfX(u[2])' = HalfX(u[2]) /\ HalfY(u[2])' = HalfY(u[2])
      BY <3>1, <3>2 DEF HalfX, HalfY, SameMerge, SameTask, MergeNode
    <3>7. IsSplit(u) => /\ merges'[u[2]].x_orig = merges[u[2]].x_orig
                        /\ MergeInputs(merges'[u[2]]) = MergeInputs(merges[u[2]])
                        /\ MergeOutputs(merges'[u[2]]) = MergeOutputs(merges[u[2]])
      BY <3>1, <3>2 DEF IsSplit, MergeInputs, MergeOutputs, SameMerge, SameTask, MergeNode
    <3> QED BY <3>3, <3>4, <3>5, <3>6, <3>7 DEF Kept
  <2> QED BY <2>1, <2>2
<1>5. HasParent(u)'
  <2>1. HasParent(u)
    BY DEF ParentsWait
  <2>2. CASE p = Root
    <3>1. p \notin DOMAIN merges
      BY <2>2 DEF TreeTypeOK, Root
    <3>2. Up(u)' = Root /\ Home(u)' = <<0, sortN>>'
      BY <1>0, <1>4, <2>1, <2>2, <3>1 DEF Kept, HasParent, Replaces
    <3> QED BY <3>2 DEF HasParent
  <2>3. CASE p # Root
    <3>1. p \in DOMAIN merges /\ ~merges[p].split /\ ~merges[p].finished /\ Home(u) \in {HalfX(p), HalfY(p)}
      BY <1>0, <2>1, <2>3 DEF HasParent
    <3>2. /\ p \in DOMAIN merges' /\ ~merges'[p].split /\ ~merges'[p].finished
          /\ Home(u)' \in {HalfX(p)', HalfY(p)'}
      BY <1>1, <1>2, <1>4, <2>3, <3>1 DEF Kept, SameMerge, SameTask
    <3>3. Up(u)' = p
      BY <1>0, <1>4 DEF Kept
    <3> QED BY <3>2, <3>3 DEF HasParent, HalfX, HalfY
  <2> QED BY <2>2, <2>3
<1> QED BY <1>4, <1>5

LEMMA KeptRelations ==
  ASSUME NEW t, NEW u, Kept(t), Kept(u)
  PROVE  /\ Below(t, u)' <=> Below(t, u)
         /\ Siblings(t, u) => Siblings(t, u)'
<1>1. Below(t, u)' <=> Below(t, u)
  BY DEF Kept, Below
<1>2. Siblings(t, u) => Siblings(t, u)'
  BY DEF Kept, Siblings
<1> QED BY <1>1, <1>2

LEMMA NothingBelow ==
  ASSUME TreeTypeOK, Shapes, Connected, NEW t \in Nodes, Idle(t), NEW u \in Nodes
  PROVE  ~Below(u, t)
<1> SUFFICES ASSUME Below(u, t) PROVE FALSE
  OBVIOUS
<1>1. PICK i \in DOMAIN merges : t = MergeNode(i)
  BY DEF Below, IsWhole, Nodes, SortNode
<1>2. PICK c \in Nodes : Up(c) = i
  BY <1>1 DEF Connected, ChildBetween, MergeNode
<1> QED BY <1>1, <1>2 DEF Idle

LEMMA Alone ==
  ASSUME TreeInv, NEW t \in Nodes, Idle(t), NEW u \in Nodes, u # t
  PROVE  Apart(Home(t), Home(u)) \/ Below(t, u) \/ Siblings(t, u)
<1>1. ~Below(u, t)
  BY NothingBelow DEF TreeInv
<1> QED BY <1>1 DEF TreeInv, Nested, Related

\* What the tasks of N must be like.
NewTasks(t, N) ==
  /\ \A v \in N : /\ Home(v)' \in Nat \X Nat /\ Home(v)'[1] < Home(v)'[2]
                  /\ Within(Home(v)', Home(t))
                  /\ HasParent(v)'
                  /\ \A u \in Nodes \ {t} : Siblings(t, u) => Siblings(v, u)'
                  /\ IsWhole(v)' => ~IsSplit(t)
                  /\ \E w \in N : Up(w)' = Up(t) /\ Within(Home(v)', Home(w)')
                  /\ \A u : Below(u, v)' /\ Home(u)' \in Nat \X Nat => Within(Home(u)', Home(v)')
  /\ \A v \in N, w \in N :
       /\ v # w => Related(v, w)'
       /\ Below(v, w)' => \E c \in N : Up(c)' = w[2] /\ Within(Home(v)', Home(c)')

LEMMA SiblingsAreSymmetric ==
  /\ \A t, u : Siblings(t, u) => Siblings(u, t)
  /\ \A t, u : Siblings(t, u)' => Siblings(u, t)'
BY DEF Siblings

LEMMA TreeStep ==
  ASSUME TreeInv, NEW t \in Nodes, Idle(t), NEW N, Replaces(t, N), NewTasks(t, N)
  PROVE  ParentsWait' /\ Nested' /\ Connected' /\ Rooted'
<1> DEFINE Others == Nodes \ {t}
<1>1. Nodes' = Others \cup N
  BY DEF Replaces
<1>2. \A u \in Others : Kept(u) /\ HasParent(u)'
  BY OthersAreKept DEF TreeInv
<1>3. \A u \in Nodes : Home(u) \in Nat \X Nat /\ Home(u)[1] < Home(u)[2]
  BY HomesAreRanges DEF TreeInv
<1>4. \A v \in N : Home(v)' \in Nat \X Nat /\ Home(v)'[1] < Home(v)'[2] /\ Within(Home(v)', Home(t)) /\ HasParent(v)'
  BY DEF NewTasks
<1>5. \A u \in Others : Apart(Home(t), Home(u)) \/ Below(t, u) \/ Siblings(t, u)
  BY Alone
<1>6. \A u \in Others : Home(u)' = Home(u) /\ Up(u)' = Up(u)
  BY <1>2 DEF Kept
<1>7. \A u \in Others, w \in Others : Below(u, w)' <=> Below(u, w)
  BY <1>2, KeptRelations
<1>8. ParentsWait'
  BY <1>1, <1>2, <1>4 DEF ParentsWait
<1>9. \A u \in Others, v \in N :
        Apart(Home(v)', Home(u)') \/ Below(v, u)' \/ Siblings(v, u)'
  <2> SUFFICES ASSUME NEW u \in Others, NEW v \in N
               PROVE  Apart(Home(v)', Home(u)') \/ Below(v, u)' \/ Siblings(v, u)'
    OBVIOUS
  <2>1. CASE Apart(Home(t), Home(u))
    BY <2>1, <1>3, <1>4, <1>6, WithinApart
  <2>2. CASE Below(t, u)
    <3>1. IsWhole(u)' /\ HalfX(u[2])' = HalfX(u[2]) /\ HalfY(u[2])' = HalfY(u[2])
      BY <2>2, <1>2 DEF Below, Kept
    <3>2. HalfX(u[2]) \in Nat \X Nat /\ HalfY(u[2]) \in Nat \X Nat
      BY <2>2, HalvesAreShorter DEF Below, TreeInv
    <3>3. Within(Home(v)', HalfX(u[2])) \/ Within(Home(v)', HalfY(u[2]))
      BY <2>2, <3>2, <1>3, <1>4, WithinTransitive DEF Below
    <3>4. Within(Home(v), HalfX(u[2]))' \/ Within(Home(v), HalfY(u[2]))'
      BY <3>1, <3>3 DEF Within
    <3> QED BY <3>1, <3>4 DEF Below
  <2>3. CASE Siblings(t, u)
    BY <2>3 DEF NewTasks
  <2> QED BY <1>5, <2>1, <2>2, <2>3
<1>10. Nested'
  <2> SUFFICES ASSUME NEW a \in Others \cup N, NEW b \in Others \cup N, a # b
               PROVE  Related(a, b)'
    BY <1>1 DEF Nested
  <2>1. CASE a \in Others /\ b \in Others
    <3>1. Kept(a) /\ Kept(b) /\ Related(a, b)
      BY <2>1, <1>2 DEF TreeInv, Nested
    <3>2. Apart(Home(a), Home(b)) => Apart(Home(a), Home(b))'
      BY <2>1, <1>6 DEF Apart
    <3> QED BY <3>1, <3>2, KeptRelations DEF Related
  <2>2. CASE a \in N /\ b \in Others
    <3>1. Apart(Home(a)', Home(b)') => Apart(Home(a), Home(b))'
      BY DEF Apart
    <3> QED BY <2>2, <3>1, <1>9 DEF Related
  <2>3. CASE a \in Others /\ b \in N
    <3>1. Apart(Home(b)', Home(a)') => Apart(Home(a), Home(b))'
      BY DEF Apart
    <3> QED BY <2>3, <3>1, <1>9, SiblingsAreSymmetric DEF Related
  <2>4. CASE a \in N /\ b \in N
    BY <2>4 DEF NewTasks
  <2> QED BY <2>1, <2>2, <2>3, <2>4
<1>11. Connected'
  <2> SUFFICES ASSUME NEW a \in Others \cup N, NEW b \in Others \cup N, Below(a, b)'
               PROVE  \E c \in Others \cup N : Up(c)' = b[2] /\ Within(Home(a)', Home(c)')
    <3>1. \A a, b : (\E c \in Others \cup N : Up(c)' = b[2] /\ Within(Home(a)', Home(c)')) => ChildBetween(a, b)'
      BY <1>1 DEF ChildBetween, Within
    <3> QED BY <1>1, <3>1 DEF Connected
  <2>1. ASSUME a \in Others, b \in Others
        PROVE  \E c \in Others \cup N : Up(c)' = b[2] /\ Within(Home(a)', Home(c)')
    <3>1. PICK c \in Nodes : Up(c) = b[2] /\ Within(Home(a), Home(c))
      BY <2>1, <1>7 DEF TreeInv, Connected, ChildBetween
    <3>2. CASE c # t
      BY <2>1, <3>1, <3>2, <1>6
    <3>3. CASE c = t
      <4>1. ~Apart(Home(t), Home(a))
        BY <2>1, <3>1, <3>3, <1>3, WithinIsNotApart
      <4>2. ~Below(t, a)
        BY <2>1, <3>1, <3>3, <1>3, BelowIsSmaller DEF TreeInv
      <4>3. Up(a) = b[2] /\ Within(Home(a), Home(a))
        BY <2>1, <3>1, <3>3, <4>1, <4>2, <1>3, <1>5 DEF Siblings, Within
      <4> QED BY <2>1, <4>3, <1>6
    <3> QED BY <3>2, <3>3
  <2>2. ASSUME a \in N, b \in Others
        PROVE  \E c \in Others \cup N : Up(c)' = b[2] /\ Within(Home(a)', Home(c)')
    <3>1. IsWhole(b) /\ Home(b)' = Home(b) /\ Home(b) \in Nat \X Nat /\ b \in Nodes
      BY <2>2, <1>2, <1>3 DEF Below, Kept
    <3>2. Within(Home(a)', Home(b))
      <4>1. HalfX(b[2])' = HalfX(b[2]) /\ HalfY(b[2])' = HalfY(b[2])
        BY <2>2, <3>1, <1>2 DEF Kept
      <4>2. Within(Home(a)', HalfX(b[2])) \/ Within(Home(a)', HalfY(b[2]))
        BY <4>1 DEF Below, Within
      <4> QED BY <2>2, <4>2, <3>1, <1>4, HalvesAreShorter DEF Within, TreeInv
    <3>3. ~Apart(Home(t), Home(b))
      <4>1. ~Apart(Home(a)', Home(b))
        BY <2>2, <3>1, <3>2, <1>4, WithinIsNotApart
      <4> QED BY <2>2, <4>1, <3>1, <1>3, <1>4, WithinApart
    <3>4. Below(t, b)
      BY <2>2, <3>1, <3>3, <1>5 DEF Siblings, IsSplit, IsWhole
    <3>5. PICK c \in Nodes : Up(c) = b[2] /\ Within(Home(t), Home(c))
      BY <3>1, <3>4 DEF TreeInv, Connected, ChildBetween
    <3>6. CASE c # t
      BY <2>2, <3>5, <3>6, <1>3, <1>4, <1>6, WithinTransitive
    <3>7. CASE c = t
      BY <2>2, <3>5, <3>7 DEF NewTasks
    <3> QED BY <3>6, <3>7
  <2>3. ASSUME a \in Others, b \in N
        PROVE  FALSE
    <3>1. Within(Home(a), Home(b)')
      BY <2>3, <1>3, <1>6 DEF NewTasks
    <3>2. Within(Home(a), Home(t))
      BY <2>3, <3>1, <1>3, <1>4, WithinTransitive
    <3>3. ~Apart(Home(t), Home(a))
      BY <2>3, <3>2, <1>3, WithinIsNotApart
    <3>4. ~Below(t, a)
      BY <2>3, <3>2, <1>3, BelowIsSmaller DEF TreeInv
    <3>5. ~IsSplit(t)
      BY <2>3 DEF NewTasks, Below
    <3> QED BY <2>3, <3>3, <3>4, <3>5, <1>5 DEF Siblings
  <2>4. ASSUME a \in N, b \in N
        PROVE  \E c \in Others \cup N : Up(c)' = b[2] /\ Within(Home(a)', Home(c)')
    BY <2>4 DEF NewTasks
  <2> QED BY <2>1, <2>2, <2>3, <2>4
<1>12. Rooted'
  <2> SUFFICES ASSUME NEW a \in Others \cup N
               PROVE  \E c \in Others \cup N : Up(c)' = Root /\ Within(Home(a)', Home(c)')
    BY <1>1 DEF Rooted, Within
  <2>1. CASE a \in Others
    <3>1. PICK c \in Nodes : Up(c) = Root /\ Within(Home(a), Home(c))
      BY <2>1 DEF TreeInv, Rooted
    <3>2. CASE c # t
      BY <2>1, <3>1, <3>2, <1>6
    <3>3. CASE c = t
      <4>1. ~Apart(Home(t), Home(a))
        BY <2>1, <3>1, <3>3, <1>3, WithinIsNotApart
      <4>2. ~Below(t, a)
        BY <2>1, <3>1, <3>3, <1>3, BelowIsSmaller DEF TreeInv
      <4>3. Up(a) = Root /\ Within(Home(a), Home(a))
        BY <2>1, <3>1, <3>3, <4>1, <4>2, <1>3, <1>5 DEF Siblings, Within
      <4> QED BY <2>1, <4>3, <1>6
    <3> QED BY <3>2, <3>3
  <2>2. CASE a \in N
    <3>1. PICK c \in Nodes : Up(c) = Root /\ Within(Home(t), Home(c))
      BY DEF TreeInv, Rooted
    <3>2. CASE c # t
      BY <2>2, <3>1, <3>2, <1>3, <1>4, <1>6, WithinTransitive
    <3>3. CASE c = t
      BY <2>2, <3>1, <3>3 DEF NewTasks
    <3> QED BY <3>2, <3>3
  <2> QED BY <2>1, <2>2
<1> QED BY <1>8, <1>10, <1>11, <1>12

LEMMA ShapesAreKept ==
  ASSUME TreeInv, NEW t \in Nodes, Idle(t), NEW N, Replaces(t, N), NEW i \in DOMAIN merges, t # MergeNode(i)
  PROVE  MergeShape(i)'
<1>1. MergeNode(i) \in Nodes
  BY DEF Nodes
<1>2. Home(MergeNode(i))' = Home(MergeNode(i))
  BY <1>1, OthersAreKept DEF TreeInv, Kept
<1>3. MergeShape(i) /\ SameMerge(i)
  BY DEF TreeInv, Shapes, Replaces
<1> QED BY <1>2, <1>3 DEF MergeShape, SameMerge, SameTask, SizeOf

\* A task that takes the place of an idle one has its parent and its home.
LEMMA SamePlace ==
  ASSUME TreeInv, NEW t \in Nodes, Idle(t), NEW N, Replaces(t, N), NEW p, p = Up(t)
  PROVE  /\ \A i \in Nat : Home(t)[1] <= i /\ i < Home(t)[2] => HalfAt(p, i)' = Home(t)
         /\ \A v : Up(v)' = p /\ Home(v)' = Home(t) => HasParent(v)'
<1>1. HasParent(t) /\ sortN' = sortN /\ sortN \in Nat
  BY DEF TreeInv, ParentsWait, Replaces, TreeTypeOK
<1>2. CASE p = Root
  <2>1. Home(t) = <<0, sortN>>
    BY <1>1, <1>2 DEF HasParent, TreeInv, TreeTypeOK, Root
  <2> QED BY <1>1, <1>2, <2>1 DEF HalfAt, HasParent
<1>3. CASE p # Root
  <2>1. p \in DOMAIN merges /\ ~merges[p].split /\ ~merges[p].finished /\ Home(t) \in {HalfX(p), HalfY(p)}
    BY <1>1, <1>3 DEF HasParent
  <2>2. SameMerge(p)
    BY <2>1 DEF Idle, Replaces
  <2>3. MergeShape(p) /\ merges[p] \in MergeTasks
    BY <2>1 DEF TreeInv, Shapes, TreeTypeOK
  <2>4. \A i \in Nat : Home(t)[1] <= i /\ i < Home(t)[2] => HalfAt(p, i) = Home(t)
    BY <2>1, <2>3, <1>3 DEF HalfAt, HalfX, HalfY, MergeShape, MergeTasks
  <2>5. HalfX(p)' = HalfX(p) /\ HalfY(p)' = HalfY(p)
    BY <2>2 DEF SameMerge, SameTask, HalfX, HalfY
  <2>6. \A i \in Nat : HalfAt(p, i)' = HalfAt(p, i)
    BY <2>2, <2>5, <1>3 DEF HalfAt, SameMerge, SameTask
  <2>7. \A v : Up(v)' = p /\ Home(v)' = Home(t) => HasParent(v)'
    <3> SUFFICES ASSUME NEW v, Up(v)' = p, Home(v)' = Home(t)
                 PROVE  HasParent(v)'
      OBVIOUS
    <3>1. /\ p \in DOMAIN merges' /\ ~merges'[p].split /\ ~merges'[p].finished
          /\ Home(v)' \in {HalfX(p)', HalfY(p)'}
      BY <2>1, <2>2, <2>5 DEF SameMerge, SameTask
    <3> QED BY <3>1 DEF HasParent, HalfX, HalfY
  <2> QED BY <2>4, <2>6, <2>7
<1> QED BY <1>2, <1>3
-------------------------------------------------------------------------------
(* The children of a task.                                                     *)

KidSorts(p) == {s \in sorts : s.parent = p}
KidMerges(p) == {i \in DOMAIN merges : merges[i].parent = p}

LEMMA KidsAreFinite ==
  ASSUME TreeTypeOK, NEW p
  PROVE  /\ IsFiniteSet(KidSorts(p)) /\ Cardinality(KidSorts(p)) \in Nat
         /\ IsFiniteSet(KidMerges(p)) /\ Cardinality(KidMerges(p)) \in Nat
<1>1. IsFiniteSet(KidSorts(p)) /\ IsFiniteSet(KidMerges(p))
  BY FS_Subset DEF TreeTypeOK, KidSorts, KidMerges
<1> QED BY <1>1, FS_CardinalityType

\* A task that was split, has finished, or whose count is zero has no children.
LEMMA IdleTasks ==
  ASSUME TreeInv
  PROVE  /\ \A s \in sorts : Idle(SortNode(s))
         /\ \A id \in DOMAIN merges :
              merges[id].split \/ merges[id].finished \/ refcount[id] = 0 => Idle(MergeNode(id))
<1>1. \A s \in sorts : Idle(SortNode(s))
  BY DEF Idle, SortNode, MergeNode
<1>2. ASSUME NEW id \in DOMAIN merges, merges[id].split \/ merges[id].finished \/ refcount[id] = 0
      PROVE  Idle(MergeNode(id))
  <2> SUFFICES ASSUME NEW u \in Nodes, Up(u) = id
               PROVE  FALSE
    BY DEF Idle, MergeNode
  <2>1. HasParent(u) /\ id # Root
    BY DEF TreeInv, ParentsWait, TreeTypeOK, Root
  <2>2. refcount[id] = 0
    BY <1>2, <2>1 DEF HasParent
  <2>3. id \in DOMAIN refcount
    BY DEF TreeInv, TreeTypeOK
  <2>4. Cardinality(KidSorts(id)) = 0 /\ Cardinality(KidMerges(id)) = 0
    <3>1. refcount[id] = Cardinality(KidSorts(id)) + Cardinality(KidMerges(id))
      BY <2>3 DEF TreeInv, CountsChildren, KidSorts, KidMerges
    <3> QED BY <2>2, <3>1, KidsAreFinite DEF TreeInv
  <2>5. KidSorts(id) = {} /\ KidMerges(id) = {}
    BY <2>4, KidsAreFinite, FS_EmptySet DEF TreeInv
  <2> QED BY <2>5 DEF Nodes, Up, SortNode, MergeNode, KidSorts, KidMerges
<1> QED BY <1>1, <1>2
-------------------------------------------------------------------------------
(* The steps of a sort task.                                                   *)

LEMMA SortTaskIsTyped ==
  ASSUME TreeInv, NEW s \in sorts
  PROVE  /\ s \in SortTasks /\ s.lo < s.hi /\ SortNode(s) \in Nodes /\ HasParent(SortNode(s))
         /\ Home(SortNode(s)) = <<s.lo, s.hi>> /\ Up(SortNode(s)) = s.parent
         /\ DOMAIN refcount = {Root} \cup DOMAIN merges /\ s.parent \in DOMAIN refcount
<1>1. s \in SortTasks /\ s.lo < s.hi /\ SortNode(s) \in Nodes
  BY DEF TreeInv, TreeTypeOK, Shapes, SortShape, Nodes
<1>2. Home(SortNode(s)) = <<s.lo, s.hi>> /\ Up(SortNode(s)) = s.parent
  BY DEF Home, Up, SortNode
<1>3. HasParent(SortNode(s))
  BY <1>1 DEF TreeInv, ParentsWait
<1>4. DOMAIN refcount = {Root} \cup DOMAIN merges
  BY DEF TreeInv, TreeTypeOK
<1> QED BY <1>1, <1>2, <1>3, <1>4 DEF HasParent

\* No two sort tasks have the same range.
LEMMA SortTasksAreApart ==
  ASSUME TreeInv, NEW s \in sorts, NEW f \in sorts, s # f
  PROVE  Apart(<<s.lo, s.hi>>, <<f.lo, f.hi>>)
<1>1. SortNode(s) # SortNode(f) /\ SortNode(s) \in Nodes /\ SortNode(f) \in Nodes
  BY DEF SortNode, Nodes
<1>2. ~IsWhole(SortNode(s)) /\ ~IsWhole(SortNode(f)) /\ ~IsSplit(SortNode(s))
  BY DEF SortNode, IsWhole, IsSplit
<1>3. Apart(Home(SortNode(s)), Home(SortNode(f)))
  BY <1>1, <1>2 DEF TreeInv, Nested, Related, Below, Siblings
<1> QED BY <1>3, SortTaskIsTyped

\* A leaf is sorted: the task is marked.
LEMMA SortLeafStep ==
  ASSUME TreeInv, NEW s \in sorts, SortLeaf(s)
  PROVE  TreeInv' /\ Replaces(SortNode(s), {SortNode([s EXCEPT !.finished = TRUE])})
<1> DEFINE f == [s EXCEPT !.finished = TRUE]
<1>1. /\ s \in SortTasks /\ s.lo < s.hi /\ SortNode(s) \in Nodes /\ HasParent(SortNode(s))
      /\ Home(SortNode(s)) = <<s.lo, s.hi>> /\ Up(SortNode(s)) = s.parent
  BY SortTaskIsTyped
<1>2. f \in SortTasks /\ f.lo = s.lo /\ f.hi = s.hi /\ f.parent = s.parent /\ f # s /\ f.finished
  BY <1>1 DEF SortLeaf, SortTasks
<1> HIDE DEF f
<1>3. /\ sorts' = (sorts \ {s}) \cup {f} /\ merges' = merges /\ refcount' = refcount
      /\ cutOff' = cutOff /\ sortN' = sortN /\ nsort' = nsort /\ sortPc' = sortPc
  BY DEF SortLeaf, sortInput, f
<1>4. Idle(SortNode(s))
  BY IdleTasks
<1>5. Replaces(SortNode(s), {SortNode(f)})
  <2>1. Nodes' = (Nodes \ {SortNode(s)}) \cup {SortNode(f)}
    BY <1>3 DEF Nodes, SortNode, MergeNode
  <2> QED BY <2>1, <1>3 DEF Replaces, SameMerge, SameTask
<1>6. Home(SortNode(f))' = <<s.lo, s.hi>> /\ Up(SortNode(f))' = s.parent /\ ~IsWhole(SortNode(f))'
  BY <1>2 DEF Home, Up, IsWhole, SortNode
<1>7. NewTasks(SortNode(s), {SortNode(f)})
  <2>1. HasParent(SortNode(f))'
    BY <1>1, <1>4, <1>5, <1>6, SamePlace
  <2>2. \A u : ~Below(u, SortNode(f))' /\ ~Siblings(SortNode(s), u)
    BY <1>6 DEF Below, Siblings, IsSplit, SortNode
  <2> QED BY <2>1, <2>2, <1>1, <1>6 DEF NewTasks, Within, SortTasks
<1>8. ParentsWait' /\ Nested' /\ Connected' /\ Rooted'
  BY <1>1, <1>4, <1>5, <1>7, TreeStep
<1>9. TreeTypeOK'
  <2>1. sorts' \subseteq SortTasks /\ IsFiniteSet(sorts')
    BY <1>2, <1>3, FS_RemoveElement, FS_AddElement DEF TreeInv, TreeTypeOK
  <2> QED BY <2>1, <1>3 DEF TreeInv, TreeTypeOK
<1>10. Shapes'
  <2>1. \A u \in sorts' : u.lo < u.hi
    BY <1>1, <1>2, <1>3 DEF TreeInv, Shapes, SortShape
  <2>2. \A i \in DOMAIN merges' : MergeShape(i)'
    BY <1>1, <1>3, <1>4, <1>5, ShapesAreKept DEF SortNode, MergeNode
  <2> QED BY <2>1, <2>2 DEF Shapes, SortShape
<1>11. CountsChildren'
  <2> SUFFICES ASSUME NEW p \in DOMAIN refcount
               PROVE  refcount[p] = Cardinality(KidSorts(p)') + Cardinality(KidMerges(p)')
    BY <1>3 DEF CountsChildren, KidSorts, KidMerges
  <2>1. KidMerges(p)' = KidMerges(p)
    BY <1>3 DEF KidMerges
  <2>2. refcount[p] = Cardinality(KidSorts(p)) + Cardinality(KidMerges(p))
    BY DEF TreeInv, CountsChildren, KidSorts, KidMerges
  <2>3. Cardinality(KidSorts(p)') = Cardinality(KidSorts(p))
    <3>0. f \notin sorts
      BY <1>1, <1>2, SortTasksAreApart DEF Apart, SortTasks
    <3>1. CASE s.parent # p
      <4>1. KidSorts(p)' = KidSorts(p)
        BY <3>1, <1>2, <1>3 DEF KidSorts
      <4> QED BY <4>1
    <3>2. CASE s.parent = p
      <4>1. KidSorts(p)' = (KidSorts(p) \ {s}) \cup {f} /\ s \in KidSorts(p) /\ f \notin KidSorts(p) \ {s}
        BY <3>2, <3>0, <1>2, <1>3 DEF KidSorts
      <4>2. IsFiniteSet(KidSorts(p)) /\ Cardinality(KidSorts(p)) \in Nat
        BY KidsAreFinite DEF TreeInv
      <4>3. IsFiniteSet(KidSorts(p) \ {s}) /\ Cardinality(KidSorts(p) \ {s}) = Cardinality(KidSorts(p)) - 1
        BY <4>1, <4>2, FS_RemoveElement
      <4>4. Cardinality(KidSorts(p)') = Cardinality(KidSorts(p) \ {s}) + 1
        BY <4>1, <4>3, FS_AddElement
      <4> QED BY <4>2, <4>3, <4>4
    <3> QED BY <3>1, <3>2
  <2> QED BY <2>1, <2>2, <2>3
<1> QED BY <1>5, <1>8, <1>9, <1>10, <1>11 DEF TreeInv, f

\* A sort task that has run is destroyed.
LEMMA FinishSortStep ==
  ASSUME TreeInv, NEW s \in sorts, FinishSort(s)
  PROVE  TreeInv' /\ Replaces(SortNode(s), {})
<1>1. /\ s \in SortTasks /\ SortNode(s) \in Nodes /\ DOMAIN refcount = {Root} \cup DOMAIN merges
      /\ s.parent \in DOMAIN refcount
  BY SortTaskIsTyped
<1>2. /\ sorts' = sorts \ {s} /\ merges' = merges /\ refcount' = [refcount EXCEPT ![s.parent] = @ - 1]
      /\ cutOff' = cutOff /\ sortN' = sortN /\ nsort' = nsort /\ sortPc' = sortPc
  BY DEF FinishSort, sortInput
<1>3. Idle(SortNode(s))
  BY IdleTasks
<1>4. Replaces(SortNode(s), {})
  <2>1. Nodes' = (Nodes \ {SortNode(s)}) \cup {}
    BY <1>2 DEF Nodes, SortNode, MergeNode
  <2> QED BY <2>1, <1>2 DEF Replaces, SameMerge, SameTask
<1>5. NewTasks(SortNode(s), {})
  BY DEF NewTasks
<1>6. ParentsWait' /\ Nested' /\ Connected' /\ Rooted'
  BY <1>1, <1>3, <1>4, <1>5, TreeStep
<1>7. \A p \in DOMAIN refcount : refcount[p] = Cardinality(KidSorts(p)) + Cardinality(KidMerges(p)) /\ refcount[p] \in Nat
  BY DEF TreeInv, CountsChildren, TreeTypeOK, KidSorts, KidMerges
<1>8. ASSUME NEW p \in DOMAIN refcount
      PROVE  refcount'[p] = Cardinality(KidSorts(p)') + Cardinality(KidMerges(p)') /\ refcount'[p] \in Nat
  <2>1. KidMerges(p)' = KidMerges(p)
    BY <1>2 DEF KidMerges
  <2>2. /\ IsFiniteSet(KidSorts(p)) /\ Cardinality(KidSorts(p)) \in Nat /\ Cardinality(KidMerges(p)) \in Nat
    BY KidsAreFinite DEF TreeInv
  <2>3. CASE s.parent # p
    <3>1. KidSorts(p)' = KidSorts(p)
      BY <2>3, <1>2 DEF KidSorts
    <3>2. refcount'[p] = refcount[p]
      BY <2>3, <1>2 DEF TreeInv, TreeTypeOK
    <3> QED BY <3>1, <3>2, <2>1, <1>7
  <2>4. CASE s.parent = p
    <3>1. KidSorts(p)' = KidSorts(p) \ {s} /\ s \in KidSorts(p)
      BY <2>4, <1>2 DEF KidSorts
    <3>2. IsFiniteSet(KidSorts(p)') /\ Cardinality(KidSorts(p)') = Cardinality(KidSorts(p)) - 1
      BY <3>1, <2>2, FS_RemoveElement
    <3>3. Cardinality(KidSorts(p)') \in Nat
      BY <3>2, FS_CardinalityType
    <3>4. refcount'[p] = refcount[p] - 1
      BY <2>4, <1>2 DEF TreeInv, TreeTypeOK
    <3> QED BY <3>2, <3>3, <3>4, <2>1, <2>2, <1>7
  <2> QED BY <2>3, <2>4
<1>9. TreeTypeOK'
  <2>1. sorts' \subseteq SortTasks /\ IsFiniteSet(sorts')
    BY <1>2, FS_RemoveElement DEF TreeInv, TreeTypeOK
  <2>2. DOMAIN refcount' = DOMAIN refcount /\ refcount' \in [DOMAIN refcount' -> Nat]
    BY <1>2, <1>8 DEF TreeInv, TreeTypeOK
  <2> QED BY <2>1, <2>2, <1>1, <1>2 DEF TreeInv, TreeTypeOK
<1>10. Shapes'
  <2>1. \A u \in sorts' : u.lo < u.hi
    BY <1>2 DEF TreeInv, Shapes, SortShape
  <2>2. \A i \in DOMAIN merges' : MergeShape(i)'
    BY <1>1, <1>2, <1>3, <1>4, ShapesAreKept DEF SortNode, MergeNode
  <2> QED BY <2>1, <2>2 DEF Shapes, SortShape
<1>11. CountsChildren'
  <2>1. DOMAIN refcount' = DOMAIN refcount
    BY <1>2 DEF TreeInv, TreeTypeOK
  <2> QED BY <2>1, <1>8 DEF CountsChildren, KidSorts, KidMerges
<1> QED BY <1>4, <1>6, <1>9, <1>10, <1>11 DEF TreeInv

\* What a sort task leaves that cuts its range into halves.
SplitsSort(s, id, h1, h2) ==
  /\ id = <<s.lo, s.hi>> /\ id \notin DOMAIN merges
  /\ Replaces(SortNode(s), {MergeNode(id), SortNode(h1), SortNode(h2)})
  /\ sorts' = (sorts \ {s}) \cup {h1, h2}
  /\ h1.lo = s.lo /\ h1.hi = h2.lo /\ h2.hi = s.hi /\ s.lo < h1.hi /\ h1.hi < s.hi /\ h1.hi \in Nat
  /\ \A h \in {h1, h2} : h \in SortTasks /\ h.parent = id /\ ~h.root /\ ~h.finished
  /\ DOMAIN merges' = DOMAIN merges \cup {id}
  /\ \A i \in DOMAIN merges : merges'[i] = merges[i]
  /\ merges'[id].x_orig /\ merges'[id].y_orig /\ merges'[id].root = s.root /\ merges'[id].parent = s.parent
  /\ ~merges'[id].split /\ ~merges'[id].finished
  /\ HalfX(id)' = <<h1.lo, h1.hi>> /\ HalfY(id)' = <<h2.lo, h2.hi>> /\ Home(MergeNode(id))' = id

\* Where a sort task was, a merge task waits for two halves.
LEMMA SortSplitStep ==
  ASSUME TreeInv, NEW s \in sorts, SortSplit(s)
  PROVE  TreeInv' /\ \E id, h1, h2 : SplitsSort(s, id, h1, h2)
<1> DEFINE mid == s.lo + (s.hi - s.lo) \div 2
           id  == <<s.lo, s.hi>>
           h1  == [lo |-> s.lo, hi |-> mid, root |-> FALSE, parent |-> id, finished |-> FALSE]
           h2  == [lo |-> mid, hi |-> s.hi, root |-> FALSE, parent |-> id, finished |-> FALSE]
           m   == [xs |-> s.lo, xe |-> mid, ys |-> mid, ye |-> s.hi, zs |-> s.lo,
                   x_orig |-> TRUE, y_orig |-> TRUE, root |-> s.root, split |-> FALSE,
                   nmerge |-> Minimum(nsort, s.hi - s.lo), parent |-> s.parent, finished |-> FALSE]
           t   == SortNode(s)
           N   == {MergeNode(id), SortNode(h1), SortNode(h2)}
<1>1. /\ s \in SortTasks /\ s.lo < s.hi /\ t \in Nodes /\ HasParent(t)
      /\ Home(t) = id /\ Up(t) = s.parent
      /\ DOMAIN refcount = {Root} \cup DOMAIN merges /\ s.parent \in DOMAIN refcount
  BY SortTaskIsTyped
<1>2. mid \in Nat /\ s.lo < mid /\ mid < s.hi /\ s.lo \in Nat /\ s.hi \in Nat
  <2>1. cutOff \in Nat \ {0} /\ s.hi - s.lo > cutOff
    BY SortAssumption DEF TreeInv, TreeTypeOK, SortSplit
  <2> QED BY <2>1, <1>1 DEF SortTasks
<1>3. /\ m \in MergeTasks /\ m.xs = s.lo /\ m.xe = mid /\ m.ys = mid /\ m.ye = s.hi /\ m.zs = s.lo
      /\ ~m.split /\ ~m.finished /\ m.parent = s.parent
  <2>1. Minimum(nsort, s.hi - s.lo) \in Nat
    BY <1>1, <1>2 DEF Minimum, TreeInv, TreeTypeOK
  <2> QED BY <2>1, <1>1, <1>2 DEF MergeTasks, SortTasks
<1>4. /\ h1 \in SortTasks /\ h1.lo = s.lo /\ h1.hi = mid /\ h1.parent = id
      /\ h2 \in SortTasks /\ h2.lo = mid /\ h2.hi = s.hi /\ h2.parent = id /\ h1 # h2
  BY <1>2 DEF SortTasks, Parents
<1>5. id \in Nat \X Nat /\ id # Root /\ id[1] = s.lo /\ id[2] = s.hi
  BY <1>2 DEF Root
<1>6. /\ merges' = [i \in DOMAIN merges \cup {id} |-> IF i # id THEN merges[i] ELSE m]
      /\ refcount' = [i \in DOMAIN refcount \cup {id} |-> IF i = id THEN 2 ELSE refcount[i]]
      /\ sorts' = (sorts \ {s}) \cup {h1, h2}
      /\ cutOff' = cutOff /\ sortN' = sortN /\ nsort' = nsort /\ sortPc' = sortPc
  BY DEF SortSplit, sortInput
<1> HIDE DEF mid, id, h1, h2, m
<1>7. Idle(t)
  BY IdleTasks
<1>8. id \notin DOMAIN merges
  <2> SUFFICES ASSUME id \in DOMAIN merges PROVE FALSE
    OBVIOUS
  <2>1. MergeNode(id) \in Nodes /\ MergeNode(id) # t
    BY DEF Nodes, MergeNode, SortNode
  <2>2. Apart(Home(t), Home(MergeNode(id))) \/ Below(t, MergeNode(id))
    BY <2>1, <1>1, <1>7, Alone DEF Siblings, IsSplit, SortNode
  <2>3. MergeShape(id) /\ merges[id] \in MergeTasks
    BY DEF TreeInv, TreeTypeOK, Shapes
  <2>4. Home(MergeNode(id)) \in Nat \X Nat
    BY <2>1, HomesAreRanges DEF TreeInv
  <2>5. Within(id, Home(MergeNode(id)))
    BY <2>3, <1>2, <1>5 DEF MergeShape, Within, Home, MergeNode, SizeOf, MergeTasks
  <2>6. ~Apart(id, Home(MergeNode(id)))
    BY <2>4, <2>5, <1>2, <1>5, WithinIsNotApart
  <2>7. IsWhole(MergeNode(id)) /\ Below(t, MergeNode(id))
    BY <2>2, <2>6, <1>1 DEF Below
  <2>8. Home(MergeNode(id)) = id
    BY <2>1, <2>7, HalvesAreShorter DEF TreeInv, MergeNode
  <2> QED BY <2>1, <2>5, <2>7, <2>8, <1>1, <1>5, BelowIsSmaller DEF TreeInv
<1>9. Replaces(t, N)
  <2>1. Nodes' = (Nodes \ {t}) \cup N
    <3>1. {SortNode(u) : u \in sorts'} = ({SortNode(u) : u \in sorts} \ {t}) \cup {SortNode(h1), SortNode(h2)}
      BY <1>6 DEF SortNode
    <3>2. {MergeNode(i) : i \in DOMAIN merges'} = {MergeNode(i) : i \in DOMAIN merges} \cup {MergeNode(id)}
      BY <1>6
    <3>3. t \notin {MergeNode(i) : i \in DOMAIN merges}
      BY DEF SortNode, MergeNode
    <3> HIDE DEF t
    <3> QED BY <3>1, <3>2, <3>3 DEF Nodes
  <2> QED BY <2>1, <1>6, <1>8 DEF Replaces, SameMerge, SameTask
<1>10. /\ Home(MergeNode(id))' = id /\ Up(MergeNode(id))' = s.parent /\ IsWhole(MergeNode(id))'
       /\ HalfX(id)' = <<s.lo, mid>> /\ HalfY(id)' = <<mid, s.hi>>
  BY <1>3, <1>6 DEF Home, Up, IsWhole, HalfX, HalfY, MergeNode
<1>11. /\ Home(SortNode(h1))' = <<s.lo, mid>> /\ Up(SortNode(h1))' = id /\ ~IsWhole(SortNode(h1))'
       /\ Home(SortNode(h2))' = <<mid, s.hi>> /\ Up(SortNode(h2))' = id /\ ~IsWhole(SortNode(h2))'
  BY <1>4 DEF Home, Up, IsWhole, SortNode
<1>12. NewTasks(t, N)
  <2>1. HasParent(MergeNode(id))'
    BY <1>1, <1>7, <1>9, <1>10, SamePlace
  <2>2. HasParent(SortNode(h1))' /\ HasParent(SortNode(h2))'
    <3>1. id \in DOMAIN merges' /\ ~merges'[id].split /\ ~merges'[id].finished
      BY <1>3, <1>6
    <3> QED BY <3>1, <1>10, <1>11 DEF HasParent, HalfX, HalfY
  <2>3. \A u : ~Siblings(t, u) /\ ~IsSplit(t)
    BY DEF Siblings, IsSplit, SortNode
  <2>4. \A u : ~Below(u, SortNode(h1))' /\ ~Below(u, SortNode(h2))'
    BY <1>11 DEF Below
  <2>5. \A u : Below(u, MergeNode(id))' /\ Home(u)' \in Nat \X Nat =>
               /\ Within(Home(u)', id)
               /\ Within(Home(u)', <<s.lo, mid>>) \/ Within(Home(u)', <<mid, s.hi>>)
    BY <1>2, <1>5, <1>10 DEF Below, Within, MergeNode, HalfX, HalfY
  <2>6. \A v \in N : Home(v)' \in Nat \X Nat /\ Home(v)'[1] < Home(v)'[2] /\ Within(Home(v)', id)
    BY <1>2, <1>5, <1>10, <1>11 DEF Within
  <2>7. /\ Below(SortNode(h1), MergeNode(id))' /\ Below(SortNode(h2), MergeNode(id))'
        /\ Apart(Home(SortNode(h1)), Home(SortNode(h2)))' /\ Apart(Home(SortNode(h2)), Home(SortNode(h1)))'
    BY <1>2, <1>10, <1>11 DEF Below, Within, Apart, MergeNode, HalfX, HalfY
  <2>8. ASSUME NEW v \in N, NEW w \in N, Below(v, w)'
        PROVE  \E c \in N : Up(c)' = w[2] /\ Within(Home(v)', Home(c)')
    <3>1. w = MergeNode(id) /\ w[2] = id
      BY <2>4, <2>8 DEF MergeNode
    <3>2. Within(Home(v)', <<s.lo, mid>>) \/ Within(Home(v)', <<mid, s.hi>>)
      BY <2>5, <2>6, <2>8, <3>1
    <3> QED BY <3>1, <3>2, <1>11
  <2> HIDE DEF t
  <2>9. ASSUME NEW v \in N, NEW w \in N, v # w
        PROVE  Related(v, w)'
    BY <2>7, <2>9 DEF Related
  <2>10. \E w \in N : Up(w)' = Up(t) /\ Home(w)' = Home(t)
    BY <1>1, <1>10
  <2>11. \A v \in N : HasParent(v)'
    BY <2>1, <2>2
  <2>12. \A v \in N : \A u : Below(u, v)' /\ Home(u)' \in Nat \X Nat => Within(Home(u)', Home(v)')
    BY <2>4, <2>5, <1>10
  <2> HIDE DEF N
  <2> QED BY <2>3, <2>6, <2>8, <2>9, <2>10, <2>11, <2>12, <1>1 DEF NewTasks
<1>13. ParentsWait' /\ Nested' /\ Connected' /\ Rooted'
  BY <1>1, <1>7, <1>9, <1>12, TreeStep
<1>14. Shapes'
  <2>1. \A u \in sorts' : u.lo < u.hi
    BY <1>2, <1>4, <1>6 DEF TreeInv, Shapes, SortShape
  <2>2. \A i \in DOMAIN merges : MergeShape(i)'
    BY <1>1, <1>7, <1>9, ShapesAreKept DEF SortNode, MergeNode
  <2>3. MergeShape(id)'
    BY <1>2, <1>3, <1>5, <1>6, <1>10 DEF MergeShape, SizeOf
  <2>4. DOMAIN merges' = DOMAIN merges \cup {id}
    BY <1>6
  <2> QED BY <2>1, <2>2, <2>3, <2>4 DEF Shapes, SortShape
<1>15. TreeTypeOK'
  <2>1. sorts' \subseteq SortTasks /\ IsFiniteSet(sorts')
    <3>1. IsFiniteSet(sorts \ {s})
      BY FS_RemoveElement DEF TreeInv, TreeTypeOK
    <3>2. IsFiniteSet((sorts \ {s}) \cup {h1})
      BY <3>1, FS_AddElement
    <3>3. IsFiniteSet(((sorts \ {s}) \cup {h1}) \cup {h2})
      BY <3>2, FS_AddElement
    <3>4. sorts' = ((sorts \ {s}) \cup {h1}) \cup {h2}
      BY <1>6
    <3> QED BY <3>3, <3>4, <1>4 DEF TreeInv, TreeTypeOK
  <2>2. DOMAIN merges' = DOMAIN merges \cup {id} /\ IsFiniteSet(DOMAIN merges') /\ DOMAIN merges' \subseteq Nat \X Nat
    BY <1>5, <1>6, FS_AddElement DEF TreeInv, TreeTypeOK
  <2>3. merges' \in [DOMAIN merges' -> MergeTasks]
    BY <1>3, <1>6 DEF TreeInv, TreeTypeOK
  <2>4. refcount' \in [DOMAIN refcount' -> Nat] /\ DOMAIN refcount' = {Root} \cup DOMAIN merges'
    BY <2>2, <1>1, <1>6 DEF TreeInv, TreeTypeOK
  <2>5. sortPc' # "begin"
    BY <1>1, <1>6 DEF TreeInv, TreeTypeOK
  <2> QED BY <2>1, <2>2, <2>3, <2>4, <2>5, <1>6 DEF TreeInv, TreeTypeOK
<1>16. CountsChildren'
  <2>1. KidSorts(id) = {} /\ KidMerges(id) = {} /\ s.parent # id
    <3>1. \A u \in Nodes : Up(u) # id
      BY <1>5, <1>8 DEF TreeInv, ParentsWait, HasParent
    <3>2. \A u \in sorts : SortNode(u) \in Nodes /\ Up(SortNode(u)) = u.parent
      BY SortTaskIsTyped
    <3>3. \A i \in DOMAIN merges : MergeNode(i) \in Nodes /\ Up(MergeNode(i)) = merges[i].parent
      BY DEF Nodes, Up, MergeNode
    <3>4. \A u \in sorts : u.parent # id
      BY <3>1, <3>2
    <3>5. \A i \in DOMAIN merges : merges[i].parent # id
      BY <3>1, <3>3
    <3> QED BY <3>4, <3>5 DEF KidSorts, KidMerges
  <2>2. ASSUME NEW p \in DOMAIN refcount, p # id
        PROVE  refcount'[p] = Cardinality(KidSorts(p)') + Cardinality(KidMerges(p)')
    <3>1. refcount'[p] = refcount[p] /\ refcount[p] = Cardinality(KidSorts(p)) + Cardinality(KidMerges(p))
      BY <2>2, <1>6 DEF TreeInv, CountsChildren, KidSorts, KidMerges
    <3>2. /\ IsFiniteSet(KidSorts(p)) /\ Cardinality(KidSorts(p)) \in Nat
          /\ IsFiniteSet(KidMerges(p)) /\ Cardinality(KidMerges(p)) \in Nat
      BY KidsAreFinite DEF TreeInv
    <3>3. CASE s.parent # p
      <4>1. KidSorts(p)' = KidSorts(p)
        BY <2>2, <3>3, <1>4, <1>6 DEF KidSorts
      <4>2. KidMerges(p)' = KidMerges(p)
        BY <2>2, <3>3, <1>3, <1>6, <1>8 DEF KidMerges
      <4> QED BY <3>1, <4>1, <4>2
    <3>4. CASE s.parent = p
      <4>1. KidSorts(p)' = KidSorts(p) \ {s} /\ s \in KidSorts(p)
        BY <2>2, <3>4, <1>4, <1>6 DEF KidSorts
      <4>2. KidMerges(p)' = KidMerges(p) \cup {id} /\ id \notin KidMerges(p)
        BY <2>2, <3>4, <1>3, <1>6, <1>8 DEF KidMerges
      <4>3. Cardinality(KidSorts(p)') = Cardinality(KidSorts(p)) - 1
        BY <4>1, <3>2, FS_RemoveElement
      <4>4. Cardinality(KidMerges(p)') = Cardinality(KidMerges(p)) + 1
        BY <4>2, <3>2, FS_AddElement
      <4> QED BY <3>1, <3>2, <4>3, <4>4
    <3> QED BY <3>3, <3>4
  <2>3. refcount'[id] = Cardinality(KidSorts(id)') + Cardinality(KidMerges(id)')
    <3>1. KidSorts(id)' = {h1, h2}
      BY <2>1, <1>4, <1>6 DEF KidSorts
    <3>2. KidMerges(id)' = {}
      BY <2>1, <1>3, <1>6 DEF KidMerges
    <3>3. Cardinality({h1}) = 1 /\ IsFiniteSet({h1}) /\ Cardinality({}) = 0
      BY FS_Singleton, FS_EmptySet
    <3>4. {h1, h2} = {h1} \cup {h2} /\ h2 \notin {h1}
      BY <1>4
    <3>5. Cardinality({h1} \cup {h2}) = 2
      BY <3>3, <3>4, FS_AddElement
    <3>6. refcount'[id] = 2
      BY <1>6
    <3> QED BY <3>1, <3>2, <3>3, <3>4, <3>5, <3>6
  <2>4. DOMAIN refcount' = DOMAIN refcount \cup {id}
    BY <1>6
  <2> QED BY <2>2, <2>3, <2>4 DEF CountsChildren, KidSorts, KidMerges
<1>17. SplitsSort(s, id, h1, h2)
  <2>1. /\ merges'[id] = m /\ \A i \in DOMAIN merges : merges'[i] = merges[i]
        /\ DOMAIN merges' = DOMAIN merges \cup {id}
    BY <1>6, <1>8
  <2>2. m.x_orig /\ m.y_orig /\ m.root = s.root
    BY DEF m
  <2>3. ~h1.root /\ ~h2.root /\ ~h1.finished /\ ~h2.finished
    BY DEF h1, h2
  <2>4. id = <<s.lo, s.hi>>
    BY DEF id
  <2> QED BY <2>1, <2>2, <2>3, <2>4, <1>2, <1>3, <1>4, <1>6, <1>8, <1>9, <1>10 DEF SplitsSort
<1> QED BY <1>13, <1>14, <1>15, <1>16, <1>17 DEF TreeInv
-------------------------------------------------------------------------------
(* The steps of a merge task.                                                  *)

LEMMA MergeTaskIsTyped ==
  ASSUME TreeInv, NEW id \in DOMAIN merges
  PROVE  /\ merges[id] \in MergeTasks /\ MergeShape(id) /\ MergeNode(id) \in Nodes /\ id \in Nat \X Nat
         /\ Up(MergeNode(id)) = merges[id].parent /\ HasParent(MergeNode(id))
         /\ DOMAIN refcount = {Root} \cup DOMAIN merges
         /\ merges[id].parent \in DOMAIN refcount
         /\ id \in DOMAIN refcount /\ refcount[id] \in Nat /\ id # Root
<1>1. merges[id] \in MergeTasks /\ MergeShape(id) /\ MergeNode(id) \in Nodes /\ id \in Nat \X Nat
  BY DEF TreeInv, TreeTypeOK, Shapes, Nodes
<1>2. Up(MergeNode(id)) = merges[id].parent
  BY DEF Up, MergeNode
<1>3. HasParent(MergeNode(id))
  BY <1>1 DEF TreeInv, ParentsWait
<1>4. DOMAIN refcount = {Root} \cup DOMAIN merges /\ refcount \in [DOMAIN refcount -> Nat]
  BY DEF TreeInv, TreeTypeOK
<1>5. id # Root
  BY <1>1 DEF Root
<1> QED BY <1>1, <1>2, <1>3, <1>4, <1>5 DEF HasParent

\* A merge task that has run is destroyed.
LEMMA FinishMergeStep ==
  ASSUME TreeInv, NEW id \in DOMAIN merges, FinishMerge(id)
  PROVE  TreeInv' /\ Replaces(MergeNode(id), {})
<1> DEFINE t == MergeNode(id)
           par == merges[id].parent
<1>1. /\ t \in Nodes /\ Up(t) = par /\ id \in Nat \X Nat /\ id # Root
      /\ DOMAIN refcount = {Root} \cup DOMAIN merges /\ par \in DOMAIN refcount
  BY MergeTaskIsTyped
<1>2. /\ sorts' = sorts /\ cutOff' = cutOff /\ sortN' = sortN /\ nsort' = nsort /\ sortPc' = sortPc
      /\ merges' = [i \in DOMAIN merges \ {id} |-> merges[i]]
      /\ refcount' = [i \in DOMAIN refcount \ {id} |-> refcount[i] - (IF i = par THEN 1 ELSE 0)]
  BY DEF FinishMerge, sortInput
<1>3. Idle(t)
  BY IdleTasks DEF FinishMerge
<1>4. par # id
  BY <1>1, <1>3 DEF Idle
<1> HIDE DEF par
<1>5. Replaces(t, {})
  <2>1. Nodes' = (Nodes \ {t}) \cup {}
    BY <1>2 DEF Nodes, SortNode, MergeNode
  <2>2. \A i \in DOMAIN merges : t # MergeNode(i) => SameMerge(i)
    BY <1>2 DEF SameMerge, SameTask, MergeNode
  <2> QED BY <2>1, <2>2, <1>2 DEF Replaces
<1>6. NewTasks(t, {})
  BY DEF NewTasks
<1>7. ParentsWait' /\ Nested' /\ Connected' /\ Rooted'
  BY <1>1, <1>3, <1>5, <1>6, TreeStep
<1>8. DOMAIN refcount' = DOMAIN refcount \ {id}
  BY <1>2
<1>9. ASSUME NEW p \in DOMAIN refcount \ {id}
      PROVE  refcount'[p] = Cardinality(KidSorts(p)') + Cardinality(KidMerges(p)') /\ refcount'[p] \in Nat
  <2>1. KidSorts(p)' = KidSorts(p)
    BY <1>2 DEF KidSorts
  <2>2. refcount[p] = Cardinality(KidSorts(p)) + Cardinality(KidMerges(p)) /\ refcount[p] \in Nat
    BY DEF TreeInv, CountsChildren, TreeTypeOK, KidSorts, KidMerges
  <2>3. /\ IsFiniteSet(KidMerges(p)) /\ Cardinality(KidSorts(p)) \in Nat /\ Cardinality(KidMerges(p)) \in Nat
    BY KidsAreFinite DEF TreeInv
  <2>4. CASE par # p
    <3>1. KidMerges(p)' = KidMerges(p)
      BY <2>4, <1>2 DEF KidMerges, par
    <3>2. refcount'[p] = refcount[p]
      BY <2>2, <2>4, <1>2
    <3> QED BY <3>1, <3>2, <2>1, <2>2
  <2>5. CASE par = p
    <3>1. KidMerges(p)' = KidMerges(p) \ {id} /\ id \in KidMerges(p)
      BY <2>5, <1>2 DEF KidMerges, par
    <3>2. IsFiniteSet(KidMerges(p)') /\ Cardinality(KidMerges(p)') = Cardinality(KidMerges(p)) - 1
      BY <3>1, <2>3, FS_RemoveElement
    <3>3. Cardinality(KidMerges(p)') \in Nat
      BY <3>2, FS_CardinalityType
    <3>4. refcount'[p] = refcount[p] - 1
      BY <2>5, <1>2
    <3> QED BY <3>2, <3>3, <3>4, <2>1, <2>2, <2>3
  <2> QED BY <2>4, <2>5
<1>10. TreeTypeOK'
  <2>1. DOMAIN merges' = DOMAIN merges \ {id} /\ merges' \in [DOMAIN merges' -> MergeTasks]
    BY <1>2 DEF TreeInv, TreeTypeOK
  <2>2. IsFiniteSet(DOMAIN merges') /\ DOMAIN merges' \subseteq Nat \X Nat
    BY <2>1, FS_RemoveElement DEF TreeInv, TreeTypeOK
  <2>3. DOMAIN refcount' = {Root} \cup DOMAIN merges'
    BY <2>1, <1>1, <1>8
  <2>4. refcount' \in [DOMAIN refcount' -> Nat]
    BY <1>2, <1>8, <1>9
  <2>5. sortPc' # "begin"
    BY <1>1, <1>2 DEF TreeInv, TreeTypeOK
  <2> QED BY <2>1, <2>2, <2>3, <2>4, <2>5, <1>2 DEF TreeInv, TreeTypeOK
<1>11. Shapes'
  <2>1. \A i \in DOMAIN merges' : i \in DOMAIN merges /\ t # MergeNode(i)
    BY <1>2 DEF MergeNode
  <2>2. \A i \in DOMAIN merges' : MergeShape(i)'
    BY <2>1, <1>1, <1>3, <1>5, ShapesAreKept
  <2> QED BY <2>2, <1>2 DEF TreeInv, Shapes, SortShape
<1>12. CountsChildren'
  BY <1>8, <1>9 DEF CountsChildren, KidSorts, KidMerges
<1> QED BY <1>5, <1>7, <1>10, <1>11, <1>12 DEF TreeInv

\* A task keeps its place however its elements are moved.
LEMMA MovesKeepTheTask ==
  ASSUME NEW m \in MergeTasks, ~m.split, NEW M
  PROVE  /\ MoveX(m, M).m \in MergeTasks /\ SameTask(MoveX(m, M).m, m)
         /\ MoveY(m, M).m \in MergeTasks /\ SameTask(MoveY(m, M).m, m)
         /\ MoveBoth(m, M).m \in MergeTasks /\ SameTask(MoveBoth(m, M).m, m)
<1>1. ASSUME NEW k \in MergeTasks, ~k.split, NEW K
      PROVE  /\ MoveX(k, K).m \in MergeTasks /\ SameTask(MoveX(k, K).m, k)
             /\ MoveY(k, K).m \in MergeTasks /\ SameTask(MoveY(k, K).m, k)
  BY <1>1 DEF MoveX, MoveY, SameTask, MergeTasks
<1> DEFINE x == MoveX(m, M)
<1>2. x.m \in MergeTasks /\ SameTask(x.m, m) /\ ~x.m.split
  BY <1>1 DEF SameTask
<1>3. MoveBoth(m, M) = MoveY(x.m, x.M)
  BY DEF MoveBoth
<1> HIDE DEF x
<1>4. MoveBoth(m, M).m \in MergeTasks /\ SameTask(MoveBoth(m, M).m, x.m)
  BY <1>1, <1>2, <1>3
<1> QED BY <1>1, <1>2, <1>4 DEF SameTask

LEMMA AlignedTask ==
  ASSUME NEW id \in DOMAIN merges, merges[id] \in MergeTasks
  PROVE  /\ Aligned(id).m \in MergeTasks /\ SameTask(Aligned(id).m, merges[id])
         /\ ToMerge(id).m \in MergeTasks /\ SameTask(ToMerge(id).m, merges[id])
<1>1. Aligned(id).m \in MergeTasks /\ SameTask(Aligned(id).m, merges[id])
  <2>1. CASE merges[id].split \/ merges[id].x_orig = merges[id].y_orig
    BY <2>1 DEF Aligned, SameTask
  <2>2. CASE ~(merges[id].split \/ merges[id].x_orig = merges[id].y_orig)
    BY <2>2, MovesKeepTheTask DEF Aligned
  <2> QED BY <2>1, <2>2
<1>2. ToMerge(id).m \in MergeTasks /\ SameTask(ToMerge(id).m, merges[id])
  <2>1. CASE ~(~Aligned(id).m.split /\ Aligned(id).m.root /\ Aligned(id).m.x_orig)
    BY <2>1, <1>1 DEF ToMerge
  <2>2. CASE ~Aligned(id).m.split /\ Aligned(id).m.root /\ Aligned(id).m.x_orig
    <3>1. ToMerge(id).m \in MergeTasks /\ SameTask(ToMerge(id).m, Aligned(id).m)
      BY <2>2, <1>1, MovesKeepTheTask DEF ToMerge
    <3> QED BY <3>1, <2>2, <1>1 DEF SameTask
  <2> QED BY <2>1, <2>2
<1> QED BY <1>1, <1>2

\* Merge tasks with flags that a child may have changed.
SameTasks(ms) ==
  /\ ms \in [DOMAIN merges -> MergeTasks]
  /\ \A i \in DOMAIN merges : SameTask(ms[i], merges[i])

\* Only a merge that was not split is told where a child's output is.
LEMMA SetOddTells ==
  ASSUME TreeInv, NEW id \in DOMAIN merges, NEW idx, NEW orig \in BOOLEAN
  PROVE  SameTasks(SetOdd(merges, merges[id].parent, idx, orig))
<1> DEFINE p == merges[id].parent
<1>1. merges \in [DOMAIN merges -> MergeTasks] /\ SameTasks(merges)
  BY DEF TreeInv, TreeTypeOK, SameTasks, SameTask
<1>2. p = Root \/ (p \in DOMAIN merges /\ ~merges[p].split)
  BY MergeTaskIsTyped DEF HasParent
<1> HIDE DEF p
<1>3. CASE p = Root
  BY <1>1, <1>3 DEF SetOdd, p
<1>4. CASE p # Root
  <2>1. merges[p] \in MergeTasks /\ p \in DOMAIN merges /\ ~merges[p].split
    BY <1>1, <1>2, <1>4
  <2>2. SameTasks([merges EXCEPT ![p].x_orig = orig])
    BY <2>1, <1>1 DEF SameTasks, SameTask, MergeTasks
  <2>3. SameTasks([merges EXCEPT ![p].y_orig = orig])
    BY <2>1, <1>1 DEF SameTasks, SameTask, MergeTasks
  <2> QED BY <2>2, <2>3, <1>4 DEF SetOdd, p
<1> QED BY <1>3, <1>4

\* A merge that is not split stays where it is; its parent is told of its output.
LEMMA MergeRuns ==
  ASSUME TreeInv, NEW id \in DOMAIN merges, refcount[id] = 0, NEW ms, SameTasks(ms),
         NEW k \in MergeTasks, SameTask(k, merges[id]),
         merges' = [ms EXCEPT ![id] = [k EXCEPT !.finished = TRUE]],
         UNCHANGED <<sortInput, sorts, refcount, sortPc>>
  PROVE  TreeInv' /\ Replaces(MergeNode(id), {MergeNode(id)})
<1> DEFINE t == MergeNode(id)
           f == [k EXCEPT !.finished = TRUE]
<1>0. PICK p : p = merges[id].parent
  OBVIOUS
<1>1. /\ merges[id] \in MergeTasks /\ MergeShape(id) /\ t \in Nodes /\ id \in Nat \X Nat
      /\ Up(t) = p
  BY <1>0, MergeTaskIsTyped
<1>2. /\ f \in MergeTasks /\ f.parent = p /\ f.split = merges[id].split
      /\ f.xs = merges[id].xs /\ f.xe = merges[id].xe /\ f.ys = merges[id].ys /\ f.ye = merges[id].ye
      /\ f.zs = merges[id].zs /\ (f.split => f.x_orig = merges[id].x_orig)
  BY <1>0 DEF MergeTasks, SameTask
<1> HIDE DEF f
<1>3. /\ sorts' = sorts /\ cutOff' = cutOff /\ sortN' = sortN /\ nsort' = nsort /\ sortPc' = sortPc
      /\ refcount' = refcount /\ DOMAIN merges' = DOMAIN merges
      /\ \A i \in DOMAIN merges : merges'[i] = IF i = id THEN f ELSE ms[i]
      /\ merges' \in [DOMAIN merges -> MergeTasks]
  BY <1>2 DEF sortInput, SameTasks, f
<1>4. Idle(t)
  BY IdleTasks
<1>5. Replaces(t, {t})
  <2>1. Nodes' = (Nodes \ {t}) \cup {t}
    BY <1>1, <1>3 DEF Nodes
  <2>2. \A i \in DOMAIN merges : t # MergeNode(i) => SameMerge(i)
    BY <1>3 DEF SameMerge, SameTasks
  <2> QED BY <2>1, <2>2, <1>3 DEF Replaces
<1>6. /\ Up(t)' = p /\ (IsSplit(t)' <=> IsSplit(t)) /\ (IsWhole(t)' <=> IsWhole(t))
      /\ HalfX(id)' = HalfX(id) /\ HalfY(id)' = HalfY(id)
  BY <1>2, <1>3 DEF Up, IsSplit, IsWhole, HalfX, HalfY, MergeNode
<1>7. /\ IsSplit(t) => merges'[id].x_orig = merges[id].x_orig
      /\ MergeInputs(merges'[id]) = MergeInputs(merges[id]) /\ MergeOutputs(merges'[id]) = MergeOutputs(merges[id])
  BY <1>2, <1>3 DEF IsSplit, MergeInputs, MergeOutputs, MergeNode
<1>8. Home(t) \in Nat \X Nat /\ Home(t)[1] < Home(t)[2]
  BY <1>1, HomesAreRanges DEF TreeInv
<1>9. Home(t)' = Home(t)
  <2>1. CASE ~merges[id].split
    BY <2>1, <1>2, <1>3 DEF Home, MergeNode
  <2>2. CASE merges[id].split
    <3>1. Home(t)[1] <= merges[id].zs /\ merges[id].zs < Home(t)[2] /\ merges[id].zs \in Nat
      BY <2>2, <1>1, <1>8 DEF MergeShape, SizeOf, MergeTasks
    <3>2. PICK z : z = merges[id].zs
      OBVIOUS
    <3>3. \A i \in Nat : Home(t)[1] <= i /\ i < Home(t)[2] => HalfAt(p, i)' = Home(t)
      BY <1>1, <1>4, <1>5, SamePlace
    <3>4. HalfAt(p, z)' = Home(t)
      BY <3>1, <3>2, <3>3
    <3>5. merges'[id].split /\ merges'[id].zs = z /\ merges'[id].parent = p
      BY <2>2, <3>2, <1>2, <1>3
    <3>6. Home(t)' = HalfAt(p, z)'
      BY <3>5 DEF Home, MergeNode
    <3> QED BY <3>4, <3>6
  <2> QED BY <2>1, <2>2
<1>10. NewTasks(t, {t})
  <2>1. HasParent(t)'
    BY <1>1, <1>4, <1>5, <1>6, <1>9, SamePlace
  <2>2. ASSUME NEW u \in Nodes \ {t}, Siblings(t, u)
        PROVE  Siblings(t, u)'
    <3>1. Kept(u)
      BY <1>1, <1>4, <1>5, OthersAreKept DEF TreeInv
    <3>2. t[2] = id
      BY DEF MergeNode
    <3> HIDE DEF t
    <3> QED BY <2>2, <3>1, <3>2, <1>1, <1>6, <1>7, <1>9 DEF Siblings, Kept
  <2>3. IsWhole(t)' => ~IsSplit(t)
    BY <1>6 DEF IsWhole, IsSplit
  <2>4. \A u : Below(u, t)' /\ Home(u)' \in Nat \X Nat => Within(Home(u)', Home(t)) /\ ~Within(Home(t), Home(u)')
    <3> SUFFICES ASSUME NEW u, Below(u, t)', Home(u)' \in Nat \X Nat
                 PROVE  Within(Home(u)', Home(t)) /\ ~Within(Home(t), Home(u)')
      OBVIOUS
    <3>1. t[2] = id
      BY DEF MergeNode
    <3>2. IsWhole(t) /\ (Within(Home(u)', HalfX(id)) \/ Within(Home(u)', HalfY(id)))
      BY <3>1, <1>6 DEF Below, Within
    <3> QED BY <3>1, <3>2, <1>1, <1>8, HalvesAreShorter DEF Within, TreeInv
  <2>5. Within(Home(t), Home(t)) /\ ~Below(t, t)'
    BY <2>4, <1>8, <1>9 DEF Within
  <2> HIDE DEF t
  <2> QED BY <2>1, <2>2, <2>3, <2>4, <2>5, <1>1, <1>6, <1>8, <1>9 DEF NewTasks
<1>11. ParentsWait' /\ Nested' /\ Connected' /\ Rooted'
  BY <1>1, <1>4, <1>5, <1>10, TreeStep
<1>12. TreeTypeOK'
  BY <1>3 DEF TreeInv, TreeTypeOK
<1>13. Shapes'
  <2>1. MergeShape(id)'
    <3>1. Home(MergeNode(id))' = Home(MergeNode(id))
      BY <1>9
    <3> QED BY <3>1, <1>1, <1>2, <1>3 DEF MergeShape, SizeOf
  <2>2. \A i \in DOMAIN merges : i # id => MergeShape(i)'
    BY <1>1, <1>4, <1>5, ShapesAreKept DEF MergeNode
  <2> QED BY <2>1, <2>2, <1>3 DEF TreeInv, Shapes, SortShape
<1>14. CountsChildren'
  <2>1. \A q : KidSorts(q)' = KidSorts(q) /\ KidMerges(q)' = KidMerges(q)
    BY <1>0, <1>2, <1>3 DEF KidSorts, KidMerges, SameTasks, SameTask
  <2>2. \A q \in DOMAIN refcount : refcount[q] = Cardinality(KidSorts(q)) + Cardinality(KidMerges(q))
    BY DEF TreeInv, CountsChildren, KidSorts, KidMerges
  <2>3. \A q \in DOMAIN refcount' : refcount'[q] = Cardinality(KidSorts(q)') + Cardinality(KidMerges(q)')
    BY <2>1, <2>2, <1>3
  <2> QED BY <2>3 DEF CountsChildren, KidSorts, KidMerges
<1> QED BY <1>5, <1>11, <1>12, <1>13, <1>14 DEF TreeInv

LEMMA MergeInOrderStep ==
  ASSUME TreeInv, NEW id \in DOMAIN merges, MergeInOrder(id)
  PROVE  TreeInv' /\ Replaces(MergeNode(id), {MergeNode(id)})
<1> DEFINE a  == Aligned(id)
           b  == IF a.m.root /\ ~a.m.x_orig THEN MoveBoth(a.m, a.M) ELSE a
           ms == SetOdd(merges, a.m.parent, a.m.zs, a.m.x_orig)
<1>1. a.m \in MergeTasks /\ SameTask(a.m, merges[id]) /\ ~merges[id].split
  BY AlignedTask, MergeTaskIsTyped DEF MergeInOrder, InOrder
<1>2. b.m \in MergeTasks /\ SameTask(b.m, merges[id])
  <2>1. ~a.m.split
    BY <1>1 DEF SameTask
  <2>2. MoveBoth(a.m, a.M).m \in MergeTasks /\ SameTask(MoveBoth(a.m, a.M).m, a.m)
    BY <1>1, <2>1, MovesKeepTheTask
  <2> HIDE DEF a
  <2>3. CASE a.m.root /\ ~a.m.x_orig
    <3>1. b.m = MoveBoth(a.m, a.M).m
      BY <2>3
    <3> QED BY <3>1, <2>2, <1>1 DEF SameTask
  <2>4. CASE ~(a.m.root /\ ~a.m.x_orig)
    <3>1. b.m = a.m
      BY <2>4
    <3> QED BY <3>1, <1>1
  <2> QED BY <2>3, <2>4
<1>3. SameTasks(ms)
  <2>1. a.m.parent = merges[id].parent /\ a.m.x_orig \in BOOLEAN
    BY <1>1 DEF SameTask, MergeTasks
  <2> QED BY <2>1, SetOddTells
<1>4. /\ merges' = [ms EXCEPT ![id] = [b.m EXCEPT !.finished = TRUE]] /\ refcount[id] = 0
      /\ UNCHANGED <<sortInput, sorts, refcount, sortPc>>
  BY DEF MergeInOrder, Runnable
<1> HIDE DEF a, b, ms
<1> QED BY <1>2, <1>3, <1>4, MergeRuns

LEMMA ToldParent ==
  ASSUME TreeInv, NEW id \in DOMAIN merges, NEW m \in MergeTasks, SameTask(m, merges[id])
  PROVE  SameTasks(TellParent(m))
<1>1. m.parent = merges[id].parent /\ (~m.x_orig) \in BOOLEAN
  BY DEF SameTask
<1>2. SameTasks(SetOdd(merges, m.parent, m.zs, ~m.x_orig))
  BY <1>1, SetOddTells
<1>3. SameTasks(merges)
  BY DEF TreeInv, TreeTypeOK, SameTasks, SameTask
<1> QED BY <1>2, <1>3 DEF TellParent

LEMMA MergeRangesStep ==
  ASSUME TreeInv, NEW id \in DOMAIN merges, MergeRanges(id)
  PROVE  TreeInv' /\ Replaces(MergeNode(id), {MergeNode(id)})
<1> DEFINE m == ToMerge(id).m
<1>1. m \in MergeTasks /\ SameTask(m, merges[id])
  BY AlignedTask, MergeTaskIsTyped
<1>2. SameTasks(TellParent(m))
  BY <1>1, ToldParent
<1>3. /\ merges' = [TellParent(m) EXCEPT ![id] = [m EXCEPT !.finished = TRUE]] /\ refcount[id] = 0
      /\ UNCHANGED <<sortInput, sorts, refcount, sortPc>>
  BY DEF MergeRanges, Runnable
<1> HIDE DEF m
<1> QED BY <1>1, <1>2, <1>3, MergeRuns

\* Wherever the searches end, a long merge is cut into two pieces that are not empty.
LEMMA CutsAreInside ==
  ASSUME NEW m \in MergeTasks, m.xs <= m.xe, m.ys <= m.ye, SizeOf(m) > MergeCutOff, NEW from,
         NEW cut \in SplitPoints(m, from)
  PROVE  /\ cut[1] \in Nat /\ m.xs <= cut[1] /\ cut[1] <= m.xe
         /\ cut[2] \in Nat /\ m.ys <= cut[2] /\ cut[2] <= m.ye
         /\ 0 < (cut[1] - m.xs) + (cut[2] - m.ys)
         /\ (cut[1] - m.xs) + (cut[2] - m.ys) < SizeOf(m)
<1>1. MergeCutOff \in Nat /\ MergeCutOff > 1
  BY SortAssumption
<1>2. m.xs \in Nat /\ m.xe \in Nat /\ m.ys \in Nat /\ m.ye \in Nat
  BY DEF MergeTasks
<1>3. PICK nx \in Nat, ny \in Nat : nx = m.xe - m.xs /\ ny = m.ye - m.ys
  BY <1>2
<1>4. nx + ny > 2
  BY <1>1, <1>3 DEF SizeOf
<1>5. CASE nx < ny
  <2>1. cut[2] = m.ys + ny \div 2 /\ cut[1] \in m.xs..m.xe
    BY <1>3, <1>5 DEF SplitPoints, UpperPositions
  <2>2. ny \div 2 \in Nat /\ 0 < ny \div 2 /\ ny \div 2 < ny
    BY <1>4, <1>5
  <2>3. cut[1] \in Nat /\ m.xs <= cut[1] /\ cut[1] <= m.xe
    BY <1>2, <2>1
  <2> QED BY <1>2, <1>3, <2>1, <2>2, <2>3 DEF SizeOf
<1>6. CASE ~(nx < ny)
  <2>1. cut[1] = m.xs + nx \div 2 /\ cut[2] \in m.ys..m.ye
    BY <1>3, <1>6 DEF SplitPoints, LowerPositions
  <2>2. nx \div 2 \in Nat /\ 0 < nx \div 2 /\ nx \div 2 < nx
    BY <1>4, <1>6
  <2>3. cut[2] \in Nat /\ m.ys <= cut[2] /\ cut[2] <= m.ye
    BY <1>2, <2>1
  <2> QED BY <1>2, <1>3, <2>1, <2>2, <2>3 DEF SizeOf
<1> QED BY <1>5, <1>6

\* The pieces that m is cut into.
CutInto(m, cut, L, R) ==
  /\ L.xs = m.xs /\ L.xe = cut[1] /\ L.ys = m.ys /\ L.ye = cut[2] /\ L.zs = m.zs /\ L.nmerge = m.nmerge
  /\ R.xs = cut[1] /\ R.xe = m.xe /\ R.ys = cut[2] /\ R.ye = m.ye /\ R.nmerge = m.nmerge
  /\ R.zs = m.zs + (cut[1] - m.xs) + (cut[2] - m.ys)

\* What a merge task leaves that cuts its work into two pieces.
SplitsMerge(id, l, r) ==
  LET m == ToMerge(id).m
  IN  /\ l # r
      /\ Replaces(MergeNode(id), {MergeNode(l), MergeNode(r)})
      /\ DOMAIN merges' = (DOMAIN merges \ {id}) \cup {l, r}
      /\ \A i \in DOMAIN merges \ {id} : merges'[i] = TellParent(m)[i]
      /\ \A q \in {l, r} :
           /\ merges'[q].split /\ ~merges'[q].finished
           /\ merges'[q].root = m.root /\ merges'[q].parent = m.parent
           /\ merges'[q].x_orig = m.x_orig /\ merges'[q].y_orig = m.y_orig
           /\ Home(MergeNode(q))' = Home(MergeNode(id))
      /\ MergeInputs(merges'[l]) \cup MergeInputs(merges'[r]) = MergeInputs(merges[id])
      /\ MergeOutputs(merges'[l]) \cup MergeOutputs(merges'[r]) = MergeOutputs(merges[id])
      /\ \E cut \in SplitPoints(m, IF m.x_orig THEN ToMerge(id).M.x ELSE ToMerge(id).M.z) :
           CutInto(m, cut, merges'[l], merges'[r])

LEMMA SpanIsCut ==
  ASSUME NEW a \in Nat, NEW b \in Nat, NEW c \in Nat, a <= b, b <= c
  PROVE  Span(a, b) \subseteq Span(a, c) /\ Span(b, c) \subseteq Span(a, c) /\ Span(a, b) \cup Span(b, c) = Span(a, c)
BY DEF Span

\* A long merge becomes two pieces, which have its parent and its home.
LEMMA MergeSplitStep ==
  ASSUME TreeInv, NEW id \in DOMAIN merges, MergeSplit(id)
  PROVE  TreeInv' /\ \E l, r : SplitsMerge(id, l, r)
<1> DEFINE t == MergeNode(id)
           m == ToMerge(id).m
<1>0. PICK p : p = merges[id].parent
  OBVIOUS
<1>1. /\ merges[id] \in MergeTasks /\ MergeShape(id) /\ t \in Nodes /\ id \in Nat \X Nat
      /\ Up(t) = p /\ DOMAIN refcount = {Root} \cup DOMAIN merges /\ p \in DOMAIN refcount
      /\ refcount[id] \in Nat /\ refcount[id] = 0
  BY <1>0, MergeTaskIsTyped DEF MergeSplit, Runnable
<1>2. m \in MergeTasks /\ SameTask(m, merges[id])
  BY <1>1, AlignedTask
<1> DEFINE from == IF m.x_orig THEN ToMerge(id).M.x ELSE ToMerge(id).M.z
           Zm(cut) == m.zs + (cut[1] - m.xs) + (cut[2] - m.ys)
           piece == [m EXCEPT !.split = TRUE]
<1>3. PICK cut \in SplitPoints(m, from) :
        /\ merges' = [i \in (DOMAIN merges \ {id}) \cup {<<m.zs, Zm(cut)>>, <<Zm(cut), m.zs + SizeOf(m)>>} |->
             CASE i = <<m.zs, Zm(cut)>>  -> [piece EXCEPT !.xe = cut[1], !.ye = cut[2]]
               [] i = <<Zm(cut), m.zs + SizeOf(m)>> -> [piece EXCEPT !.xs = cut[1], !.ys = cut[2], !.zs = Zm(cut)]
               [] OTHER     -> TellParent(m)[i]]
        /\ refcount' = [i \in (DOMAIN refcount \ {id}) \cup {<<m.zs, Zm(cut)>>, <<Zm(cut), m.zs + SizeOf(m)>>} |->
             IF i \in {<<m.zs, Zm(cut)>>, <<Zm(cut), m.zs + SizeOf(m)>>} THEN 0
             ELSE refcount[i] + (IF i = m.parent THEN 1 ELSE 0)]
  BY DEF MergeSplit
<1> DEFINE zm    == Zm(cut)
           left  == <<m.zs, zm>>
           right == <<zm, m.zs + SizeOf(m)>>
           L     == [piece EXCEPT !.xe = cut[1], !.ye = cut[2]]
           R     == [piece EXCEPT !.xs = cut[1], !.ys = cut[2], !.zs = zm]
           N     == {MergeNode(left), MergeNode(right)}
<1>4. SizeOf(m) > MergeCutOff /\ UNCHANGED <<sortInput, sorts, sortPc>>
  BY DEF MergeSplit
<1>5. /\ cut[1] \in Nat /\ m.xs <= cut[1] /\ cut[1] <= m.xe
      /\ cut[2] \in Nat /\ m.ys <= cut[2] /\ cut[2] <= m.ye
      /\ 0 < (cut[1] - m.xs) + (cut[2] - m.ys)
      /\ (cut[1] - m.xs) + (cut[2] - m.ys) < SizeOf(m)
  <2>1. m.xs <= m.xe /\ m.ys <= m.ye
    BY <1>1, <1>2 DEF MergeShape, SameTask, MergeTasks
  <2> HIDE DEF m, from
  <2> QED BY <2>1, <1>2, <1>3, <1>4, CutsAreInside
<1> HIDE DEF m, from
<1>6. /\ m.zs \in Nat /\ m.zs + SizeOf(m) \in Nat /\ zm \in Nat /\ m.zs < zm /\ zm < m.zs + SizeOf(m)
      /\ m.xs \in Nat /\ m.xe \in Nat /\ m.ys \in Nat /\ m.ye \in Nat
      /\ m.xs <= m.xe /\ m.xe <= m.ys /\ m.ys <= m.ye /\ m.parent = p
  BY <1>0, <1>1, <1>2, <1>5 DEF MergeShape, SameTask, MergeTasks, SizeOf
<1>7. id = <<m.zs, m.zs + SizeOf(m)>>
  BY <1>1, <1>2 DEF MergeShape, SameTask, SizeOf
<1>8. /\ L \in MergeTasks /\ L.xs = m.xs /\ L.xe = cut[1] /\ L.ys = m.ys /\ L.ye = cut[2] /\ L.zs = m.zs
      /\ L.split /\ L.parent = p /\ L.x_orig = m.x_orig
      /\ R \in MergeTasks /\ R.xs = cut[1] /\ R.xe = m.xe /\ R.ys = cut[2] /\ R.ye = m.ye /\ R.zs = zm
      /\ R.split /\ R.parent = p /\ R.x_orig = m.x_orig
      /\ L.y_orig = m.y_orig /\ R.y_orig = m.y_orig /\ L.root = m.root /\ R.root = m.root /\ ~L.finished /\ ~R.finished
      /\ L.nmerge = m.nmerge /\ R.nmerge = m.nmerge
  <2>1. ~m.finished
    BY <1>2 DEF MergeSplit, Runnable, SameTask
  <2> QED BY <2>1, <1>2, <1>5, <1>6 DEF MergeTasks
<1>9. left # right /\ left # id /\ right # id /\ left \in Nat \X Nat /\ right \in Nat \X Nat
  BY <1>6, <1>7
<1>10. /\ sorts' = sorts /\ cutOff' = cutOff /\ sortN' = sortN /\ nsort' = nsort /\ sortPc' = sortPc
       /\ merges' = [i \in (DOMAIN merges \ {id}) \cup {left, right} |->
            CASE i = left -> L [] i = right -> R [] OTHER -> TellParent(m)[i]]
       /\ refcount' = [i \in (DOMAIN refcount \ {id}) \cup {left, right} |->
            IF i \in {left, right} THEN 0 ELSE refcount[i] + (IF i = p THEN 1 ELSE 0)]
  BY <1>3, <1>4, <1>6 DEF sortInput
<1>11. SizeOf(L) = zm - m.zs /\ SizeOf(R) = (m.zs + SizeOf(m)) - zm
  BY <1>5, <1>6, <1>8 DEF SizeOf
<1>12. PICK e \in Nat : e = m.zs + SizeOf(m)
  BY <1>6
<1>13. left[1] = m.zs /\ left[2] = zm /\ right[1] = zm /\ right[2] = e /\ id[1] = m.zs /\ id[2] = e /\ m.zs < zm /\ zm < e
  BY <1>6, <1>7, <1>12
<1>14. m.zs \in Nat /\ zm \in Nat /\ SizeOf(L) = zm - m.zs /\ SizeOf(R) = e - zm
  BY <1>6, <1>11, <1>12
<1> HIDE DEF zm, left, right, L, R
<1>15. Idle(t)
  BY <1>1, IdleTasks
<1>16. Home(t) \in Nat \X Nat /\ Home(t)[1] < Home(t)[2]
  BY <1>1, HomesAreRanges DEF TreeInv
<1>17. /\ Home(t)[1] <= m.zs /\ e <= Home(t)[2] /\ Home(t)[1] <= m.xs /\ m.ye <= Home(t)[2]
  <2>1. CASE ~merges[id].split
    <3>1. Home(t) = id
      BY <2>1 DEF Home, MergeNode
    <3> QED BY <2>1, <3>1, <1>1, <1>2, <1>6, <1>12, <1>13 DEF MergeShape, SameTask, SizeOf, MergeTasks
  <2>2. CASE merges[id].split
    <3>1. SizeOf(merges[id]) = SizeOf(m)
      BY <1>2 DEF SizeOf, SameTask
    <3> QED BY <2>2, <3>1, <1>1, <1>2, <1>12 DEF MergeShape, SameTask
  <2> QED BY <2>1, <2>2
<1>18. MergeOutputs(merges[id]) = Span(m.zs, e) /\ MergeInputs(merges[id]) = Span(m.xs, m.xe) \cup Span(m.ys, m.ye)
  <2>1. MergeOutputs(merges[id]) = Span(m.zs, (m.zs + (m.xe - m.xs)) + (m.ye - m.ys))
    BY <1>2 DEF MergeOutputs, SameTask
  <2>2. e = (m.zs + (m.xe - m.xs)) + (m.ye - m.ys)
    BY <1>6, <1>12 DEF SizeOf
  <2> QED BY <2>1, <2>2, <1>2 DEF MergeInputs, SameTask
<1>19. left \notin DOMAIN merges /\ right \notin DOMAIN merges
  <2> SUFFICES ASSUME NEW q \in DOMAIN merges, q[1] \in Nat, q[2] \in Nat, q # id,
                      m.zs <= q[1], q[1] < q[2], q[2] <= e
               PROVE  FALSE
    BY <1>9, <1>12, <1>13, <1>14
  <2> DEFINE u == MergeNode(q)
  <2>1. u \in Nodes /\ u # t /\ u[2] = q /\ merges[q] \in MergeTasks /\ MergeShape(q) /\ q \in Nat \X Nat
    BY MergeTaskIsTyped DEF MergeNode
  <2>2. Apart(Home(t), Home(u)) \/ Below(t, u) \/ Siblings(t, u)
    BY <2>1, <1>1, <1>15, Alone
  <2>3. Home(u) \in Nat \X Nat
    BY <2>1, HomesAreRanges DEF TreeInv
  <2>4. Within(q, Home(u))
    BY <2>1 DEF MergeShape, Within, Home, MergeNode, SizeOf, MergeTasks
  <2>5. Within(q, Home(t))
    BY <1>13, <1>14, <1>16, <1>17, <2>1 DEF Within
  <2>6. ~Apart(Home(t), Home(u))
    BY <2>1, <2>3, <2>4, <2>5, <1>16 DEF Apart, Within
  <2>7. ~Below(t, u)
    <3> SUFFICES ASSUME Below(t, u) PROVE FALSE
      OBVIOUS
    <3>1. Home(u) = q
      BY <2>1, HalvesAreShorter DEF Below, TreeInv
    <3> QED BY <3>1, <2>1, <2>5, <1>16, BelowIsSmaller DEF TreeInv
  <2>8. ~Siblings(t, u)
    <3>1. q[1] \in Span(m.zs, e)
      BY <1>14 DEF Span
    <3>2. q[1] \in MergeOutputs(merges[q])
      <4>1. merges[q].zs = q[1] /\ q[2] = q[1] + SizeOf(merges[q])
        BY <2>1 DEF MergeShape
      <4> QED BY <4>1, <2>1 DEF MergeOutputs, SizeOf, Span, MergeTasks
    <3> QED BY <3>1, <3>2, <2>1, <1>18 DEF Siblings, MergeNode
  <2> QED BY <2>2, <2>6, <2>7, <2>8
<1>20. SameTasks(TellParent(m))
  BY <1>2, ToldParent
<1>21. /\ merges'[left] = L /\ merges'[right] = R
       /\ DOMAIN merges' = (DOMAIN merges \ {id}) \cup {left, right}
       /\ \A i \in DOMAIN merges \ {id} : merges'[i] = TellParent(m)[i]
       /\ DOMAIN refcount' = (DOMAIN refcount \ {id}) \cup {left, right}
       /\ refcount'[left] = 0 /\ refcount'[right] = 0
       /\ \A i \in DOMAIN refcount \ {id} : i \notin {left, right} => refcount'[i] = refcount[i] + (IF i = p THEN 1 ELSE 0)
  BY <1>9, <1>10, <1>19
<1>22. Replaces(t, N)
  <2>1. Nodes' = (Nodes \ {t}) \cup N
    <3>1. {MergeNode(i) : i \in DOMAIN merges'} = ({MergeNode(i) : i \in DOMAIN merges} \ {t}) \cup N
      BY <1>21 DEF MergeNode
    <3>2. {SortNode(s) : s \in sorts'} = {SortNode(s) : s \in sorts} /\ t \notin {SortNode(s) : s \in sorts}
      BY <1>10 DEF SortNode, MergeNode
    <3> HIDE DEF t, N
    <3> QED BY <3>1, <3>2 DEF Nodes
  <2>2. \A i \in DOMAIN merges : t # MergeNode(i) => SameMerge(i)
    BY <1>20, <1>21 DEF SameMerge, SameTasks, MergeNode
  <2> QED BY <2>1, <2>2, <1>10 DEF Replaces
<1>23. PICK z1, z2 : z1 = m.zs /\ z2 = zm
  OBVIOUS
<1>24. \A i \in {z1, z2} : HalfAt(p, i)' = Home(t)
  <2>1. \A i \in {z1, z2} : i \in Nat /\ Home(t)[1] <= i /\ i < Home(t)[2]
    BY <1>13, <1>14, <1>16, <1>17, <1>23
  <2>2. \A i \in Nat : Home(t)[1] <= i /\ i < Home(t)[2] => HalfAt(p, i)' = Home(t)
    BY <1>1, <1>15, <1>22, SamePlace
  <2> QED BY <2>1, <2>2
<1>25. \A v \in N : IsSplit(v)' /\ ~IsWhole(v)' /\ Up(v)' = p /\ Home(v)' = Home(t)
  <2>1. ASSUME NEW i, i \in DOMAIN merges', merges'[i].split, merges'[i].parent = p, merges'[i].zs \in {z1, z2}
        PROVE  /\ IsSplit(MergeNode(i))' /\ ~IsWhole(MergeNode(i))' /\ Up(MergeNode(i))' = p
               /\ Home(MergeNode(i))' = Home(t)
    <3>1. PICK z \in {z1, z2} : z = merges'[i].zs
      BY <2>1
    <3>2. Home(MergeNode(i))' = HalfAt(p, z)'
      BY <2>1, <3>1 DEF Home, MergeNode
    <3> QED BY <2>1, <3>1, <3>2, <1>24 DEF IsSplit, IsWhole, Up, MergeNode
  <2> QED BY <2>1, <1>8, <1>21, <1>23
<1>26. /\ MergeInputs(L) \subseteq MergeInputs(merges[id]) /\ MergeInputs(R) \subseteq MergeInputs(merges[id])
       /\ MergeOutputs(L) \subseteq MergeOutputs(merges[id]) /\ MergeOutputs(R) \subseteq MergeOutputs(merges[id])
       /\ MergeInputs(L) \cap MergeInputs(R) = {} /\ MergeOutputs(L) \cap MergeOutputs(R) = {}
       /\ MergeInputs(L) \cup MergeInputs(R) = MergeInputs(merges[id])
       /\ MergeOutputs(L) \cup MergeOutputs(R) = MergeOutputs(merges[id])
  <2>1. MergeInputs(L) = Span(m.xs, cut[1]) \cup Span(m.ys, cut[2]) /\ MergeInputs(R) = Span(cut[1], m.xe) \cup Span(cut[2], m.ye)
    BY <1>8 DEF MergeInputs
  <2>2. MergeOutputs(L) = Span(m.zs, zm) /\ MergeOutputs(R) = Span(zm, e)
    <3>1. L.zs + (L.xe - L.xs) + (L.ye - L.ys) = zm /\ R.zs + (R.xe - R.xs) + (R.ye - R.ys) = e
      BY <1>5, <1>6, <1>8, <1>12, <1>14 DEF SizeOf
    <3> QED BY <3>1, <1>8 DEF MergeOutputs
  <2>3. MergeInputs(L) \subseteq MergeInputs(merges[id]) /\ MergeInputs(R) \subseteq MergeInputs(merges[id])
    <3>1. /\ Span(m.xs, cut[1]) \subseteq Span(m.xs, m.xe) /\ Span(cut[1], m.xe) \subseteq Span(m.xs, m.xe)
          /\ Span(m.ys, cut[2]) \subseteq Span(m.ys, m.ye) /\ Span(cut[2], m.ye) \subseteq Span(m.ys, m.ye)
      BY <1>5, <1>6, SpanIsCut
    <3> QED BY <2>1, <3>1, <1>18
  <2>4. MergeInputs(L) \cap MergeInputs(R) = {}
    BY <2>1, <1>5, <1>6 DEF Span
  <2>5. MergeInputs(L) \cup MergeInputs(R) = MergeInputs(merges[id])
    <3>1. Span(m.xs, cut[1]) \cup Span(cut[1], m.xe) = Span(m.xs, m.xe) /\ Span(m.ys, cut[2]) \cup Span(cut[2], m.ye) = Span(m.ys, m.ye)
      BY <1>5, <1>6, SpanIsCut
    <3> QED BY <2>1, <3>1, <1>18
  <2>6. MergeOutputs(L) \cup MergeOutputs(R) = MergeOutputs(merges[id])
    BY <2>2, <1>13, <1>14, <1>18, SpanIsCut
  <2>7. MergeOutputs(L) \cap MergeOutputs(R) = {}
    BY <2>2, <1>13, <1>14 DEF Span
  <2> QED BY <2>3, <2>4, <2>5, <2>6, <2>7
<1>27. NewTasks(t, N)
  <2>1. \A v \in N : HasParent(v)'
    BY <1>1, <1>15, <1>22, <1>25, SamePlace
  <2>2. ASSUME NEW i \in {left, right}, NEW u \in Nodes \ {t}, Siblings(t, u)
        PROVE  Siblings(MergeNode(i), u)'
    <3>1. Kept(u)
      BY <1>1, <1>15, <1>22, OthersAreKept DEF TreeInv
    <3>2. IsSplit(MergeNode(i))' /\ Up(MergeNode(i))' = Up(t) /\ Home(MergeNode(i))' = Home(t)
      BY <1>1, <1>25
    <3>3. /\ IsSplit(u) /\ Up(t) = Up(u) /\ Home(t) = Home(u) /\ merges[id].split
          /\ merges[id].x_orig = merges[u[2]].x_orig
          /\ MergeInputs(merges[id]) \cap MergeInputs(merges[u[2]]) = {}
          /\ MergeOutputs(merges[id]) \cap MergeOutputs(merges[u[2]]) = {}
      BY <2>2 DEF Siblings, IsSplit, MergeNode
    <3>4. merges'[i].x_orig = merges[id].x_orig
      BY <3>3, <1>2, <1>8, <1>21 DEF SameTask
    <3>5. MergeInputs(merges'[i]) \subseteq MergeInputs(merges[id]) /\ MergeOutputs(merges'[i]) \subseteq MergeOutputs(merges[id])
      BY <1>21, <1>26
    <3>6. MergeNode(i)[2] = i
      BY DEF MergeNode
    <3>7. /\ merges'[u[2]].x_orig = merges[u[2]].x_orig
          /\ MergeInputs(merges'[u[2]]) = MergeInputs(merges[u[2]])
          /\ MergeOutputs(merges'[u[2]]) = MergeOutputs(merges[u[2]])
      BY <3>1, <3>3 DEF Kept
    <3>8. /\ MergeInputs(merges'[i]) \cap MergeInputs(merges'[u[2]]) = {}
          /\ MergeOutputs(merges'[i]) \cap MergeOutputs(merges'[u[2]]) = {}
      BY <3>3, <3>5, <3>7
    <3> QED BY <3>1, <3>2, <3>3, <3>4, <3>6, <3>7, <3>8 DEF Siblings, Kept
  <2>3. ASSUME NEW v \in N, NEW w \in N, v # w
        PROVE  Siblings(v, w)'
    <3>1. PICK i, j : v = MergeNode(i) /\ w = MergeNode(j) /\ ((i = left /\ j = right) \/ (i = right /\ j = left))
      BY <2>3
    <3>2. v[2] = i /\ w[2] = j
      BY <3>1 DEF MergeNode
    <3>3. /\ merges'[i].x_orig = merges'[j].x_orig
          /\ MergeInputs(merges'[i]) \cap MergeInputs(merges'[j]) = {}
          /\ MergeOutputs(merges'[i]) \cap MergeOutputs(merges'[j]) = {}
      BY <3>1, <1>8, <1>21, <1>26
    <3>4. IsSplit(v)' /\ IsSplit(w)' /\ Up(v)' = Up(w)' /\ Home(v)' = Home(w)'
      BY <1>25
    <3> QED BY <3>2, <3>3, <3>4 DEF Siblings
  <2>4. \A v \in N : \A u : ~Below(u, v)'
    BY <1>25 DEF Below
  <2>5. Within(Home(t), Home(t))
    BY <1>16 DEF Within
  <2>6. \A v \in N : \A u \in Nodes \ {t} : Siblings(t, u) => Siblings(v, u)'
    BY <2>2
  <2> HIDE DEF t, N
  <2> QED BY <2>1, <2>3, <2>4, <2>5, <2>6, <1>1, <1>16, <1>25 DEF NewTasks, Related
<1>28. ParentsWait' /\ Nested' /\ Connected' /\ Rooted'
  BY <1>1, <1>15, <1>22, <1>27, TreeStep
<1>29. TreeTypeOK'
  <2>1. merges' \in [DOMAIN merges' -> MergeTasks]
    BY <1>8, <1>10, <1>20, <1>21 DEF SameTasks
  <2>2. IsFiniteSet(DOMAIN merges')
    <3>1. IsFiniteSet(DOMAIN merges \ {id})
      BY FS_RemoveElement DEF TreeInv, TreeTypeOK
    <3>2. IsFiniteSet((DOMAIN merges \ {id}) \cup {left})
      BY <3>1, FS_AddElement
    <3>3. IsFiniteSet(((DOMAIN merges \ {id}) \cup {left}) \cup {right})
      BY <3>2, FS_AddElement
    <3>4. DOMAIN merges' = ((DOMAIN merges \ {id}) \cup {left}) \cup {right}
      BY <1>21
    <3> QED BY <3>3, <3>4
  <2>3. DOMAIN merges' \subseteq Nat \X Nat
    BY <1>9, <1>21 DEF TreeInv, TreeTypeOK
  <2>4. DOMAIN refcount' = {Root} \cup DOMAIN merges'
    BY <1>1, <1>21, MergeTaskIsTyped
  <2>5. refcount' \in [DOMAIN refcount' -> Nat]
    <3>1. \A i \in DOMAIN refcount' : refcount'[i] \in Nat
      <4>1. \A i \in DOMAIN refcount : refcount[i] \in Nat
        BY DEF TreeInv, TreeTypeOK
      <4>2. ASSUME NEW i \in DOMAIN refcount', i \notin {left, right}
            PROVE  refcount'[i] \in Nat
        <5>1. i \in DOMAIN refcount \ {id}
          BY <4>2, <1>21
        <5>2. refcount'[i] = refcount[i] + (IF i = p THEN 1 ELSE 0)
          BY <4>2, <5>1, <1>21
        <5> QED BY <4>1, <5>1, <5>2
      <4> QED BY <4>2, <1>21
    <3> QED BY <3>1, <1>10
  <2>6. sortPc' # "begin"
    BY <1>1, <1>10 DEF TreeInv, TreeTypeOK
  <2> QED BY <2>1, <2>2, <2>3, <2>4, <2>5, <2>6, <1>10 DEF TreeInv, TreeTypeOK
<1>30. Shapes'
  <2>1. ASSUME NEW q \in {left, right}
        PROVE  MergeShape(q)'
    <3>1. Home(MergeNode(q))' = Home(t)
      BY <1>25
    <3>2. PICK k : k = merges'[q]
      OBVIOUS
    <3>3. /\ q[1] = k.zs /\ q[2] = k.zs + SizeOf(k) /\ SizeOf(k) > 0 /\ k.split
          /\ k.xs <= k.xe /\ k.xe <= k.ys /\ k.ys <= k.ye
          /\ Home(t)[1] <= k.xs /\ k.ye <= Home(t)[2] /\ Home(t)[1] <= k.zs /\ k.zs + SizeOf(k) <= Home(t)[2]
      <4>1. CASE q = left
        BY <4>1, <3>2, <1>5, <1>6, <1>8, <1>13, <1>14, <1>16, <1>17, <1>21
      <4>2. CASE q = right
        BY <4>2, <3>2, <1>5, <1>6, <1>8, <1>13, <1>14, <1>16, <1>17, <1>21
      <4> QED BY <4>1, <4>2
    <3> QED BY <3>1, <3>2, <3>3 DEF MergeShape
  <2>2. \A i \in DOMAIN merges \ {id} : MergeShape(i)'
    BY <1>1, <1>15, <1>22, ShapesAreKept DEF MergeNode
  <2>3. \A i \in DOMAIN merges' : MergeShape(i)'
    BY <2>1, <2>2, <1>21
  <2> QED BY <2>3, <1>10 DEF TreeInv, Shapes, SortShape
<1>31. CountsChildren'
  <2>1. \A u \in Nodes : Up(u) = Root \/ Up(u) \in DOMAIN merges \ {id}
    BY <1>15 DEF TreeInv, ParentsWait, HasParent, Idle
  <2>2. p \notin {left, right, id}
    BY <2>1, <1>1, <1>9, <1>19 DEF Root
  <2>3. \A i \in DOMAIN merges \ {id} : merges'[i].parent = merges[i].parent
    BY <1>20, <1>21 DEF SameTasks, SameTask
  <2>4. /\ \A i \in DOMAIN merges : merges[i].parent \notin {left, right}
        /\ \A s \in sorts : s.parent \notin {left, right}
    <3>1. \A i \in DOMAIN merges : MergeNode(i) \in Nodes /\ Up(MergeNode(i)) = merges[i].parent
      BY MergeTaskIsTyped
    <3>2. \A s \in sorts : SortNode(s) \in Nodes /\ Up(SortNode(s)) = s.parent
      BY SortTaskIsTyped
    <3>3. Root \notin {left, right}
      BY <1>9 DEF Root
    <3>4. \A u \in Nodes : Up(u) \notin {left, right}
      BY <2>1, <3>3, <1>19
    <3> QED BY <3>1, <3>2, <3>4
  <2>5. ASSUME NEW q \in {left, right}
        PROVE  refcount'[q] = Cardinality(KidSorts(q)') + Cardinality(KidMerges(q)')
    <3>1. KidSorts(q)' = {}
      BY <2>4, <1>10 DEF KidSorts
    <3>2. KidMerges(q)' = {}
      BY <2>2, <2>3, <2>4, <1>8, <1>21 DEF KidMerges
    <3> QED BY <3>1, <3>2, <1>21, FS_EmptySet
  <2>6. ASSUME NEW q \in DOMAIN refcount \ {id}, q \notin {left, right}
        PROVE  refcount'[q] = Cardinality(KidSorts(q)') + Cardinality(KidMerges(q)')
    <3>1. refcount'[q] = refcount[q] + (IF q = p THEN 1 ELSE 0)
      BY <2>6, <1>21
    <3>2. refcount[q] = Cardinality(KidSorts(q)) + Cardinality(KidMerges(q)) /\ KidSorts(q)' = KidSorts(q)
      BY <1>10 DEF TreeInv, CountsChildren, KidSorts, KidMerges
    <3>3. /\ IsFiniteSet(KidMerges(q)) /\ Cardinality(KidMerges(q)) \in Nat /\ Cardinality(KidSorts(q)) \in Nat
      BY KidsAreFinite DEF TreeInv
    <3>4. CASE q # p
      <4>1. KidMerges(q)' = KidMerges(q)
        BY <3>4, <2>3, <1>0, <1>8, <1>21 DEF KidMerges
      <4> QED BY <3>1, <3>2, <3>3, <3>4, <4>1
    <3>5. CASE q = p
      <4>1. KidMerges(q)' = ((KidMerges(q) \ {id}) \cup {left}) \cup {right} /\ id \in KidMerges(q)
        BY <3>5, <2>3, <1>0, <1>8, <1>21 DEF KidMerges
      <4>2. left \notin KidMerges(q) \ {id} /\ right \notin (KidMerges(q) \ {id}) \cup {left}
        BY <1>9, <1>19 DEF KidMerges
      <4>3. IsFiniteSet(KidMerges(q) \ {id}) /\ Cardinality(KidMerges(q) \ {id}) = Cardinality(KidMerges(q)) - 1
        BY <3>3, <4>1, FS_RemoveElement
      <4>4. /\ IsFiniteSet((KidMerges(q) \ {id}) \cup {left})
            /\ Cardinality((KidMerges(q) \ {id}) \cup {left}) = Cardinality(KidMerges(q) \ {id}) + 1
        BY <4>2, <4>3, FS_AddElement
      <4>5. Cardinality(KidMerges(q)') = Cardinality((KidMerges(q) \ {id}) \cup {left}) + 1
        BY <4>1, <4>2, <4>4, FS_AddElement
      <4> QED BY <3>1, <3>2, <3>3, <3>5, <4>3, <4>4, <4>5
    <3> QED BY <3>4, <3>5
  <2>7. \A q \in DOMAIN refcount' : refcount'[q] = Cardinality(KidSorts(q)') + Cardinality(KidMerges(q)')
    BY <2>5, <2>6, <1>21
  <2> QED BY <2>7 DEF CountsChildren, KidSorts, KidMerges
<1>32. \E l, r : SplitsMerge(id, l, r)
  <2>1. PICK l, r : l = left /\ r = right
    OBVIOUS
  <2>2. ASSUME NEW q \in {l, r}
        PROVE  /\ merges'[q].split /\ ~merges'[q].finished
               /\ merges'[q].root = m.root /\ merges'[q].parent = m.parent
               /\ merges'[q].x_orig = m.x_orig /\ merges'[q].y_orig = m.y_orig
               /\ Home(MergeNode(q))' = Home(t)
    <3>1. Home(MergeNode(q))' = Home(t)
      BY <2>1, <1>25
    <3> QED BY <2>1, <3>1, <1>6, <1>8, <1>21
  <2>3. merges'[l] = L /\ merges'[r] = R
    BY <2>1, <1>21
  <2>4. Replaces(t, {MergeNode(l), MergeNode(r)})
    BY <2>1, <1>22
  <2>5. CutInto(m, cut, merges'[l], merges'[r])
    BY <2>3, <1>8 DEF CutInto, zm
  <2>6. \E c \in SplitPoints(m, IF m.x_orig THEN ToMerge(id).M.x ELSE ToMerge(id).M.z) : CutInto(m, c, merges'[l], merges'[r])
    BY <2>5, <1>3 DEF from
  <2> QED BY <2>1, <2>2, <2>3, <2>4, <2>6, <1>9, <1>21, <1>26 DEF SplitsMerge, m
<1> QED BY <1>28, <1>29, <1>30, <1>31, <1>32 DEF TreeInv
-------------------------------------------------------------------------------
(* The theorems.                                                               *)

\* Where there are no tasks there is nothing to show.
LEMMA NoTasks ==
  ASSUME sorts = {}, DOMAIN merges = {}, merges \in [DOMAIN merges -> MergeTasks],
         refcount \in [DOMAIN refcount -> Nat], DOMAIN refcount = {},
         cutOff \in SortCutOffs, sortN \in 0..MaxSort, nsort \in Nat \ {0}
  PROVE  TreeInv
<1>1. Nodes = {}
  BY DEF Nodes
<1>2. TreeTypeOK
  BY FS_EmptySet DEF TreeTypeOK
<1>3. Shapes /\ ParentsWait /\ Nested /\ Connected /\ Rooted /\ CountsChildren
  BY <1>1 DEF Shapes, ParentsWait, Nested, Connected, Rooted, CountsChildren
<1> QED BY <1>2, <1>3 DEF TreeInv

LEMMA SortStarts == SortInit => TreeInv
<1> SUFFICES ASSUME SortInit PROVE TreeInv
  OBVIOUS
<1>1. nsort \in Nat \ {0} /\ sortN \in 0..MaxSort /\ cutOff \in SortCutOffs
  BY SortAssumption DEF SortInit
<1>2. sorts = {} /\ merges = <<>> /\ refcount = <<>>
  BY DEF SortInit
<1>3. DOMAIN merges = {} /\ DOMAIN refcount = {} /\ refcount \in [DOMAIN refcount -> Nat]
  BY <1>2
<1>4. merges \in [DOMAIN merges -> MergeTasks]
  BY <1>2
<1> QED BY <1>1, <1>2, <1>3, <1>4, NoTasks

\* The root of the tree is created.
LEMMA SpawnRootStep ==
  ASSUME TreeInv, SpawnRoot
  PROVE  TreeInv'
<1>0. PICK s : s = [lo |-> 0, hi |-> sortN, root |-> TRUE, parent |-> Root, finished |-> FALSE]
  OBVIOUS
<1>1. /\ sorts' = {s} /\ refcount' = [id \in {Root} |-> 1] /\ merges' = merges /\ sortPc' = "wait"
      /\ cutOff' = cutOff /\ sortN' = sortN /\ nsort' = nsort
  BY <1>0 DEF SpawnRoot, sortInput
<1>2. DOMAIN merges = {} /\ sortN \in Nat /\ sortN > 0
  <2>1. DOMAIN refcount = {}
    BY DEF TreeInv, TreeTypeOK, SpawnRoot
  <2> QED BY <2>1, SortAssumption DEF TreeInv, TreeTypeOK, SpawnRoot
<1>3. s \in SortTasks /\ s.lo = 0 /\ s.hi = sortN /\ s.parent = Root
  BY <1>0, <1>2 DEF SortTasks, Parents
<1>4. TreeTypeOK'
  <2>1. IsFiniteSet(sorts') /\ sorts' \subseteq SortTasks
    BY <1>1, <1>3, FS_Singleton
  <2>2. refcount' \in [DOMAIN refcount' -> Nat] /\ DOMAIN refcount' = {Root} \cup DOMAIN merges'
    BY <1>1, <1>2
  <2> QED BY <2>1, <2>2, <1>1 DEF TreeInv, TreeTypeOK
<1>5. Shapes'
  BY <1>1, <1>2, <1>3 DEF Shapes, SortShape
<1>6. Nodes' = {SortNode(s)}
  BY <1>1, <1>2 DEF Nodes
<1>7. Up(SortNode(s))' = Root /\ Home(SortNode(s))' = <<0, sortN>> /\ ~IsWhole(SortNode(s))'
  BY <1>1, <1>3 DEF Up, Home, IsWhole, SortNode
<1>8. \A u \in Nodes' : Up(u)' = Root /\ Home(u)' = <<0, sortN>> /\ ~IsWhole(u)'
  BY <1>6, <1>7
<1>9. ParentsWait' /\ Nested' /\ Connected' /\ Rooted'
  <2>1. \A u \in Nodes' : HasParent(u)'
    BY <1>1, <1>8 DEF HasParent
  <2>2. \A u \in Nodes', v \in Nodes' : ~Below(u, v)' /\ u = v
    BY <1>6, <1>8 DEF Below
  <2>3. \A u \in Nodes' : \E c \in Nodes' : Up(c)' = Root /\ Within(Home(u), Home(c))'
    BY <1>1, <1>2, <1>8 DEF Within
  <2> QED BY <2>1, <2>2, <2>3 DEF ParentsWait, Nested, Connected, Rooted
<1>10. CountsChildren'
  <2>1. KidSorts(Root)' = {s} /\ KidMerges(Root)' = {}
    BY <1>1, <1>2, <1>3 DEF KidSorts, KidMerges
  <2>2. DOMAIN refcount' = {Root} /\ refcount'[Root] = 1
    BY <1>1
  <2>3. refcount'[Root] = Cardinality(KidSorts(Root)') + Cardinality(KidMerges(Root)')
    <3>1. Cardinality(KidSorts(Root)') = 1
      BY <2>1, FS_Singleton
    <3>2. Cardinality(KidMerges(Root)') = 0
      BY <2>1, FS_EmptySet
    <3> QED BY <2>2, <3>1, <3>2
  <2> QED BY <2>2, <2>3 DEF CountsChildren, KidSorts, KidMerges
<1> QED BY <1>4, <1>5, <1>9, <1>10 DEF TreeInv

\* A step that changes no task.
LEMMA NoTaskChanges ==
  ASSUME TreeInv, UNCHANGED <<sortInput, sorts, merges, refcount>>, sortPc' \in {sortPc, "done"}
  PROVE  TreeInv'
<1>1. /\ sorts' = sorts /\ merges' = merges /\ refcount' = refcount
      /\ cutOff' = cutOff /\ sortN' = sortN /\ nsort' = nsort
  BY DEF sortInput
<1>2. Nodes' = Nodes
  BY <1>1 DEF Nodes
<1>3. \A u : Kept(u)
  BY <1>1 DEF Kept, Home, HalfAt, HalfX, HalfY, Up, IsWhole, IsSplit
<1>4. TreeTypeOK'
  BY <1>1 DEF TreeInv, TreeTypeOK
<1>5. Shapes'
  <2>1. \A i \in DOMAIN merges : MergeShape(i)'
    BY <1>1, <1>3 DEF TreeInv, Shapes, MergeShape, Kept
  <2> QED BY <2>1, <1>1 DEF TreeInv, Shapes, SortShape
<1>6. ParentsWait'
  <2>1. \A u \in Nodes : HasParent(u)'
    <3> SUFFICES ASSUME NEW u \in Nodes PROVE HasParent(u)'
      OBVIOUS
    <3>1. HasParent(u) /\ Up(u)' = Up(u) /\ Home(u)' = Home(u)
      BY <1>3 DEF TreeInv, ParentsWait, Kept
    <3> QED BY <3>1, <1>1 DEF HasParent, HalfX, HalfY
  <2> QED BY <2>1, <1>2 DEF ParentsWait
<1>7. Nested' /\ Connected'
  <2>1. \A u, v : Related(u, v) => Related(u, v)'
    <3> SUFFICES ASSUME NEW u, NEW v, Related(u, v) PROVE Related(u, v)'
      OBVIOUS
    <3>1. Apart(Home(u), Home(v)) => Apart(Home(u), Home(v))'
      BY <1>3 DEF Apart, Kept
    <3> QED BY <3>1, <1>3, KeptRelations DEF Related
  <2>2. \A u, v : Below(u, v)' => Below(u, v)
    BY <1>3, KeptRelations
  <2>3. \A u, v : ChildBetween(u, v) => ChildBetween(u, v)'
    BY <1>2, <1>3 DEF ChildBetween, Kept, Within
  <2> QED BY <2>1, <2>2, <2>3, <1>2 DEF TreeInv, Nested, Connected
<1>8. Rooted'
  BY <1>2, <1>3 DEF TreeInv, Rooted, Kept, Within
<1>9. CountsChildren'
  BY <1>1 DEF TreeInv, CountsChildren
<1> QED BY <1>4, <1>5, <1>6, <1>7, <1>8, <1>9 DEF TreeInv

\* The tasks of a stable sort form a tree whose tasks lie apart, or within a half of
\* a merge that waits for them (parallel_backend_tbb.h:1003-1176).
THEOREM TasksFormATree == SortSpec => []TreeInv
<1>1. SortInit => TreeInv
  BY SortStarts
<1>2. TreeInv /\ [SortNext]_sortVars => TreeInv'
  <2> SUFFICES ASSUME TreeInv, [SortNext]_sortVars PROVE TreeInv'
    OBVIOUS
  <2>1. CASE SerialSort
    BY <2>1, NoTaskChanges DEF SerialSort
  <2>2. CASE SpawnRoot
    BY <2>2, SpawnRootStep
  <2>3. CASE SortReturn
    BY <2>3, NoTaskChanges DEF SortReturn
  <2>4. ASSUME NEW s \in sorts, SortLeaf(s) \/ SortSplit(s) \/ FinishSort(s)
        PROVE  TreeInv'
    BY <2>4, SortLeafStep, SortSplitStep, FinishSortStep
  <2>5. ASSUME NEW id \in DOMAIN merges,
               MergeInOrder(id) \/ MergeRanges(id) \/ MergeSplit(id) \/ FinishMerge(id)
        PROVE  TreeInv'
    BY <2>5, MergeInOrderStep, MergeRangesStep, MergeSplitStep, FinishMergeStep
  <2>6. CASE UNCHANGED sortVars
    BY <2>6, NoTaskChanges DEF sortVars
  <2> QED BY <2>1, <2>2, <2>3, <2>4, <2>5, <2>6 DEF SortNext
<1> QED BY <1>1, <1>2, PTL DEF SortSpec

\* A count is the number of tasks that will still decrement it: a merge runs neither
\* before its last child has finished nor never (parallel_backend_tbb.h:587-594).
THEOREM CountsMatchTheTree == SortSpec => []CountsChildren
<1>1. TreeInv => CountsChildren
  BY DEF TreeInv
<1> QED BY <1>1, TasksFormATree, PTL

\* The slots of a task that may run lie in its home.
LEMMA SlotsLieInHomes ==
  ASSUME TreeInv, NEW a \in ActiveTasks
  PROVE  \E t \in Nodes :
           /\ Idle(t)
           /\ a.slots \subseteq {"x", "z"} \X Span(Home(t)[1], Home(t)[2])
           /\ a.id = IF t[1] = "sort" THEN <<t[2].lo, t[2].hi, 0>> ELSE <<t[2][1], t[2][2], 1>>
           /\ IsSplit(t) => a.slots = MergeSlots(merges[t[2]])
<1>1. ASSUME NEW s \in sorts, a = [id |-> <<s.lo, s.hi, 0>>, slots |-> InArray("x", Span(s.lo, s.hi))]
      PROVE  /\ SortNode(s) \in Nodes /\ Idle(SortNode(s))
             /\ a.slots \subseteq {"x", "z"} \X Span(Home(SortNode(s))[1], Home(SortNode(s))[2])
             /\ SortNode(s)[1] = "sort" /\ SortNode(s)[2] = s /\ ~IsSplit(SortNode(s))
             /\ a.id = <<s.lo, s.hi, 0>>
  <2>1. SortNode(s) \in Nodes /\ Idle(SortNode(s)) /\ Home(SortNode(s)) = <<s.lo, s.hi>>
    BY SortTaskIsTyped, IdleTasks
  <2> QED BY <1>1, <2>1 DEF InArray, SortNode, IsSplit
<1>2. ASSUME NEW id \in DOMAIN merges, Runnable(id),
             a = [id |-> <<id[1], id[2], 1>>, slots |-> MergeSlots(merges[id])]
      PROVE  /\ MergeNode(id) \in Nodes /\ Idle(MergeNode(id))
             /\ a.slots \subseteq {"x", "z"} \X Span(Home(MergeNode(id))[1], Home(MergeNode(id))[2])
             /\ MergeNode(id)[1] = "merge" /\ MergeNode(id)[2] = id
             /\ a.id = <<id[1], id[2], 1>> /\ a.slots = MergeSlots(merges[id])
  <2> DEFINE t == MergeNode(id)
             h == Home(t)
             m == merges[id]
  <2>1. t \in Nodes /\ Idle(t) /\ m \in MergeTasks /\ MergeShape(id) /\ id \in Nat \X Nat
    BY <1>2, MergeTaskIsTyped, IdleTasks DEF Runnable
  <2>2. h \in Nat \X Nat
    BY <2>1, HomesAreRanges DEF TreeInv
  <2>3. MergeSlots(m) \subseteq {"x", "z"} \X Span(h[1], h[2])
    <3>1. CASE m.split
      <4>1. /\ h[1] <= m.xs /\ m.xs <= m.xe /\ m.xe <= m.ys /\ m.ys <= m.ye /\ m.ye <= h[2]
            /\ h[1] <= m.zs /\ m.zs + SizeOf(m) <= h[2]
        BY <3>1, <2>1 DEF MergeShape
      <4>2. m.zs + SizeOf(m) = m.zs + (m.xe - m.xs) + (m.ye - m.ys)
        BY <2>1 DEF SizeOf, MergeTasks
      <4> HIDE DEF h, m
      <4>3. MergeInputs(m) \subseteq Span(h[1], h[2])
        BY <2>1, <2>2, <4>1 DEF MergeInputs, Span, MergeTasks
      <4>4. MergeOutputs(m) \subseteq Span(h[1], h[2])
        BY <2>1, <2>2, <4>1, <4>2 DEF MergeOutputs, Span, MergeTasks, SizeOf
      <4> QED BY <3>1, <4>3, <4>4 DEF MergeSlots, InArray
    <3>2. CASE ~m.split
      <4>1. h = <<m.xs, m.ye>>
        BY <3>2, <2>1 DEF MergeShape, SizeOf, Home, MergeNode, MergeTasks
      <4> HIDE DEF h, m
      <4> QED BY <3>2, <4>1 DEF MergeSlots, InArray
    <3> QED BY <3>1, <3>2
  <2> QED BY <1>2, <2>1, <2>3 DEF MergeNode
<1>3. CASE \E s \in sorts : a = [id |-> <<s.lo, s.hi, 0>>, slots |-> InArray("x", Span(s.lo, s.hi))]
  BY <1>1, <1>3
<1>4. CASE \E id \in DOMAIN merges : Runnable(id) /\ a = [id |-> <<id[1], id[2], 1>>, slots |-> MergeSlots(merges[id])]
  BY <1>2, <1>4
<1>5. \/ \E s \in sorts : a = [id |-> <<s.lo, s.hi, 0>>, slots |-> InArray("x", Span(s.lo, s.hi))]
      \/ \E id \in DOMAIN merges : Runnable(id) /\ a = [id |-> <<id[1], id[2], 1>>, slots |-> MergeSlots(merges[id])]
  BY DEF ActiveTasks
<1> QED BY <1>3, <1>4, <1>5

\* Tasks that may run at the same time lie apart, or are pieces of one merge; the
\* pieces read and write different parts of its halves and of its output
\* (parallel_backend_tbb.h:1051-1064, 1166-1176).
THEOREM TasksShareNoSlot == SortSpec => []SortTasksShareNothing
<1>1. TreeInv => SortTasksShareNothing
  <2> SUFFICES ASSUME TreeInv, NEW a \in ActiveTasks, NEW b \in ActiveTasks, a.id # b.id
               PROVE  a.slots \cap b.slots = {}
    BY DEF SortTasksShareNothing
  <2>1. PICK t \in Nodes :
          /\ Idle(t)
          /\ a.slots \subseteq {"x", "z"} \X Span(Home(t)[1], Home(t)[2])
          /\ a.id = IF t[1] = "sort" THEN <<t[2].lo, t[2].hi, 0>> ELSE <<t[2][1], t[2][2], 1>>
          /\ IsSplit(t) => a.slots = MergeSlots(merges[t[2]])
    BY SlotsLieInHomes
  <2>2. PICK u \in Nodes :
          /\ Idle(u)
          /\ b.slots \subseteq {"x", "z"} \X Span(Home(u)[1], Home(u)[2])
          /\ b.id = IF u[1] = "sort" THEN <<u[2].lo, u[2].hi, 0>> ELSE <<u[2][1], u[2][2], 1>>
          /\ IsSplit(u) => b.slots = MergeSlots(merges[u[2]])
    BY SlotsLieInHomes
  <2>3. t # u
    BY <2>1, <2>2
  <2>4. Apart(Home(t), Home(u)) \/ Siblings(t, u)
    <3>1. ~Below(t, u)
      BY <2>2, NothingBelow DEF TreeInv
    <3> QED BY <2>1, <2>3, <3>1, Alone
  <2>5. CASE Apart(Home(t), Home(u))
    <3>1. Home(t) \in Nat \X Nat /\ Home(u) \in Nat \X Nat
      BY HomesAreRanges DEF TreeInv
    <3>2. Span(Home(t)[1], Home(t)[2]) \cap Span(Home(u)[1], Home(u)[2]) = {}
      BY <2>5, <3>1 DEF Apart, Span
    <3> QED BY <2>1, <2>2, <3>2
  <2>6. CASE Siblings(t, u)
    BY <2>1, <2>2, <2>6 DEF Siblings, IsSplit, MergeSlots, InArray
  <2> QED BY <2>4, <2>5, <2>6
<1> QED BY <1>1, TasksFormATree, PTL
-------------------------------------------------------------------------------
(* What is in memory, as far as tasks rely on it. A half h of a merge p that   *)
(* waits (or the whole range, of the root) lies where the flag of p says, but  *)
(* for what a child that has not run will still write there.                   *)
Values == Nat \X Nat
Memories == [x : [Span(0, sortN) -> Values], z : [Span(0, sortN) -> Values], ok : {TRUE}]
MemTypeOK == mem \in Memories

Waits(t) == IF t[1] = "sort" THEN ~t[2].finished ELSE ~merges[t[2]].finished
Indices(h) == Span(h[1], h[2])
In(t) == IF IsSplit(t) THEN MergeInputs(merges[t[2]]) ELSE Indices(Home(t))
Out(t) == IF IsSplit(t) THEN MergeOutputs(merges[t[2]]) ELSE Indices(Home(t))
Flag(p, h) == IF p = Root THEN TRUE ELSE IF h = HalfX(p) THEN merges[p].x_orig ELSE merges[p].y_orig
Child(c, p, h) == c \in Nodes /\ Waits(c) /\ Up(c) = p /\ Home(c) = h

Delivered(p, h) ==
  \A i \in Indices(h) :
    /\ IsItem(IF Flag(p, h) THEN mem.x[i] ELSE mem.z[i]) \/ \E c : Child(c, p, h) /\ i \in Out(c)
    /\ Flag(p, h) => mem.z[i] = Raw \/ \E c : Child(c, p, h) /\ i \in In(c)

SortReady(s) ==
  /\ s.root = (s.parent = Root)
  /\ Flag(s.parent, <<s.lo, s.hi>>)
  /\ \A i \in Span(s.lo, s.hi) : IsItem(mem.x[i]) /\ mem.z[i] = Raw
MergeReady(id) ==
  LET m == merges[id]
  IN  /\ m.root = (m.parent = Root)
      /\ ~m.split => Delivered(id, HalfX(id)) /\ Delivered(id, HalfY(id))
      /\ m.split => /\ m.x_orig = m.y_orig /\ m.x_orig = ~Flag(m.parent, Home(MergeNode(id)))
                    /\ \A i \in MergeInputs(m) : IsItem(IF m.x_orig THEN mem.x[i] ELSE mem.z[i])
                    /\ m.x_orig => \A i \in MergeOutputs(m) : mem.z[i] = Raw

MemInv ==
  /\ MemTypeOK
  /\ Delivered(Root, <<0, sortN>>)
  /\ \A s \in sorts : SortReady(s)
  /\ \A id \in DOMAIN merges : ~merges[id].finished => MergeReady(id)
  /\ sortPc = "done" => Nodes = {}

Slots(t) == IF IsSplit(t) THEN MergeSlots(merges[t[2]]) ELSE {"x", "z"} \X Indices(Home(t))

LEMMA SlotsOfTasks ==
  ASSUME TreeInv, NEW t \in Nodes
  PROVE  /\ In(t) \subseteq Indices(Home(t)) /\ Out(t) \subseteq Indices(Home(t))
         /\ Slots(t) \subseteq {"x", "z"} \X Indices(Home(t))
         /\ Indices(Home(t)) \subseteq Span(0, sortN)
<1> DEFINE h == Home(t)
<1>1. h \in Nat \X Nat /\ h[1] < h[2]
  BY HomesAreRanges DEF TreeInv
<1>2. Indices(h) \subseteq Span(0, sortN)
  <2>1. PICK c \in Nodes : Up(c) = Root /\ Within(h, Home(c))
    BY DEF TreeInv, Rooted
  <2>2. HasParent(c) /\ Root \notin DOMAIN merges /\ sortN \in Nat
    BY DEF TreeInv, ParentsWait, TreeTypeOK, Root
  <2>3. Home(c) = <<0, sortN>>
    BY <2>1, <2>2 DEF HasParent
  <2> QED BY <1>1, <2>1, <2>2, <2>3 DEF Within, Indices, Span
<1>3. CASE IsSplit(t)
  <2>1. PICK id \in DOMAIN merges : t = MergeNode(id)
    BY <1>3 DEF Nodes, SortNode, IsSplit
  <2> DEFINE m == merges[id]
  <2>2. m \in MergeTasks /\ MergeShape(id) /\ m.split /\ t[2] = id
    BY <1>3, <2>1, MergeTaskIsTyped DEF IsSplit, MergeNode
  <2>3. /\ h[1] <= m.xs /\ m.xs <= m.xe /\ m.xe <= m.ys /\ m.ys <= m.ye /\ m.ye <= h[2]
        /\ h[1] <= m.zs /\ m.zs + SizeOf(m) <= h[2]
    BY <2>1, <2>2 DEF MergeShape
  <2>4. m.zs + SizeOf(m) = m.zs + (m.xe - m.xs) + (m.ye - m.ys)
    BY <2>2 DEF SizeOf, MergeTasks
  <2> HIDE DEF h, m
  <2>5. MergeInputs(m) \subseteq Indices(h)
    BY <1>1, <2>2, <2>3 DEF MergeInputs, Indices, Span, MergeTasks
  <2>6. MergeOutputs(m) \subseteq Indices(h)
    BY <1>1, <2>2, <2>3, <2>4 DEF MergeOutputs, Indices, Span, MergeTasks, SizeOf
  <2>7. MergeSlots(m) \subseteq {"x", "z"} \X Indices(h)
    BY <2>2, <2>5, <2>6 DEF MergeSlots, InArray
  <2> QED BY <1>2, <1>3, <2>2, <2>5, <2>6, <2>7 DEF In, Out, Slots, m, h
<1>4. CASE ~IsSplit(t)
  BY <1>2, <1>4 DEF In, Out, Slots
<1> QED BY <1>3, <1>4

\* Only what lies above a task without children, or is that task, uses its slots.
LEMMA SlotsAreApart ==
  ASSUME TreeInv, NEW t \in Nodes, Idle(t), NEW u \in Nodes, u # t, ~Below(t, u)
  PROVE  /\ Slots(t) \cap Slots(u) = {}
         /\ Indices(Home(t)) \cap Indices(Home(u)) = {} \/ Siblings(t, u)
<1>1. Apart(Home(t), Home(u)) \/ Siblings(t, u)
  BY Alone
<1>2. CASE Apart(Home(t), Home(u))
  <2>1. Home(t) \in Nat \X Nat /\ Home(u) \in Nat \X Nat
    BY HomesAreRanges DEF TreeInv
  <2>2. Indices(Home(t)) \cap Indices(Home(u)) = {}
    BY <1>2, <2>1 DEF Apart, Indices, Span
  <2> QED BY <2>2, SlotsOfTasks
<1>3. CASE Siblings(t, u)
  BY <1>3 DEF Siblings, IsSplit, Slots, MergeSlots, InArray
<1> QED BY <1>1, <1>2, <1>3

\* The tasks that a step leaves alone read and write what they did before.
LEMMA KeptSlots ==
  ASSUME TreeInv, NEW t \in Nodes, Idle(t), NEW N, Replaces(t, N), NEW u \in Nodes, u # t
  PROVE  /\ u \in Nodes' /\ Kept(u)
         /\ (Waits(u)' <=> Waits(u)) /\ In(u)' = In(u) /\ Out(u)' = Out(u)
<1>1. Kept(u) /\ u \in Nodes'
  BY OthersAreKept DEF TreeInv, Replaces
<1>2. Waits(u)' <=> Waits(u)
  <2>1. CASE u[1] = "sort"
    BY <2>1 DEF Waits
  <2>2. CASE u[1] # "sort"
    <3>1. PICK id \in DOMAIN merges : u = MergeNode(id)
      BY <2>2 DEF Nodes, SortNode
    <3>2. merges'[id].finished = merges[id].finished
      BY <3>1 DEF Replaces, SameMerge, SameTask
    <3> QED BY <3>1, <3>2 DEF Waits, MergeNode
  <2> QED BY <2>1, <2>2
<1>3. In(u)' = In(u) /\ Out(u)' = Out(u)
  <2>1. CASE IsSplit(u)
    BY <2>1, <1>1 DEF Kept, In, Out
  <2>2. CASE ~IsSplit(u)
    <3>1. Indices(Home(u))' = Indices(Home(u))
      BY <1>1 DEF Kept, Indices, Span
    <3> QED BY <2>2, <3>1, <1>1 DEF Kept, In, Out
  <2> QED BY <2>1, <2>2
<1> QED BY <1>1, <1>2, <1>3

Halves(p) == IF p = Root THEN {<<0, sortN>>} ELSE {HalfX(p), HalfY(p)}
Whole(p) == p = Root \/ (p \in DOMAIN merges /\ ~merges[p].split)

\* A step of t touches only its own slots, and only tells its parent of its own home.
OnlySlotsOf(t) ==
  \A i \in Span(0, sortN) : /\ <<"x", i>> \notin Slots(t) => mem'.x[i] = mem.x[i]
                            /\ <<"z", i>> \notin Slots(t) => mem'.z[i] = mem.z[i]
FlagsKept(t) ==
  \A p, h : Whole(p) /\ h \in Halves(p) /\ t # MergeNode(p) /\ (p # Up(t) \/ h # Home(t) \/ IsSplit(t))
            => Flag(p, h)' = Flag(p, h)

LEMMA HomeIsAHalf ==
  ASSUME TreeInv, NEW u \in Nodes
  PROVE  Whole(Up(u)) /\ Home(u) \in Halves(Up(u))
<1>1. HasParent(u) /\ Root \notin DOMAIN merges
  BY DEF TreeInv, ParentsWait, TreeTypeOK, Root
<1> QED BY <1>1 DEF HasParent, Whole, Halves

\* Halves of one merge have nothing in common.
LEMMA HalvesAreDisjoint ==
  ASSUME TreeInv, NEW p, Whole(p), NEW h \in Halves(p), NEW k \in Halves(p), NEW i, i \in Indices(h), i \in Indices(k)
  PROVE  h = k
<1>1. CASE p = Root
  BY <1>1 DEF Halves
<1>2. CASE p # Root
  <2>1. p \in DOMAIN merges /\ merges[p] \in MergeTasks /\ MergeShape(p) /\ ~merges[p].split
    BY <1>2, MergeTaskIsTyped DEF Whole
  <2> QED BY <1>2, <2>1 DEF Halves, HalfX, HalfY, Indices, Span, MergeShape, MergeTasks
<1> QED BY <1>1, <1>2

\* What a half holds elsewhere is as it was; within the home of t, a child still
\* waits to write it.
LEMMA DeliveredStill ==
  ASSUME TreeInv, NEW t \in Nodes, Idle(t), NEW N, Replaces(t, N), OnlySlotsOf(t), FlagsKept(t),
         NEW p, Whole(p), t # MergeNode(p), NEW h \in Halves(p), p # Up(t) \/ h # Home(t),
         Delivered(p, h)
  PROVE  Delivered(p, h)'
<1>1. Flag(p, h)' = Flag(p, h)
  BY DEF FlagsKept
<1>2. \A c : c # t /\ Child(c, p, h) => Child(c, p, h)' /\ In(c)' = In(c) /\ Out(c)' = Out(c)
  BY KeptSlots DEF Child, Kept
<1>3. ~Child(t, p, h)
  BY DEF Child
<1>4. ASSUME NEW i \in Indices(h), i \in Indices(Home(t))
      PROVE  \E c \in Nodes : c # t /\ Child(c, p, h) /\ i \in In(c) /\ i \in Out(c)
  <2>1. PICK c \in Nodes : Up(c) = p /\ Within(Home(t), Home(c))
    <3>1. CASE p = Root
      BY <3>1 DEF TreeInv, Rooted
    <3>2. CASE p # Root
      <4> DEFINE u == MergeNode(p)
      <4>1. u \in Nodes /\ u[2] = p /\ IsWhole(u) /\ ~IsSplit(u)
        BY <3>2, MergeTaskIsTyped DEF Whole, IsWhole, IsSplit, MergeNode
      <4>2. h = HalfX(p) \/ h = HalfY(p)
        BY <3>2 DEF Halves
      <4>3. Home(t) \in Nat \X Nat /\ Home(u) \in Nat \X Nat
        BY <4>1, HomesAreRanges DEF TreeInv
      <4>4. ~Apart(Home(t), Home(u))
        <5>1. h[1] >= Home(u)[1] /\ h[2] <= Home(u)[2] /\ h \in Nat \X Nat
          BY <4>1, <4>2, <4>3, HalvesAreShorter DEF TreeInv
        <5>2. i \in Nat /\ h[1] <= i /\ i < h[2] /\ Home(t)[1] <= i /\ i < Home(t)[2]
          BY <1>4, <4>3, <5>1 DEF Indices, Span
        <5> QED BY <4>3, <5>1, <5>2 DEF Apart
      <4>5. Below(t, u)
        BY <4>1, <4>4, Alone DEF Siblings
      <4> HIDE DEF u
      <4> QED BY <4>1, <4>5 DEF TreeInv, Connected, ChildBetween
    <3> QED BY <3>1, <3>2
  <2>2. Home(c) \in Halves(p) /\ Home(t) \in Nat \X Nat /\ Home(c) \in Nat \X Nat /\ Home(t)[1] < Home(t)[2]
    BY <2>1, HomeIsAHalf, HomesAreRanges DEF TreeInv
  <2>3. i \in Indices(Home(c))
    BY <1>4, <2>1, <2>2 DEF Within, Indices, Span
  <2>4. Home(c) = h
    BY <1>4, <2>2, <2>3, HalvesAreDisjoint
  <2>5. c # t
    BY <2>1, <2>4
  <2>6. Below(t, c)
    <3>1. ~Apart(Home(t), Home(c))
      BY <2>1, <2>2, WithinIsNotApart
    <3> QED BY <2>1, <2>4, <2>5, <3>1, Alone DEF Siblings
  <2>7. PICK id \in DOMAIN merges : c = MergeNode(id) /\ ~merges[id].split
    BY <2>6 DEF Below, IsWhole, Nodes, SortNode, MergeNode
  <2>8. Waits(c)
    <3>1. PICK d \in Nodes : Up(d) = id
      BY <2>6, <2>7 DEF TreeInv, Connected, ChildBetween, MergeNode
    <3>2. HasParent(d) /\ id # Root
      BY <2>7, MergeTaskIsTyped DEF TreeInv, ParentsWait
    <3> QED BY <2>7, <3>1, <3>2 DEF HasParent, Waits, MergeNode
  <2>9. ~IsSplit(c)
    BY <2>7 DEF IsSplit, MergeNode
  <2> QED BY <2>1, <2>3, <2>4, <2>5, <2>8, <2>9 DEF Child, In, Out
<1>5. ASSUME NEW i \in Indices(h)
      PROVE  /\ IsItem(IF Flag(p, h)' THEN mem'.x[i] ELSE mem'.z[i]) \/ \E c : Child(c, p, h)' /\ i \in Out(c)'
             /\ Flag(p, h)' => mem'.z[i] = Raw \/ \E c : Child(c, p, h)' /\ i \in In(c)'
  <2>1. CASE i \in Indices(Home(t))
    BY <2>1, <1>2, <1>4
  <2>2. CASE i \notin Indices(Home(t))
    <3>1. i \in Span(0, sortN)
      <4>1. CASE p = Root
        BY <4>1 DEF Halves, Indices
      <4>2. CASE p # Root
        <5>1. MergeNode(p) \in Nodes /\ MergeNode(p)[2] = p /\ IsWhole(MergeNode(p))
          BY <4>2, MergeTaskIsTyped DEF Whole, IsWhole, MergeNode
        <5>2. i \in Indices(Home(MergeNode(p)))
          BY <4>2, <5>1, HalvesAreShorter DEF TreeInv, Halves, Indices, Span
        <5> QED BY <5>1, <5>2, SlotsOfTasks
      <4> QED BY <4>1, <4>2
    <3>2. mem'.x[i] = mem.x[i] /\ mem'.z[i] = mem.z[i]
      BY <2>2, <3>1, SlotsOfTasks DEF OnlySlotsOf
    <3> QED BY <3>2, <1>1, <1>2, <1>3 DEF Delivered
  <2> QED BY <2>1, <2>2
<1> QED BY <1>5 DEF Delivered, Indices, Span

\* Nobody but a piece of the same merge has the same half of the same parent.
LEMMA FlagOfAnother ==
  ASSUME TreeInv, NEW t \in Nodes, Idle(t), FlagsKept(t), NEW u \in Nodes, u # t
  PROVE  \A p, h : p = Up(u) /\ h = Home(u) => Flag(p, h)' = Flag(p, h)
<1> SUFFICES ASSUME NEW p, p = Up(u), NEW h, h = Home(u)
             PROVE  Flag(p, h)' = Flag(p, h)
  OBVIOUS
<1>1. Whole(p) /\ h \in Halves(p)
  BY HomeIsAHalf
<1>2. t # MergeNode(p)
  BY <1>1, MergeTaskIsTyped DEF Whole, Idle, MergeNode, Nodes, SortNode, TreeInv, TreeTypeOK, Root
<1>3. ASSUME p = Up(t), h = Home(t) PROVE IsSplit(t)
  <2>1. Home(t) \in Nat \X Nat /\ Home(t)[1] < Home(t)[2]
    BY HomesAreRanges DEF TreeInv
  <2>2. Within(Home(t), Home(u)) /\ Within(Home(u), Home(t))
    BY <1>3, <2>1 DEF Within
  <2>3. ~Apart(Home(t), Home(u))
    BY <1>3, <2>1 DEF Apart
  <2>4. ~Below(t, u)
    BY <2>1, <2>2, BelowIsSmaller DEF TreeInv
  <2> QED BY <2>3, <2>4, Alone DEF Siblings
<1> QED BY <1>1, <1>2, <1>3 DEF FlagsKept

\* The tasks that a step leaves alone are as ready as they were.
LEMMA OthersAreReady ==
  ASSUME TreeInv, MemInv, NEW t \in Nodes, Idle(t), NEW N, Replaces(t, N), OnlySlotsOf(t), FlagsKept(t),
         NEW p, p = Up(t), NEW h, h = Home(t), Delivered(p, h)'
  PROVE  /\ \A s \in sorts : SortNode(s) # t => SortReady(s)'
         /\ \A id \in DOMAIN merges : MergeNode(id) # t /\ ~merges[id].finished => MergeReady(id)'
         /\ Delivered(Root, <<0, sortN>>)'
<1>1. ASSUME NEW q, Whole(q), t # MergeNode(q), NEW k \in Halves(q), Delivered(q, k)
      PROVE  Delivered(q, k)'
  <2>1. CASE q = p /\ k = h
    BY <2>1
  <2>2. CASE q # p \/ k # h
    BY <2>2, <1>1, DeliveredStill
  <2> QED BY <2>1, <2>2
<1>2. ASSUME NEW s \in sorts, SortNode(s) # t
      PROVE  SortReady(s)'
  <2>1. /\ SortNode(s) \in Nodes /\ Home(SortNode(s)) = <<s.lo, s.hi>> /\ Up(SortNode(s)) = s.parent
    BY SortTaskIsTyped
  <2>2. SortReady(s)
    BY DEF MemInv
  <2>3. Flag(s.parent, <<s.lo, s.hi>>)' = Flag(s.parent, <<s.lo, s.hi>>)
    BY <1>2, <2>1, FlagOfAnother
  <2>4. ~Below(t, SortNode(s)) /\ ~IsSplit(SortNode(s))
    BY DEF Below, IsWhole, IsSplit, SortNode
  <2>5. Slots(t) \cap ({"x", "z"} \X Indices(<<s.lo, s.hi>>)) = {}
    BY <1>2, <2>1, <2>4, SlotsAreApart DEF Slots
  <2>6. \A i \in Span(s.lo, s.hi) : i \in Span(0, sortN) /\ <<"x", i>> \notin Slots(t) /\ <<"z", i>> \notin Slots(t)
    BY <2>1, <2>5, SlotsOfTasks DEF Indices
  <2> QED BY <2>2, <2>3, <2>6 DEF SortReady, OnlySlotsOf
<1>3. ASSUME NEW id \in DOMAIN merges, MergeNode(id) # t, ~merges[id].finished
      PROVE  MergeReady(id)'
  <2>1. MergeReady(id) /\ SameMerge(id) /\ merges[id] \in MergeTasks /\ MergeNode(id) \in Nodes
    BY <1>3, MergeTaskIsTyped DEF MemInv, Replaces
  <2>2. CASE ~merges[id].split
    <3>1. PICK hx, hy : hx = HalfX(id) /\ hy = HalfY(id)
      OBVIOUS
    <3>2. hx \in Halves(id) /\ hy \in Halves(id) /\ Whole(id)
      BY <2>2, <3>1, MergeTaskIsTyped DEF Halves, Whole
    <3>3. Delivered(id, hx)' /\ Delivered(id, hy)'
      BY <1>1, <1>3, <2>1, <2>2, <3>1, <3>2 DEF MergeReady
    <3>4. HalfX(id)' = hx /\ HalfY(id)' = hy
      BY <2>1, <3>1 DEF SameMerge, SameTask, HalfX, HalfY
    <3>5. Delivered(id, HalfX(id))' /\ Delivered(id, HalfY(id))'
      BY <3>3, <3>4 DEF Delivered, Child, Flag, HalfX, HalfY, Indices
    <3> QED BY <2>1, <2>2, <3>5 DEF MergeReady, SameMerge, SameTask
  <2>3. CASE merges[id].split
    <3>1. PICK q, k : q = merges[id].parent /\ k = Home(MergeNode(id))
      OBVIOUS
    <3>2. Flag(q, k)' = Flag(q, k)
      BY <1>3, <2>1, <3>1, FlagOfAnother DEF Up, MergeNode
    <3>3. merges'[id].parent = q /\ Home(MergeNode(id))' = k
      BY <1>3, <2>1, <3>1, OthersAreKept DEF TreeInv, SameMerge, SameTask, Kept
    <3>4. merges'[id].split /\ merges'[id].x_orig = merges[id].x_orig /\ merges'[id].y_orig = merges[id].y_orig
          /\ merges'[id].root = merges[id].root
          /\ MergeInputs(merges'[id]) = MergeInputs(merges[id]) /\ MergeOutputs(merges'[id]) = MergeOutputs(merges[id])
      BY <2>1, <2>3 DEF SameMerge, SameTask, MergeInputs, MergeOutputs
    <3>5. Slots(t) \cap MergeSlots(merges[id]) = {}
      <4>1. ~Below(t, MergeNode(id)) /\ IsSplit(MergeNode(id))
        BY <2>3 DEF Below, IsWhole, IsSplit, MergeNode
      <4> QED BY <1>3, <2>1, <4>1, SlotsAreApart DEF Slots, MergeNode
    <3>6. MergeInputs(merges[id]) \subseteq Span(0, sortN) /\ MergeOutputs(merges[id]) \subseteq Span(0, sortN)
      BY <2>1, <2>3, SlotsOfTasks DEF In, Out, IsSplit, MergeNode
    <3>7. \A i \in MergeInputs(merges[id]) :
            (IF merges[id].x_orig THEN mem'.x[i] ELSE mem'.z[i]) = (IF merges[id].x_orig THEN mem.x[i] ELSE mem.z[i])
      BY <2>3, <3>5, <3>6 DEF MergeSlots, InArray, OnlySlotsOf
    <3>8. merges[id].x_orig => \A i \in MergeOutputs(merges[id]) : mem'.z[i] = mem.z[i]
      BY <2>3, <3>5, <3>6 DEF MergeSlots, InArray, OnlySlotsOf
    <3>9. Flag(merges[id].parent, Home(MergeNode(id)))' = Flag(q, k)
      BY <3>2, <3>3 DEF Flag, HalfX
    <3> QED BY <2>1, <2>3, <3>1, <3>3, <3>4, <3>7, <3>8, <3>9 DEF MergeReady
  <2> QED BY <2>2, <2>3
<1>4. Delivered(Root, <<0, sortN>>)'
  <2>1. Whole(Root) /\ <<0, sortN>> \in Halves(Root) /\ sortN' = sortN
    BY DEF Whole, Halves, Replaces
  <2>2. t # MergeNode(Root)
    BY MergeTaskIsTyped DEF Nodes, SortNode, MergeNode
  <2>3. PICK k : k = <<0, sortN>>
    OBVIOUS
  <2>4. Delivered(Root, k)'
    BY <1>1, <2>1, <2>2, <2>3 DEF MemInv
  <2> QED BY <2>1, <2>3, <2>4 DEF Delivered, Child, Flag, HalfX, Indices
<1> QED BY <1>2, <1>3, <1>4

\* A step keeps the invariant if its task leaves its home as its parent is told, and
\* the tasks it makes are ready.
LEMMA MemStep ==
  ASSUME TreeInv, MemInv, NEW t \in Nodes, Idle(t), NEW N, Replaces(t, N), OnlySlotsOf(t), FlagsKept(t),
         NEW p, p = Up(t), NEW h, h = Home(t), Delivered(p, h)', MemTypeOK', sortPc' = sortPc,
         \A s : SortNode(s) \in N => SortReady(s)',
         \A id : MergeNode(id) \in N /\ ~merges'[id].finished => MergeReady(id)'
  PROVE  MemInv'
<1>1. /\ \A s \in sorts : SortNode(s) # t => SortReady(s)'
      /\ \A id \in DOMAIN merges : MergeNode(id) # t /\ ~merges[id].finished => MergeReady(id)'
      /\ Delivered(Root, <<0, sortN>>)'
  BY OthersAreReady
<1>2. Nodes' = (Nodes \ {t}) \cup N
  BY DEF Replaces
<1>3. ASSUME NEW s \in sorts' PROVE SortReady(s)'
  <2>1. SortNode(s) \in N \/ (SortNode(s) \in Nodes /\ SortNode(s) # t)
    BY <1>2 DEF Nodes
  <2>2. SortNode(s) \in Nodes => s \in sorts
    BY DEF Nodes, SortNode, MergeNode
  <2> QED BY <1>1, <2>1, <2>2
<1>4. ASSUME NEW id \in DOMAIN merges', ~merges'[id].finished PROVE MergeReady(id)'
  <2>1. MergeNode(id) \in N \/ (MergeNode(id) \in Nodes /\ MergeNode(id) # t)
    BY <1>2 DEF Nodes
  <2>2. MergeNode(id) \in Nodes => id \in DOMAIN merges
    BY DEF Nodes, SortNode, MergeNode
  <2>3. id \in DOMAIN merges /\ MergeNode(id) # t => merges'[id].finished = merges[id].finished
    BY DEF Replaces, SameMerge, SameTask
  <2> QED BY <1>1, <1>4, <2>1, <2>2, <2>3
<1>5. sortPc' # "done"
  BY DEF MemInv
<1> QED BY <1>1, <1>3, <1>4, <1>5 DEF MemInv
-------------------------------------------------------------------------------
(* __serial_move_merge visits pairs of positions, in X and in Y. MergeStep is   *)
(* one step of it: what follows from a pair p, if f is what follows from others. *)
Rest(X, i) == SubSeq(X, i + 1, Len(X))
MergeStep(X, Y, nmerge, f, p) ==
  LET i == p[1]
      j == p[2]
  IN  IF i = Len(X) THEN Rest(Y, j)
      ELSE IF j = Len(Y) THEN Rest(X, i)
      ELSE IF Less(Y[j + 1], X[i + 1])
        THEN <<Y[j + 1]>> \o (IF i + j + 1 = nmerge /\ j + 1 < Len(Y)
                                THEN Rest(Y, j + 1) \o Rest(X, i) ELSE f[<<i, j + 1>>])
        ELSE <<X[i + 1]>> \o (IF i + j + 1 = nmerge /\ i + 1 < Len(X)
                                THEN Rest(X, i + 1) \o Rest(Y, j) ELSE f[<<i + 1, j>>])
Places(nx, ny) == (0..nx) \X (0..ny)
Left(nx, ny, p) == (nx - p[1]) + (ny - p[2])

\* A step only asks for what has less left.
LEMMA StepsGoOn ==
  ASSUME NEW X, NEW Y, NEW nmerge, NEW nx \in Nat, NEW ny \in Nat, nx = Len(X), ny = Len(Y),
         NEW f, NEW g, NEW p \in Places(nx, ny),
         \A q \in Places(nx, ny) : Left(nx, ny, q) < Left(nx, ny, p) => f[q] = g[q]
  PROVE  MergeStep(X, Y, nmerge, f, p) = MergeStep(X, Y, nmerge, g, p)
<1>1. PICK i \in 0..nx, j \in 0..ny : p = <<i, j>>
  BY DEF Places
<1>2. i # nx /\ j # ny => f[<<i, j + 1>>] = g[<<i, j + 1>>] /\ f[<<i + 1, j>>] = g[<<i + 1, j>>]
  <2> SUFFICES ASSUME i # nx, j # ny
               PROVE  f[<<i, j + 1>>] = g[<<i, j + 1>>] /\ f[<<i + 1, j>>] = g[<<i + 1, j>>]
    OBVIOUS
  <2>1. <<i, j + 1>> \in Places(nx, ny) /\ <<i + 1, j>> \in Places(nx, ny)
    BY DEF Places
  <2>2. Left(nx, ny, <<i, j + 1>>) < Left(nx, ny, p) /\ Left(nx, ny, <<i + 1, j>>) < Left(nx, ny, p)
    BY <1>1 DEF Left
  <2> QED BY <2>1, <2>2
<1>3. p[1] = i /\ p[2] = j
  BY <1>1
<1> QED BY <1>2, <1>3 DEF MergeStep

\* There is a function that every step agrees with.
LEMMA MergesExist ==
  ASSUME NEW X, NEW Y, NEW nmerge, NEW nx \in Nat, NEW ny \in Nat, nx = Len(X), ny = Len(Y)
  PROVE  \E f : f = [p \in Places(nx, ny) |-> MergeStep(X, Y, nmerge, f, p)]
<1> DEFINE P == Places(nx, ny)
           step(f, p) == MergeStep(X, Y, nmerge, f, p)
           left(p) == Left(nx, ny, p)
           upto(k, f) == f = [p \in P |-> f[p]] /\ \A p \in P : left(p) < k => f[p] = step(f, p)
           good == {k \in Nat : \E f : upto(k, f)}
<1>1. \A p \in P : left(p) \in Nat /\ left(p) < nx + ny + 1
  BY DEF Places, Left
<1>2. ASSUME NEW f, NEW g, NEW p \in P, \A q \in P : left(q) < left(p) => f[q] = g[q]
      PROVE  step(f, p) = step(g, p)
  BY <1>2, StepsGoOn
<1> HIDE DEF P, step, left
<1>3. 0 \in good
  <2> DEFINE f == [p \in P |-> 0]
  <2>1. upto(0, f)
    BY <1>1
  <2> HIDE DEF f, upto
  <2> QED BY <2>1
<1>4. ASSUME NEW k \in Nat, k \in good
      PROVE  k + 1 \in good
  <2>1. PICK f : upto(k, f)
    BY <1>4
  <2> DEFINE g == [p \in P |-> IF left(p) < k THEN f[p] ELSE step(f, p)]
  <2>2. \A p \in P : left(p) < k => g[p] = f[p]
    OBVIOUS
  <2>3. \A p \in P : g[p] = step(f, p)
    BY <2>1
  <2>4. g = [p \in P |-> g[p]]
    OBVIOUS
  <2>5. ASSUME NEW p \in P, left(p) < k + 1
        PROVE  g[p] = step(g, p)
    <3> HIDE DEF g
    <3>1. \A q \in P : left(q) < left(p) => f[q] = g[q]
      BY <2>2, <2>5, <1>1
    <3> QED BY <2>3, <3>1, <1>2
  <2>6. upto(k + 1, g)
    <3> HIDE DEF g
    <3> QED BY <2>4, <2>5
  <2> HIDE DEF g, upto
  <2> QED BY <2>6
<1>5. nx + ny + 1 \in good
  <2> HIDE DEF good
  <2>1. Nat \subseteq good
    BY <1>3, <1>4, Induction
  <2> QED BY <2>1
<1>6. PICK f : upto(nx + ny + 1, f)
  BY <1>5
<1>7. f = [p \in P |-> step(f, p)]
  BY <1>1, <1>6
<1>8. f = [p \in Places(nx, ny) |-> MergeStep(X, Y, nmerge, f, p)]
  BY <1>7 DEF P, step
<1> QED BY <1>8

\* A step makes a sequence of what is left, if f does where less is left.
LEMMA StepsMerge ==
  ASSUME NEW S, NEW X \in Seq(S), NEW Y \in Seq(S), NEW nmerge,
         NEW nx \in Nat, NEW ny \in Nat, nx = Len(X), ny = Len(Y), NEW f, NEW p \in Places(nx, ny),
         \A q \in Places(nx, ny) : Left(nx, ny, q) < Left(nx, ny, p)
                                   => f[q] \in Seq(S) /\ Len(f[q]) = Left(nx, ny, q)
  PROVE  /\ MergeStep(X, Y, nmerge, f, p) \in Seq(S)
         /\ Len(MergeStep(X, Y, nmerge, f, p)) = Left(nx, ny, p)
<1>1. PICK i \in 0..nx, j \in 0..ny : p = <<i, j>>
  BY DEF Places
<1>2. p[1] = i /\ p[2] = j /\ Left(nx, ny, p) = (nx - i) + (ny - j)
  BY <1>1 DEF Left
<1>3. /\ \A k \in 0..nx : Rest(X, k) \in Seq(S) /\ Len(Rest(X, k)) = nx - k
      /\ \A k \in 0..ny : Rest(Y, k) \in Seq(S) /\ Len(Rest(Y, k)) = ny - k
  BY SubSeqProperties DEF Rest
<1>4. CASE i = nx
  <2>1. MergeStep(X, Y, nmerge, f, p) = Rest(Y, j)
    BY <1>2, <1>4 DEF MergeStep
  <2>2. Left(nx, ny, p) = ny - j
    BY <1>2, <1>4
  <2> QED BY <1>3, <2>1, <2>2
<1>5. CASE i # nx /\ j = ny
  <2>1. MergeStep(X, Y, nmerge, f, p) = Rest(X, i)
    BY <1>2, <1>5 DEF MergeStep
  <2>2. Left(nx, ny, p) = nx - i
    BY <1>2, <1>5
  <2> QED BY <1>3, <2>1, <2>2
<1>6. CASE i # nx /\ j # ny
  <2>1. i + 1 \in 0..nx /\ j + 1 \in 0..ny /\ i + 1 \in 1..Len(X) /\ j + 1 \in 1..Len(Y)
    BY <1>6
  <2>2. \A a \in Seq(S), b \in Seq(S) : a \o b \in Seq(S) /\ Len(a \o b) = Len(a) + Len(b)
    BY ConcatProperties
  <2>3. /\ <<Y[j + 1]>> \in Seq(S) /\ Len(<<Y[j + 1]>>) = 1
        /\ <<X[i + 1]>> \in Seq(S) /\ Len(<<X[i + 1]>>) = 1
    BY <2>1, ElementOfSeq
  <2>4. PICK n \in Nat : n = (nx - i) + (ny - j) - 1
    <3>1. (nx - i) + (ny - j) - 1 \in Nat
      BY <1>6
    <3> QED BY <3>1
  <2>5. /\ Rest(Y, j + 1) \o Rest(X, i) \in Seq(S) /\ Len(Rest(Y, j + 1) \o Rest(X, i)) = n
        /\ Rest(X, i + 1) \o Rest(Y, j) \in Seq(S) /\ Len(Rest(X, i + 1) \o Rest(Y, j)) = n
    <3>1. /\ Len(Rest(Y, j + 1)) = ny - (j + 1) /\ Len(Rest(X, i)) = nx - i
          /\ Len(Rest(X, i + 1)) = nx - (i + 1) /\ Len(Rest(Y, j)) = ny - j
      BY <1>3, <2>1
    <3>2. (ny - (j + 1)) + (nx - i) = n /\ (nx - (i + 1)) + (ny - j) = n
      BY <2>4
    <3>3. /\ Rest(Y, j + 1) \in Seq(S) /\ Rest(X, i) \in Seq(S)
          /\ Rest(X, i + 1) \in Seq(S) /\ Rest(Y, j) \in Seq(S)
      BY <1>3, <2>1
    <3>4. /\ Len(Rest(Y, j + 1) \o Rest(X, i)) = Len(Rest(Y, j + 1)) + Len(Rest(X, i))
          /\ Len(Rest(X, i + 1) \o Rest(Y, j)) = Len(Rest(X, i + 1)) + Len(Rest(Y, j))
      BY <2>2, <3>3
    <3> QED BY <2>2, <3>1, <3>2, <3>3, <3>4
  <2>6. f[<<i, j + 1>>] \in Seq(S) /\ Len(f[<<i, j + 1>>]) = n /\ f[<<i + 1, j>>] \in Seq(S) /\ Len(f[<<i + 1, j>>]) = n
    <3> SUFFICES /\ f[<<i, j + 1>>] \in Seq(S) /\ Len(f[<<i, j + 1>>]) = n
                 /\ f[<<i + 1, j>>] \in Seq(S) /\ Len(f[<<i + 1, j>>]) = n
      OBVIOUS
    <3>1. <<i, j + 1>> \in Places(nx, ny) /\ <<i + 1, j>> \in Places(nx, ny)
      BY <2>1 DEF Places
    <3>2. Left(nx, ny, <<i, j + 1>>) = n /\ Left(nx, ny, <<i + 1, j>>) = n /\ n < Left(nx, ny, p)
      BY <1>2, <2>4 DEF Left
    <3> QED BY <3>1, <3>2
  <2>7. PICK a \in Seq(S), b \in Seq(S) :
          MergeStep(X, Y, nmerge, f, p) = a \o b /\ Len(a) = 1 /\ Len(b) = n
    <3>1. CASE Less(Y[j + 1], X[i + 1])
      BY <1>2, <1>6, <2>3, <2>5, <2>6, <3>1 DEF MergeStep
    <3>2. CASE ~Less(Y[j + 1], X[i + 1])
      BY <1>2, <1>6, <2>3, <2>5, <2>6, <3>2 DEF MergeStep
    <3> QED BY <3>1, <3>2
  <2>8. MergeStep(X, Y, nmerge, f, p) \in Seq(S) /\ Len(MergeStep(X, Y, nmerge, f, p)) = 1 + n
    BY <2>2, <2>7
  <2>9. 1 + n = Left(nx, ny, p)
    BY <1>2, <2>4
  <2> QED BY <1>2, <2>8, <2>9
<1> QED BY <1>4, <1>5, <1>6

\* A merge makes a sequence of the elements of both, as long as both together.
LEMMA MergedElements ==
  ASSUME NEW S, NEW X \in Seq(S), NEW Y \in Seq(S), NEW nmerge
  PROVE  /\ SerialMoveMerge(X, Y, nmerge) \in Seq(S)
         /\ Len(SerialMoveMerge(X, Y, nmerge)) = Len(X) + Len(Y)
<1>1. PICK nx \in Nat, ny \in Nat : nx = Len(X) /\ ny = Len(Y)
  OBVIOUS
<1> DEFINE P == Places(nx, ny)
           merged[p \in Places(nx, ny)] == MergeStep(X, Y, nmerge, merged, p)
           left(p) == Left(nx, ny, p)
           fine(p) == merged[p] \in Seq(S) /\ Len(merged[p]) = left(p)
           good == {k \in Nat : \A p \in P : left(p) < k => fine(p)}
<1>2. merged = [p \in P |-> MergeStep(X, Y, nmerge, merged, p)]
  BY <1>1, MergesExist
<1>3. SerialMoveMerge(X, Y, nmerge) = merged[<<0, 0>>]
  BY <1>1 DEF SerialMoveMerge, MergeStep, Rest, Places
<1>4. \A p \in P : left(p) \in Nat /\ left(p) < nx + ny + 1
  BY DEF Places, Left
<1>5. \A p \in P : (\A q \in P : left(q) < left(p) => fine(q)) => fine(p)
  <2> SUFFICES ASSUME NEW p \in P, \A q \in P : left(q) < left(p) => fine(q)
               PROVE  fine(p)
    OBVIOUS
  <2> HIDE DEF merged
  <2>1. merged[p] = MergeStep(X, Y, nmerge, merged, p)
    <3> HIDE DEF P
    <3> QED BY <1>2
  <2> QED BY <1>1, <2>1, StepsMerge
<1> HIDE DEF P, left, merged, fine
<1>6. 0 \in good
  BY <1>4
<1>7. ASSUME NEW k \in Nat, k \in good PROVE k + 1 \in good
  <2> SUFFICES ASSUME NEW p \in P, left(p) < k + 1 PROVE fine(p)
    OBVIOUS
  <2>1. \A q \in P : left(q) < left(p) => fine(q)
    BY <1>4, <1>7
  <2> QED BY <1>5, <2>1
<1>8. Nat \subseteq good
  <2> HIDE DEF good
  <2> QED BY <1>6, <1>7, Induction
<1>9. fine(<<0, 0>>)
  <2>1. <<0, 0>> \in P
    BY DEF P, Places
  <2> QED BY <1>4, <1>8, <2>1
<1>10. left(<<0, 0>>) = Len(X) + Len(Y)
  BY <1>1 DEF left, Left
<1> QED BY <1>3, <1>9, <1>10 DEF fine
-------------------------------------------------------------------------------
(* Moving elements. A range lies in x, and its slots of z are raw, or in z.    *)

Lies(M, orig, S) ==
  /\ orig => \A i \in S : IsItem(M.x[i]) /\ M.z[i] = Raw
  /\ ~orig => \A i \in S : IsItem(M.z[i])
SameBut(M, K, S) == \A i \in Span(0, sortN) : i \notin S => M.x[i] = K.x[i] /\ M.z[i] = K.z[i]
HalvesLie(M, m) == Lies(M, m.x_orig, Span(m.xs, m.xe)) /\ Lies(M, m.y_orig, Span(m.ys, m.ye))

LEMMA RangesMove ==
  ASSUME NEW M \in Memories, NEW lo, NEW hi, Span(lo, hi) \subseteq Span(0, sortN)
  PROVE  /\ Lies(M, TRUE, Span(lo, hi)) => /\ ToBuffer(M, lo, hi) \in Memories
                                           /\ Lies(ToBuffer(M, lo, hi), FALSE, Span(lo, hi))
                                           /\ SameBut(ToBuffer(M, lo, hi), M, Span(lo, hi))
         /\ Lies(M, FALSE, Span(lo, hi)) => /\ ToOrigin(M, lo, hi) \in Memories
                                            /\ Lies(ToOrigin(M, lo, hi), TRUE, Span(lo, hi))
                                            /\ SameBut(ToOrigin(M, lo, hi), M, Span(lo, hi))
<1> DEFINE S == Span(lo, hi)
           I == Span(0, sortN)
<1>1. MovedFrom \in Values /\ Raw \in Values
  BY DEF MovedFrom, Raw, Values
<1>2. M.x \in [I -> Values] /\ M.z \in [I -> Values] /\ M.ok = TRUE
  BY DEF Memories
<1>3. S \subseteq I
  OBVIOUS
<1> HIDE DEF S, I
<1>4. ASSUME Lies(M, TRUE, S)
      PROVE  /\ ToBuffer(M, lo, hi) \in Memories /\ Lies(ToBuffer(M, lo, hi), FALSE, S)
             /\ SameBut(ToBuffer(M, lo, hi), M, S)
  <2>1. \A i \in S : IsItem(M.x[i]) /\ M.z[i] = Raw
    BY <1>4 DEF Lies
  <2>2. PICK K : K = ToBuffer(M, lo, hi)
    OBVIOUS
  <2>3. /\ K.x = [i \in I |-> IF i \in S THEN MovedFrom ELSE M.x[i]]
        /\ K.z = [i \in I |-> IF i \in S THEN M.x[i] ELSE M.z[i]]
        /\ K.ok = TRUE /\ K = [x |-> K.x, z |-> K.z, ok |-> K.ok]
    BY <1>2, <2>1, <2>2 DEF ToBuffer, S
  <2>4. K \in Memories
    <3>1. K.x \in [I -> Values] /\ K.z \in [I -> Values]
      BY <1>1, <1>2, <2>3
    <3> QED BY <2>3, <3>1 DEF Memories, I
  <2>5. Lies(K, FALSE, S) /\ SameBut(K, M, S)
    BY <1>3, <2>1, <2>3 DEF Lies, SameBut, I
  <2> QED BY <2>2, <2>4, <2>5
<1>5. ASSUME Lies(M, FALSE, S)
      PROVE  /\ ToOrigin(M, lo, hi) \in Memories /\ Lies(ToOrigin(M, lo, hi), TRUE, S)
             /\ SameBut(ToOrigin(M, lo, hi), M, S)
  <2>1. \A i \in S : IsItem(M.z[i])
    BY <1>5 DEF Lies
  <2>2. PICK K : K = ToOrigin(M, lo, hi)
    OBVIOUS
  <2>3. /\ K.x = [i \in I |-> IF i \in S THEN M.z[i] ELSE M.x[i]]
        /\ K.z = [i \in I |-> IF i \in S THEN Raw ELSE M.z[i]]
        /\ K.ok = TRUE /\ K = [x |-> K.x, z |-> K.z, ok |-> K.ok]
    BY <1>2, <2>1, <2>2 DEF ToOrigin, S
  <2>4. K \in Memories
    <3>1. K.x \in [I -> Values] /\ K.z \in [I -> Values]
      BY <1>1, <1>2, <2>3
    <3> QED BY <2>3, <3>1 DEF Memories, I
  <2>5. Lies(K, TRUE, S) /\ SameBut(K, M, S)
    BY <1>3, <2>1, <2>3 DEF Lies, SameBut, I
  <2> QED BY <2>2, <2>4, <2>5
<1> QED BY <1>4, <1>5 DEF S

\* A merge whose halves lie where its flags say, in memory M.
Laid(m, M) ==
  /\ m \in MergeTasks /\ m.xs <= m.xe /\ m.xe = m.ys /\ m.ys <= m.ye
  /\ Span(m.xs, m.ye) \subseteq Span(0, sortN)
  /\ M \in Memories /\ HalvesLie(M, m)

\* It stays so however the halves are moved.
LEMMA HalvesMove ==
  ASSUME NEW m, NEW M, Laid(m, M)
  PROVE  /\ Laid(MoveX(m, M).m, MoveX(m, M).M) /\ SameBut(MoveX(m, M).M, M, Span(m.xs, m.ye))
         /\ MoveX(m, M).m = [m EXCEPT !.x_orig = ~m.x_orig]
         /\ Laid(MoveY(m, M).m, MoveY(m, M).M) /\ SameBut(MoveY(m, M).M, M, Span(m.xs, m.ye))
         /\ MoveY(m, M).m = [m EXCEPT !.y_orig = ~m.y_orig]
<1>1. /\ m \in MergeTasks /\ m.xs <= m.xe /\ m.xe = m.ys /\ m.ys <= m.ye /\ M \in Memories
      /\ m.xs \in Nat /\ m.xe \in Nat /\ m.ye \in Nat /\ m.x_orig \in BOOLEAN /\ m.y_orig \in BOOLEAN
      /\ Lies(M, m.x_orig, Span(m.xs, m.xe)) /\ Lies(M, m.y_orig, Span(m.ys, m.ye))
      /\ Span(m.xs, m.ye) \subseteq Span(0, sortN)
  BY DEF Laid, HalvesLie, MergeTasks
<1>2. /\ Span(m.xs, m.xe) \subseteq Span(m.xs, m.ye) /\ Span(m.ys, m.ye) \subseteq Span(m.xs, m.ye)
      /\ Span(m.xs, m.xe) \cap Span(m.ys, m.ye) = {}
  BY <1>1 DEF Span
<1>3. ASSUME NEW K \in Memories, NEW S, NEW T, S \cap T = {}, S \subseteq Span(0, sortN), SameBut(K, M, T),
             NEW orig \in BOOLEAN, Lies(M, orig, S)
      PROVE  Lies(K, orig, S)
  BY <1>3 DEF SameBut, Lies
<1>4. ASSUME NEW K, NEW T, SameBut(K, M, T), T \subseteq Span(m.xs, m.ye)
      PROVE  SameBut(K, M, Span(m.xs, m.ye))
  BY <1>4 DEF SameBut
<1>5. /\ Laid(MoveX(m, M).m, MoveX(m, M).M) /\ SameBut(MoveX(m, M).M, M, Span(m.xs, m.ye))
      /\ MoveX(m, M).m = [m EXCEPT !.x_orig = ~m.x_orig]
  <2> DEFINE K == IF m.x_orig THEN ToBuffer(M, m.xs, m.xe) ELSE ToOrigin(M, m.xs, m.xe)
             k == [m EXCEPT !.x_orig = ~m.x_orig]
  <2>1. MoveX(m, M).m = k /\ MoveX(m, M).M = K
    BY DEF MoveX
  <2>2. K \in Memories /\ Lies(K, ~m.x_orig, Span(m.xs, m.xe)) /\ SameBut(K, M, Span(m.xs, m.xe))
    <3>1. Span(m.xs, m.xe) \subseteq Span(0, sortN)
      BY <1>1, <1>2
    <3>2. CASE m.x_orig = TRUE
      BY <1>1, <3>1, <3>2, RangesMove
    <3>3. CASE m.x_orig = FALSE
      BY <1>1, <3>1, <3>3, RangesMove
    <3> QED BY <1>1, <3>2, <3>3
  <2> HIDE DEF K
  <2>3. Lies(K, m.y_orig, Span(m.ys, m.ye)) /\ SameBut(K, M, Span(m.xs, m.ye))
    BY <1>1, <1>2, <1>3, <1>4, <2>2
  <2>4. /\ k \in MergeTasks /\ k.xs = m.xs /\ k.xe = m.xe /\ k.ys = m.ys /\ k.ye = m.ye
        /\ k.x_orig = (~m.x_orig) /\ k.y_orig = m.y_orig
    BY <1>1 DEF MergeTasks
  <2> HIDE DEF k
  <2>5. Laid(k, K)
    BY <1>1, <2>2, <2>3, <2>4 DEF Laid, HalvesLie
  <2> QED BY <2>1, <2>3, <2>5 DEF k
<1>6. /\ Laid(MoveY(m, M).m, MoveY(m, M).M) /\ SameBut(MoveY(m, M).M, M, Span(m.xs, m.ye))
      /\ MoveY(m, M).m = [m EXCEPT !.y_orig = ~m.y_orig]
  <2> DEFINE K == IF m.y_orig THEN ToBuffer(M, m.ys, m.ye) ELSE ToOrigin(M, m.ys, m.ye)
             k == [m EXCEPT !.y_orig = ~m.y_orig]
  <2>1. MoveY(m, M).m = k /\ MoveY(m, M).M = K
    BY DEF MoveY
  <2>2. K \in Memories /\ Lies(K, ~m.y_orig, Span(m.ys, m.ye)) /\ SameBut(K, M, Span(m.ys, m.ye))
    <3>1. Span(m.ys, m.ye) \subseteq Span(0, sortN)
      BY <1>1, <1>2
    <3>2. CASE m.y_orig = TRUE
      BY <1>1, <3>1, <3>2, RangesMove
    <3>3. CASE m.y_orig = FALSE
      BY <1>1, <3>1, <3>3, RangesMove
    <3> QED BY <1>1, <3>2, <3>3
  <2> HIDE DEF K
  <2>3. Lies(K, m.x_orig, Span(m.xs, m.xe)) /\ SameBut(K, M, Span(m.xs, m.ye))
    <3>1. Span(m.xs, m.xe) \subseteq Span(0, sortN)
      BY <1>1, <1>2
    <3> QED BY <1>1, <1>2, <1>3, <1>4, <2>2, <3>1
  <2>4. /\ k \in MergeTasks /\ k.xs = m.xs /\ k.xe = m.xe /\ k.ys = m.ys /\ k.ye = m.ye
        /\ k.y_orig = (~m.y_orig) /\ k.x_orig = m.x_orig
    BY <1>1 DEF MergeTasks
  <2> HIDE DEF k
  <2>5. Laid(k, K)
    BY <1>1, <2>2, <2>3, <2>4 DEF Laid, HalvesLie
  <2> QED BY <2>1, <2>3, <2>5 DEF k
<1> QED BY <1>5, <1>6

Items == {v \in Values : IsItem(v)}

LEMMA SlotsMakeSequences ==
  ASSUME NEW array, NEW lo \in Nat, NEW hi \in Nat, lo <= hi, \A i \in Span(lo, hi) : array[i] \in Items
  PROVE  SlotsOf(array, lo, hi) \in Seq(Items) /\ Len(SlotsOf(array, lo, hi)) = hi - lo
<1>1. hi - lo \in Nat
  OBVIOUS
<1>2. \A i \in 1..(hi - lo) : array[lo + i - 1] \in Items
  BY DEF Span
<1>3. PICK n \in Nat : n = hi - lo
  BY <1>1
<1>4. SlotsOf(array, lo, hi) = [i \in 1..n |-> array[lo + i - 1]] /\ \A i \in 1..n : array[lo + i - 1] \in Items
  BY <1>2, <1>3 DEF SlotsOf
<1>5. SlotsOf(array, lo, hi) \in [1..n -> Items]
  BY <1>4
<1>6. SlotsOf(array, lo, hi) \in Seq(Items) /\ Len(SlotsOf(array, lo, hi)) = n
  BY <1>5, IsASeq, LenProperties
<1> QED BY <1>3, <1>6

\* Whichever way it goes, a leaf merge leaves objects in its outputs, and nothing in
\* the slots of z that it read.
LEMMA LeafMerges ==
  ASSUME NEW m \in MergeTasks, m.xs <= m.xe, m.ys <= m.ye, NEW M \in Memories,
         MergeInputs(m) \subseteq Span(0, sortN), MergeOutputs(m) \subseteq Span(0, sortN),
         \A i \in MergeInputs(m) : IsItem(IF m.x_orig THEN M.x[i] ELSE M.z[i]),
         m.x_orig => \A i \in MergeOutputs(m) : M.z[i] = Raw,
         NEW K, K = LeafMerge(M, m)
  PROVE  /\ K \in Memories
         /\ \A i \in MergeOutputs(m) : IsItem(IF m.x_orig THEN K.z[i] ELSE K.x[i])
         /\ ~m.x_orig => \A i \in MergeInputs(m) : K.z[i] = Raw
         /\ \A i \in Span(0, sortN) :
              /\ i \notin (IF m.x_orig THEN MergeInputs(m) ELSE MergeOutputs(m)) => K.x[i] = M.x[i]
              /\ i \notin (IF m.x_orig THEN MergeOutputs(m) ELSE MergeInputs(m)) => K.z[i] = M.z[i]
<1> DEFINE I == Span(0, sortN)
           from == IF m.x_orig THEN M.x ELSE M.z
           X == SlotsOf(from, m.xs, m.xe)
           Y == SlotsOf(from, m.ys, m.ye)
           out == SerialMoveMerge(X, Y, m.nmerge)
           ins == MergeInputs(m)
           outs == MergeOutputs(m)
<1>1. M.x \in [I -> Values] /\ M.z \in [I -> Values] /\ M.ok = TRUE /\ MovedFrom \in Values /\ Raw \in Values
  BY DEF Memories, MovedFrom, Raw, Values
<1>2. m.xs \in Nat /\ m.xe \in Nat /\ m.ys \in Nat /\ m.ye \in Nat /\ m.zs \in Nat /\ m.x_orig \in BOOLEAN
  BY DEF MergeTasks
<1>3. \A i \in ins : from[i] \in Items
  <2>1. CASE m.x_orig
    BY <1>1, <2>1 DEF Items
  <2>2. CASE ~m.x_orig
    BY <1>1, <2>2 DEF Items
  <2> QED BY <2>1, <2>2
<1>4. \A i \in outs : out[i - m.zs + 1] \in Items
  <2>1. X \in Seq(Items) /\ Len(X) = m.xe - m.xs /\ Y \in Seq(Items) /\ Len(Y) = m.ye - m.ys
    <3>1. /\ \A i \in Span(m.xs, m.xe) : from[i] \in Items
          /\ \A i \in Span(m.ys, m.ye) : from[i] \in Items
      BY <1>3 DEF MergeInputs
    <3> HIDE DEF from
    <3> QED BY <1>2, <3>1, SlotsMakeSequences
  <2>2. out \in Seq(Items) /\ Len(out) = Len(X) + Len(Y)
    <3> HIDE DEF X, Y
    <3> QED BY <2>1, MergedElements
  <2>3. PICK n \in Nat : n = (m.xe - m.xs) + (m.ye - m.ys)
    <3>1. (m.xe - m.xs) + (m.ye - m.ys) \in Nat
      BY <1>2
    <3> QED BY <3>1
  <2>4. Len(out) = n
    <3> HIDE DEF out, X, Y
    <3> QED BY <2>1, <2>2, <2>3
  <2>5. \A i \in outs : i - m.zs + 1 \in 1..n
    BY <1>2, <2>3 DEF MergeOutputs, Span
  <2> HIDE DEF out, outs
  <2> QED BY <2>2, <2>4, <2>5, ElementOfSeq
<1> HIDE DEF out
<1>5. m.x_orig => /\ K.x = [i \in I |-> IF i \in ins THEN MovedFrom ELSE M.x[i]]
                  /\ K.z = [i \in I |-> IF i \in outs THEN out[i - m.zs + 1] ELSE M.z[i]]
  BY <1>1 DEF LeafMerge, out
<1>6. ~m.x_orig => /\ K.x = [i \in I |-> IF i \in outs THEN out[i - m.zs + 1] ELSE M.x[i]]
                   /\ K.z = [i \in I |-> IF i \in ins THEN Raw ELSE M.z[i]]
  BY <1>1 DEF LeafMerge, out
<1>7. K.ok = TRUE /\ K = [x |-> K.x, z |-> K.z, ok |-> K.ok]
  <2>1. CASE m.x_orig
    BY <1>1, <2>1 DEF LeafMerge
  <2>2. CASE ~m.x_orig
    BY <1>1, <2>2 DEF LeafMerge
  <2> QED BY <2>1, <2>2
<1>8. \A i \in outs : out[i - m.zs + 1] \in Values /\ IsItem(out[i - m.zs + 1])
  BY <1>4 DEF Items
<1> HIDE DEF I, ins, outs
<1>9. K.x \in [I -> Values] /\ K.z \in [I -> Values]
  <2>1. CASE m.x_orig
    BY <1>1, <1>5, <1>8, <2>1
  <2>2. CASE ~m.x_orig
    BY <1>1, <1>6, <1>8, <2>2
  <2> QED BY <2>1, <2>2
<1>10. K \in Memories
  BY <1>7, <1>9 DEF Memories, I
<1>11. ins \subseteq I /\ outs \subseteq I
  BY DEF ins, outs, I
<1>12. CASE m.x_orig
  BY <1>5, <1>8, <1>10, <1>11, <1>12 DEF ins, outs, I
<1>13. CASE ~m.x_orig
  BY <1>6, <1>8, <1>10, <1>11, <1>13 DEF ins, outs, I
<1> QED BY <1>12, <1>13

\* Before it merges, a whole merge lies in one container: at the root, in the other
\* than the one its output goes to.
LEMMA HalvesAlign ==
  ASSUME NEW id, ~merges[id].split, Laid(merges[id], mem)
  PROVE  /\ Laid(Aligned(id).m, Aligned(id).M)
         /\ Aligned(id).m.x_orig = Aligned(id).m.y_orig
         /\ SameTask(Aligned(id).m, merges[id])
         /\ SameBut(Aligned(id).M, mem, Span(merges[id].xs, merges[id].ye))
<1> DEFINE m == merges[id]
           a == Aligned(id)
<1>1. m.x_orig \in BOOLEAN /\ m.y_orig \in BOOLEAN /\ m \in MergeTasks
  BY DEF Laid, MergeTasks
<1>2. \/ a = [m |-> m, M |-> mem] /\ m.x_orig = m.y_orig
      \/ m.x_orig # m.y_orig /\ (a = MoveX(m, mem) \/ a = MoveY(m, mem))
  BY DEF Aligned
<1>3. a.m.x_orig = a.m.y_orig /\ SameTask(a.m, m)
  <2>1. CASE a = [m |-> m, M |-> mem] /\ m.x_orig = m.y_orig
    BY <2>1 DEF SameTask
  <2>2. CASE m.x_orig # m.y_orig /\ a = MoveX(m, mem)
    <3>1. a.m = [m EXCEPT !.x_orig = ~m.x_orig]
      BY <2>2 DEF MoveX
    <3>2. a.m.x_orig = a.m.y_orig
      BY <1>1, <2>2, <3>1 DEF MergeTasks
    <3> QED BY <1>1, <2>2, <3>2, MovesKeepTheTask
  <2>3. CASE m.x_orig # m.y_orig /\ a = MoveY(m, mem)
    <3>1. a.m = [m EXCEPT !.y_orig = ~m.y_orig]
      BY <2>3 DEF MoveY
    <3>2. a.m.x_orig = a.m.y_orig
      BY <1>1, <2>3, <3>1 DEF MergeTasks
    <3> QED BY <1>1, <2>3, <3>2, MovesKeepTheTask
  <2> HIDE DEF a, m
  <2> QED BY <1>2, <2>1, <2>2, <2>3
<1>4. Laid(a.m, a.M) /\ SameBut(a.M, mem, Span(m.xs, m.ye))
  <2>1. CASE a = [m |-> m, M |-> mem]
    BY <2>1 DEF SameBut
  <2>2. CASE a = MoveX(m, mem) \/ a = MoveY(m, mem)
    BY ZenonT(60), <2>2, HalvesMove
  <2> HIDE DEF a, m
  <2> QED BY <1>2, <2>1, <2>2
<1> QED BY <1>3, <1>4

LEMMA BothMove ==
  ASSUME NEW m, NEW M, Laid(m, M), ~m.split, m.x_orig = m.y_orig, NEW b, b = MoveBoth(m, M)
  PROVE  /\ Laid(b.m, b.M) /\ b.m.x_orig = (~m.x_orig) /\ b.m.y_orig = b.m.x_orig /\ SameTask(b.m, m)
         /\ SameBut(b.M, M, Span(m.xs, m.ye))
<1>1. PICK x : x = MoveX(m, M)
  OBVIOUS
<1>2. m \in MergeTasks /\ m.x_orig \in BOOLEAN
  BY DEF Laid, MergeTasks
<1>3. Laid(x.m, x.M) /\ SameBut(x.M, M, Span(m.xs, m.ye)) /\ x.m = [m EXCEPT !.x_orig = ~m.x_orig]
  BY <1>1, HalvesMove
<1>4. /\ x.m.x_orig = (~m.x_orig) /\ x.m.y_orig = m.x_orig /\ x.m.xs = m.xs /\ x.m.ye = m.ye
      /\ x.m \in MergeTasks
  BY <1>2, <1>3 DEF MergeTasks, Laid
<1>5. b = MoveY(x.m, x.M)
  BY <1>1 DEF MoveBoth
<1>6. Laid(b.m, b.M) /\ SameBut(b.M, x.M, Span(m.xs, m.ye)) /\ b.m = [x.m EXCEPT !.y_orig = ~x.m.y_orig]
  <2>1. PICK k, K : k = x.m /\ K = x.M
    OBVIOUS
  <2>2. Laid(k, K) /\ b = MoveY(k, K)
    BY <1>3, <1>5, <2>1
  <2>3. Laid(b.m, b.M) /\ SameBut(b.M, K, Span(k.xs, k.ye))
    <3>1. Laid(MoveY(k, K).m, MoveY(k, K).M) /\ SameBut(MoveY(k, K).M, K, Span(k.xs, k.ye))
      BY <2>2, HalvesMove
    <3> QED BY <2>2, <3>1
  <2>4. b.m = [k EXCEPT !.y_orig = ~k.y_orig]
    BY <2>2 DEF MoveY
  <2> QED BY <1>4, <2>1, <2>3, <2>4
<1>7. b.m.x_orig = (~m.x_orig) /\ b.m.y_orig = b.m.x_orig
  BY <1>4, <1>6 DEF MergeTasks
<1>8. SameTask(b.m, m)
  BY <1>2, MovesKeepTheTask
<1>9. SameBut(b.M, M, Span(m.xs, m.ye))
  BY <1>3, <1>6 DEF SameBut
<1> QED BY <1>6, <1>7, <1>8, <1>9
-------------------------------------------------------------------------------
(* What each step does to memory.                                              *)

\* The halves of a merge without children lie where its flags say.
LEMMA ReadyHalvesLie ==
  ASSUME TreeInv, MemInv, NEW id \in DOMAIN merges, ~merges[id].finished, ~merges[id].split, Idle(MergeNode(id))
  PROVE  /\ Laid(merges[id], mem) /\ Span(merges[id].xs, merges[id].ye) = Indices(id)
         /\ Home(MergeNode(id)) = id /\ merges[id].root = (merges[id].parent = Root)
         /\ MergeInputs(merges[id]) = Indices(id) /\ MergeOutputs(merges[id]) = Indices(id)
<1> DEFINE m == merges[id]
<1>1. m \in MergeTasks /\ MergeShape(id) /\ id \in Nat \X Nat /\ id # Root /\ MergeNode(id) \in Nodes
  BY MergeTaskIsTyped
<1>2. Home(MergeNode(id)) = id
  BY DEF Home, MergeNode
<1>3. /\ m.xs <= m.xe /\ m.xe = m.ys /\ m.ys <= m.ye /\ m.xs < m.xe /\ m.zs = m.xs
      /\ id[1] = m.xs /\ id[2] = m.zs + ((m.xe - m.xs) + (m.ye - m.ys))
      /\ m.xs \in Nat /\ m.xe \in Nat /\ m.ys \in Nat /\ m.ye \in Nat
  BY <1>1 DEF MergeShape, SizeOf, MergeTasks
<1>4. id[2] = m.ye
  BY <1>3
<1>5. Span(m.xs, m.ye) = Indices(id)
  BY <1>3, <1>4 DEF Indices
<1>6. Indices(id) \subseteq Span(0, sortN)
  BY <1>1, <1>2, SlotsOfTasks
<1>7. MergeInputs(m) = Indices(id) /\ MergeOutputs(m) = Indices(id)
  <2>1. MergeInputs(m) = Indices(id)
    BY <1>3, <1>4 DEF MergeInputs, Indices, Span
  <2>2. m.zs + (m.xe - m.xs) + (m.ye - m.ys) = id[2]
    BY <1>3
  <2> QED BY <1>3, <2>1, <2>2 DEF MergeOutputs, Indices
<1>8. MergeReady(id)
  BY DEF MemInv
<1>9. \A c, h : ~Child(c, id, h)
  BY DEF Child, Idle
<1>10. Flag(id, HalfX(id)) = m.x_orig /\ Flag(id, HalfY(id)) = m.y_orig
  <2>1. HalfX(id) # HalfY(id)
    BY <1>3 DEF HalfX, HalfY
  <2> QED BY <1>1, <2>1 DEF Flag
<1>11. Delivered(id, HalfX(id)) /\ Delivered(id, HalfY(id))
  BY <1>8 DEF MergeReady
<1>12. Indices(HalfX(id)) = Span(m.xs, m.xe) /\ Indices(HalfY(id)) = Span(m.ys, m.ye)
  BY DEF Indices, HalfX, HalfY
<1>13. Lies(mem, m.x_orig, Span(m.xs, m.xe)) /\ Lies(mem, m.y_orig, Span(m.ys, m.ye))
  BY <1>9, <1>10, <1>11, <1>12 DEF Delivered, Lies
<1>14. Laid(m, mem)
  BY <1>1, <1>3, <1>5, <1>6, <1>13 DEF Laid, HalvesLie, MemInv, MemTypeOK
<1> QED BY <1>2, <1>5, <1>7, <1>8, <1>14 DEF MergeReady

\* A step that tells nobody anything.
LEMMA NobodyIsTold ==
  ASSUME TreeInv, NEW t \in Nodes, Idle(t),
         \A i \in DOMAIN merges : t # MergeNode(i) => merges'[i] = merges[i]
  PROVE  FlagsKept(t) /\ \A p, h : p = Up(t) => Flag(p, h)' = Flag(p, h)
<1>1. ASSUME NEW p, NEW h, Whole(p), t # MergeNode(p)
      PROVE  Flag(p, h)' = Flag(p, h)
  BY <1>1 DEF Whole, Flag, HalfX
<1>2. ASSUME NEW p, p = Up(t)
      PROVE  Whole(p) /\ t # MergeNode(p)
  <2>1. Whole(p)
    BY <1>2, HomeIsAHalf
  <2> QED BY <1>2, <2>1, MergeTaskIsTyped DEF Whole, Idle, MergeNode, Nodes, SortNode
<1> QED BY <1>1, <1>2 DEF FlagsKept

\* A merge that is not a piece tells its parent where its output is, and only that.
LEMMA TheParentIsTold ==
  ASSUME TreeInv, NEW id \in DOMAIN merges, ~merges[id].split, Idle(MergeNode(id)), NEW orig \in BOOLEAN,
         \A i \in DOMAIN merges : i # id => merges'[i] = SetOdd(merges, merges[id].parent, merges[id].zs, orig)[i]
  PROVE  /\ FlagsKept(MergeNode(id))
         /\ \A p, h : p = Up(MergeNode(id)) /\ h = Home(MergeNode(id))
                      => Flag(p, h)' = IF p = Root THEN TRUE ELSE orig
<1> DEFINE t == MergeNode(id)
<1>0. PICK p, h, z : p = Up(t) /\ h = Home(t) /\ z = merges[id].zs
  OBVIOUS
<1>1. /\ t \in Nodes /\ p = merges[id].parent /\ h = id /\ id[1] = z /\ p # id
      /\ merges \in [DOMAIN merges -> MergeTasks] /\ Root \notin DOMAIN merges
  <2>1. t \in Nodes /\ Up(t) = merges[id].parent /\ MergeShape(id)
    BY MergeTaskIsTyped
  <2>2. Home(t) = id
    BY DEF Home, MergeNode
  <2>3. Up(t) # id
    BY <2>1 DEF Idle
  <2> QED BY <1>0, <2>1, <2>2, <2>3 DEF MergeShape, TreeInv, TreeTypeOK, Root
<1>2. Whole(p) /\ h \in Halves(p)
  BY <1>0, <1>1, HomeIsAHalf
<1>3. ASSUME NEW q, NEW k, Whole(q), q # id, q # p
      PROVE  Flag(q, k)' = Flag(q, k)
  <2>1. q # Root => merges'[q] = merges[q]
    BY <1>1, <1>3 DEF Whole, SetOdd
  <2> QED BY <2>1 DEF Flag, HalfX
<1>4. CASE p = Root
  <2>1. \A k : Flag(p, k)' = TRUE /\ Flag(p, k) = TRUE
    BY <1>4 DEF Flag
  <2> QED BY <1>0, <1>3, <1>4, <2>1 DEF FlagsKept
<1>5. CASE p # Root
  <2> DEFINE m == merges[p]
  <2>1. /\ p \in DOMAIN merges /\ ~m.split /\ m \in MergeTasks /\ MergeShape(p)
        /\ h = HalfX(p) \/ h = HalfY(p)
    BY <1>2, <1>5, MergeTaskIsTyped DEF Whole, Halves
  <2>2. m.xs < m.xe /\ m.xe = m.ys /\ m.xs \in Nat /\ m.ys \in Nat /\ m.xe \in Nat
    BY <2>1 DEF MergeShape, MergeTasks
  <2>3. HalfX(p) # HalfY(p) /\ (m.xs = z <=> h = HalfX(p))
    BY <1>1, <2>1, <2>2 DEF HalfX, HalfY
  <2>4. merges'[p] = IF m.xs = z THEN [m EXCEPT !.x_orig = orig] ELSE [m EXCEPT !.y_orig = orig]
    BY <1>0, <1>1, <1>5, <2>1 DEF SetOdd
  <2>5. HalfX(p)' = HalfX(p)
    BY <2>1, <2>4 DEF HalfX, MergeTasks
  <2>6. Flag(p, h)' = orig /\ \A k : k \in {HalfX(p), HalfY(p)} /\ k # h => Flag(p, k)' = Flag(p, k)
    <3>1. CASE m.xs = z
      <4>1. merges'[p].x_orig = orig /\ merges'[p].y_orig = m.y_orig
        BY <2>1, <2>4, <3>1 DEF MergeTasks
      <4> QED BY <1>5, <2>1, <2>3, <2>5, <3>1, <4>1 DEF Flag
    <3>2. CASE m.xs # z
      <4>1. merges'[p].y_orig = orig /\ merges'[p].x_orig = m.x_orig
        BY <2>1, <2>4, <3>2 DEF MergeTasks
      <4> QED BY <1>5, <2>1, <2>3, <2>5, <3>2, <4>1 DEF Flag
    <3> QED BY <3>1, <3>2
  <2>7. ~IsSplit(t)
    BY DEF IsSplit, MergeNode
  <2>8. FlagsKept(t)
    <3> SUFFICES ASSUME NEW q, NEW k, Whole(q), k \in Halves(q), t # MergeNode(q), q # p \/ k # h
                 PROVE  Flag(q, k)' = Flag(q, k)
      BY <1>0, <2>7 DEF FlagsKept
    <3>1. CASE q # p
      BY <1>3, <3>1
    <3>2. CASE q = p
      BY <1>5, <2>6, <3>2 DEF Halves
    <3> QED BY <3>1, <3>2
  <2> HIDE DEF m, t
  <2> QED BY <1>0, <1>5, <2>6, <2>8 DEF t
<1> QED BY <1>4, <1>5

\* A merge that has put its range where it told its parent.
LEMMA WholeMergeRuns ==
  ASSUME TreeInv, MemInv, NEW id \in DOMAIN merges, ~merges[id].finished, ~merges[id].split, Idle(MergeNode(id)),
         Replaces(MergeNode(id), {MergeNode(id)}), merges'[id].finished, sortPc' = sortPc,
         NEW orig \in BOOLEAN, merges[id].parent = Root => orig,
         \A i \in DOMAIN merges : i # id => merges'[i] = SetOdd(merges, merges[id].parent, merges[id].zs, orig)[i],
         mem' \in Memories, SameBut(mem', mem, Indices(id)), Lies(mem', orig, Indices(id))
  PROVE  MemInv'
<1>0. PICK t, p, h : t = MergeNode(id) /\ p = Up(t) /\ h = Home(t)
  OBVIOUS
<1>1. t \in Nodes /\ p = merges[id].parent /\ h = id /\ ~IsSplit(t) /\ sortN' = sortN
  BY <1>0, MergeTaskIsTyped, ReadyHalvesLie DEF IsSplit, MergeNode, Replaces
<1>2. FlagsKept(t) /\ Flag(p, h)' = IF p = Root THEN TRUE ELSE orig
  BY <1>0, TheParentIsTold
<1>3. Flag(p, h)' = orig
  BY <1>1, <1>2
<1>4. OnlySlotsOf(t)
  BY <1>0, <1>1 DEF OnlySlotsOf, SameBut, Slots
<1>5. Delivered(p, h)'
  BY <1>1, <1>3 DEF Delivered, Lies, Indices
<1>6. MemTypeOK'
  BY <1>1 DEF MemTypeOK, Memories
<1>7. PICK N : N = {t}
  OBVIOUS
<1>8. /\ \A s : SortNode(s) \in N => SortReady(s)'
      /\ \A i : MergeNode(i) \in N /\ ~merges'[i].finished => MergeReady(i)'
  BY <1>0, <1>7 DEF SortNode, MergeNode
<1>9. Idle(t) /\ Replaces(t, N)
  BY <1>0, <1>7
<1> QED BY <1>0, <1>1, <1>2, <1>4, <1>5, <1>6, <1>8, <1>9, MemStep

LEMMA LiesInOne ==
  ASSUME NEW m, NEW M, Laid(m, M), m.x_orig = m.y_orig
  PROVE  Lies(M, m.x_orig, Span(m.xs, m.ye)) /\ m.x_orig \in BOOLEAN
<1>1. Lies(M, m.x_orig, Span(m.xs, m.xe)) /\ Lies(M, m.x_orig, Span(m.ys, m.ye))
  BY DEF Laid, HalvesLie
<1>2. Span(m.xs, m.ye) = Span(m.xs, m.xe) \cup Span(m.ys, m.ye)
  BY DEF Laid, MergeTasks, Span
<1> QED BY <1>1, <1>2 DEF Lies, Laid, MergeTasks

\* What a merge that is not a piece has before its serial merge or its split.
LEMMA ReadyToMerge ==
  ASSUME TreeInv, MemInv, NEW id \in DOMAIN merges, ~merges[id].finished, ~merges[id].split, Idle(MergeNode(id)),
         NEW c, c = ToMerge(id)
  PROVE  /\ Laid(c.m, c.M) /\ c.m.x_orig = c.m.y_orig /\ SameTask(c.m, merges[id])
         /\ c.m.x_orig \in BOOLEAN /\ (merges[id].parent = Root => ~c.m.x_orig)
         /\ Lies(c.M, c.m.x_orig, Indices(id)) /\ SameBut(c.M, mem, Indices(id))
         /\ MergeInputs(c.m) = Indices(id) /\ MergeOutputs(c.m) = Indices(id)
         /\ Indices(id) \subseteq Span(0, sortN)
         /\ TellParent(c.m) = SetOdd(merges, merges[id].parent, merges[id].zs, ~c.m.x_orig)
<1>1. PICK a : a = Aligned(id)
  OBVIOUS
<1>2. /\ Laid(merges[id], mem) /\ Span(merges[id].xs, merges[id].ye) = Indices(id)
      /\ merges[id].root = (merges[id].parent = Root)
      /\ MergeInputs(merges[id]) = Indices(id) /\ MergeOutputs(merges[id]) = Indices(id)
  BY ReadyHalvesLie
<1>3. /\ Laid(a.m, a.M) /\ a.m.x_orig = a.m.y_orig /\ SameTask(a.m, merges[id])
      /\ SameBut(a.M, mem, Indices(id))
  BY <1>1, <1>2, HalvesAlign
<1>4. /\ Span(a.m.xs, a.m.ye) = Indices(id) /\ ~a.m.split /\ a.m.root = merges[id].root
  BY <1>2, <1>3 DEF SameTask
<1>5. /\ Laid(c.m, c.M) /\ c.m.x_orig = c.m.y_orig /\ SameTask(c.m, merges[id])
      /\ SameBut(c.M, mem, Indices(id)) /\ (merges[id].root => ~c.m.x_orig)
  <2>1. CASE a.m.root /\ a.m.x_orig
    <3>1. c = MoveBoth(a.m, a.M)
      BY <1>1, <1>4, <2>1 DEF ToMerge
    <3>2. PICK k, K : k = a.m /\ K = a.M
      OBVIOUS
    <3>3. /\ Laid(c.m, c.M) /\ c.m.x_orig = (~k.x_orig) /\ c.m.y_orig = c.m.x_orig /\ SameTask(c.m, k)
          /\ SameBut(c.M, K, Span(k.xs, k.ye))
      BY <1>3, <1>4, <3>1, <3>2, BothMove
    <3>4. SameTask(c.m, merges[id])
      BY <1>3, <1>4, <3>2, <3>3 DEF SameTask
    <3>5. SameBut(c.M, mem, Indices(id))
      BY <1>3, <1>4, <3>2, <3>3 DEF SameBut
    <3> QED BY <2>1, <3>2, <3>3, <3>4, <3>5
  <2>2. CASE ~(a.m.root /\ a.m.x_orig)
    <3>1. c = a
      BY <1>1, <2>2 DEF ToMerge
    <3> QED BY <1>3, <1>4, <2>2, <3>1
  <2> QED BY <2>1, <2>2
<1>6. Lies(c.M, c.m.x_orig, Indices(id)) /\ c.m.x_orig \in BOOLEAN
  <2>1. PICK k, K : k = c.m /\ K = c.M
    OBVIOUS
  <2>2. Lies(K, k.x_orig, Span(k.xs, k.ye)) /\ k.x_orig \in BOOLEAN
    BY <1>5, <2>1, LiesInOne
  <2>3. Span(k.xs, k.ye) = Indices(id)
    BY <1>2, <1>5, <2>1 DEF SameTask
  <2> QED BY <2>1, <2>2, <2>3
<1>7. /\ MergeInputs(c.m) = Indices(id) /\ MergeOutputs(c.m) = Indices(id)
      /\ TellParent(c.m) = SetOdd(merges, merges[id].parent, merges[id].zs, ~c.m.x_orig)
  BY <1>2, <1>5 DEF SameTask, MergeInputs, MergeOutputs, TellParent
<1>8. Indices(id) \subseteq Span(0, sortN)
  BY <1>2 DEF Laid
<1> QED BY <1>2, <1>5, <1>6, <1>7, <1>8

\* A merge of halves that are in order already: a is the task once they lie in one
\* container, b once they lie where they are to stay.
InOrderMerged(id, a, b) ==
  /\ Laid(a.m, a.M) /\ a.m.x_orig = a.m.y_orig /\ SameTask(a.m, merges[id])
  /\ Laid(b.m, b.M) /\ b.m.x_orig = b.m.y_orig /\ SameTask(b.m, merges[id])
  /\ b.m.x_orig \in BOOLEAN /\ (merges[id].parent = Root => b.m.x_orig)
  /\ SameBut(b.M, mem, Indices(id)) /\ Lies(b.M, b.m.x_orig, Indices(id))
  /\ mem' = b.M /\ merges'[id] = [b.m EXCEPT !.finished = TRUE]
  /\ \A i \in DOMAIN merges : i # id => merges'[i] = SetOdd(merges, merges[id].parent, merges[id].zs, b.m.x_orig)[i]

LEMMA MergesInOrder ==
  ASSUME TreeInv, MemInv, NEW id \in DOMAIN merges, MergeInOrder(id), NEW a, a = Aligned(id),
         NEW b, b = IF a.m.root /\ ~a.m.x_orig THEN MoveBoth(a.m, a.M) ELSE a
  PROVE  InOrderMerged(id, a, b)
<1>1. ~merges[id].finished /\ ~merges[id].split /\ Idle(MergeNode(id))
  BY IdleTasks DEF MergeInOrder, Runnable, InOrder
<1>2. /\ Laid(merges[id], mem) /\ Span(merges[id].xs, merges[id].ye) = Indices(id)
      /\ merges[id].root = (merges[id].parent = Root)
  BY <1>1, ReadyHalvesLie
<1>3. /\ mem' = b.M
      /\ merges' = [SetOdd(merges, a.m.parent, a.m.zs, a.m.x_orig) EXCEPT ![id] = [b.m EXCEPT !.finished = TRUE]]
  BY DEF MergeInOrder
<1>4. /\ Laid(a.m, a.M) /\ a.m.x_orig = a.m.y_orig /\ SameTask(a.m, merges[id])
      /\ SameBut(a.M, mem, Indices(id))
  BY <1>1, <1>2, HalvesAlign
<1>5. /\ Span(a.m.xs, a.m.ye) = Indices(id) /\ ~a.m.split /\ a.m.root = merges[id].root
      /\ a.m.parent = merges[id].parent /\ a.m.zs = merges[id].zs
  BY <1>1, <1>2, <1>4 DEF SameTask
<1>6. /\ Laid(b.m, b.M) /\ b.m.x_orig = b.m.y_orig /\ Span(b.m.xs, b.m.ye) = Indices(id) /\ SameTask(b.m, merges[id])
      /\ SameBut(b.M, mem, Indices(id)) /\ (merges[id].root => b.m.x_orig)
      /\ (~merges[id].root => b.m.x_orig = a.m.x_orig)
  <2>1. CASE a.m.root /\ ~a.m.x_orig
    <3>1. PICK k, K : k = a.m /\ K = a.M
      OBVIOUS
    <3>2. b = MoveBoth(k, K)
      BY <2>1, <3>1
    <3>3. /\ Laid(b.m, b.M) /\ b.m.x_orig = (~k.x_orig) /\ b.m.y_orig = b.m.x_orig /\ SameTask(b.m, k)
          /\ SameBut(b.M, K, Span(k.xs, k.ye))
      BY <1>4, <1>5, <3>1, <3>2, BothMove
    <3>4. Span(b.m.xs, b.m.ye) = Indices(id) /\ SameTask(b.m, merges[id])
      BY <1>4, <1>5, <3>1, <3>3 DEF SameTask
    <3>5. SameBut(b.M, mem, Indices(id))
      BY <1>4, <1>5, <3>1, <3>3 DEF SameBut
    <3> QED BY <1>5, <2>1, <3>1, <3>3, <3>4, <3>5
  <2>2. CASE ~(a.m.root /\ ~a.m.x_orig)
    <3>1. b = a
      BY <2>2
    <3> QED BY <1>4, <1>5, <2>2, <3>1
  <2> QED BY <2>1, <2>2
<1>7. b.m.x_orig \in BOOLEAN /\ Lies(b.M, b.m.x_orig, Indices(id))
  <2>1. PICK k, K : k = b.m /\ K = b.M
    OBVIOUS
  <2>2. Lies(K, k.x_orig, Span(k.xs, k.ye)) /\ k.x_orig \in BOOLEAN
    BY <1>6, <2>1, LiesInOne
  <2> QED BY <1>6, <2>1, <2>2
<1>8. SetOdd(merges, a.m.parent, a.m.zs, a.m.x_orig) = SetOdd(merges, merges[id].parent, merges[id].zs, b.m.x_orig)
  BY <1>2, <1>5, <1>6 DEF SetOdd
<1>9. DOMAIN SetOdd(merges, merges[id].parent, merges[id].zs, b.m.x_orig) = DOMAIN merges
  BY DEF SetOdd
<1>10. merges'[id] = [b.m EXCEPT !.finished = TRUE]
  BY <1>3, <1>8, <1>9
<1>11. \A i \in DOMAIN merges : i # id => merges'[i] = SetOdd(merges, merges[id].parent, merges[id].zs, b.m.x_orig)[i]
  BY <1>3, <1>8, <1>9
<1> QED BY <1>2, <1>3, <1>4, <1>6, <1>7, <1>10, <1>11 DEF InOrderMerged

LEMMA MergeInOrderKeeps ==
  ASSUME TreeInv, MemInv, NEW id \in DOMAIN merges, MergeInOrder(id)
  PROVE  MemInv'
<1>1. ~merges[id].finished /\ ~merges[id].split /\ Idle(MergeNode(id)) /\ sortPc' = sortPc
  BY IdleTasks DEF MergeInOrder, Runnable, InOrder
<1>2. Replaces(MergeNode(id), {MergeNode(id)})
  BY MergeInOrderStep
<1>3. PICK a, b : a = Aligned(id) /\ b = IF a.m.root /\ ~a.m.x_orig THEN MoveBoth(a.m, a.M) ELSE a
  OBVIOUS
<1>4. InOrderMerged(id, a, b)
  BY <1>3, MergesInOrder
<1>5. PICK orig : orig = b.m.x_orig
  OBVIOUS
<1>6. /\ orig \in BOOLEAN /\ (merges[id].parent = Root => orig) /\ merges'[id].finished
      /\ mem' \in Memories /\ SameBut(mem', mem, Indices(id)) /\ Lies(mem', orig, Indices(id))
      /\ \A i \in DOMAIN merges : i # id => merges'[i] = SetOdd(merges, merges[id].parent, merges[id].zs, orig)[i]
  BY <1>4, <1>5 DEF InOrderMerged, Laid, MergeTasks
<1> QED BY <1>1, <1>2, <1>6, WholeMergeRuns

\* The home of a task is a half of a merge that waits, or the whole range.
LEMMA HomeIsDelivered ==
  ASSUME TreeInv, MemInv, NEW t \in Nodes, NEW p, p = Up(t), NEW h, h = Home(t)
  PROVE  Delivered(p, h)
<1>1. HasParent(t)
  BY DEF TreeInv, ParentsWait
<1>2. CASE p = Root /\ h = <<0, sortN>>
  BY <1>2 DEF MemInv
<1>3. CASE p \in DOMAIN merges /\ ~merges[p].split /\ ~merges[p].finished /\ h \in {HalfX(p), HalfY(p)}
  <2>1. MergeReady(p)
    BY <1>3 DEF MemInv
  <2>2. Delivered(p, HalfX(p)) /\ Delivered(p, HalfY(p))
    BY <1>3, <2>1 DEF MergeReady
  <2>3. PICK hx, hy : hx = HalfX(p) /\ hy = HalfY(p)
    OBVIOUS
  <2> QED BY <1>3, <2>2, <2>3
<1> QED BY <1>1, <1>2, <1>3 DEF HasParent

\* What a piece of a merge reads lies in the other array than the one it writes to.
PieceIsReady(t, p, h, m) ==
  /\ t \in Nodes /\ p = m.parent /\ IsSplit(t) /\ m \in MergeTasks /\ m.split
  /\ In(t) = MergeInputs(m) /\ Out(t) = MergeOutputs(m) /\ Slots(t) = MergeSlots(m)
  /\ m.x_orig = (~Flag(p, h)) /\ m.x_orig \in BOOLEAN /\ m.x_orig = m.y_orig
  /\ \A i \in MergeInputs(m) : IsItem(IF m.x_orig THEN mem.x[i] ELSE mem.z[i])
  /\ m.x_orig => \A i \in MergeOutputs(m) : mem.z[i] = Raw
  /\ m.xs <= m.xe /\ m.xe <= m.ys /\ m.ys <= m.ye
  /\ MergeInputs(m) \subseteq Indices(h) /\ MergeOutputs(m) \subseteq Indices(h) /\ Indices(h) \subseteq Span(0, sortN)

LEMMA PieceReads ==
  ASSUME TreeInv, MemInv, NEW id \in DOMAIN merges, ~merges[id].finished, merges[id].split,
         NEW t, t = MergeNode(id), NEW p, p = Up(t), NEW h, h = Home(t), NEW m, m = merges[id]
  PROVE  PieceIsReady(t, p, h, m)
<1>1. /\ t \in Nodes /\ p = m.parent /\ IsSplit(t) /\ m \in MergeTasks /\ MergeShape(id)
      /\ In(t) = MergeInputs(m) /\ Out(t) = MergeOutputs(m) /\ Slots(t) = MergeSlots(m)
  BY MergeTaskIsTyped DEF IsSplit, MergeNode, In, Out, Slots
<1>2. MergeReady(id)
  BY DEF MemInv
<1>3. /\ m.x_orig = (~Flag(p, h)) /\ m.x_orig \in BOOLEAN /\ m.x_orig = m.y_orig
      /\ \A i \in MergeInputs(m) : IsItem(IF m.x_orig THEN mem.x[i] ELSE mem.z[i])
      /\ m.x_orig => \A i \in MergeOutputs(m) : mem.z[i] = Raw
  BY <1>1, <1>2 DEF MergeReady, MergeTasks
<1>4. m.xs <= m.xe /\ m.xe <= m.ys /\ m.ys <= m.ye
  BY <1>1 DEF MergeShape
<1>5. MergeInputs(m) \subseteq Indices(h) /\ MergeOutputs(m) \subseteq Indices(h) /\ Indices(h) \subseteq Span(0, sortN)
  BY <1>1, SlotsOfTasks
<1> QED BY <1>1, <1>3, <1>4, <1>5 DEF PieceIsReady

PieceWritten(K, m) ==
  /\ K \in Memories
  /\ \A i \in MergeOutputs(m) : IsItem(IF m.x_orig THEN K.z[i] ELSE K.x[i])
  /\ ~m.x_orig => \A i \in MergeInputs(m) : K.z[i] = Raw
  /\ \A i \in Span(0, sortN) :
       /\ i \notin (IF m.x_orig THEN MergeInputs(m) ELSE MergeOutputs(m)) => K.x[i] = mem.x[i]
       /\ i \notin (IF m.x_orig THEN MergeOutputs(m) ELSE MergeInputs(m)) => K.z[i] = mem.z[i]

LEMMA PieceWrites ==
  ASSUME MemInv, NEW t, NEW p, NEW h, NEW m, PieceIsReady(t, p, h, m), mem' = LeafMerge(mem, m)
  PROVE  PieceWritten(mem', m) /\ OnlySlotsOf(t)
<1>1. /\ m \in MergeTasks /\ m.split /\ m.x_orig \in BOOLEAN /\ m.xs <= m.xe /\ m.ys <= m.ye
      /\ Slots(t) = MergeSlots(m)
      /\ \A i \in MergeInputs(m) : IsItem(IF m.x_orig THEN mem.x[i] ELSE mem.z[i])
      /\ m.x_orig => \A i \in MergeOutputs(m) : mem.z[i] = Raw
      /\ MergeInputs(m) \subseteq Span(0, sortN) /\ MergeOutputs(m) \subseteq Span(0, sortN)
  BY DEF PieceIsReady
<1>2. PICK K, M : K = LeafMerge(M, m) /\ M = mem /\ K = mem'
  OBVIOUS
<1>3. M \in Memories
  BY <1>2 DEF MemInv, MemTypeOK
<1>4. /\ K \in Memories
      /\ \A i \in MergeOutputs(m) : IsItem(IF m.x_orig THEN K.z[i] ELSE K.x[i])
      /\ ~m.x_orig => \A i \in MergeInputs(m) : K.z[i] = Raw
      /\ \A i \in Span(0, sortN) :
           /\ i \notin (IF m.x_orig THEN MergeInputs(m) ELSE MergeOutputs(m)) => K.x[i] = M.x[i]
           /\ i \notin (IF m.x_orig THEN MergeOutputs(m) ELSE MergeInputs(m)) => K.z[i] = M.z[i]
  BY <1>1, <1>2, <1>3, LeafMerges
<1>5. PieceWritten(K, m) /\ K = mem'
  BY <1>2, <1>4 DEF PieceWritten
<1>6. CASE m.x_orig
  BY <1>1, <1>5, <1>6 DEF PieceWritten, OnlySlotsOf, MergeSlots, InArray
<1>7. CASE ~m.x_orig
  BY <1>1, <1>5, <1>7 DEF PieceWritten, OnlySlotsOf, MergeSlots, InArray
<1> QED BY <1>5, <1>6, <1>7

\* A piece of a merge that has put its outputs where the others will.
LEMMA PieceRuns ==
  ASSUME TreeInv, MemInv, NEW id \in DOMAIN merges, ~merges[id].finished, merges[id].split, Idle(MergeNode(id)),
         Replaces(MergeNode(id), {MergeNode(id)}), merges'[id].finished, sortPc' = sortPc,
         \A i \in DOMAIN merges : i # id => merges'[i] = merges[i],
         mem' = LeafMerge(mem, merges[id])
  PROVE  MemInv'
<1>0. PICK t, p, h, m, K : t = MergeNode(id) /\ p = Up(t) /\ h = Home(t) /\ m = merges[id] /\ K = mem'
  OBVIOUS
<1>1. PieceIsReady(t, p, h, m)
  BY <1>0, PieceReads
<1>2. FlagsKept(t) /\ Flag(p, h)' = Flag(p, h)
  <2>1. \A i \in DOMAIN merges : t # MergeNode(i) => merges'[i] = merges[i]
    BY <1>0
  <2>2. t \in Nodes
    BY <1>1 DEF PieceIsReady
  <2> QED BY ZenonT(60), <1>0, <2>1, <2>2, NobodyIsTold
<1>4. PieceWritten(K, m) /\ OnlySlotsOf(t)
  BY <1>0, <1>1, PieceWrites
<1>5. t \in Nodes /\ Indices(h) \subseteq Span(0, sortN) /\ sortN' = sortN
  BY <1>1 DEF PieceIsReady, Replaces
<1>6. MemTypeOK'
  BY <1>0, <1>4, <1>5 DEF PieceWritten, MemTypeOK, Memories
<1>7. \A c : c # t /\ Child(c, p, h) => Child(c, p, h)' /\ In(c)' = In(c) /\ Out(c)' = Out(c)
  BY <1>0, <1>5, KeptSlots DEF Child, Kept
<1>8. Delivered(p, h)
  BY <1>0, <1>5, HomeIsDelivered
<1>9. /\ m.x_orig = (~Flag(p, h)) /\ In(t) = MergeInputs(m) /\ Out(t) = MergeOutputs(m)
      /\ \A i \in MergeOutputs(m) : IsItem(IF m.x_orig THEN K.z[i] ELSE K.x[i])
      /\ ~m.x_orig => \A i \in MergeInputs(m) : K.z[i] = Raw
      /\ \A i \in Span(0, sortN) :
           /\ i \notin (IF m.x_orig THEN MergeInputs(m) ELSE MergeOutputs(m)) => K.x[i] = mem.x[i]
           /\ i \notin (IF m.x_orig THEN MergeOutputs(m) ELSE MergeInputs(m)) => K.z[i] = mem.z[i]
  BY <1>1, <1>4 DEF PieceIsReady, PieceWritten
<1>10. ASSUME NEW i \in Indices(h)
       PROVE  /\ IsItem(IF Flag(p, h) THEN K.x[i] ELSE K.z[i]) \/ \E c : Child(c, p, h)' /\ i \in Out(c)'
              /\ Flag(p, h) => K.z[i] = Raw \/ \E c : Child(c, p, h)' /\ i \in In(c)'
  <2>1. i \in Span(0, sortN)
    BY <1>5
  <2>2. IsItem(IF Flag(p, h) THEN K.x[i] ELSE K.z[i]) \/ \E c : Child(c, p, h)' /\ i \in Out(c)'
    <3>1. CASE i \in MergeOutputs(m)
      BY <1>9, <3>1
    <3>2. CASE i \notin MergeOutputs(m)
      <4>1. CASE IsItem(IF Flag(p, h) THEN mem.x[i] ELSE mem.z[i])
        BY <1>9, <2>1, <3>2, <4>1
      <4>2. CASE \E c : Child(c, p, h) /\ i \in Out(c)
        BY <1>7, <1>9, <3>2, <4>2
      <4> QED BY <1>8, <4>1, <4>2 DEF Delivered
    <3> QED BY <3>1, <3>2
  <2>3. Flag(p, h) => K.z[i] = Raw \/ \E c : Child(c, p, h)' /\ i \in In(c)'
    <3>1. CASE i \in MergeInputs(m)
      BY <1>9, <3>1
    <3>2. CASE i \notin MergeInputs(m)
      <4>1. CASE mem.z[i] = Raw
        BY <1>9, <2>1, <3>2, <4>1
      <4>2. CASE \E c : Child(c, p, h) /\ i \in In(c)
        BY <1>7, <1>9, <3>2, <4>2
      <4> QED BY <1>8, <4>1, <4>2 DEF Delivered
    <3> QED BY <3>1, <3>2
  <2> QED BY <2>2, <2>3
<1>11. Delivered(p, h)'
  BY <1>0, <1>2, <1>10 DEF Delivered, Indices
<1>12. PICK N : N = {t}
  OBVIOUS
<1>13. /\ \A s : SortNode(s) \in N => SortReady(s)'
       /\ \A i : MergeNode(i) \in N /\ ~merges'[i].finished => MergeReady(i)'
  BY <1>0, <1>12 DEF SortNode, MergeNode
<1>14. Idle(t) /\ Replaces(t, N)
  BY <1>0, <1>12
<1> QED BY <1>0, <1>2, <1>4, <1>5, <1>6, <1>11, <1>13, <1>14, MemStep

LEMMA MergeRangesKeeps ==
  ASSUME TreeInv, MemInv, NEW id \in DOMAIN merges, MergeRanges(id)
  PROVE  MemInv'
<1>1. ~merges[id].finished /\ Idle(MergeNode(id)) /\ sortPc' = sortPc
  BY IdleTasks DEF MergeRanges, Runnable
<1>2. Replaces(MergeNode(id), {MergeNode(id)})
  BY MergeRangesStep
<1>3. PICK c : c = ToMerge(id)
  OBVIOUS
<1>4. mem' = LeafMerge(c.M, c.m) /\ merges' = [TellParent(c.m) EXCEPT ![id] = [c.m EXCEPT !.finished = TRUE]]
  BY <1>3 DEF MergeRanges
<1>5. c.m \in MergeTasks /\ SameTasks(TellParent(c.m)) /\ SameTask(c.m, merges[id])
  <2>1. merges[id] \in MergeTasks
    BY MergeTaskIsTyped
  <2>2. c.m \in MergeTasks /\ SameTask(c.m, merges[id])
    BY <1>3, <2>1, AlignedTask
  <2> QED BY <2>2, ToldParent
<1>6. merges'[id].finished /\ \A i \in DOMAIN merges : i # id => merges'[i] = TellParent(c.m)[i]
  <2>1. DOMAIN TellParent(c.m) = DOMAIN merges
    BY <1>5 DEF SameTasks
  <2> QED BY <1>4, <1>5, <2>1 DEF MergeTasks
<1>7. CASE merges[id].split
  <2>1. c.m = merges[id] /\ c.M = mem
    BY <1>3, <1>7 DEF ToMerge, Aligned
  <2>2. TellParent(c.m) = merges
    BY <1>7, <2>1 DEF TellParent
  <2> QED BY <1>1, <1>2, <1>4, <1>6, <1>7, <2>1, <2>2, PieceRuns
<1>8. CASE ~merges[id].split
  <2>1. /\ Laid(c.m, c.M) /\ c.m.x_orig \in BOOLEAN /\ (merges[id].parent = Root => ~c.m.x_orig)
        /\ Lies(c.M, c.m.x_orig, Indices(id)) /\ SameBut(c.M, mem, Indices(id))
        /\ MergeInputs(c.m) = Indices(id) /\ MergeOutputs(c.m) = Indices(id)
        /\ Indices(id) \subseteq Span(0, sortN)
        /\ TellParent(c.m) = SetOdd(merges, merges[id].parent, merges[id].zs, ~c.m.x_orig)
    BY <1>1, <1>3, <1>8, ReadyToMerge
  <2>2. PICK K, M, m, orig : K = mem' /\ M = c.M /\ m = c.m /\ orig = (~c.m.x_orig)
    OBVIOUS
  <2>3. /\ m \in MergeTasks /\ m.xs <= m.xe /\ m.ys <= m.ye /\ M \in Memories /\ K = LeafMerge(M, m)
        /\ \A i \in MergeInputs(m) : IsItem(IF m.x_orig THEN M.x[i] ELSE M.z[i])
        /\ m.x_orig => \A i \in MergeOutputs(m) : M.z[i] = Raw
    BY <1>4, <2>1, <2>2 DEF Laid, Lies
  <2>4. /\ K \in Memories
        /\ \A i \in Indices(id) : IsItem(IF m.x_orig THEN K.z[i] ELSE K.x[i])
        /\ ~m.x_orig => \A i \in Indices(id) : K.z[i] = Raw
        /\ \A i \in Span(0, sortN) : i \notin Indices(id) => K.x[i] = M.x[i] /\ K.z[i] = M.z[i]
    BY <2>1, <2>2, <2>3, LeafMerges
  <2>5. SameBut(K, mem, Indices(id))
    BY <2>1, <2>2, <2>4 DEF SameBut
  <2>6. orig \in BOOLEAN /\ Lies(K, orig, Indices(id)) /\ (merges[id].parent = Root => orig)
    BY <2>1, <2>2, <2>4 DEF Lies
  <2>7. \A i \in DOMAIN merges : i # id => merges'[i] = SetOdd(merges, merges[id].parent, merges[id].zs, orig)[i]
    BY <1>6, <2>1, <2>2
  <2> QED BY <1>1, <1>2, <1>6, <1>8, <2>2, <2>4, <2>5, <2>6, <2>7, WholeMergeRuns
<1> QED BY <1>7, <1>8

\* A long merge leaves its parent to wait for its two pieces.
LEMMA MergeSplitKeeps ==
  ASSUME TreeInv, MemInv, NEW id \in DOMAIN merges, MergeSplit(id)
  PROVE  MemInv'
<1>1. ~merges[id].finished /\ Idle(MergeNode(id)) /\ sortPc' = sortPc /\ sortN' = sortN
  BY IdleTasks DEF MergeSplit, Runnable, sortInput
<1>2. PICK l, r : SplitsMerge(id, l, r)
  BY MergeSplitStep
<1>3. PICK t, p, h, c : t = MergeNode(id) /\ p = Up(t) /\ h = Home(t) /\ c = ToMerge(id)
  OBVIOUS
<1>4. PICK N : N = {MergeNode(l), MergeNode(r)}
  OBVIOUS
<1>5. /\ t \in Nodes /\ p = merges[id].parent /\ Idle(t) /\ Replaces(t, N) /\ mem' = c.M
      /\ c.m \in MergeTasks /\ SameTask(c.m, merges[id])
  <2>1. merges[id] \in MergeTasks /\ t \in Nodes /\ p = merges[id].parent
    BY <1>3, MergeTaskIsTyped
  <2>2. c.m \in MergeTasks /\ SameTask(c.m, merges[id])
    BY <1>3, <2>1, AlignedTask
  <2>3. mem' = c.M
    BY <1>3 DEF MergeSplit
  <2> QED BY <1>1, <1>2, <1>3, <1>4, <2>1, <2>2, <2>3 DEF SplitsMerge
<1>6. ASSUME NEW q \in {l, r}
      PROVE  /\ merges'[q].split /\ ~merges'[q].finished /\ merges'[q].parent = p
             /\ merges'[q].root = merges[id].root
             /\ merges'[q].x_orig = c.m.x_orig /\ merges'[q].y_orig = c.m.y_orig
             /\ Home(MergeNode(q))' = h /\ MergeNode(q) \in Nodes' /\ Child(MergeNode(q), p, h)'
             /\ In(MergeNode(q))' = MergeInputs(merges'[q]) /\ Out(MergeNode(q))' = MergeOutputs(merges'[q])
             /\ MergeInputs(merges'[q]) \subseteq MergeInputs(merges[id])
             /\ MergeOutputs(merges'[q]) \subseteq MergeOutputs(merges[id])
  <2>1. /\ merges'[q].split /\ ~merges'[q].finished /\ merges'[q].parent = p
        /\ merges'[q].root = merges[id].root
        /\ merges'[q].x_orig = c.m.x_orig /\ merges'[q].y_orig = c.m.y_orig
        /\ Home(MergeNode(q))' = h /\ q \in DOMAIN merges'
        /\ MergeInputs(merges'[q]) \subseteq MergeInputs(merges[id])
        /\ MergeOutputs(merges'[q]) \subseteq MergeOutputs(merges[id])
    BY <1>2, <1>3, <1>5 DEF SplitsMerge, SameTask
  <2>2. MergeNode(q) \in Nodes'
    BY <2>1 DEF Nodes
  <2>3. Up(MergeNode(q))' = p /\ Waits(MergeNode(q))'
    BY <2>1 DEF Up, Waits, MergeNode
  <2>4. In(MergeNode(q))' = MergeInputs(merges'[q]) /\ Out(MergeNode(q))' = MergeOutputs(merges'[q])
    BY <2>1 DEF In, Out, IsSplit, MergeNode
  <2> QED BY <2>1, <2>2, <2>3, <2>4 DEF Child
<1>7. /\ \A i \in MergeInputs(merges[id]) : \E q \in {l, r} : i \in MergeInputs(merges'[q])
      /\ \A i \in MergeOutputs(merges[id]) : \E q \in {l, r} : i \in MergeOutputs(merges'[q])
  BY <1>2 DEF SplitsMerge
<1>8. \A i \in DOMAIN merges \ {id} : merges'[i] = TellParent(c.m)[i]
  BY <1>2, <1>3 DEF SplitsMerge
<1>9. ASSUME OnlySlotsOf(t), FlagsKept(t), Delivered(p, h)', MemTypeOK', c.m.x_orig = c.m.y_orig,
             merges[id].root = (p = Root), Flag(p, h)' = ~c.m.x_orig,
             \A i \in MergeInputs(merges[id]) : IsItem(IF c.m.x_orig THEN c.M.x[i] ELSE c.M.z[i]),
             c.m.x_orig => \A i \in MergeOutputs(merges[id]) : c.M.z[i] = Raw
      PROVE  MemInv'
  <2>1. ASSUME NEW q \in {l, r} PROVE MergeReady(q)'
    <3>1. /\ merges'[q].x_orig \in BOOLEAN
          /\ Flag(merges[q].parent, Home(MergeNode(q)))' = Flag(p, h)'
      <4>1. Flag(merges[q].parent, Home(MergeNode(q)))' = Flag(p, h)'
        BY <1>6 DEF Flag, HalfX
      <4> QED BY <1>5, <1>6, <4>1 DEF MergeTasks
    <3>2. merges'[q].x_orig = (~Flag(p, h)')
      BY <1>5, <1>6, <1>9 DEF MergeTasks
    <3>3. /\ \A i \in MergeInputs(merges'[q]) : IsItem(IF merges'[q].x_orig THEN mem'.x[i] ELSE mem'.z[i])
          /\ merges'[q].x_orig => \A i \in MergeOutputs(merges'[q]) : mem'.z[i] = Raw
      BY <1>5, <1>6, <1>9
    <3> QED BY <1>6, <1>9, <3>1, <3>2, <3>3 DEF MergeReady
  <2>2. /\ \A s : SortNode(s) \in N => SortReady(s)'
        /\ \A i : MergeNode(i) \in N /\ ~merges'[i].finished => MergeReady(i)'
    <3>1. \A s : SortNode(s) \notin N
      BY <1>4 DEF SortNode, MergeNode
    <3>2. \A i : MergeNode(i) \in N => i \in {l, r}
      BY <1>4 DEF MergeNode
    <3> QED BY <2>1, <3>1, <3>2
  <2> QED BY <1>1, <1>3, <1>5, <1>9, <2>2, MemStep
<1>10. CASE merges[id].split
  <2>1. c.m = merges[id] /\ c.M = mem
    BY <1>3, <1>10 DEF ToMerge, Aligned
  <2>2. TellParent(c.m) = merges
    BY <1>10, <2>1 DEF TellParent
  <2>3. FlagsKept(t) /\ Flag(p, h)' = Flag(p, h)
    <3>1. \A i \in DOMAIN merges : t # MergeNode(i) => merges'[i] = merges[i]
      BY <1>3, <1>8, <2>2
    <3> QED BY <1>3, <1>5, <3>1, NobodyIsTold
  <2>4. MergeReady(id)
    BY <1>1 DEF MemInv
  <2>5. /\ c.m.x_orig = c.m.y_orig /\ merges[id].root = (p = Root) /\ Flag(p, h)' = ~c.m.x_orig
        /\ \A i \in MergeInputs(merges[id]) : IsItem(IF c.m.x_orig THEN c.M.x[i] ELSE c.M.z[i])
        /\ c.m.x_orig => \A i \in MergeOutputs(merges[id]) : c.M.z[i] = Raw
    <3>1. merges[id].x_orig = ~Flag(p, h) /\ merges[id].x_orig \in BOOLEAN
      BY <1>3, <1>5, <1>10, <2>1, <2>4 DEF MergeReady, MergeTasks
    <3>2. Flag(p, h) \in BOOLEAN
      <4>1. Whole(p) /\ h \in Halves(p)
        BY <1>3, <1>5, HomeIsAHalf
      <4> QED BY <4>1, MergeTaskIsTyped DEF Whole, Flag, MergeTasks
    <3> QED BY <1>3, <1>5, <1>10, <2>1, <2>3, <2>4, <3>1, <3>2 DEF MergeReady
  <2>6. OnlySlotsOf(t)
    BY <1>5, <2>1 DEF OnlySlotsOf
  <2>7. MemTypeOK'
    BY <1>1, <1>5, <2>1 DEF MemTypeOK, Memories, MemInv
  <2>8. Delivered(p, h)
    BY <1>3, <1>5, HomeIsDelivered
  <2>9. ASSUME NEW d, Child(d, p, h)
        PROVE  /\ \A i \in Out(d) : \E e : Child(e, p, h)' /\ i \in Out(e)'
               /\ \A i \in In(d) : \E e : Child(e, p, h)' /\ i \in In(e)'
    <3>1. CASE d = t
      <4>1. Out(d) = MergeOutputs(merges[id]) /\ In(d) = MergeInputs(merges[id])
        BY <1>3, <1>10, <3>1 DEF In, Out, IsSplit, MergeNode
      <4> QED BY <1>6, <1>7, <4>1
    <3>2. CASE d # t
      <4>1. d \in Nodes' /\ Kept(d) /\ (Waits(d)' <=> Waits(d)) /\ In(d)' = In(d) /\ Out(d)' = Out(d)
        BY <1>5, <2>9, <3>2, KeptSlots DEF Child
      <4> QED BY <2>9, <4>1 DEF Child, Kept
    <3> QED BY <3>1, <3>2
  <2>10. Delivered(p, h)'
    <3> SUFFICES ASSUME NEW i \in Indices(h)
                 PROVE  /\ IsItem(IF Flag(p, h)' THEN mem'.x[i] ELSE mem'.z[i]) \/ \E e : Child(e, p, h)' /\ i \in Out(e)'
                        /\ Flag(p, h)' => mem'.z[i] = Raw \/ \E e : Child(e, p, h)' /\ i \in In(e)'
      BY DEF Delivered, Indices
    <3>1. /\ IsItem(IF Flag(p, h) THEN mem.x[i] ELSE mem.z[i]) \/ \E d : Child(d, p, h) /\ i \in Out(d)
          /\ Flag(p, h) => mem.z[i] = Raw \/ \E d : Child(d, p, h) /\ i \in In(d)
      BY <2>8 DEF Delivered
    <3> QED BY <1>5, <2>1, <2>3, <2>9, <3>1
  <2> QED BY <1>9, <2>3, <2>5, <2>6, <2>7, <2>10
<1>11. CASE ~merges[id].split
  <2>1. /\ Laid(c.m, c.M) /\ c.m.x_orig = c.m.y_orig
        /\ c.m.x_orig \in BOOLEAN /\ (p = Root => ~c.m.x_orig)
        /\ Lies(c.M, c.m.x_orig, Indices(id)) /\ SameBut(c.M, mem, Indices(id))
        /\ Indices(id) \subseteq Span(0, sortN)
        /\ TellParent(c.m) = SetOdd(merges, merges[id].parent, merges[id].zs, ~c.m.x_orig)
    BY <1>1, <1>3, <1>5, <1>11, ReadyToMerge
  <2>2. /\ h = id /\ merges[id].root = (p = Root)
        /\ MergeInputs(merges[id]) = Indices(id) /\ MergeOutputs(merges[id]) = Indices(id)
    BY <1>1, <1>3, <1>5, <1>11, ReadyHalvesLie
  <2>3. PICK orig \in BOOLEAN : orig = (~c.m.x_orig)
    OBVIOUS
  <2>4. \A i \in DOMAIN merges : i # id => merges'[i] = SetOdd(merges, merges[id].parent, merges[id].zs, orig)[i]
    BY <1>8, <2>1, <2>3
  <2>5. FlagsKept(t) /\ Flag(p, h)' = IF p = Root THEN TRUE ELSE orig
    BY <1>1, <1>3, <1>11, <2>4, TheParentIsTold
  <2>6. Flag(p, h)' = ~c.m.x_orig
    BY <2>1, <2>3, <2>5
  <2>7. OnlySlotsOf(t)
    BY <1>3, <1>5, <1>11, <2>1, <2>2 DEF OnlySlotsOf, SameBut, Slots, IsSplit, MergeNode
  <2>8. MemTypeOK'
    BY <1>1, <1>5, <2>1 DEF MemTypeOK, Memories, Laid
  <2>9. Delivered(p, h)'
    <3> SUFFICES ASSUME NEW i \in Indices(h)
                 PROVE  (\E e : Child(e, p, h)' /\ i \in Out(e)') /\ (\E e : Child(e, p, h)' /\ i \in In(e)')
      BY DEF Delivered, Indices
    <3> QED BY <1>6, <1>7, <2>2
  <2>10. /\ \A i \in MergeInputs(merges[id]) : IsItem(IF c.m.x_orig THEN c.M.x[i] ELSE c.M.z[i])
         /\ c.m.x_orig => \A i \in MergeOutputs(merges[id]) : c.M.z[i] = Raw
    BY <2>1, <2>2 DEF Lies
  <2> QED BY <1>9, <2>1, <2>2, <2>5, <2>6, <2>7, <2>8, <2>9, <2>10
<1> QED BY <1>10, <1>11

\* A task that has finished can go: nobody counts on it.
LEMMA FinishKeeps ==
  ASSUME TreeInv, MemInv, NEW t \in Nodes, Idle(t), Replaces(t, {}), ~Waits(t), mem' = mem, sortPc' = sortPc,
         \A i \in DOMAIN merges : t # MergeNode(i) => merges'[i] = merges[i]
  PROVE  MemInv'
<1>1. PICK p, h, N : p = Up(t) /\ h = Home(t) /\ N = {}
  OBVIOUS
<1>2. FlagsKept(t) /\ Flag(p, h)' = Flag(p, h)
  BY <1>1, NobodyIsTold
<1>3. Replaces(t, N)
  BY <1>1
<1>4. OnlySlotsOf(t)
  BY DEF OnlySlotsOf
<1>5. MemTypeOK'
  BY DEF MemTypeOK, Memories, MemInv, Replaces
<1>6. \A c : Child(c, p, h) => Child(c, p, h)' /\ In(c)' = In(c) /\ Out(c)' = Out(c)
  BY <1>3, KeptSlots DEF Child, Kept
<1>7. Delivered(p, h)
  BY <1>1, HomeIsDelivered
<1>8. Delivered(p, h)'
  <2> SUFFICES ASSUME NEW i \in Indices(h)
               PROVE  /\ IsItem(IF Flag(p, h)' THEN mem'.x[i] ELSE mem'.z[i]) \/ \E c : Child(c, p, h)' /\ i \in Out(c)'
                      /\ Flag(p, h)' => mem'.z[i] = Raw \/ \E c : Child(c, p, h)' /\ i \in In(c)'
    BY DEF Delivered, Indices
  <2> QED BY <1>2, <1>6, <1>7 DEF Delivered
<1>9. /\ \A s : SortNode(s) \in N => SortReady(s)'
      /\ \A i : MergeNode(i) \in N /\ ~merges'[i].finished => MergeReady(i)'
  BY <1>1
<1> QED BY <1>1, <1>2, <1>3, <1>4, <1>5, <1>8, <1>9, MemStep

LEMMA FinishSortKeeps ==
  ASSUME TreeInv, MemInv, NEW s \in sorts, FinishSort(s)
  PROVE  MemInv'
<1>1. SortNode(s) \in Nodes /\ Idle(SortNode(s)) /\ Replaces(SortNode(s), {})
  BY SortTaskIsTyped, IdleTasks, FinishSortStep
<1>2. ~Waits(SortNode(s)) /\ mem' = mem /\ sortPc' = sortPc /\ merges' = merges
  BY DEF FinishSort, Waits, SortNode
<1> QED BY <1>1, <1>2, FinishKeeps

LEMMA FinishMergeKeeps ==
  ASSUME TreeInv, MemInv, NEW id \in DOMAIN merges, FinishMerge(id)
  PROVE  MemInv'
<1>1. MergeNode(id) \in Nodes /\ Idle(MergeNode(id)) /\ Replaces(MergeNode(id), {})
  BY MergeTaskIsTyped, IdleTasks, FinishMergeStep DEF FinishMerge
<1>2. ~Waits(MergeNode(id)) /\ mem' = mem /\ sortPc' = sortPc
  BY DEF FinishMerge, Waits, MergeNode
<1>3. \A i \in DOMAIN merges : MergeNode(id) # MergeNode(i) => merges'[i] = merges[i]
  BY DEF FinishMerge
<1> QED BY <1>1, <1>2, <1>3, FinishKeeps

\* A leaf permutes objects that lie in x.
LEMMA SortLeafKeeps ==
  ASSUME TreeInv, MemInv, NEW s \in sorts, SortLeaf(s)
  PROVE  MemInv'
<1>1. PICK t, p, h, f, N : /\ t = SortNode(s) /\ p = Up(t) /\ h = Home(t)
                           /\ f = [s EXCEPT !.finished = TRUE] /\ N = {SortNode(f)}
  OBVIOUS
<1>2. /\ t \in Nodes /\ Idle(t) /\ Replaces(t, N) /\ p = s.parent /\ h = <<s.lo, s.hi>> /\ ~IsSplit(t)
      /\ s \in SortTasks
  BY <1>1, SortTaskIsTyped, IdleTasks, SortLeafStep DEF IsSplit, SortNode
<1>3. f.lo = s.lo /\ f.hi = s.hi /\ f.parent = s.parent /\ f.root = s.root
  BY <1>1, <1>2 DEF SortTasks
<1>4. sortPc' = sortPc /\ merges' = merges /\ sortN' = sortN
  BY DEF SortLeaf, sortInput
<1>5. FlagsKept(t) /\ Flag(p, h)' = Flag(p, h)
  BY <1>1, <1>2, <1>4, NobodyIsTold
<1>6. SortReady(s) /\ mem \in Memories /\ Indices(h) \subseteq Span(0, sortN)
  BY <1>1, <1>2, SlotsOfTasks DEF MemInv, MemTypeOK
<1>7. Indices(h) = Span(s.lo, s.hi)
  BY <1>2 DEF Indices
<1>8. PICK q \in [Span(s.lo, s.hi) -> Span(s.lo, s.hi)] :
        mem' = [mem EXCEPT !.x = [i \in Span(0, sortN) |-> IF i \in Span(s.lo, s.hi) THEN mem.x[q[i]] ELSE mem.x[i]]]
  BY DEF SortLeaf, LeafOrders
<1>9. PICK K : K = mem'
  OBVIOUS
<1>10. /\ K \in Memories /\ K.z = mem.z
       /\ \A i \in Span(s.lo, s.hi) : IsItem(K.x[i])
       /\ \A i \in Span(0, sortN) : i \notin Span(s.lo, s.hi) => K.x[i] = mem.x[i]
  <2> DEFINE I == Span(0, sortN)
             S == Span(s.lo, s.hi)
  <2>1. /\ mem.x \in [I -> Values] /\ mem.z \in [I -> Values] /\ mem.ok = TRUE
        /\ mem = [x |-> mem.x, z |-> mem.z, ok |-> mem.ok]
    BY <1>6 DEF Memories
  <2>2. \A i \in S : q[i] \in S /\ q[i] \in I /\ i \in I /\ IsItem(mem.x[q[i]])
    BY <1>6, <1>7, <1>8 DEF SortReady
  <2>3. /\ K.x = [i \in I |-> IF i \in S THEN mem.x[q[i]] ELSE mem.x[i]] /\ K.z = mem.z /\ K.ok = TRUE
        /\ K = [x |-> K.x, z |-> K.z, ok |-> K.ok]
    BY <1>8, <1>9, <2>1
  <2> HIDE DEF I, S
  <2>4. K.x \in [I -> Values]
    BY <2>1, <2>2, <2>3
  <2>5. K \in Memories
    BY <2>1, <2>3, <2>4 DEF Memories, I
  <2> QED BY <2>2, <2>3, <2>5 DEF I, S
<1>11. OnlySlotsOf(t)
  BY <1>1, <1>2, <1>7, <1>9, <1>10 DEF OnlySlotsOf, Slots
<1>12. MemTypeOK'
  BY <1>4, <1>9, <1>10 DEF MemTypeOK, Memories
<1>13. Flag(p, h)'
  BY <1>2, <1>5, <1>6 DEF SortReady
<1>14. \A i \in Indices(h) : IsItem(mem'.x[i]) /\ mem'.z[i] = Raw
  BY <1>6, <1>7, <1>9, <1>10 DEF SortReady
<1>15. Delivered(p, h)'
  BY <1>13, <1>14 DEF Delivered, Indices
<1>16. SortReady(f)'
  <2>1. Flag(f.parent, <<f.lo, f.hi>>)' = Flag(p, h)'
    BY <1>2, <1>3 DEF Flag, HalfX
  <2> QED BY <1>3, <1>6, <1>7, <1>13, <1>14, <2>1 DEF SortReady
<1>17. /\ \A g : SortNode(g) \in N => SortReady(g)'
       /\ \A i : MergeNode(i) \in N /\ ~merges'[i].finished => MergeReady(i)'
  <2>1. \A g : SortNode(g) \in N => g = f
    BY <1>1 DEF SortNode
  <2>2. \A i : MergeNode(i) \notin N
    BY <1>1 DEF SortNode, MergeNode
  <2> QED BY <1>16, <2>1, <2>2
<1> QED BY <1>1, <1>2, <1>4, <1>5, <1>11, <1>12, <1>15, <1>17, MemStep

\* A sort that is split leaves everything where it is.
LEMMA SortSplitKeeps ==
  ASSUME TreeInv, MemInv, NEW s \in sorts, SortSplit(s)
  PROVE  MemInv'
<1>1. PICK id, h1, h2 : SplitsSort(s, id, h1, h2)
  BY SortSplitStep
<1>2. PICK t, p, h, N : /\ t = SortNode(s) /\ p = Up(t) /\ h = Home(t)
                        /\ N = {MergeNode(id), SortNode(h1), SortNode(h2)}
  OBVIOUS
<1>3. /\ t \in Nodes /\ Idle(t) /\ Replaces(t, N) /\ p = s.parent /\ h = <<s.lo, s.hi>> /\ ~IsSplit(t)
      /\ s \in SortTasks
  BY <1>1, <1>2, SortTaskIsTyped, IdleTasks DEF IsSplit, SortNode, SplitsSort
<1>4. sortPc' = sortPc /\ mem' = mem /\ sortN' = sortN
  BY DEF SortSplit, sortInput
<1>5. FlagsKept(t) /\ Flag(p, h)' = Flag(p, h)
  <2>1. \A i \in DOMAIN merges : t # MergeNode(i) => merges'[i] = merges[i]
    BY <1>1 DEF SplitsSort
  <2> QED BY <1>2, <1>3, <2>1, NobodyIsTold
<1>6. SortReady(s) /\ mem \in Memories
  BY DEF MemInv, MemTypeOK
<1>7. OnlySlotsOf(t) /\ MemTypeOK'
  BY <1>4, <1>6 DEF OnlySlotsOf, MemTypeOK, Memories
<1>8. Flag(p, h)'
  BY <1>3, <1>5, <1>6 DEF SortReady
<1>9. Delivered(p, h)'
  BY <1>3, <1>4, <1>6, <1>8 DEF Delivered, Indices, SortReady
<1>10. id # Root /\ id = <<s.lo, s.hi>>
  BY <1>1, <1>3 DEF SplitsSort, SortTasks, Root
<1>11. \A k : Flag(id, k)' = TRUE
  BY <1>1, <1>10 DEF SplitsSort, Flag
<1>12. ASSUME NEW g \in {h1, h2}
       PROVE  /\ ~g.root /\ g.parent = id
              /\ \A i \in Span(g.lo, g.hi) : IsItem(mem.x[i]) /\ mem.z[i] = Raw
  <2>1. ~g.root /\ g.parent = id
    BY <1>1 DEF SplitsSort
  <2>2. Span(g.lo, g.hi) \subseteq Span(s.lo, s.hi)
    BY <1>1, <1>3 DEF SplitsSort, SortTasks, Span
  <2> QED BY <1>6, <2>1, <2>2 DEF SortReady
<1>13. ASSUME NEW g \in {h1, h2}
       PROVE  SortReady(g)'
  <2>1. Flag(g.parent, <<g.lo, g.hi>>)'
    BY <1>11, <1>12 DEF Flag
  <2>2. g.root = FALSE /\ g.parent # Root
    BY <1>1, <1>10, <1>12 DEF SplitsSort, SortTasks
  <2> QED BY <1>4, <1>12, <2>1, <2>2 DEF SortReady
<1>14. MergeReady(id)'
  <2>1. PICK k1, k2 : k1 = <<h1.lo, h1.hi>> /\ k2 = <<h2.lo, h2.hi>>
    OBVIOUS
  <2>2. Delivered(id, k1)' /\ Delivered(id, k2)'
    BY <1>4, <1>11, <1>12, <2>1 DEF Delivered, Indices
  <2>3. HalfX(id)' = k1 /\ HalfY(id)' = k2
    BY <1>1, <2>1 DEF SplitsSort
  <2>4. Delivered(id, HalfX(id))' /\ Delivered(id, HalfY(id))'
    BY <2>2, <2>3 DEF Delivered, Child, Flag, HalfX, HalfY, Indices
  <2> QED BY <1>1, <1>6, <2>4 DEF SplitsSort, MergeReady, SortReady
<1>15. /\ \A g : SortNode(g) \in N => SortReady(g)'
       /\ \A i : MergeNode(i) \in N /\ ~merges'[i].finished => MergeReady(i)'
  <2>1. \A g : SortNode(g) \in N => g \in {h1, h2}
    BY <1>2 DEF SortNode, MergeNode
  <2>2. \A i : MergeNode(i) \in N => i = id
    BY <1>2 DEF SortNode, MergeNode
  <2> QED BY <1>13, <1>14, <2>1, <2>2
<1> QED BY <1>2, <1>3, <1>4, <1>5, <1>7, <1>9, <1>15, MemStep

\* Where no task has started or none is left.
LEMMA NoNodes ==
  ASSUME TreeInv, sortPc = "begin" \/ (sortPc = "wait" /\ refcount[Root] = 0)
  PROVE  Nodes = {}
<1>1. CASE sortPc = "begin"
  <2>1. sorts = {} /\ DOMAIN merges = {}
    BY <1>1 DEF TreeInv, TreeTypeOK
  <2> QED BY <2>1 DEF Nodes
<1>2. CASE Root \notin DOMAIN refcount
  <2>1. sorts = {} /\ DOMAIN merges = {}
    BY <1>2 DEF TreeInv, TreeTypeOK
  <2> QED BY <2>1 DEF Nodes
<1>3. CASE Root \in DOMAIN refcount /\ refcount[Root] = 0
  <2>1. refcount[Root] = Cardinality(KidSorts(Root)) + Cardinality(KidMerges(Root))
    BY <1>3 DEF TreeInv, CountsChildren, KidSorts, KidMerges
  <2>2. Cardinality(KidSorts(Root)) = 0 /\ Cardinality(KidMerges(Root)) = 0
    BY <1>3, <2>1, KidsAreFinite DEF TreeInv
  <2>3. KidSorts(Root) = {} /\ KidMerges(Root) = {}
    BY <2>2, KidsAreFinite, FS_EmptySet DEF TreeInv
  <2>4. \A c \in Nodes : Up(c) # Root
    BY <2>3 DEF Nodes, Up, SortNode, MergeNode, KidSorts, KidMerges
  <2> QED BY <2>4 DEF TreeInv, Rooted
<1> QED BY <1>1, <1>2, <1>3

LEMMA MemoryStarts == SortInit => MemInv
<1> SUFFICES ASSUME SortInit PROVE MemInv
  OBVIOUS
<1>1. PICK key \in [Span(0, sortN) -> SortKeys] :
        mem = [x |-> [i \in Span(0, sortN) |-> <<key[i], i>>], z |-> [i \in Span(0, sortN) |-> Raw], ok |-> TRUE]
  BY DEF SortInit
<1>2. \A i \in Span(0, sortN) : key[i] \in Nat /\ key[i] > 0 /\ i \in Nat
  <2>1. \A i \in Span(0, sortN) : key[i] \in Nat \ {0}
    BY SortAssumption
  <2>2. sortN \in Nat
    BY SortAssumption DEF SortInit
  <2>3. \A i \in Span(0, sortN) : i \in Nat
    BY <2>2 DEF Span
  <2> QED BY <2>1, <2>3
<1>3. mem.x = [i \in Span(0, sortN) |-> <<key[i], i>>] /\ mem.z = [i \in Span(0, sortN) |-> Raw] /\ mem.ok = TRUE
  BY <1>1
<1>4. \A i \in Span(0, sortN) : mem.x[i] \in Values /\ IsItem(mem.x[i]) /\ mem.z[i] = Raw
  BY <1>2, <1>3 DEF Values, IsItem
<1>5. MemTypeOK
  <2>1. Raw \in Values
    BY DEF Raw, Values
  <2>2. mem.x \in [Span(0, sortN) -> Values] /\ mem.z \in [Span(0, sortN) -> Values]
    BY <1>3, <1>4, <2>1
  <2> QED BY <1>1, <1>3, <2>2 DEF MemTypeOK, Memories
<1>6. Delivered(Root, <<0, sortN>>)
  BY <1>4 DEF Delivered, Flag, Indices
<1>7. sorts = {} /\ DOMAIN merges = {} /\ Nodes = {}
  BY DEF SortInit, Nodes
<1> QED BY <1>5, <1>6, <1>7 DEF MemInv

\* A short range is sorted in place.
LEMMA SerialSortKeeps ==
  ASSUME TreeInv, MemInv, SerialSort
  PROVE  MemInv'
<1>1. Nodes = {} /\ sorts' = sorts /\ merges' = merges /\ sortN' = sortN
  BY NoNodes DEF SerialSort, sortInput
<1>2. sorts' = {} /\ DOMAIN merges' = {} /\ Nodes' = {}
  BY <1>1 DEF Nodes
<1>3. PICK q \in [Span(0, sortN) -> Span(0, sortN)] :
        mem' = [mem EXCEPT !.x = [i \in Span(0, sortN) |-> mem.x[q[i]]]]
  BY DEF SerialSort, LeafOrders
<1>4. \A i \in Span(0, sortN) : IsItem(mem.x[i]) /\ mem.z[i] = Raw
  BY <1>1 DEF MemInv, Delivered, Flag, Child, Indices
<1>5. /\ mem.x \in [Span(0, sortN) -> Values] /\ mem.z \in [Span(0, sortN) -> Values] /\ mem.ok = TRUE
      /\ mem = [x |-> mem.x, z |-> mem.z, ok |-> mem.ok]
  BY DEF MemInv, MemTypeOK, Memories
<1>6. /\ mem'.x = [i \in Span(0, sortN) |-> mem.x[q[i]]] /\ mem'.z = mem.z /\ mem'.ok = TRUE
      /\ mem' = [x |-> mem'.x, z |-> mem'.z, ok |-> mem'.ok]
  BY <1>3, <1>5
<1>7. MemTypeOK'
  <2>1. mem'.x \in [Span(0, sortN) -> Values]
    BY <1>5, <1>6
  <2> QED BY <1>1, <1>5, <1>6, <2>1 DEF MemTypeOK, Memories
<1>8. Delivered(Root, <<0, sortN>>)'
  BY <1>1, <1>4, <1>6 DEF Delivered, Flag, Indices
<1> QED BY <1>2, <1>7, <1>8 DEF MemInv

LEMMA SpawnRootKeeps ==
  ASSUME TreeInv, MemInv, SpawnRoot
  PROVE  MemInv'
<1>1. Nodes = {} /\ merges' = merges /\ sortN' = sortN /\ mem' = mem /\ sortPc' = "wait"
  BY NoNodes DEF SpawnRoot, sortInput
<1>2. PICK s : s = [lo |-> 0, hi |-> sortN, root |-> TRUE, parent |-> Root, finished |-> FALSE]
  OBVIOUS
<1>3. sorts' = {s} /\ DOMAIN merges' = {} /\ s.lo = 0 /\ s.hi = sortN /\ s.root = TRUE /\ s.parent = Root
  BY <1>1, <1>2 DEF SpawnRoot, Nodes
<1>4. \A i \in Span(0, sortN) : IsItem(mem.x[i]) /\ mem.z[i] = Raw
  BY <1>1 DEF MemInv, Delivered, Flag, Child, Indices
<1>5. Delivered(Root, <<0, sortN>>)'
  BY <1>1, <1>4 DEF Delivered, Flag, Indices
<1>6. SortReady(s)'
  BY <1>1, <1>3, <1>4 DEF SortReady, Flag
<1>7. MemTypeOK'
  BY <1>1 DEF MemInv, MemTypeOK, Memories
<1> QED BY <1>1, <1>3, <1>5, <1>6, <1>7 DEF MemInv

\* A step that touches neither memory nor tasks.
LEMMA MemoryIsKept ==
  ASSUME MemInv, sortN' = sortN, mem' = mem, sorts' = sorts, merges' = merges, sortPc' = "done" => Nodes = {}
  PROVE  MemInv'
<1>1. Nodes' = Nodes
  BY DEF Nodes
<1>2. \A p, h : Flag(p, h)' = Flag(p, h)
  BY DEF Flag, HalfX
<1>3. \A t : /\ Home(t)' = Home(t) /\ Up(t)' = Up(t) /\ (Waits(t)' <=> Waits(t))
             /\ In(t)' = In(t) /\ Out(t)' = Out(t)
  BY DEF Home, HalfAt, HalfX, HalfY, Up, Waits, In, Out, IsSplit, Indices
<1>4. \A c, p, h : Child(c, p, h)' <=> Child(c, p, h)
  BY <1>1, <1>3 DEF Child
<1>5. \A p, h : Delivered(p, h)' <=> Delivered(p, h)
  BY <1>2, <1>3, <1>4 DEF Delivered, Indices
<1>6. \A s : SortReady(s)' <=> SortReady(s)
  BY <1>2 DEF SortReady
<1>7. ASSUME NEW id \in DOMAIN merges, MergeReady(id) PROVE MergeReady(id)'
  <2>1. PICK hx, hy, p, h : /\ hx = HalfX(id) /\ hy = HalfY(id)
                            /\ p = merges[id].parent /\ h = Home(MergeNode(id))
    OBVIOUS
  <2>2. HalfX(id)' = hx /\ HalfY(id)' = hy /\ merges'[id].parent = p /\ Home(MergeNode(id))' = h
    BY <1>3, <2>1 DEF HalfX, HalfY
  <2>3. ~merges[id].split => Delivered(id, hx)' /\ Delivered(id, hy)'
    BY <1>5, <1>7, <2>1 DEF MergeReady
  <2>4. ~merges'[id].split => Delivered(id, HalfX(id))' /\ Delivered(id, HalfY(id))'
    BY <2>2, <2>3 DEF Delivered, Child, Flag, HalfX, HalfY, Indices
  <2>5. Flag(merges[id].parent, Home(MergeNode(id)))' = Flag(merges[id].parent, Home(MergeNode(id)))
    <3>1. Flag(p, h)' = Flag(p, h)
      BY <1>2
    <3>2. Flag(merges[id].parent, Home(MergeNode(id)))' = Flag(p, h)'
      BY <2>2 DEF Flag, HalfX
    <3> QED BY <2>1, <3>1, <3>2
  <2> QED BY <1>7, <2>4, <2>5 DEF MergeReady
<1>8. MemTypeOK' /\ Delivered(Root, <<0, sortN>>)'
  <2>1. PICK k : k = <<0, sortN>>
    OBVIOUS
  <2>2. Delivered(Root, k)'
    BY <1>5, <2>1 DEF MemInv
  <2>3. Delivered(Root, <<0, sortN>>)'
    BY <2>1, <2>2 DEF Delivered, Child, Flag, HalfX, Indices
  <2> QED BY <2>3 DEF MemInv, MemTypeOK, Memories
<1> QED BY <1>1, <1>6, <1>7, <1>8 DEF MemInv

LEMMA MemoryGoesOn == TreeInv /\ MemInv /\ [SortNext]_sortVars => MemInv'
<1> SUFFICES ASSUME TreeInv, MemInv, [SortNext]_sortVars PROVE MemInv'
  OBVIOUS
<1>1. CASE SerialSort
  BY <1>1, SerialSortKeeps
<1>2. CASE SpawnRoot
  BY <1>2, SpawnRootKeeps
<1>3. CASE SortReturn
  BY <1>3, NoNodes, MemoryIsKept DEF SortReturn, sortInput
<1>4. ASSUME NEW s \in sorts, SortLeaf(s) \/ SortSplit(s) \/ FinishSort(s)
      PROVE  MemInv'
  BY <1>4, SortLeafKeeps, SortSplitKeeps, FinishSortKeeps
<1>5. ASSUME NEW id \in DOMAIN merges,
             MergeInOrder(id) \/ MergeRanges(id) \/ MergeSplit(id) \/ FinishMerge(id)
      PROVE  MemInv'
  BY <1>5, MergeInOrderKeeps, MergeRangesKeeps, MergeSplitKeeps, FinishMergeKeeps
<1>6. CASE UNCHANGED sortVars
  <2>1. sortN' = sortN /\ mem' = mem /\ sorts' = sorts /\ merges' = merges /\ sortPc' = sortPc
    BY <1>6 DEF sortVars, sortInput
  <2>2. sortPc' = "done" => Nodes = {}
    BY <2>1 DEF MemInv
  <2> QED BY <2>1, <2>2, MemoryIsKept
<1> QED BY <1>1, <1>2, <1>3, <1>4, <1>5, <1>6 DEF SortNext

\* In a sort no object is constructed over another, read after it was moved or
\* destroyed twice, and none is left in the buffer; a merge's halves lie where its
\* flags say when its children are done (parallel_backend_tbb.h:897-966, 1003-1012).
THEOREM SortTasksKeepLifetimes == SortSpec => []SortKeepsLifetimes
<1>1. SortInit => TreeInv /\ MemInv
  BY SortStarts, MemoryStarts
<1>2. TreeInv /\ MemInv /\ [SortNext]_sortVars => MemInv'
  BY MemoryGoesOn
<1>3. TreeInv /\ MemInv => SortKeepsLifetimes
  <2> SUFFICES ASSUME TreeInv, MemInv PROVE SortKeepsLifetimes
    OBVIOUS
  <2>1. mem.ok
    BY DEF MemInv, MemTypeOK, Memories
  <2>2. ASSUME sortPc = "done" PROVE \A i \in Span(0, sortN) : mem.z[i] = Raw
    BY <2>2 DEF MemInv, Delivered, Flag, Child, Indices
  <2>3. ASSUME NEW id \in DOMAIN merges, Runnable(id)
        PROVE  /\ \A i \in Span(merges[id].xs, merges[id].xe) : IsItem(IF merges[id].x_orig THEN mem.x[i] ELSE mem.z[i])
               /\ \A i \in Span(merges[id].ys, merges[id].ye) : IsItem(IF merges[id].y_orig THEN mem.x[i] ELSE mem.z[i])
    <3>1. ~merges[id].finished /\ Idle(MergeNode(id)) /\ MergeReady(id)
      BY <2>3, IdleTasks DEF Runnable, MemInv
    <3>2. CASE merges[id].split
      BY <3>1, <3>2 DEF MergeReady, MergeInputs
    <3>3. CASE ~merges[id].split
      <4>1. Laid(merges[id], mem)
        BY <3>1, <3>3, ReadyHalvesLie
      <4> QED BY <4>1 DEF Laid, HalvesLie, Lies, MergeTasks
    <3> QED BY <3>2, <3>3
  <2> QED BY <2>1, <2>2, <2>3 DEF SortKeepsLifetimes, FlagsTellWhere
<1>4. SortSpec => []TreeInv
  BY TasksFormATree
<1> QED BY <1>1, <1>2, <1>3, <1>4, PTL DEF SortSpec

-------------------------------------------------------------------------------
(* What the stable sort returns is in order, whatever the elements, the length, *)
(* the cut-offs and the order in which tasks run.                               *)

(* The order of a sort: a may come before b in its result.                     *)
Prec(a, b) == a[1] < b[1] \/ (a[1] = b[1] /\ (stable => a[2] <= b[2]))

LEMMA PrecIsAnOrder ==
  ASSUME NEW a \in Items, NEW b \in Items
  PROVE  /\ Prec(a, a)
         /\ \A c \in Items : Prec(a, b) /\ Prec(b, c) => Prec(a, c)
         /\ Less(a, b) => Prec(a, b)
         /\ ~Less(b, a) /\ (stable => a[2] < b[2]) => Prec(a, b)
BY DEF Prec, Less, Items, Values

(* What __serial_move_merge outputs from the place <<i, j>> on comes from X     *)
(* after i and from Y after j. Each output is taken at a place of its own: the  *)
(* first of X there, or of Y, and for the first nmerge the one that goes first. *)
From(X, Y, i, j, v) == \/ \E a \in 1..Len(X) : a > i /\ v = X[a]
                       \/ \E b \in 1..Len(Y) : b > j /\ v = Y[b]
TakesX(X, Y, nmerge, i, j) == i < Len(X) /\ (i + j < nmerge /\ j < Len(Y) => ~Less(Y[j + 1], X[i + 1]))
TakesY(X, Y, nmerge, i, j) == j < Len(Y) /\ (i + j < nmerge /\ i < Len(X) => Less(Y[j + 1], X[i + 1]))
TakenAt(X, Y, nmerge, i, j, o, r) ==
  \/ /\ TakesX(X, Y, nmerge, i, j) /\ o[r] = X[i + 1]
     /\ \A q \in 1..Len(o) : q > r => From(X, Y, i + 1, j, o[q])
  \/ /\ TakesY(X, Y, nmerge, i, j) /\ o[r] = Y[j + 1]
     /\ \A q \in 1..Len(o) : q > r => From(X, Y, i, j + 1, o[q])
Traced(X, Y, nmerge, i, j, o) ==
  \A r \in 1..Len(o) : \E a \in i..Len(X), b \in j..Len(Y) :
    a + b + 1 = i + j + r /\ TakenAt(X, Y, nmerge, a, b, o, r)

LEMMA TracedComesFrom ==
  ASSUME NEW X, NEW Y, NEW nmerge, NEW nx \in Nat, NEW ny \in Nat, nx = Len(X), ny = Len(Y),
         NEW i \in 0..nx, NEW j \in 0..ny, NEW o, Traced(X, Y, nmerge, i, j, o), NEW r \in 1..Len(o)
  PROVE  From(X, Y, i, j, o[r])
<1>1. PICK a \in i..nx, b \in j..ny : TakenAt(X, Y, nmerge, a, b, o, r)
  BY DEF Traced
<1> QED BY <1>1 DEF TakenAt, TakesX, TakesY, From

\* The rest of one sequence and then of the other, when there is nothing to choose.
InARow(X, Y, nx, ny, i, j, n, o) ==
  \/ \A r \in 1..n : o[r] = IF r <= ny - j THEN Y[j + r] ELSE X[i + r - (ny - j)]
  \/ \A r \in 1..n : o[r] = IF r <= nx - i THEN X[i + r] ELSE Y[j + r - (nx - i)]

LEMMA RestsAreTraced ==
  ASSUME NEW X, NEW Y, NEW nmerge, NEW nx \in Nat, NEW ny \in Nat, nx = Len(X), ny = Len(Y),
         NEW i \in 0..nx, NEW j \in 0..ny, i = nx \/ j = ny \/ ~(i + j < nmerge), nmerge \in Nat,
         NEW o, NEW n \in Nat, Len(o) = n, n = (nx - i) + (ny - j),
         InARow(X, Y, nx, ny, i, j, n, o)
  PROVE  Traced(X, Y, nmerge, i, j, o)
<1> SUFFICES ASSUME NEW r \in 1..n
             PROVE  \E a \in i..nx, b \in j..ny : a + b + 1 = i + j + r /\ TakenAt(X, Y, nmerge, a, b, o, r)
  BY DEF Traced
<1>1. CASE \A q \in 1..n : o[q] = IF q <= ny - j THEN Y[j + q] ELSE X[i + q - (ny - j)]
  <2>1. CASE r <= ny - j
    <3>1. PICK b \in j..ny : b = j + r - 1
      BY <2>1
    <3>2. TakesY(X, Y, nmerge, i, b) /\ o[r] = Y[b + 1]
      <4>1. o[r] = Y[j + r] /\ j + r = b + 1
        BY <1>1, <2>1, <3>1
      <4>2. TakesY(X, Y, nmerge, i, b)
        BY <2>1, <3>1 DEF TakesY
      <4> QED BY <4>1, <4>2
    <3>3. ASSUME NEW q \in 1..n, q > r PROVE From(X, Y, i, b + 1, o[q])
      <4>1. CASE q <= ny - j
        <5>1. j + q \in 1..ny /\ j + q > b + 1 /\ o[q] = Y[j + q]
          BY <1>1, <3>1, <3>3, <4>1
        <5> QED BY <5>1 DEF From
      <4>2. CASE ~(q <= ny - j)
        <5>1. i + q - (ny - j) \in 1..nx /\ i + q - (ny - j) > i /\ o[q] = X[i + q - (ny - j)]
          BY <1>1, <4>2
        <5> QED BY <5>1 DEF From
      <4> QED BY <4>1, <4>2
    <3>4. TakenAt(X, Y, nmerge, i, b, o, r)
      BY <3>2, <3>3 DEF TakenAt
    <3>5. i + b + 1 = i + j + r /\ i \in i..nx
      BY <3>1
    <3> QED BY <3>4, <3>5
  <2>2. CASE ~(r <= ny - j)
    <3>1. PICK a \in i..nx : a = i + r - (ny - j) - 1
      <4>1. i + r - (ny - j) - 1 \in i..nx
        BY <2>2
      <4> QED BY <4>1
    <3>2. TakesX(X, Y, nmerge, a, ny) /\ o[r] = X[a + 1]
      BY SMTT(30), <1>1, <2>2, <3>1 DEF TakesX
    <3>3. ASSUME NEW q \in 1..n, q > r PROVE From(X, Y, a + 1, ny, o[q])
      <4>1. i + q - (ny - j) \in 1..nx /\ i + q - (ny - j) > a + 1 /\ o[q] = X[i + q - (ny - j)]
        BY SMTT(30), <1>1, <2>2, <3>1, <3>3
      <4> QED BY <4>1 DEF From
    <3>4. TakenAt(X, Y, nmerge, a, ny, o, r)
      BY <3>2, <3>3 DEF TakenAt
    <3>5. a + ny + 1 = i + j + r /\ ny \in j..ny
      BY <3>1
    <3> QED BY <3>4, <3>5
  <2> QED BY <2>1, <2>2
<1>2. CASE \A q \in 1..n : o[q] = IF q <= nx - i THEN X[i + q] ELSE Y[j + q - (nx - i)]
  <2>1. CASE r <= nx - i
    <3>1. PICK a \in i..nx : a = i + r - 1
      BY <2>1
    <3>2. TakesX(X, Y, nmerge, a, j) /\ o[r] = X[a + 1]
      <4>1. o[r] = X[i + r] /\ i + r = a + 1
        BY <1>2, <2>1, <3>1
      <4>2. TakesX(X, Y, nmerge, a, j)
        BY <2>1, <3>1 DEF TakesX
      <4> QED BY <4>1, <4>2
    <3>3. ASSUME NEW q \in 1..n, q > r PROVE From(X, Y, a + 1, j, o[q])
      <4>1. CASE q <= nx - i
        <5>1. i + q \in 1..nx /\ i + q > a + 1 /\ o[q] = X[i + q]
          BY <1>2, <3>1, <3>3, <4>1
        <5> QED BY <5>1 DEF From
      <4>2. CASE ~(q <= nx - i)
        <5>1. j + q - (nx - i) \in 1..ny /\ j + q - (nx - i) > j /\ o[q] = Y[j + q - (nx - i)]
          BY <1>2, <4>2
        <5> QED BY <5>1 DEF From
      <4> QED BY <4>1, <4>2
    <3>4. TakenAt(X, Y, nmerge, a, j, o, r)
      BY <3>2, <3>3 DEF TakenAt
    <3>5. a + j + 1 = i + j + r /\ j \in j..ny
      BY <3>1
    <3> QED BY <3>4, <3>5
  <2>2. CASE ~(r <= nx - i)
    <3>1. PICK b \in j..ny : b = j + r - (nx - i) - 1
      <4>1. j + r - (nx - i) - 1 \in j..ny
        BY <2>2
      <4> QED BY <4>1
    <3>2. TakesY(X, Y, nmerge, nx, b) /\ o[r] = Y[b + 1]
      BY SMTT(30), <1>2, <2>2, <3>1 DEF TakesY
    <3>3. ASSUME NEW q \in 1..n, q > r PROVE From(X, Y, nx, b + 1, o[q])
      <4>1. j + q - (nx - i) \in 1..ny /\ j + q - (nx - i) > b + 1 /\ o[q] = Y[j + q - (nx - i)]
        BY SMTT(30), <1>2, <2>2, <3>1, <3>3
      <4> QED BY <4>1 DEF From
    <3>4. TakenAt(X, Y, nmerge, nx, b, o, r)
      BY <3>2, <3>3 DEF TakenAt
    <3>5. nx + b + 1 = i + j + r /\ nx \in i..nx
      BY <3>1
    <3> QED BY <3>4, <3>5
  <2> QED BY <2>1, <2>2
<1> QED BY <1>1, <1>2 DEF InARow

\* An output put before what follows from the next place.
LEMMA OutputsAreTraced ==
  ASSUME NEW X, NEW Y, NEW nmerge, NEW nx \in Nat, NEW ny \in Nat, nx = Len(X), ny = Len(Y),
         NEW i \in 0..nx, NEW j \in 0..ny, NEW o, NEW f, NEW n \in Nat, Len(f) = n, Len(o) = n + 1,
         \A r \in 1..n : o[r + 1] = f[r],
         \/ TakesX(X, Y, nmerge, i, j) /\ o[1] = X[i + 1] /\ Traced(X, Y, nmerge, i + 1, j, f)
         \/ TakesY(X, Y, nmerge, i, j) /\ o[1] = Y[j + 1] /\ Traced(X, Y, nmerge, i, j + 1, f)
  PROVE  Traced(X, Y, nmerge, i, j, o)
<1>1. PICK c \in 0..1, d \in 0..1 :
        /\ c + d = 1 /\ i + c <= nx /\ j + d <= ny /\ Traced(X, Y, nmerge, i + c, j + d, f)
        /\ \/ c = 1 /\ TakesX(X, Y, nmerge, i, j) /\ o[1] = X[i + 1]
           \/ d = 1 /\ TakesY(X, Y, nmerge, i, j) /\ o[1] = Y[j + 1]
  <2>1. CASE TakesX(X, Y, nmerge, i, j) /\ o[1] = X[i + 1] /\ Traced(X, Y, nmerge, i + 1, j, f)
    <3>1. i + 1 <= nx /\ j + 0 = j
      BY <2>1 DEF TakesX
    <3> QED BY <2>1, <3>1
  <2>2. CASE TakesY(X, Y, nmerge, i, j) /\ o[1] = Y[j + 1] /\ Traced(X, Y, nmerge, i, j + 1, f)
    <3>1. j + 1 <= ny /\ i + 0 = i
      BY <2>2 DEF TakesY
    <3> QED BY <2>2, <3>1
  <2> QED BY <2>1, <2>2
<1>2. \A q \in 1..(n + 1) : q > 1 => o[q] = f[q - 1] /\ q - 1 \in 1..n
  <2> SUFFICES ASSUME NEW q \in 1..(n + 1), q > 1 PROVE o[q] = f[q - 1] /\ q - 1 \in 1..n
    OBVIOUS
  <2>1. q - 1 \in 1..n /\ (q - 1) + 1 = q
    OBVIOUS
  <2> QED BY <2>1
<1>3. ASSUME NEW r \in 1..(n + 1)
      PROVE  \E a \in i..nx, b \in j..ny : a + b + 1 = i + j + r /\ TakenAt(X, Y, nmerge, a, b, o, r)
  <2>1. CASE r = 1
    <3>1. \A q \in 1..(n + 1) : q > 1 => From(X, Y, i + c, j + d, o[q])
      <4>1. \A q \in 1..n : From(X, Y, i + c, j + d, f[q])
        BY SMTT(30), <1>1, TracedComesFrom
      <4> QED BY <1>2, <4>1
    <3>2. TakenAt(X, Y, nmerge, i, j, o, r)
      BY <1>1, <2>1, <3>1 DEF TakenAt
    <3> QED BY <2>1, <3>2
  <2>2. CASE r # 1
    <3>1. r - 1 \in 1..n /\ o[r] = f[r - 1]
      BY <1>2, <2>2
    <3>2. PICK a \in (i + c)..nx, b \in (j + d)..ny :
            a + b + 1 = (i + c) + (j + d) + (r - 1) /\ TakenAt(X, Y, nmerge, a, b, f, r - 1)
      BY <1>1, <3>1 DEF Traced
    <3>3. TakenAt(X, Y, nmerge, a, b, o, r)
      <4>1. \A q \in 1..(n + 1) : q > r => q - 1 \in 1..n /\ q - 1 > r - 1 /\ o[q] = f[q - 1]
        BY <1>2, <2>2
      <4> QED BY <3>1, <3>2, <4>1 DEF TakenAt
    <3>4. a \in i..nx /\ b \in j..ny /\ a + b + 1 = i + j + r
      BY <1>1, <3>2
    <3> QED BY <3>3, <3>4
  <2> QED BY <2>1, <2>2
<1> QED BY <1>3 DEF Traced

\* Sequences by their elements.
LEMMA RestOf ==
  ASSUME NEW S, NEW X \in Seq(S), NEW nx \in Nat, nx = Len(X), NEW k \in 0..nx
  PROVE  /\ Rest(X, k) \in Seq(S) /\ Len(Rest(X, k)) = nx - k
         /\ \A r \in 1..(nx - k) : Rest(X, k)[r] = X[k + r]
<1>1. /\ Rest(X, k) \in Seq(S) /\ Len(Rest(X, k)) = nx - k
  BY SubSeqProperties DEF Rest
<1>2. \A r \in 1..(nx - k) : Rest(X, k)[r] = X[k + r]
  BY SubSeqProperties DEF Rest
<1> QED BY <1>1, <1>2

LEMMA OneAfterAnother ==
  ASSUME NEW S, NEW a \in Seq(S), NEW b \in Seq(S), NEW u \in Nat, NEW v \in Nat, u = Len(a), v = Len(b)
  PROVE  /\ a \o b \in Seq(S) /\ Len(a \o b) = u + v
         /\ \A r \in 1..(u + v) : (a \o b)[r] = IF r <= u THEN a[r] ELSE b[r - u]
BY ConcatProperties

LEMMA OneBefore ==
  ASSUME NEW S, NEW v \in S, NEW b \in Seq(S), NEW n \in Nat, n = Len(b)
  PROVE  /\ (<<v>> \o b)[1] = v /\ Len(<<v>> \o b) = n + 1
         /\ \A r \in 1..n : (<<v>> \o b)[r + 1] = b[r]
BY ConcatProperties

\* A step of the merge goes on with the rests, or with one more output.
LEMMA StepsAreTraced ==
  ASSUME NEW S, NEW X \in Seq(S), NEW Y \in Seq(S), NEW nmerge \in Nat,
         NEW nx \in Nat, NEW ny \in Nat, nx = Len(X), ny = Len(Y), NEW f, NEW p \in Places(nx, ny),
         \A q \in Places(nx, ny) : Left(nx, ny, q) < Left(nx, ny, p)
                                   => /\ f[q] \in Seq(S) /\ Len(f[q]) = Left(nx, ny, q)
                                      /\ Traced(X, Y, nmerge, q[1], q[2], f[q])
  PROVE  Traced(X, Y, nmerge, p[1], p[2], MergeStep(X, Y, nmerge, f, p))
<1>1. PICK i \in 0..nx, j \in 0..ny : p = <<i, j>>
  BY DEF Places
<1>2. p[1] = i /\ p[2] = j /\ Left(nx, ny, p) = (nx - i) + (ny - j)
  BY <1>1 DEF Left
<1>3. PICK o : o = MergeStep(X, Y, nmerge, f, p)
  OBVIOUS
<1>4. /\ \A k \in 0..nx : /\ Rest(X, k) \in Seq(S) /\ Len(Rest(X, k)) = nx - k
                          /\ \A r \in 1..(nx - k) : Rest(X, k)[r] = X[k + r]
      /\ \A k \in 0..ny : /\ Rest(Y, k) \in Seq(S) /\ Len(Rest(Y, k)) = ny - k
                          /\ \A r \in 1..(ny - k) : Rest(Y, k)[r] = Y[k + r]
  <2>1. /\ \A k \in 0..nx : /\ Rest(X, k) \in Seq(S) /\ Len(Rest(X, k)) = nx - k
                           /\ \A r \in 1..(nx - k) : Rest(X, k)[r] = X[k + r]
    BY ZenonT(60), RestOf
  <2>2. /\ \A k \in 0..ny : /\ Rest(Y, k) \in Seq(S) /\ Len(Rest(Y, k)) = ny - k
                           /\ \A r \in 1..(ny - k) : Rest(Y, k)[r] = Y[k + r]
    BY ZenonT(60), RestOf
  <2> QED BY <2>1, <2>2
<1>5. CASE i = nx
  <2>1. o = Rest(Y, j)
    BY <1>2, <1>3, <1>5 DEF MergeStep
  <2>2. PICK n \in Nat : n = ny - j
    <3>1. ny - j \in Nat
      OBVIOUS
    <3> QED BY <3>1
  <2>3. Len(o) = n /\ \A r \in 1..n : o[r] = Y[j + r]
    BY <1>4, <2>1, <2>2
  <2>4. InARow(X, Y, nx, ny, i, j, n, o)
    BY <2>2, <2>3 DEF InARow
  <2>5. n = (nx - i) + (ny - j)
    BY <1>5, <2>2
  <2>6. Traced(X, Y, nmerge, i, j, o)
    BY <1>5, <2>3, <2>4, <2>5, RestsAreTraced
  <2> QED BY <1>2, <1>3, <2>6
<1>6. CASE i # nx /\ j = ny
  <2>1. o = Rest(X, i)
    BY <1>2, <1>3, <1>6 DEF MergeStep
  <2>2. PICK n \in Nat : n = nx - i
    <3>1. nx - i \in Nat
      OBVIOUS
    <3> QED BY <3>1
  <2>3. Len(o) = n /\ \A r \in 1..n : o[r] = X[i + r]
    BY <1>4, <2>1, <2>2
  <2>4. InARow(X, Y, nx, ny, i, j, n, o)
    BY <2>2, <2>3 DEF InARow
  <2>5. n = (nx - i) + (ny - j)
    BY <1>6, <2>2
  <2>6. Traced(X, Y, nmerge, i, j, o)
    BY <1>6, <2>3, <2>4, <2>5, RestsAreTraced
  <2> QED BY <1>2, <1>3, <2>6
<1>7. CASE i # nx /\ j # ny
  <2>1. PICK n \in Nat : n = (nx - i) + (ny - j) - 1
    <3>1. (nx - i) + (ny - j) - 1 \in Nat
      BY <1>7
    <3> QED BY <3>1
  <2>2. /\ i + 1 \in 0..nx /\ j + 1 \in 0..ny
        /\ i + 1 \in 1..Len(X) /\ j + 1 \in 1..Len(Y) /\ X[i + 1] \in S /\ Y[j + 1] \in S
    BY <1>7
  <2>3. /\ f[<<i, j + 1>>] \in Seq(S) /\ Len(f[<<i, j + 1>>]) = n /\ Traced(X, Y, nmerge, i, j + 1, f[<<i, j + 1>>])
        /\ f[<<i + 1, j>>] \in Seq(S) /\ Len(f[<<i + 1, j>>]) = n /\ Traced(X, Y, nmerge, i + 1, j, f[<<i + 1, j>>])
    <3>1. <<i, j + 1>> \in Places(nx, ny) /\ <<i + 1, j>> \in Places(nx, ny)
      BY <2>2 DEF Places
    <3>2. Left(nx, ny, <<i, j + 1>>) = n /\ Left(nx, ny, <<i + 1, j>>) = n /\ n < Left(nx, ny, p)
      BY <1>2, <2>1 DEF Left
    <3>3. ASSUME NEW a, NEW b, <<a, b>> \in Places(nx, ny), Left(nx, ny, <<a, b>>) = n
          PROVE  f[<<a, b>>] \in Seq(S) /\ Len(f[<<a, b>>]) = n /\ Traced(X, Y, nmerge, a, b, f[<<a, b>>])
      <4>1. PICK q : q = <<a, b>>
        OBVIOUS
      <4>2. f[q] \in Seq(S) /\ Len(f[q]) = n /\ Traced(X, Y, nmerge, q[1], q[2], f[q])
        BY <3>2, <3>3, <4>1
      <4>3. q[1] = a /\ q[2] = b
        BY <4>1
      <4> QED BY <4>1, <4>2, <4>3
    <3> QED BY <3>1, <3>2, <3>3
  <2>4. CASE Less(Y[j + 1], X[i + 1])
    <3>1. PICK g : g = IF i + j + 1 = nmerge /\ j + 1 < ny THEN Rest(Y, j + 1) \o Rest(X, i) ELSE f[<<i, j + 1>>]
      OBVIOUS
    <3>2. o = <<Y[j + 1]>> \o g
      BY <1>2, <1>3, <1>7, <2>4, <3>1 DEF MergeStep
    <3>3. g \in Seq(S) /\ Len(g) = n /\ Traced(X, Y, nmerge, i, j + 1, g)
      <4>1. CASE i + j + 1 = nmerge /\ j + 1 < ny
        <5>1. /\ Rest(Y, j + 1) \in Seq(S) /\ Len(Rest(Y, j + 1)) = ny - (j + 1)
              /\ \A r \in 1..(ny - (j + 1)) : Rest(Y, j + 1)[r] = Y[j + 1 + r]
              /\ Rest(X, i) \in Seq(S) /\ Len(Rest(X, i)) = nx - i
              /\ \A r \in 1..(nx - i) : Rest(X, i)[r] = X[i + r]
          BY <1>4, <2>2
        <5>2. PICK u \in Nat, v \in Nat : u = ny - (j + 1) /\ v = nx - i
          <6>1. ny - (j + 1) \in Nat /\ nx - i \in Nat
            BY <2>2
          <6> QED BY <6>1
        <5>3. g \in Seq(S) /\ Len(g) = u + v /\ \A r \in 1..(u + v) : g[r] = IF r <= u THEN Y[j + 1 + r] ELSE X[i + (r - u)]
          <6>1. PICK a \in Seq(S), b \in Seq(S) : a = Rest(Y, j + 1) /\ b = Rest(X, i)
            BY <5>1
          <6>2. g = a \o b /\ Len(a) = u /\ Len(b) = v
            BY <3>1, <4>1, <5>1, <5>2, <6>1
          <6>3. /\ g \in Seq(S) /\ Len(g) = u + v
                /\ \A r \in 1..(u + v) : g[r] = IF r <= u THEN a[r] ELSE b[r - u]
            BY <6>2, OneAfterAnother
          <6>4. /\ \A r \in 1..u : a[r] = Y[j + 1 + r]
                /\ \A r \in 1..v : b[r] = X[i + r]
            BY <5>1, <5>2, <6>1
          <6>5. \A r \in 1..(u + v) : IF r <= u THEN r \in 1..u ELSE r - u \in 1..v
            OBVIOUS
          <6> QED BY <6>3, <6>4, <6>5
        <5>4. n = u + v /\ n = (nx - i) + (ny - (j + 1)) /\ ~(i + (j + 1) < nmerge)
          <6>1. i + (j + 1) = nmerge
            BY <4>1
          <6>2. n = (nx - i) + (ny - (j + 1))
            BY <2>1
          <6> QED BY <5>2, <6>1, <6>2
        <5>5. InARow(X, Y, nx, ny, i, j + 1, n, g)
          <6>1. \A r \in 1..n : g[r] = IF r <= ny - (j + 1) THEN Y[j + 1 + r] ELSE X[i + r - (ny - (j + 1))]
            BY <5>2, <5>3, <5>4
          <6> QED BY <6>1 DEF InARow
        <5>6. Traced(X, Y, nmerge, i, j + 1, g)
          BY <2>2, <5>3, <5>4, <5>5, RestsAreTraced
        <5> QED BY <5>3, <5>4, <5>6
      <4>2. CASE ~(i + j + 1 = nmerge /\ j + 1 < ny)
        BY <2>3, <3>1, <4>2
      <4> QED BY <4>1, <4>2
    <3>4. o[1] = Y[j + 1] /\ Len(o) = n + 1 /\ \A r \in 1..n : o[r + 1] = g[r]
      BY <2>2, <3>2, <3>3, OneBefore
    <3>5. TakesY(X, Y, nmerge, i, j)
      BY <1>7, <2>4 DEF TakesY
    <3>6. Traced(X, Y, nmerge, i, j, o)
      BY <3>3, <3>4, <3>5, OutputsAreTraced
    <3> QED BY <1>2, <1>3, <3>6
  <2>5. CASE ~Less(Y[j + 1], X[i + 1])
    <3>1. PICK g : g = IF i + j + 1 = nmerge /\ i + 1 < nx THEN Rest(X, i + 1) \o Rest(Y, j) ELSE f[<<i + 1, j>>]
      OBVIOUS
    <3>2. o = <<X[i + 1]>> \o g
      BY <1>2, <1>3, <1>7, <2>5, <3>1 DEF MergeStep
    <3>3. g \in Seq(S) /\ Len(g) = n /\ Traced(X, Y, nmerge, i + 1, j, g)
      <4>1. CASE i + j + 1 = nmerge /\ i + 1 < nx
        <5>1. /\ Rest(X, i + 1) \in Seq(S) /\ Len(Rest(X, i + 1)) = nx - (i + 1)
              /\ \A r \in 1..(nx - (i + 1)) : Rest(X, i + 1)[r] = X[i + 1 + r]
              /\ Rest(Y, j) \in Seq(S) /\ Len(Rest(Y, j)) = ny - j
              /\ \A r \in 1..(ny - j) : Rest(Y, j)[r] = Y[j + r]
          BY <1>4, <2>2
        <5>2. PICK u \in Nat, v \in Nat : u = nx - (i + 1) /\ v = ny - j
          <6>1. nx - (i + 1) \in Nat /\ ny - j \in Nat
            BY <2>2
          <6> QED BY <6>1
        <5>3. g \in Seq(S) /\ Len(g) = u + v /\ \A r \in 1..(u + v) : g[r] = IF r <= u THEN X[i + 1 + r] ELSE Y[j + (r - u)]
          <6>1. PICK a \in Seq(S), b \in Seq(S) : a = Rest(X, i + 1) /\ b = Rest(Y, j)
            BY <5>1
          <6>2. g = a \o b /\ Len(a) = u /\ Len(b) = v
            BY <3>1, <4>1, <5>1, <5>2, <6>1
          <6>3. /\ g \in Seq(S) /\ Len(g) = u + v
                /\ \A r \in 1..(u + v) : g[r] = IF r <= u THEN a[r] ELSE b[r - u]
            BY <6>2, OneAfterAnother
          <6>4. /\ \A r \in 1..u : a[r] = X[i + 1 + r]
                /\ \A r \in 1..v : b[r] = Y[j + r]
            BY <5>1, <5>2, <6>1
          <6>5. \A r \in 1..(u + v) : IF r <= u THEN r \in 1..u ELSE r - u \in 1..v
            OBVIOUS
          <6> QED BY <6>3, <6>4, <6>5
        <5>4. n = u + v /\ n = (nx - (i + 1)) + (ny - j) /\ ~((i + 1) + j < nmerge)
          <6>1. (i + 1) + j = nmerge
            BY <4>1
          <6>2. n = (nx - (i + 1)) + (ny - j)
            BY <2>1
          <6> QED BY <5>2, <6>1, <6>2
        <5>5. InARow(X, Y, nx, ny, i + 1, j, n, g)
          <6>1. \A r \in 1..n : g[r] = IF r <= nx - (i + 1) THEN X[i + 1 + r] ELSE Y[j + r - (nx - (i + 1))]
            BY <5>2, <5>3, <5>4
          <6> QED BY <6>1 DEF InARow
        <5>6. Traced(X, Y, nmerge, i + 1, j, g)
          BY <2>2, <5>3, <5>4, <5>5, RestsAreTraced
        <5> QED BY <5>3, <5>4, <5>6
      <4>2. CASE ~(i + j + 1 = nmerge /\ i + 1 < nx)
        BY <2>3, <3>1, <4>2
      <4> QED BY <4>1, <4>2
    <3>4. o[1] = X[i + 1] /\ Len(o) = n + 1 /\ \A r \in 1..n : o[r + 1] = g[r]
      BY <2>2, <3>2, <3>3, OneBefore
    <3>5. TakesX(X, Y, nmerge, i, j)
      BY <1>7, <2>5 DEF TakesX
    <3>6. Traced(X, Y, nmerge, i, j, o)
      BY <3>3, <3>4, <3>5, OutputsAreTraced
    <3> QED BY <1>2, <1>3, <3>6
  <2> QED BY <2>4, <2>5
<1> QED BY <1>5, <1>6, <1>7

\* What a merge outputs is traced from the beginning of both sequences.
LEMMA MergesAreTraced ==
  ASSUME NEW S, NEW X \in Seq(S), NEW Y \in Seq(S), NEW nmerge \in Nat
  PROVE  Traced(X, Y, nmerge, 0, 0, SerialMoveMerge(X, Y, nmerge))
<1>1. PICK nx \in Nat, ny \in Nat : nx = Len(X) /\ ny = Len(Y)
  OBVIOUS
<1> DEFINE P == Places(nx, ny)
           merged[p \in Places(nx, ny)] == MergeStep(X, Y, nmerge, merged, p)
           left(p) == Left(nx, ny, p)
           fine(p) == /\ merged[p] \in Seq(S) /\ Len(merged[p]) = left(p)
                      /\ Traced(X, Y, nmerge, p[1], p[2], merged[p])
           good == {k \in Nat : \A p \in P : left(p) < k => fine(p)}
<1>2. merged = [p \in P |-> MergeStep(X, Y, nmerge, merged, p)]
  BY <1>1, MergesExist
<1>3. SerialMoveMerge(X, Y, nmerge) = merged[<<0, 0>>]
  BY <1>1 DEF SerialMoveMerge, MergeStep, Rest, Places
<1>4. \A p \in P : left(p) \in Nat /\ left(p) < nx + ny + 1
  BY DEF Places, Left
<1>5. \A p \in P : (\A q \in P : left(q) < left(p) => fine(q)) => fine(p)
  <2> SUFFICES ASSUME NEW p \in P, \A q \in P : left(q) < left(p) => fine(q)
               PROVE  fine(p)
    OBVIOUS
  <2> HIDE DEF merged
  <2>1. merged[p] = MergeStep(X, Y, nmerge, merged, p)
    <3> HIDE DEF P
    <3> QED BY <1>2
  <2>2. MergeStep(X, Y, nmerge, merged, p) \in Seq(S) /\ Len(MergeStep(X, Y, nmerge, merged, p)) = left(p)
    BY <1>1, StepsMerge
  <2>3. Traced(X, Y, nmerge, p[1], p[2], MergeStep(X, Y, nmerge, merged, p))
    BY <1>1, StepsAreTraced
  <2> QED BY <2>1, <2>2, <2>3
<1> HIDE DEF P, left, merged, fine
<1>6. 0 \in good
  BY <1>4
<1>7. ASSUME NEW k \in Nat, k \in good PROVE k + 1 \in good
  <2> SUFFICES ASSUME NEW p \in P, left(p) < k + 1 PROVE fine(p)
    OBVIOUS
  <2>1. \A q \in P : left(q) < left(p) => fine(q)
    BY <1>4, <1>7
  <2> QED BY <1>5, <2>1
<1>8. Nat \subseteq good
  <2> HIDE DEF good
  <2> QED BY <1>6, <1>7, Induction
<1>9. fine(<<0, 0>>)
  <2>1. <<0, 0>> \in P
    BY DEF P, Places
  <2> QED BY <1>4, <1>8, <2>1
<1> QED BY <1>3, <1>9 DEF fine
-------------------------------------------------------------------------------
(* Two sequences that are to be merged: the first k elements of each are in     *)
(* order, and go before its others; and all of X came before those of Y.        *)
SortedTo(X, k) == \A i \in 1..Len(X), j \in 1..Len(X) : i < j /\ i <= k => Prec(X[i], X[j])
CameBefore(X, Y) == \A i \in 1..Len(X), j \in 1..Len(Y) : X[i][2] < Y[j][2]
Mergeable(X, Y, k) == SortedTo(X, k) /\ SortedTo(Y, k) /\ (stable => CameBefore(X, Y))

\* At least k elements, or all, of two sequences may go before b, those that begin X and Y.
BeginsUnder(X, Y, b, i, j) == (\A r \in 1..i : Prec(X[r], b)) /\ (\A r \in 1..j : Prec(Y[r], b))
UnderTo(X, Y, b, k) ==
  \E i \in 0..Len(X), j \in 0..Len(Y) : (i + j >= k \/ i + j >= Len(X) + Len(Y)) /\ BeginsUnder(X, Y, b, i, j)

\* At a place, the element that is taken may go before the other one.
LEMMA TakenGoesFirst ==
  ASSUME NEW X \in Seq(Items), NEW Y \in Seq(Items), NEW nmerge \in Nat, NEW nx \in Nat, NEW ny \in Nat,
         nx = Len(X), ny = Len(Y), NEW k \in Int, Mergeable(X, Y, k),
         NEW i \in 0..nx, NEW j \in 0..ny, i < nx, j < ny, i + j < nmerge
  PROVE  /\ TakesX(X, Y, nmerge, i, j) => Prec(X[i + 1], Y[j + 1])
         /\ TakesY(X, Y, nmerge, i, j) => Prec(Y[j + 1], X[i + 1])
<1>1. i + 1 \in 1..nx /\ j + 1 \in 1..ny
  OBVIOUS
<1>2. PICK a \in Items, b \in Items : a = X[i + 1] /\ b = Y[j + 1]
  BY <1>1, ElementOfSeq
<1>3. stable => a[2] < b[2]
  BY <1>1, <1>2 DEF Mergeable, CameBefore
<1>4. /\ ~Less(b, a) => Prec(a, b)
      /\ Less(b, a) => Prec(b, a)
  BY <1>3, PrecIsAnOrder
<1> QED BY <1>2, <1>4 DEF TakesX, TakesY

LEMMA MergeSorts ==
  ASSUME NEW X \in Seq(Items), NEW Y \in Seq(Items), NEW nmerge \in Nat, NEW nx \in Nat, NEW ny \in Nat,
         nx = Len(X), ny = Len(Y), NEW k \in Int, k <= nmerge \/ nx + ny <= nmerge, Mergeable(X, Y, k),
         NEW o, Len(o) = nx + ny, Traced(X, Y, nmerge, 0, 0, o),
         NEW r \in 1..(nx + ny), r <= k
  PROVE  /\ \A q \in 1..(nx + ny) : r < q => Prec(o[r], o[q])
         /\ \A b \in Items : UnderTo(X, Y, b, k) => Prec(o[r], b)
<1>1. PICK i \in 0..nx, j \in 0..ny : i + j + 1 = 0 + 0 + r /\ TakenAt(X, Y, nmerge, i, j, o, r)
  BY DEF Traced
<1>2. i + j < nmerge /\ i + 1 <= k /\ j + 1 <= k
  BY <1>1
<1>3. i < nx => i + 1 \in 1..nx /\ X[i + 1] \in Items
  BY ElementOfSeq
<1>4. j < ny => j + 1 \in 1..ny /\ Y[j + 1] \in Items
  BY ElementOfSeq
<1>5. \A c \in 1..nx : X[c] \in Items /\ (c > i => Prec(X[i + 1], X[c]))
  <2> SUFFICES ASSUME NEW c \in 1..nx PROVE X[c] \in Items /\ (c > i => Prec(X[i + 1], X[c]))
    OBVIOUS
  <2>1. X[c] \in Items
    BY ElementOfSeq
  <2>2. CASE c = i + 1
    BY <2>1, <2>2, PrecIsAnOrder
  <2>3. CASE c > i + 1
    BY <1>2, <2>1, <2>3 DEF Mergeable, SortedTo
  <2> QED BY <2>1, <2>2, <2>3
<1>6. \A c \in 1..ny : Y[c] \in Items /\ (c > j => Prec(Y[j + 1], Y[c]))
  <2> SUFFICES ASSUME NEW c \in 1..ny PROVE Y[c] \in Items /\ (c > j => Prec(Y[j + 1], Y[c]))
    OBVIOUS
  <2>1. Y[c] \in Items
    BY ElementOfSeq
  <2>2. CASE c = j + 1
    BY <2>1, <2>2, PrecIsAnOrder
  <2>3. CASE c > j + 1
    BY <1>2, <2>1, <2>3 DEF Mergeable, SortedTo
  <2> QED BY <2>1, <2>2, <2>3
<1>7. \A a \in Items, b \in Items, c \in Items : Prec(a, b) /\ Prec(b, c) => Prec(a, c)
  BY PrecIsAnOrder
\* what is taken goes before all that comes after its place in either sequence
<1>8. o[r] \in Items /\ \A v : From(X, Y, i, j, v) => Prec(o[r], v)
  <2>1. CASE TakesX(X, Y, nmerge, i, j) /\ o[r] = X[i + 1]
    <3>1. i < nx
      BY <2>1 DEF TakesX
    <3>2. \A c \in 1..ny : c > j => Prec(X[i + 1], Y[c])
      <4> SUFFICES ASSUME NEW c \in 1..ny, c > j PROVE Prec(X[i + 1], Y[c])
        OBVIOUS
      <4>1. j < ny
        OBVIOUS
      <4>2. Prec(X[i + 1], Y[j + 1])
        BY <1>2, <2>1, <3>1, <4>1, TakenGoesFirst
      <4> QED BY <1>3, <1>4, <1>6, <1>7, <3>1, <4>1, <4>2
    <3> QED BY <1>3, <1>5, <2>1, <3>1, <3>2 DEF From
  <2>2. CASE TakesY(X, Y, nmerge, i, j) /\ o[r] = Y[j + 1]
    <3>1. j < ny
      BY <2>2 DEF TakesY
    <3>2. \A c \in 1..nx : c > i => Prec(Y[j + 1], X[c])
      <4> SUFFICES ASSUME NEW c \in 1..nx, c > i PROVE Prec(Y[j + 1], X[c])
        OBVIOUS
      <4>1. i < nx
        OBVIOUS
      <4>2. Prec(Y[j + 1], X[i + 1])
        BY <1>2, <2>2, <3>1, <4>1, TakenGoesFirst
      <4> QED BY <1>3, <1>4, <1>5, <1>7, <3>1, <4>1, <4>2
    <3> QED BY <1>4, <1>6, <2>2, <3>1, <3>2 DEF From
  <2> QED BY <1>1, <2>1, <2>2 DEF TakenAt
<1>9. ASSUME NEW q \in 1..(nx + ny), r < q
      PROVE  Prec(o[r], o[q])
  <2>1. From(X, Y, i, j, o[q])
    BY <1>1, <1>9 DEF TakenAt, From
  <2> QED BY <1>8, <2>1
<1>10. ASSUME NEW b \in Items, UnderTo(X, Y, b, k)
       PROVE  Prec(o[r], b)
  <2>1. PICK c \in 0..nx, d \in 0..ny : (c + d >= k \/ c + d >= nx + ny) /\ BeginsUnder(X, Y, b, c, d)
    BY <1>10 DEF UnderTo
  \* the place is not past both beginnings
  <2>2. i < c \/ j < d
    BY <1>1, <2>1
  <2>3. CASE i < c
    <3>1. i + 1 \in 1..nx /\ i + 1 \in 1..c /\ Prec(X[i + 1], b) /\ From(X, Y, i, j, X[i + 1]) /\ X[i + 1] \in Items
      BY <2>1, <2>3, <1>3 DEF BeginsUnder, From
    <3> QED BY <1>7, <1>8, <3>1
  <2>4. CASE j < d
    <3>1. j + 1 \in 1..ny /\ j + 1 \in 1..d /\ Prec(Y[j + 1], b) /\ From(X, Y, i, j, Y[j + 1]) /\ Y[j + 1] \in Items
      BY <2>1, <2>4, <1>4 DEF BeginsUnder, From
    <3> QED BY <1>7, <1>8, <3>1
  <2> QED BY <2>2, <2>3, <2>4
<1> QED BY <1>9, <1>10

\* What a merge outputs are elements of both sequences, each once.
Told(X, Y) ==
  /\ \A i \in 1..Len(X), j \in 1..Len(X) : X[i][2] = X[j][2] => i = j
  /\ \A i \in 1..Len(Y), j \in 1..Len(Y) : Y[i][2] = Y[j][2] => i = j
  /\ \A i \in 1..Len(X), j \in 1..Len(Y) : X[i][2] # Y[j][2]

LEMMA MergeKeepsElements ==
  ASSUME NEW X \in Seq(Items), NEW Y \in Seq(Items), NEW nmerge \in Nat, NEW nx \in Nat, NEW ny \in Nat,
         nx = Len(X), ny = Len(Y), Told(X, Y), NEW o, Len(o) = nx + ny, Traced(X, Y, nmerge, 0, 0, o),
         NEW r \in 1..(nx + ny)
  PROVE  From(X, Y, 0, 0, o[r]) /\ \A q \in 1..(nx + ny) : r < q => o[r][2] # o[q][2]
<1>1. PICK i \in 0..nx, j \in 0..ny : TakenAt(X, Y, nmerge, i, j, o, r)
  BY DEF Traced
<1>2. From(X, Y, 0, 0, o[r])
  BY TracedComesFrom
<1>3. CASE /\ TakesX(X, Y, nmerge, i, j) /\ o[r] = X[i + 1]
           /\ \A q \in 1..Len(o) : q > r => From(X, Y, i + 1, j, o[q])
  <2>1. i + 1 \in 1..nx
    BY <1>3 DEF TakesX
  <2> QED BY SMTT(30), <1>2, <1>3, <2>1 DEF From, Told
<1>4. CASE /\ TakesY(X, Y, nmerge, i, j) /\ o[r] = Y[j + 1]
           /\ \A q \in 1..Len(o) : q > r => From(X, Y, i, j + 1, o[q])
  <2>1. j + 1 \in 1..ny
    BY <1>4 DEF TakesY
  <2> QED BY SMTT(30), <1>2, <1>4, <2>1 DEF From, Told
<1> QED BY <1>1, <1>3, <1>4 DEF TakenAt

\* Both sequences cut in two: what precedes the cut goes before what follows it, as
\* far as the first k elements of each tell.
IsCut(X, F, R, c) ==
  /\ Len(F) = c /\ \A i \in 1..c : F[i] = X[i]
  /\ Len(R) = Len(X) - c /\ \A i \in 1..(Len(X) - c) : R[i] = X[c + i]
CutFits(X, Y, c, d, k) ==
  /\ d < Len(Y) /\ d < k => \A i \in 1..c : i <= k => Prec(X[i], Y[d + 1])
  /\ c < Len(X) /\ c < k => \A i \in 1..d : i <= k => Prec(Y[i], X[c + 1])

LEMMA CutsAreMergeable ==
  ASSUME NEW X \in Seq(Items), NEW Y \in Seq(Items), NEW nx \in Nat, NEW ny \in Nat,
         nx = Len(X), ny = Len(Y), NEW k \in Int, Mergeable(X, Y, k),
         NEW c \in 0..nx, NEW d \in 0..ny, NEW XF, NEW XR, NEW YF, NEW YR, IsCut(X, XF, XR, c), IsCut(Y, YF, YR, d)
  PROVE  Mergeable(XF, YF, k) /\ Mergeable(XR, YR, k - (c + d))
<1>1. /\ \A i \in 1..c : i \in 1..nx
      /\ \A i \in 1..d : i \in 1..ny
      /\ \A i \in 1..(nx - c) : c + i \in 1..nx
      /\ \A i \in 1..(ny - d) : d + i \in 1..ny
  OBVIOUS
<1>2. Mergeable(XF, YF, k)
  BY <1>1 DEF Mergeable, SortedTo, CameBefore, IsCut
<1>3. /\ \A i \in 1..(nx - c) : i <= k - (c + d) => c + i <= k
      /\ \A i \in 1..(ny - d) : i <= k - (c + d) => d + i <= k
      /\ \A i \in Nat, j \in Nat : i < j => c + i < c + j /\ d + i < d + j
  OBVIOUS
<1>4. SortedTo(XR, k - (c + d)) /\ SortedTo(YR, k - (c + d))
  BY SMTT(30), <1>1, <1>3 DEF Mergeable, SortedTo, IsCut
<1>5. stable => CameBefore(XR, YR)
  <2> SUFFICES ASSUME stable, NEW i \in 1..(nx - c), NEW j \in 1..(ny - d) PROVE XR[i][2] < YR[j][2]
    BY DEF CameBefore, IsCut
  <2>1. XR[i] = X[c + i] /\ YR[j] = Y[d + j]
    BY DEF IsCut
  <2>2. X[c + i][2] < Y[d + j][2]
    BY <1>1 DEF Mergeable, CameBefore
  <2> QED BY <2>1, <2>2
<1> QED BY <1>2, <1>4, <1>5 DEF Mergeable

LEMMA CutsGoBefore ==
  ASSUME NEW X \in Seq(Items), NEW Y \in Seq(Items), NEW nx \in Nat, NEW ny \in Nat,
         nx = Len(X), ny = Len(Y), NEW k \in Int, Mergeable(X, Y, k),
         NEW c \in 0..nx, NEW d \in 0..ny, NEW XF, NEW XR, NEW YF, NEW YR, IsCut(X, XF, XR, c), IsCut(Y, YF, YR, d),
         CutFits(X, Y, c, d, k), NEW b, From(XR, YR, 0, 0, b)
  PROVE  UnderTo(XF, YF, b, k)
<1>1. /\ \A i \in 1..nx : X[i] \in Items
      /\ \A i \in 1..ny : Y[i] \in Items
  BY ElementOfSeq
<1>2. \A p \in Items, q \in Items, v \in Items : Prec(p, q) /\ Prec(q, v) => Prec(p, v)
  BY PrecIsAnOrder
<1>3. \A v \in Items : Prec(v, v)
  BY PrecIsAnOrder
<1>4. CASE k <= 0
  <2>1. BeginsUnder(XF, YF, b, 0, 0)
    BY DEF BeginsUnder
  <2> QED BY <1>4, <2>1 DEF UnderTo, IsCut
<1>5. CASE k > 0 /\ \E r \in 1..(nx - c) : b = X[c + r]
  <2>1. PICK r \in 1..(nx - c) : b = X[c + r]
    BY <1>5
  <2>2. c + r \in 1..nx /\ c < nx
    OBVIOUS
  <2>3. PICK e \in 0..c : e = IF k < c THEN k ELSE c
    <3>1. c \in 0..c /\ (k < c => k \in 0..c)
      BY <1>5
    <3> QED BY <3>1
  <2>4. PICK f \in 0..d : f = IF k - e < d THEN k - e ELSE d
    <3>1. d \in 0..d /\ (k - e < d => k - e \in 0..d)
      BY <1>5, <2>3
    <3> QED BY <3>1
  <2>5. \A i \in 1..e : Prec(X[i], b)
    BY <2>1, <2>2, <2>3 DEF Mergeable, SortedTo
  <2>6. ASSUME NEW i \in 1..f PROVE Prec(Y[i], b)
    <3>1. e = c /\ c < k /\ i <= k /\ i \in 1..d
      BY <2>3, <2>4
    <3>2. Prec(Y[i], X[c + 1])
      BY <2>2, <3>1 DEF CutFits
    <3>3. Prec(X[c + 1], b)
      <4>1. CASE r = 1
        BY <1>1, <1>3, <2>1, <2>2, <4>1
      <4>2. CASE r # 1
        <5>1. c + 1 \in 1..nx /\ c + 1 < c + r /\ c + 1 <= k
          BY <2>2, <3>1, <4>2
        <5> QED BY <2>1, <2>2, <5>1 DEF Mergeable, SortedTo
      <4> QED BY <4>1, <4>2
    <3>4. Y[i] \in Items /\ X[c + 1] \in Items /\ b \in Items
      BY <1>1, <2>1, <2>2, <3>1
    <3> QED BY <1>2, <3>2, <3>3, <3>4
  <2>7. e + f >= k \/ e + f >= c + d
    BY <2>3, <2>4
  <2>8. BeginsUnder(XF, YF, b, e, f)
    BY <2>5, <2>6 DEF BeginsUnder, IsCut
  <2> QED BY <2>7, <2>8 DEF UnderTo, IsCut
<1>6. CASE k > 0 /\ \E r \in 1..(ny - d) : b = Y[d + r]
  <2>1. PICK r \in 1..(ny - d) : b = Y[d + r]
    BY <1>6
  <2>2. d + r \in 1..ny /\ d < ny
    OBVIOUS
  <2>3. PICK f \in 0..d : f = IF k < d THEN k ELSE d
    <3>1. d \in 0..d /\ (k < d => k \in 0..d)
      BY <1>6
    <3> QED BY <3>1
  <2>4. PICK e \in 0..c : e = IF k - f < c THEN k - f ELSE c
    <3>1. c \in 0..c /\ (k - f < c => k - f \in 0..c)
      BY <1>6, <2>3
    <3> QED BY <3>1
  <2>5. \A i \in 1..f : Prec(Y[i], b)
    BY <2>1, <2>2, <2>3 DEF Mergeable, SortedTo
  <2>6. ASSUME NEW i \in 1..e PROVE Prec(X[i], b)
    <3>1. f = d /\ d < k /\ i <= k /\ i \in 1..c
      BY <2>3, <2>4
    <3>2. Prec(X[i], Y[d + 1])
      BY <2>2, <3>1 DEF CutFits
    <3>3. Prec(Y[d + 1], b)
      <4>1. CASE r = 1
        BY <1>1, <1>3, <2>1, <2>2, <4>1
      <4>2. CASE r # 1
        <5>1. d + 1 \in 1..ny /\ d + 1 < d + r /\ d + 1 <= k
          BY <2>2, <3>1, <4>2
        <5> QED BY <2>1, <2>2, <5>1 DEF Mergeable, SortedTo
      <4> QED BY <4>1, <4>2
    <3>4. X[i] \in Items /\ Y[d + 1] \in Items /\ b \in Items
      BY <1>1, <2>1, <2>2, <3>1
    <3> QED BY <1>2, <3>2, <3>3, <3>4
  <2>7. e + f >= k \/ e + f >= c + d
    BY <2>3, <2>4
  <2>8. BeginsUnder(XF, YF, b, e, f)
    BY <2>5, <2>6 DEF BeginsUnder, IsCut
  <2> QED BY <2>7, <2>8 DEF UnderTo, IsCut
<1>7. (\E r \in 1..(nx - c) : b = X[c + r]) \/ (\E r \in 1..(ny - d) : b = Y[d + r])
  <2>1. /\ Len(XR) = nx - c /\ \A r \in 1..(nx - c) : XR[r] = X[c + r]
        /\ Len(YR) = ny - d /\ \A r \in 1..(ny - d) : YR[r] = Y[d + r]
    BY DEF IsCut
  <2>2. (\E r \in 1..(nx - c) : b = XR[r]) \/ (\E r \in 1..(ny - d) : b = YR[r])
    BY <2>1 DEF From
  <2> QED BY <2>1, <2>2
<1> QED BY <1>4, <1>5, <1>6, <1>7

LEMMA CutsStayUnder ==
  ASSUME NEW X \in Seq(Items), NEW Y \in Seq(Items), NEW nx \in Nat, NEW ny \in Nat,
         nx = Len(X), ny = Len(Y), NEW k \in Int, Mergeable(X, Y, k),
         NEW c \in 0..nx, NEW d \in 0..ny, NEW XF, NEW XR, NEW YF, NEW YR, IsCut(X, XF, XR, c), IsCut(Y, YF, YR, d),
         CutFits(X, Y, c, d, k), NEW b \in Items, UnderTo(X, Y, b, k)
  PROVE  UnderTo(XF, YF, b, k) /\ UnderTo(XR, YR, b, k - (c + d))
<1>1. /\ \A i \in 1..nx : X[i] \in Items
      /\ \A i \in 1..ny : Y[i] \in Items
  BY ElementOfSeq
<1>2. \A p \in Items, q \in Items, v \in Items : Prec(p, q) /\ Prec(q, v) => Prec(p, v)
  BY PrecIsAnOrder
<1>3. PICK i \in 0..nx, j \in 0..ny : (i + j >= k \/ i + j >= nx + ny) /\ BeginsUnder(X, Y, b, i, j)
  BY DEF UnderTo
<1>4. ASSUME NEW e \in 0..c, NEW f \in 0..d, e + f >= k \/ e + f >= c + d,
             \A r \in 1..e : Prec(X[r], b), \A r \in 1..f : Prec(Y[r], b)
      PROVE  UnderTo(XF, YF, b, k)
  <2>1. BeginsUnder(XF, YF, b, e, f)
    BY <1>4 DEF BeginsUnder, IsCut
  <2> QED BY <1>4, <2>1 DEF UnderTo, IsCut
<1>5. UnderTo(XF, YF, b, k)
  <2>1. CASE i >= c /\ j >= d
    <3>1. c \in 0..c /\ d \in 0..d /\ c + d >= c + d
      OBVIOUS
    <3>2. (\A r \in 1..c : Prec(X[r], b)) /\ (\A r \in 1..d : Prec(Y[r], b))
      BY <1>3, <2>1 DEF BeginsUnder
    <3> QED BY <1>4, <3>1, <3>2
  <2>2. CASE i <= c /\ j <= d
    <3>1. i + j >= k \/ i + j >= c + d
      BY <1>3
    <3>2. i \in 0..c /\ j \in 0..d
      BY <2>2
    <3>3. (\A r \in 1..i : Prec(X[r], b)) /\ (\A r \in 1..j : Prec(Y[r], b))
      BY <1>3 DEF BeginsUnder
    <3> QED BY <1>4, <3>1, <3>2, <3>3
  <2>3. CASE i < c /\ j > d
    <3>1. CASE i + d >= k
      <4>1. i \in 0..c /\ d \in 0..d
        BY <2>3
      <4>2. \A r \in 1..d : Prec(Y[r], b)
        BY <1>3, <2>3 DEF BeginsUnder
      <4> QED BY <1>3, <1>4, <3>1, <4>1, <4>2 DEF BeginsUnder
    <3>2. CASE ~(i + d >= k)
      <4>1. PICK e \in 0..c : e = IF k - d < c THEN k - d ELSE c
        <5>1. c \in 0..c /\ (k - d < c => k - d \in 0..c)
          BY <3>2
        <5> QED BY <5>1
      <4>2. ASSUME NEW r \in 1..e PROVE Prec(X[r], b)
        <5>1. d < ny /\ d < k /\ r \in 1..c /\ r <= k /\ d + 1 \in 1..ny /\ d + 1 \in 1..j
          BY <2>3, <3>2, <4>1
        <5>2. Prec(X[r], Y[d + 1]) /\ Prec(Y[d + 1], b)
          BY <1>3, <5>1 DEF CutFits, BeginsUnder
        <5> QED BY <1>1, <1>2, <5>1, <5>2
      <4>3. \A r \in 1..d : Prec(Y[r], b)
        BY <1>3, <2>3 DEF BeginsUnder
      <4>4. e + d >= k \/ e + d >= c + d
        BY <4>1
      <4>5. d \in 0..d
        OBVIOUS
      <4> QED BY <1>4, <4>2, <4>3, <4>4, <4>5
    <3> QED BY <3>1, <3>2
  <2>4. CASE i > c /\ j < d
    <3>1. CASE c + j >= k
      <4>1. j \in 0..d /\ c \in 0..c
        BY <2>4
      <4>2. \A r \in 1..c : Prec(X[r], b)
        BY <1>3, <2>4 DEF BeginsUnder
      <4> QED BY <1>3, <1>4, <3>1, <4>1, <4>2 DEF BeginsUnder
    <3>2. CASE ~(c + j >= k)
      <4>1. PICK f \in 0..d : f = IF k - c < d THEN k - c ELSE d
        <5>1. d \in 0..d /\ (k - c < d => k - c \in 0..d)
          BY <3>2
        <5> QED BY <5>1
      <4>2. ASSUME NEW r \in 1..f PROVE Prec(Y[r], b)
        <5>1. c < nx /\ c < k /\ r \in 1..d /\ r <= k /\ c + 1 \in 1..nx /\ c + 1 \in 1..i
          BY <2>4, <3>2, <4>1
        <5>2. Prec(Y[r], X[c + 1]) /\ Prec(X[c + 1], b)
          BY <1>3, <5>1 DEF CutFits, BeginsUnder
        <5> QED BY <1>1, <1>2, <5>1, <5>2
      <4>3. \A r \in 1..c : Prec(X[r], b)
        BY <1>3, <2>4 DEF BeginsUnder
      <4>4. c + f >= k \/ c + f >= c + d
        BY <4>1
      <4>5. c \in 0..c
        OBVIOUS
      <4> QED BY <1>4, <4>2, <4>3, <4>4, <4>5
    <3> QED BY <3>1, <3>2
  <2> QED BY <2>1, <2>2, <2>3, <2>4
<1>6. UnderTo(XR, YR, b, k - (c + d))
  <2>1. PICK e \in 0..(nx - c) : e = IF i < c THEN 0 ELSE i - c
    <3>1. 0 \in 0..(nx - c) /\ (~(i < c) => i - c \in 0..(nx - c))
      OBVIOUS
    <3> QED BY <3>1
  <2>2. PICK f \in 0..(ny - d) : f = IF j < d THEN 0 ELSE j - d
    <3>1. 0 \in 0..(ny - d) /\ (~(j < d) => j - d \in 0..(ny - d))
      OBVIOUS
    <3> QED BY <3>1
  <2>3. e + f >= k - (c + d) \/ e + f >= (nx - c) + (ny - d)
    BY <1>3, <2>1, <2>2
  <2>4. /\ \A r \in 1..e : r \in 1..(nx - c) /\ c + r \in 1..i
        /\ \A r \in 1..f : r \in 1..(ny - d) /\ d + r \in 1..j
    BY <2>1, <2>2
  <2>5. BeginsUnder(XR, YR, b, e, f)
    BY <1>3, <2>4 DEF BeginsUnder, IsCut
  <2> QED BY <2>3, <2>5 DEF UnderTo, IsCut
<1> QED BY <1>5, <1>6
-------------------------------------------------------------------------------
(* A unit: two sequences that are to be merged into the places from zs on. An   *)
(* element that is in its place already is a unit of its own.                   *)
Unit(X, Y, zs) == [X |-> X, Y |-> Y, zs |-> zs]
Single(v, i) == Unit(<<v>>, <<>>, i)
IsUnit(u) == u.X \in Seq(Items) /\ u.Y \in Seq(Items) /\ u.zs \in Nat
UnitEnd(u) == u.zs + Len(u.X) + Len(u.Y)
Holds(u, b) == From(u.X, u.Y, 0, 0, b)
Under(u, b, lim) == UnderTo(u.X, u.Y, b, lim - u.zs)

(* Units in line: whichever way each of them is merged, the places before lim   *)
(* get the elements that go first, in order.                                    *)
Ahead(u, v, lim) == UnitEnd(u) <= v.zs /\ \A b : Holds(v, b) => Under(u, b, lim)
InLine(U, lim) ==
  /\ \A u \in U : IsUnit(u) /\ Mergeable(u.X, u.Y, lim - u.zs)
  /\ \A u \in U, v \in U : u # v => Ahead(u, v, lim) \/ Ahead(v, u, lim)

\* A unit that lies in the places of u and holds some of its elements.
Refines(w, u, lim) ==
  /\ u.zs <= w.zs /\ UnitEnd(w) <= UnitEnd(u)
  /\ \A b : Holds(w, b) => Holds(u, b)
  /\ \A b \in Items : Under(u, b, lim) => Under(w, b, lim)

LEMMA UnitFields ==
  ASSUME NEW X, NEW Y, NEW zs
  PROVE  Unit(X, Y, zs).X = X /\ Unit(X, Y, zs).Y = Y /\ Unit(X, Y, zs).zs = zs
BY DEF Unit

LEMMA UnitsAreSpans ==
  ASSUME NEW u, IsUnit(u)
  PROVE  u.zs \in Nat /\ UnitEnd(u) \in Nat /\ u.zs <= UnitEnd(u)
<1>1. PICK X \in Seq(Items), Y \in Seq(Items), z \in Nat : X = u.X /\ Y = u.Y /\ z = u.zs
  BY DEF IsUnit
<1>2. Len(X) \in Nat /\ Len(Y) \in Nat
  OBVIOUS
<1>3. UnitEnd(u) = z + Len(X) + Len(Y)
  BY <1>1 DEF UnitEnd
<1> QED BY <1>1, <1>2, <1>3

LEMMA UnitsHoldItems ==
  ASSUME NEW u, IsUnit(u), NEW b, Holds(u, b)
  PROVE  b \in Items
<1>1. PICK X \in Seq(Items), Y \in Seq(Items) : X = u.X /\ Y = u.Y
  BY DEF IsUnit
<1>2. From(X, Y, 0, 0, b)
  BY <1>1 DEF Holds
<1>3. /\ \A i \in 1..Len(X) : X[i] \in Items
      /\ \A i \in 1..Len(Y) : Y[i] \in Items
  BY ElementOfSeq
<1> QED BY <1>2, <1>3 DEF From

\* Units that refine one of those in line can take its place.
LEMMA RefinedInLine ==
  ASSUME NEW U, NEW lim, InLine(U, lim), NEW u \in U, NEW W, InLine(W, lim), \A w \in W : Refines(w, u, lim),
         NEW V, V \subseteq (U \ {u}) \cup W
  PROVE  InLine(V, lim)
<1>1. \A v \in V : (v \in U /\ v # u) \/ v \in W
  OBVIOUS
<1>2. \A v \in V : IsUnit(v) /\ Mergeable(v.X, v.Y, lim - v.zs)
  <2>1. \A v \in U : IsUnit(v) /\ Mergeable(v.X, v.Y, lim - v.zs)
    BY DEF InLine
  <2>2. \A v \in W : IsUnit(v) /\ Mergeable(v.X, v.Y, lim - v.zs)
    BY DEF InLine
  <2> QED BY Zenon, <1>1, <2>1, <2>2
<1>3. ASSUME NEW v \in U, v # u, NEW w \in W
      PROVE  Ahead(v, w, lim) \/ Ahead(w, v, lim)
  <2>1. IsUnit(u) /\ IsUnit(v) /\ IsUnit(w) /\ (Ahead(v, u, lim) \/ Ahead(u, v, lim)) /\ Refines(w, u, lim)
    BY <1>3 DEF InLine
  <2>2. UnitEnd(u) \in Nat /\ UnitEnd(v) \in Nat /\ UnitEnd(w) \in Nat /\ u.zs \in Nat /\ v.zs \in Nat /\ w.zs \in Nat
    BY <2>1, UnitsAreSpans
  <2>3. CASE Ahead(v, u, lim)
    <3>1. UnitEnd(v) <= w.zs
      BY <2>1, <2>2, <2>3 DEF Ahead, Refines
    <3> QED BY <2>1, <2>3, <3>1 DEF Ahead, Refines
  <2>4. CASE Ahead(u, v, lim)
    <3>1. UnitEnd(w) <= v.zs
      BY <2>1, <2>2, <2>4 DEF Ahead, Refines
    <3>2. \A b : Holds(v, b) => b \in Items
      BY <2>1, UnitsHoldItems
    <3> QED BY <2>1, <2>4, <3>1, <3>2 DEF Ahead, Refines
  <2> QED BY <2>1, <2>3, <2>4
<1>4. ASSUME NEW v \in V, NEW w \in V, v # w
      PROVE  Ahead(v, w, lim) \/ Ahead(w, v, lim)
  <2>1. CASE v \in U /\ v # u /\ w \in U /\ w # u
    BY <1>4, <2>1 DEF InLine
  <2>2. CASE v \in W /\ w \in W
    BY <1>4, <2>2 DEF InLine
  <2>3. CASE (v \in U /\ v # u /\ w \in W) \/ (w \in U /\ w # u /\ v \in W)
    BY <1>3, <2>3
  <2> QED BY <1>1, <2>1, <2>2, <2>3
<1> QED BY <1>2, <1>4 DEF InLine

\* An element in its place.
LEMMA Singles ==
  ASSUME NEW v \in Items, NEW i \in Nat, NEW lim \in Nat, NEW s, s = Single(v, i)
  PROVE  /\ IsUnit(s) /\ s.zs = i /\ UnitEnd(s) = i + 1 /\ Mergeable(s.X, s.Y, lim - s.zs)
         /\ \A b : Holds(s, b) <=> b = v
         /\ \A b : Under(s, b, lim) <=> (i < lim => Prec(v, b))
<1>1. PICK X, Y : X = <<v>> /\ Y = <<>>
  OBVIOUS
<1>2. s.X = X /\ s.Y = Y /\ s.zs = i
  BY <1>1, UnitFields DEF Single
<1>3. X \in Seq(Items) /\ Y \in Seq(Items) /\ Len(X) = 1 /\ Len(Y) = 0 /\ X[1] = v
  BY <1>1
<1>4. PICK k \in Int : k = lim - i
  OBVIOUS
<1>5. Mergeable(X, Y, k)
  BY <1>3 DEF Mergeable, SortedTo, CameBefore
<1>6. \A b : From(X, Y, 0, 0, b) <=> b = v
  BY <1>3 DEF From
<1>7. ASSUME NEW b PROVE UnderTo(X, Y, b, k) <=> (i < lim => Prec(v, b))
  <2>1. ASSUME UnderTo(X, Y, b, k), i < lim PROVE Prec(v, b)
    <3>1. PICK c \in 0..1, d \in 0..0 : (c + d >= k \/ c + d >= 1 + 0) /\ BeginsUnder(X, Y, b, c, d)
      BY <1>3, <2>1 DEF UnderTo
    <3>2. c = 1
      BY <1>4, <2>1, <3>1
    <3>3. 1 \in 1..c
      BY <3>2
    <3> QED BY <1>3, <3>1, <3>3 DEF BeginsUnder
  <2>2. ASSUME Prec(v, b) PROVE UnderTo(X, Y, b, k)
    <3>1. BeginsUnder(X, Y, b, 1, 0)
      BY <1>3, <2>2 DEF BeginsUnder
    <3> QED BY <1>3, <3>1 DEF UnderTo
  <2>3. ASSUME ~(i < lim) PROVE UnderTo(X, Y, b, k)
    <3>1. BeginsUnder(X, Y, b, 0, 0) /\ 0 + 0 >= k
      BY <1>4, <2>3 DEF BeginsUnder
    <3> QED BY <1>3, <3>1 DEF UnderTo
  <2> QED BY <2>1, <2>2, <2>3
<1>8. UnitEnd(s) = i + 1
  BY <1>2, <1>3 DEF UnitEnd
<1> QED BY <1>2, <1>3, <1>4, <1>5, <1>6, <1>7, <1>8 DEF IsUnit, Holds, Under

SinglesOf(A, S) == {Single(A[i], i) : i \in S}

LEMMA SinglesInLine ==
  ASSUME NEW A, NEW S \in SUBSET Nat, NEW lim \in Nat, \A i \in S : A[i] \in Items,
         \A i \in S, j \in S : i < j /\ i < lim => Prec(A[i], A[j])
  PROVE  InLine(SinglesOf(A, S), lim)
<1>1. \A u \in SinglesOf(A, S) : \E i \in S : u = Single(A[i], i)
  BY DEF SinglesOf
<1>2. \A u \in SinglesOf(A, S) : IsUnit(u) /\ Mergeable(u.X, u.Y, lim - u.zs)
  BY <1>1, Singles
<1>3. ASSUME NEW u \in SinglesOf(A, S), NEW v \in SinglesOf(A, S), u # v
      PROVE  Ahead(u, v, lim) \/ Ahead(v, u, lim)
  <2>1. PICK i \in S, j \in S : u = Single(A[i], i) /\ v = Single(A[j], j)
    BY <1>1
  <2>2. /\ u.zs = i /\ UnitEnd(u) = i + 1 /\ v.zs = j /\ UnitEnd(v) = j + 1
        /\ \A b : Holds(u, b) <=> b = A[i]
        /\ \A b : Holds(v, b) <=> b = A[j]
        /\ \A b : Under(u, b, lim) <=> (i < lim => Prec(A[i], b))
        /\ \A b : Under(v, b, lim) <=> (j < lim => Prec(A[j], b))
    BY <2>1, Singles
  <2>3. CASE i < j
    <3>1. i + 1 <= j
      BY <2>3
    <3> QED BY <2>2, <2>3, <3>1 DEF Ahead
  <2>4. CASE j < i
    <3>1. j + 1 <= i
      BY <2>4
    <3> QED BY <2>2, <2>4, <3>1 DEF Ahead
  <2>5. i # j
    BY <1>3, <2>1
  <2> QED BY <2>3, <2>4, <2>5
<1> QED BY <1>2, <1>3 DEF InLine

LEMMA SinglesAreInOrder ==
  ASSUME NEW a \in Items, NEW b \in Items, NEW i \in Nat, NEW j \in Nat, NEW lim \in Nat, i < j, i < lim,
         NEW U, InLine(U, lim), Single(a, i) \in U, Single(b, j) \in U
  PROVE  Prec(a, b)
<1>1. PICK u \in U, v \in U : u = Single(a, i) /\ v = Single(b, j)
  OBVIOUS
<1>2. /\ u.zs = i /\ UnitEnd(u) = i + 1 /\ v.zs = j /\ UnitEnd(v) = j + 1
      /\ \A c : Holds(v, c) <=> c = b
      /\ \A c : Under(u, c, lim) <=> (i < lim => Prec(a, c))
  BY <1>1, Singles
<1>3. u # v /\ ~(j + 1 <= i)
  BY <1>2
<1>4. Ahead(u, v, lim)
  BY <1>2, <1>3 DEF InLine, Ahead
<1> QED BY <1>2, <1>4 DEF Ahead
-------------------------------------------------------------------------------
\* The elements A[i], at the places of u, are one by one what u stands for.
Settles(A, u, lim) ==
  /\ \A i \in Span(u.zs, UnitEnd(u)) : A[i] \in Items /\ Holds(u, A[i])
  /\ \A i \in Span(u.zs, UnitEnd(u)) : i < lim =>
       /\ \A j \in Span(u.zs, UnitEnd(u)) : i < j => Prec(A[i], A[j])
       /\ \A b \in Items : Under(u, b, lim) => Prec(A[i], b)

LEMMA SettledInLine ==
  ASSUME NEW u, IsUnit(u), NEW lim \in Nat, NEW A, Settles(A, u, lim),
         NEW W, W = SinglesOf(A, Span(u.zs, UnitEnd(u)))
  PROVE  InLine(W, lim) /\ \A w \in W : Refines(w, u, lim)
<1>1. PICK z \in Nat, e \in Nat : z = u.zs /\ e = UnitEnd(u)
  BY DEF IsUnit, UnitEnd
<1>2. PICK S : S = Span(z, e)
  OBVIOUS
<1>3. S \in SUBSET Nat /\ \A i \in S : z <= i /\ i + 1 <= e
  BY <1>2 DEF Span
<1>4. /\ \A i \in S : A[i] \in Items /\ Holds(u, A[i])
      /\ \A i \in S, j \in S : i < j /\ i < lim => Prec(A[i], A[j])
      /\ \A i \in S, b \in Items : i < lim /\ Under(u, b, lim) => Prec(A[i], b)
  BY <1>1, <1>2 DEF Settles
<1>5. InLine(W, lim)
  <2>1. InLine(SinglesOf(A, S), lim)
    BY <1>3, <1>4, SinglesInLine
  <2> QED BY <1>1, <1>2, <2>1
<1>6. ASSUME NEW w \in W PROVE Refines(w, u, lim)
  <2>1. PICK i \in S : w = Single(A[i], i)
    BY <1>1, <1>2 DEF SinglesOf
  <2>2. /\ w.zs = i /\ UnitEnd(w) = i + 1
        /\ \A b : Holds(w, b) <=> b = A[i]
        /\ \A b : Under(w, b, lim) <=> (i < lim => Prec(A[i], b))
    BY <1>3, <1>4, <2>1, Singles
  <2> QED BY <1>1, <1>3, <1>4, <2>2 DEF Refines
<1> QED BY <1>5, <1>6

\* The places of a unit, and what fills them.
Filled(A, X, Y, z, o) == \A i \in Span(z, z + Len(X) + Len(Y)) : A[i] = o[i - z + 1]

LEMMA PlacesOf ==
  ASSUME NEW z \in Nat, NEW nx \in Nat, NEW ny \in Nat
  PROVE  /\ Span(z, z + nx + ny) \in SUBSET Nat
         /\ \A i \in Span(z, z + nx + ny) : i \in Nat /\ z <= i /\ i < z + nx + ny /\ i - z + 1 \in 1..(nx + ny)
<1>1. PICK e \in Nat : e = z + nx + ny
  OBVIOUS
<1> QED BY <1>1 DEF Span

\* What a serial merge leaves in the places of a unit.
LEMMA MergedInLine ==
  ASSUME NEW X \in Seq(Items), NEW Y \in Seq(Items), NEW z \in Nat, NEW nx \in Nat, NEW ny \in Nat,
         nx = Len(X), ny = Len(Y), NEW u, u = Unit(X, Y, z), NEW lim \in Nat, NEW k \in Int, k = lim - z,
         Mergeable(X, Y, k), NEW nmerge \in Nat, k <= nmerge \/ nx + ny <= nmerge,
         NEW A, Filled(A, X, Y, z, SerialMoveMerge(X, Y, nmerge))
  PROVE  Settles(A, u, lim)
<1>1. PICK o : o = SerialMoveMerge(X, Y, nmerge)
  OBVIOUS
<1>2. /\ IsUnit(u) /\ u.X = X /\ u.Y = Y /\ u.zs = z /\ UnitEnd(u) = z + nx + ny
      /\ \A i \in Span(z, z + nx + ny) : i \in Nat /\ z <= i /\ i < z + nx + ny /\ i - z + 1 \in 1..(nx + ny)
  <2>1. IsUnit(u) /\ u.X = X /\ u.Y = Y /\ u.zs = z /\ UnitEnd(u) = z + nx + ny
    <3>1. u.X = X /\ u.Y = Y /\ u.zs = z
      BY UnitFields
    <3> QED BY <3>1 DEF IsUnit, UnitEnd
  <2> QED BY <2>1, PlacesOf
<1>3. o \in Seq(Items) /\ Len(o) = nx + ny /\ Traced(X, Y, nmerge, 0, 0, o)
  BY <1>1, MergedElements, MergesAreTraced
<1>4. \A r \in 1..(nx + ny) : o[r] \in Items /\ Holds(u, o[r])
  <2> SUFFICES ASSUME NEW r \in 1..(nx + ny) PROVE o[r] \in Items /\ From(X, Y, 0, 0, o[r])
    BY <1>2 DEF Holds
  <2>1. 0 \in 0..nx /\ 0 \in 0..ny /\ r \in 1..Len(o)
    BY <1>3
  <2>2. o[r] \in Items
    BY <1>3, <2>1, ElementOfSeq
  <2>3. From(X, Y, 0, 0, o[r])
    BY <1>1, <1>3, <2>1, TracedComesFrom
  <2> QED BY <2>2, <2>3
<1>5. \A r \in 1..(nx + ny) : r <= k => /\ \A q \in 1..(nx + ny) : r < q => Prec(o[r], o[q])
                                        /\ \A b \in Items : Under(u, b, lim) => Prec(o[r], b)
  <2> SUFFICES ASSUME NEW r \in 1..(nx + ny), r <= k
               PROVE  /\ \A q \in 1..(nx + ny) : r < q => Prec(o[r], o[q])
                      /\ \A b \in Items : UnderTo(X, Y, b, k) => Prec(o[r], b)
    BY <1>2 DEF Under
  <2> QED BY ZenonT(60), <1>3, MergeSorts
<1>6. PICK S : S = Span(z, z + nx + ny)
  OBVIOUS
<1>7. \A i \in S : i - z + 1 \in 1..(nx + ny) /\ A[i] = o[i - z + 1] /\ (i < lim => i - z + 1 <= k)
  <2>1. \A i \in S : A[i] = o[i - z + 1]
    BY <1>1, <1>6 DEF Filled
  <2>2. \A i \in S : i - z + 1 \in 1..(nx + ny) /\ (i < lim => i - z + 1 <= k)
    BY <1>2, <1>6
  <2> QED BY <2>1, <2>2
<1>8. \A i \in S, j \in S : i < j => i - z + 1 < j - z + 1
  BY <1>2, <1>6
<1>9. ASSUME NEW i \in S PROVE A[i] \in Items /\ Holds(u, A[i])
  <2>1. PICK r \in 1..(nx + ny) : r = i - z + 1
    BY <1>7
  <2> QED BY <1>4, <1>7, <2>1
<1>10. ASSUME NEW i \in S, i < lim
       PROVE  /\ \A j \in S : i < j => Prec(A[i], A[j])
              /\ \A b \in Items : Under(u, b, lim) => Prec(A[i], b)
  <2>1. PICK r \in 1..(nx + ny) : r = i - z + 1 /\ r <= k /\ A[i] = o[r]
    BY <1>7, <1>10
  <2>2. ASSUME NEW j \in S, i < j PROVE Prec(A[i], A[j])
    <3>1. PICK q \in 1..(nx + ny) : q = j - z + 1 /\ A[j] = o[q]
      BY <1>7
    <3>2. r < q
      BY <1>8, <2>1, <2>2, <3>1
    <3> QED BY <1>5, <2>1, <3>1, <3>2
  <2> QED BY <1>5, <2>1, <2>2
<1> QED BY <1>2, <1>6, <1>9, <1>10 DEF Settles

\* Two sequences of which the second may follow the first are one in order already.
Follows(X, Y, n) == \E e \in 1..Len(X) : (e = n \/ e = Len(X)) /\ e <= n /\ 1 \in 1..Len(Y) /\ ~Less(Y[1], X[e])

LEMMA FollowedInLine ==
  ASSUME NEW X \in Seq(Items), NEW Y \in Seq(Items), NEW z \in Nat, NEW nx \in Nat, NEW ny \in Nat,
         nx = Len(X), ny = Len(Y), NEW lim \in Nat, NEW k \in Int, k = lim - z,
         Mergeable(X, Y, k), Follows(X, Y, k), NEW A, Filled(A, X, Y, z, X \o Y)
  PROVE  InLine(SinglesOf(A, Span(z, z + nx + ny)), lim)
<1>1. PICK o : o = X \o Y
  OBVIOUS
<1>2. /\ \A i \in Span(z, z + nx + ny) : i \in Nat /\ z <= i /\ i < z + nx + ny /\ i - z + 1 \in 1..(nx + ny)
      /\ \A r \in 1..(nx + ny) : o[r] = IF r <= nx THEN X[r] ELSE Y[r - nx]
      /\ Span(z, z + nx + ny) \in SUBSET Nat
  <2>1. \A r \in 1..(nx + ny) : o[r] = IF r <= nx THEN X[r] ELSE Y[r - nx]
    BY <1>1, OneAfterAnother
  <2> QED BY <2>1, PlacesOf
<1>3. PICK e \in 1..nx : (e = k \/ e = nx) /\ e <= k /\ 1 \in 1..ny /\ ~Less(Y[1], X[e])
  BY DEF Follows
<1>4. /\ \A r \in 1..nx : X[r] \in Items
      /\ \A r \in 1..ny : Y[r] \in Items
  BY <1>1, ElementOfSeq
<1>5. \A a \in Items, b \in Items, c \in Items : Prec(a, b) /\ Prec(b, c) => Prec(a, c)
  BY PrecIsAnOrder
<1>6. ASSUME NEW r \in 1..nx, r <= k, NEW q \in 1..ny PROVE Prec(X[r], Y[q])
  <2>1. Prec(X[r], X[e])
    <3>1. CASE r = e
      BY <1>4, <3>1, PrecIsAnOrder
    <3>2. CASE r # e
      <4>1. r < e
        BY <1>3, <1>6, <3>2
      <4> QED BY <1>1, <1>2, <1>6, <4>1 DEF Mergeable, SortedTo
    <3> QED BY <3>1, <3>2
  <2>2. Prec(X[e], Y[1])
    <3>1. stable => X[e][2] < Y[1][2]
      BY <1>1, <1>2, <1>3 DEF Mergeable, CameBefore
    <3> QED BY <1>3, <1>4, <3>1, PrecIsAnOrder
  <2>3. Prec(Y[1], Y[q])
    <3>1. CASE q = 1
      BY <1>4, <3>1, PrecIsAnOrder
    <3>2. CASE q # 1
      <4>1. 1 < q /\ 1 <= k
        BY <1>3, <3>2
      <4> QED BY <1>1, <1>2, <1>3, <4>1 DEF Mergeable, SortedTo
    <3> QED BY <3>1, <3>2
  <2>4. Prec(X[r], Y[1])
    BY <1>3, <1>4, <1>5, <2>1, <2>2
  <2> QED BY <1>3, <1>4, <1>5, <2>3, <2>4
<1>7. PICK S : S = Span(z, z + nx + ny)
  OBVIOUS
<1>8. \A i \in S : \/ i - z + 1 \in 1..nx /\ A[i] = X[i - z + 1]
                   \/ i - z + 1 > nx /\ i - z + 1 - nx \in 1..ny /\ A[i] = Y[i - z + 1 - nx]
  <2> SUFFICES ASSUME NEW i \in S
               PROVE  \/ i - z + 1 \in 1..nx /\ A[i] = X[i - z + 1]
                      \/ i - z + 1 > nx /\ i - z + 1 - nx \in 1..ny /\ A[i] = Y[i - z + 1 - nx]
    OBVIOUS
  <2>1. A[i] = o[i - z + 1]
    BY <1>1, <1>7 DEF Filled
  <2>2. PICK r \in 1..(nx + ny) : r = i - z + 1
    BY <1>2, <1>7
  <2>3. A[i] = IF r <= nx THEN X[r] ELSE Y[r - nx]
    BY <1>2, <2>1, <2>2
  <2>4. CASE r <= nx
    BY <2>2, <2>3, <2>4
  <2>5. CASE ~(r <= nx)
    <3>1. i - z + 1 > nx /\ i - z + 1 - nx = r - nx /\ r - nx \in 1..ny
      <4>1. i \in Nat
        BY <1>2, <1>7
      <4> QED BY <2>2, <2>5, <4>1
    <3>2. A[i] = Y[r - nx]
      BY <2>3, <2>5
    <3> QED BY <3>1, <3>2
  <2> QED BY <2>4, <2>5
<1>9. ASSUME NEW i \in S, i < lim, NEW j \in S, i < j PROVE Prec(A[i], A[j])
  <2>1. i \in Nat /\ j \in Nat
    BY <1>2, <1>7
  <2>2. CASE i - z + 1 \in 1..nx /\ A[i] = X[i - z + 1]
    <3>1. PICK r \in 1..nx : r = i - z + 1 /\ A[i] = X[r] /\ r <= k
      BY <1>1, <1>9, <2>1, <2>2
    <3>2. CASE j - z + 1 \in 1..nx /\ A[j] = X[j - z + 1]
      <4>1. PICK q \in 1..nx : q = j - z + 1 /\ A[j] = X[q]
        BY <3>2
      <4>2. r < q
        BY <1>9, <2>1, <3>1, <4>1
      <4> QED BY <1>1, <1>2, <3>1, <4>1, <4>2 DEF Mergeable, SortedTo
    <3>3. CASE j - z + 1 - nx \in 1..ny /\ A[j] = Y[j - z + 1 - nx]
      BY <1>6, <3>1, <3>3
    <3> QED BY <1>8, <3>2, <3>3
  <2>3. CASE i - z + 1 > nx /\ i - z + 1 - nx \in 1..ny /\ A[i] = Y[i - z + 1 - nx]
    <3>1. PICK r \in 1..ny : r = i - z + 1 - nx /\ A[i] = Y[r] /\ r <= k
      BY <1>1, <1>9, <2>1, <2>3
    <3>2. j - z + 1 > nx
      BY <1>9, <2>1, <2>3
    <3>3. PICK q \in 1..ny : q = j - z + 1 - nx /\ A[j] = Y[q]
      BY SMTT(30), <1>8, <2>1, <3>2
    <3>4. r < q
      BY <1>9, <2>1, <3>1, <3>3
    <3> QED BY <1>1, <1>2, <3>1, <3>3, <3>4 DEF Mergeable, SortedTo
  <2> QED BY <1>8, <2>2, <2>3
<1>10. ASSUME NEW i \in S PROVE A[i] \in Items
  BY <1>4, <1>8
<1> QED BY ZenonT(60), <1>2, <1>7, <1>9, <1>10, SinglesInLine
-------------------------------------------------------------------------------
\* Where split_merging cuts: around the element v in the middle of one sequence, and
\* in the other where a binary search for v ended.
FoundUp(X, c, v) == (c = 0 \/ ~Less(v, X[c])) /\ (c = Len(X) \/ Less(v, X[c + 1]))
FoundLow(Y, d, v) == (d = 0 \/ Less(Y[d], v)) /\ (d = Len(Y) \/ ~Less(Y[d + 1], v))
IsSplitPoint(X, Y, c, d) ==
  \/ d < Len(Y) /\ FoundUp(X, c, Y[d + 1])
  \/ c < Len(X) /\ FoundLow(Y, d, X[c + 1])

\* Only the first k elements are sorted, and yet the cut fits.
LEMMA SplitPointsFit ==
  ASSUME NEW X \in Seq(Items), NEW Y \in Seq(Items), NEW nx \in Nat, NEW ny \in Nat,
         nx = Len(X), ny = Len(Y), NEW k \in Int, Mergeable(X, Y, k), NEW c \in 0..nx, NEW d \in 0..ny,
         IsSplitPoint(X, Y, c, d)
  PROVE  CutFits(X, Y, c, d, k)
<1>1. /\ \A i \in 1..nx : X[i] \in Items
      /\ \A i \in 1..ny : Y[i] \in Items
  BY ElementOfSeq
<1>2. \A p \in Items, q \in Items, v \in Items : Prec(p, q) /\ Prec(q, v) => Prec(p, v)
  BY PrecIsAnOrder
<1>3. \A v \in Items : Prec(v, v)
  BY PrecIsAnOrder
<1>4. /\ \A i \in 1..nx, j \in 1..nx : i <= j /\ i <= k => Prec(X[i], X[j])
      /\ \A i \in 1..ny, j \in 1..ny : i <= j /\ i <= k => Prec(Y[i], Y[j])
  <2>1. ASSUME NEW i \in 1..nx, NEW j \in 1..nx, i <= j, i <= k PROVE Prec(X[i], X[j])
    <3>1. CASE i = j
      BY <1>1, <1>3, <3>1
    <3>2. CASE i < j
      BY <2>1, <3>2 DEF Mergeable, SortedTo
    <3> QED BY <2>1, <3>1, <3>2
  <2>2. ASSUME NEW i \in 1..ny, NEW j \in 1..ny, i <= j, i <= k PROVE Prec(Y[i], Y[j])
    <3>1. CASE i = j
      BY <1>1, <1>3, <3>1
    <3>2. CASE i < j
      BY <2>2, <3>2 DEF Mergeable, SortedTo
    <3> QED BY <2>2, <3>1, <3>2
  <2> QED BY <2>1, <2>2
<1>5. /\ \A i \in 1..nx, j \in 1..ny : /\ ~Less(Y[j], X[i]) => Prec(X[i], Y[j])
                                       /\ Less(Y[j], X[i]) => Prec(Y[j], X[i])
                                       /\ Less(X[i], Y[j]) => Prec(X[i], Y[j])
  <2> SUFFICES ASSUME NEW i \in 1..nx, NEW j \in 1..ny
               PROVE  /\ ~Less(Y[j], X[i]) => Prec(X[i], Y[j])
                      /\ Less(Y[j], X[i]) => Prec(Y[j], X[i])
                      /\ Less(X[i], Y[j]) => Prec(X[i], Y[j])
    OBVIOUS
  <2>1. PICK a \in Items, b \in Items : a = X[i] /\ b = Y[j]
    BY <1>1
  <2>2. stable => a[2] < b[2]
    BY <2>1 DEF Mergeable, CameBefore
  <2>3. /\ ~Less(b, a) => Prec(a, b)
        /\ Less(b, a) => Prec(b, a)
        /\ Less(a, b) => Prec(a, b)
    BY <2>2, PrecIsAnOrder
  <2> QED BY <2>1, <2>3
<1>6. CASE d < ny /\ FoundUp(X, c, Y[d + 1])
  <2>1. d + 1 \in 1..ny
    BY <1>6
  <2>2. ASSUME NEW i \in 1..c, i <= k PROVE Prec(X[i], Y[d + 1])
    <3>1. c \in 1..nx /\ i \in 1..nx /\ i <= c
      OBVIOUS
    <3>2. Prec(X[c], Y[d + 1])
      BY <1>5, <1>6, <2>1, <3>1 DEF FoundUp
    <3>3. Prec(X[i], X[c])
      BY <1>4, <2>2, <3>1
    <3> QED BY <1>1, <1>2, <2>1, <3>1, <3>2, <3>3
  <2>3. ASSUME c < nx, NEW i \in 1..d, i <= k PROVE Prec(Y[i], X[c + 1])
    <3>1. c + 1 \in 1..nx /\ i \in 1..ny /\ i <= d + 1
      BY <2>3
    <3>2. Prec(Y[d + 1], X[c + 1])
      BY <1>5, <1>6, <2>1, <2>3, <3>1 DEF FoundUp
    <3>3. Prec(Y[i], Y[d + 1])
      BY <1>4, <2>1, <2>3, <3>1
    <3> QED BY <1>1, <1>2, <2>1, <3>1, <3>2, <3>3
  <2> QED BY <2>2, <2>3 DEF CutFits
<1>7. CASE c < nx /\ FoundLow(Y, d, X[c + 1])
  <2>1. c + 1 \in 1..nx
    BY <1>7
  <2>2. ASSUME NEW i \in 1..d, i <= k PROVE Prec(Y[i], X[c + 1])
    <3>1. d \in 1..ny /\ i \in 1..ny /\ i <= d
      OBVIOUS
    <3>2. Prec(Y[d], X[c + 1])
      BY <1>5, <1>7, <2>1, <3>1 DEF FoundLow
    <3>3. Prec(Y[i], Y[d])
      BY <1>4, <2>2, <3>1
    <3> QED BY <1>1, <1>2, <2>1, <3>1, <3>2, <3>3
  <2>3. ASSUME d < ny, NEW i \in 1..c, i <= k PROVE Prec(X[i], Y[d + 1])
    <3>1. d + 1 \in 1..ny /\ i \in 1..nx /\ i <= c + 1
      BY <2>3
    <3>2. Prec(X[c + 1], Y[d + 1])
      BY <1>5, <1>7, <2>1, <2>3, <3>1 DEF FoundLow
    <3>3. Prec(X[i], X[c + 1])
      BY <1>4, <2>1, <2>3, <3>1
    <3> QED BY <1>1, <1>2, <2>1, <3>1, <3>2, <3>3
  <2> QED BY <2>2, <2>3 DEF CutFits
<1> QED BY <1>6, <1>7 DEF IsSplitPoint

\* A unit that is cut in two.
LEMMA CutsInLine ==
  ASSUME NEW X \in Seq(Items), NEW Y \in Seq(Items), NEW z \in Nat, NEW nx \in Nat, NEW ny \in Nat,
         nx = Len(X), ny = Len(Y), NEW u, u = Unit(X, Y, z), NEW lim \in Nat, NEW k \in Int, k = lim - z,
         Mergeable(X, Y, k), NEW c \in 0..nx, NEW d \in 0..ny, IsSplitPoint(X, Y, c, d),
         NEW XF \in Seq(Items), NEW XR \in Seq(Items), NEW YF \in Seq(Items), NEW YR \in Seq(Items),
         IsCut(X, XF, XR, c), IsCut(Y, YF, YR, d),
         NEW l, NEW r, l = Unit(XF, YF, z), r = Unit(XR, YR, z + c + d)
  PROVE  InLine({l, r}, lim) /\ Refines(l, u, lim) /\ Refines(r, u, lim)
<1>1. PICK zr \in Nat, kr \in Int : zr = z + c + d /\ kr = k - (c + d)
  <2>1. z + c + d \in Nat
    OBVIOUS
  <2> QED BY <2>1
<1>2. /\ u.X = X /\ u.Y = Y /\ u.zs = z
      /\ l.X = XF /\ l.Y = YF /\ l.zs = z
      /\ r.X = XR /\ r.Y = YR /\ r.zs = zr
  BY <1>1, UnitFields
<1>3. Len(XF) = c /\ Len(YF) = d /\ Len(XR) = nx - c /\ Len(YR) = ny - d
  BY DEF IsCut
<1>4. UnitEnd(u) = z + nx + ny /\ UnitEnd(l) = z + c + d /\ UnitEnd(r) = zr + (nx - c) + (ny - d)
  BY <1>2, <1>3 DEF UnitEnd
<1>5. IsUnit(l) /\ IsUnit(r)
  BY <1>2 DEF IsUnit
<1>6. CutFits(X, Y, c, d, k)
  BY SplitPointsFit
<1>7. lim - l.zs = k /\ lim - r.zs = kr /\ lim - u.zs = k
  BY <1>1, <1>2
<1>8. Mergeable(XF, YF, k) /\ Mergeable(XR, YR, kr)
  BY <1>1, CutsAreMergeable
<1>9. \A b : From(XR, YR, 0, 0, b) => UnderTo(XF, YF, b, k)
  BY <1>6, CutsGoBefore
<1>10. \A b \in Items : UnderTo(X, Y, b, k) => UnderTo(XF, YF, b, k) /\ UnderTo(XR, YR, b, kr)
  BY <1>1, <1>6, CutsStayUnder
<1>11. \A b : From(XF, YF, 0, 0, b) => From(X, Y, 0, 0, b)
  <2>1. /\ \A i \in 1..c : XF[i] = X[i] /\ i \in 1..nx
        /\ \A i \in 1..d : YF[i] = Y[i] /\ i \in 1..ny
    BY DEF IsCut
  <2> QED BY <1>3, <2>1 DEF From
<1>12. \A b : From(XR, YR, 0, 0, b) => From(X, Y, 0, 0, b)
  <2>1. /\ \A i \in 1..(nx - c) : XR[i] = X[c + i] /\ c + i \in 1..nx
        /\ \A i \in 1..(ny - d) : YR[i] = Y[d + i] /\ d + i \in 1..ny
    BY DEF IsCut
  <2> SUFFICES ASSUME NEW b, From(XR, YR, 0, 0, b) PROVE From(X, Y, 0, 0, b)
    OBVIOUS
  <2>2. CASE \E i \in 1..(nx - c) : b = XR[i]
    <3>1. PICK i \in 1..(nx - c) : b = X[c + i] /\ c + i \in 1..nx
      BY <2>1, <2>2
    <3> QED BY <3>1 DEF From
  <2>3. CASE \E i \in 1..(ny - d) : b = YR[i]
    <3>1. PICK i \in 1..(ny - d) : b = Y[d + i] /\ d + i \in 1..ny
      BY <2>1, <2>3
    <3> QED BY <3>1 DEF From
  <2> QED BY <1>3, <2>2, <2>3 DEF From
<1>13. Ahead(l, r, lim)
  BY <1>1, <1>2, <1>4, <1>7, <1>9 DEF Ahead, Holds, Under
<1>14. InLine({l, r}, lim)
  BY <1>2, <1>5, <1>7, <1>8, <1>13 DEF InLine
<1>15. Refines(l, u, lim)
  <2>1. u.zs <= l.zs /\ UnitEnd(l) <= UnitEnd(u)
    BY <1>2, <1>4
  <2> QED BY <1>2, <1>7, <1>10, <1>11, <2>1 DEF Refines, Holds, Under
<1>16. Refines(r, u, lim)
  <2>1. z <= zr /\ zr + (nx - c) + (ny - d) = z + nx + ny
    BY <1>1
  <2>2. u.zs <= r.zs /\ UnitEnd(r) <= UnitEnd(u)
    BY <1>2, <1>4, <2>1
  <2> QED BY <1>2, <1>7, <1>10, <1>12, <2>2 DEF Refines, Holds, Under
<1> QED BY <1>14, <1>15, <1>16
-------------------------------------------------------------------------------
(* The slots of a task, as sequences.                                          *)
Reads(X, array, lo, n) == X \in Seq(Items) /\ Len(X) = n /\ \A r \in 1..n : X[r] = array[lo + r - 1]

LEMMA SlotsAt ==
  ASSUME NEW array, NEW lo \in Nat, NEW hi \in Nat, lo <= hi, \A i \in Span(lo, hi) : array[i] \in Items
  PROVE  Reads(SlotsOf(array, lo, hi), array, lo, hi - lo)
<1>1. PICK X, n : n \in Nat /\ X = SlotsOf(array, lo, hi) /\ n = hi - lo
  <2>1. hi - lo \in Nat
    OBVIOUS
  <2> QED BY <2>1
<1>2. X = [r \in 1..n |-> array[lo + r - 1]]
  BY <1>1 DEF SlotsOf
<1>3. \A r \in 1..n : X[r] = array[lo + r - 1]
  BY <1>2
<1>4. X \in Seq(Items) /\ Len(X) = n
  BY <1>1, SlotsMakeSequences
<1> QED BY <1>1, <1>3, <1>4 DEF Reads

LEMMA SlotsAreCut ==
  ASSUME NEW array, NEW lo \in Nat, NEW hi \in Nat, NEW mid \in Nat, lo <= mid, mid <= hi,
         \A i \in Span(lo, hi) : array[i] \in Items,
         NEW X, X = SlotsOf(array, lo, hi), NEW F, F = SlotsOf(array, lo, mid), NEW R, R = SlotsOf(array, mid, hi)
  PROVE  X \in Seq(Items) /\ F \in Seq(Items) /\ R \in Seq(Items) /\ IsCut(X, F, R, mid - lo)
<1>1. PICK n \in Nat, c \in Nat, d \in Nat : n = hi - lo /\ c = mid - lo /\ d = hi - mid
  <2>1. hi - lo \in Nat /\ mid - lo \in Nat /\ hi - mid \in Nat
    OBVIOUS
  <2> QED BY <2>1
<1>2. n - c = d /\ c <= n /\ \A r \in 1..d : mid + r - 1 = lo + (c + r) - 1 /\ c + r \in 1..n
  BY <1>1
<1>3. (\A i \in Span(lo, mid) : i \in Span(lo, hi)) /\ (\A i \in Span(mid, hi) : i \in Span(lo, hi))
  BY DEF Span
<1>4. /\ X \in Seq(Items) /\ Len(X) = n
      /\ \A r \in 1..n : X[r] = array[lo + r - 1]
  <2>1. Reads(SlotsOf(array, lo, hi), array, lo, hi - lo)
    BY SlotsAt
  <2> QED BY <1>1, <2>1 DEF Reads
<1>5. /\ F \in Seq(Items) /\ Len(F) = c
      /\ \A r \in 1..c : F[r] = array[lo + r - 1]
  <2>1. \A i \in Span(lo, mid) : array[i] \in Items
    BY <1>3
  <2>2. Reads(SlotsOf(array, lo, mid), array, lo, mid - lo)
    BY <2>1, SlotsAt
  <2> QED BY <1>1, <2>2 DEF Reads
<1>6. /\ R \in Seq(Items) /\ Len(R) = d
      /\ \A r \in 1..d : R[r] = array[mid + r - 1]
  <2>1. \A i \in Span(mid, hi) : array[i] \in Items
    BY <1>3
  <2>2. Reads(SlotsOf(array, mid, hi), array, mid, hi - mid)
    BY <2>1, SlotsAt
  <2> QED BY <1>1, <2>2 DEF Reads
<1>7. \A r \in 1..c : F[r] = X[r]
  <2>1. \A r \in 1..c : r \in 1..n
    BY <1>2
  <2> QED BY <1>4, <1>5, <2>1
<1>8. \A r \in 1..d : R[r] = X[c + r]
  BY <1>2, <1>4, <1>6
<1> QED BY <1>1, <1>2, <1>4, <1>5, <1>6, <1>7, <1>8 DEF IsCut

\* What one array holds in a range is in order up to lim.
InOrderTo(array, lo, hi, lim) ==
  /\ \A i \in Span(lo, hi) : array[i] \in Items
  /\ \A i \in Span(lo, hi), j \in Span(lo, hi) : i < j /\ i < lim => Prec(array[i], array[j])

LEMMA SlotsAreSorted ==
  ASSUME NEW array, NEW lo \in Nat, NEW hi \in Nat, lo <= hi, NEW k \in Int, InOrderTo(array, lo, hi, lo + k),
         NEW X, X = SlotsOf(array, lo, hi)
  PROVE  SortedTo(X, k)
<1>1. PICK n \in Nat : n = hi - lo
  <2>1. hi - lo \in Nat
    OBVIOUS
  <2> QED BY <2>1
<1>2. /\ Len(X) = n
      /\ \A r \in 1..n : X[r] = array[lo + r - 1] /\ lo + r - 1 \in Span(lo, hi)
  <2>1. Reads(SlotsOf(array, lo, hi), array, lo, hi - lo)
    BY SlotsAt DEF InOrderTo
  <2>2. \A r \in 1..n : lo + r - 1 \in Span(lo, hi)
    BY <1>1 DEF Span
  <2> QED BY <1>1, <2>1, <2>2 DEF Reads
<1>3. ASSUME NEW r \in 1..n, NEW q \in 1..n, r < q, r <= k PROVE Prec(X[r], X[q])
  <2>1. lo + r - 1 < lo + q - 1 /\ lo + r - 1 < lo + k
    BY <1>3
  <2> QED BY <1>2, <2>1 DEF InOrderTo
<1> QED BY <1>2, <1>3 DEF SortedTo

\* Two ranges that lie in one array, one after the other, are where X \o Y would be.
LEMMA SlotsFollow ==
  ASSUME NEW array, NEW lo \in Nat, NEW hi \in Nat, NEW mid \in Nat, lo <= mid, mid <= hi,
         \A i \in Span(lo, hi) : array[i] \in Items,
         NEW F, F = SlotsOf(array, lo, mid), NEW R, R = SlotsOf(array, mid, hi)
  PROVE  Filled(array, F, R, lo, F \o R)
<1>1. PICK c \in Nat, d \in Nat : c = mid - lo /\ d = hi - mid
  <2>1. mid - lo \in Nat /\ hi - mid \in Nat
    OBVIOUS
  <2> QED BY <2>1
<1>2. (\A i \in Span(lo, mid) : i \in Span(lo, hi)) /\ (\A i \in Span(mid, hi) : i \in Span(lo, hi))
  BY DEF Span
<1>3. /\ F \in Seq(Items) /\ Len(F) = c
      /\ \A r \in 1..c : F[r] = array[lo + r - 1]
  <2>1. \A i \in Span(lo, mid) : array[i] \in Items
    BY <1>2
  <2>2. Reads(SlotsOf(array, lo, mid), array, lo, mid - lo)
    BY <2>1, SlotsAt
  <2> QED BY <1>1, <2>2 DEF Reads
<1>4. /\ R \in Seq(Items) /\ Len(R) = d
      /\ \A r \in 1..d : R[r] = array[mid + r - 1]
  <2>1. \A i \in Span(mid, hi) : array[i] \in Items
    BY <1>2
  <2>2. Reads(SlotsOf(array, mid, hi), array, mid, hi - mid)
    BY <2>1, SlotsAt
  <2> QED BY <1>1, <2>2 DEF Reads
<1>5. PICK o : o = F \o R
  OBVIOUS
<1>6. \A r \in 1..(c + d) : o[r] = IF r <= c THEN F[r] ELSE R[r - c]
  <2>1. F \in Seq(Items) /\ R \in Seq(Items) /\ c = Len(F) /\ d = Len(R)
    BY <1>3, <1>4
  <2> QED BY <1>5, <2>1, OneAfterAnother
<1>7. ASSUME NEW i \in Span(lo, lo + c + d) PROVE array[i] = o[i - lo + 1]
  <2>1. PICK r \in 1..(c + d) : r = i - lo + 1 /\ i = lo + r - 1
    <3>1. i - lo + 1 \in 1..(c + d) /\ i = lo + (i - lo + 1) - 1
      BY <1>7 DEF Span
    <3> QED BY <3>1
  <2>2. CASE r <= c
    <3>1. r \in 1..c
      BY <2>2
    <3> QED BY <1>3, <1>6, <2>1, <2>2, <3>1
  <2>3. CASE ~(r <= c)
    <3>1. PICK q \in 1..d : q = r - c /\ mid + q - 1 = i
      <4>1. r - c \in 1..d /\ mid + (r - c) - 1 = i
        BY <1>1, <2>1, <2>3
      <4> QED BY <4>1
    <3>2. o[r] = R[q] /\ R[q] = array[i]
      BY <1>4, <1>6, <2>3, <3>1
    <3> QED BY <2>1, <3>2
  <2> QED BY <2>2, <2>3
<1> QED BY <1>3, <1>4, <1>5, <1>7 DEF Filled

\* The merge task looks at the right elements.
LEMMA SplitPointsAreThose ==
  ASSUME NEW m \in MergeTasks, m.xs <= m.xe, m.ys <= m.ye, SizeOf(m) > MergeCutOff, NEW from,
         \A i \in MergeInputs(m) : from[i] \in Items, NEW cut \in SplitPoints(m, from),
         NEW X, X = SlotsOf(from, m.xs, m.xe), NEW Y, Y = SlotsOf(from, m.ys, m.ye)
  PROVE  IsSplitPoint(X, Y, cut[1] - m.xs, cut[2] - m.ys)
<1>1. PICK xs \in Nat, xe \in Nat, ys \in Nat, ye \in Nat : xs = m.xs /\ xe = m.xe /\ ys = m.ys /\ ye = m.ye
  BY DEF MergeTasks
<1>2. PICK nx \in Nat, ny \in Nat : nx = xe - xs /\ ny = ye - ys
  <2>1. xe - xs \in Nat /\ ye - ys \in Nat
    BY <1>1
  <2> QED BY <2>1
<1>3. nx + ny > MergeCutOff /\ MergeCutOff \in Nat /\ MergeCutOff # 0
  BY <1>1, <1>2, SortAssumption DEF SizeOf
<1>4. /\ \A i \in Span(xs, xe) : from[i] \in Items
      /\ \A i \in Span(ys, ye) : from[i] \in Items
  BY <1>1 DEF MergeInputs
<1>5. xs <= xe /\ ys <= ye
  BY <1>1
<1>6. /\ Len(X) = nx
      /\ \A r \in 1..nx : X[r] = from[xs + r - 1]
  <2>1. X = SlotsOf(from, xs, xe)
    BY <1>1
  <2>2. Reads(SlotsOf(from, xs, xe), from, xs, xe - xs)
    BY <1>4, <1>5, SlotsAt
  <2> QED BY <1>2, <2>1, <2>2 DEF Reads
<1>7. /\ Len(Y) = ny
      /\ \A r \in 1..ny : Y[r] = from[ys + r - 1]
  <2>1. Y = SlotsOf(from, ys, ye)
    BY <1>1
  <2>2. Reads(SlotsOf(from, ys, ye), from, ys, ye - ys)
    BY <1>4, <1>5, SlotsAt
  <2> QED BY <1>2, <2>1, <2>2 DEF Reads
<1>8. CASE nx < ny
  <2>1. PICK d \in Nat : d = ny \div 2
    OBVIOUS
  <2>2. d < ny
    BY <1>8, <2>1
  <2>3. PICK xm \in UpperPositions(from, xs, xe, from[ys + d]) : cut = <<xm, ys + d>>
    BY <1>1, <1>2, <1>8, <2>1 DEF SplitPoints
  <2>4. /\ xm \in xs..xe
        /\ xm = xs \/ ~Less(from[ys + d], from[xm - 1])
        /\ xm = xe \/ Less(from[ys + d], from[xm])
    BY <2>3 DEF UpperPositions
  <2>5. PICK c \in 0..nx : c = xm - xs
    <3>1. xm - xs \in 0..nx
      BY <1>2, <2>4
    <3> QED BY <3>1
  <2>6. Y[d + 1] = from[ys + d]
    <3>1. d + 1 \in 1..ny /\ ys + (d + 1) - 1 = ys + d
      BY <2>2
    <3> QED BY <1>7, <3>1
  <2>7. c = 0 \/ ~Less(Y[d + 1], X[c])
    <3>1. ASSUME c # 0 PROVE c \in 1..nx /\ xs + c - 1 = xm - 1 /\ xm # xs
      BY <2>4, <2>5, <3>1
    <3> QED BY <1>6, <2>4, <2>6, <3>1
  <2>8. c = nx \/ Less(Y[d + 1], X[c + 1])
    <3>1. ASSUME c # nx PROVE c + 1 \in 1..nx /\ xs + (c + 1) - 1 = xm /\ xm # xe
      BY <1>2, <2>4, <2>5, <3>1
    <3> QED BY <1>6, <2>4, <2>6, <3>1
  <2>9. cut[1] - m.xs = c /\ cut[2] - m.ys = d
    BY <1>1, <2>3, <2>4, <2>5
  <2> QED BY <1>6, <1>7, <2>2, <2>7, <2>8, <2>9 DEF IsSplitPoint, FoundUp
<1>9. CASE ~(nx < ny)
  <2>1. PICK c \in Nat : c = nx \div 2
    OBVIOUS
  <2>2. c < nx
    BY <1>3, <1>9, <2>1
  <2>3. PICK ym \in LowerPositions(from, ys, ye, from[xs + c]) : cut = <<xs + c, ym>>
    BY <1>1, <1>2, <1>9, <2>1 DEF SplitPoints
  <2>4. /\ ym \in ys..ye
        /\ ym = ys \/ Less(from[ym - 1], from[xs + c])
        /\ ym = ye \/ ~Less(from[ym], from[xs + c])
    BY <2>3 DEF LowerPositions
  <2>5. PICK d \in 0..ny : d = ym - ys
    <3>1. ym - ys \in 0..ny
      BY <1>2, <2>4
    <3> QED BY <3>1
  <2>6. X[c + 1] = from[xs + c]
    <3>1. c + 1 \in 1..nx /\ xs + (c + 1) - 1 = xs + c
      BY <2>2
    <3> QED BY <1>6, <3>1
  <2>7. d = 0 \/ Less(Y[d], X[c + 1])
    <3>1. ASSUME d # 0 PROVE d \in 1..ny /\ ys + d - 1 = ym - 1 /\ ym # ys
      BY <2>4, <2>5, <3>1
    <3> QED BY <1>7, <2>4, <2>6, <3>1
  <2>8. d = ny \/ ~Less(Y[d + 1], X[c + 1])
    <3>1. CASE d = ny
      BY <3>1
    <3>2. CASE d # ny
      <4>1. d + 1 \in 1..ny /\ ys + (d + 1) - 1 = ym /\ ym # ye
        BY <1>2, <2>4, <2>5, <3>2
      <4> QED BY <1>7, <2>4, <2>6, <4>1
    <3> QED BY <3>1, <3>2
  <2>9. cut[1] - m.xs = c /\ cut[2] - m.ys = d
    BY <1>1, <2>3, <2>4, <2>5
  <2> QED BY <1>6, <1>7, <2>2, <2>7, <2>8, <2>9 DEF IsSplitPoint, FoundLow
<1> QED BY <1>8, <1>9

LEMMA InOrderFollows ==
  ASSUME NEW m \in MergeTasks, m.xs < m.xe, m.ys < m.ye, NEW M, NEW from, from = (IF m.x_orig THEN M.x ELSE M.z),
         \A i \in MergeInputs(m) : from[i] \in Items, nsort \in Nat \ {0}, XLessY(m, M),
         NEW X, X = SlotsOf(from, m.xs, m.xe), NEW Y, Y = SlotsOf(from, m.ys, m.ye)
  PROVE  Follows(X, Y, nsort)
<1>1. PICK xs \in Nat, xe \in Nat, ys \in Nat, ye \in Nat : xs = m.xs /\ xe = m.xe /\ ys = m.ys /\ ye = m.ye
  BY DEF MergeTasks
<1>2. PICK nx \in Nat, ny \in Nat : nx = xe - xs /\ ny = ye - ys /\ 0 < nx /\ 0 < ny
  <2>1. xe - xs \in Nat /\ ye - ys \in Nat /\ 0 < xe - xs /\ 0 < ye - ys
    BY <1>1
  <2> QED BY <2>1
<1>3. /\ \A i \in Span(xs, xe) : from[i] \in Items
      /\ \A i \in Span(ys, ye) : from[i] \in Items
  BY <1>1 DEF MergeInputs
<1>4. xs <= xe /\ ys <= ye
  BY <1>1
<1>5. /\ Len(X) = nx
      /\ \A r \in 1..nx : X[r] = from[xs + r - 1]
  <2>1. X = SlotsOf(from, xs, xe)
    BY <1>1
  <2>2. Reads(SlotsOf(from, xs, xe), from, xs, xe - xs)
    BY <1>3, <1>4, SlotsAt
  <2> QED BY <1>2, <2>1, <2>2 DEF Reads
<1>6. /\ Len(Y) = ny
      /\ \A r \in 1..ny : Y[r] = from[ys + r - 1]
  <2>1. Y = SlotsOf(from, ys, ye)
    BY <1>1
  <2>2. Reads(SlotsOf(from, ys, ye), from, ys, ye - ys)
    BY <1>3, <1>4, SlotsAt
  <2> QED BY <1>2, <2>1, <2>2 DEF Reads
<1>7. PICK e \in 1..nx : e = Minimum(nsort, nx) /\ (e = nsort \/ e = nx) /\ e <= nsort
  <2>1. /\ Minimum(nsort, nx) \in 1..nx /\ Minimum(nsort, nx) <= nsort
        /\ Minimum(nsort, nx) = nsort \/ Minimum(nsort, nx) = nx
    BY <1>2 DEF Minimum
  <2> QED BY <2>1
<1>8. ~Less(from[ys], from[xs + e - 1])
  BY <1>1, <1>2, <1>7 DEF XLessY
<1>9. Y[1] = from[ys]
  <2>1. 1 \in 1..ny /\ ys + 1 - 1 = ys
    BY <1>2
  <2> QED BY <1>6, <2>1
<1>10. 1 \in 1..ny /\ ~Less(Y[1], X[e])
  BY <1>2, <1>5, <1>8, <1>9
<1> QED BY <1>5, <1>6, <1>7, <1>10 DEF Follows

\* What LeafMerge leaves where it merges to.
LEMMA LeafMergeFills ==
  ASSUME NEW m \in MergeTasks, m.xs <= m.xe, m.ys <= m.ye, NEW M \in Memories, MergeOutputs(m) \subseteq Span(0, sortN),
         NEW from, from = (IF m.x_orig THEN M.x ELSE M.z), \A i \in MergeInputs(m) : from[i] \in Items,
         NEW X, X = SlotsOf(from, m.xs, m.xe), NEW Y, Y = SlotsOf(from, m.ys, m.ye),
         NEW A, A = (IF m.x_orig THEN LeafMerge(M, m).z ELSE LeafMerge(M, m).x)
  PROVE  /\ Filled(A, X, Y, m.zs, SerialMoveMerge(X, Y, m.nmerge))
         /\ MergeOutputs(m) = Span(m.zs, m.zs + Len(X) + Len(Y))
<1>1. PICK xs \in Nat, xe \in Nat, ys \in Nat, ye \in Nat : xs = m.xs /\ xe = m.xe /\ ys = m.ys /\ ye = m.ye
  BY DEF MergeTasks
<1>2. xs <= xe /\ ys <= ye /\ X = SlotsOf(from, xs, xe) /\ Y = SlotsOf(from, ys, ye)
  BY <1>1
<1>3. /\ \A i \in Span(xs, xe) : from[i] \in Items
      /\ \A i \in Span(ys, ye) : from[i] \in Items
  BY <1>1 DEF MergeInputs
<1>4. Len(X) = m.xe - m.xs /\ Len(Y) = m.ye - m.ys
  <2>1. Reads(SlotsOf(from, xs, xe), from, xs, xe - xs) /\ Reads(SlotsOf(from, ys, ye), from, ys, ye - ys)
    BY <1>1, <1>2, <1>3, SlotsAt
  <2> QED BY <1>1, <1>2, <2>1 DEF Reads
<1>5. MergeOutputs(m) = Span(m.zs, m.zs + Len(X) + Len(Y))
  BY <1>4 DEF MergeOutputs
<1>6. \A i \in MergeOutputs(m) : i \in DOMAIN M.x /\ i \in DOMAIN M.z
  BY DEF Memories
<1>7. PICK o : o = SerialMoveMerge(X, Y, m.nmerge)
  OBVIOUS
<1>8. \A i \in MergeOutputs(m) : A[i] = o[i - m.zs + 1]
  BY <1>6, <1>7 DEF LeafMerge
<1> QED BY <1>5, <1>7, <1>8 DEF Filled
-------------------------------------------------------------------------------
(* Every slot of the two arrays, and what it holds.                            *)
AllSlots == {"x", "z"} \X Span(0, sortN)
At(M, s) == IF s[1] = "x" THEN M.x[s[2]] ELSE M.z[s[2]]

\* No element is in two slots.
Distinct(M) ==
  \A s \in AllSlots, r \in AllSlots : IsItem(At(M, s)) /\ IsItem(At(M, r)) /\ At(M, s)[2] = At(M, r)[2] => s = r

(* From M to K elements have moved within the indices S only, and none has been *)
(* copied.                                                                     *)
Carried(K, M, S) ==
  \A s \in AllSlots : IsItem(At(K, s)) =>
    \E r \in AllSlots : At(M, r) = At(K, s) /\ (s[2] \in S => r[2] \in S) /\ (s[2] \notin S => r = s)
Moves(K, M, S) == Carried(K, M, S) /\ (Distinct(M) => Distinct(K))

LEMMA NothingMoves ==
  ASSUME NEW M, NEW S
  PROVE  Moves(M, M, S)
BY DEF Moves, Carried

LEMMA MovesTwice ==
  ASSUME NEW M, NEW K, NEW L, NEW S, Moves(K, M, S), Moves(L, K, S)
  PROVE  Moves(L, M, S)
<1>1. Carried(L, M, S)
  <2> SUFFICES ASSUME NEW s \in AllSlots, IsItem(At(L, s))
               PROVE  \E r \in AllSlots : At(M, r) = At(L, s) /\ (s[2] \in S => r[2] \in S) /\ (s[2] \notin S => r = s)
    BY DEF Carried
  <2>1. PICK q \in AllSlots : At(K, q) = At(L, s) /\ (s[2] \in S => q[2] \in S) /\ (s[2] \notin S => q = s)
    BY DEF Moves, Carried
  <2>2. PICK r \in AllSlots : At(M, r) = At(K, q) /\ (q[2] \in S => r[2] \in S) /\ (q[2] \notin S => r = q)
    BY <2>1 DEF Moves, Carried
  <2> QED BY <2>1, <2>2
<1> QED BY <1>1 DEF Moves

LEMMA MovesWithin ==
  ASSUME NEW M, NEW K, NEW S, NEW T, S \subseteq T, Moves(K, M, S)
  PROVE  Moves(K, M, T)
<1>1. ASSUME NEW s \in AllSlots, IsItem(At(K, s))
      PROVE  \E r \in AllSlots : At(M, r) = At(K, s) /\ (s[2] \in T => r[2] \in T) /\ (s[2] \notin T => r = s)
  <2>1. PICK r \in AllSlots : At(M, r) = At(K, s) /\ (s[2] \in S => r[2] \in S) /\ (s[2] \notin S => r = s)
    BY <1>1 DEF Moves, Carried
  <2> QED BY <2>1
<1> QED BY <1>1 DEF Moves, Carried

\* The slots To get what was in the slots Fr, which hold no element any more.
Gathers(K, M, To, Fr) ==
  /\ To \subseteq AllSlots /\ Fr \subseteq AllSlots
  /\ \A s \in To : \E r \in Fr : At(K, s) = At(M, r)
  /\ \A s \in AllSlots : s \notin To /\ IsItem(At(K, s)) => s \notin Fr /\ At(K, s) = At(M, s)
  /\ Distinct(M) => \A s \in To, r \in To : s # r => At(K, s)[2] # At(K, r)[2]

LEMMA GatheringMoves ==
  ASSUME NEW K, NEW M, NEW To, NEW Fr, Gathers(K, M, To, Fr), NEW S, \A s \in To \cup Fr : s[2] \in S
  PROVE  Moves(K, M, S)
<1>1. Carried(K, M, S)
  <2> SUFFICES ASSUME NEW s \in AllSlots, IsItem(At(K, s))
               PROVE  \E r \in AllSlots : At(M, r) = At(K, s) /\ (s[2] \in S => r[2] \in S) /\ (s[2] \notin S => r = s)
    BY DEF Carried
  <2>1. CASE s \in To
    <3>1. PICK r \in Fr : At(K, s) = At(M, r)
      BY <2>1 DEF Gathers
    <3>2. r \in AllSlots /\ r[2] \in S /\ s[2] \in S
      BY <2>1, <3>1 DEF Gathers
    <3> QED BY <3>1, <3>2
  <2>2. CASE s \notin To
    BY <2>2 DEF Gathers
  <2> QED BY <2>1, <2>2
<1>2. ASSUME Distinct(M) PROVE Distinct(K)
  <2> SUFFICES ASSUME NEW s \in AllSlots, NEW r \in AllSlots, IsItem(At(K, s)), IsItem(At(K, r)),
                      At(K, s)[2] = At(K, r)[2]
               PROVE  s = r
    BY DEF Distinct
  <2>1. CASE s \in To /\ r \in To
    BY <1>2, <2>1 DEF Gathers
  <2>2. CASE s \notin To /\ r \notin To
    BY <1>2, <2>2 DEF Gathers, Distinct
  <2>3. ASSUME NEW q \in To, NEW p \in AllSlots, p \notin To, IsItem(At(K, q)), IsItem(At(K, p)),
               At(K, q)[2] = At(K, p)[2]
        PROVE  FALSE
    <3>1. PICK f \in Fr : At(K, q) = At(M, f) /\ f \in AllSlots
      BY <2>3 DEF Gathers
    <3>2. p \notin Fr /\ At(K, p) = At(M, p)
      BY <2>3 DEF Gathers
    <3> QED BY <1>2, <2>3, <3>1, <3>2 DEF Distinct
  <2> QED BY <2>1, <2>2, <2>3
<1> QED BY <1>1, <1>2 DEF Moves

LEMMA SlotPairs ==
  /\ \A s \in AllSlots : s = <<s[1], s[2]>> /\ s[1] \in {"x", "z"} /\ s[2] \in Span(0, sortN)
  /\ \A i \in Span(0, sortN) : <<"x", i>> \in AllSlots /\ <<"z", i>> \in AllSlots
BY DEF AllSlots

LEMMA AtSlots ==
  ASSUME NEW M
  PROVE  \A i : At(M, <<"x", i>>) = M.x[i] /\ At(M, <<"z", i>>) = M.z[i]
BY DEF At

\* A range moves from one array to the other.
Took(array, from, S) == \A i \in S : array[i] = from[i]

LEMMA BufferGathers ==
  ASSUME NEW M \in Memories, NEW lo, NEW hi, Span(lo, hi) \subseteq Span(0, sortN), Lies(M, TRUE, Span(lo, hi)),
         NEW K, K = ToBuffer(M, lo, hi)
  PROVE  Moves(K, M, Span(lo, hi)) /\ Took(K.z, M.x, Span(lo, hi))
<1> DEFINE S == Span(lo, hi)
           I == Span(0, sortN)
<1>1. ~IsItem(MovedFrom) /\ ~IsItem(Raw)
  BY DEF MovedFrom, Raw, IsItem
<1>2. M.x \in [I -> Values] /\ M.z \in [I -> Values] /\ S \subseteq I
  BY DEF Memories
<1>3. /\ \A s \in AllSlots : s = <<s[1], s[2]>> /\ s[1] \in {"x", "z"} /\ s[2] \in I
      /\ \A i \in I : <<"x", i>> \in AllSlots /\ <<"z", i>> \in AllSlots
      /\ \A i : At(M, <<"x", i>>) = M.x[i] /\ At(M, <<"z", i>>) = M.z[i]
  BY SlotPairs, AtSlots
<1>4. PICK X, Z : X = {<<"x", i>> : i \in S} /\ Z = {<<"z", i>> : i \in S}
  OBVIOUS
<1>5. /\ K.x = [i \in I |-> IF i \in S THEN MovedFrom ELSE M.x[i]]
      /\ K.z = [i \in I |-> IF i \in S THEN M.x[i] ELSE M.z[i]]
  BY <1>2 DEF ToBuffer
<1> HIDE DEF S, I
<1>6. \A i : At(K, <<"x", i>>) = K.x[i] /\ At(K, <<"z", i>>) = K.z[i]
  BY Zenon, AtSlots
<1>7. \A i \in S : IsItem(M.x[i])
  BY DEF Lies, S
<1>8. Z \subseteq AllSlots /\ X \subseteq AllSlots
  BY <1>2, <1>3, <1>4
<1>9. ASSUME NEW s \in Z PROVE \E r \in X : At(K, s) = At(M, r)
  <2>1. PICK i \in S : s = <<"z", i>>
    BY <1>4
  <2>2. <<"x", i>> \in X
    BY <1>4
  <2>3. At(K, s) = At(M, <<"x", i>>)
    BY <1>2, <1>3, <1>5, <1>6, <2>1
  <2> QED BY <2>2, <2>3
<1>10. \A s \in AllSlots : s \notin Z /\ IsItem(At(K, s)) => s \notin X /\ At(K, s) = At(M, s)
  <2> SUFFICES ASSUME NEW s \in AllSlots, s \notin Z, IsItem(At(K, s)) PROVE s \notin X /\ At(K, s) = At(M, s)
    OBVIOUS
  <2>1. PICK i \in I : s = <<"x", i>> \/ s = <<"z", i>>
    BY <1>3
  <2>2. i \notin S
    BY <1>1, <1>4, <1>5, <1>6, <2>1
  <2>3. s \notin X
    BY <1>4, <2>1, <2>2
  <2> QED BY <1>3, <1>5, <1>6, <2>1, <2>2, <2>3
<1>11. ASSUME Distinct(M), NEW s \in Z, NEW r \in Z, s # r PROVE At(K, s)[2] # At(K, r)[2]
  <2>1. PICK i \in S, j \in S : s = <<"z", i>> /\ r = <<"z", j>> /\ i # j
    BY <1>4, <1>11
  <2>2. At(K, s) = At(M, <<"x", i>>) /\ At(K, r) = At(M, <<"x", j>>)
    BY <1>2, <1>3, <1>5, <1>6, <2>1
  <2>3. IsItem(At(M, <<"x", i>>)) /\ IsItem(At(M, <<"x", j>>)) /\ <<"x", i>> # <<"x", j>>
    BY <1>3, <1>7, <2>1
  <2> QED BY <1>2, <1>3, <1>11, <2>1, <2>2, <2>3 DEF Distinct
<1>12. Gathers(K, M, Z, X)
  BY <1>8, <1>9, <1>10, <1>11 DEF Gathers
<1>13. \A s \in Z \cup X : s[2] \in S
  BY <1>4
<1> QED BY <1>2, <1>5, <1>12, <1>13, GatheringMoves DEF S, Took

LEMMA OriginGathers ==
  ASSUME NEW M \in Memories, NEW lo, NEW hi, Span(lo, hi) \subseteq Span(0, sortN), Lies(M, FALSE, Span(lo, hi)),
         NEW K, K = ToOrigin(M, lo, hi)
  PROVE  Moves(K, M, Span(lo, hi)) /\ Took(K.x, M.z, Span(lo, hi))
<1> DEFINE S == Span(lo, hi)
           I == Span(0, sortN)
<1>1. ~IsItem(MovedFrom) /\ ~IsItem(Raw)
  BY DEF MovedFrom, Raw, IsItem
<1>2. M.x \in [I -> Values] /\ M.z \in [I -> Values] /\ S \subseteq I
  BY DEF Memories
<1>3. /\ \A s \in AllSlots : s = <<s[1], s[2]>> /\ s[1] \in {"x", "z"} /\ s[2] \in I
      /\ \A i \in I : <<"x", i>> \in AllSlots /\ <<"z", i>> \in AllSlots
      /\ \A i : At(M, <<"x", i>>) = M.x[i] /\ At(M, <<"z", i>>) = M.z[i]
  BY SlotPairs, AtSlots
<1>4. PICK X, Z : X = {<<"x", i>> : i \in S} /\ Z = {<<"z", i>> : i \in S}
  OBVIOUS
<1>5. /\ K.x = [i \in I |-> IF i \in S THEN M.z[i] ELSE M.x[i]]
      /\ K.z = [i \in I |-> IF i \in S THEN Raw ELSE M.z[i]]
  BY <1>2 DEF ToOrigin
<1> HIDE DEF S, I
<1>6. /\ \A i \in S : K.x[i] = M.z[i] /\ K.z[i] = Raw
      /\ \A i \in I : i \notin S => K.x[i] = M.x[i] /\ K.z[i] = M.z[i]
  BY <1>2, <1>5
<1>7. \A i : At(K, <<"x", i>>) = K.x[i] /\ At(K, <<"z", i>>) = K.z[i]
  BY Zenon, AtSlots
<1>8. \A i \in S : IsItem(M.z[i])
  BY DEF Lies, S
<1>9. Z \subseteq AllSlots /\ X \subseteq AllSlots
  BY <1>2, <1>3, <1>4
<1>10. ASSUME NEW s \in X PROVE \E r \in Z : At(K, s) = At(M, r)
  <2>1. PICK i \in S : s = <<"x", i>>
    BY <1>4
  <2>2. <<"z", i>> \in Z
    BY <1>4
  <2>3. At(K, s) = At(M, <<"z", i>>)
    BY <1>2, <1>3, <1>6, <1>7, <2>1
  <2> QED BY <2>2, <2>3
<1>11. \A s \in AllSlots : s \notin X /\ IsItem(At(K, s)) => s \notin Z /\ At(K, s) = At(M, s)
  <2> SUFFICES ASSUME NEW s \in AllSlots, s \notin X, IsItem(At(K, s)) PROVE s \notin Z /\ At(K, s) = At(M, s)
    OBVIOUS
  <2>1. PICK i \in I : s = <<"x", i>> \/ s = <<"z", i>>
    BY <1>3
  <2>2. i \notin S
    BY <1>1, <1>4, <1>5, <1>7, <2>1
  <2>3. s \notin Z
    BY <1>4, <2>1, <2>2
  <2> QED BY <1>3, <1>6, <1>7, <2>1, <2>2, <2>3
<1>12. ASSUME Distinct(M), NEW s \in X, NEW r \in X, s # r PROVE At(K, s)[2] # At(K, r)[2]
  <2>1. PICK i \in S, j \in S : s = <<"x", i>> /\ r = <<"x", j>> /\ i # j
    BY <1>4, <1>12
  <2>2. At(K, s) = At(M, <<"z", i>>) /\ At(K, r) = At(M, <<"z", j>>)
    BY <1>2, <1>3, <1>6, <1>7, <2>1
  <2>3. IsItem(At(M, <<"z", i>>)) /\ IsItem(At(M, <<"z", j>>)) /\ <<"z", i>> # <<"z", j>>
    BY <1>3, <1>8, <2>1
  <2> QED BY <1>2, <1>3, <1>12, <2>1, <2>2, <2>3 DEF Distinct
<1>13. Gathers(K, M, X, Z)
  BY <1>9, <1>10, <1>11, <1>12 DEF Gathers
<1>14. \A s \in X \cup Z : s[2] \in S
  BY <1>4
<1> QED BY <1>6, <1>13, <1>14, GatheringMoves DEF S, Took

\* A leaf that is sorted.
LEMMA LeafGathers ==
  ASSUME NEW M \in Memories, NEW S, S \subseteq Span(0, sortN), NEW p \in [S -> S],
         \A i \in S, j \in S : i # j => p[i] # p[j], \A i \in S : IsItem(M.x[i]),
         NEW K, K.z = M.z, \A i \in Span(0, sortN) : K.x[i] = IF i \in S THEN M.x[p[i]] ELSE M.x[i]
  PROVE  Moves(K, M, S)
<1>1. PICK I : I = Span(0, sortN)
  OBVIOUS
<1>2. S \subseteq I /\ \A i \in I : K.x[i] = IF i \in S THEN M.x[p[i]] ELSE M.x[i]
  BY <1>1
<1>3. /\ \A s \in AllSlots : s = <<s[1], s[2]>> /\ s[1] \in {"x", "z"} /\ s[2] \in I
      /\ \A i \in I : <<"x", i>> \in AllSlots /\ <<"z", i>> \in AllSlots
      /\ \A i : At(M, <<"x", i>>) = M.x[i] /\ At(M, <<"z", i>>) = M.z[i]
      /\ \A i : At(K, <<"x", i>>) = K.x[i] /\ At(K, <<"z", i>>) = M.z[i]
  <2>1. \A i : At(M, <<"x", i>>) = M.x[i] /\ At(M, <<"z", i>>) = M.z[i]
    BY Zenon, AtSlots
  <2>2. \A i : At(K, <<"x", i>>) = K.x[i] /\ At(K, <<"z", i>>) = K.z[i]
    BY Zenon, AtSlots
  <2>3. \A i : At(K, <<"x", i>>) = K.x[i] /\ At(K, <<"z", i>>) = M.z[i]
    BY Zenon, <2>2
  <2> QED BY Zenon, <1>1, <2>1, <2>3, SlotPairs
<1>4. PICK X : X = {<<"x", i>> : i \in S}
  OBVIOUS
<1>5. X \subseteq AllSlots /\ \A s \in X : s[2] \in S
  <2> SUFFICES ASSUME NEW s \in X PROVE s \in AllSlots /\ s[2] \in S
    OBVIOUS
  <2>1. PICK i \in S : s = <<"x", i>>
    BY <1>4
  <2> QED BY <1>2, <1>3, <2>1
<1>6. \A s \in X : \E r \in X : At(K, s) = At(M, r)
  <2> SUFFICES ASSUME NEW i \in S PROVE \E r \in X : At(K, <<"x", i>>) = At(M, r)
    BY <1>4
  <2>1. p[i] \in S /\ <<"x", p[i]>> \in X
    BY <1>4
  <2> QED BY <1>2, <1>3, <2>1
<1>7. \A s \in AllSlots : s \notin X /\ IsItem(At(K, s)) => s \notin X /\ At(K, s) = At(M, s)
  <2> SUFFICES ASSUME NEW s \in AllSlots, s \notin X PROVE At(K, s) = At(M, s)
    OBVIOUS
  <2>1. PICK i \in I : s = <<"x", i>> \/ s = <<"z", i>>
    BY <1>3
  <2>2. CASE s = <<"x", i>>
    <3>1. i \notin S
      BY <1>4, <2>2
    <3> QED BY <1>2, <1>3, <2>2, <3>1
  <2>3. CASE s = <<"z", i>>
    BY <1>3, <2>3
  <2> QED BY <2>1, <2>2, <2>3
<1>8. ASSUME Distinct(M), NEW s \in X, NEW r \in X, s # r PROVE At(K, s)[2] # At(K, r)[2]
  <2>1. PICK i \in S, j \in S : s = <<"x", i>> /\ r = <<"x", j>> /\ i # j
    BY <1>4, <1>8
  <2>2. PICK a \in S, b \in S : a = p[i] /\ b = p[j] /\ a # b
    BY <2>1
  <2>3. At(K, s) = At(M, <<"x", a>>) /\ At(K, r) = At(M, <<"x", b>>)
    BY <1>2, <1>3, <2>1, <2>2
  <2>4. IsItem(At(M, <<"x", a>>)) /\ IsItem(At(M, <<"x", b>>)) /\ <<"x", a>> # <<"x", b>>
    BY <1>3, <2>2
  <2> QED BY ZenonT(60), <1>2, <1>3, <1>8, <2>2, <2>3, <2>4 DEF Distinct
<1>9. Gathers(K, M, X, X)
  BY <1>5, <1>6, <1>7, <1>8 DEF Gathers
<1> QED BY <1>5, <1>9, GatheringMoves
-------------------------------------------------------------------------------
HeldBy(M, c, array) == \A i : At(M, <<c, i>>) = array[i]

\* The elements of two ranges of one array, each in one slot, are told apart.
LEMMA RangesAreTold ==
  ASSUME NEW M, Distinct(M), NEW c \in {"x", "z"}, NEW from, HeldBy(M, c, from),
         NEW xs \in Nat, NEW xe \in Nat, NEW ys \in Nat, NEW ye \in Nat, xs <= xe, xe <= ys, ys <= ye,
         Span(xs, xe) \subseteq Span(0, sortN), Span(ys, ye) \subseteq Span(0, sortN),
         NEW X, NEW Y, NEW nx \in Nat, NEW ny \in Nat, nx = xe - xs, ny = ye - ys,
         Reads(X, from, xs, nx), Reads(Y, from, ys, ny)
  PROVE  Told(X, Y)
<1>1. /\ \A r \in 1..nx : xs + r - 1 \in Span(xs, xe) /\ xs + r - 1 < ys
      /\ \A r \in 1..ny : ys + r - 1 \in Span(ys, ye) /\ ys <= ys + r - 1
  BY DEF Span
<1>2. /\ X \in Seq(Items) /\ Len(X) = nx /\ \A r \in 1..nx : X[r] = from[xs + r - 1]
      /\ Y \in Seq(Items) /\ Len(Y) = ny /\ \A r \in 1..ny : Y[r] = from[ys + r - 1]
  BY DEF Reads
<1>3. /\ \A r \in 1..nx : X[r] \in Items
      /\ \A r \in 1..ny : Y[r] \in Items
  BY <1>2, ElementOfSeq
<1>4. \A v \in Items : IsItem(v)
  BY DEF Items
<1>5. \A i \in Span(0, sortN) : <<c, i>> \in AllSlots
  BY SlotPairs
<1>6. ASSUME NEW i \in Span(0, sortN), NEW j \in Span(0, sortN), from[i] \in Items, from[j] \in Items, from[i][2] = from[j][2]
      PROVE  i = j
  <2>1. PICK s \in AllSlots, r \in AllSlots : s = <<c, i>> /\ r = <<c, j>>
    BY <1>5
  <2>2. At(M, s) = from[i] /\ At(M, r) = from[j]
    BY <2>1 DEF HeldBy
  <2>3. s = r
    BY <1>4, <1>6, <2>2 DEF Distinct
  <2> QED BY <2>1, <2>3
<1>7. ASSUME NEW i \in 1..nx, NEW j \in 1..nx, X[i][2] = X[j][2] PROVE i = j
  <2>1. xs + i - 1 = xs + j - 1
    <3>1. PICK a \in Span(0, sortN), b \in Span(0, sortN) : a = xs + i - 1 /\ b = xs + j - 1
      BY <1>1
    <3>2. from[a] = X[i] /\ from[b] = X[j] /\ from[a] \in Items /\ from[b] \in Items
      BY <1>2, <1>3, <3>1
    <3>3. a = b
      BY <1>6, <1>7, <3>2
    <3> QED BY <3>1, <3>3
  <2> QED BY <2>1
<1>8. ASSUME NEW i \in 1..ny, NEW j \in 1..ny, Y[i][2] = Y[j][2] PROVE i = j
  <2>1. ys + i - 1 = ys + j - 1
    <3>1. PICK a \in Span(0, sortN), b \in Span(0, sortN) : a = ys + i - 1 /\ b = ys + j - 1
      BY <1>1
    <3>2. from[a] = Y[i] /\ from[b] = Y[j] /\ from[a] \in Items /\ from[b] \in Items
      BY <1>2, <1>3, <3>1
    <3>3. a = b
      BY <1>6, <1>8, <3>2
    <3> QED BY <3>1, <3>3
  <2> QED BY <2>1
<1>9. ASSUME NEW i \in 1..nx, NEW j \in 1..ny, X[i][2] = Y[j][2] PROVE FALSE
  <2>1. xs + i - 1 = ys + j - 1
    <3>1. PICK a \in Span(0, sortN), b \in Span(0, sortN) : a = xs + i - 1 /\ b = ys + j - 1
      BY <1>1
    <3>2. from[a] = X[i] /\ from[b] = Y[j] /\ from[a] \in Items /\ from[b] \in Items
      BY <1>2, <1>3, <3>1
    <3>3. a = b
      BY <1>6, <1>9, <3>2
    <3> QED BY <3>1, <3>3
  <2>2. xs + i - 1 < ys /\ ys <= ys + j - 1
    BY <1>1
  <2> QED BY <2>1, <2>2
<1> QED BY <1>2, <1>7, <1>8, <1>9 DEF Told

\* A serial merge.
LEMMA LeafMergeMoves ==
  ASSUME NEW m \in MergeTasks, m.xs <= m.xe, m.xe <= m.ys, m.ys <= m.ye, NEW M \in Memories,
         MergeInputs(m) \subseteq Span(0, sortN), MergeOutputs(m) \subseteq Span(0, sortN),
         NEW from, from = (IF m.x_orig THEN M.x ELSE M.z), \A i \in MergeInputs(m) : from[i] \in Items,
         m.x_orig => \A i \in MergeOutputs(m) : M.z[i] = Raw,
         NEW K, K = LeafMerge(M, m), NEW S, MergeInputs(m) \subseteq S, MergeOutputs(m) \subseteq S
  PROVE  Moves(K, M, S)
<1>1. PICK xs \in Nat, xe \in Nat, ys \in Nat, ye \in Nat, zs \in Nat :
        xs = m.xs /\ xe = m.xe /\ ys = m.ys /\ ye = m.ye /\ zs = m.zs
  BY DEF MergeTasks
<1>2. PICK ins, outs : ins = MergeInputs(m) /\ outs = MergeOutputs(m)
  OBVIOUS
<1>3. m.nmerge \in Nat /\ m.x_orig \in BOOLEAN
  BY DEF MergeTasks
<1>4. PICK nx \in Nat, ny \in Nat : nx = xe - xs /\ ny = ye - ys
  <2>1. xe - xs \in Nat /\ ye - ys \in Nat
    BY <1>1
  <2> QED BY <2>1
<1>5. PICK X, Y : X = SlotsOf(from, m.xs, m.xe) /\ Y = SlotsOf(from, m.ys, m.ye)
  OBVIOUS
<1>6. ins = Span(xs, xe) \cup Span(ys, ye)
  BY <1>1, <1>2 DEF MergeInputs
<1>7. Reads(X, from, xs, nx) /\ Reads(Y, from, ys, ny)
  <2>1. /\ \A i \in Span(xs, xe) : from[i] \in Items
        /\ \A i \in Span(ys, ye) : from[i] \in Items
    BY <1>2, <1>6
  <2>2. Reads(SlotsOf(from, xs, xe), from, xs, xe - xs) /\ Reads(SlotsOf(from, ys, ye), from, ys, ye - ys)
    BY <1>1, <2>1, SlotsAt
  <2> QED BY <1>1, <1>4, <1>5, <2>2
<1>8. /\ X \in Seq(Items) /\ Len(X) = nx /\ \A r \in 1..nx : X[r] = from[xs + r - 1]
      /\ Y \in Seq(Items) /\ Len(Y) = ny /\ \A r \in 1..ny : Y[r] = from[ys + r - 1]
  BY <1>7 DEF Reads
<1>9. PICK o : o = SerialMoveMerge(X, Y, m.nmerge)
  OBVIOUS
<1>10. Len(o) = nx + ny /\ Traced(X, Y, m.nmerge, 0, 0, o)
  BY <1>3, <1>8, <1>9, MergedElements, MergesAreTraced
<1>11. PICK A : A = IF m.x_orig THEN K.z ELSE K.x
  OBVIOUS
<1>12. outs = Span(zs, zs + nx + ny) /\ \A i \in outs : A[i] = o[i - zs + 1]
  <2>1. Filled(A, X, Y, m.zs, o) /\ MergeOutputs(m) = Span(m.zs, m.zs + Len(X) + Len(Y))
    BY <1>5, <1>9, <1>11, LeafMergeFills
  <2> QED BY <1>1, <1>2, <1>8, <2>1 DEF Filled
<1>13. \A i \in outs : i \in Nat /\ i - zs + 1 \in 1..(nx + ny)
  BY <1>12, PlacesOf
<1>14. PICK c \in {"x", "z"}, d \in {"x", "z"} : IF m.x_orig THEN c = "x" /\ d = "z" ELSE c = "z" /\ d = "x"
  OBVIOUS
<1>15. /\ \A i : At(M, <<c, i>>) = from[i]
       /\ \A i : At(K, <<d, i>>) = A[i]
       /\ c # d
  <2>1. \A i : At(M, <<"x", i>>) = M.x[i] /\ At(M, <<"z", i>>) = M.z[i]
    BY Zenon, AtSlots
  <2>2. \A i : At(K, <<"x", i>>) = K.x[i] /\ At(K, <<"z", i>>) = K.z[i]
    BY Zenon, AtSlots
  <2> QED BY <1>11, <1>14, <2>1, <2>2
<1>16. PICK To, Fr : To = {<<d, i>> : i \in outs} /\ Fr = {<<c, i>> : i \in ins}
  OBVIOUS
<1>17. ASSUME NEW s \in To PROVE \E r \in Fr : At(K, s) = At(M, r)
  <2>1. PICK i \in outs : s = <<d, i>>
    BY <1>16
  <2>2. PICK r \in 1..(nx + ny) : r = i - zs + 1
    BY <1>13
  <2>3. At(K, s) = o[r]
    BY <1>12, <1>15, <2>1, <2>2
  <2>4. From(X, Y, 0, 0, o[r])
    <3>1. 0 \in 0..nx /\ 0 \in 0..ny /\ r \in 1..Len(o)
      BY <1>10
    <3> QED BY <1>3, <1>8, <1>10, <3>1, TracedComesFrom
  <2>5. \E j \in ins : o[r] = from[j]
    <3>1. CASE \E q \in 1..nx : o[r] = X[q]
      <4>1. PICK q \in 1..nx : o[r] = from[xs + q - 1]
        BY <1>8, <3>1
      <4>2. xs + q - 1 \in ins
        BY <1>4, <1>6 DEF Span
      <4> QED BY <4>1, <4>2
    <3>2. CASE \E q \in 1..ny : o[r] = Y[q]
      <4>1. PICK q \in 1..ny : o[r] = from[ys + q - 1]
        BY <1>8, <3>2
      <4>2. ys + q - 1 \in ins
        BY <1>4, <1>6 DEF Span
      <4> QED BY <4>1, <4>2
    <3> QED BY <1>8, <2>4, <3>1, <3>2 DEF From
  <2>6. PICK j \in ins : o[r] = from[j]
    BY <2>5
  <2>7. <<c, j>> \in Fr /\ At(M, <<c, j>>) = from[j]
    BY <1>15, <1>16
  <2> QED BY <2>3, <2>6, <2>7
<1>18. ASSUME Distinct(M), NEW s \in To, NEW r \in To, s # r PROVE At(K, s)[2] # At(K, r)[2]
  <2>1. Told(X, Y)
    <3>1. Span(xs, xe) \subseteq Span(0, sortN) /\ Span(ys, ye) \subseteq Span(0, sortN)
      BY <1>2, <1>6
    <3>2. xs <= xe /\ xe <= ys /\ ys <= ye
      BY <1>1
    <3>3. HeldBy(M, c, from)
      BY <1>15 DEF HeldBy
    <3> QED BY <1>4, <1>7, <1>18, <3>1, <3>2, <3>3, RangesAreTold
  <2>2. \A p \in 1..(nx + ny), q \in 1..(nx + ny) : p < q => o[p][2] # o[q][2]
    <3>1. X \in Seq(Items) /\ Y \in Seq(Items) /\ nx = Len(X) /\ ny = Len(Y)
      BY <1>8
    <3>2. PICK n \in Nat : n = m.nmerge
      BY <1>3
    <3>3. Traced(X, Y, n, 0, 0, o) /\ Len(o) = nx + ny
      BY <1>10, <3>2
    <3> SUFFICES ASSUME NEW p \in 1..(nx + ny) PROVE \A q \in 1..(nx + ny) : p < q => o[p][2] # o[q][2]
      OBVIOUS
    <3> QED BY SMTT(60), <2>1, <3>1, <3>3, MergeKeepsElements
  <2>3. PICK i \in outs, j \in outs : s = <<d, i>> /\ r = <<d, j>> /\ i # j
    BY <1>16, <1>18
  <2>4. PICK p \in 1..(nx + ny), q \in 1..(nx + ny) : p = i - zs + 1 /\ q = j - zs + 1
    BY <1>13
  <2>5. p < q \/ q < p
    BY <1>13, <2>3, <2>4
  <2>6. At(K, s) = o[p] /\ At(K, r) = o[q]
    BY <1>12, <1>15, <2>3, <2>4
  <2> QED BY <2>2, <2>5, <2>6
<1>19. ASSUME NEW s \in AllSlots, s \notin To, IsItem(At(K, s)) PROVE s \notin Fr /\ At(K, s) = At(M, s)
  <2>1. PICK i \in Span(0, sortN) : s = <<"x", i>> \/ s = <<"z", i>>
    BY SlotPairs
  <2>2. ~IsItem(MovedFrom) /\ ~IsItem(Raw)
    BY DEF MovedFrom, Raw, IsItem
  <2>3. M.x \in [Span(0, sortN) -> Values] /\ M.z \in [Span(0, sortN) -> Values]
    BY DEF Memories
  <2>4. \A j \in ins : ~IsItem(At(K, <<c, j>>))
    <3>1. CASE m.x_orig
      <4>1. \A j \in ins : K.x[j] = MovedFrom
        BY <1>2, <2>3, <3>1 DEF LeafMerge
      <4>2. \A j : At(K, <<"x", j>>) = K.x[j]
        BY Zenon, AtSlots
      <4> QED BY <1>14, <2>2, <3>1, <4>1, <4>2
    <3>2. CASE ~m.x_orig
      <4>1. \A j \in ins : K.z[j] = Raw
        BY <1>2, <2>3, <3>2 DEF LeafMerge
      <4>2. \A j : At(K, <<"z", j>>) = K.z[j]
        BY Zenon, AtSlots
      <4> QED BY <1>14, <2>2, <3>2, <4>1, <4>2
    <3> QED BY <3>1, <3>2
  <2>5. s \notin Fr
    BY <1>16, <1>19, <2>4
  <2>6. /\ i \notin (IF m.x_orig THEN ins ELSE outs) => K.x[i] = M.x[i]
        /\ i \notin (IF m.x_orig THEN outs ELSE ins) => K.z[i] = M.z[i]
    <3>1. \A j \in MergeInputs(m) : IsItem(IF m.x_orig THEN M.x[j] ELSE M.z[j])
      BY DEF Items
    <3> QED BY <1>2, <3>1, LeafMerges
  <2>7. /\ \A j : At(M, <<"x", j>>) = M.x[j] /\ At(M, <<"z", j>>) = M.z[j]
        /\ \A j : At(K, <<"x", j>>) = K.x[j] /\ At(K, <<"z", j>>) = K.z[j]
    BY Zenon, AtSlots
  <2>8. CASE s = <<c, i>>
    <3>1. i \notin ins
      BY <1>16, <2>5, <2>8
    <3> QED BY <1>14, <2>5, <2>6, <2>7, <2>8, <3>1
  <2>9. CASE s = <<d, i>>
    <3>1. i \notin outs
      BY <1>16, <1>19, <2>9
    <3> QED BY <1>14, <2>5, <2>6, <2>7, <2>9, <3>1
  <2> QED BY <1>14, <2>1, <2>8, <2>9
<1>20. To \subseteq AllSlots /\ Fr \subseteq AllSlots /\ \A s \in To \cup Fr : s[2] \in S
  <2>1. ASSUME NEW e \in {"x", "z"}, NEW i \in ins \cup outs PROVE <<e, i>> \in AllSlots /\ <<e, i>>[2] \in S
    BY <1>2, <2>1, SlotPairs
  <2> QED BY <1>16, <2>1
<1>21. Gathers(K, M, To, Fr)
  BY <1>17, <1>18, <1>19, <1>20 DEF Gathers
<1> QED BY <1>20, <1>21, GatheringMoves
-------------------------------------------------------------------------------
(* What a merge task will find at index i, where its flags say; b is the task   *)
(* with its memory after some of the moves that precede the merge.              *)
Content(m, M, i) == IF (IF i < m.xe THEN m.x_orig ELSE m.y_orig) THEN M.x[i] ELSE M.z[i]
Brings(b, m, M) ==
  /\ Moves(b.M, M, Span(m.xs, m.ye))
  /\ \A i \in Span(m.xs, m.ye) : Content(b.m, b.M, i) = Content(m, M, i)

LEMMA MovesBring ==
  ASSUME NEW m, NEW M, Laid(m, M)
  PROVE  Brings(MoveX(m, M), m, M) /\ Brings(MoveY(m, M), m, M)
<1>1. /\ m \in MergeTasks /\ m.xs <= m.xe /\ m.xe = m.ys /\ m.ys <= m.ye /\ M \in Memories
      /\ m.xs \in Nat /\ m.xe \in Nat /\ m.ye \in Nat /\ m.x_orig \in BOOLEAN /\ m.y_orig \in BOOLEAN
      /\ Lies(M, m.x_orig, Span(m.xs, m.xe)) /\ Lies(M, m.y_orig, Span(m.ys, m.ye))
      /\ Span(m.xs, m.ye) \subseteq Span(0, sortN)
  BY DEF Laid, HalvesLie, MergeTasks
<1>2. PICK S, X, Y : S = Span(m.xs, m.ye) /\ X = Span(m.xs, m.xe) /\ Y = Span(m.ys, m.ye)
  OBVIOUS
<1>3. /\ \A i \in S : i < m.xe => i \in X
      /\ \A i \in S : ~(i < m.xe) => i \in Y
      /\ \A i \in X : i \in S /\ i < m.xe
      /\ \A i \in Y : i \in S /\ ~(i < m.xe)
  BY <1>1, <1>2 DEF Span
<1>4. X \subseteq S /\ Y \subseteq S /\ X \subseteq Span(0, sortN) /\ Y \subseteq Span(0, sortN)
  BY <1>1, <1>2, <1>3
<1>5. PICK mx, my : mx = MoveX(m, M).m /\ my = MoveY(m, M).m
  OBVIOUS
<1>6. /\ mx.xe = m.xe /\ mx.x_orig = (~m.x_orig) /\ mx.y_orig = m.y_orig
      /\ my.xe = m.xe /\ my.y_orig = (~m.y_orig) /\ my.x_orig = m.x_orig
  BY <1>1, <1>5 DEF MoveX, MoveY, MergeTasks
<1>7. PICK KX, KY : KX = MoveX(m, M).M /\ KY = MoveY(m, M).M
  OBVIOUS
<1>8. /\ Moves(KX, M, X) /\ SameBut(KX, M, X)
      /\ \A i \in X : IF m.x_orig THEN KX.z[i] = M.x[i] ELSE KX.x[i] = M.z[i]
  <2>1. CASE m.x_orig
    <3>1. KX = ToBuffer(M, m.xs, m.xe)
      BY <1>7, <2>1 DEF MoveX
    <3>2. Lies(M, TRUE, Span(m.xs, m.xe))
      BY <1>1, <2>1
    <3>3. PICK lo, hi : lo = m.xs /\ hi = m.xe /\ X = Span(lo, hi) /\ KX = ToBuffer(M, lo, hi)
      BY <1>2, <3>1
    <3>4. Span(lo, hi) \subseteq Span(0, sortN) /\ Lies(M, TRUE, Span(lo, hi))
      BY <1>4, <3>2, <3>3
    <3>5. Moves(KX, M, Span(lo, hi)) /\ Took(KX.z, M.x, Span(lo, hi))
      BY <1>1, <3>3, <3>4, BufferGathers
    <3>6. SameBut(KX, M, Span(lo, hi))
      BY <1>1, <3>3, <3>4, RangesMove
    <3> QED BY <2>1, <3>3, <3>5, <3>6 DEF Took
  <2>2. CASE ~m.x_orig
    <3>1. KX = ToOrigin(M, m.xs, m.xe)
      BY <1>7, <2>2 DEF MoveX
    <3>2. Lies(M, FALSE, Span(m.xs, m.xe))
      BY <1>1, <2>2
    <3>3. PICK lo, hi : lo = m.xs /\ hi = m.xe /\ X = Span(lo, hi) /\ KX = ToOrigin(M, lo, hi)
      BY <1>2, <3>1
    <3>4. Span(lo, hi) \subseteq Span(0, sortN) /\ Lies(M, FALSE, Span(lo, hi))
      BY <1>4, <3>2, <3>3
    <3>5. Moves(KX, M, Span(lo, hi)) /\ Took(KX.x, M.z, Span(lo, hi))
      BY <1>1, <3>3, <3>4, OriginGathers
    <3>6. SameBut(KX, M, Span(lo, hi))
      BY <1>1, <3>3, <3>4, RangesMove
    <3> QED BY <2>2, <3>3, <3>5, <3>6 DEF Took
  <2> QED BY <2>1, <2>2
<1>9. /\ Moves(KY, M, Y) /\ SameBut(KY, M, Y)
      /\ \A i \in Y : IF m.y_orig THEN KY.z[i] = M.x[i] ELSE KY.x[i] = M.z[i]
  <2>1. CASE m.y_orig
    <3>1. KY = ToBuffer(M, m.ys, m.ye)
      BY <1>7, <2>1 DEF MoveY
    <3>2. Lies(M, TRUE, Span(m.ys, m.ye))
      BY <1>1, <2>1
    <3>3. PICK lo, hi : lo = m.ys /\ hi = m.ye /\ Y = Span(lo, hi) /\ KY = ToBuffer(M, lo, hi)
      BY <1>2, <3>1
    <3>4. Span(lo, hi) \subseteq Span(0, sortN) /\ Lies(M, TRUE, Span(lo, hi))
      BY <1>4, <3>2, <3>3
    <3>5. Moves(KY, M, Span(lo, hi)) /\ Took(KY.z, M.x, Span(lo, hi))
      BY <1>1, <3>3, <3>4, BufferGathers
    <3>6. SameBut(KY, M, Span(lo, hi))
      BY <1>1, <3>3, <3>4, RangesMove
    <3> QED BY <2>1, <3>3, <3>5, <3>6 DEF Took
  <2>2. CASE ~m.y_orig
    <3>1. KY = ToOrigin(M, m.ys, m.ye)
      BY <1>7, <2>2 DEF MoveY
    <3>2. Lies(M, FALSE, Span(m.ys, m.ye))
      BY <1>1, <2>2
    <3>3. PICK lo, hi : lo = m.ys /\ hi = m.ye /\ Y = Span(lo, hi) /\ KY = ToOrigin(M, lo, hi)
      BY <1>2, <3>1
    <3>4. Span(lo, hi) \subseteq Span(0, sortN) /\ Lies(M, FALSE, Span(lo, hi))
      BY <1>4, <3>2, <3>3
    <3>5. Moves(KY, M, Span(lo, hi)) /\ Took(KY.x, M.z, Span(lo, hi))
      BY <1>1, <3>3, <3>4, OriginGathers
    <3>6. SameBut(KY, M, Span(lo, hi))
      BY <1>1, <3>3, <3>4, RangesMove
    <3> QED BY <2>2, <3>3, <3>5, <3>6 DEF Took
  <2> QED BY <2>1, <2>2
<1>10. \A i \in S : Content(mx, KX, i) = Content(m, M, i)
  <2> SUFFICES ASSUME NEW i \in S PROVE Content(mx, KX, i) = Content(m, M, i)
    OBVIOUS
  <2>1. CASE i < m.xe
    <3>1. i \in X
      BY <1>3, <2>1
    <3> QED BY <1>6, <1>8, <2>1, <3>1 DEF Content
  <2>2. CASE ~(i < m.xe)
    <3>1. i \notin X /\ i \in Span(0, sortN)
      BY <1>1, <1>2, <1>3, <2>2
    <3> QED BY <1>6, <1>8, <2>2, <3>1 DEF Content, SameBut
  <2> QED BY <2>1, <2>2
<1>11. \A i \in S : Content(my, KY, i) = Content(m, M, i)
  <2> SUFFICES ASSUME NEW i \in S PROVE Content(my, KY, i) = Content(m, M, i)
    OBVIOUS
  <2>1. CASE ~(i < m.xe)
    <3>1. i \in Y
      BY <1>3, <2>1
    <3> QED BY <1>6, <1>9, <2>1, <3>1 DEF Content
  <2>2. CASE i < m.xe
    <3>1. i \notin Y /\ i \in Span(0, sortN)
      BY <1>1, <1>2, <1>3, <2>2
    <3> QED BY <1>6, <1>9, <2>2, <3>1 DEF Content, SameBut
  <2> QED BY <2>1, <2>2
<1>12. Moves(KX, M, S) /\ Moves(KY, M, S)
  BY <1>4, <1>8, <1>9, MovesWithin
<1> QED BY <1>2, <1>5, <1>7, <1>10, <1>11, <1>12 DEF Brings

LEMMA NothingBrings ==
  ASSUME NEW b, NEW m, NEW M, b.m = m, b.M = M
  PROVE  Brings(b, m, M)
BY NothingMoves DEF Brings

LEMMA BringsTwice ==
  ASSUME NEW m, NEW M, NEW a, NEW b, Brings(a, m, M), Brings(b, a.m, a.M), a.m.xs = m.xs, a.m.ye = m.ye
  PROVE  Brings(b, m, M)
<1>1. Moves(b.M, M, Span(m.xs, m.ye))
  BY MovesTwice DEF Brings
<1> QED BY <1>1 DEF Brings

LEMMA BothBring ==
  ASSUME NEW m, NEW M, Laid(m, M)
  PROVE  Brings(MoveBoth(m, M), m, M)
<1>1. PICK a : a = MoveX(m, M)
  OBVIOUS
<1>2. PICK k, K : k = a.m /\ K = a.M
  OBVIOUS
<1>3. Brings(a, m, M)
  BY <1>1, MovesBring
<1>4. Laid(k, K) /\ k = [m EXCEPT !.x_orig = ~m.x_orig]
  BY <1>1, <1>2, HalvesMove
<1>5. k.xs = m.xs /\ k.ye = m.ye
  <2>1. m \in MergeTasks
    BY DEF Laid
  <2> QED BY <1>4, <2>1 DEF MergeTasks
<1>6. Brings(MoveY(k, K), k, K)
  BY <1>4, MovesBring
<1>7. MoveBoth(m, M) = MoveY(k, K)
  BY <1>1, <1>2 DEF MoveBoth
<1> QED BY <1>2, <1>3, <1>5, <1>6, <1>7, BringsTwice

LEMMA AlignedBrings ==
  ASSUME NEW id, ~merges[id].split, Laid(merges[id], mem)
  PROVE  Brings(Aligned(id), merges[id], mem)
<1>1. PICK m, a : m = merges[id] /\ a = Aligned(id)
  OBVIOUS
<1>2. a = [m |-> m, M |-> mem] \/ a = MoveX(m, mem) \/ a = MoveY(m, mem)
  BY <1>1 DEF Aligned
<1>3. CASE a = [m |-> m, M |-> mem]
  BY <1>1, <1>3, NothingBrings
<1>4. CASE a = MoveX(m, mem) \/ a = MoveY(m, mem)
  BY <1>1, <1>4, MovesBring
<1> QED BY <1>2, <1>3, <1>4

\* So it is with all the moves that precede a merge, and those at the root if there is
\* nothing to merge.
LEMMA MoreBring ==
  ASSUME NEW id, ~merges[id].split, Laid(merges[id], mem), NEW a, a = Aligned(id), NEW b, b = MoveBoth(a.m, a.M) \/ b = a
  PROVE  Brings(b, merges[id], mem)
<1>1. Laid(a.m, a.M) /\ SameTask(a.m, merges[id]) /\ Brings(a, merges[id], mem)
  BY HalvesAlign, AlignedBrings
<1>2. CASE b = a
  BY <1>1, <1>2
<1>3. CASE b = MoveBoth(a.m, a.M)
  <2>1. Brings(b, a.m, a.M)
    BY <1>1, <1>3, BothBring
  <2>2. a.m.xs = merges[id].xs /\ a.m.ye = merges[id].ye
    BY <1>1 DEF SameTask
  <2> QED BY <1>1, <2>1, <2>2, BringsTwice
<1> QED BY <1>2, <1>3

LEMMA ToMergeBrings ==
  ASSUME NEW id, ~merges[id].split, Laid(merges[id], mem)
  PROVE  Brings(ToMerge(id), merges[id], mem)
<1>1. PICK a, b : a = Aligned(id) /\ b = ToMerge(id)
  OBVIOUS
<1>2. b = MoveBoth(a.m, a.M) \/ b = a
  BY <1>1 DEF ToMerge
<1> QED BY <1>1, <1>2, MoreBring

\* Halves that lie in one array are what the task finds there.
LEMMA ContentOfOne ==
  ASSUME NEW m \in MergeTasks, NEW M, m.x_orig = m.y_orig, NEW from, from = (IF m.x_orig THEN M.x ELSE M.z)
  PROVE  \A i : Content(m, M, i) = from[i]
<1>1. m.x_orig \in BOOLEAN
  BY DEF MergeTasks
<1> QED BY <1>1 DEF Content
-------------------------------------------------------------------------------
(* The inductive invariant of the order. A half h that the task p waits for is  *)
(* made of units in line: what the pieces of a split merge are still to merge,  *)
(* and the elements that no task is to write any more.                          *)
Array(M, a) == IF a THEN M.x ELSE M.z
InputsOf(m, M) ==
  Unit(SlotsOf(Array(M, m.x_orig), m.xs, m.xe), SlotsOf(Array(M, m.x_orig), m.ys, m.ye), m.zs)
Pieces(p, h) == {id \in DOMAIN merges : merges[id].split /\ Child(MergeNode(id), p, h)}
Done(p, h) == {i \in Indices(h) : \A c : Child(c, p, h) => i \notin Out(c)}
Units(p, h) == {InputsOf(merges[id], mem) : id \in Pieces(p, h)} \cup SinglesOf(Array(mem, Flag(p, h)), Done(p, h))

\* The elements in the slots of h came from there; those of S have not moved yet.
Homed(M, h) == \A s \in AllSlots : s[2] \in Indices(h) /\ IsItem(At(M, s)) => At(M, s)[2] \in Indices(h)
Untouched(S) == \A i \in S : mem.x[i][2] = i

Limit(h) == h[1] + nsort
HalfInOrder(p, h) == Homed(mem, h) /\ InLine(Units(p, h), Limit(h))
Awaited(p) == IF p = Root THEN sortPc # "begin" ELSE p \in DOMAIN merges /\ ~merges[p].split /\ ~merges[p].finished
MergesEnough(id) ==
  LET h == Home(MergeNode(id))
  IN  merges[id].nmerge = Minimum(nsort, h[2] - h[1])

OrdInv ==
  /\ Distinct(mem)
  /\ Homed(mem, <<0, sortN>>)
  /\ stable => sortN <= nsort
  /\ sortPc = "begin" => Untouched(Span(0, sortN))
  /\ \A s \in sorts : ~s.finished => Untouched(Span(s.lo, s.hi))
  /\ \A id \in DOMAIN merges : ~merges[id].finished => MergesEnough(id)
  /\ \A p : Awaited(p) => \A h \in Halves(p) : HalfInOrder(p, h)

-------------------------------------------------------------------------------
(* How units stay as they are.                                                 *)
LEMMA FewerInLine ==
  ASSUME NEW U, NEW lim, InLine(U, lim), NEW V, V \subseteq U
  PROVE  InLine(V, lim)
BY DEF InLine

LEMMA NoneInLine ==
  ASSUME NEW lim
  PROVE  InLine({}, lim)
BY DEF InLine

\* The order is the same while stable is.
LEMMA InLineStill ==
  ASSUME stable' = stable, NEW U, NEW lim, InLine(U, lim)
  PROVE  InLine(U, lim)'
<1>1. \A a, b : Prec(a, b)' <=> Prec(a, b)
  BY DEF Prec
<1>2. \A X, Y, b, k : UnderTo(X, Y, b, k)' <=> UnderTo(X, Y, b, k)
  <2>1. \A X, Y, b, i, j : BeginsUnder(X, Y, b, i, j)' <=> BeginsUnder(X, Y, b, i, j)
    BY <1>1 DEF BeginsUnder
  <2> QED BY <2>1 DEF UnderTo
<1>3. \A X, k : SortedTo(X, k)' <=> SortedTo(X, k)
  BY <1>1 DEF SortedTo
<1>4. \A X, Y, k : Mergeable(X, Y, k)' <=> Mergeable(X, Y, k)
  BY <1>3 DEF Mergeable, CameBefore
<1>5. \A u, v : Ahead(u, v, lim)' <=> Ahead(u, v, lim)
  BY <1>2 DEF Ahead, Under, Holds, From, UnitEnd
<1>6. \A u : IsUnit(u)' <=> IsUnit(u)
  BY DEF IsUnit, Items, Values
<1> QED BY <1>4, <1>5, <1>6 DEF InLine

LEMMA SameSlots ==
  ASSUME NEW A, NEW B, NEW lo \in Nat, NEW hi \in Nat, \A i \in Span(lo, hi) : A[i] = B[i]
  PROVE  SlotsOf(A, lo, hi) = SlotsOf(B, lo, hi)
<1>1. PICK n : n = hi - lo
  OBVIOUS
<1>2. \A r \in 1..n : A[lo + r - 1] = B[lo + r - 1]
  <2>1. \A r \in 1..n : lo + r - 1 \in Span(lo, hi)
    BY <1>1 DEF Span
  <2> QED BY <2>1
<1>3. [r \in 1..n |-> A[lo + r - 1]] = [r \in 1..n |-> B[lo + r - 1]]
  BY <1>2
<1> QED BY <1>1, <1>3 DEF SlotsOf

\* A piece still has what it is to merge.
LEMMA PieceStays ==
  ASSUME TreeInv, NEW t \in Nodes, Idle(t), NEW N, Replaces(t, N), OnlySlotsOf(t),
         NEW id \in DOMAIN merges, merges[id].split, MergeNode(id) # t
  PROVE  InputsOf(merges'[id], mem') = InputsOf(merges[id], mem)
<1>1. PICK m, k : m = merges[id] /\ k = merges'[id]
  OBVIOUS
<1>2. m \in MergeTasks /\ MergeNode(id) \in Nodes /\ SameTask(k, m)
  BY <1>1, MergeTaskIsTyped DEF Replaces, SameMerge
<1>3. k.xs = m.xs /\ k.xe = m.xe /\ k.ys = m.ys /\ k.ye = m.ye /\ k.zs = m.zs /\ k.x_orig = m.x_orig
  BY <1>1, <1>2 DEF SameTask
<1>4. Slots(t) \cap MergeSlots(m) = {}
  <2>1. ~Below(t, MergeNode(id)) /\ IsSplit(MergeNode(id))
    BY DEF Below, IsWhole, IsSplit, MergeNode
  <2> QED BY <1>1, <1>2, <2>1, SlotsAreApart DEF Slots, MergeNode
<1>5. MergeInputs(m) \subseteq Span(0, sortN)
  BY <1>1, <1>2, SlotsOfTasks DEF In, IsSplit, MergeNode
<1>6. PICK A, B : A = Array(mem', m.x_orig) /\ B = Array(mem, m.x_orig)
  OBVIOUS
<1>7. \A i \in MergeInputs(m) : A[i] = B[i]
  <2> SUFFICES ASSUME NEW i \in MergeInputs(m) PROVE A[i] = B[i]
    OBVIOUS
  <2>1. i \in Span(0, sortN) /\ m.split
    BY <1>1, <1>5
  <2>2. CASE m.x_orig
    <3>1. <<"x", i>> \in MergeSlots(m)
      BY <2>1, <2>2 DEF MergeSlots, InArray
    <3>2. <<"x", i>> \notin Slots(t)
      BY <1>4, <3>1
    <3>3. mem'.x[i] = mem.x[i]
      BY <2>1, <3>2 DEF OnlySlotsOf
    <3> QED BY <1>6, <2>2, <3>3 DEF Array
  <2>3. CASE ~m.x_orig
    <3>1. <<"z", i>> \in MergeSlots(m)
      BY <2>1, <2>3 DEF MergeSlots, InArray
    <3>2. <<"z", i>> \notin Slots(t)
      BY <1>4, <3>1
    <3>3. mem'.z[i] = mem.z[i]
      BY <2>1, <3>2 DEF OnlySlotsOf
    <3> QED BY <1>6, <2>3, <3>3 DEF Array
  <2> QED BY <2>2, <2>3
<1>8. PICK xs \in Nat, xe \in Nat, ys \in Nat, ye \in Nat : xs = m.xs /\ xe = m.xe /\ ys = m.ys /\ ye = m.ye
  BY <1>2 DEF MergeTasks
<1>9. /\ \A i \in Span(xs, xe) : A[i] = B[i]
      /\ \A i \in Span(ys, ye) : A[i] = B[i]
  BY <1>7, <1>8 DEF MergeInputs
<1>10. SlotsOf(A, xs, xe) = SlotsOf(B, xs, xe) /\ SlotsOf(A, ys, ye) = SlotsOf(B, ys, ye)
  BY <1>9, SameSlots
<1> QED BY <1>1, <1>3, <1>6, <1>8, <1>10 DEF InputsOf

\* Within the home of t, a child of the half still waits to write.
LEMMA ChildStillWrites ==
  ASSUME TreeInv, NEW t \in Nodes, Idle(t), NEW p, Whole(p), t # MergeNode(p), NEW h \in Halves(p), p # Up(t) \/ h # Home(t),
         NEW i \in Indices(h), i \in Indices(Home(t))
  PROVE  \E c \in Nodes : c # t /\ Child(c, p, h) /\ i \in In(c) /\ i \in Out(c)
<1>1. PICK c \in Nodes : Up(c) = p /\ Within(Home(t), Home(c))
  <2>1. CASE p = Root
    BY <2>1 DEF TreeInv, Rooted
  <2>2. CASE p # Root
    <3> DEFINE u == MergeNode(p)
    <3>1. u \in Nodes /\ u[2] = p /\ IsWhole(u) /\ ~IsSplit(u)
      BY <2>2, MergeTaskIsTyped DEF Whole, IsWhole, IsSplit, MergeNode
    <3>2. h = HalfX(p) \/ h = HalfY(p)
      BY <2>2 DEF Halves
    <3>3. Home(t) \in Nat \X Nat /\ Home(u) \in Nat \X Nat
      BY <3>1, HomesAreRanges DEF TreeInv
    <3>4. ~Apart(Home(t), Home(u))
      <4>1. h[1] >= Home(u)[1] /\ h[2] <= Home(u)[2] /\ h \in Nat \X Nat
        BY <3>1, <3>2, <3>3, HalvesAreShorter DEF TreeInv
      <4>2. i \in Nat /\ h[1] <= i /\ i < h[2] /\ Home(t)[1] <= i /\ i < Home(t)[2]
        BY <3>3, <4>1 DEF Indices, Span
      <4> QED BY <3>3, <4>1, <4>2 DEF Apart
    <3>5. Below(t, u)
      BY <3>1, <3>4, Alone DEF Siblings
    <3> HIDE DEF u
    <3> QED BY <3>1, <3>5 DEF TreeInv, Connected, ChildBetween
  <2> QED BY <2>1, <2>2
<1>2. Home(c) \in Halves(p) /\ Home(t) \in Nat \X Nat /\ Home(c) \in Nat \X Nat /\ Home(t)[1] < Home(t)[2]
  BY <1>1, HomeIsAHalf, HomesAreRanges DEF TreeInv
<1>3. i \in Indices(Home(c))
  BY <1>1, <1>2 DEF Within, Indices, Span
<1>4. Home(c) = h
  BY <1>2, <1>3, HalvesAreDisjoint
<1>5. c # t
  BY <1>1, <1>4
<1>6. Below(t, c)
  <2>1. ~Apart(Home(t), Home(c))
    BY <1>1, <1>2, WithinIsNotApart
  <2> QED BY <1>1, <1>4, <1>5, <2>1, Alone DEF Siblings
<1>7. PICK id \in DOMAIN merges : c = MergeNode(id) /\ ~merges[id].split
  BY <1>6 DEF Below, IsWhole, Nodes, SortNode, MergeNode
<1>8. Waits(c)
  <2>1. PICK d \in Nodes : Up(d) = id
    BY <1>6, <1>7 DEF TreeInv, Connected, ChildBetween, MergeNode
  <2>2. HasParent(d) /\ id # Root
    BY <1>7, MergeTaskIsTyped DEF TreeInv, ParentsWait
  <2> QED BY <1>7, <2>1, <2>2 DEF HasParent, Waits, MergeNode
<1>9. ~IsSplit(c)
  BY <1>7 DEF IsSplit, MergeNode
<1> QED BY <1>1, <1>3, <1>4, <1>5, <1>8, <1>9 DEF Child, In, Out

LEMMA HalvesAreInRange ==
  ASSUME TreeInv, NEW p, Whole(p), NEW h \in Halves(p)
  PROVE  Indices(h) \subseteq Span(0, sortN)
<1>1. CASE p = Root
  BY <1>1 DEF Halves, Indices
<1>2. CASE p # Root
  <2>1. MergeNode(p) \in Nodes /\ MergeNode(p)[2] = p /\ IsWhole(MergeNode(p))
    BY <1>2, MergeTaskIsTyped DEF Whole, IsWhole, MergeNode
  <2>2. Indices(h) \subseteq Indices(Home(MergeNode(p)))
    BY <1>2, <2>1, HalvesAreShorter DEF TreeInv, Halves, Indices, Span
  <2> QED BY <2>1, <2>2, SlotsOfTasks
<1> QED BY <1>1, <1>2
-------------------------------------------------------------------------------
(* The units of a half after a step of a task t.                               *)

\* The parent of a task is another.
LEMMA ParentIsAnother ==
  ASSUME TreeInv, NEW t \in Nodes, Idle(t), NEW p, p = Up(t)
  PROVE  Whole(p) /\ t # MergeNode(p)
<1>1. Whole(p)
  BY HomeIsAHalf
<1> QED BY <1>1, MergeTaskIsTyped DEF Whole, Idle, MergeNode, Nodes, SortNode, TreeInv, TreeTypeOK, Root

\* Only pieces of one merge share a home and a parent.
LEMMA OnlyChild ==
  ASSUME TreeInv, NEW t \in Nodes, Idle(t), NEW c \in Nodes, c # t, Home(c) = Home(t)
  PROVE  Siblings(t, c)
<1>1. Home(t) \in Nat \X Nat /\ Home(t)[1] < Home(t)[2]
  BY HomesAreRanges DEF TreeInv
<1>2. Within(Home(t), Home(c)) /\ Within(Home(c), Home(t))
  BY <1>1 DEF Within
<1>3. ~Apart(Home(t), Home(c))
  BY <1>1 DEF Apart
<1>4. ~Below(t, c)
  BY <1>1, <1>2, BelowIsSmaller DEF TreeInv
<1> QED BY <1>3, <1>4, Alone

\* A child of a half after the step is new, or was one.
LEMMA ChildrenAfter ==
  ASSUME TreeInv, NEW t \in Nodes, Idle(t), NEW N, Replaces(t, N), NEW p, NEW h
  PROVE  /\ \A c : Child(c, p, h)' => c \in N \/ (c # t /\ Child(c, p, h))
         /\ \A c : Child(c, p, h) /\ c # t => Child(c, p, h)' /\ Out(c)' = Out(c)
         /\ \A id : id \in Pieces(p, h)' => MergeNode(id) \in N \/ (MergeNode(id) # t /\ id \in Pieces(p, h))
<1>1. \A c : c \in Nodes' => c \in N \/ (c # t /\ c \in Nodes)
  BY DEF Replaces
<1>2. \A c \in Nodes : c # t => /\ c \in Nodes' /\ Kept(c) /\ (Waits(c)' <=> Waits(c)) /\ Out(c)' = Out(c)
  BY KeptSlots
<1>3. \A c : Child(c, p, h)' => c \in N \/ (c # t /\ Child(c, p, h))
  BY <1>1, <1>2 DEF Child, Kept
<1>4. \A c : Child(c, p, h) /\ c # t => Child(c, p, h)' /\ Out(c)' = Out(c)
  BY <1>2 DEF Child, Kept
<1>5. ASSUME NEW id, id \in Pieces(p, h)', MergeNode(id) \notin N
      PROVE  MergeNode(id) # t /\ id \in Pieces(p, h)
  <2>1. MergeNode(id) # t /\ Child(MergeNode(id), p, h) /\ merges'[id].split
    BY <1>3, <1>5 DEF Pieces
  <2>2. id \in DOMAIN merges
    BY <2>1 DEF Child, Nodes, SortNode, MergeNode
  <2>3. merges[id].split
    BY <2>1, <2>2 DEF Replaces, SameMerge, SameTask
  <2> QED BY <2>1, <2>2, <2>3 DEF Pieces
<1> QED BY <1>3, <1>4, <1>5

\* Elsewhere no unit is new.
LEMMA UnitsElsewhere ==
  ASSUME TreeInv, NEW t \in Nodes, Idle(t), NEW N, Replaces(t, N), OnlySlotsOf(t), FlagsKept(t),
         NEW p, Whole(p), t # MergeNode(p), NEW h \in Halves(p), p # Up(t) \/ h # Home(t),
         \A c \in N : ~Child(c, p, h)'
  PROVE  Units(p, h)' \subseteq Units(p, h)
<1>1. /\ \A c : Child(c, p, h) /\ c # t => Child(c, p, h)' /\ Out(c)' = Out(c)
      /\ \A id : id \in Pieces(p, h)' => MergeNode(id) \in N \/ (MergeNode(id) # t /\ id \in Pieces(p, h))
  BY ChildrenAfter
<1>2. ~Child(t, p, h)
  BY DEF Child
<1>3. \A id \in Pieces(p, h)' : id \in Pieces(p, h) /\ InputsOf(merges'[id], mem') = InputsOf(merges[id], mem)
  <2> SUFFICES ASSUME NEW id, id \in Pieces(p, h)'
               PROVE  id \in Pieces(p, h) /\ InputsOf(merges'[id], mem') = InputsOf(merges[id], mem)
    OBVIOUS
  <2>1. MergeNode(id) \notin N
    BY DEF Pieces
  <2>2. MergeNode(id) # t /\ id \in Pieces(p, h)
    BY <1>1, <2>1
  <2>3. id \in DOMAIN merges /\ merges[id].split
    BY <2>2 DEF Pieces
  <2> QED BY <2>2, <2>3, PieceStays
<1>4. PICK A, B : A = Array(mem', Flag(p, h)') /\ B = Array(mem, Flag(p, h))
  OBVIOUS
<1>5. Flag(p, h)' = Flag(p, h)
  BY DEF FlagsKept
<1>6. \A i \in Done(p, h)' : i \in Done(p, h) /\ A[i] = B[i]
  <2> SUFFICES ASSUME NEW i, i \in Done(p, h)'
               PROVE  i \in Done(p, h) /\ A[i] = B[i]
    OBVIOUS
  <2>1. i \in Indices(h) /\ \A c : Child(c, p, h)' => i \notin Out(c)'
    BY DEF Done, Indices
  <2>2. \A c : Child(c, p, h) => i \notin Out(c)
    BY <1>1, <1>2, <2>1
  <2>3. i \in Span(0, sortN)
    BY <2>1, HalvesAreInRange
  <2>4. i \notin Indices(Home(t))
    BY <2>1, <2>2, ChildStillWrites
  <2>5. mem'.x[i] = mem.x[i] /\ mem'.z[i] = mem.z[i]
    BY <2>3, <2>4, SlotsOfTasks DEF OnlySlotsOf
  <2> QED BY <1>4, <1>5, <2>1, <2>2, <2>5 DEF Done, Array
<1>7. Units(p, h)' = {InputsOf(merges'[id], mem') : id \in Pieces(p, h)'} \cup SinglesOf(A, Done(p, h)')
  BY <1>4 DEF Units, SinglesOf, Array, InputsOf
<1>8. Units(p, h) = {InputsOf(merges[id], mem) : id \in Pieces(p, h)} \cup SinglesOf(B, Done(p, h))
  BY <1>4 DEF Units
<1>9. SinglesOf(A, Done(p, h)') \subseteq SinglesOf(B, Done(p, h))
  <2> SUFFICES ASSUME NEW v \in SinglesOf(A, Done(p, h)') PROVE v \in SinglesOf(B, Done(p, h))
    OBVIOUS
  <2>1. PICK i \in Done(p, h)' : v = Single(A[i], i)
    BY DEF SinglesOf
  <2>2. i \in Done(p, h) /\ v = Single(B[i], i)
    BY <1>6, <2>1
  <2> QED BY <2>2 DEF SinglesOf
<1> QED BY <1>3, <1>7, <1>8, <1>9
-------------------------------------------------------------------------------
IsArrayOf(A, p, h) == (Flag(p, h)' => A = mem'.x) /\ (~Flag(p, h)' => A = mem'.z)
NewPieces(p, h, N) == {InputsOf(merges'[id], mem') : id \in {i \in Pieces(p, h)' : MergeNode(i) \in N}}

LEMMA InArrays ==
  \A c, d, i, S : <<c, i>> \in InArray(d, S) => c = d /\ i \in S
BY DEF InArray

\* Where a piece runs, its unit gives way to what it leaves.
LEMMA UnitsOfPiece ==
  ASSUME TreeInv, MemInv, NEW id \in DOMAIN merges, merges[id].split, ~merges[id].finished,
         NEW t, t = MergeNode(id), Idle(t), NEW N, Replaces(t, N), OnlySlotsOf(t), FlagsKept(t),
         NEW p, p = Up(t), NEW h, h = Home(t), NEW D, D = Done(p, h)', NEW A, IsArrayOf(A, p, h),
         NEW u, u = InputsOf(merges[id], mem)
  PROVE  u \in Units(p, h) /\ Units(p, h)' \subseteq (Units(p, h) \ {u}) \cup (NewPieces(p, h, N) \cup SinglesOf(A, D \cap Out(t)))
<1>1. PICK m, B : u = InputsOf(merges[id], mem) /\ m = merges[id] /\ D = Done(p, h)' /\ B = Array(mem, Flag(p, h))
  OBVIOUS
<1>2. /\ t \in Nodes /\ IsSplit(t) /\ m \in MergeTasks /\ MergeShape(id) /\ Whole(p) /\ t # MergeNode(p) /\ h \in Halves(p)
      /\ Slots(t) = MergeSlots(m) /\ Out(t) = MergeOutputs(m) /\ p = m.parent
  BY <1>1, MergeTaskIsTyped, ParentIsAnother, HomeIsAHalf DEF IsSplit, MergeNode, Slots, Out
<1>3. Child(t, p, h) /\ id \in Pieces(p, h)
  <2>1. Child(t, p, h)
    BY <1>2 DEF Child, Waits, MergeNode
  <2> QED BY <2>1 DEF Pieces
<1>4. u \in Units(p, h)
  BY <1>1, <1>3 DEF Units
<1>5. /\ \A c : Child(c, p, h) /\ c # t => Child(c, p, h)' /\ Out(c)' = Out(c)
      /\ \A i : i \in Pieces(p, h)' => MergeNode(i) \in N \/ (MergeNode(i) # t /\ i \in Pieces(p, h))
  BY <1>2, ChildrenAfter
<1>6. u.zs = m.zs /\ m.zs \in Nat /\ m.zs \in Out(t)
  <2>1. u.zs = m.zs
    BY <1>1, UnitFields DEF InputsOf
  <2>2. SizeOf(m) > 0 /\ SizeOf(m) = (m.xe - m.xs) + (m.ye - m.ys)
    BY <1>1, <1>2 DEF MergeShape, SizeOf
  <2>3. PICK z \in Nat, xs \in Nat, xe \in Nat, ys \in Nat, ye \in Nat :
          z = m.zs /\ xs = m.xs /\ xe = m.xe /\ ys = m.ys /\ ye = m.ye
    BY <1>2 DEF MergeTasks
  <2>4. z \in Span(z, z + (xe - xs) + (ye - ys))
    BY <2>2, <2>3 DEF Span
  <2> QED BY <1>2, <2>1, <2>3, <2>4 DEF MergeOutputs
<1>7. ASSUME NEW i \in Pieces(p, h), MergeNode(i) # t
      PROVE  InputsOf(merges'[i], mem') \in Units(p, h) /\ InputsOf(merges'[i], mem') # u
  <2>1. i \in DOMAIN merges /\ merges[i].split /\ MergeNode(i) \in Nodes /\ Home(MergeNode(i)) = h
    BY <1>7 DEF Pieces, Child
  <2>2. InputsOf(merges'[i], mem') = InputsOf(merges[i], mem)
    BY <1>2, <1>7, <2>1, PieceStays
  <2>3. InputsOf(merges[i], mem) \in Units(p, h)
    BY <1>7 DEF Units
  <2>4. Siblings(t, MergeNode(i))
    BY <1>2, <1>7, <2>1, OnlyChild
  <2>5. MergeOutputs(m) \cap MergeOutputs(merges[i]) = {}
    BY <1>1, <2>4 DEF Siblings, MergeNode
  <2>6. merges[i].zs \in MergeOutputs(merges[i])
    <3>1. merges[i] \in MergeTasks /\ MergeShape(i)
      BY <2>1, MergeTaskIsTyped
    <3>2. PICK z \in Nat, xs \in Nat, xe \in Nat, ys \in Nat, ye \in Nat :
            z = merges[i].zs /\ xs = merges[i].xs /\ xe = merges[i].xe /\ ys = merges[i].ys /\ ye = merges[i].ye
      BY <3>1 DEF MergeTasks
    <3>3. (xe - xs) + (ye - ys) > 0
      BY <3>1, <3>2 DEF MergeShape, SizeOf
    <3>4. z \in Span(z, z + (xe - xs) + (ye - ys))
      BY <3>2, <3>3 DEF Span
    <3> QED BY <3>2, <3>4 DEF MergeOutputs
  <2>7. InputsOf(merges[i], mem).zs = merges[i].zs
    BY UnitFields DEF InputsOf
  <2>8. merges[i].zs # m.zs
    BY <1>2, <1>6, <2>5, <2>6
  <2> QED BY <1>6, <2>2, <2>3, <2>7, <2>8
<1>8. MergeReady(id)
  BY DEF MemInv
<1>9. m.x_orig = (~Flag(p, h)) /\ m.x_orig \in BOOLEAN /\ m.split
  BY <1>1, <1>2, <1>8 DEF MergeReady, MergeTasks
<1>10. (Flag(p, h)' <=> Flag(p, h)) /\ A = Array(mem', Flag(p, h)')
  BY <1>2 DEF FlagsKept, IsArrayOf, Array
<1>11. ASSUME NEW i \in D, i \notin Out(t)
       PROVE  i \in Done(p, h) /\ A[i] = B[i] /\ i \in Nat
  <2>1. i \in Indices(h) /\ \A c : Child(c, p, h)' => i \notin Out(c)'
    BY <1>1, <1>11 DEF Done, Indices
  <2>2. \A c : Child(c, p, h) => i \notin Out(c)
    BY <1>5, <1>11, <2>1
  <2>3. i \in Span(0, sortN)
    BY <1>2, <2>1, HalvesAreInRange
  <2>4. i \in Done(p, h) /\ i \in Nat
    BY <2>1, <2>2, <2>3 DEF Done, Span
  <2>5. A[i] = B[i]
    <3>1. i \notin MergeOutputs(m)
      BY <1>2, <1>11
    <3>2. CASE Flag(p, h)
      <4>1. m.x_orig = FALSE
        BY <1>9, <3>2
      <4>2. <<"x", i>> \notin Slots(t)
        BY <1>2, <1>9, <3>1, <4>1, InArrays DEF MergeSlots
      <4>3. mem'.x[i] = mem.x[i]
        BY <2>3, <4>2 DEF OnlySlotsOf
      <4> QED BY <1>1, <1>10, <3>2, <4>3 DEF Array
    <3>3. CASE ~Flag(p, h)
      <4>1. m.x_orig = TRUE
        BY <1>9, <3>3
      <4>2. <<"z", i>> \notin Slots(t)
        BY <1>2, <1>9, <3>1, <4>1, InArrays DEF MergeSlots
      <4>3. mem'.z[i] = mem.z[i]
        BY <2>3, <4>2 DEF OnlySlotsOf
      <4> QED BY <1>1, <1>10, <3>3, <4>3 DEF Array
    <3> QED BY <3>2, <3>3
  <2> QED BY <2>4, <2>5
<1>12. Units(p, h)' = {InputsOf(merges'[i], mem') : i \in Pieces(p, h)'} \cup SinglesOf(A, D)
  BY <1>1, <1>10 DEF Units, SinglesOf, Array, InputsOf
<1>13. ASSUME NEW v \in SinglesOf(A, D)
       PROVE  v \in Units(p, h) \ {u} \/ v \in SinglesOf(A, D \cap Out(t))
  <2>1. PICK i \in D : v = Single(A[i], i)
    BY DEF SinglesOf
  <2>2. CASE i \in Out(t)
    BY <2>1, <2>2 DEF SinglesOf
  <2>3. CASE i \notin Out(t)
    <3>1. i \in Done(p, h) /\ A[i] = B[i]
      BY <1>11, <2>3
    <3>2. v \in SinglesOf(B, Done(p, h))
      BY <2>1, <3>1 DEF SinglesOf
    <3>3. v \in Units(p, h)
      BY <1>1, <3>2 DEF Units
    <3>4. v.zs = i
      BY <2>1, UnitFields DEF Single
    <3> QED BY <1>6, <2>3, <3>3, <3>4
  <2> QED BY <2>2, <2>3
<1>14. ASSUME NEW i \in Pieces(p, h)'
       PROVE  InputsOf(merges'[i], mem') \in Units(p, h) \ {u} \/ InputsOf(merges'[i], mem') \in NewPieces(p, h, N)
  <2>1. CASE MergeNode(i) \in N
    BY <2>1 DEF NewPieces
  <2>2. CASE MergeNode(i) \notin N
    <3>1. MergeNode(i) # t /\ i \in Pieces(p, h)
      BY <1>5, <2>2
    <3> QED BY <1>7, <3>1
  <2> QED BY <2>1, <2>2
<1>15. Units(p, h)' \subseteq (Units(p, h) \ {u}) \cup (NewPieces(p, h, N) \cup SinglesOf(A, D \cap Out(t)))
  BY <1>12, <1>13, <1>14
<1> QED BY <1>1, <1>4, <1>15

\* Where a task runs that has its home for itself.
LEMMA UnitsOfWhole ==
  ASSUME TreeInv, NEW t \in Nodes, ~IsSplit(t), Idle(t), NEW N, Replaces(t, N), NEW p, p = Up(t), NEW h, h = Home(t),
         NEW D, D = Done(p, h)', NEW A, IsArrayOf(A, p, h)
  PROVE  Units(p, h)' \subseteq NewPieces(p, h, N) \cup SinglesOf(A, D)
<1>1. ASSUME NEW i, i \in Pieces(p, h)' PROVE MergeNode(i) \in N
  <2>1. MergeNode(i) \in N \/ (MergeNode(i) # t /\ i \in Pieces(p, h))
    BY <1>1, ChildrenAfter
  <2>2. ASSUME MergeNode(i) # t, i \in Pieces(p, h) PROVE FALSE
    <3>1. MergeNode(i) \in Nodes /\ Home(MergeNode(i)) = Home(t)
      BY <2>2 DEF Pieces, Child
    <3>2. Siblings(t, MergeNode(i))
      BY <2>2, <3>1, OnlyChild
    <3> QED BY <3>2 DEF Siblings
  <2> QED BY <2>1, <2>2
<1>2. NewPieces(p, h, N) = {InputsOf(merges'[i], mem') : i \in Pieces(p, h)'}
  BY <1>1 DEF NewPieces
<1>3. D = Done(p, h)' /\ A = Array(mem', Flag(p, h)')
  BY DEF IsArrayOf, Array
<1>4. Units(p, h)' = {InputsOf(merges'[i], mem') : i \in Pieces(p, h)'} \cup SinglesOf(A, D)
  BY <1>3 DEF Units, SinglesOf, Array, InputsOf
<1> QED BY <1>2, <1>3, <1>4

\* Where a task that has run is destroyed.
LEMMA UnitsOfFinished ==
  ASSUME TreeInv, NEW t \in Nodes, Idle(t), ~Waits(t), Replaces(t, {}), mem' = mem, FlagsKept(t),
         NEW p, Whole(p), t # MergeNode(p), NEW h \in Halves(p), Flag(p, h)' = Flag(p, h)
  PROVE  Units(p, h)' \subseteq Units(p, h)
<1>1. /\ \A c : Child(c, p, h) /\ c # t => Child(c, p, h)' /\ Out(c)' = Out(c)
      /\ \A i : i \in Pieces(p, h)' => (MergeNode(i) # t /\ i \in Pieces(p, h))
  <2>1. PICK N : N = {}
    OBVIOUS
  <2>2. Replaces(t, N)
    BY <2>1
  <2>3. /\ \A c : Child(c, p, h) /\ c # t => Child(c, p, h)' /\ Out(c)' = Out(c)
        /\ \A i : i \in Pieces(p, h)' => MergeNode(i) \in N \/ (MergeNode(i) # t /\ i \in Pieces(p, h))
    BY <2>2, ChildrenAfter
  <2> QED BY <2>1, <2>3
<1>2. ~Child(t, p, h)
  BY DEF Child
<1>3. OnlySlotsOf(t)
  BY DEF OnlySlotsOf
<1>4. \A i \in Pieces(p, h)' : i \in Pieces(p, h) /\ InputsOf(merges'[i], mem') = InputsOf(merges[i], mem)
  <2> SUFFICES ASSUME NEW i, i \in Pieces(p, h)'
               PROVE  i \in Pieces(p, h) /\ InputsOf(merges'[i], mem') = InputsOf(merges[i], mem)
    OBVIOUS
  <2>1. MergeNode(i) # t /\ i \in Pieces(p, h)
    BY <1>1
  <2>2. i \in DOMAIN merges /\ merges[i].split
    BY <2>1 DEF Pieces
  <2>3. PICK N : N = {}
    OBVIOUS
  <2>4. Replaces(t, N)
    BY <2>3
  <2> QED BY <1>3, <2>1, <2>2, <2>4, PieceStays
<1>5. Done(p, h)' \subseteq Done(p, h)
  <2> SUFFICES ASSUME NEW i, i \in Done(p, h)' PROVE i \in Done(p, h)
    OBVIOUS
  <2>1. i \in Indices(h) /\ \A c : Child(c, p, h)' => i \notin Out(c)'
    BY DEF Done, Indices
  <2>2. \A c : Child(c, p, h) => i \notin Out(c)
    BY <1>1, <1>2, <2>1
  <2> QED BY <2>1, <2>2 DEF Done
<1>6. PICK A, D : A = Array(mem, Flag(p, h)) /\ D = Done(p, h)'
  OBVIOUS
<1>7. Units(p, h)' = {InputsOf(merges'[i], mem') : i \in Pieces(p, h)'} \cup SinglesOf(A, D)
  BY <1>6 DEF Units, SinglesOf, Array, InputsOf
<1>8. SinglesOf(A, D) \subseteq SinglesOf(A, Done(p, h))
  BY <1>5, <1>6 DEF SinglesOf
<1> QED BY <1>4, <1>6, <1>7, <1>8 DEF Units
-------------------------------------------------------------------------------
(* A step keeps the invariant if it leaves its home in line.                   *)

\* The home of a task lies in a half or apart from it.
LEMMA HomesNest ==
  ASSUME TreeInv, NEW t \in Nodes, Idle(t), NEW p, Whole(p), t # MergeNode(p), NEW h \in Halves(p)
  PROVE  Indices(Home(t)) \subseteq Indices(h) \/ Indices(Home(t)) \cap Indices(h) = {}
<1>1. CASE p = Root
  BY <1>1, SlotsOfTasks DEF Halves, Indices
<1>2. CASE p # Root
  <2>1. PICK u : u = MergeNode(p)
    OBVIOUS
  <2>2. u \in Nodes /\ u[2] = p /\ IsWhole(u) /\ ~IsSplit(u) /\ h \in {HalfX(p), HalfY(p)} /\ u # t
    BY <1>2, <2>1, MergeTaskIsTyped DEF Whole, IsWhole, IsSplit, MergeNode, Halves
  <2>3. Home(t) \in Nat \X Nat /\ Home(u) \in Nat \X Nat /\ Home(t)[1] < Home(t)[2]
    BY <2>2, HomesAreRanges DEF TreeInv
  <2>4. /\ HalfX(p) \in Nat \X Nat /\ HalfY(p) \in Nat \X Nat
        /\ HalfX(p)[1] = Home(u)[1] /\ HalfX(p)[2] = HalfY(p)[1] /\ HalfY(p)[2] = Home(u)[2]
        /\ HalfX(p)[1] < HalfX(p)[2] /\ HalfY(p)[1] < HalfY(p)[2]
    BY <2>2, HalvesAreShorter DEF TreeInv
  <2>5. CASE Apart(Home(t), Home(u))
    BY <2>2, <2>3, <2>4, <2>5 DEF Apart, Indices, Span
  <2>6. CASE Below(t, u)
    BY <2>2, <2>3, <2>4, <2>6 DEF Below, Within, Indices, Span
  <2> QED BY <2>2, <2>5, <2>6, Alone DEF Siblings
<1> QED BY <1>1, <1>2

\* What moves within S is still at home where S lies in the home, or apart from it.
LEMMA HomedStill ==
  ASSUME NEW M, NEW K, NEW S, Carried(K, M, S), NEW h, Homed(M, h), S \subseteq Indices(h) \/ S \cap Indices(h) = {}
  PROVE  Homed(K, h)
<1> SUFFICES ASSUME NEW s \in AllSlots, s[2] \in Indices(h), IsItem(At(K, s))
             PROVE  At(K, s)[2] \in Indices(h)
  BY DEF Homed
<1>1. PICK r \in AllSlots : At(M, r) = At(K, s) /\ (s[2] \in S => r[2] \in S) /\ (s[2] \notin S => r = s)
  BY DEF Carried
<1>2. r[2] \in Indices(h)
  BY <1>1
<1> QED BY <1>1, <1>2 DEF Homed

\* What a step must tell of the tasks it makes.
InOrderFrom(t, N) ==
  /\ \A v \in N : Waits(v)' => (Up(v)' = Up(t) /\ Home(v)' = Home(t)) \/ (Up(v)' \notin DOMAIN merges /\ Up(v)' # Root)
  /\ \A s : SortNode(s) \in N /\ ~s.finished => Untouched(Span(s.lo, s.hi))'
  /\ \A id : MergeNode(id) \in N /\ ~merges'[id].finished =>
       /\ MergesEnough(id)'
       /\ ~merges'[id].split => \A k : k \in Halves(id)' => HalfInOrder(id, k)'
StepKeepsInput == sortN' = sortN /\ nsort' = nsort /\ stable' = stable /\ sortPc' = sortPc

\* A half that waited does so in order.
LEMMA HalvesStayInOrder ==
  ASSUME TreeInv, NEW t \in Nodes, Idle(t), NEW N, Replaces(t, N), OnlySlotsOf(t), FlagsKept(t),
         Moves(mem', mem, Indices(Home(t))), StepKeepsInput, InOrderFrom(t, N),
         NEW p, p = Up(t), NEW h, h = Home(t), InLine(Units(p, h)', Limit(h)),
         NEW q, Whole(q), t # MergeNode(q), NEW k \in Halves(q), HalfInOrder(q, k)
  PROVE  HalfInOrder(q, k)'
<1>1. PICK K, U, lim : K = mem' /\ U = Units(q, k)' /\ lim = Limit(k)
  OBVIOUS
<1>2. Homed(K, k)
  <2>1. Carried(K, mem, Indices(Home(t))) /\ Homed(mem, k)
    BY <1>1 DEF Moves, HalfInOrder
  <2>2. Indices(Home(t)) \subseteq Indices(k) \/ Indices(Home(t)) \cap Indices(k) = {}
    BY HomesNest
  <2> QED BY <2>1, <2>2, HomedStill
<1>3. Homed(mem, k)'
  BY <1>1, <1>2 DEF Homed, AllSlots, At, Indices, StepKeepsInput, IsItem
<1>4. InLine(U, lim)
  <2>1. CASE q = p /\ k = h
    BY <1>1, <2>1
  <2>2. CASE q # p \/ k # h
    <3>1. \A c \in N : ~Child(c, q, k)'
      <4> SUFFICES ASSUME NEW c \in N, Child(c, q, k)' PROVE FALSE
        OBVIOUS
      <4>1. Up(c)' = q /\ Home(c)' = k /\ Waits(c)'
        BY DEF Child
      <4>2. q \in DOMAIN merges \/ q = Root
        BY DEF Whole
      <4> QED BY <2>2, <4>1, <4>2 DEF InOrderFrom
    <3>2. U \subseteq Units(q, k)
      BY <1>1, <2>2, <3>1, UnitsElsewhere
    <3>3. InLine(Units(q, k), lim)
      BY <1>1 DEF HalfInOrder
    <3> QED BY <3>2, <3>3, FewerInLine
  <2> QED BY <2>1, <2>2
<1>5. InLine(U, lim)'
  <2>1. stable' = stable
    BY DEF StepKeepsInput
  <2> QED BY <1>4, <2>1, InLineStill
<1>6. Limit(k)' = lim
  BY <1>1 DEF Limit, StepKeepsInput
<1>7. InLine(Units(q, k), Limit(k))'
  BY <1>1, <1>5, <1>6 DEF InLine, Ahead, Under, Holds, Mergeable, IsUnit, UnitEnd
<1> QED BY <1>3, <1>7 DEF HalfInOrder

LEMMA OrdStep ==
  ASSUME TreeInv, OrdInv, NEW t \in Nodes, Idle(t), NEW N, Replaces(t, N), OnlySlotsOf(t), FlagsKept(t),
         Moves(mem', mem, Indices(Home(t))), StepKeepsInput, InOrderFrom(t, N),
         NEW p, p = Up(t), NEW h, h = Home(t), InLine(Units(p, h)', Limit(h))
  PROVE  OrdInv'
<1>1. sortPc # "begin" /\ sortPc' # "begin"
  <2>1. DOMAIN refcount # {}
    BY DEF TreeInv, TreeTypeOK, Nodes
  <2> QED BY <2>1 DEF TreeInv, TreeTypeOK, StepKeepsInput
<1>2. Distinct(mem)'
  <2>1. PICK K : K = mem' /\ Distinct(K)
    BY DEF OrdInv, Moves
  <2> QED BY <2>1 DEF Distinct, AllSlots, At, StepKeepsInput, IsItem
<1>3. Homed(mem, <<0, sortN>>)'
  <2>1. PICK k, K : k = <<0, sortN>> /\ K = mem'
    OBVIOUS
  <2>2. Homed(mem, k) /\ Carried(K, mem, Indices(Home(t))) /\ Indices(Home(t)) \subseteq Indices(k)
    BY <2>1, SlotsOfTasks DEF OrdInv, Moves, Indices
  <2>3. Homed(K, k)
    BY <2>2, HomedStill
  <2> QED BY <2>1, <2>3 DEF Homed, AllSlots, At, Indices, StepKeepsInput, IsItem
<1>4. (stable => sortN <= nsort)'
  BY DEF OrdInv, StepKeepsInput
<1>5. ASSUME NEW s \in sorts', ~s.finished
      PROVE  Untouched(Span(s.lo, s.hi))'
  <2>1. CASE SortNode(s) \in N
    BY <1>5, <2>1 DEF InOrderFrom
  <2>2. CASE SortNode(s) \notin N
    <3>1. SortNode(s) \in Nodes /\ SortNode(s) # t /\ s \in sorts
      BY <2>2 DEF Replaces, Nodes, SortNode, MergeNode
    <3>2. Home(SortNode(s)) = <<s.lo, s.hi>>
      BY <3>1, SortTaskIsTyped
    <3>3. ~Below(t, SortNode(s)) /\ ~IsSplit(SortNode(s))
      BY DEF Below, IsWhole, IsSplit, SortNode
    <3>4. Slots(t) \cap ({"x", "z"} \X Indices(<<s.lo, s.hi>>)) = {}
      BY <3>1, <3>2, <3>3, SlotsAreApart DEF Slots
    <3>5. \A i \in Span(s.lo, s.hi) : i \in Span(0, sortN) /\ <<"x", i>> \notin Slots(t)
      BY <3>1, <3>2, <3>4, SlotsOfTasks DEF Indices
    <3>6. \A i \in Span(s.lo, s.hi) : mem'.x[i] = mem.x[i]
      BY <3>5 DEF OnlySlotsOf
    <3>7. Untouched(Span(s.lo, s.hi))
      BY <1>5, <3>1 DEF OrdInv
    <3> QED BY <3>6, <3>7 DEF Untouched, Span
  <2> QED BY <2>1, <2>2
<1>6. ASSUME NEW id \in DOMAIN merges', ~merges'[id].finished
      PROVE  MergesEnough(id)'
  <2>1. CASE MergeNode(id) \in N
    BY <1>6, <2>1 DEF InOrderFrom
  <2>2. CASE MergeNode(id) \notin N
    <3>1. MergeNode(id) \in Nodes /\ MergeNode(id) # t /\ id \in DOMAIN merges
      BY <2>2 DEF Replaces, Nodes, SortNode, MergeNode
    <3>2. SameMerge(id) /\ Home(MergeNode(id))' = Home(MergeNode(id))
      BY <3>1, OthersAreKept DEF Replaces, Kept, TreeInv
    <3>3. MergesEnough(id)
      BY <1>6, <3>1, <3>2 DEF OrdInv, SameMerge, SameTask
    <3> QED BY <3>2, <3>3 DEF MergesEnough, SameMerge, SameTask, StepKeepsInput
  <2> QED BY <2>1, <2>2
<1>7. ASSUME NEW q, Awaited(q)', NEW k, k \in Halves(q)'
      PROVE  HalfInOrder(q, k)'
  <2>1. CASE q = Root
    <3>1. Whole(q) /\ Awaited(q) /\ k \in Halves(q) /\ t # MergeNode(q)
      BY <1>1, <1>7, <2>1, MergeTaskIsTyped DEF Whole, Awaited, Halves, StepKeepsInput, Nodes, SortNode, MergeNode
    <3>2. HalfInOrder(q, k)
      BY <3>1 DEF OrdInv
    <3> QED BY <3>1, <3>2, HalvesStayInOrder
  <2>2. CASE q # Root
    <3>1. q \in DOMAIN merges' /\ ~merges'[q].split /\ ~merges'[q].finished
      BY <1>7, <2>2 DEF Awaited
    <3>2. CASE MergeNode(q) \in N
      BY <1>7, <3>1, <3>2 DEF InOrderFrom
    <3>3. CASE MergeNode(q) \notin N
      <4>1. MergeNode(q) \in Nodes /\ MergeNode(q) # t /\ q \in DOMAIN merges
        BY <3>1, <3>3 DEF Replaces, Nodes, SortNode, MergeNode
      <4>2. SameMerge(q)
        BY <4>1 DEF Replaces
      <4>3. Whole(q) /\ Awaited(q) /\ k \in Halves(q)
        BY <1>7, <2>2, <3>1, <4>1, <4>2 DEF Whole, Awaited, Halves, SameMerge, SameTask, HalfX, HalfY
      <4>4. HalfInOrder(q, k)
        BY <4>3 DEF OrdInv
      <4> QED BY <4>1, <4>3, <4>4, HalvesStayInOrder
    <3> QED BY <3>2, <3>3
  <2> QED BY <2>1, <2>2
<1>8. sortPc' = "begin" => Untouched(Span(0, sortN))'
  BY <1>1
<1> QED BY <1>2, <1>3, <1>4, <1>5, <1>6, <1>7, <1>8 DEF OrdInv
-------------------------------------------------------------------------------
(* The steps of sort tasks, and the ends of tasks.                             *)

LEMMA ParentIsAwaited ==
  ASSUME TreeInv, NEW t \in Nodes
  PROVE  Awaited(Up(t)) /\ Home(t) \in Halves(Up(t))
<1>1. HasParent(t) /\ Root \notin DOMAIN merges
  BY DEF TreeInv, ParentsWait, TreeTypeOK, Root
<1>2. sortPc # "begin"
  <2>1. DOMAIN refcount # {}
    BY DEF TreeInv, TreeTypeOK, Nodes
  <2> QED BY <2>1 DEF TreeInv, TreeTypeOK
<1> QED BY <1>1, <1>2, HomeIsAHalf DEF HasParent, Awaited

LEMMA FinishInOrder ==
  ASSUME TreeInv, OrdInv, NEW t \in Nodes, Idle(t), Replaces(t, {}), ~Waits(t), mem' = mem, StepKeepsInput,
         \A i \in DOMAIN merges : t # MergeNode(i) => merges'[i] = merges[i]
  PROVE  OrdInv'
<1>1. PICK p, h, N : p = Up(t) /\ h = Home(t) /\ N = {}
  OBVIOUS
<1>2. FlagsKept(t) /\ Flag(p, h)' = Flag(p, h)
  BY <1>1, NobodyIsTold
<1>3. Replaces(t, N) /\ InOrderFrom(t, N)
  BY <1>1 DEF InOrderFrom
<1>4. OnlySlotsOf(t)
  BY DEF OnlySlotsOf
<1>5. Moves(mem', mem, Indices(Home(t)))
  BY NothingMoves
<1>6. Awaited(p) /\ h \in Halves(p) /\ Whole(p) /\ t # MergeNode(p)
  BY <1>1, ParentIsAwaited, ParentIsAnother
<1>7. Units(p, h)' \subseteq Units(p, h)
  BY <1>2, <1>6, UnitsOfFinished
<1>8. InLine(Units(p, h), Limit(h))
  BY <1>6 DEF OrdInv, HalfInOrder
<1>9. InLine(Units(p, h)', Limit(h))
  BY <1>7, <1>8, FewerInLine
<1> QED BY <1>1, <1>2, <1>3, <1>4, <1>5, <1>9, OrdStep

LEMMA FinishSortInOrder ==
  ASSUME TreeInv, OrdInv, NEW s \in sorts, FinishSort(s)
  PROVE  OrdInv'
<1>1. SortNode(s) \in Nodes /\ Idle(SortNode(s)) /\ Replaces(SortNode(s), {})
  BY SortTaskIsTyped, IdleTasks, FinishSortStep
<1>2. ~Waits(SortNode(s)) /\ mem' = mem /\ StepKeepsInput /\ merges' = merges
  BY DEF FinishSort, Waits, SortNode, StepKeepsInput, sortInput
<1> QED BY <1>1, <1>2, FinishInOrder

LEMMA FinishMergeInOrder ==
  ASSUME TreeInv, OrdInv, NEW id \in DOMAIN merges, FinishMerge(id)
  PROVE  OrdInv'
<1>1. MergeNode(id) \in Nodes /\ Idle(MergeNode(id)) /\ Replaces(MergeNode(id), {})
  BY MergeTaskIsTyped, IdleTasks, FinishMergeStep DEF FinishMerge
<1>2. ~Waits(MergeNode(id)) /\ mem' = mem /\ StepKeepsInput
  BY DEF FinishMerge, Waits, MergeNode, StepKeepsInput, sortInput
<1>3. \A i \in DOMAIN merges : MergeNode(id) # MergeNode(i) => merges'[i] = merges[i]
  BY DEF FinishMerge
<1> QED BY <1>1, <1>2, <1>3, FinishInOrder

\* A leaf of elements that came in order is sorted.
LEMMA LeafInLine ==
  ASSUME NEW lo \in Nat, NEW hi \in Nat, nsort \in Nat, NEW x, NEW q \in LeafOrders(x, lo, hi),
         \A i \in Span(lo, hi) : x[i] \in Items /\ x[i][2] = i,
         NEW A, \A i \in Span(lo, hi) : A[i] = x[q[i]], NEW S, S \subseteq Span(lo, hi)
  PROVE  InLine(SinglesOf(A, S), lo + nsort)
<1>1. /\ \A i \in Span(lo, hi) : q[i] \in Span(lo, hi)
      /\ \A i \in Span(lo, hi), j \in Span(lo, hi) : i < j =>
           /\ i < lo + nsort => ~Less(x[q[j]], x[q[i]])
           /\ stable /\ ~Less(x[q[i]], x[q[j]]) => q[i] < q[j]
  BY DEF LeafOrders
<1>2. S \in SUBSET Nat /\ lo + nsort \in Nat
  BY DEF Span
<1>3. \A i \in S : A[i] \in Items
  BY <1>1
<1>4. ASSUME NEW i \in S, NEW j \in S, i < j, i < lo + nsort
      PROVE  Prec(A[i], A[j])
  <2>1. PICK a \in Items, b \in Items : a = A[i] /\ b = A[j] /\ a[2] = q[i] /\ b[2] = q[j]
    BY <1>1
  <2>2. ~Less(b, a) /\ (stable /\ ~Less(a, b) => a[2] < b[2])
    BY <1>1, <1>4, <2>1
  <2>3. a[1] \in Nat /\ a[2] \in Nat /\ b[1] \in Nat /\ b[2] \in Nat
    BY DEF Items, Values
  <2>4. Prec(a, b)
    BY <2>2, <2>3 DEF Prec, Less
  <2> QED BY <2>1, <2>4
<1> QED BY <1>2, <1>3, <1>4, SinglesInLine

LEMMA SortLeafInOrder ==
  ASSUME TreeInv, MemInv, OrdInv, NEW s \in sorts, SortLeaf(s)
  PROVE  OrdInv'
<1>1. PICK t, p, h, f, N : /\ t = SortNode(s) /\ p = Up(t) /\ h = Home(t)
                           /\ f = [s EXCEPT !.finished = TRUE] /\ N = {SortNode(f)}
  OBVIOUS
<1>2. /\ t \in Nodes /\ Idle(t) /\ Replaces(t, N) /\ p = s.parent /\ h = <<s.lo, s.hi>> /\ ~IsSplit(t)
      /\ s \in SortTasks /\ Indices(h) = Span(s.lo, s.hi) /\ s.lo \in Nat /\ s.hi \in Nat
  BY <1>1, SortTaskIsTyped, IdleTasks, SortLeafStep DEF IsSplit, SortNode, Indices, SortTasks
<1>3. f.lo = s.lo /\ f.hi = s.hi /\ f.parent = s.parent /\ f.finished
  BY <1>1, <1>2 DEF SortTasks
<1>4. StepKeepsInput /\ merges' = merges /\ ~s.finished
  BY DEF SortLeaf, sortInput, StepKeepsInput
<1>5. FlagsKept(t) /\ Flag(p, h)' = Flag(p, h)
  BY <1>1, <1>2, <1>4, NobodyIsTold
<1>6. SortReady(s) /\ mem \in Memories /\ Indices(h) \subseteq Span(0, sortN)
  BY <1>1, <1>2, SlotsOfTasks DEF MemInv, MemTypeOK
<1>7. PICK S, K, I : S = Span(s.lo, s.hi) /\ K = mem' /\ I = Span(0, sortN)
  OBVIOUS
<1>8. PICK q \in LeafOrders(mem.x, s.lo, s.hi) :
        mem' = [mem EXCEPT !.x = [i \in I |-> IF i \in S THEN mem.x[q[i]] ELSE mem.x[i]]]
  BY <1>7 DEF SortLeaf
<1>9. K.z = mem.z /\ \A i \in I : K.x[i] = IF i \in S THEN mem.x[q[i]] ELSE mem.x[i]
  <2>1. mem = [x |-> mem.x, z |-> mem.z, ok |-> mem.ok]
    BY <1>6 DEF Memories
  <2>2. K.z = mem.z /\ K.x = [i \in I |-> IF i \in S THEN mem.x[q[i]] ELSE mem.x[i]]
    BY <1>7, <1>8, <2>1
  <2> QED BY <2>2
<1>10. S \subseteq I /\ q \in [S -> S] /\ \A i \in S, j \in S : i # j => q[i] # q[j]
  <2>1. q \in [S -> S] /\ \A i \in S, j \in S : i < j => q[i] # q[j]
    BY <1>7 DEF LeafOrders
  <2>2. \A i \in S : i \in Nat
    BY <1>2, <1>7 DEF Span
  <2>3. \A i \in S, j \in S : i # j => i < j \/ j < i
    BY <2>2
  <2> QED BY <1>2, <1>6, <1>7, <2>1, <2>3
<1>11. \A i \in S : mem.x[i] \in Items /\ mem.x[i][2] = i
  <2>1. \A i \in S : IsItem(mem.x[i]) /\ mem.x[i] \in Values
    BY <1>6, <1>7, <1>10 DEF SortReady, Memories
  <2>2. Untouched(S)
    BY <1>4, <1>7 DEF OrdInv
  <2> QED BY <2>1, <2>2 DEF Items, Untouched
<1>12. OnlySlotsOf(t)
  <2>1. Slots(t) = {"x", "z"} \X S
    BY <1>1, <1>2, <1>7 DEF Slots
  <2> QED BY <1>7, <1>9, <2>1 DEF OnlySlotsOf
<1>13. Moves(mem', mem, Indices(Home(t)))
  <2>1. \A i \in S : IsItem(mem.x[i])
    BY <1>11 DEF Items
  <2>2. Moves(K, mem, S)
    BY <1>6, <1>7, <1>9, <1>10, <2>1, LeafGathers
  <2> QED BY <1>1, <1>2, <1>7, <2>2
<1>14. InLine(Units(p, h)', Limit(h))
  <2>1. NewPieces(p, h, N) = {}
    BY <1>1 DEF NewPieces, SortNode, MergeNode
  <2>2. Flag(p, h)'
    BY <1>2, <1>5, <1>6 DEF SortReady
  <2>3. PICK A, D : A = K.x /\ D = Done(p, h)'
    OBVIOUS
  <2>4. Units(p, h)' \subseteq SinglesOf(A, D)
    <3>1. IsArrayOf(A, p, h)
      BY <1>7, <2>2, <2>3 DEF IsArrayOf
    <3>2. Units(p, h)' \subseteq NewPieces(p, h, N) \cup SinglesOf(A, D)
      BY <1>1, <1>2, <2>3, <3>1, UnitsOfWhole
    <3> QED BY <2>1, <3>2
  <2>5. D \subseteq S
    BY <1>2, <1>7, <2>3 DEF Done, Indices
  <2>6. \A i \in S : A[i] = mem.x[q[i]]
    BY <1>9, <1>10, <2>3
  <2>7. InLine(SinglesOf(A, D), s.lo + nsort)
    <3>1. nsort \in Nat
      BY DEF TreeInv, TreeTypeOK
    <3>2. PICK x : x = mem.x
      OBVIOUS
    <3> QED BY <1>2, <1>7, <1>11, <2>5, <2>6, <3>1, <3>2, LeafInLine
  <2>8. Limit(h) = s.lo + nsort
    BY <1>2 DEF Limit
  <2> QED BY <2>4, <2>7, <2>8, FewerInLine
<1>15. InOrderFrom(t, N)
  <2>1. Up(SortNode(f))' = Up(t) /\ Home(SortNode(f))' = Home(t)
    BY <1>1, <1>2, <1>3 DEF Up, Home, SortNode
  <2>2. \A g : SortNode(g) \in N => g.finished
    BY <1>1, <1>3 DEF SortNode
  <2>3. \A i : MergeNode(i) \notin N
    BY <1>1 DEF SortNode, MergeNode
  <2>4. \A v \in N : v = SortNode(f)
    BY <1>1
  <2>5. \A v \in N : Up(v)' = Up(t) /\ Home(v)' = Home(t)
    BY <2>1, <2>4
  <2> QED BY <2>2, <2>3, <2>5 DEF InOrderFrom
<1> QED BY <1>1, <1>2, <1>4, <1>5, <1>12, <1>13, <1>14, <1>15, OrdStep
-------------------------------------------------------------------------------
(* A sort that is split.                                                       *)

\* A half that a whole task is still to write has no units.
LEMMA NothingIsDone ==
  ASSUME NEW c, NEW p, NEW h, Child(c, p, h)', ~IsSplit(c)'
  PROVE  Done(p, h)' = {}
<1>1. Out(c)' = Indices(h)
  BY DEF Child, Out, Indices
<1> QED BY <1>1 DEF Done, Indices

LEMMA HomedInPlace ==
  ASSUME NEW M, NEW h, \A i \in Indices(h) : M.x[i][2] = i /\ M.z[i] = Raw
  PROVE  Homed(M, h)
<1> SUFFICES ASSUME NEW s \in AllSlots, s[2] \in Indices(h), IsItem(At(M, s))
             PROVE  At(M, s)[2] \in Indices(h)
  BY DEF Homed
<1>1. s[1] = "x" \/ s[1] = "z"
  BY DEF AllSlots
<1>2. ~IsItem(Raw)
  BY DEF IsItem, Raw
<1> QED BY <1>1, <1>2 DEF At

\* The merge task that takes the place of a sort task waits for all its elements.
LEMMA NewHalvesInOrder ==
  ASSUME TreeInv, MemInv, OrdInv, NEW s \in sorts, SortSplit(s), NEW id, NEW h1, NEW h2, SplitsSort(s, id, h1, h2),
         NEW k, k \in Halves(id)'
  PROVE  HalfInOrder(id, k)'
<1>1. /\ s \in SortTasks /\ s.lo \in Nat /\ s.hi \in Nat /\ ~s.finished /\ stable' = stable /\ mem' = mem /\ sortN' = sortN
      /\ nsort' = nsort
  BY SortTaskIsTyped DEF SortSplit, sortInput, SortTasks
<1>2. id # Root /\ id = <<s.lo, s.hi>> /\ id \notin DOMAIN merges
  BY <1>1 DEF SplitsSort, Root
<1>3. PICK g \in {h1, h2} : k = <<g.lo, g.hi>>
  BY <1>2 DEF Halves, SplitsSort
<1>4. /\ g \in SortTasks /\ g.parent = id /\ ~g.finished /\ SortNode(g) \in Nodes'
      /\ Span(g.lo, g.hi) \subseteq Span(s.lo, s.hi)
  <2>1. g \in SortTasks /\ g.parent = id /\ ~g.finished /\ g \in sorts'
    BY DEF SplitsSort
  <2>2. /\ h1.lo = s.lo /\ h1.hi = h2.lo /\ h2.hi = s.hi /\ s.lo < h1.hi /\ h1.hi < s.hi /\ h1.hi \in Nat
    BY DEF SplitsSort
  <2>3. Span(g.lo, g.hi) \subseteq Span(s.lo, s.hi)
    BY <1>1, <2>2 DEF Span
  <2> QED BY <2>1, <2>3 DEF Nodes
<1>5. Child(SortNode(g), id, k)' /\ ~IsSplit(SortNode(g))'
  BY <1>3, <1>4 DEF Child, Waits, Up, Home, IsSplit, SortNode
<1>6. Done(id, k)' = {}
  BY <1>5, NothingIsDone
<1>7. Pieces(id, k)' = {}
  <2> SUFFICES ASSUME NEW i, i \in Pieces(id, k)' PROVE FALSE
    OBVIOUS
  <2>1. i \in DOMAIN merges' /\ merges'[i].split /\ merges'[i].parent = id
    BY DEF Pieces, Child, Up, MergeNode
  <2>2. i \in DOMAIN merges /\ merges'[i] = merges[i]
    BY <2>1 DEF SplitsSort
  <2>3. HasParent(MergeNode(i)) /\ Up(MergeNode(i)) = id
    BY <2>1, <2>2, MergeTaskIsTyped
  <2> QED BY <1>2, <2>3 DEF HasParent
<1>8. Units(id, k)' = {}
  BY <1>6, <1>7 DEF Units, SinglesOf
<1>9. Homed(mem, k)
  <2>1. SortReady(s) /\ Untouched(Span(s.lo, s.hi))
    BY <1>1 DEF MemInv, OrdInv
  <2>2. \A i \in Indices(k) : i \in Span(s.lo, s.hi)
    BY <1>3, <1>4 DEF Indices
  <2>3. \A i \in Indices(k) : mem.x[i][2] = i /\ mem.z[i] = Raw
    BY <2>1, <2>2 DEF SortReady, Untouched
  <2> QED BY <2>3, HomedInPlace
<1>10. Homed(mem, k)'
  BY <1>1, <1>9 DEF Homed, AllSlots, At, Indices, IsItem
<1>11. InLine(Units(id, k), Limit(k))'
  BY <1>8 DEF InLine
<1> QED BY <1>10, <1>11 DEF HalfInOrder

LEMMA SortSplitInOrder ==
  ASSUME TreeInv, MemInv, OrdInv, NEW s \in sorts, SortSplit(s)
  PROVE  OrdInv'
<1>1. PICK id, h1, h2 : SplitsSort(s, id, h1, h2)
  BY SortSplitStep
<1>2. PICK t, p, h, N : /\ t = SortNode(s) /\ p = Up(t) /\ h = Home(t)
                        /\ N = {MergeNode(id), SortNode(h1), SortNode(h2)}
  OBVIOUS
<1>3. /\ t \in Nodes /\ Idle(t) /\ Replaces(t, N) /\ p = s.parent /\ h = <<s.lo, s.hi>> /\ ~IsSplit(t)
      /\ s \in SortTasks /\ s.lo \in Nat /\ s.hi \in Nat
  BY <1>1, <1>2, SortTaskIsTyped, IdleTasks DEF IsSplit, SortNode, SplitsSort, SortTasks
<1>4. StepKeepsInput /\ mem' = mem /\ ~s.finished
  BY DEF SortSplit, sortInput, StepKeepsInput
<1>5. FlagsKept(t) /\ Flag(p, h)' = Flag(p, h)
  <2>1. \A i \in DOMAIN merges : t # MergeNode(i) => merges'[i] = merges[i]
    BY <1>1 DEF SplitsSort
  <2> QED BY <1>2, <1>3, <2>1, NobodyIsTold
<1>6. OnlySlotsOf(t)
  BY <1>4 DEF OnlySlotsOf
<1>7. Moves(mem', mem, Indices(Home(t)))
  BY <1>4, NothingMoves DEF OrdInv
<1>8. id # Root /\ id = <<s.lo, s.hi>> /\ id \notin DOMAIN merges
  BY <1>1, <1>3 DEF SplitsSort, Root
<1>9. Child(MergeNode(id), p, h)' /\ ~IsSplit(MergeNode(id))'
  <2>1. /\ ~merges'[id].finished /\ ~merges'[id].split /\ merges'[id].parent = p /\ Home(MergeNode(id))' = h
        /\ id \in DOMAIN merges'
    BY <1>1, <1>3, <1>8 DEF SplitsSort
  <2> QED BY <2>1 DEF Child, Waits, Up, IsSplit, MergeNode, Nodes
<1>10. InLine(Units(p, h)', Limit(h))
  <2>1. PICK A, D : A = Array(mem', Flag(p, h)') /\ D = Done(p, h)'
    OBVIOUS
  <2>2. IsArrayOf(A, p, h)
    BY <2>1 DEF IsArrayOf, Array
  <2>3. Units(p, h)' \subseteq NewPieces(p, h, N) \cup SinglesOf(A, D)
    BY <1>2, <1>3, <2>1, <2>2, UnitsOfWhole
  <2>4. D = {}
    BY <1>9, <2>1, NothingIsDone
  <2>5. NewPieces(p, h, N) = {}
    <3>1. \A i : MergeNode(i) \in N => i = id
      BY <1>2 DEF SortNode, MergeNode
    <3>2. \A i \in Pieces(p, h)' : merges'[i].split
      BY DEF Pieces
    <3>3. ~merges'[id].split
      BY <1>1 DEF SplitsSort
    <3> QED BY <3>1, <3>2, <3>3 DEF NewPieces
  <2>6. Units(p, h)' = {}
    BY <2>3, <2>4, <2>5 DEF SinglesOf
  <2> QED BY <2>6, NoneInLine
<1>11. InOrderFrom(t, N)
  <2>1. Up(MergeNode(id))' = Up(t) /\ Home(MergeNode(id))' = Home(t)
    BY <1>2, <1>9 DEF Child
  <2>2. ASSUME NEW g \in {h1, h2} PROVE Up(SortNode(g))' = id /\ Untouched(Span(g.lo, g.hi))'
    <3>1. g.parent = id
      BY <1>1 DEF SplitsSort
    <3>2. /\ h1.lo = s.lo /\ h1.hi = h2.lo /\ h2.hi = s.hi /\ s.lo < h1.hi /\ h1.hi < s.hi /\ h1.hi \in Nat
      BY <1>1 DEF SplitsSort
    <3>3. Span(g.lo, g.hi) \subseteq Span(s.lo, s.hi)
      BY <1>3, <3>2 DEF Span
    <3>4. Untouched(Span(s.lo, s.hi))
      BY <1>4 DEF OrdInv
    <3>5. Untouched(Span(g.lo, g.hi))'
      BY <1>4, <3>3, <3>4 DEF Untouched, Span
    <3> QED BY <3>1, <3>5 DEF Up, SortNode
  <2>3. \A v \in N : (Up(v)' = Up(t) /\ Home(v)' = Home(t)) \/ (Up(v)' \notin DOMAIN merges /\ Up(v)' # Root)
    BY <1>2, <1>8, <2>1, <2>2
  <2>4. \A g : SortNode(g) \in N => g \in {h1, h2}
    BY <1>2 DEF SortNode, MergeNode
  <2>5. \A i : MergeNode(i) \in N => i = id
    BY <1>2 DEF SortNode, MergeNode
  <2>6. MergesEnough(id)'
    <3>1. merges'[id].nmerge = Minimum(nsort, s.hi - s.lo)
      BY <1>8 DEF SortSplit
    <3>2. Home(MergeNode(id))' = <<s.lo, s.hi>>
      BY <1>2, <1>3, <2>1
    <3> QED BY <1>4, <3>1, <3>2 DEF MergesEnough, StepKeepsInput, Minimum
  <2>7. \A k : k \in Halves(id)' => HalfInOrder(id, k)'
    BY <1>1, NewHalvesInOrder
  <2> QED BY <2>2, <2>3, <2>4, <2>5, <2>6, <2>7 DEF InOrderFrom
<1> QED BY <1>2, <1>3, <1>4, <1>5, <1>6, <1>7, <1>10, <1>11, OrdStep
-------------------------------------------------------------------------------
(* What a merge finds that has no children.                                    *)

LEMMA HalfIsInOrder ==
  ASSUME TreeInv, MemInv, OrdInv, NEW p, Awaited(p), Whole(p), NEW h \in Halves(p), \A c : ~Child(c, p, h),
         Delivered(p, h), h[1] \in Nat, NEW A, A = Array(mem, Flag(p, h)), NEW lim, lim = Limit(h)
  PROVE  InOrderTo(A, h[1], h[2], lim) /\ \A i \in Indices(h) : A[i][2] \in Indices(h)
<1>1. HalfInOrder(p, h)
  BY DEF OrdInv
<1>2. Indices(h) \subseteq Span(0, sortN) /\ mem \in Memories /\ lim \in Nat
  BY HalvesAreInRange DEF MemInv, MemTypeOK, TreeInv, TreeTypeOK, Limit
<1>3. ASSUME NEW i \in Indices(h) PROVE A[i] \in Items /\ Single(A[i], i) \in Units(p, h) /\ i \in Nat
  <2>1. IsItem(A[i])
    BY DEF Delivered, Array
  <2>2. A[i] \in Values
    BY <1>2 DEF Memories, Array
  <2>3. i \in Done(p, h)
    BY DEF Done
  <2>4. Single(A[i], i) \in Units(p, h)
    BY <2>3 DEF Units, SinglesOf
  <2> QED BY <1>2, <2>1, <2>2, <2>4 DEF Items, Span
<1>4. PICK U : U = Units(p, h) /\ InLine(U, lim)
  BY <1>1 DEF HalfInOrder
<1>5. \A i \in Indices(h), j \in Indices(h) : i < j /\ i < lim => Prec(A[i], A[j])
  <2> SUFFICES ASSUME NEW i \in Indices(h), NEW j \in Indices(h), i < j, i < lim PROVE Prec(A[i], A[j])
    OBVIOUS
  <2>1. PICK a \in Items, b \in Items : a = A[i] /\ b = A[j]
    BY <1>3
  <2>2. Single(a, i) \in U /\ Single(b, j) \in U /\ i \in Nat /\ j \in Nat
    BY <1>3, <1>4, <2>1
  <2>3. Prec(a, b)
    BY <1>2, <1>4, <2>2, SinglesAreInOrder
  <2> QED BY <2>1, <2>3
<1>6. \A i \in Indices(h) : A[i][2] \in Indices(h)
  <2> SUFFICES ASSUME NEW i \in Indices(h) PROVE A[i][2] \in Indices(h)
    OBVIOUS
  <2>1. PICK s : s = (IF Flag(p, h) THEN <<"x", i>> ELSE <<"z", i>>)
    OBVIOUS
  <2>2. s \in AllSlots /\ s[2] = i /\ At(mem, s) = A[i]
    BY <1>2, <2>1 DEF AllSlots, At, Array
  <2>3. IsItem(At(mem, s))
    BY <1>3, <2>2 DEF Items
  <2> QED BY <1>1, <2>2, <2>3 DEF HalfInOrder, Homed
<1> QED BY <1>3, <1>5, <1>6 DEF InOrderTo, Indices

\* Both halves in order, and those of x before those of y.
HalvesSorted(A, m) ==
  /\ InOrderTo(A, m.xs, m.xe, m.xs + nsort)
  /\ InOrderTo(A, m.ys, m.ye, m.ys + nsort)
  /\ \A i \in Span(m.xs, m.xe), j \in Span(m.ys, m.ye) : A[i][2] < A[j][2]

LEMMA ReadyHalvesAreSorted ==
  ASSUME TreeInv, MemInv, OrdInv, NEW id \in DOMAIN merges, ~merges[id].finished, ~merges[id].split, Idle(MergeNode(id)),
         NEW C, \A i \in Span(merges[id].xs, merges[id].ye) : C[i] = Content(merges[id], mem, i)
  PROVE  HalvesSorted(C, merges[id])
<1>1. PICK m, hx, hy, A, B : /\ m = merges[id] /\ hx = HalfX(id) /\ hy = HalfY(id)
                             /\ A = Array(mem, Flag(id, hx)) /\ B = Array(mem, Flag(id, hy))
  OBVIOUS
<1>2. /\ m \in MergeTasks /\ MergeShape(id) /\ id # Root /\ Whole(id) /\ Awaited(id)
      /\ Halves(id) = {hx, hy} /\ hx = <<m.xs, m.xe>> /\ hy = <<m.ys, m.ye>>
  BY <1>1, MergeTaskIsTyped DEF Whole, Awaited, Halves, HalfX, HalfY
<1>3. /\ m.xs < m.xe /\ m.xe = m.ys /\ m.ys < m.ye
      /\ m.xs \in Nat /\ m.xe \in Nat /\ m.ys \in Nat /\ m.ye \in Nat
  BY <1>1, <1>2 DEF MergeShape, MergeTasks
<1>4. Flag(id, hx) = m.x_orig /\ Flag(id, hy) = m.y_orig
  <2>1. hx # hy
    BY <1>2, <1>3
  <2> QED BY <1>1, <1>2, <2>1 DEF Flag
<1>5. \A c, h : ~Child(c, id, h)
  BY DEF Child, Idle
<1>6. Delivered(id, hx) /\ Delivered(id, hy)
  BY <1>1 DEF MemInv, MergeReady
<1>7. InOrderTo(A, m.xs, m.xe, m.xs + nsort) /\ \A i \in Indices(hx) : A[i][2] \in Indices(hx)
  <2>1. hx \in Halves(id) /\ hx[1] = m.xs /\ hx[2] = m.xe /\ Limit(hx) = m.xs + nsort /\ hx[1] \in Nat
    BY <1>2, <1>3 DEF Limit
  <2>2. InOrderTo(A, hx[1], hx[2], Limit(hx)) /\ \A i \in Indices(hx) : A[i][2] \in Indices(hx)
    BY <1>1, <1>2, <1>5, <1>6, <2>1, HalfIsInOrder
  <2> QED BY <2>1, <2>2
<1>8. InOrderTo(B, m.ys, m.ye, m.ys + nsort) /\ \A i \in Indices(hy) : B[i][2] \in Indices(hy)
  <2>1. hy \in Halves(id) /\ hy[1] = m.ys /\ hy[2] = m.ye /\ Limit(hy) = m.ys + nsort /\ hy[1] \in Nat
    BY <1>2, <1>3 DEF Limit
  <2>2. InOrderTo(B, hy[1], hy[2], Limit(hy)) /\ \A i \in Indices(hy) : B[i][2] \in Indices(hy)
    BY <1>1, <1>2, <1>5, <1>6, <2>1, HalfIsInOrder
  <2> QED BY <2>1, <2>2
<1>9. /\ \A i \in Span(m.xs, m.xe) : C[i] = A[i] /\ i \in Indices(hx)
      /\ \A i \in Span(m.ys, m.ye) : C[i] = B[i] /\ i \in Indices(hy)
  <2>1. ASSUME NEW i \in Span(m.xs, m.xe) PROVE C[i] = A[i] /\ i \in Indices(hx)
    <3>1. i \in Span(m.xs, m.ye) /\ i < m.xe /\ i \in Indices(hx)
      BY <1>2, <1>3 DEF Span, Indices
    <3> QED BY <1>1, <1>4, <3>1 DEF Content, Array
  <2>2. ASSUME NEW i \in Span(m.ys, m.ye) PROVE C[i] = B[i] /\ i \in Indices(hy)
    <3>1. i \in Span(m.xs, m.ye) /\ ~(i < m.xe) /\ i \in Indices(hy)
      BY <1>2, <1>3 DEF Span, Indices
    <3> QED BY <1>1, <1>4, <3>1 DEF Content, Array
  <2> QED BY <2>1, <2>2
<1>10. InOrderTo(C, m.xs, m.xe, m.xs + nsort) /\ InOrderTo(C, m.ys, m.ye, m.ys + nsort)
  BY <1>7, <1>8, <1>9 DEF InOrderTo
<1>11. ASSUME NEW i \in Span(m.xs, m.xe), NEW j \in Span(m.ys, m.ye) PROVE C[i][2] < C[j][2]
  <2>1. C[i][2] \in Indices(hx) /\ C[j][2] \in Indices(hy)
    BY <1>7, <1>8, <1>9
  <2>2. PICK a, b : a = C[i][2] /\ b = C[j][2]
    OBVIOUS
  <2>3. a < b
    BY <1>2, <1>3, <2>1, <2>2 DEF Indices, Span
  <2> QED BY <2>2, <2>3
<1> QED BY <1>1, <1>10, <1>11 DEF HalvesSorted

\* So it does after the moves that precede the merge.
LEMMA BroughtHalvesAreSorted ==
  ASSUME TreeInv, MemInv, OrdInv, NEW id \in DOMAIN merges, ~merges[id].finished, ~merges[id].split, Idle(MergeNode(id)),
         NEW b, Brings(b, merges[id], mem), b.m \in MergeTasks, b.m.x_orig = b.m.y_orig,
         NEW from, from = Array(b.M, b.m.x_orig)
  PROVE  HalvesSorted(from, merges[id])
<1>1. PICK m, M : m = b.m /\ M = b.M
  OBVIOUS
<1>2. \A i : Content(m, M, i) = from[i]
  BY <1>1, ContentOfOne DEF Array
<1>3. \A i \in Span(merges[id].xs, merges[id].ye) : from[i] = Content(merges[id], mem, i)
  BY <1>1, <1>2 DEF Brings
<1> QED BY <1>3, ReadyHalvesAreSorted

\* The sequences that are merged.
Read(A, m, X, Y) == X = SlotsOf(A, m.xs, m.xe) /\ Y = SlotsOf(A, m.ys, m.ye)

LEMMA SortedHalvesMerge ==
  ASSUME NEW m \in MergeTasks, m.xs <= m.xe, m.ys <= m.ye, nsort \in Nat, NEW A, HalvesSorted(A, m),
         NEW X, NEW Y, Read(A, m, X, Y)
  PROVE  /\ X \in Seq(Items) /\ Y \in Seq(Items) /\ Len(X) = m.xe - m.xs /\ Len(Y) = m.ye - m.ys
         /\ Mergeable(X, Y, nsort)
<1>1. PICK xs \in Nat, xe \in Nat, ys \in Nat, ye \in Nat, k \in Int :
        xs = m.xs /\ xe = m.xe /\ ys = m.ys /\ ye = m.ye /\ k = nsort
  BY DEF MergeTasks
<1>2. xs <= xe /\ ys <= ye /\ X = SlotsOf(A, xs, xe) /\ Y = SlotsOf(A, ys, ye)
  BY <1>1 DEF Read
<1>3. InOrderTo(A, xs, xe, xs + k) /\ InOrderTo(A, ys, ye, ys + k)
  BY <1>1 DEF HalvesSorted
<1>4. Reads(X, A, xs, xe - xs) /\ Reads(Y, A, ys, ye - ys)
  <2>1. (\A i \in Span(xs, xe) : A[i] \in Items) /\ (\A i \in Span(ys, ye) : A[i] \in Items)
    BY <1>3 DEF InOrderTo
  <2> QED BY <1>2, <2>1, SlotsAt
<1>5. SortedTo(X, k) /\ SortedTo(Y, k)
  BY <1>2, <1>3, SlotsAreSorted
<1>6. CameBefore(X, Y)
  <2> SUFFICES ASSUME NEW i \in 1..Len(X), NEW j \in 1..Len(Y) PROVE X[i][2] < Y[j][2]
    BY DEF CameBefore
  <2>1. PICK a, b : a = xs + i - 1 /\ b = ys + j - 1
    OBVIOUS
  <2>2. X[i] = A[a] /\ Y[j] = A[b]
    BY <1>4, <2>1 DEF Reads
  <2>3. a \in Span(xs, xe) /\ b \in Span(ys, ye)
    BY <1>2, <1>4, <2>1 DEF Reads, Span
  <2> QED BY <1>1, <2>2, <2>3 DEF HalvesSorted
<1> QED BY <1>1, <1>4, <1>5, <1>6 DEF Mergeable, Reads
-------------------------------------------------------------------------------
(* A merge that is not split.                                                  *)

LEMMA WholeInOrder ==
  ASSUME TreeInv, OrdInv, NEW id \in DOMAIN merges, ~merges[id].split, Idle(MergeNode(id)),
         Replaces(MergeNode(id), {MergeNode(id)}), merges'[id].finished, ~merges'[id].split,
         merges'[id].parent = merges[id].parent, StepKeepsInput,
         NEW orig \in BOOLEAN, merges[id].parent = Root => orig,
         \A i \in DOMAIN merges : i # id => merges'[i] = SetOdd(merges, merges[id].parent, merges[id].zs, orig)[i],
         SameBut(mem', mem, Indices(id)), Moves(mem', mem, Indices(id)),
         NEW A, A = Array(mem', orig), InLine(SinglesOf(A, Indices(id)), Limit(id))
  PROVE  OrdInv'
<1>0. PICK t, p, h, N : t = MergeNode(id) /\ p = Up(t) /\ h = Home(t) /\ N = {t}
  OBVIOUS
<1>1. t \in Nodes /\ p = merges[id].parent /\ h = id /\ ~IsSplit(t) /\ Idle(t) /\ Replaces(t, N)
  BY <1>0, MergeTaskIsTyped DEF IsSplit, MergeNode, Home
<1>2. FlagsKept(t) /\ Flag(p, h)' = IF p = Root THEN TRUE ELSE orig
  BY <1>0, TheParentIsTold
<1>3. OnlySlotsOf(t)
  BY <1>0, <1>1 DEF OnlySlotsOf, SameBut, Slots
<1>4. IsArrayOf(A, p, h)
  BY <1>1, <1>2 DEF IsArrayOf, Array
<1>5. InLine(Units(p, h)', Limit(h))
  <2>1. PICK D : D = Done(p, h)'
    OBVIOUS
  <2>2. Units(p, h)' \subseteq NewPieces(p, h, N) \cup SinglesOf(A, D)
    BY <1>0, <1>1, <1>4, <2>1, UnitsOfWhole
  <2>3. NewPieces(p, h, N) = {}
    <3>1. \A i : MergeNode(i) \in N => i = id
      BY <1>0 DEF MergeNode
    <3>2. \A i \in Pieces(p, h)' : merges'[i].split
      BY DEF Pieces
    <3> QED BY <3>1, <3>2 DEF NewPieces
  <2>4. D \subseteq Indices(id)
    BY <1>1, <2>1 DEF Done, Indices
  <2>5. SinglesOf(A, D) \subseteq SinglesOf(A, Indices(id))
    BY <2>4 DEF SinglesOf
  <2> QED BY <1>1, <2>2, <2>3, <2>5, FewerInLine
<1>6. InOrderFrom(t, N)
  <2>1. Up(t)' = Up(t) /\ Home(t)' = Home(t)
    BY <1>0, <1>1 DEF Up, Home, MergeNode
  <2>2. \A s : SortNode(s) \notin N
    BY <1>0 DEF SortNode, MergeNode
  <2>3. \A i : MergeNode(i) \in N => i = id
    BY <1>0 DEF MergeNode
  <2>4. \A v \in N : v = t
    BY <1>0
  <2> QED BY <2>1, <2>2, <2>3, <2>4 DEF InOrderFrom
<1>7. Moves(mem', mem, Indices(Home(t)))
  BY <1>0, <1>1
<1> QED BY <1>0, <1>1, <1>2, <1>3, <1>5, <1>6, <1>7, OrdStep

\* The ranges of a merge whose halves are one after the other.
LEMMA RangeOfHalves ==
  ASSUME NEW m \in MergeTasks, m.xs <= m.xe, m.xe = m.ys, m.ys <= m.ye
  PROVE  /\ Span(m.xs, m.xe) \subseteq Span(m.xs, m.ye) /\ Span(m.ys, m.ye) \subseteq Span(m.xs, m.ye)
         /\ MergeInputs(m) = Span(m.xs, m.ye)
<1>1. PICK xs \in Nat, xe \in Nat, ye \in Nat : xs = m.xs /\ xe = m.xe /\ ye = m.ye
  BY DEF MergeTasks
<1>2. /\ Span(xs, xe) \subseteq Span(xs, ye) /\ Span(xe, ye) \subseteq Span(xs, ye)
      /\ Span(xs, xe) \cup Span(xe, ye) = Span(xs, ye)
  BY <1>1 DEF Span
<1> QED BY <1>1, <1>2 DEF MergeInputs

\* It may be left as it is, in A, if nothing of y goes before what matters of x.
LEMMA FollowersInLine ==
  ASSUME NEW m \in MergeTasks, m.xs < m.xe, m.xe = m.ys, m.ys < m.ye, m.xs = m.zs, nsort \in Nat \ {0},
         NEW M, NEW from, from = (IF m.x_orig THEN M.x ELSE M.z), XLessY(m, M),
         HalvesSorted(from, m), NEW A, HalvesSorted(A, m), \A i \in Span(m.xs, m.ye) : A[i] = from[i]
  PROVE  InLine(SinglesOf(A, Span(m.xs, m.ye)), m.zs + nsort)
<1>1. PICK xs \in Nat, xe \in Nat, ye \in Nat, nx \in Nat, ny \in Nat :
        xs = m.xs /\ xe = m.xe /\ xe = m.ys /\ ye = m.ye /\ nx = xe - xs /\ ny = ye - xe /\ xs < xe /\ xe < ye
  <2>1. m.xe - m.xs \in Nat /\ m.ye - m.xe \in Nat
    BY DEF MergeTasks
  <2> QED BY <2>1 DEF MergeTasks
<1>2. PICK X, Y : X = SlotsOf(from, xs, xe) /\ Y = SlotsOf(from, xe, ye)
  OBVIOUS
<1>3. /\ X \in Seq(Items) /\ Y \in Seq(Items) /\ Len(X) = nx /\ Len(Y) = ny
      /\ Mergeable(X, Y, nsort)
  <2>1. Read(from, m, X, Y)
    BY <1>1, <1>2 DEF Read
  <2>2. X \in Seq(Items) /\ Y \in Seq(Items) /\ Len(X) = m.xe - m.xs /\ Len(Y) = m.ye - m.ys /\ Mergeable(X, Y, nsort)
    BY <1>1, <2>1, SortedHalvesMerge
  <2> QED BY <1>1, <2>2
<1>4. \A i \in Span(m.xs, m.ye) : from[i] \in Items
  <2>1. /\ \A i \in Span(xs, xe) : from[i] \in Items
        /\ \A i \in Span(xe, ye) : from[i] \in Items
    BY <1>1 DEF HalvesSorted, InOrderTo
  <2>2. \A i \in Span(xs, ye) : i \in Span(xs, xe) \/ i \in Span(xe, ye)
    BY <1>1 DEF Span
  <2> QED BY <1>1, <2>1, <2>2
<1>5. Follows(X, Y, nsort)
  <2>1. MergeInputs(m) = Span(m.xs, m.ye)
    BY <1>1, RangeOfHalves
  <2>2. \A i \in MergeInputs(m) : from[i] \in Items
    BY <1>4, <2>1
  <2> QED BY <1>1, <1>2, <2>2, InOrderFollows
<1>6. X = SlotsOf(A, xs, xe) /\ Y = SlotsOf(A, xe, ye)
  <2>1. /\ \A i \in Span(xs, xe) : A[i] = from[i]
        /\ \A i \in Span(xe, ye) : A[i] = from[i]
    BY <1>1 DEF Span
  <2> QED BY <1>2, <2>1, SameSlots
<1>7. Filled(A, X, Y, xs, X \o Y)
  <2>1. \A i \in Span(xs, ye) : A[i] \in Items
    BY <1>1, <1>4
  <2>2. xs <= xe /\ xe <= ye
    BY <1>1
  <2> QED BY <1>6, <2>1, <2>2, SlotsFollow
<1>8. PICK k \in Int, lim \in Nat : k = nsort /\ lim = xs + nsort
  OBVIOUS
<1>9. InLine(SinglesOf(A, Span(xs, xs + nx + ny)), lim)
  <2>1. k = lim - xs
    BY <1>8
  <2> QED BY <1>3, <1>5, <1>7, <1>8, <2>1, FollowedInLine
<1>10. xs + nx + ny = ye
  BY <1>1
<1> QED BY <1>1, <1>8, <1>9, <1>10

LEMMA MergeInOrderInOrder ==
  ASSUME TreeInv, MemInv, OrdInv, NEW id \in DOMAIN merges, MergeInOrder(id)
  PROVE  OrdInv'
<1>1. ~merges[id].finished /\ ~merges[id].split /\ Idle(MergeNode(id)) /\ StepKeepsInput /\ InOrder(id)
  BY IdleTasks DEF MergeInOrder, Runnable, InOrder, StepKeepsInput, sortInput
<1>2. Replaces(MergeNode(id), {MergeNode(id)})
  BY MergeInOrderStep
<1>3. PICK m, a, b, orig, A : /\ m = merges[id] /\ a = Aligned(id)
                              /\ b = IF a.m.root /\ ~a.m.x_orig THEN MoveBoth(a.m, a.M) ELSE a
                              /\ orig = b.m.x_orig /\ A = Array(b.M, orig)
  OBVIOUS
<1>4. InOrderMerged(id, a, b)
  BY SMTT(30), <1>3, MergesInOrder
<1>5. /\ orig \in BOOLEAN /\ (merges[id].parent = Root => orig) /\ merges'[id].finished /\ ~merges'[id].split
      /\ merges'[id].parent = merges[id].parent /\ mem' = b.M /\ SameBut(mem', mem, Indices(id))
      /\ \A i \in DOMAIN merges : i # id => merges'[i] = SetOdd(merges, merges[id].parent, merges[id].zs, orig)[i]
  BY <1>1, <1>3, <1>4 DEF InOrderMerged, Laid, MergeTasks, SameTask
<1>6. /\ Laid(m, mem) /\ Span(m.xs, m.ye) = Indices(id) /\ MergeShape(id) /\ m \in MergeTasks
      /\ m.xs < m.xe /\ m.xe = m.ys /\ m.ys < m.ye /\ m.xs = m.zs /\ id[1] = m.zs
  BY SMTT(30), <1>1, <1>3, ReadyHalvesLie, MergeTaskIsTyped DEF MergeShape
<1>7. /\ a.m \in MergeTasks /\ SameTask(a.m, m) /\ a.m.x_orig = a.m.y_orig
      /\ b.m \in MergeTasks /\ SameTask(b.m, m) /\ b.m.x_orig = b.m.y_orig
  BY <1>3, <1>4 DEF InOrderMerged, Laid
<1>8. Brings(a, m, mem) /\ Brings(b, m, mem)
  <2>1. b = MoveBoth(a.m, a.M) \/ b = a
    BY <1>3
  <2> QED BY <1>1, <1>3, <1>6, <2>1, MoreBring
<1>9. PICK from, k, M : from = Array(a.M, a.m.x_orig) /\ k = a.m /\ M = a.M
  OBVIOUS
<1>10. HalvesSorted(from, m) /\ HalvesSorted(A, m)
  BY <1>1, <1>3, <1>7, <1>8, <1>9, BroughtHalvesAreSorted
<1>11. /\ k.xs = m.xs /\ k.xe = m.xe /\ k.ys = m.ys /\ k.ye = m.ye /\ k.zs = m.zs
       /\ k.xs < k.xe /\ k.xe = k.ys /\ k.ys < k.ye /\ k.xs = k.zs /\ k \in MergeTasks
  BY <1>6, <1>7, <1>9 DEF SameTask
<1>12. \A i \in Span(m.xs, m.ye) : A[i] = from[i]
  <2>1. (\A i : Content(a.m, a.M, i) = from[i]) /\ (\A i : Content(b.m, b.M, i) = A[i])
    BY <1>3, <1>7, <1>9, ContentOfOne DEF Array
  <2> QED BY <1>8, <2>1 DEF Brings
<1>13. XLessY(k, M) /\ from = (IF k.x_orig THEN M.x ELSE M.z)
  BY <1>1, <1>3, <1>9 DEF InOrder, Array
<1>14. HalvesSorted(from, k) /\ HalvesSorted(A, k) /\ \A i \in Span(k.xs, k.ye) : A[i] = from[i]
  BY <1>10, <1>11, <1>12 DEF HalvesSorted
<1>15. nsort \in Nat \ {0}
  BY DEF TreeInv, TreeTypeOK
<1>16. InLine(SinglesOf(A, Span(k.xs, k.ye)), k.zs + nsort)
  BY <1>11, <1>13, <1>14, <1>15, FollowersInLine
<1>17. InLine(SinglesOf(A, Indices(id)), Limit(id)) /\ A = Array(mem', orig)
  BY <1>3, <1>5, <1>6, <1>11, <1>16 DEF Limit
<1>18. Moves(mem', mem, Indices(id))
  BY <1>5, <1>6, <1>8 DEF Brings
<1> QED BY <1>1, <1>2, <1>5, <1>17, <1>18, WholeInOrder
-------------------------------------------------------------------------------
(* A serial merge.                                                             *)

\* How many elements a merge is to put in order, and how many it does.
Enough(m, k) == k <= m.nmerge \/ SizeOf(m) <= m.nmerge

LEMMA LeafSettles ==
  ASSUME NEW m \in MergeTasks, m.xs <= m.xe, m.ys <= m.ye, NEW M \in Memories, MergeOutputs(m) \subseteq Span(0, sortN),
         NEW from, from = (IF m.x_orig THEN M.x ELSE M.z), \A i \in MergeInputs(m) : from[i] \in Items,
         NEW X, NEW Y, Read(from, m, X, Y), NEW lim \in Nat, NEW k \in Int, k = lim - m.zs,
         Mergeable(X, Y, k), Enough(m, k), NEW u, u = Unit(X, Y, m.zs),
         NEW A, A = (IF m.x_orig THEN LeafMerge(M, m).z ELSE LeafMerge(M, m).x)
  PROVE  Settles(A, u, lim) /\ IsUnit(u) /\ Span(u.zs, UnitEnd(u)) = MergeOutputs(m)
<1>1. PICK xs \in Nat, xe \in Nat, ys \in Nat, ye \in Nat, z \in Nat, nmerge \in Nat :
        xs = m.xs /\ xe = m.xe /\ ys = m.ys /\ ye = m.ye /\ z = m.zs /\ nmerge = m.nmerge
  BY DEF MergeTasks
<1>2. xs <= xe /\ ys <= ye /\ X = SlotsOf(from, xs, xe) /\ Y = SlotsOf(from, ys, ye)
  BY <1>1 DEF Read
<1>3. PICK nx \in Nat, ny \in Nat : nx = xe - xs /\ ny = ye - ys
  <2>1. xe - xs \in Nat /\ ye - ys \in Nat
    BY <1>2
  <2> QED BY <2>1
<1>4. Reads(X, from, xs, xe - xs) /\ Reads(Y, from, ys, ye - ys)
  <2>1. (\A i \in Span(xs, xe) : from[i] \in Items) /\ (\A i \in Span(ys, ye) : from[i] \in Items)
    BY <1>1 DEF MergeInputs
  <2> QED BY <1>2, <2>1, SlotsAt
<1>5. X \in Seq(Items) /\ Y \in Seq(Items) /\ Len(X) = nx /\ Len(Y) = ny
  BY <1>3, <1>4 DEF Reads
<1>6. /\ Filled(A, X, Y, m.zs, SerialMoveMerge(X, Y, m.nmerge))
      /\ MergeOutputs(m) = Span(m.zs, m.zs + Len(X) + Len(Y))
  <2>1. X = SlotsOf(from, m.xs, m.xe) /\ Y = SlotsOf(from, m.ys, m.ye)
    BY DEF Read
  <2> QED BY <2>1, LeafMergeFills
<1>7. k <= nmerge \/ nx + ny <= nmerge
  BY <1>1, <1>3 DEF Enough, SizeOf
<1>8. Settles(A, u, lim)
  <2>1. Filled(A, X, Y, z, SerialMoveMerge(X, Y, nmerge)) /\ u = Unit(X, Y, z) /\ k = lim - z
    BY <1>1, <1>6
  <2>2. nx = Len(X) /\ ny = Len(Y)
    BY <1>5
  <2> QED BY <1>5, <1>7, <2>1, <2>2, MergedInLine
<1>9. u.X = X /\ u.Y = Y /\ u.zs = z
  BY <1>1, UnitFields
<1>10. IsUnit(u) /\ UnitEnd(u) = m.zs + Len(X) + Len(Y)
  BY <1>1, <1>5, <1>9 DEF IsUnit, UnitEnd
<1> QED BY <1>1, <1>6, <1>8, <1>9, <1>10

\* A piece, where it has run.
LEMMA PieceInOrder ==
  ASSUME TreeInv, MemInv, OrdInv, NEW id \in DOMAIN merges, ~merges[id].finished, merges[id].split, Idle(MergeNode(id)),
         Replaces(MergeNode(id), {MergeNode(id)}), merges'[id].finished, StepKeepsInput,
         \A i \in DOMAIN merges : i # id => merges'[i] = merges[i],
         mem' = LeafMerge(mem, merges[id])
  PROVE  OrdInv'
<1>0. PICK t, p, h, m, N, K : /\ t = MergeNode(id) /\ p = Up(t) /\ h = Home(t) /\ m = merges[id] /\ N = {t}
                              /\ K = LeafMerge(mem, m)
  OBVIOUS
<1>1. PieceIsReady(t, p, h, m)
  BY <1>0, PieceReads
<1>2. /\ t \in Nodes /\ Idle(t) /\ Replaces(t, N) /\ m \in MergeTasks /\ MergeShape(id)
      /\ m.x_orig = (~Flag(p, h)) /\ m.x_orig \in BOOLEAN /\ m.x_orig = m.y_orig /\ Out(t) = MergeOutputs(m)
      /\ m.xs <= m.xe /\ m.xe <= m.ys /\ m.ys <= m.ye
      /\ MergeInputs(m) \subseteq Indices(h) /\ MergeOutputs(m) \subseteq Indices(h) /\ Indices(h) \subseteq Span(0, sortN)
      /\ MergeInputs(m) \subseteq Span(0, sortN) /\ MergeOutputs(m) \subseteq Span(0, sortN)
  BY <1>0, <1>1, MergeTaskIsTyped DEF PieceIsReady
<1>3. FlagsKept(t) /\ Flag(p, h)' = Flag(p, h)
  <2>1. \A i \in DOMAIN merges : t # MergeNode(i) => merges'[i] = merges[i]
    BY <1>0
  <2> QED BY ZenonT(60), <1>0, <1>2, <2>1, NobodyIsTold
<1>4. PieceWritten(mem', m) /\ OnlySlotsOf(t)
  BY <1>0, <1>1, PieceWrites
<1>5. PICK M, from, X, Y, u, lim, k : /\ M = mem /\ from = (IF m.x_orig THEN M.x ELSE M.z) /\ Read(from, m, X, Y)
                                      /\ u = Unit(X, Y, m.zs) /\ lim = Limit(h) /\ k = lim - m.zs
  BY DEF Read
<1>6. M \in Memories /\ \A i \in MergeInputs(m) : from[i] \in Items
  <2>1. M \in Memories
    BY <1>5 DEF MemInv, MemTypeOK
  <2>2. \A i \in MergeInputs(m) : IsItem(from[i])
    BY <1>1, <1>5 DEF PieceIsReady
  <2>3. \A i \in Span(0, sortN) : from[i] \in Values
    BY <1>5, <2>1 DEF Memories
  <2> QED BY <1>2, <2>1, <2>2, <2>3 DEF Items
<1>7. u = InputsOf(m, mem)
  BY <1>2, <1>5 DEF InputsOf, Array, Read
<1>8. PICK A, D : A = (IF m.x_orig THEN K.z ELSE K.x) /\ D = Done(p, h)'
  OBVIOUS
<1>9. IsArrayOf(A, p, h)
  BY <1>0, <1>2, <1>3, <1>8 DEF IsArrayOf
<1>10. u \in Units(p, h) /\ Units(p, h)' \subseteq (Units(p, h) \ {u}) \cup (NewPieces(p, h, N) \cup SinglesOf(A, D \cap Out(t)))
  <2>1. u = InputsOf(merges[id], mem)
    BY <1>0, <1>7
  <2> QED BY SMTT(30), <1>0, <1>2, <1>3, <1>4, <1>8, <1>9, <2>1, UnitsOfPiece
<1>11. NewPieces(p, h, N) = {}
  <2>1. \A i : MergeNode(i) \in N => i = id
    BY <1>0 DEF MergeNode
  <2>2. \A i \in Pieces(p, h)' : ~merges'[i].finished
    BY DEF Pieces, Child, Waits, MergeNode
  <2> QED BY <2>1, <2>2 DEF NewPieces
<1>12. InLine(Units(p, h), lim)
  <2>1. Awaited(p) /\ h \in Halves(p)
    BY <1>0, <1>2, ParentIsAwaited
  <2> QED BY <1>5, <2>1 DEF OrdInv, HalfInOrder
<1>13. Home(t) \in Nat \X Nat /\ lim \in Nat /\ k \in Int
  <2>1. Home(t) \in Nat \X Nat /\ nsort \in Nat /\ m.zs \in Nat
    BY <1>2, HomesAreRanges DEF TreeInv, TreeTypeOK, MergeTasks
  <2> QED BY <1>0, <1>5, <2>1 DEF Limit
<1>14. Mergeable(X, Y, k)
  <2>1. Mergeable(u.X, u.Y, lim - u.zs)
    BY <1>10, <1>12 DEF InLine
  <2>2. u.X = X /\ u.Y = Y /\ u.zs = m.zs
    BY <1>5, UnitFields
  <2> QED BY <1>5, <2>1, <2>2
<1>15. Enough(m, k)
  <2>1. m.nmerge = Minimum(nsort, h[2] - h[1])
    BY <1>0 DEF OrdInv, MergesEnough
  <2>2. h[1] <= m.zs /\ m.zs + SizeOf(m) <= h[2]
    BY <1>0, <1>2 DEF MergeShape
  <2>3. PICK a \in Nat, b \in Nat, z \in Nat, n \in Nat, s \in Nat :
          a = h[1] /\ b = h[2] /\ z = m.zs /\ n = nsort /\ s = SizeOf(m)
    <3>1. SizeOf(m) \in Nat
      BY <1>2 DEF SizeOf, MergeTasks
    <3> QED BY <1>0, <1>2, <1>13, <3>1 DEF MergeTasks, TreeInv, TreeTypeOK
  <2>4. k = (a + n) - z
    BY <1>5, <2>3 DEF Limit
  <2>5. k <= n /\ s <= b - a
    BY <2>2, <2>3, <2>4
  <2>6. m.nmerge = n \/ m.nmerge = b - a
    BY <2>1, <2>3 DEF Minimum
  <2> QED BY <2>3, <2>5, <2>6 DEF Enough
<1>16. Settles(A, u, lim) /\ IsUnit(u) /\ Span(u.zs, UnitEnd(u)) = MergeOutputs(m)
  <2>1. A = (IF m.x_orig THEN LeafMerge(M, m).z ELSE LeafMerge(M, m).x)
    BY <1>0, <1>5, <1>8
  <2> QED BY <1>2, <1>5, <1>6, <1>13, <1>14, <1>15, <2>1, LeafSettles
<1>17. InLine(Units(p, h)', Limit(h))
  <2>1. PICK W : W = SinglesOf(A, Span(u.zs, UnitEnd(u)))
    OBVIOUS
  <2>2. InLine(W, lim) /\ \A w \in W : Refines(w, u, lim)
    BY <1>13, <1>16, <2>1, SettledInLine
  <2>3. SinglesOf(A, D \cap Out(t)) \subseteq W
    BY <1>2, <1>16, <2>1 DEF SinglesOf
  <2>4. Units(p, h)' \subseteq (Units(p, h) \ {u}) \cup W
    BY <1>10, <1>11, <2>3
  <2>5. PICK U, V : U = Units(p, h) /\ V = Units(p, h)'
    OBVIOUS
  <2>6. InLine(V, lim)
    BY <1>10, <1>12, <2>2, <2>4, <2>5, RefinedInLine
  <2> QED BY <1>5, <2>5, <2>6
<1>18. InOrderFrom(t, N)
  <2>1. \A s : SortNode(s) \notin N
    BY <1>0 DEF SortNode, MergeNode
  <2>2. \A i : MergeNode(i) \in N => i = id
    BY <1>0 DEF MergeNode
  <2>3. \A v \in N : ~Waits(v)'
    BY <1>0 DEF Waits, MergeNode
  <2> QED BY <2>1, <2>2, <2>3 DEF InOrderFrom
<1>19. Moves(mem', mem, Indices(Home(t)))
  <2>1. m.x_orig => \A i \in MergeOutputs(m) : M.z[i] = Raw
    BY <1>1, <1>5 DEF PieceIsReady
  <2>2. K = LeafMerge(M, m)
    BY <1>0, <1>5
  <2>3. PICK S : S = Indices(h) /\ MergeInputs(m) \subseteq S /\ MergeOutputs(m) \subseteq S
    BY <1>2
  <2>4. Moves(K, M, S)
    BY <1>2, <1>5, <1>6, <2>1, <2>2, <2>3, LeafMergeMoves
  <2> QED BY <1>0, <1>5, <2>3, <2>4
<1> QED BY <1>0, <1>2, <1>3, <1>4, <1>17, <1>18, <1>19, OrdStep
-------------------------------------------------------------------------------
\* What is to be merged of two halves, from m and M on, whether in one task or in pieces.
HalvesAreReady(id, m, M, X, Y, lim) ==
  /\ m \in MergeTasks /\ SameTask(m, merges[id]) /\ m.xs <= m.xe /\ m.xe <= m.ys /\ m.ys <= m.ye
  /\ M \in Memories /\ MergeInputs(m) = Indices(id) /\ MergeOutputs(m) = Indices(id) /\ Indices(id) \subseteq Span(0, sortN)
  /\ \A i \in MergeInputs(m) : (IF m.x_orig THEN M.x ELSE M.z)[i] \in Items
  /\ m.x_orig => \A i \in MergeOutputs(m) : M.z[i] = Raw
  /\ X \in Seq(Items) /\ Y \in Seq(Items) /\ Len(X) = m.xe - m.xs /\ Len(Y) = m.ye - m.ys
  /\ Read(IF m.x_orig THEN M.x ELSE M.z, m, X, Y)
  /\ lim = Limit(id) /\ lim \in Nat /\ m.zs \in Nat /\ lim - m.zs = nsort /\ nsort \in Nat
  /\ Mergeable(X, Y, nsort)
  /\ Moves(M, mem, Indices(id)) /\ SameBut(M, mem, Indices(id))

LEMMA HalvesGetReady ==
  ASSUME TreeInv, MemInv, OrdInv, NEW id \in DOMAIN merges, ~merges[id].finished, ~merges[id].split, Idle(MergeNode(id)),
         NEW m, NEW M, m = ToMerge(id).m, M = ToMerge(id).M, NEW lim, lim = Limit(id),
         NEW X, NEW Y, Read(IF m.x_orig THEN M.x ELSE M.z, m, X, Y)
  PROVE  HalvesAreReady(id, m, M, X, Y, lim)
<1>1. PICK c, from : c = ToMerge(id) /\ m = c.m /\ M = c.M /\ from = (IF m.x_orig THEN M.x ELSE M.z)
  OBVIOUS
<1>2. /\ Laid(m, M) /\ m.x_orig = m.y_orig /\ SameTask(m, merges[id]) /\ m.x_orig \in BOOLEAN
      /\ Lies(M, m.x_orig, Indices(id)) /\ SameBut(M, mem, Indices(id))
      /\ MergeInputs(m) = Indices(id) /\ MergeOutputs(m) = Indices(id) /\ Indices(id) \subseteq Span(0, sortN)
  BY <1>1, ReadyToMerge
<1>3. /\ Laid(merges[id], mem) /\ Span(merges[id].xs, merges[id].ye) = Indices(id) /\ MergeShape(id)
      /\ merges[id] \in MergeTasks
  BY ReadyHalvesLie, MergeTaskIsTyped
<1>4. Brings(c, merges[id], mem)
  BY <1>1, <1>3, ToMergeBrings
<1>5. HalvesSorted(from, merges[id])
  <2>1. from = Array(c.M, c.m.x_orig) /\ c.m \in MergeTasks
    BY <1>1, <1>2 DEF Array, Laid
  <2> QED BY <1>1, <1>2, <1>4, <2>1, BroughtHalvesAreSorted
<1>6. HalvesSorted(from, m) /\ m \in MergeTasks /\ m.xs <= m.xe /\ m.xe <= m.ys /\ m.ys <= m.ye /\ M \in Memories
  <2>1. m \in MergeTasks /\ m.xs <= m.xe /\ m.xe = m.ys /\ m.ys <= m.ye /\ M \in Memories
    BY <1>2 DEF Laid
  <2>2. m.xe \in Nat
    BY <2>1 DEF MergeTasks
  <2> QED BY <1>2, <1>5, <2>1, <2>2 DEF HalvesSorted, SameTask
<1>7. nsort \in Nat
  BY DEF TreeInv, TreeTypeOK
<1>8. /\ X \in Seq(Items) /\ Y \in Seq(Items) /\ Len(X) = m.xe - m.xs /\ Len(Y) = m.ye - m.ys
      /\ Mergeable(X, Y, nsort)
  BY <1>1, <1>6, <1>7, SortedHalvesMerge
<1>9. \A i \in MergeInputs(m) : from[i] \in Items
  <2>1. \A i \in Indices(id) : IsItem(from[i])
    BY <1>1, <1>2 DEF Lies
  <2>2. \A i \in Indices(id) : from[i] \in Values
    BY <1>1, <1>2, <1>6 DEF Memories
  <2> QED BY <1>2, <2>1, <2>2 DEF Items
<1>10. lim \in Nat /\ m.zs \in Nat /\ lim - m.zs = nsort
  <2>1. id[1] = m.zs /\ m.zs \in Nat
    BY <1>2, <1>3, <1>6 DEF MergeShape, SameTask, MergeTasks
  <2>2. lim = m.zs + nsort
    BY <2>1 DEF Limit
  <2> QED BY <1>7, <2>1, <2>2
<1>11. Moves(M, mem, Indices(id))
  BY <1>1, <1>3, <1>4 DEF Brings
<1>12. m.x_orig => \A i \in MergeOutputs(m) : M.z[i] = Raw
  BY <1>2 DEF Lies
<1> QED BY <1>1, <1>2, <1>6, <1>7, <1>8, <1>9, <1>10, <1>11, <1>12 DEF HalvesAreReady

LEMMA WholeMergesEnough ==
  ASSUME TreeInv, OrdInv, NEW id \in DOMAIN merges, ~merges[id].finished, ~merges[id].split,
         NEW m \in MergeTasks, SameTask(m, merges[id]), NEW k, k = nsort
  PROVE  Enough(m, k)
<1>1. MergeShape(id) /\ merges[id] \in MergeTasks /\ Home(MergeNode(id)) = id
  BY MergeTaskIsTyped DEF Home, MergeNode
<1>2. merges[id].nmerge = Minimum(nsort, id[2] - id[1])
  BY <1>1 DEF OrdInv, MergesEnough
<1>3. PICK z \in Nat, s \in Int, n \in Nat, g \in Nat : z = id[1] /\ s = SizeOf(m) /\ n = nsort /\ id[2] = z + s /\ g = merges[id].nmerge
  <2>1. /\ merges[id].zs \in Nat /\ SizeOf(m) \in Int /\ SizeOf(m) = SizeOf(merges[id]) /\ nsort \in Nat
        /\ merges[id].nmerge \in Nat
    BY <1>1 DEF SizeOf, SameTask, MergeTasks, TreeInv, TreeTypeOK
  <2> QED BY <1>1, <2>1 DEF MergeShape
<1>4. id[2] - id[1] = s
  BY <1>3
<1>5. g = IF n < s THEN n ELSE s
  BY <1>2, <1>3, <1>4 DEF Minimum
<1>6. n <= g \/ s <= g
  BY <1>3, <1>5
<1> QED BY <1>3, <1>6 DEF Enough, SameTask

\* Where both halves are merged by one task.
LEMMA WholeMergeInOrder ==
  ASSUME TreeInv, MemInv, OrdInv, NEW id \in DOMAIN merges, ~merges[id].finished, ~merges[id].split, Idle(MergeNode(id)),
         NEW c, c = ToMerge(id),
         Replaces(MergeNode(id), {MergeNode(id)}), merges'[id].finished, ~merges'[id].split,
         merges'[id].parent = merges[id].parent, StepKeepsInput,
         \A i \in DOMAIN merges : i # id => merges'[i] = TellParent(c.m)[i],
         mem' = LeafMerge(c.M, c.m)
  PROVE  OrdInv'
<1>1. PICK m, M, X, Y, lim, from, orig, K :
        /\ m = c.m /\ M = c.M /\ lim = Limit(id) /\ from = (IF m.x_orig THEN M.x ELSE M.z)
        /\ Read(from, m, X, Y) /\ orig = (~m.x_orig) /\ K = LeafMerge(M, m)
  BY DEF Read
<1>2. HalvesAreReady(id, m, M, X, Y, lim)
  BY <1>1, HalvesGetReady
<1>3. /\ m \in MergeTasks /\ SameTask(m, merges[id]) /\ m.xs <= m.xe /\ m.xe <= m.ys /\ m.ys <= m.ye
      /\ M \in Memories /\ MergeInputs(m) = Indices(id) /\ MergeOutputs(m) = Indices(id) /\ Indices(id) \subseteq Span(0, sortN)
      /\ \A i \in MergeInputs(m) : from[i] \in Items
      /\ m.x_orig => \A i \in MergeOutputs(m) : M.z[i] = Raw
      /\ lim \in Nat /\ m.zs \in Nat /\ lim - m.zs = nsort /\ Mergeable(X, Y, nsort)
      /\ Moves(M, mem, Indices(id)) /\ SameBut(M, mem, Indices(id)) /\ nsort \in Nat
  BY <1>1, <1>2 DEF HalvesAreReady
<1>4. PICK k \in Int : k = nsort
  BY <1>3
<1>5. Enough(m, k) /\ Mergeable(X, Y, k) /\ k = lim - m.zs
  BY <1>3, <1>4, WholeMergesEnough
<1>6. PICK u, A : u = Unit(X, Y, m.zs) /\ A = (IF m.x_orig THEN K.z ELSE K.x)
  OBVIOUS
<1>7. Settles(A, u, lim) /\ IsUnit(u) /\ Span(u.zs, UnitEnd(u)) = Indices(id)
  <2>1. A = (IF m.x_orig THEN LeafMerge(M, m).z ELSE LeafMerge(M, m).x)
    BY <1>1, <1>6
  <2>2. MergeOutputs(m) \subseteq Span(0, sortN)
    BY <1>3
  <2>3. Settles(A, u, lim) /\ IsUnit(u) /\ Span(u.zs, UnitEnd(u)) = MergeOutputs(m)
    BY <1>1, <1>3, <1>5, <1>6, <2>1, <2>2, LeafSettles
  <2> QED BY <1>3, <2>3
<1>8. InLine(SinglesOf(A, Indices(id)), Limit(id))
  <2>1. PICK W : W = SinglesOf(A, Span(u.zs, UnitEnd(u)))
    OBVIOUS
  <2>2. InLine(W, lim)
    BY <1>3, <1>7, <2>1, SettledInLine
  <2> QED BY <1>1, <1>7, <2>1, <2>2
<1>9. orig \in BOOLEAN /\ A = Array(mem', orig)
  BY <1>1, <1>3, <1>6 DEF Array, MergeTasks
<1>10. /\ merges[id].parent = Root => orig
       /\ \A i \in DOMAIN merges : i # id => merges'[i] = SetOdd(merges, merges[id].parent, merges[id].zs, orig)[i]
  <2>1. /\ (merges[id].parent = Root => ~c.m.x_orig)
        /\ TellParent(c.m) = SetOdd(merges, merges[id].parent, merges[id].zs, ~c.m.x_orig)
    BY ReadyToMerge
  <2> QED BY <1>1, <2>1
<1>11. Moves(mem', mem, Indices(id))
  <2>1. PICK S : S = Indices(id) /\ MergeInputs(m) \subseteq S /\ MergeOutputs(m) \subseteq S /\ S \subseteq Span(0, sortN)
    BY <1>3
  <2>2. MergeInputs(m) \subseteq Span(0, sortN) /\ MergeOutputs(m) \subseteq Span(0, sortN)
    BY <2>1
  <2>3. Moves(K, M, S)
    BY <1>1, <1>3, <2>1, <2>2, LeafMergeMoves
  <2>4. Moves(K, mem, S)
    BY <1>3, <2>1, <2>3, MovesTwice
  <2> QED BY <1>1, <2>1, <2>4
<1>12. SameBut(mem', mem, Indices(id))
  <2>1. \A i \in MergeInputs(m) : IsItem(IF m.x_orig THEN M.x[i] ELSE M.z[i])
    BY <1>1, <1>3 DEF Items
  <2>2. MergeInputs(m) \subseteq Span(0, sortN) /\ MergeOutputs(m) \subseteq Span(0, sortN)
    BY <1>3
  <2>3. \A i \in Span(0, sortN) :
          /\ i \notin (IF m.x_orig THEN MergeInputs(m) ELSE MergeOutputs(m)) => K.x[i] = M.x[i]
          /\ i \notin (IF m.x_orig THEN MergeOutputs(m) ELSE MergeInputs(m)) => K.z[i] = M.z[i]
    BY <1>1, <1>3, <2>1, <2>2, LeafMerges
  <2>4. \A i \in Span(0, sortN) : i \notin Indices(id) => K.x[i] = M.x[i] /\ K.z[i] = M.z[i]
    BY <1>3, <2>3
  <2> QED BY <1>1, <1>3, <2>4 DEF SameBut
<1> QED BY <1>8, <1>9, <1>10, <1>11, <1>12, WholeInOrder

LEMMA MergeRangesInOrder ==
  ASSUME TreeInv, MemInv, OrdInv, NEW id \in DOMAIN merges, MergeRanges(id)
  PROVE  OrdInv'
<1>1. ~merges[id].finished /\ Idle(MergeNode(id)) /\ StepKeepsInput
  BY IdleTasks DEF MergeRanges, Runnable, StepKeepsInput, sortInput
<1>2. Replaces(MergeNode(id), {MergeNode(id)})
  BY MergeRangesStep
<1>3. PICK c : c = ToMerge(id)
  OBVIOUS
<1>4. mem' = LeafMerge(c.M, c.m) /\ merges' = [TellParent(c.m) EXCEPT ![id] = [c.m EXCEPT !.finished = TRUE]]
  BY <1>3 DEF MergeRanges
<1>5. c.m \in MergeTasks /\ SameTasks(TellParent(c.m)) /\ SameTask(c.m, merges[id])
  <2>1. merges[id] \in MergeTasks
    BY MergeTaskIsTyped
  <2>2. c.m \in MergeTasks /\ SameTask(c.m, merges[id])
    BY <1>3, <2>1, AlignedTask
  <2> QED BY <2>2, ToldParent
<1>6. /\ merges'[id].finished /\ merges'[id].split = merges[id].split /\ merges'[id].parent = merges[id].parent
      /\ \A i \in DOMAIN merges : i # id => merges'[i] = TellParent(c.m)[i]
  <2>1. DOMAIN TellParent(c.m) = DOMAIN merges
    BY <1>5 DEF SameTasks
  <2>2. merges'[id].finished /\ merges'[id].split = c.m.split /\ merges'[id].parent = c.m.parent
    BY <1>4, <1>5, <2>1 DEF MergeTasks
  <2> QED BY <1>4, <1>5, <2>1, <2>2 DEF SameTask
<1>7. CASE merges[id].split
  <2>1. c.m = merges[id] /\ c.M = mem
    BY <1>3, <1>7 DEF ToMerge, Aligned
  <2>2. TellParent(c.m) = merges
    BY <1>7, <2>1 DEF TellParent
  <2> QED BY <1>1, <1>2, <1>4, <1>6, <1>7, <2>1, <2>2, PieceInOrder
<1>8. CASE ~merges[id].split
  BY <1>1, <1>2, <1>3, <1>4, <1>6, <1>8, WholeMergeInOrder
<1> QED BY <1>7, <1>8
-------------------------------------------------------------------------------
(* A merge that is split.                                                      *)

UnitOf(from, m) == Unit(SlotsOf(from, m.xs, m.xe), SlotsOf(from, m.ys, m.ye), m.zs)

LEMMA PiecesInLine ==
  ASSUME NEW m \in MergeTasks, m.xs <= m.xe, m.ys <= m.ye, SizeOf(m) > MergeCutOff, NEW from,
         \A i \in MergeInputs(m) : from[i] \in Items, NEW X, NEW Y, Read(from, m, X, Y),
         NEW lim \in Nat, NEW k \in Int, k = lim - m.zs, Mergeable(X, Y, k),
         NEW cut \in SplitPoints(m, from), NEW L, NEW R, CutInto(m, cut, L, R),
         NEW u, u = Unit(X, Y, m.zs), NEW l, l = UnitOf(from, L), NEW r, r = UnitOf(from, R)
  PROVE  InLine({l, r}, lim) /\ Refines(l, u, lim) /\ Refines(r, u, lim)
<1>1. /\ cut[1] \in Nat /\ m.xs <= cut[1] /\ cut[1] <= m.xe
      /\ cut[2] \in Nat /\ m.ys <= cut[2] /\ cut[2] <= m.ye
  BY CutsAreInside
<1>2. PICK xs \in Nat, xe \in Nat, ys \in Nat, ye \in Nat, z \in Nat, a \in Nat, b \in Nat :
        /\ xs = m.xs /\ xe = m.xe /\ ys = m.ys /\ ye = m.ye /\ z = m.zs /\ a = cut[1] /\ b = cut[2]
        /\ xs <= a /\ a <= xe /\ ys <= b /\ b <= ye
  BY <1>1 DEF MergeTasks
<1>3. PICK c \in Nat, d \in Nat, nx \in Nat, ny \in Nat : c = a - xs /\ d = b - ys /\ nx = xe - xs /\ ny = ye - ys
  <2>1. a - xs \in Nat /\ b - ys \in Nat /\ xe - xs \in Nat /\ ye - ys \in Nat
    BY <1>2
  <2> QED BY <2>1
<1>4. PICK XF, XR, YF, YR : /\ XF = SlotsOf(from, xs, a) /\ XR = SlotsOf(from, a, xe)
                            /\ YF = SlotsOf(from, ys, b) /\ YR = SlotsOf(from, b, ye)
  OBVIOUS
<1>5. X = SlotsOf(from, xs, xe) /\ Y = SlotsOf(from, ys, ye)
  BY <1>2 DEF Read
<1>6. /\ X \in Seq(Items) /\ XF \in Seq(Items) /\ XR \in Seq(Items) /\ IsCut(X, XF, XR, c)
      /\ Y \in Seq(Items) /\ YF \in Seq(Items) /\ YR \in Seq(Items) /\ IsCut(Y, YF, YR, d)
  <2>1. xs <= a /\ a <= xe /\ \A i \in Span(xs, xe) : from[i] \in Items
    BY <1>2 DEF MergeInputs
  <2>2. X \in Seq(Items) /\ XF \in Seq(Items) /\ XR \in Seq(Items) /\ IsCut(X, XF, XR, a - xs)
    BY <1>4, <1>5, <2>1, SlotsAreCut
  <2>3. ys <= b /\ b <= ye /\ \A i \in Span(ys, ye) : from[i] \in Items
    BY <1>2 DEF MergeInputs
  <2>4. Y \in Seq(Items) /\ YF \in Seq(Items) /\ YR \in Seq(Items) /\ IsCut(Y, YF, YR, b - ys)
    BY <1>4, <1>5, <2>3, SlotsAreCut
  <2> QED BY <1>3, <2>2, <2>4
<1>7. nx = Len(X) /\ ny = Len(Y)
  <2>1. (\A i \in Span(xs, xe) : from[i] \in Items) /\ (\A i \in Span(ys, ye) : from[i] \in Items)
    BY <1>2 DEF MergeInputs
  <2>2. Reads(X, from, xs, xe - xs) /\ Reads(Y, from, ys, ye - ys)
    BY <1>2, <1>5, <2>1, SlotsAt
  <2> QED BY <1>3, <2>2 DEF Reads
<1>8. IsSplitPoint(X, Y, c, d)
  <2>1. X = SlotsOf(from, m.xs, m.xe) /\ Y = SlotsOf(from, m.ys, m.ye)
    BY DEF Read
  <2>2. IsSplitPoint(X, Y, cut[1] - m.xs, cut[2] - m.ys)
    BY <2>1, SplitPointsAreThose
  <2> QED BY <1>2, <1>3, <2>2
<1>9. l = Unit(XF, YF, z) /\ r = Unit(XR, YR, z + c + d)
  BY <1>2, <1>3, <1>4 DEF CutInto, UnitOf
<1>10. c \in 0..nx /\ d \in 0..ny
  BY <1>2, <1>3
<1>11. k = lim - z /\ u = Unit(X, Y, z)
  BY <1>2
<1> QED BY ZenonT(60), <1>6, <1>7, <1>8, <1>9, <1>10, <1>11, CutsInLine

\* The pieces wait in the home of the merge, and nothing they write is done.
PiecesWait(id, l, r, p, h, N) ==
  /\ \A i \in Done(p, h)' : i \notin MergeOutputs(merges[id])
  /\ NewPieces(p, h, N) \subseteq {InputsOf(merges'[l], mem'), InputsOf(merges'[r], mem')}

LEMMA SplitMergesWait ==
  ASSUME NEW id \in DOMAIN merges, NEW l, NEW r, SplitsMerge(id, l, r), SameTask(ToMerge(id).m, merges[id]),
         NEW p, NEW h, p = merges[id].parent, h = Home(MergeNode(id)), NEW N, N = {MergeNode(l), MergeNode(r)}
  PROVE  /\ PiecesWait(id, l, r, p, h, N)
         /\ \A q \in {l, r} : Up(MergeNode(q))' = p /\ Home(MergeNode(q))' = h
<1>1. ASSUME NEW q \in {l, r}
      PROVE  /\ Up(MergeNode(q))' = p /\ Home(MergeNode(q))' = h
             /\ Child(MergeNode(q), p, h)' /\ Out(MergeNode(q))' = MergeOutputs(merges'[q])
  <2>1. /\ merges'[q].split /\ ~merges'[q].finished /\ merges'[q].parent = p
        /\ Home(MergeNode(q))' = h /\ q \in DOMAIN merges'
    BY DEF SplitsMerge, SameTask
  <2>2. MergeNode(q) \in Nodes'
    BY <2>1 DEF Nodes
  <2>3. Up(MergeNode(q))' = p /\ Waits(MergeNode(q))'
    BY <2>1 DEF Up, Waits, MergeNode
  <2>4. Out(MergeNode(q))' = MergeOutputs(merges'[q])
    BY <2>1 DEF Out, IsSplit, MergeNode
  <2> QED BY <2>1, <2>2, <2>3, <2>4 DEF Child
<1>2. \A i \in Done(p, h)' : i \notin MergeOutputs(merges[id])
  <2> SUFFICES ASSUME NEW i \in Done(p, h)', i \in MergeOutputs(merges[id]) PROVE FALSE
    OBVIOUS
  <2>1. PICK q \in {l, r} : i \in MergeOutputs(merges'[q])
    BY DEF SplitsMerge
  <2>2. Child(MergeNode(q), p, h)' /\ i \in Out(MergeNode(q))'
    BY <1>1, <2>1
  <2> QED BY <2>2 DEF Done
<1>3. NewPieces(p, h, N) \subseteq {InputsOf(merges'[l], mem'), InputsOf(merges'[r], mem')}
  <2>1. \A i : MergeNode(i) \in N => i = l \/ i = r
    BY DEF MergeNode
  <2> QED BY <2>1 DEF NewPieces
<1> QED BY <1>1, <1>2, <1>3 DEF PiecesWait

LEMMA SplitInOrderFrom ==
  ASSUME TreeInv, OrdInv, NEW id \in DOMAIN merges, ~merges[id].finished, NEW l, NEW r, SplitsMerge(id, l, r),
         SameTask(ToMerge(id).m, merges[id]), StepKeepsInput, NEW t, t = MergeNode(id), NEW N, N = {MergeNode(l), MergeNode(r)}
  PROVE  InOrderFrom(t, N)
<1>1. PICK p, h : p = merges[id].parent /\ h = Home(t)
  OBVIOUS
<1>2. Up(t) = p
  BY <1>1 DEF Up, MergeNode
<1>3. \A q \in {l, r} : Up(MergeNode(q))' = p /\ Home(MergeNode(q))' = h
  BY <1>1, SplitMergesWait
<1>4. \A v \in N : Up(v)' = Up(t) /\ Home(v)' = Home(t)
  <2>1. PICK a, b : a = MergeNode(l) /\ b = MergeNode(r) /\ N = {a, b}
    OBVIOUS
  <2>2. Up(a)' = p /\ Up(b)' = p /\ Home(a)' = h /\ Home(b)' = h
    BY <1>3, <2>1
  <2> QED BY <1>1, <1>2, <2>1, <2>2
<1>5. ASSUME NEW q \in {l, r} PROVE MergesEnough(q)' /\ merges'[q].split
  <2>1. merges[id].nmerge = Minimum(nsort, h[2] - h[1])
    BY <1>1 DEF OrdInv, MergesEnough
  <2>2. merges'[q].nmerge = merges[id].nmerge /\ merges'[q].split
    BY DEF SplitsMerge, CutInto, SameTask
  <2>3. Home(MergeNode(q))' = h
    BY <1>3
  <2> QED BY <2>1, <2>2, <2>3 DEF MergesEnough, StepKeepsInput, Minimum
<1>6. \A s : SortNode(s) \notin N
  BY DEF SortNode, MergeNode
<1>7. \A i : MergeNode(i) \in N => i \in {l, r}
  BY DEF MergeNode
<1> QED BY <1>4, <1>5, <1>6, <1>7 DEF InOrderFrom

\* The units of the two pieces.
LEMMA PieceUnits ==
  ASSUME NEW m, NEW M, NEW q, mem' = M, merges'[q].x_orig = m.x_orig
  PROVE  InputsOf(merges'[q], mem') = UnitOf(IF m.x_orig THEN M.x ELSE M.z, merges'[q])
BY DEF InputsOf, UnitOf, Array
-------------------------------------------------------------------------------
\* A piece that is cut again.
LEMMA PieceSplitInOrder ==
  ASSUME TreeInv, MemInv, OrdInv, NEW id \in DOMAIN merges, ~merges[id].finished, merges[id].split, Idle(MergeNode(id)),
         NEW l, NEW r, SplitsMerge(id, l, r), SizeOf(merges[id]) > MergeCutOff, mem' = mem, StepKeepsInput
  PROVE  OrdInv'
<1>0. PICK t, p, h, m, N : /\ t = MergeNode(id) /\ p = Up(t) /\ h = Home(t) /\ m = merges[id]
                           /\ N = {MergeNode(l), MergeNode(r)}
  OBVIOUS
<1>1. PieceIsReady(t, p, h, m)
  BY <1>0, PieceReads
<1>2. /\ t \in Nodes /\ Idle(t) /\ m \in MergeTasks /\ p = m.parent
      /\ m.x_orig = (~Flag(p, h)) /\ m.x_orig \in BOOLEAN /\ m.x_orig = m.y_orig /\ Out(t) = MergeOutputs(m)
      /\ m.xs <= m.xe /\ m.xe <= m.ys /\ m.ys <= m.ye
      /\ MergeInputs(m) \subseteq Indices(h) /\ MergeOutputs(m) \subseteq Indices(h) /\ Indices(h) \subseteq Span(0, sortN)
  BY <1>0, <1>1 DEF PieceIsReady
<1>3. ToMerge(id).m = m /\ ToMerge(id).M = mem /\ TellParent(m) = merges /\ SameTask(ToMerge(id).m, merges[id])
  BY <1>0 DEF ToMerge, Aligned, TellParent, SameTask
<1>4. Replaces(t, N) /\ \A i \in DOMAIN merges : t # MergeNode(i) => merges'[i] = merges[i]
  BY <1>0, <1>3 DEF SplitsMerge
<1>5. FlagsKept(t) /\ Flag(p, h)' = Flag(p, h)
  BY ZenonT(60), <1>0, <1>2, <1>4, NobodyIsTold
<1>6. OnlySlotsOf(t)
  BY DEF OnlySlotsOf
<1>7. Moves(mem', mem, Indices(Home(t)))
  BY NothingMoves
<1>8. InOrderFrom(t, N)
  BY <1>0, <1>3, SplitInOrderFrom
<1>9. PICK M, from, X, Y, u, lim, k : /\ M = mem /\ from = (IF m.x_orig THEN M.x ELSE M.z) /\ Read(from, m, X, Y)
                                      /\ u = Unit(X, Y, m.zs) /\ lim = Limit(h) /\ k = lim - m.zs
  BY DEF Read
<1>10. \A i \in MergeInputs(m) : from[i] \in Items
  <2>1. M \in Memories
    BY <1>9 DEF MemInv, MemTypeOK
  <2>2. \A i \in MergeInputs(m) : IsItem(from[i])
    BY <1>1, <1>9 DEF PieceIsReady
  <2>3. \A i \in Span(0, sortN) : from[i] \in Values
    BY <1>9, <2>1 DEF Memories
  <2> QED BY <1>2, <2>1, <2>2, <2>3 DEF Items
<1>11. u = InputsOf(merges[id], mem)
  BY <1>0, <1>2, <1>9 DEF InputsOf, Array, Read
<1>12. PICK A, D : A = Array(mem', Flag(p, h)') /\ D = Done(p, h)'
  OBVIOUS
<1>13. u \in Units(p, h) /\ Units(p, h)' \subseteq (Units(p, h) \ {u}) \cup (NewPieces(p, h, N) \cup SinglesOf(A, D \cap Out(t)))
  <2>1. IsArrayOf(A, p, h)
    BY <1>12 DEF IsArrayOf, Array
  <2>2. t = MergeNode(id) /\ p = Up(t) /\ h = Home(t) /\ Idle(t) /\ Replaces(t, N) /\ FlagsKept(t) /\ D = Done(p, h)'
    BY <1>0, <1>2, <1>4, <1>5, <1>12
  <2> QED BY <1>6, <1>11, <2>1, <2>2, UnitsOfPiece
<1>14. PICK a, b : a = UnitOf(from, merges'[l]) /\ b = UnitOf(from, merges'[r])
  OBVIOUS
<1>15. PiecesWait(id, l, r, p, h, N)
  BY <1>0, <1>2, <1>3, SplitMergesWait
<1>16. NewPieces(p, h, N) \subseteq {a, b} /\ SinglesOf(A, D \cap Out(t)) = {}
  <2>1. InputsOf(merges'[l], mem') = a /\ InputsOf(merges'[r], mem') = b
    <3>1. mem' = M /\ merges'[l].x_orig = m.x_orig /\ merges'[r].x_orig = m.x_orig
      BY <1>3, <1>9 DEF SplitsMerge
    <3> QED BY <1>9, <1>14, <3>1, PieceUnits
  <2>2. D \cap Out(t) = {}
    BY <1>0, <1>2, <1>12, <1>15 DEF PiecesWait
  <2> QED BY <1>15, <2>1, <2>2 DEF PiecesWait, SinglesOf
<1>17. InLine(Units(p, h), lim)
  <2>1. Awaited(p) /\ h \in Halves(p)
    BY <1>0, <1>2, ParentIsAwaited
  <2> QED BY <1>9, <2>1 DEF OrdInv, HalfInOrder
<1>18. lim \in Nat /\ k \in Int
  <2>1. Home(t) \in Nat \X Nat /\ nsort \in Nat /\ m.zs \in Nat
    BY <1>2, HomesAreRanges DEF TreeInv, TreeTypeOK, MergeTasks
  <2> QED BY <1>0, <1>9, <2>1 DEF Limit
<1>19. Mergeable(X, Y, k)
  <2>1. Mergeable(u.X, u.Y, lim - u.zs)
    BY <1>13, <1>17 DEF InLine
  <2>2. u.X = X /\ u.Y = Y /\ u.zs = m.zs
    BY <1>9, UnitFields
  <2> QED BY <1>9, <2>1, <2>2
<1>20. InLine({a, b}, lim) /\ Refines(a, u, lim) /\ Refines(b, u, lim)
  <2>1. PICK cut \in SplitPoints(m, from) : CutInto(m, cut, merges'[l], merges'[r])
    <3>1. from = (IF m.x_orig THEN mem.x ELSE mem.z)
      BY <1>9
    <3> QED BY <1>3, <3>1 DEF SplitsMerge
  <2>2. PICK L, R : L = merges'[l] /\ R = merges'[r] /\ CutInto(m, cut, L, R) /\ a = UnitOf(from, L) /\ b = UnitOf(from, R)
    BY <1>14, <2>1
  <2>3. SizeOf(m) > MergeCutOff
    BY <1>0
  <2> QED BY <1>2, <1>9, <1>10, <1>18, <1>19, <2>2, <2>3, PiecesInLine
<1>21. InLine(Units(p, h)', Limit(h))
  <2>1. PICK W, U, V : W = {a, b} /\ U = Units(p, h) /\ V = Units(p, h)'
    OBVIOUS
  <2>2. V \subseteq (U \ {u}) \cup W
    BY <1>13, <1>16, <2>1
  <2>3. InLine(V, lim)
    BY <1>13, <1>17, <1>20, <2>1, <2>2, RefinedInLine
  <2> QED BY <1>9, <2>1, <2>3
<1> QED BY <1>0, <1>2, <1>4, <1>5, <1>6, <1>7, <1>8, <1>21, OrdStep

\* A merge of two halves that is cut.
LEMMA WholeSplitInOrder ==
  ASSUME TreeInv, MemInv, OrdInv, NEW id \in DOMAIN merges, ~merges[id].finished, ~merges[id].split, Idle(MergeNode(id)),
         NEW l, NEW r, SplitsMerge(id, l, r), NEW c, c = ToMerge(id), SizeOf(c.m) > MergeCutOff, mem' = c.M, StepKeepsInput
  PROVE  OrdInv'
<1>0. PICK t, p, h, N, m, M : /\ t = MergeNode(id) /\ p = Up(t) /\ h = Home(t) /\ N = {MergeNode(l), MergeNode(r)}
                              /\ m = c.m /\ M = c.M
  OBVIOUS
<1>1. t \in Nodes /\ p = merges[id].parent /\ h = id /\ ~IsSplit(t) /\ Idle(t) /\ Replaces(t, N)
  BY <1>0, MergeTaskIsTyped DEF IsSplit, MergeNode, Home, SplitsMerge
<1>2. PICK X, Y, lim, from : lim = Limit(id) /\ from = (IF m.x_orig THEN M.x ELSE M.z) /\ Read(from, m, X, Y)
  BY DEF Read
<1>3. HalvesAreReady(id, m, M, X, Y, lim)
  BY <1>0, <1>2, HalvesGetReady
<1>4. /\ m \in MergeTasks /\ SameTask(m, merges[id]) /\ m.xs <= m.xe /\ m.xe <= m.ys /\ m.ys <= m.ye
      /\ MergeInputs(m) = Indices(id) /\ MergeOutputs(m) = Indices(id)
      /\ \A i \in MergeInputs(m) : from[i] \in Items
      /\ lim \in Nat /\ lim - m.zs = nsort /\ Mergeable(X, Y, nsort)
      /\ Moves(M, mem, Indices(id)) /\ SameBut(M, mem, Indices(id)) /\ nsort \in Nat
  BY <1>2, <1>3 DEF HalvesAreReady
<1>5. PICK orig \in BOOLEAN : orig = (~m.x_orig)
  OBVIOUS
<1>6. FlagsKept(t)
  <2>1. TellParent(c.m) = SetOdd(merges, merges[id].parent, merges[id].zs, orig)
    BY <1>0, <1>5, ReadyToMerge
  <2>2. \A i \in DOMAIN merges : i # id => merges'[i] = SetOdd(merges, merges[id].parent, merges[id].zs, orig)[i]
    BY <2>1 DEF SplitsMerge
  <2> QED BY <1>0, <1>1, <2>2, TheParentIsTold
<1>7. OnlySlotsOf(t)
  BY <1>0, <1>1, <1>4 DEF OnlySlotsOf, SameBut, Slots
<1>8. Moves(mem', mem, Indices(Home(t)))
  BY <1>0, <1>1, <1>4
<1>9. SameTask(ToMerge(id).m, merges[id])
  BY <1>0, <1>4
<1>10. InOrderFrom(t, N)
  BY <1>0, <1>9, SplitInOrderFrom
<1>11. PiecesWait(id, l, r, p, h, N)
  BY <1>0, <1>1, <1>9, SplitMergesWait
<1>12. PICK A, D : A = Array(mem', Flag(p, h)') /\ D = Done(p, h)'
  OBVIOUS
<1>13. Units(p, h)' \subseteq NewPieces(p, h, N) \cup SinglesOf(A, D)
  <2>1. IsArrayOf(A, p, h)
    BY <1>12 DEF IsArrayOf, Array
  <2> QED BY <1>0, <1>1, <1>12, <2>1, UnitsOfWhole
<1>14. PICK a, b : a = UnitOf(from, merges'[l]) /\ b = UnitOf(from, merges'[r])
  OBVIOUS
<1>15. NewPieces(p, h, N) \subseteq {a, b} /\ SinglesOf(A, D) = {}
  <2>1. InputsOf(merges'[l], mem') = a /\ InputsOf(merges'[r], mem') = b
    <3>1. mem' = M /\ merges'[l].x_orig = m.x_orig /\ merges'[r].x_orig = m.x_orig
      BY <1>0 DEF SplitsMerge
    <3> QED BY <1>2, <1>14, <3>1, PieceUnits
  <2>2. D \subseteq Indices(id)
    BY <1>1, <1>12 DEF Done, Indices
  <2>3. MergeOutputs(merges[id]) = Indices(id)
    BY ReadyHalvesLie
  <2>4. D = {}
    BY <1>11, <1>12, <2>2, <2>3 DEF PiecesWait
  <2> QED BY <1>11, <2>1, <2>4 DEF PiecesWait, SinglesOf
<1>16. InLine({a, b}, lim)
  <2>1. PICK cut \in SplitPoints(m, from) : CutInto(m, cut, merges'[l], merges'[r])
    BY <1>0, <1>2 DEF SplitsMerge
  <2>2. PICK L, R : L = merges'[l] /\ R = merges'[r] /\ CutInto(m, cut, L, R) /\ a = UnitOf(from, L) /\ b = UnitOf(from, R)
    BY <1>14, <2>1
  <2>3. SizeOf(m) > MergeCutOff
    BY <1>0
  <2>4. PICK k \in Int : k = nsort
    BY <1>4
  <2>5. PICK u : u = Unit(X, Y, m.zs)
    OBVIOUS
  <2>6. k = lim - m.zs /\ Mergeable(X, Y, k)
    BY <1>4, <2>4
  <2> QED BY <1>2, <1>4, <2>2, <2>3, <2>4, <2>5, <2>6, PiecesInLine
<1>17. InLine(Units(p, h)', Limit(h))
  <2>1. PICK W, V : W = {a, b} /\ V = Units(p, h)'
    OBVIOUS
  <2>2. V \subseteq W
    BY <1>13, <1>15, <2>1
  <2>3. InLine(V, lim)
    BY <1>16, <2>1, <2>2, FewerInLine
  <2> QED BY <1>1, <1>2, <2>1, <2>3
<1> QED BY <1>0, <1>1, <1>6, <1>7, <1>8, <1>10, <1>17, OrdStep

LEMMA MergeSplitInOrder ==
  ASSUME TreeInv, MemInv, OrdInv, NEW id \in DOMAIN merges, MergeSplit(id)
  PROVE  OrdInv'
<1>1. PICK c, l, r : c = ToMerge(id) /\ SplitsMerge(id, l, r)
  BY MergeSplitStep
<1>2. /\ ~merges[id].finished /\ Idle(MergeNode(id)) /\ StepKeepsInput
      /\ SizeOf(c.m) > MergeCutOff /\ mem' = c.M
  BY <1>1, IdleTasks DEF MergeSplit, Runnable, StepKeepsInput, sortInput
<1>3. CASE merges[id].split
  <2>1. c.m = merges[id] /\ c.M = mem
    BY <1>1, <1>3 DEF ToMerge, Aligned
  <2> QED BY <1>1, <1>2, <1>3, <2>1, PieceSplitInOrder
<1>4. CASE ~merges[id].split
  BY <1>1, <1>2, <1>4, WholeSplitInOrder
<1> QED BY <1>3, <1>4
-------------------------------------------------------------------------------
(* The beginning, and the end.                                                 *)

\* The elements of x are told apart where each is still in its slot.
LEMMA DistinctInPlace ==
  ASSUME NEW M, \A i \in Span(0, sortN) : M.x[i][2] = i /\ M.z[i] = Raw
  PROVE  Distinct(M)
<1>1. ~IsItem(Raw)
  BY DEF IsItem, Raw
<1>2. \A s \in AllSlots : IsItem(At(M, s)) => s = <<"x", s[2]>> /\ At(M, s)[2] = s[2]
  <2> SUFFICES ASSUME NEW s \in AllSlots, IsItem(At(M, s)) PROVE s = <<"x", s[2]>> /\ At(M, s)[2] = s[2]
    OBVIOUS
  <2>1. s = <<s[1], s[2]>> /\ s[1] \in {"x", "z"} /\ s[2] \in Span(0, sortN)
    BY SlotPairs
  <2>2. s[1] = "x"
    BY <1>1, <2>1 DEF At
  <2> QED BY <2>1, <2>2 DEF At
<1> QED BY <1>2 DEF Distinct

LEMMA OrderStarts == SortInit => OrdInv
<1> SUFFICES ASSUME SortInit PROVE OrdInv
  OBVIOUS
<1>1. PICK key \in [Span(0, sortN) -> SortKeys] :
        mem = [x |-> [i \in Span(0, sortN) |-> <<key[i], i>>], z |-> [i \in Span(0, sortN) |-> Raw], ok |-> TRUE]
  BY DEF SortInit
<1>2. \A i \in Span(0, sortN) : mem.x[i][2] = i /\ mem.z[i] = Raw
  BY <1>1
<1>3. Distinct(mem)
  BY <1>2, DistinctInPlace
<1>4. Homed(mem, <<0, sortN>>)
  <2>1. PICK h : h = <<0, sortN>>
    OBVIOUS
  <2>2. Homed(mem, h)
    BY <1>2, <2>1, HomedInPlace DEF Indices
  <2> QED BY <2>1, <2>2
<1>5. stable => sortN <= nsort
  <2>1. sortN \in Nat
    BY SortAssumption DEF SortInit
  <2> QED BY <2>1 DEF SortInit
<1>6. sorts = {} /\ DOMAIN merges = {} /\ \A p : ~Awaited(p)
  BY DEF SortInit, Awaited
<1> QED BY <1>2, <1>3, <1>4, <1>5, <1>6 DEF OrdInv, Untouched

\* Where there are no tasks, it is the caller who waits.
LEMMA NobodyElseWaits ==
  ASSUME Nodes' = {}, Distinct(mem)', Homed(mem, <<0, sortN>>)', stable' => sortN' <= nsort', sortPc' # "begin",
         InLine(Units(Root, <<0, sortN>>), Limit(<<0, sortN>>))'
  PROVE  OrdInv'
<1>1. sorts' = {} /\ DOMAIN merges' = {}
  BY DEF Nodes
<1>2. \A p : Awaited(p)' => p = Root
  BY <1>1 DEF Awaited
<1>3. HalfInOrder(Root, <<0, sortN>>)'
  BY DEF HalfInOrder
<1>4. \A h : h \in Halves(Root)' => h = <<0, sortN'>>
  BY DEF Halves
<1>5. ASSUME NEW p, Awaited(p)' PROVE \A h \in Halves(p)' : HalfInOrder(p, h)'
  BY <1>2, <1>3, <1>4, <1>5
<1> QED BY <1>1, <1>5 DEF OrdInv

\* A range that is not begun holds its elements as they came.
LEMMA BeforeTheSort ==
  ASSUME TreeInv, MemInv, OrdInv, sortPc = "begin"
  PROVE  /\ Nodes = {} /\ mem \in Memories /\ sortN \in Nat /\ nsort \in Nat
         /\ \A i \in Span(0, sortN) : mem.x[i] \in Items /\ mem.x[i][2] = i /\ mem.z[i] = Raw
<1>1. Nodes = {} /\ mem \in Memories
  BY NoNodes DEF MemInv, MemTypeOK
<1>2. \A i \in Span(0, sortN) : IsItem(mem.x[i]) /\ mem.z[i] = Raw
  BY <1>1 DEF MemInv, Delivered, Flag, Child, Indices
<1>3. \A i \in Span(0, sortN) : mem.x[i] \in Values /\ mem.x[i][2] = i
  BY <1>1 DEF OrdInv, Untouched, Memories
<1>4. sortN \in Nat /\ nsort \in Nat
  BY SortAssumption DEF TreeInv, TreeTypeOK
<1> QED BY <1>1, <1>2, <1>3, <1>4 DEF Items

LEMMA SerialSortInOrder ==
  ASSUME TreeInv, MemInv, OrdInv, SerialSort
  PROVE  OrdInv'
<1>1. PICK S, n, K, M : S = Span(0, sortN) /\ n = sortN /\ K = mem' /\ M = mem
  OBVIOUS
<1>2. /\ Nodes = {} /\ M \in Memories /\ n \in Nat /\ nsort \in Nat
      /\ \A i \in S : M.x[i] \in Items /\ M.x[i][2] = i /\ M.z[i] = Raw
  BY <1>1, BeforeTheSort DEF SerialSort
<1>3. sortN' = sortN /\ nsort' = nsort /\ stable' = stable /\ Nodes' = {} /\ sortPc' = "done"
  BY <1>2 DEF SerialSort, sortInput, Nodes
<1>4. PICK q \in LeafOrders(M.x, 0, n) : mem' = [mem EXCEPT !.x = [i \in Span(0, sortN) |-> mem.x[q[i]]]]
  BY <1>1 DEF SerialSort
<1>5. K.z = M.z /\ \A i \in S : K.x[i] = M.x[q[i]]
  <2>1. mem = [x |-> mem.x, z |-> mem.z, ok |-> mem.ok]
    BY <1>1, <1>2 DEF Memories
  <2> QED BY <1>1, <1>4, <2>1
<1>6. q \in [S -> S] /\ \A i \in S, j \in S : i # j => q[i] # q[j]
  <2>1. q \in [S -> S] /\ \A i \in S, j \in S : i < j => q[i] # q[j]
    BY <1>1 DEF LeafOrders
  <2>2. \A i \in S : i \in Nat
    BY <1>1, <1>2 DEF Span
  <2>3. \A i \in S, j \in S : i # j => i < j \/ j < i
    BY <2>2
  <2> QED BY <2>1, <2>3
<1>7. Moves(K, M, S)
  <2>1. \A i \in S : IsItem(M.x[i])
    BY <1>2 DEF Items
  <2>2. S \subseteq Span(0, sortN) /\ \A i \in Span(0, sortN) : K.x[i] = IF i \in S THEN M.x[q[i]] ELSE M.x[i]
    BY <1>1, <1>5
  <2> QED BY <1>2, <1>5, <1>6, <2>1, <2>2, LeafGathers
<1>8. Distinct(mem)'
  <2>1. Distinct(K)
    BY <1>1, <1>7 DEF Moves, OrdInv
  <2> QED BY <1>1, <1>3, <2>1 DEF Distinct, AllSlots, At, IsItem
<1>9. Homed(mem, <<0, sortN>>)'
  <2>0. PICK h : h = <<0, n>>
    OBVIOUS
  <2>1. h = <<0, n>> /\ Indices(h) = S
    BY <1>1, <2>0 DEF Indices
  <2>2. Homed(M, h) /\ Carried(K, M, S)
    BY <1>1, <1>7, <2>1 DEF OrdInv, Moves
  <2>3. Homed(K, h)
    BY <2>1, <2>2, HomedStill
  <2> QED BY <1>1, <1>3, <2>1, <2>3 DEF Homed, AllSlots, At, Indices, IsItem
<1>10. PICK h, U, D : h = <<0, n>> /\ U = Units(Root, h)' /\ D = Done(Root, h)'
  OBVIOUS
<1>11. InLine(U, 0 + nsort)
  <2>1. Pieces(Root, h)' = {} /\ D \subseteq Span(0, n)
    BY <1>3, <1>10 DEF Pieces, Child, Done, Indices
  <2>2. PICK A : A = K.x
    OBVIOUS
  <2>3. U \subseteq SinglesOf(A, D)
    BY <1>1, <1>10, <2>1, <2>2 DEF Units, SinglesOf, Array, Flag
  <2>4. \A i \in Span(0, n) : M.x[i] \in Items /\ M.x[i][2] = i
    BY <1>1, <1>2
  <2>5. \A i \in Span(0, n) : A[i] = M.x[q[i]]
    BY <1>1, <1>5, <2>2
  <2>6. PICK x, z : x = M.x /\ z = 0
    OBVIOUS
  <2>7. InLine(SinglesOf(A, D), z + nsort)
    <3>1. /\ q \in LeafOrders(x, z, n) /\ z \in Nat /\ D \subseteq Span(z, n)
          /\ \A i \in Span(z, n) : x[i] \in Items /\ x[i][2] = i
          /\ \A i \in Span(z, n) : A[i] = x[q[i]]
      BY <2>1, <2>4, <2>5, <2>6
    <3> QED BY <1>2, <3>1, LeafInLine
  <2> QED BY <2>3, <2>6, <2>7, FewerInLine
<1>12. InLine(Units(Root, <<0, sortN>>), Limit(<<0, sortN>>))'
  <2>1. PICK lim : lim = 0 + nsort
    OBVIOUS
  <2>2. InLine(U, lim)'
    BY <1>3, <1>11, <2>1, InLineStill
  <2>3. Limit(<<0, sortN>>)' = lim
    BY <1>3, <2>1 DEF Limit
  <2>4. Units(Root, <<0, sortN>>)' = U
    BY <1>1, <1>3, <1>10 DEF Units, Pieces, Done, Child, Indices, Flag
  <2> QED BY <2>2, <2>3, <2>4 DEF InLine, Ahead, Under, Holds, Mergeable, IsUnit, UnitEnd
<1>13. stable' => sortN' <= nsort'
  BY <1>3 DEF OrdInv
<1> QED BY <1>3, <1>8, <1>9, <1>12, <1>13, NobodyElseWaits

LEMMA SpawnRootInOrder ==
  ASSUME TreeInv, MemInv, OrdInv, SpawnRoot
  PROVE  OrdInv'
<1>1. /\ Nodes = {} /\ mem' = mem /\ merges' = merges /\ sortN' = sortN /\ nsort' = nsort /\ stable' = stable
      /\ sortPc' = "wait" /\ sortN \in Nat
  BY BeforeTheSort DEF SpawnRoot, sortInput
<1>2. PICK s : s = [lo |-> 0, hi |-> sortN, root |-> TRUE, parent |-> Root, finished |-> FALSE]
  OBVIOUS
<1>3. sorts' = {s} /\ DOMAIN merges' = {} /\ s.lo = 0 /\ s.hi = sortN /\ s.parent = Root /\ ~s.finished
  BY <1>1, <1>2 DEF SpawnRoot, Nodes
<1>4. PICK h : h = <<0, sortN>>
  OBVIOUS
<1>5. Child(SortNode(s), Root, h)' /\ ~IsSplit(SortNode(s))'
  BY <1>3, <1>4 DEF Child, Nodes, Waits, Up, Home, IsSplit, SortNode
<1>6. Done(Root, h)' = {}
  BY <1>5, NothingIsDone
<1>7. Pieces(Root, h)' = {}
  BY <1>3 DEF Pieces
<1>8. Units(Root, h)' = {}
  BY <1>6, <1>7 DEF Units, SinglesOf
<1>9. Units(Root, <<0, sortN>>)' = {}
  BY <1>1, <1>4, <1>8 DEF Units, Pieces, Done, Child, Indices, Flag
<1>10. HalfInOrder(Root, <<0, sortN>>)'
  <2>1. InLine(Units(Root, <<0, sortN>>), Limit(<<0, sortN>>))'
    BY <1>9 DEF InLine
  <2>2. Homed(mem, <<0, sortN>>)'
    BY <1>1 DEF OrdInv, Homed, AllSlots, At, Indices, IsItem
  <2> QED BY <2>1, <2>2 DEF HalfInOrder
<1>11. ASSUME NEW p, Awaited(p)' PROVE \A k \in Halves(p)' : HalfInOrder(p, k)'
  <2>1. p = Root
    BY <1>3, <1>11 DEF Awaited
  <2>2. \A k : k \in Halves(Root)' => k = <<0, sortN'>>
    BY DEF Halves
  <2> QED BY <1>10, <2>1, <2>2
<1>12. Distinct(mem)' /\ Homed(mem, <<0, sortN>>)'
  BY <1>1, <1>10 DEF OrdInv, Distinct, AllSlots, At, IsItem, HalfInOrder
<1>13. Untouched(Span(s.lo, s.hi))'
  <2>1. Untouched(Span(0, sortN))
    BY DEF SpawnRoot, OrdInv
  <2> QED BY <1>1, <1>3, <2>1 DEF Untouched, Span
<1>14. (stable => sortN <= nsort)' /\ sortPc' # "begin"
  BY <1>1 DEF OrdInv
<1> QED BY <1>3, <1>11, <1>12, <1>13, <1>14 DEF OrdInv

\* A step that touches neither memory nor tasks.
StepKeepsTasks ==
  /\ sortN' = sortN /\ nsort' = nsort /\ stable' = stable /\ mem' = mem /\ sorts' = sorts /\ merges' = merges
  /\ sortPc' = sortPc \/ (sortPc = "wait" /\ sortPc' = "done")

LEMMA OrderIsKept ==
  ASSUME OrdInv, StepKeepsTasks
  PROVE  OrdInv'
<1>1. Nodes' = Nodes
  BY DEF Nodes, StepKeepsTasks
<1>2. \A p, h : Flag(p, h)' = Flag(p, h)
  BY DEF Flag, HalfX, StepKeepsTasks
<1>3. \A t : Home(t)' = Home(t) /\ Up(t)' = Up(t) /\ (Waits(t)' <=> Waits(t)) /\ Out(t)' = Out(t)
  BY DEF Home, HalfAt, HalfX, HalfY, Up, Waits, Out, IsSplit, Indices, StepKeepsTasks
<1>4. \A c, p, h : Child(c, p, h)' <=> Child(c, p, h)
  BY <1>1, <1>3 DEF Child
<1>5. \A p, h : Pieces(p, h)' = Pieces(p, h) /\ Done(p, h)' = Done(p, h)
  BY <1>3, <1>4 DEF Pieces, Done, Indices, StepKeepsTasks
<1>6. \A p, h : Units(p, h)' = Units(p, h)
  BY <1>2, <1>5 DEF Units, SinglesOf, InputsOf, Array, StepKeepsTasks
<1>7. \A p : Awaited(p)' => Awaited(p) /\ Halves(p)' = Halves(p)
  BY DEF Awaited, Halves, HalfX, HalfY, StepKeepsTasks
<1>8. ASSUME NEW p, Awaited(p)', NEW h, h \in Halves(p)'
      PROVE  HalfInOrder(p, h)'
  <2>1. HalfInOrder(p, h)
    BY <1>7, <1>8 DEF OrdInv
  <2>2. Homed(mem, h)'
    BY <2>1 DEF HalfInOrder, Homed, AllSlots, At, Indices, IsItem, StepKeepsTasks
  <2>3. PICK U, lim : U = Units(p, h) /\ lim = Limit(h)
    OBVIOUS
  <2>4. InLine(U, lim)'
    BY <2>1, <2>3, InLineStill DEF HalfInOrder, StepKeepsTasks
  <2>5. Units(p, h)' = U /\ Limit(h)' = lim
    BY <1>6, <2>3 DEF Limit, StepKeepsTasks
  <2>6. InLine(Units(p, h), Limit(h))'
    BY <2>4, <2>5 DEF InLine, Ahead, Under, Holds, Mergeable, IsUnit, UnitEnd
  <2> QED BY <2>2, <2>6 DEF HalfInOrder
<1>9. Distinct(mem)' /\ Homed(mem, <<0, sortN>>)'
  BY DEF OrdInv, Distinct, Homed, AllSlots, At, Indices, IsItem, StepKeepsTasks
<1>10. \A id \in DOMAIN merges' : ~merges'[id].finished => MergesEnough(id)'
  <2> SUFFICES ASSUME NEW id \in DOMAIN merges, ~merges[id].finished PROVE MergesEnough(id)'
    BY DEF StepKeepsTasks
  <2>1. MergesEnough(id) /\ Home(MergeNode(id))' = Home(MergeNode(id))
    BY <1>3 DEF OrdInv
  <2> QED BY <2>1 DEF MergesEnough, StepKeepsTasks, Minimum
<1>11. (\A s \in sorts : ~s.finished => Untouched(Span(s.lo, s.hi)))'
  BY DEF OrdInv, StepKeepsTasks, Untouched, Span
<1>12. (stable => sortN <= nsort)' /\ (sortPc = "begin" => Untouched(Span(0, sortN)))'
  BY DEF OrdInv, StepKeepsTasks, Untouched, Span
<1> QED BY <1>8, <1>9, <1>10, <1>11, <1>12 DEF OrdInv

LEMMA OntoItself ==
  ASSUME NEW n \in Nat, NEW f \in [Span(0, n) -> Span(0, n)],
         \A i \in Span(0, n), j \in Span(0, n) : f[i] = f[j] => i = j
  PROVE  {f[i] : i \in Span(0, n)} = Span(0, n)
<1>1. PICK S : S = Span(0, n)
  OBVIOUS
<1>2. IsFiniteSet(S)
  BY <1>1, FS_Interval DEF Span
<1>3. f \in Injection(S, S)
  BY <1>1 DEF Injection, IsInjective
<1>4. f \in Surjection(S, S)
  BY <1>2, <1>3, FS_Injection
<1> QED BY <1>1, <1>4 DEF Surjection

\* When the call returns, no task is left and x is in order.
LEMMA AtTheEnd ==
  ASSUME TreeInv, MemInv, OrdInv, sortPc = "done"
  PROVE  Sorted
<1>1. PICK h, A, n, lim : h = <<0, sortN>> /\ A = mem.x /\ n = sortN /\ lim = Limit(h)
  OBVIOUS
<1>2. Nodes = {} /\ n \in Nat /\ lim = nsort /\ nsort \in Nat
  BY <1>1, SortAssumption DEF MemInv, TreeInv, TreeTypeOK, Limit
<1>3. \A c : ~Child(c, Root, h)
  BY <1>2 DEF Child
<1>4. InOrderTo(A, h[1], h[2], lim) /\ \A i \in Indices(h) : A[i][2] \in Indices(h)
  <2>1. Awaited(Root) /\ Whole(Root) /\ h \in Halves(Root)
    BY <1>1 DEF Awaited, Whole, Halves
  <2>2. Delivered(Root, h) /\ h[1] \in Nat /\ A = Array(mem, Flag(Root, h))
    BY <1>1 DEF MemInv, Array, Flag
  <2> QED BY <1>1, <1>3, <2>1, <2>2, HalfIsInOrder
<1>5. PICK S : S = Span(0, n)
  OBVIOUS
<1>6. /\ \A i \in S : A[i] \in Items /\ A[i][2] \in S /\ i \in Nat /\ i < n
      /\ \A i \in S, j \in S : i < j /\ i < nsort => Prec(A[i], A[j])
  <2>1. h[1] = 0 /\ h[2] = n /\ Indices(h) = S
    BY <1>1, <1>5 DEF Indices
  <2>2. \A i \in S : i \in Nat /\ i < n
    BY <1>2, <1>5 DEF Span
  <2>3. /\ \A i \in S : A[i] \in Items /\ A[i][2] \in S
        /\ \A i \in S, j \in S : i < j /\ i < nsort => Prec(A[i], A[j])
    BY <1>2, <1>4, <1>5, <2>1 DEF InOrderTo
  <2> QED BY <2>2, <2>3
<1>7. \A i \in S, j \in S : A[i][2] = A[j][2] => i = j
  <2> SUFFICES ASSUME NEW i \in S, NEW j \in S, A[i][2] = A[j][2] PROVE i = j
    OBVIOUS
  <2>1. IsItem(A[i]) /\ IsItem(A[j])
    BY <1>6 DEF Items
  <2>2. <<"x", i>> \in AllSlots /\ <<"x", j>> \in AllSlots /\ At(mem, <<"x", i>>) = A[i] /\ At(mem, <<"x", j>>) = A[j]
    BY <1>1, <1>5 DEF AllSlots, At
  <2>3. <<"x", i>> = <<"x", j>>
    BY <2>1, <2>2 DEF OrdInv, Distinct
  <2> QED BY <2>3
<1>8. {mem.x[i][2] : i \in S} = S
  <2>1. PICK f : f = [i \in S |-> A[i][2]]
    OBVIOUS
  <2>2. f \in [S -> S] /\ \A i \in S, j \in S : f[i] = f[j] => i = j
    BY <1>6, <1>7, <2>1
  <2>3. {f[i] : i \in S} = S
    BY <1>2, <1>5, <2>2, OntoItself
  <2> QED BY <1>1, <2>1, <2>3
<1>9. ASSUME NEW i \in S, NEW j \in S, i < j
      PROVE  /\ i < nsort => ~Less(A[j], A[i])
             /\ stable /\ A[i][1] = A[j][1] => A[i][2] < A[j][2]
  <2>1. PICK a \in Items, b \in Items : a = A[i] /\ b = A[j]
    BY <1>6
  <2>2. a[1] \in Nat /\ b[1] \in Nat /\ a[2] \in Nat /\ b[2] \in Nat
    BY DEF Items, Values
  <2>3. ASSUME i < nsort PROVE ~Less(b, a) /\ (stable /\ a[1] = b[1] => a[2] <= b[2])
    <3>1. Prec(a, b)
      BY <1>6, <1>9, <2>1, <2>3
    <3> QED BY <2>2, <3>1 DEF Prec, Less
  <2>4. stable => i < nsort
    <3>1. stable => n <= nsort
      BY <1>1 DEF OrdInv
    <3> QED BY <1>2, <1>6, <3>1
  <2>5. a[2] # b[2]
    BY <1>6, <1>7, <1>9, <2>1
  <2> QED BY <2>1, <2>2, <2>3, <2>4, <2>5
<1> QED BY <1>1, <1>5, <1>8, <1>9 DEF Sorted

\* When the call returns, the first nsort elements are the smallest, in order, those of
\* equal keys in the order they came in if the sort is stable, and no element is lost
\* (parallel_backend_tbb.h:1003-1064).
THEOREM SortsTheRange == SortSpec => []Sorted
<1>1. SortInit => TreeInv /\ MemInv /\ OrdInv
  BY SortStarts, MemoryStarts, OrderStarts
<1>2. TreeInv /\ MemInv /\ OrdInv /\ [SortNext]_sortVars => OrdInv'
  <2> SUFFICES ASSUME TreeInv, MemInv, OrdInv, [SortNext]_sortVars PROVE OrdInv'
    OBVIOUS
  <2>1. CASE SerialSort
    BY <2>1, SerialSortInOrder
  <2>2. CASE SpawnRoot
    BY <2>2, SpawnRootInOrder
  <2>3. CASE SortReturn
    BY <2>3, OrderIsKept DEF SortReturn, sortInput, StepKeepsTasks
  <2>4. ASSUME NEW s \in sorts, SortLeaf(s) \/ SortSplit(s) \/ FinishSort(s)
        PROVE  OrdInv'
    BY <2>4, SortLeafInOrder, SortSplitInOrder, FinishSortInOrder
  <2>5. ASSUME NEW id \in DOMAIN merges,
               MergeInOrder(id) \/ MergeRanges(id) \/ MergeSplit(id) \/ FinishMerge(id)
        PROVE  OrdInv'
    BY <2>5, MergeInOrderInOrder, MergeRangesInOrder, MergeSplitInOrder, FinishMergeInOrder
  <2>6. CASE UNCHANGED sortVars
    BY <2>6, OrderIsKept DEF sortVars, sortInput, StepKeepsTasks
  <2> QED BY <2>1, <2>2, <2>3, <2>4, <2>5, <2>6 DEF SortNext
<1>3. TreeInv /\ MemInv /\ OrdInv => Sorted
  BY AtTheEnd DEF Sorted
<1>4. SortSpec => []TreeInv
  BY TasksFormATree
<1>5. TreeInv /\ MemInv /\ [SortNext]_sortVars => MemInv'
  BY MemoryGoesOn
<1> QED BY <1>1, <1>2, <1>3, <1>4, <1>5, PTL DEF SortSpec
===============================================================================
