-------------------------- MODULE ParallelMergeProofs --------------------------
(* The static merge is correct for every pair of sorted sequences, every cut-off *)
(* greater than 1 and every order of its tasks.                                 *)
EXTENDS ParallelMerge, TLAPS

\* Each of the two sequences the caller passes is sorted.
InputSorted ==
  /\ \A i \in Slots : input[i][2] = i
  /\ \A i \in Slots, j \in Slots :
       i < j /\ (j < middle \/ middle <= i) => input[i][1] <= input[j][1]

\* What a task still has to merge has not been touched, nor where it goes to.
TasksUntouched ==
  \A t \in tasks :
    /\ \A s \in InputSlots(t) : x[s] = input[s]
    /\ \A i \in OutputSlots(t) : z[i] = Raw

\* What has been written is a part of the input, in its final order.
WrittenInOrder ==
  /\ \A i \in Slots : z[i] # Raw => \E s \in Slots : z[i] = input[s]
  /\ \A i \in Slots, j \in Slots :
       i < j /\ z[i] # Raw /\ z[j] # Raw => Before(z[i], z[j])

\* Every slot of the output has been written or is the output of a task.
AllCovered ==
  pc = "merge" => \A i \in Slots : z[i] # Raw \/ \E t \in tasks : i \in OutputSlots(t)

Phases ==
  /\ pc = "begin" => /\ tasks = {}
                     /\ x = input
                     /\ \A i \in Slots : z[i] = Raw
  /\ pc = "done" => tasks = {}

IInv ==
  /\ TypeOK /\ InputSorted /\ Phases
  /\ TasksUntouched /\ NoSharedSlot /\ CutsAreFinal
  /\ WrittenInOrder /\ AllCovered
  /\ MergedStably /\ LifetimesKept

-------------------------------------------------------------------------------
(* An element of the input is no value of an empty slot, and two of them are   *)
(* ordered by key, then by place.                                              *)
LEMMA InputElements ==
  ASSUME TypeOK, InputSorted
  PROVE  /\ n \in Nat /\ middle \in Nat /\ middle <= n
         /\ \A s \in Slots : /\ input[s][1] \in Nat \ {0}
                             /\ IsItem(input[s])
                             /\ input[s] # Raw
         /\ \A s \in Slots, v \in Slots :
              Before(input[s], input[v]) <=>
                input[s][1] < input[v][1] \/ (input[s][1] = input[v][1] /\ s < v)
<1>1. n \in Nat /\ middle \in Nat /\ middle <= n
  BY ConstantsAssumption DEF TypeOK
<1>2. ASSUME NEW s \in Slots
      PROVE  input[s][1] \in Nat \ {0} /\ input[s][2] = s /\ input[s] # Raw
  <2>1. input[s] \in Keys \X Slots
    BY DEF TypeOK, Items
  <2>2. PICK k \in Keys, i \in Slots : input[s] = <<k, i>>
    BY <2>1
  <2>3. k \in Nat \ {0}
    BY ConstantsAssumption
  <2> QED BY <2>2, <2>3 DEF InputSorted, Raw
<1>3. \A s \in Slots : IsItem(input[s])
  BY <1>2 DEF IsItem
<1>4. ASSUME NEW s \in Slots, NEW v \in Slots
      PROVE  Before(input[s], input[v]) <=>
               input[s][1] < input[v][1] \/ (input[s][1] = input[v][1] /\ s < v)
  BY <1>2 DEF Before, Less
<1> QED BY <1>1, <1>2, <1>3, <1>4

(* Where the slots of a task are.                                              *)
LEMMA TaskSlots ==
  ASSUME TypeOK, NEW t \in tasks
  PROVE  /\ t.xs \in Nat /\ t.xe \in Nat /\ t.ys \in Nat /\ t.ye \in Nat
         /\ middle \in Nat /\ n \in Nat
         /\ t.xs <= t.xe /\ t.xe <= middle /\ middle <= t.ys /\ t.ys <= t.ye /\ t.ye <= n
         /\ InputSlots(t) \subseteq Slots
         /\ OutputSlots(t) \subseteq Slots
         /\ t = [xs |-> t.xs, xe |-> t.xe, ys |-> t.ys, ye |-> t.ye]
<1>1. t \in [xs : 0..n, xe : 0..n, ys : 0..n, ye : 0..n] /\ IsTask(t) /\ n \in Nat /\ middle \in 0..n
  BY ConstantsAssumption DEF TypeOK
<1>2. /\ t.xs \in Nat /\ t.xe \in Nat /\ t.ys \in Nat /\ t.ye \in Nat /\ middle \in Nat
      /\ t.xs <= t.xe /\ t.xe <= middle /\ middle <= t.ys /\ t.ys <= t.ye /\ t.ye <= n
  BY <1>1 DEF IsTask
<1>3. InputSlots(t) \subseteq Slots
  BY <1>1, <1>2 DEF InputSlots, Slots, Span
<1>4. OutputSlots(t) \subseteq Slots
  BY <1>1, <1>2 DEF OutputSlots, Slots, Span, OutBegin, Size, SizeX, SizeY
<1> QED BY <1>1, <1>2, <1>3, <1>4

(* Tasks of which one precedes the other share no slot.                        *)
LEMMA PrecedesDisjoint ==
  ASSUME TypeOK, NEW t \in tasks, NEW u \in tasks, Precedes(t, u)
  PROVE  /\ InputSlots(t) \cap InputSlots(u) = {}
         /\ \A i \in OutputSlots(t) : i < OutBegin(u)
         /\ \A i \in OutputSlots(u) : i >= OutBegin(u) /\ i >= OutBegin(t) /\ i \notin OutputSlots(t)
<1>1. t.xe <= u.xs /\ t.ye <= u.ys
  BY DEF Precedes
<1> USE <1>1, TaskSlots
<1>2. InputSlots(t) \cap InputSlots(u) = {}
  BY DEF InputSlots, Span
<1>3. \A i \in OutputSlots(t) : i < OutBegin(u)
  BY DEF OutputSlots, Span, OutBegin, Size, SizeX, SizeY
<1>4. \A i \in OutputSlots(u) : i >= OutBegin(u) /\ i >= OutBegin(t) /\ i \notin OutputSlots(t)
  BY DEF OutputSlots, Span, OutBegin, Size, SizeX, SizeY
<1> QED BY <1>2, <1>3, <1>4

-------------------------------------------------------------------------------
LEMMA InitIInv == Init => IInv
<1> SUFFICES ASSUME Init PROVE IInv
  OBVIOUS
<1> USE DEF Init
<1>1. n \in Nat /\ middle \in Nat /\ middle <= n
  BY ConstantsAssumption
<1>2. PICK key \in [Slots -> Keys] :
        /\ \A i \in Slots, j \in Slots :
             i < j /\ (j < middle \/ middle <= i) => key[i] <= key[j]
        /\ input = [i \in Slots |-> <<key[i], i>>]
  OBVIOUS
<1>3. TypeOK
  <2>1. input \in [Slots -> Items]
    BY <1>2 DEF Items
  <2> QED BY <2>1, <1>1 DEF TypeOK, Items, IsTask
<1>4. InputSorted
  BY <1>2 DEF InputSorted
<1>5. Phases /\ TasksUntouched /\ NoSharedSlot /\ CutsAreFinal /\ WrittenInOrder /\ AllCovered
  BY DEF Phases, TasksUntouched, NoSharedSlot, CutsAreFinal, WrittenInOrder, AllCovered
<1>6. MergedStably /\ LifetimesKept
  BY DEF MergedStably, LifetimesKept
<1> QED BY <1>3, <1>4, <1>5, <1>6 DEF IInv

(* With one sequence empty the other is the result.                            *)
LEMMA NothingIInv == IInv /\ Nothing => IInv'
<1> SUFFICES ASSUME IInv, Nothing PROVE IInv'
  OBVIOUS
<1> USE DEF IInv, Nothing, args
<1>1. TypeOK'
  BY DEF TypeOK, Slots, Span, Items, IsTask
<1>2. InputSorted' /\ Phases' /\ TasksUntouched' /\ NoSharedSlot' /\ CutsAreFinal' /\ WrittenInOrder' /\ AllCovered'
  BY DEF InputSorted, Phases, TasksUntouched, NoSharedSlot, CutsAreFinal, WrittenInOrder, AllCovered,
         Slots, Span, InputSlots, OutputSlots, OutBegin, Size, SizeX, SizeY
<1>3. x = input /\ \A i \in Slots : z[i] = Raw
  BY DEF Phases
<1>4. \A i \in Slots, j \in Slots : i < j => Before(input[i], input[j])
  BY InputElements DEF InputSorted, Slots, Span
<1>5. MergedStably'
  BY <1>3, <1>4 DEF MergedStably, Output, Slots, Span
<1>6. LifetimesKept'
  BY <1>3 DEF LifetimesKept, Slots, Span
<1> QED BY <1>1, <1>2, <1>5, <1>6

(* The first task covers everything.                                           *)
LEMMA BeginIInv == IInv /\ Begin => IInv'
<1> SUFFICES ASSUME IInv, Begin PROVE IInv'
  OBVIOUS
<1> USE DEF IInv, Begin, args
<1>0. PICK t : t = [xs |-> 0, xe |-> middle, ys |-> middle, ye |-> n]
  OBVIOUS
<1>1. n \in Nat /\ middle \in Nat /\ middle <= n
  BY InputElements
<1>2. tasks' = {t} /\ t.xs = 0 /\ t.xe = middle /\ t.ys = middle /\ t.ye = n
  BY <1>0
<1>3. Slots' = Slots /\ InputSlots(t)' = Slots /\ OutputSlots(t)' = Slots /\ OutBegin(t)' = 0
  BY <1>1, <1>2 DEF Slots, Span, InputSlots, OutputSlots, OutBegin, Size, SizeX, SizeY
<1>4. x = input /\ \A i \in Slots : z[i] = Raw
  BY DEF Phases
<1>5. TypeOK'
  <2>1. tasks' \subseteq [xs : 0..n', xe : 0..n', ys : 0..n', ye : 0..n']
    BY <1>1
  <2>2. \A u \in tasks' : IsTask(u)'
    BY <1>1 DEF IsTask
  <2> QED BY <2>1, <2>2, <1>1, <1>3 DEF TypeOK, Items
<1>6. InputSorted' /\ Phases' /\ WrittenInOrder'
  BY <1>3, <1>4 DEF InputSorted, Phases, WrittenInOrder
<1>7. TasksUntouched'
  BY <1>2, <1>3, <1>4 DEF TasksUntouched
<1>8. NoSharedSlot' /\ CutsAreFinal' /\ AllCovered'
  BY <1>2, <1>3, <1>4 DEF NoSharedSlot, CutsAreFinal, AllCovered
<1>9. MergedStably' /\ LifetimesKept'
  BY DEF MergedStably, LifetimesKept
<1> QED BY <1>5, <1>6, <1>7, <1>8, <1>9

-------------------------------------------------------------------------------
(* What a leaf writes, seen as elements of the input.                          *)
LEMMA LeafIInv ==
  ASSUME IInv, NEW t \in tasks, Leaf(t)
  PROVE  IInv'
<1> USE DEF IInv
<1>1. PICK out \in [OutputSlots(t) -> InputSlots(t)] :
        /\ Merges(t, out)
        /\ z' = [i \in Slots |-> IF i \in OutputSlots(t) THEN x[out[i]] ELSE z[i]]
  BY DEF Leaf
<1>2. /\ UNCHANGED <<n, middle, inplace, input, pc>>
      /\ tasks' = tasks \ {t}
      /\ x' = [i \in Slots |-> IF inplace /\ i \in InputSlots(t) THEN MovedFrom ELSE x[i]]
      /\ ok' = (/\ ok
                /\ \A i \in InputSlots(t) : IsItem(x[i])
                /\ \A i \in OutputSlots(t) : z[i] = Raw)
  BY DEF Leaf, args
<1>3. /\ Slots' = Slots
      /\ \A u : /\ InputSlots(u)' = InputSlots(u) /\ OutputSlots(u)' = OutputSlots(u)
                /\ OutBegin(u)' = OutBegin(u) /\ IsTask(u)' = IsTask(u)
  BY <1>2 DEF Slots, Span, InputSlots, OutputSlots, OutBegin, Size, SizeX, SizeY, IsTask
<1>4. /\ InputSlots(t) \subseteq Slots /\ OutputSlots(t) \subseteq Slots
      /\ \A i \in OutputSlots(t) : z[i] = Raw
      /\ \A s \in InputSlots(t) : x[s] = input[s]
  BY TaskSlots DEF TasksUntouched
<1>5. \A i \in OutputSlots(t) : /\ out[i] \in InputSlots(t) /\ out[i] \in Slots
                                /\ z'[i] = input[out[i]]
  BY <1>1, <1>4
<1>6. \A i \in Slots : i \notin OutputSlots(t) => z'[i] = z[i]
  BY <1>1
<1>7. TypeOK'
  <2>1. x' \in [Slots -> Items \cup {MovedFrom}]
    BY <1>2 DEF TypeOK
  <2>2. z' \in [Slots -> Items \cup {Raw, MovedFrom}]
    BY <1>1, <1>5, <1>6 DEF TypeOK
  <2>3. ok' \in BOOLEAN
    BY <1>2 DEF TypeOK
  <2>4. Items' = Items
    BY <1>3 DEF Items
  <2>5. /\ n' \in 0..MaxN /\ middle' \in 0..n' /\ inplace' \in BOOLEAN
        /\ input' \in [Slots' -> Items'] /\ pc' \in {"begin", "merge", "done"}
        /\ tasks' \subseteq [xs : 0..n', xe : 0..n', ys : 0..n', ye : 0..n']
    BY <1>2, <1>3, <2>4 DEF TypeOK
  <2>6. \A u \in tasks' : IsTask(u)'
    BY <1>2, <1>3 DEF TypeOK
  <2> QED BY <1>3, <2>1, <2>2, <2>3, <2>4, <2>5, <2>6 DEF TypeOK
<1>8. InputSorted'
  BY <1>2, <1>3 DEF InputSorted
<1>9. pc = "merge"
  BY DEF Phases, TypeOK
<1>10. Phases' /\ MergedStably' /\ LifetimesKept'
  BY <1>2, <1>4, <1>9, InputElements DEF Phases, MergedStably, LifetimesKept
<1>11. NoSharedSlot'
  BY <1>2 DEF NoSharedSlot, Precedes
<1>12. ASSUME NEW u \in tasks', NEW s \in InputSlots(u)
       PROVE  u \in tasks /\ u # t /\ s \in Slots /\ s \notin InputSlots(t) /\ x'[s] = x[s] /\ x[s] = input[s]
  <2>1. u \in tasks /\ u # t
    BY <1>2
  <2>2. s \notin InputSlots(t)
    BY <2>1, PrecedesDisjoint DEF NoSharedSlot
  <2>3. s \in Slots /\ x[s] = input[s]
    BY <2>1, TaskSlots DEF TasksUntouched
  <2> QED BY <1>2, <2>1, <2>2, <2>3
<1>13. ASSUME NEW u \in tasks', NEW i \in OutputSlots(u)
       PROVE  i \in Slots /\ i \notin OutputSlots(t)
  <2>1. u \in tasks /\ u # t
    BY <1>2
  <2>2. Precedes(t, u) \/ Precedes(u, t)
    BY <2>1 DEF NoSharedSlot
  <2>3. i \notin OutputSlots(t)
    BY <2>1, <2>2, PrecedesDisjoint
  <2> QED BY <2>1, <2>3, TaskSlots
<1>14. TasksUntouched'
  BY <1>2, <1>3, <1>6, <1>12, <1>13 DEF TasksUntouched
<1>15. CutsAreFinal'
  <2> SUFFICES ASSUME NEW u \in tasks', NEW s \in InputSlots(u)
               PROVE  /\ \A w \in tasks' : u # w /\ Precedes(u, w) => \A v \in InputSlots(w) : Before(x'[s], x'[v])
                      /\ \A i \in Slots : z'[i] # Raw =>
                           /\ i < OutBegin(u) => Before(z'[i], x'[s])
                           /\ i >= OutBegin(u) => Before(x'[s], z'[i])
    BY <1>3 DEF CutsAreFinal, Precedes
  <2>1. u \in tasks /\ u # t /\ x'[s] = x[s]
    BY <1>12
  <2>2. ASSUME NEW w \in tasks', u # w, Precedes(u, w), NEW v \in InputSlots(w)
        PROVE  Before(x'[s], x'[v])
    BY <2>1, <2>2, <1>12 DEF CutsAreFinal
  <2>3. ASSUME NEW i \in Slots, z'[i] # Raw
        PROVE  /\ i < OutBegin(u) => Before(z'[i], x'[s])
               /\ i >= OutBegin(u) => Before(x'[s], z'[i])
    <3>1. CASE i \notin OutputSlots(t)
      BY <2>1, <2>3, <3>1, <1>6 DEF CutsAreFinal
    <3>2. CASE i \in OutputSlots(t) /\ Precedes(t, u)
      <4>1. i < OutBegin(u) /\ OutBegin(u) \in Int /\ i \in Int
        BY <2>1, <3>2, PrecedesDisjoint, TaskSlots DEF OutBegin, OutputSlots, Span
      <4>2. z'[i] = x[out[i]] /\ out[i] \in InputSlots(t)
        BY <3>2, <1>1, <1>5
      <4>3. Before(x[out[i]], x[s])
        BY <2>1, <3>2, <4>2 DEF CutsAreFinal
      <4> QED BY <4>1, <4>2, <4>3, <2>1
    <3>3. CASE i \in OutputSlots(t) /\ Precedes(u, t)
      <4>1. i >= OutBegin(u) /\ OutBegin(u) \in Int /\ i \in Int
        BY <2>1, <3>3, PrecedesDisjoint, TaskSlots DEF OutBegin, OutputSlots, Span
      <4>2. z'[i] = x[out[i]] /\ out[i] \in InputSlots(t)
        BY <3>3, <1>1, <1>5
      <4>3. Before(x[s], x[out[i]])
        BY <2>1, <3>3, <4>2 DEF CutsAreFinal
      <4> QED BY <4>1, <4>2, <4>3, <2>1
    <3>4. Precedes(t, u) \/ Precedes(u, t)
      BY <2>1 DEF NoSharedSlot
    <3> QED BY <3>1, <3>2, <3>3, <3>4
  <2> QED BY <2>2, <2>3
<1>16. WrittenInOrder'
  <2>1. ASSUME NEW i \in Slots, z'[i] # Raw
        PROVE  \E s \in Slots : z'[i] = input[s]
    BY <2>1, <1>5, <1>6 DEF WrittenInOrder
  <2>2. ASSUME NEW i \in Slots, NEW j \in Slots, i < j, z'[i] # Raw, z'[j] # Raw
        PROVE  Before(z'[i], z'[j])
    <3>1. CASE i \in OutputSlots(t) /\ j \in OutputSlots(t)
      <4>1. \/ Less(x[out[i]], x[out[j]])
            \/ ~Less(x[out[j]], x[out[i]]) /\ out[i] < out[j]
        BY <1>1, <2>2, <3>1 DEF Merges
      <4>2. \/ Less(input[out[i]], input[out[j]])
            \/ ~Less(input[out[j]], input[out[i]]) /\ out[i] < out[j]
        BY <4>1, <3>1, <1>4, <1>5
      <4>3. Before(input[out[i]], input[out[j]])
        BY <4>2, <3>1, <1>5, InputElements DEF Less
      <4> QED BY <4>3, <3>1, <1>5
    <3>2. CASE i \in OutputSlots(t) /\ j \notin OutputSlots(t)
      <4>1. z'[j] = z[j] /\ z'[i] = x[out[i]] /\ out[i] \in InputSlots(t)
        BY <3>2, <1>1, <1>5, <1>6
      <4>2. j >= OutBegin(t)
        BY <2>2, <3>2, TaskSlots DEF OutputSlots, Span, OutBegin, Size, SizeX, SizeY, Slots
      <4> QED BY <4>1, <4>2, <2>2 DEF CutsAreFinal
    <3>3. CASE i \notin OutputSlots(t) /\ j \in OutputSlots(t)
      <4>1. z'[i] = z[i] /\ z'[j] = x[out[j]] /\ out[j] \in InputSlots(t)
        BY <3>3, <1>1, <1>5, <1>6
      <4>2. i < OutBegin(t)
        BY <2>2, <3>3, TaskSlots DEF OutputSlots, Span, OutBegin, Size, SizeX, SizeY, Slots
      <4> QED BY <4>1, <4>2, <2>2 DEF CutsAreFinal
    <3>4. CASE i \notin OutputSlots(t) /\ j \notin OutputSlots(t)
      BY <2>2, <3>4, <1>6 DEF WrittenInOrder
    <3> QED BY <3>1, <3>2, <3>3, <3>4
  <2> QED BY <2>1, <2>2, <1>2, <1>3 DEF WrittenInOrder
<1>17. AllCovered'
  <2> SUFFICES ASSUME NEW i \in Slots, z'[i] = Raw
               PROVE  \E u \in tasks' : i \in OutputSlots(u)
    BY <1>3 DEF AllCovered
  <2>1. i \notin OutputSlots(t)
    BY <1>5, InputElements
  <2>2. PICK u \in tasks : i \in OutputSlots(u)
    BY <2>1, <1>6, <1>9 DEF AllCovered
  <2> QED BY <2>1, <2>2, <1>2
<1> QED BY <1>7, <1>8, <1>10, <1>11, <1>14, <1>15, <1>16, <1>17

-------------------------------------------------------------------------------
(* What goes before a cut belongs before what goes after it.                   *)
LEMMA CutIsFinal ==
  ASSUME IInv, NEW t \in tasks, Size(t) > CutOff, NEW c \in Cuts(t)
  PROVE  /\ c[1] \in t.xs..t.xe
         /\ c[2] \in t.ys..t.ye
         /\ \A s \in Span(t.xs, c[1]) \cup Span(t.ys, c[2]) :
              \A v \in Span(c[1], t.xe) \cup Span(c[2], t.ye) : Before(input[s], input[v])
<1> USE DEF IInv
<1>1. /\ t.xs \in Nat /\ t.xe \in Nat /\ t.ys \in Nat /\ t.ye \in Nat /\ middle \in Nat /\ n \in Nat
      /\ t.xs <= t.xe /\ t.xe <= middle /\ middle <= t.ys /\ t.ys <= t.ye /\ t.ye <= n
  BY TaskSlots
<1>2. SizeX(t) + SizeY(t) > 2
  BY <1>1, ConstantsAssumption DEF Size, SizeX, SizeY
<1>3. ASSUME NEW s \in Slots, NEW v \in Slots
      PROVE  /\ s < v /\ (v < middle \/ middle <= s) => Before(input[s], input[v])
             /\ input[s][1] < input[v][1] => Before(input[s], input[v])
             /\ s < middle /\ middle <= v /\ input[s][1] <= input[v][1] => Before(input[s], input[v])
  BY <1>1, InputElements DEF InputSorted, Slots, Span
<1>4. \A s \in InputSlots(t) : s \in Slots /\ x[s] = input[s] /\ x[s][1] \in Nat
  BY TaskSlots, InputElements DEF TasksUntouched
<1>5. \A s \in Slots, v \in Slots :
        s <= v /\ (v < middle \/ middle <= s) => input[s][1] <= input[v][1]
  BY InputElements DEF InputSorted, Slots, Span
<1>6. CASE HalvesY(t)
  <2>1. PICK ym, xm : c = <<xm, ym>> /\ ym = t.ys + SizeY(t) \div 2 /\ xm \in UpperBounds(t.xs, t.xe, x[ym])
    BY <1>6 DEF Cuts
  <2>2. ym \in Span(t.ys, t.ye)
    <3>1. SizeY(t) \in Nat \ {0} /\ t.ye = t.ys + SizeY(t)
      BY <1>1, <1>6 DEF HalvesY, SizeX, SizeY
    <3>2. SizeY(t) \div 2 \in 0..(SizeY(t) - 1)
      BY <3>1
    <3> QED BY <1>1, <2>1, <3>1, <3>2 DEF Span
  <2>3. xm \in t.xs..t.xe /\ \A j \in Span(t.xs, t.xe) : (j < xm) <=> ~Less(x[ym], x[j])
    BY <2>1 DEF UpperBounds
  <2>4. ym \in Slots /\ x[ym] = input[ym] /\ ym \in InputSlots(t)
    BY <2>2, <1>4 DEF InputSlots
  <2>5. ASSUME NEW s \in Span(t.xs, xm) PROVE s \in Slots /\ s < middle /\ input[s][1] <= input[ym][1]
    <3>1. s \in Span(t.xs, t.xe) /\ s < xm /\ s < middle
      BY <1>1, <2>3 DEF Span
    <3>2. s \in InputSlots(t)
      BY <3>1 DEF InputSlots
    <3> QED BY <1>4, <2>3, <2>4, <3>1, <3>2 DEF Less
  <2>6. ASSUME NEW v \in Span(xm, t.xe) PROVE v \in Slots /\ v < middle /\ input[ym][1] < input[v][1]
    <3>1. v \in Span(t.xs, t.xe) /\ ~(v < xm) /\ v < middle
      BY <1>1, <2>3 DEF Span
    <3>2. v \in InputSlots(t)
      BY <3>1 DEF InputSlots
    <3> QED BY <1>4, <2>3, <2>4, <3>1, <3>2 DEF Less
  <2>7. ASSUME NEW s \in Span(t.ys, ym) PROVE s \in Slots /\ middle <= s /\ s < ym /\ input[s][1] <= input[ym][1]
    <3>1. s \in Slots /\ middle <= s /\ s < ym
      BY <1>1, <2>2 DEF Span, Slots
    <3> QED BY <1>5, <2>4, <3>1 DEF Slots, Span
  <2>8. ASSUME NEW v \in Span(ym, t.ye) PROVE v \in Slots /\ middle <= v /\ ym <= v /\ input[ym][1] <= input[v][1]
    <3>1. v \in Slots /\ middle <= v /\ ym <= v /\ middle <= ym
      BY <1>1, <2>2 DEF Span, Slots
    <3> QED BY <1>5, <2>4, <3>1 DEF Slots, Span
  <2>9. \A s \in Slots : input[s][1] \in Nat
    BY InputElements
  <2>10. ASSUME NEW s \in Span(t.xs, xm) PROVE \A v \in Span(xm, t.xe) \cup Span(ym, t.ye) : Before(input[s], input[v])
    <3>1. \A v \in Span(xm, t.xe) : Before(input[s], input[v])
      BY <1>3, <2>4, <2>5, <2>6, <2>9
    <3>2. \A v \in Span(ym, t.ye) : Before(input[s], input[v])
      BY <1>3, <2>4, <2>5, <2>8, <2>9
    <3> QED BY <3>1, <3>2
  <2>11. ASSUME NEW s \in Span(t.ys, ym) PROVE \A v \in Span(xm, t.xe) \cup Span(ym, t.ye) : Before(input[s], input[v])
    <3>1. \A v \in Span(xm, t.xe) : Before(input[s], input[v])
      BY <1>3, <2>4, <2>7, <2>6, <2>9
    <3>2. \A v \in Span(ym, t.ye) : Before(input[s], input[v])
      BY <1>3, <2>4, <2>7, <2>8 DEF Slots, Span
    <3> QED BY <3>1, <3>2
  <2>12. c[1] = xm /\ c[2] = ym /\ ym \in t.ys..t.ye
    BY <1>1, <2>1, <2>2 DEF Span
  <2> QED BY <2>3, <2>10, <2>11, <2>12
<1>7. CASE ~HalvesY(t)
  <2>1. PICK xm, ym : c = <<xm, ym>> /\ xm = t.xs + SizeX(t) \div 2 /\ ym \in LowerBounds(t.ys, t.ye, x[xm])
    BY <1>7 DEF Cuts
  <2>2. xm \in Span(t.xs, t.xe)
    BY <1>1, <1>2, <1>7, <2>1 DEF HalvesY, SizeX, SizeY, Span
  <2>3. ym \in t.ys..t.ye /\ \A j \in Span(t.ys, t.ye) : (j < ym) <=> Less(x[j], x[xm])
    BY <2>1 DEF LowerBounds
  <2>4. xm \in Slots /\ x[xm] = input[xm] /\ xm \in InputSlots(t)
    BY <2>2, <1>4 DEF InputSlots
  <2>5. ASSUME NEW s \in Span(t.ys, ym) PROVE s \in Slots /\ middle <= s /\ input[s][1] < input[xm][1]
    <3>1. s \in Span(t.ys, t.ye) /\ s < ym /\ middle <= s
      BY <1>1, <2>3 DEF Span
    <3>2. s \in InputSlots(t)
      BY <3>1 DEF InputSlots
    <3> QED BY <1>4, <2>3, <2>4, <3>1, <3>2 DEF Less
  <2>6. ASSUME NEW v \in Span(ym, t.ye) PROVE v \in Slots /\ middle <= v /\ input[xm][1] <= input[v][1]
    <3>1. v \in Span(t.ys, t.ye) /\ ~(v < ym) /\ middle <= v
      BY <1>1, <2>3 DEF Span
    <3>2. v \in InputSlots(t)
      BY <3>1 DEF InputSlots
    <3> QED BY <1>4, <2>3, <2>4, <3>1, <3>2 DEF Less
  <2>7. ASSUME NEW s \in Span(t.xs, xm) PROVE s \in Slots /\ s < middle /\ s < xm /\ input[s][1] <= input[xm][1]
    <3>1. s \in Slots /\ xm < middle /\ s < middle /\ s < xm
      BY <1>1, <2>2 DEF Span, Slots
    <3> QED BY <1>5, <2>4, <3>1 DEF Slots, Span
  <2>8. ASSUME NEW v \in Span(xm, t.xe) PROVE v \in Slots /\ v < middle /\ xm <= v /\ input[xm][1] <= input[v][1]
    <3>1. v \in Slots /\ v < middle /\ xm <= v
      BY <1>1, <2>2 DEF Span, Slots
    <3> QED BY <1>5, <2>4, <3>1 DEF Slots, Span
  <2>9. \A s \in Slots : input[s][1] \in Nat
    BY InputElements
  <2>10. ASSUME NEW s \in Span(t.xs, xm) PROVE \A v \in Span(xm, t.xe) \cup Span(ym, t.ye) : Before(input[s], input[v])
    <3>1. \A v \in Span(xm, t.xe) : Before(input[s], input[v])
      BY <1>3, <2>4, <2>7, <2>8 DEF Slots, Span
    <3>2. \A v \in Span(ym, t.ye) : Before(input[s], input[v])
      BY <1>3, <2>4, <2>7, <2>6, <2>9
    <3> QED BY <3>1, <3>2
  <2>11. ASSUME NEW s \in Span(t.ys, ym) PROVE \A v \in Span(xm, t.xe) \cup Span(ym, t.ye) : Before(input[s], input[v])
    <3>1. \A v \in Span(xm, t.xe) : Before(input[s], input[v])
      BY <1>3, <2>4, <2>5, <2>8, <2>9
    <3>2. ASSUME NEW v \in Span(ym, t.ye) PROVE s < v
      BY <1>1, <2>3 DEF Span
    <3>3. \A v \in Span(ym, t.ye) : Before(input[s], input[v])
      BY <1>3, <2>5, <2>6, <3>2
    <3> QED BY <3>1, <3>3
  <2>12. c[1] = xm /\ c[2] = ym /\ xm \in t.xs..t.xe
    BY <1>1, <2>1, <2>2 DEF Span
  <2> QED BY <2>3, <2>10, <2>11, <2>12
<1> QED BY <1>6, <1>7

-------------------------------------------------------------------------------
(* The two pieces of a task: its slots are divided among them.                 *)
LEMMA SplitIInv ==
  ASSUME IInv, NEW t \in tasks, Split(t)
  PROVE  IInv'
<1> USE DEF IInv
<1>1. PICK c \in Cuts(t) :
        tasks' = (tasks \ {t}) \cup {[t EXCEPT !.xe = c[1], !.ye = c[2]],
                                     [t EXCEPT !.xs = c[1], !.ys = c[2]]}
  BY DEF Split
<1>2. PICK a, b : a = [t EXCEPT !.xe = c[1], !.ye = c[2]] /\ b = [t EXCEPT !.xs = c[1], !.ys = c[2]]
  OBVIOUS
<1>3. /\ UNCHANGED <<n, middle, inplace, input, x, z, ok, pc>>
      /\ Size(t) > CutOff
      /\ tasks' = (tasks \ {t}) \cup {a, b}
  BY <1>1, <1>2 DEF Split, args
<1>4. /\ Slots' = Slots
      /\ \A u : /\ InputSlots(u)' = InputSlots(u) /\ OutputSlots(u)' = OutputSlots(u)
                /\ OutBegin(u)' = OutBegin(u) /\ IsTask(u)' = IsTask(u)
  BY <1>3 DEF Slots, Span, InputSlots, OutputSlots, OutBegin, Size, SizeX, SizeY, IsTask
<1>5. /\ t.xs \in Nat /\ t.xe \in Nat /\ t.ys \in Nat /\ t.ye \in Nat /\ middle \in Nat /\ n \in Nat
      /\ t.xs <= t.xe /\ t.xe <= middle /\ middle <= t.ys /\ t.ys <= t.ye /\ t.ye <= n
      /\ t = [xs |-> t.xs, xe |-> t.xe, ys |-> t.ys, ye |-> t.ye]
  BY TaskSlots
<1>6. /\ c[1] \in t.xs..t.xe
      /\ c[2] \in t.ys..t.ye
      /\ \A s \in Span(t.xs, c[1]) \cup Span(t.ys, c[2]) :
           \A v \in Span(c[1], t.xe) \cup Span(c[2], t.ye) : Before(input[s], input[v])
  BY <1>3, CutIsFinal
<1>7. /\ a = [xs |-> t.xs, xe |-> c[1], ys |-> t.ys, ye |-> c[2]]
      /\ b = [xs |-> c[1], xe |-> t.xe, ys |-> c[2], ye |-> t.ye]
  BY <1>2, <1>5
<1>8. /\ a.xs = t.xs /\ a.xe = c[1] /\ a.ys = t.ys /\ a.ye = c[2]
      /\ b.xs = c[1] /\ b.xe = t.xe /\ b.ys = c[2] /\ b.ye = t.ye
      /\ c[1] \in Nat /\ c[2] \in Nat
      /\ t.xs <= c[1] /\ c[1] <= t.xe /\ t.ys <= c[2] /\ c[2] <= t.ye
  BY <1>5, <1>6, <1>7
<1>9. t.xs < t.xe \/ t.ys < t.ye
  BY <1>3, <1>5, ConstantsAssumption DEF Size, SizeX, SizeY
<1>10. /\ InputSlots(a) \subseteq InputSlots(t) /\ InputSlots(b) \subseteq InputSlots(t)
       /\ \A s \in InputSlots(a) : \A v \in InputSlots(b) : Before(input[s], input[v])
  BY <1>5, <1>6, <1>8 DEF InputSlots, Span
<1>11. /\ OutputSlots(a) \cup OutputSlots(b) = OutputSlots(t)
       /\ OutBegin(a) = OutBegin(t)
       /\ \A i \in Slots : /\ i < OutBegin(b) => i < OutBegin(t) \/ i \in OutputSlots(t)
                           /\ i >= OutBegin(b) => i >= OutBegin(t)
  BY <1>5, <1>8 DEF OutputSlots, Span, OutBegin, Size, SizeX, SizeY, Slots
<1>12. TypeOK'
  <2>1. a \in [xs : 0..n, xe : 0..n, ys : 0..n, ye : 0..n] /\ b \in [xs : 0..n, xe : 0..n, ys : 0..n, ye : 0..n]
    BY <1>5, <1>7, <1>8
  <2>2. IsTask(a) /\ IsTask(b)
    BY <1>5, <1>8 DEF IsTask
  <2>3. tasks' \subseteq [xs : 0..n', xe : 0..n', ys : 0..n', ye : 0..n']
    BY <1>3, <2>1 DEF TypeOK
  <2>4. \A u \in tasks' : IsTask(u)'
    BY <1>3, <1>4, <2>2 DEF TypeOK
  <2> QED BY <1>3, <1>4, <2>3, <2>4 DEF TypeOK, Items
<1>13. pc = "merge"
  BY DEF Phases, TypeOK
<1>14. InputSorted' /\ Phases' /\ WrittenInOrder' /\ MergedStably' /\ LifetimesKept'
  BY <1>3, <1>4, <1>13 DEF InputSorted, Phases, WrittenInOrder, MergedStably, LifetimesKept
<1>15. TasksUntouched'
  BY <1>3, <1>4, <1>10, <1>11 DEF TasksUntouched
<1>16. AllCovered'
  BY <1>3, <1>4, <1>11 DEF AllCovered
<1>17. ASSUME NEW u \in tasks, u # t
       PROVE  /\ Precedes(t, u) => Precedes(a, u) /\ Precedes(b, u)
              /\ Precedes(u, t) => Precedes(u, a) /\ Precedes(u, b)
              /\ Precedes(a, u) => Precedes(t, u) \/ InputSlots(u) = {}
              /\ Precedes(b, u) => Precedes(t, u)
              /\ Precedes(u, a) => Precedes(u, t)
              /\ Precedes(u, b) => Precedes(u, t) \/ InputSlots(u) = {}
  <2>1. u.xs \in Nat /\ u.xe \in Nat /\ u.ys \in Nat /\ u.ye \in Nat /\ u.xs <= u.xe /\ u.ys <= u.ye
    BY TaskSlots
  <2>2. Precedes(t, u) \/ Precedes(u, t)
    BY <1>17 DEF NoSharedSlot
  <2>3. /\ Precedes(t, u) => Precedes(a, u) /\ Precedes(b, u)
        /\ Precedes(u, t) => Precedes(u, a) /\ Precedes(u, b)
        /\ Precedes(b, u) => Precedes(t, u)
        /\ Precedes(u, a) => Precedes(u, t)
    BY <1>5, <1>8, <2>1 DEF Precedes
  <2>4. Precedes(a, u) => Precedes(t, u) \/ InputSlots(u) = {}
    BY <1>5, <1>8, <2>1, <2>2 DEF Precedes, InputSlots, Span
  <2>5. Precedes(u, b) => Precedes(u, t) \/ InputSlots(u) = {}
    BY <1>5, <1>8, <2>1, <2>2 DEF Precedes, InputSlots, Span
  <2> QED BY <2>3, <2>4, <2>5
<1>18. Precedes(a, b) /\ ~Precedes(b, a)
  BY <1>5, <1>8, <1>9 DEF Precedes
<1>19. NoSharedSlot'
  <2> SUFFICES ASSUME NEW u \in tasks', NEW w \in tasks', u # w
               PROVE  Precedes(u, w) \/ Precedes(w, u)
    BY DEF NoSharedSlot, Precedes
  <2>1. CASE u \in tasks \ {t} /\ w \in tasks \ {t}
    BY <2>1 DEF NoSharedSlot
  <2>2. CASE u \in tasks \ {t} /\ w \in {a, b}
    BY <2>2, <1>17 DEF NoSharedSlot
  <2>3. CASE u \in {a, b} /\ w \in tasks \ {t}
    BY <2>3, <1>17 DEF NoSharedSlot
  <2>4. CASE u \in {a, b} /\ w \in {a, b}
    BY <2>4, <1>18
  <2> QED BY <1>3, <2>1, <2>2, <2>3, <2>4
<1>20. CutsAreFinal'
  <2> SUFFICES ASSUME NEW u \in tasks', NEW s \in InputSlots(u)
               PROVE  /\ \A w \in tasks' : u # w /\ Precedes(u, w) => \A v \in InputSlots(w) : Before(x[s], x[v])
                      /\ \A i \in Slots : z[i] # Raw =>
                           /\ i < OutBegin(u) => Before(z[i], x[s])
                           /\ i >= OutBegin(u) => Before(x[s], z[i])
    BY <1>3, <1>4 DEF CutsAreFinal, Precedes
  <2>1. ASSUME NEW w \in tasks', u # w, Precedes(u, w), NEW v \in InputSlots(w)
        PROVE  Before(x[s], x[v])
    <3>1. CASE u \in tasks \ {t} /\ w \in tasks \ {t}
      BY <2>1, <3>1 DEF CutsAreFinal
    <3>2. CASE u \in tasks \ {t} /\ w \in {a, b}
      BY <2>1, <3>2, <1>10, <1>17 DEF CutsAreFinal
    <3>3. CASE u \in {a, b} /\ w \in tasks \ {t}
      BY <2>1, <3>3, <1>10, <1>17 DEF CutsAreFinal
    <3>4. CASE u \in {a, b} /\ w \in {a, b}
      <4>1. u = a /\ w = b
        BY <2>1, <3>4, <1>18
      <4>2. x[s] = input[s] /\ x[v] = input[v]
        BY <4>1, <1>10 DEF TasksUntouched
      <4> QED BY <4>1, <4>2, <1>10
    <3> QED BY <1>3, <3>1, <3>2, <3>3, <3>4
  <2>2. ASSUME NEW i \in Slots, z[i] # Raw
        PROVE  /\ i < OutBegin(u) => Before(z[i], x[s])
               /\ i >= OutBegin(u) => Before(x[s], z[i])
    <3>1. CASE u \in tasks \ {t}
      BY <2>2, <3>1 DEF CutsAreFinal
    <3>2. CASE u = a
      BY <2>2, <3>2, <1>10, <1>11 DEF CutsAreFinal
    <3>3. CASE u = b
      <4>1. i \notin OutputSlots(t)
        BY <2>2 DEF TasksUntouched
      <4> QED BY <2>2, <3>3, <4>1, <1>10, <1>11 DEF CutsAreFinal
    <3> QED BY <1>3, <3>1, <3>2, <3>3
  <2> QED BY <2>1, <2>2
<1> QED BY <1>12, <1>14, <1>15, <1>16, <1>19, <1>20

-------------------------------------------------------------------------------
(* When no task is left everything has been written, in order.                 *)
LEMMA AllWritten ==
  ASSUME IInv, pc = "merge", tasks = {}
  PROVE  /\ \A i \in Slots : z[i] # Raw /\ IsItem(z[i]) /\ \E s \in Slots : z[i] = input[s]
         /\ \A i \in Slots, j \in Slots : i < j => Before(z[i], z[j])
<1> USE DEF IInv
<1>1. \A i \in Slots : z[i] # Raw
  BY DEF AllCovered
<1>2. \A i \in Slots : \E s \in Slots : z[i] = input[s]
  BY <1>1 DEF WrittenInOrder
<1>3. \A i \in Slots, j \in Slots : i < j => Before(z[i], z[j])
  BY <1>1 DEF WrittenInOrder
<1> QED BY <1>1, <1>2, <1>3, InputElements

LEMMA ReturnIInv == IInv /\ (ReturnCopied \/ MoveBack) => IInv'
<1> SUFFICES ASSUME IInv, ReturnCopied \/ MoveBack PROVE IInv'
  OBVIOUS
<1> USE DEF IInv
<1>1. /\ UNCHANGED <<n, middle, inplace, input, tasks>>
      /\ pc = "merge" /\ pc' = "done" /\ tasks = {}
  BY DEF ReturnCopied, MoveBack, args
<1>2. Slots' = Slots /\ Items' = Items
  BY <1>1 DEF Slots, Span, Items
<1>3. /\ \A i \in Slots : z[i] # Raw /\ IsItem(z[i]) /\ \E s \in Slots : z[i] = input[s]
      /\ \A i \in Slots, j \in Slots : i < j => Before(z[i], z[j])
  BY <1>1, AllWritten
<1>4. InputSorted' /\ Phases' /\ TasksUntouched' /\ NoSharedSlot' /\ CutsAreFinal' /\ AllCovered'
  BY <1>1, <1>2 DEF InputSorted, Phases, TasksUntouched, NoSharedSlot, CutsAreFinal, AllCovered
<1>5. CASE ReturnCopied
  <2>1. UNCHANGED <<x, z, ok>> /\ ~inplace
    BY <1>5 DEF ReturnCopied
  <2>2. TypeOK' /\ WrittenInOrder'
    BY <1>1, <1>2, <2>1 DEF TypeOK, IsTask, WrittenInOrder
  <2>3. MergedStably' /\ LifetimesKept'
    BY <1>1, <1>2, <1>3, <2>1 DEF MergedStably, Output, LifetimesKept
  <2> QED BY <1>4, <2>2, <2>3
<1>6. CASE MoveBack
  <2>1. /\ inplace /\ x' = z /\ z' = [i \in Slots |-> Raw]
        /\ ok' = (ok /\ \A i \in Slots : IsItem(z[i]))
    BY <1>6 DEF MoveBack
  <2>2. x' \in [Slots -> Items \cup {MovedFrom}]
    <3>1. \A i \in Slots : z[i] \in Items
      BY <1>3 DEF TypeOK
    <3> QED BY <2>1, <3>1 DEF TypeOK
  <2>3. TypeOK'
    BY <1>1, <1>2, <2>1, <2>2 DEF TypeOK, IsTask
  <2>4. WrittenInOrder'
    BY <1>2, <2>1 DEF WrittenInOrder
  <2>5. MergedStably' /\ LifetimesKept'
    BY <1>1, <1>2, <1>3, <2>1 DEF MergedStably, Output, LifetimesKept
  <2> QED BY <1>4, <2>3, <2>4, <2>5
<1> QED BY <1>5, <1>6

LEMMA NextIInv == IInv /\ [Next]_vars => IInv'
<1> SUFFICES ASSUME IInv, [Next]_vars PROVE IInv'
  OBVIOUS
<1>1. CASE Nothing
  BY <1>1, NothingIInv
<1>2. CASE Begin
  BY <1>2, BeginIInv
<1>3. CASE ReturnCopied \/ MoveBack
  BY <1>3, ReturnIInv
<1>4. ASSUME NEW t \in tasks, Leaf(t)
      PROVE  IInv'
  BY <1>4, LeafIInv
<1>5. ASSUME NEW t \in tasks, Split(t)
      PROVE  IInv'
  BY <1>5, SplitIInv
<1>6. CASE UNCHANGED vars
  BY <1>6 DEF vars, args, IInv, TypeOK, InputSorted, Phases, TasksUntouched, NoSharedSlot, CutsAreFinal,
              WrittenInOrder, AllCovered, MergedStably, LifetimesKept, Output, Precedes, Slots, Span, Items, IsTask,
              InputSlots, OutputSlots, OutBegin, Size, SizeX, SizeY
<1> QED BY <1>1, <1>2, <1>3, <1>4, <1>5, <1>6 DEF Next

-------------------------------------------------------------------------------
(* The invariant of __parallel_merge: IInv holds in every reachable state.     *)
THEOREM Invariance == Spec => []IInv
BY InitIInv, NextIInv, PTL DEF Spec

\* The variables of __parallel_merge stay in their sets.
THEOREM TypeCorrect == Spec => []TypeOK
<1>1. IInv => TypeOK
  BY DEF IInv
<1> QED BY <1>1, Invariance, PTL

\* merge and inplace_merge return the stable merge of their input, whatever the
\* order of the tasks (__merge_func_static, __parallel_merge_body).
THEOREM ReturnsStableMerge == Spec => []MergedStably
<1>1. IInv => MergedStably
  BY DEF IInv
<1> QED BY <1>1, Invariance, PTL

\* No slot is written twice or read after a move, and the buffer of inplace_merge
\* is raw when it is freed (__pattern_inplace_merge).
THEOREM SlotsAreUsedOnce == Spec => []LifetimesKept
<1>1. IInv => LifetimesKept
  BY DEF IInv
<1> QED BY <1>1, Invariance, PTL

\* Tasks that run at the same time share no slot (__merge_func_static).
THEOREM TasksAreDisjoint == Spec => []NoSharedSlot
<1>1. IInv => NoSharedSlot
  BY DEF IInv
<1> QED BY <1>1, Invariance, PTL

\* Every cut is final when it is taken (upper_bound, lower_bound).
THEOREM CutsStayFinal == Spec => []CutsAreFinal
<1>1. IInv => CutsAreFinal
  BY DEF IInv
<1> QED BY <1>1, Invariance, PTL
===============================================================================
