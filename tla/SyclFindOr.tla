------------------------------ MODULE SyclFindOr ------------------------------
(* __parallel_find_or of the device backend: one kernel for find first, find    *)
(* last and or. The work-items of a group meet in an atomic of the group's      *)
(* local memory, and item 0 of each group folds it into one global atomic.      *)
EXTENDS Integers, FiniteSets, FiniteSetsExt

CONSTANTS MaxLen,          \* bound on the length of the range
          MaxMatches,      \* bound on the number of matches
          WgSize,          \* __wgroup_size
          MaxUnits,        \* bound on the compute units of the device, __mcu
          Shift            \* the width of a "line", 16 in the code

ASSUME DeviceAssumption == {MaxLen, MaxMatches, WgSize, MaxUnits, Shift} \subseteq Nat \ {0}

VARIABLES len,             \* __rng_n
          tag,             \* _BrickTag: "first", "last" or "or"
          accept,          \* the indices the brick accepts
          groups,          \* __n_groups
          stage,           \* stage[g]: what group g is at
          todo,            \* todo[<<g, l>>]: the matches the item has still to offer
          read,            \* read[<<g, l>>]: __old before a compare-and-swap, or Nothing
          foundLocal,      \* foundLocal[g]: the group's atomic
          foundGlobal,     \* the atomic in the temporary buffer
          found            \* what the call returned, Nothing before that

call == <<len, tag, accept, groups>>
findVars == <<call, stage, todo, read, foundLocal, foundGlobal, found>>

Nothing == -2              \* also what local memory holds before it is written

InitValue == CASE tag = "first" -> len [] tag = "last" -> -1 [] tag = "or" -> 0

\* _BrickTag::_Compare
Wins(a, b) ==
  CASE tag = "first" -> a < b
    [] tag = "last"  -> a > b
    [] tag = "or"    -> a = 1 /\ b = 0

GroupCount(m, units) == Min({(m - 1) \div WgSize + 1, units})

\* The indices item l of group g examines: steps of one line, which is shorter
\* at the end of the group.
Examined(m, count, g, l) ==
  LET iters  == (m - 1) \div (count * WgSize) + 1
      leader == (l \div Shift) * Shift
      start  == g * WgSize * iters + leader * iters + (l % Shift)
      width  == Min({Shift, WgSize - leader})
  IN  {k \in {start + i * width : i \in 0..(iters - 1)} : k < m}

Items(count) == (0..(count - 1)) \X (0..(WgSize - 1))

FindInit ==
  /\ len \in 1..MaxLen
  /\ tag \in {"first", "last", "or"}
  /\ accept \in {M \in SUBSET (0..(len - 1)) : Cardinality(M) <= MaxMatches}
  /\ \E units \in 1..MaxUnits : groups = GroupCount(len, units)
  /\ stage = [g \in 0..(groups - 1) |-> "init"]
  /\ todo = [i \in Items(groups) |-> accept \cap Examined(len, groups, i[1], i[2])]
  /\ read = [i \in Items(groups) |-> Nothing]
  /\ foundLocal = [g \in 0..(groups - 1) |-> Nothing]
  /\ foundGlobal = InitValue
  /\ found = Nothing

\* Item 0 stores the initial value; the barrier lets the group go on.
SetLocal(g) ==
  /\ stage[g] = "init"
  /\ foundLocal' = [foundLocal EXCEPT ![g] = InitValue]
  /\ stage' = [stage EXCEPT ![g] = "search"]
  /\ UNCHANGED <<call, todo, read, foundGlobal, found>>

\* A backward search runs the iterations from the last one down.
NextIndex(i) == IF tag = "last" THEN Max(todo[i]) ELSE Min(todo[i])

\* Or-semantics: __found_local.store(1).
StoreLocal(i) ==
  /\ tag = "or" /\ stage[i[1]] = "search" /\ todo[i] # {}
  /\ foundLocal' = [foundLocal EXCEPT ![i[1]] = 1]
  /\ todo' = [todo EXCEPT ![i] = @ \ {NextIndex(i)}]
  /\ UNCHANGED <<call, stage, read, foundGlobal, found>>

\* __old = __found_local.load(), and the loop's condition.
LoadLocal(i) ==
  /\ tag # "or" /\ stage[i[1]] = "search" /\ todo[i] # {} /\ read[i] = Nothing
  /\ IF Wins(NextIndex(i), foundLocal[i[1]])
       THEN /\ read' = [read EXCEPT ![i] = foundLocal[i[1]]]
            /\ UNCHANGED todo
       ELSE /\ todo' = [todo EXCEPT ![i] = @ \ {NextIndex(i)}]
            /\ UNCHANGED read
  /\ UNCHANGED <<call, stage, foundLocal, foundGlobal, found>>

\* __found_local.compare_exchange_strong(__old, __shifted_idx), after which the
\* loop loads again.
CasLocal(i) ==
  /\ stage[i[1]] = "search" /\ read[i] # Nothing
  /\ foundLocal' = [foundLocal EXCEPT ![i[1]] = IF @ = read[i] THEN NextIndex(i) ELSE @]
  /\ read' = [read EXCEPT ![i] = Nothing]
  /\ UNCHANGED <<call, stage, todo, foundGlobal, found>>

\* After the second barrier: __comp(__found_local.load(), __found.load()).
TestGlobal(g) ==
  /\ stage[g] = "search" /\ \A i \in DOMAIN todo : i[1] = g => todo[i] = {}
  /\ stage' = [stage EXCEPT ![g] = IF Wins(foundLocal[g], foundGlobal) THEN "load" ELSE "done"]
  /\ UNCHANGED <<call, todo, read, foundLocal, foundGlobal, found>>

\* Or-semantics: __found.store(1).
StoreGlobal(g) ==
  /\ tag = "or" /\ stage[g] = "load"
  /\ foundGlobal' = 1
  /\ stage' = [stage EXCEPT ![g] = "done"]
  /\ UNCHANGED <<call, todo, read, foundLocal, found>>

\* __old = __found.load(), and the loop's condition.
LoadGlobal(g) ==
  /\ tag # "or" /\ stage[g] = "load"
  /\ IF Wins(foundLocal[g], foundGlobal)
       THEN /\ read' = [read EXCEPT ![<<g, 0>>] = foundGlobal]
            /\ stage' = [stage EXCEPT ![g] = "cas"]
       ELSE /\ stage' = [stage EXCEPT ![g] = "done"]
            /\ UNCHANGED read
  /\ UNCHANGED <<call, todo, foundLocal, foundGlobal, found>>

\* [mutant] The value is stored whatever the cell holds by now.
CasGlobal_Store(g) ==
  /\ stage[g] = "cas"
  /\ foundGlobal' = foundLocal[g]
  /\ read' = [read EXCEPT ![<<g, 0>>] = Nothing]
  /\ stage' = [stage EXCEPT ![g] = "load"]
  /\ UNCHANGED <<call, todo, foundLocal, found>>

\* __found.compare_exchange_strong(__old, __found_local.load())
CasGlobal(g) ==
  /\ stage[g] = "cas"
  /\ foundGlobal' = IF foundGlobal = read[<<g, 0>>] THEN foundLocal[g] ELSE foundGlobal
  /\ read' = [read EXCEPT ![<<g, 0>>] = Nothing]
  /\ stage' = [stage EXCEPT ![g] = "load"]
  /\ UNCHANGED <<call, todo, foundLocal, found>>

\* The temporary buffer is destroyed: the kernel has ended and __result is copied back.
FindReturn ==
  /\ found = Nothing /\ \A g \in DOMAIN stage : stage[g] = "done"
  /\ found' = IF tag = "or" \/ foundGlobal # InitValue THEN foundGlobal ELSE len
  /\ UNCHANGED <<call, stage, todo, read, foundLocal, foundGlobal>>

GroupStep(g) ==
  SetLocal(g) \/ TestGlobal(g) \/ StoreGlobal(g) \/ LoadGlobal(g) \/ CasGlobal(g)

ItemStep(i) == StoreLocal(i) \/ LoadLocal(i) \/ CasLocal(i)

FindNext ==
  (\E g \in DOMAIN stage : GroupStep(g)) \/ (\E i \in DOMAIN todo : ItemStep(i)) \/ FindReturn
-------------------------------------------------------------------------------
(* The kernel is a priority update too. For the or-semantics the range of the   *)
(* abstract call has one place, which matches if any place of the range does.   *)
DeviceAbstract == INSTANCE PriorityUpdate WITH
  MaxN    <- MaxLen,
  n       <- IF tag = "or" THEN 1 ELSE len,
  isFirst <- tag = "first",
  match   <- IF tag # "or" THEN accept ELSE IF accept = {} THEN {} ELSE {0},
  best    <- IF tag = "or" THEN foundGlobal - 1 ELSE foundGlobal,
  answer  <- IF found # Nothing /\ tag = "or" THEN 1 - found ELSE found

\* The kernel returns the first or last match, or whether there is one, and both
\* of its atomics only move towards it (parallel_backend_sycl.h:737-745, 899-914):
\* items overtaken between a load and an exchange forget nothing.
DeviceRefines == DeviceAbstract!Spec
===============================================================================
