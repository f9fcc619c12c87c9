--------------------------- MODULE HostPatternsProofs ---------------------------
(* The theorems about the calls of the host patterns, for ranges of every length     *)
(* and every way to cut them: the flag of a __parallel_or answers the call, the      *)
(* chunks of a loop that moves elements are independent, and every call - the loops, *)
(* the searches, nth_element - leaves in memory and returns what std's algorithm does. *)
(* Then the calls that are one reduction.                                             *)
EXTENDS HostPatterns, ReducePatterns, NaturalLemmas

(* What holds of a __parallel_or under way in a call, and before it begins.           *)
Fresh == pc = "call" => found = FALSE /\ cancelled = FALSE /\ verdict = "running"

Places == {"check", "brick", "store", "cancel", "done"}

Flags ==
  /\ hits \subseteq chunks /\ task \in [chunks -> Places]
  /\ found \in BOOLEAN /\ cancelled \in BOOLEAN
  /\ cancelled => found
  /\ found => hits # {}

\* A task sets the flag, if at all, for a chunk the brick is true on.
Witnesses ==
  \A h \in chunks :
    /\ task[h] \in {"store", "cancel"} => h \in hits
    /\ task[h] = "cancel" => found
    /\ h \in hits /\ task[h] = "done" => found

Verdict ==
  verdict # "running" =>
    /\ \A h \in chunks : task[h] = "done"
    /\ verdict = (IF found THEN "true" ELSE "false")

OrInv == pc = "or" => Flags /\ Witnesses /\ Verdict

LEMMA OrKeeps == Flags /\ Witnesses /\ Verdict /\ Or!Next => (Flags /\ Witnesses /\ Verdict)'
<1> SUFFICES ASSUME Flags, Witnesses, Verdict, Or!Next PROVE (Flags /\ Witnesses /\ Verdict)'
  OBVIOUS
<1> USE DEF Flags, Places
<1>1. ASSUME NEW h \in chunks, Or!Check(h) PROVE (Flags /\ Witnesses /\ Verdict)'
  BY <1>1 DEF Or!Check, Witnesses, Verdict
<1>2. ASSUME NEW h \in chunks, Or!Brick(h) PROVE (Flags /\ Witnesses /\ Verdict)'
  BY <1>2 DEF Or!Brick, Witnesses, Verdict
<1>3. ASSUME NEW h \in chunks, Or!Store(h) PROVE (Flags /\ Witnesses /\ Verdict)'
  BY <1>3 DEF Or!Store, Witnesses, Verdict
<1>4. ASSUME NEW h \in chunks, Or!Cancel(h) PROVE (Flags /\ Witnesses /\ Verdict)'
  <2>1. found
    BY <1>4 DEF Or!Cancel, Witnesses
  <2> QED
    BY <1>4, <2>1 DEF Or!Cancel, Witnesses, Verdict
<1>5. ASSUME NEW h \in chunks, Or!Drop(h) PROVE (Flags /\ Witnesses /\ Verdict)'
  BY <1>5 DEF Or!Drop, Witnesses, Verdict
<1>6. CASE Or!Return
  BY <1>6 DEF Or!Return, Witnesses, Verdict
<1> QED
  BY <1>1, <1>2, <1>3, <1>4, <1>5, <1>6 DEF Or!Next, Or!Step

LEMMA CallKeeps == Fresh /\ OrInv /\ [Next]_vars => (Fresh /\ OrInv)'
<1> SUFFICES ASSUME Fresh, OrInv, [Next]_vars PROVE (Fresh /\ OrInv)'
  OBVIOUS
<1> USE DEF Fresh, OrInv
<1>1. CASE BeginOr
  <2>1. pc' = "or" /\ found' = FALSE /\ cancelled' = FALSE /\ verdict' = "running"
    BY <1>1 DEF BeginOr
  <2>2. hits' \subseteq chunks' /\ task' = [h \in chunks' |-> "check"]
    BY <1>1 DEF BeginOr
  <2>3. Flags'
    BY <2>1, <2>2 DEF Flags, Places
  <2>4. Witnesses'
    BY <2>2 DEF Witnesses
  <2> QED
    BY <2>1, <2>3, <2>4 DEF Verdict
<1>2. CASE StepOr
  BY <1>2, OrKeeps DEF StepOr
<1>3. CASE Decide \/ EndOr \/ BeginFind \/ StepFind \/ EndFind
  BY <1>3 DEF Decide, EndOr, BeginFind, StepFind, EndFind, Return
<1>4. CASE NextLoop \/ RunChunk \/ EndLoops
  BY <1>4 DEF NextLoop, RunChunk, EndLoops, Return
<1>5. CASE BeginNth \/ Iterate
  BY <1>5 DEF BeginNth, Iterate, Return, Unrelated, orVars
<1>6. CASE UNCHANGED vars
  BY <1>6 DEF vars, orVars, Flags, Witnesses, Verdict
<1> QED
  BY <1>1, <1>2, <1>3, <1>4, <1>5, <1>6 DEF Next

\* Whatever the sizes, the algorithm and the cuts: a chunk on which the brick of the
\* call is true is given up only once __found is set (parallel_impl.h:80-83).
THEOREM ChunksAreSkippedSafely == Spec => []SkippedOnlyWhenFound
<1>1. Init => Fresh /\ OrInv
  BY DEF Init, Fresh, OrInv
<1>2. Fresh /\ OrInv => SkippedOnlyWhenFound
  BY DEF OrInv, Flags, Witnesses, SkippedOnlyWhenFound, Or!SkippedOnlyWhenFound
<1> QED
  BY <1>1, <1>2, CallKeeps, PTL DEF Spec

\* And the flag says, once the loop has joined its tasks, whether the brick is true on
\* some subrange (parallel_impl.h:72), which is what any_of, equal and the others return.
THEOREM OrAnswersTheCall == Spec => [](pc = "or" => Or!AnswerIsOr)
<1>1. Init => Fresh /\ OrInv
  BY DEF Init, Fresh, OrInv
<1>2. Fresh /\ OrInv => (pc = "or" => Or!AnswerIsOr)
  BY DEF OrInv, Flags, Witnesses, Verdict, Or!AnswerIsOr
<1> QED
  BY <1>1, <1>2, CallKeeps, PTL DEF Spec
-------------------------------------------------------------------------------
(* What a loop that moves elements uses and changes.                                *)
Memories == {"range", "buffer", "output"}
Shape(M, n) == DOMAIN M = Memories /\ \A m \in Memories : DOMAIN M[m] = 0..(n - 1)

Iters(L) == L.lo..(L.hi - 1)
Chunk(h) == h[1]..(h[2] - 1)
TakesBoth(L) == L.does \in {"swap", "move"}

(* Iteration l of a loop changes slot s of memory m, or reads it.                   *)
Writes(L, l, m, s) == (m = L.to /\ s = L.at[l][2]) \/ (TakesBoth(L) /\ m = L.from /\ s = L.at[l][1])
Reads(L, l, m, s) == m = L.from /\ (s = L.at[l][1] \/ (L.does = "pair" /\ s = L.at[l][3]))
Uses(L, l, m, s) == Writes(L, l, m, s) \/ Reads(L, l, m, s)

\* The slots of a loop are there, and no iteration changes what another one uses.
SlotsExist(L, n) ==
  /\ L.lo \in Nat /\ L.hi \in Int /\ L.from \in Memories /\ L.to \in Memories
  /\ \A l \in Iters(L) :
       /\ L.at[l][1] \in 0..(n - 1) /\ L.at[l][2] \in 0..(n - 1)
       /\ L.does = "pair" => L.at[l][3] \in 0..(n - 1)
       /\ TakesBoth(L) => L.from # L.to \/ L.at[l][1] # L.at[l][2]

NoneShared(L) ==
  \A l \in Iters(L), k \in Iters(L) : l # k => \A m, s : Writes(L, l, m, s) => ~Uses(L, k, m, s)

Independent(L, n) == SlotsExist(L, n) /\ NoneShared(L)

\* The memory y after the iterations D of a loop that began with memory M.
Ran(M, L, D, y) ==
  /\ \A l \in D : y[L.to][L.at[l][2]] = Moves!Put(M, L, l)
  /\ TakesBoth(L) => \A l \in D : y[L.from][L.at[l][1]] = Moves!LeftBehind(M, L, l)
  /\ \A m \in Memories : \A s \in DOMAIN M[m] : (\A l \in D : ~Writes(L, l, m, s)) => y[m][s] = M[m][s]
-------------------------------------------------------------------------------
LEMMA MinIsLeast ==
  ASSUME NEW S, S \subseteq Nat, S # {}
  PROVE  /\ Min(S) \in S /\ \A s \in S : Min(S) <= s
         /\ Moves!Min(S) = Min(S)
<1>1. \E s \in S : \A t \in S : s <= t
  BY LeastNumber
<1> QED
  BY <1>1 DEF Min, Moves!Min

\* The slots that no iteration of [i, j) changes are in Y what they are in y.
KeepsOthers(y, L, n, i, j, Y) ==
  /\ Shape(Y, n)
  /\ \A m \in Memories : \A s \in 0..(n - 1) : (\A l \in i..(j - 1) : ~Writes(L, l, m, s)) => Y[m][s] = y[m][s]

(* What the body of a loop on the chunk [i, j) makes of each slot.                  *)
LEMMA BodyLeavesOthers ==
  ASSUME NEW n \in Nat, NEW L, Independent(L, n), NEW y, Shape(y, n),
         NEW i \in Nat, NEW j \in Nat, i..(j - 1) \subseteq Iters(L)
  PROVE  KeepsOthers(y, L, n, i, j, Moves!Body(y, L, i, j))
<1> DEFINE first(m, s) == {l \in i..(j - 1) : m = L.from /\ L.at[l][1] = s}
           second(m, s) == {l \in i..(j - 1) : m = L.to /\ L.at[l][2] = s}
           Y == Moves!Body(y, L, i, j)
<1>1. Y = [m \in DOMAIN y |-> [s \in DOMAIN y[m] |->
             IF second(m, s) # {} THEN Moves!Put(y, L, Moves!Min(second(m, s)))
             ELSE IF first(m, s) # {} THEN Moves!LeftBehind(y, L, Moves!Min(first(m, s)))
             ELSE y[m][s]]]
  BY DEF Moves!Body
<1> HIDE DEF Y
<1>2. Shape(Y, n)
  BY <1>1 DEF Shape
<1>3. ASSUME NEW m \in Memories, NEW s \in 0..(n - 1), \A l \in i..(j - 1) : ~Writes(L, l, m, s)
      PROVE  Y[m][s] = y[m][s]
  <2>1. Y[m][s] = IF second(m, s) # {} THEN Moves!Put(y, L, Moves!Min(second(m, s)))
                  ELSE IF first(m, s) # {} THEN Moves!LeftBehind(y, L, Moves!Min(first(m, s)))
                  ELSE y[m][s]
    BY <1>1 DEF Shape
  <2>2. second(m, s) = {}
    BY <1>3 DEF Writes
  <2>3. CASE first(m, s) # {}
    <3>1. first(m, s) \subseteq Nat
      OBVIOUS
    <3>2. Moves!Min(first(m, s)) \in first(m, s)
      <4> HIDE DEF first
      <4> QED BY <2>3, <3>1, MinIsLeast
    <3>3. PICK l \in i..(j - 1) : l = Moves!Min(first(m, s)) /\ m = L.from /\ L.at[l][1] = s
      BY <3>2
    <3>4. ~TakesBoth(L)
      BY <1>3, <3>3 DEF Writes
    <3>5. Moves!LeftBehind(y, L, l) = y[m][s]
      BY <3>3, <3>4 DEF Moves!LeftBehind, TakesBoth
    <3> QED
      BY <2>1, <2>2, <2>3, <3>3, <3>5
  <2> QED
    BY <2>1, <2>2, <2>3
<1> QED
  BY <1>2, <1>3 DEF Y, KeepsOthers

LEMMA BodyPuts ==
  ASSUME NEW n \in Nat, NEW L, Independent(L, n), NEW y, Shape(y, n),
         NEW i \in Nat, NEW j \in Nat, i..(j - 1) \subseteq Iters(L), NEW l \in i..(j - 1)
  PROVE  /\ Moves!Body(y, L, i, j)[L.to][L.at[l][2]] = Moves!Put(y, L, l)
         /\ TakesBoth(L) => Moves!Body(y, L, i, j)[L.from][L.at[l][1]] = Moves!LeftBehind(y, L, l)
<1> DEFINE first(m, s) == {k \in i..(j - 1) : m = L.from /\ L.at[k][1] = s}
           second(m, s) == {k \in i..(j - 1) : m = L.to /\ L.at[k][2] = s}
           Y == Moves!Body(y, L, i, j)
<1>1. Y = [m \in DOMAIN y |-> [s \in DOMAIN y[m] |->
             IF second(m, s) # {} THEN Moves!Put(y, L, Moves!Min(second(m, s)))
             ELSE IF first(m, s) # {} THEN Moves!LeftBehind(y, L, Moves!Min(first(m, s)))
             ELSE y[m][s]]]
  BY DEF Moves!Body
<1> HIDE DEF Y
<1>2. Moves!Min({l}) = l
  <2>1. {l} \subseteq Nat /\ {l} # {}
    OBVIOUS
  <2> QED BY <2>1, MinIsLeast
<1>3. l \in Iters(L) /\ L.at[l][1] \in 0..(n - 1) /\ L.at[l][2] \in 0..(n - 1)
      /\ L.from \in Memories /\ L.to \in Memories
  BY DEF Independent, SlotsExist
<1>4. \A k \in i..(j - 1) : k # l => \A m, s : Writes(L, k, m, s) => ~Uses(L, l, m, s)
  BY <1>3 DEF Independent, NoneShared
<1>5. Y[L.to][L.at[l][2]] = Moves!Put(y, L, l)
  <2> DEFINE s == L.at[l][2]
  <2>1. second(L.to, s) = {l}
    BY <1>4 DEF Writes, Uses
  <2>2. Y[L.to][s] = IF second(L.to, s) # {} THEN Moves!Put(y, L, Moves!Min(second(L.to, s)))
                     ELSE IF first(L.to, s) # {} THEN Moves!LeftBehind(y, L, Moves!Min(first(L.to, s)))
                     ELSE y[L.to][s]
    BY <1>1, <1>3 DEF Shape
  <2> QED
    BY <1>2, <2>1, <2>2
<1>6. ASSUME TakesBoth(L) PROVE Y[L.from][L.at[l][1]] = Moves!LeftBehind(y, L, l)
  <2> DEFINE s == L.at[l][1]
  <2>1. second(L.from, s) = {}
    <3>1. L.from # L.to \/ L.at[l][1] # L.at[l][2]
      BY <1>3, <1>6 DEF Independent, SlotsExist
    <3>2. Uses(L, l, L.from, s)
      BY DEF Uses, Reads
    <3> QED
      BY <1>4, <3>1, <3>2 DEF Writes
  <2>2. first(L.from, s) = {l}
    BY <1>4, <1>6 DEF Writes, Uses
  <2>3. Y[L.from][s] = IF second(L.from, s) # {} THEN Moves!Put(y, L, Moves!Min(second(L.from, s)))
                     ELSE IF first(L.from, s) # {} THEN Moves!LeftBehind(y, L, Moves!Min(first(L.from, s)))
                     ELSE y[L.from][s]
    BY <1>1, <1>3 DEF Shape
  <2> QED
    BY <1>2, <2>1, <2>2, <2>3
<1> QED
  BY <1>5, <1>6 DEF Y

(* The iterations left to run find what they use as the loop found it.             *)
LEMMA StillThere ==
  ASSUME NEW n \in Nat, NEW L, Independent(L, n), NEW M, Shape(M, n), NEW y,
         NEW D, D \subseteq Iters(L), Ran(M, L, D, y), NEW l \in Iters(L) \ D
  PROVE  /\ \A m \in Memories : \A s \in 0..(n - 1) : Uses(L, l, m, s) => y[m][s] = M[m][s]
         /\ Moves!Put(y, L, l) = Moves!Put(M, L, l)
         /\ Moves!LeftBehind(y, L, l) = Moves!LeftBehind(M, L, l)
<1>1. ASSUME NEW m \in Memories, NEW s \in 0..(n - 1), Uses(L, l, m, s) PROVE y[m][s] = M[m][s]
  <2>1. \A k \in D : ~Writes(L, k, m, s)
    BY <1>1 DEF Independent, NoneShared
  <2>2. s \in DOMAIN M[m]
    BY DEF Shape
  <2> QED
    BY <2>1, <2>2 DEF Ran
<1>2. L.from \in Memories /\ L.to \in Memories /\ L.at[l][1] \in 0..(n - 1) /\ L.at[l][2] \in 0..(n - 1)
      /\ (L.does = "pair" => L.at[l][3] \in 0..(n - 1))
  BY DEF Independent, SlotsExist
<1>3. y[L.from][L.at[l][1]] = M[L.from][L.at[l][1]]
  BY <1>1, <1>2 DEF Uses, Reads
<1>4. y[L.to][L.at[l][2]] = M[L.to][L.at[l][2]]
  BY <1>1, <1>2 DEF Uses, Writes
<1>5. L.does = "pair" => y[L.from][L.at[l][3]] = M[L.from][L.at[l][3]]
  BY <1>1, <1>2 DEF Uses, Reads
<1>6. Moves!Put(y, L, l) = Moves!Put(M, L, l)
  BY <1>3, <1>5 DEF Moves!Put
<1>7. Moves!LeftBehind(y, L, l) = Moves!LeftBehind(M, L, l)
  BY <1>3, <1>4 DEF Moves!LeftBehind
<1> QED
  BY <1>1, <1>6, <1>7

LEMMA ChunkRuns ==
  ASSUME NEW n \in Nat, NEW L, Independent(L, n), NEW M, Shape(M, n), NEW y, Shape(y, n),
         NEW D, D \subseteq Iters(L), Ran(M, L, D, y),
         NEW i \in Nat, NEW j \in Nat, i..(j - 1) \subseteq Iters(L) \ D
  PROVE  /\ Shape(Moves!Body(y, L, i, j), n)
         /\ Ran(M, L, D \cup (i..(j - 1)), Moves!Body(y, L, i, j))
<1> DEFINE Y == Moves!Body(y, L, i, j)
           E == i..(j - 1)
<1>1. E \subseteq Iters(L)
  OBVIOUS
<1>2. Shape(Y, n) /\ \A m \in Memories : \A s \in 0..(n - 1) : (\A l \in E : ~Writes(L, l, m, s)) => Y[m][s] = y[m][s]
  <2>1. KeepsOthers(y, L, n, i, j, Y)
    BY <1>1, BodyLeavesOthers
  <2> QED BY <2>1 DEF KeepsOthers
<1>3. \A l \in E : /\ Y[L.to][L.at[l][2]] = Moves!Put(y, L, l)
                   /\ TakesBoth(L) => Y[L.from][L.at[l][1]] = Moves!LeftBehind(y, L, l)
  BY <1>1, BodyPuts
<1>4. \A l \in E : Moves!Put(y, L, l) = Moves!Put(M, L, l) /\ Moves!LeftBehind(y, L, l) = Moves!LeftBehind(M, L, l)
  <2> SUFFICES ASSUME NEW l \in E PROVE Moves!Put(y, L, l) = Moves!Put(M, L, l) /\ Moves!LeftBehind(y, L, l) = Moves!LeftBehind(M, L, l)
    OBVIOUS
  <2>1. l \in Iters(L) \ D
    OBVIOUS
  <2> QED BY <2>1, StillThere
<1> HIDE DEF Y
<1>5. ASSUME NEW l \in D, NEW m \in Memories, NEW s \in 0..(n - 1), Writes(L, l, m, s) PROVE Y[m][s] = y[m][s]
  <2>1. \A k \in E : ~Writes(L, k, m, s)
    BY <1>5 DEF Independent, NoneShared, Uses
  <2> QED BY <1>2, <2>1
<1>6. L.from \in Memories /\ L.to \in Memories /\ \A l \in Iters(L) : L.at[l][1] \in 0..(n - 1) /\ L.at[l][2] \in 0..(n - 1)
  BY DEF Independent, SlotsExist
<1>7. \A l \in D \cup E : Y[L.to][L.at[l][2]] = Moves!Put(M, L, l)
  <2>1. \A l \in D : Writes(L, l, L.to, L.at[l][2])
    BY DEF Writes
  <2> QED BY <1>3, <1>4, <1>5, <1>6, <2>1 DEF Ran
<1>8. TakesBoth(L) => \A l \in D \cup E : Y[L.from][L.at[l][1]] = Moves!LeftBehind(M, L, l)
  <2>1. TakesBoth(L) => \A l \in D : Writes(L, l, L.from, L.at[l][1])
    BY DEF Writes
  <2> QED BY <1>3, <1>4, <1>5, <1>6, <2>1 DEF Ran
<1>9. ASSUME NEW m \in Memories, NEW s \in DOMAIN M[m], \A l \in D \cup E : ~Writes(L, l, m, s)
      PROVE  Y[m][s] = M[m][s]
  <2>1. s \in 0..(n - 1)
    BY DEF Shape
  <2>2. Y[m][s] = y[m][s]
    BY <1>2, <1>9, <2>1
  <2> QED BY <1>9, <2>2 DEF Ran
<1>10. Ran(M, L, D \cup E, Y)
  BY SMTT(30), <1>7, <1>8, <1>9 DEF Ran
<1> QED
  BY <1>2, <1>10 DEF Y

LEMMA ChunkMayRun ==
  ASSUME NEW n \in Nat, NEW L, Independent(L, n), NEW M, Shape(M, n), NEW y,
         NEW D, D \subseteq Iters(L), Ran(M, L, D, y), Moves!MayRun(M, L, L.lo, L.hi),
         NEW i \in Nat, NEW j \in Nat, i..(j - 1) \subseteq Iters(L) \ D
  PROVE  Moves!MayRun(y, L, i, j)
<1> SUFFICES ASSUME NEW l \in i..(j - 1)
             PROVE  LET target == y[L.to][L.at[l][2]]
                    IN  /\ y[L.from][L.at[l][1]] >= 0
                        /\ L.does = "pair" => y[L.from][L.at[l][3]] >= 0
                        /\ L.to = "buffer" => target = Moves!Raw
                        /\ L.to = "range" => target # Moves!Raw
                        /\ L.to = "output" /\ L.does # "swap" => target = Moves!NotWritten
  BY DEF Moves!MayRun
<1>1. l \in Iters(L) \ D
  OBVIOUS
<1>2. \A m \in Memories : \A s \in 0..(n - 1) : Uses(L, l, m, s) => y[m][s] = M[m][s]
  <2> SUFFICES ASSUME NEW m \in Memories, NEW s \in 0..(n - 1), Uses(L, l, m, s) PROVE y[m][s] = M[m][s]
    OBVIOUS
  <2> QED BY <1>1, StillThere
<1>3. L.from \in Memories /\ L.to \in Memories /\ L.at[l][1] \in 0..(n - 1) /\ L.at[l][2] \in 0..(n - 1)
      /\ (L.does = "pair" => L.at[l][3] \in 0..(n - 1))
  BY <1>1 DEF Independent, SlotsExist
<1>4. y[L.from][L.at[l][1]] = M[L.from][L.at[l][1]] /\ y[L.to][L.at[l][2]] = M[L.to][L.at[l][2]]
  BY <1>2, <1>3 DEF Uses, Reads, Writes
<1>5. L.does = "pair" => y[L.from][L.at[l][3]] = M[L.from][L.at[l][3]]
  BY <1>2, <1>3 DEF Uses, Reads
<1> QED
  BY <1>1, <1>4, <1>5 DEF Moves!MayRun, Iters

LEMMA ChunksShareNothing ==
  ASSUME NEW n, NEW L, Independent(L, n), NEW i \in Nat, NEW j \in Nat, NEW k \in Nat, NEW l \in Nat,
         i..(j - 1) \subseteq Iters(L), k..(l - 1) \subseteq Iters(L), (i..(j - 1)) \cap (k..(l - 1)) = {}
  PROVE  Moves!Changed(L, i, j) \cap Moves!Touched(L, k, l) = {}
<1>1. ASSUME NEW e \in Moves!Changed(L, i, j)
      PROVE  \E p \in i..(j - 1) : \E m, s : e = <<m, s>> /\ Writes(L, p, m, s)
  BY <1>1 DEF Moves!Changed, Writes, TakesBoth
<1>2. ASSUME NEW e \in Moves!Touched(L, k, l)
      PROVE  \E p \in k..(l - 1) : \E m, s : e = <<m, s>> /\ Uses(L, p, m, s)
  BY <1>2 DEF Moves!Touched, Moves!Changed, Writes, Reads, Uses, TakesBoth
<1>3. ASSUME NEW e \in Moves!Changed(L, i, j), e \in Moves!Touched(L, k, l) PROVE FALSE
  <2>1. PICK p \in i..(j - 1) : \E m, s : e = <<m, s>> /\ Writes(L, p, m, s)
    BY <1>1
  <2>2. PICK r \in k..(l - 1) : \E m, s : e = <<m, s>> /\ Uses(L, r, m, s)
    BY <1>2, <1>3
  <2>3. PICK m, s : e = <<m, s>> /\ Writes(L, p, m, s)
    BY <2>1
  <2>4. Uses(L, r, m, s) /\ p # r
    BY <2>2, <2>3
  <2> QED
    BY <2>3, <2>4 DEF Independent, NoneShared
<1> QED
  BY <1>3
-------------------------------------------------------------------------------
(* What is in a slot when loop q of a call begins, or when its last loop has ended. *)
Mirrored(d, l) == IF d.alg = "shift_right" THEN d.n - 1 - l ELSE l
Turned(d, l) == IF l < d.n - d.k THEN l + d.k ELSE l - (d.n - d.k)

InRotated(d, q, l) ==
  IF d.k <= d.n \div 2
    THEN CASE q = 2 -> IF l < d.k THEN l ELSE Moves!MovedFrom
           [] q = 3 -> IF l < d.n - d.k THEN Moves!MovedFrom ELSE Turned(d, l)
           [] OTHER -> Turned(d, l)
    ELSE CASE q = 2 -> IF l < d.k THEN Moves!MovedFrom ELSE l
           [] q = 3 -> IF l < d.n - d.k THEN Turned(d, l) ELSE Moves!MovedFrom
           [] OTHER -> Turned(d, l)

\* The first q - 1 blocks have moved by k, the last of them left its places behind.
InShifted(d, q, l) ==
  LET p == Mirrored(d, l)
  IN  IF p < (q - 1) * d.k /\ p < d.n - d.k THEN Mirrored(d, p + d.k)
      ELSE IF d.k <= p /\ p < q * d.k THEN Moves!MovedFrom
      ELSE l

InRange(d, q, l) ==
  IF q = 1 THEN l
  ELSE CASE d.alg = "rotate"      -> InRotated(d, q, l)
         [] d.alg \in {"shift_left", "shift_right"} -> InShifted(d, q, l)
         [] d.alg = "reverse"     -> d.n - 1 - l
         [] d.alg = "for_each"    -> Moves!Applied(l)
         [] d.alg = "fill"        -> Moves!Filled
         [] d.alg = "destroy"     -> Moves!Raw
         [] d.alg = "move"        -> Moves!MovedFrom
         [] d.alg = "swap_ranges" -> d.n + l
         [] OTHER                 -> l

InBuffer(d, q, l) ==
  IF d.alg = "rotate" /\ q \in {2, 3}
    THEN IF d.k <= d.n \div 2 THEN (IF l < d.n - d.k THEN l + d.k ELSE Moves!Raw)
                              ELSE (IF l < d.k THEN l ELSE Moves!Raw)
    ELSE Moves!Raw

InOutput(d, q, l) ==
  IF q = 1 THEN IF d.alg = "swap_ranges" THEN d.n + l ELSE Moves!NotWritten
  ELSE CASE d.alg = "reverse_copy" -> d.n - 1 - l
         [] d.alg = "rotate_copy"  -> Turned(d, l)
         [] d.alg \in {"copy", "move", "swap_ranges"} -> l
         [] d.alg = "transform"    -> Moves!Applied(l)
         [] d.alg = "transform_pairs" -> IF l < d.n - d.k THEN Moves!Both(l, l + d.k) ELSE Moves!NotWritten
         [] d.alg = "adjacent_difference" ->
              IF l = 0 THEN 0 ELSE IF q = 2 THEN Moves!NotWritten ELSE Moves!Both(l, l - 1)
         [] OTHER -> Moves!NotWritten

Before(d, q) ==
  [m \in Memories |-> [l \in 0..(d.n - 1) |->
     IF m = "range" THEN InRange(d, q, l) ELSE IF m = "buffer" THEN InBuffer(d, q, l) ELSE InOutput(d, q, l)]]

Stands(d, q, M) ==
  /\ Shape(M, d.n)
  /\ \A l \in 0..(d.n - 1) :
       /\ M["range"][l] = InRange(d, q, l)
       /\ M["buffer"][l] = InBuffer(d, q, l)
       /\ M["output"][l] = InOutput(d, q, l)

Apart(h, g) == h[2] <= g[1] \/ g[2] <= h[1]

\* The iterations that have not run yet.
Left == UNION {Chunk(h) : h \in chunks}

ACall(d) == d.alg \in Moves!LoopAlgs /\ d.n \in Nat /\ d.k \in Nat /\ IsCall(d)

LoopUnderWay ==
  /\ stage \in 1..Len(loops)
  /\ chunks \subseteq (Nat \X Nat)
  /\ \A h \in chunks : loops[stage].lo <= h[1] /\ h[1] < h[2] /\ h[2] <= loops[stage].hi
  /\ \A h \in chunks, g \in chunks : h # g => Apart(h, g)
  /\ Shape(x, c.n)
  /\ Ran(Before(c, stage), loops[stage], Iters(loops[stage]) \ Left, x)

MovesInv ==
  /\ pc = "moves" => IsMove(c)
  /\ IsMove(c) =>
       /\ ACall(c)
       /\ pc \in {"call", "moves", "done"}
       /\ pc = "call" => stage = 0 /\ chunks = {} /\ Stands(c, 1, x)
       /\ pc = "moves" => LoopUnderWay
       /\ pc = "done" => Stands(c, Len(loops) + 1, x) /\ answer = {Moves!Returned(c)}
-------------------------------------------------------------------------------
(* A loop does what it should if its iterations are independent, find what they     *)
(* need, and leave behind what the next one finds.                                  *)
LoopOK(d, q) ==
  LET L == Moves!Loops(d)[q]
      M == Before(d, q)
  IN  /\ Independent(L, d.n)
      /\ Moves!MayRun(M, L, L.lo, L.hi)
      /\ \A y : Shape(y, d.n) /\ Ran(M, L, Iters(L), y) => Stands(d, q + 1, y)

LEMMA BeforeIs ==
  ASSUME NEW d, NEW q
  PROVE  /\ Shape(Before(d, q), d.n)
         /\ \A l \in 0..(d.n - 1) : /\ Before(d, q)["range"][l] = InRange(d, q, l)
                                    /\ Before(d, q)["buffer"][l] = InBuffer(d, q, l)
                                    /\ Before(d, q)["output"][l] = InOutput(d, q, l)
BY DEF Before, Shape, Memories

(* Between two memories it is enough that no two iterations use the same slot of    *)
(* the one that is changed.                                                         *)
LEMMA BetweenMemories ==
  ASSUME NEW L, NEW n, SlotsExist(L, n), L.from # L.to,
         \A l \in Iters(L), k \in Iters(L) : l # k => L.at[l][2] # L.at[k][2],
         TakesBoth(L) => \A l \in Iters(L), k \in Iters(L) : l # k => L.at[l][1] # L.at[k][1],
         L.does # "pair" \/ ~TakesBoth(L)
  PROVE  Independent(L, n)
<1> SUFFICES ASSUME NEW l \in Iters(L), NEW k \in Iters(L), l # k, NEW m, NEW s,
                    Writes(L, l, m, s), Uses(L, k, m, s)
             PROVE  FALSE
  BY DEF Independent, NoneShared
<1>1. CASE m = L.to
  BY <1>1 DEF Writes, Uses, Reads
<1>2. CASE m = L.from /\ TakesBoth(L)
  BY <1>2 DEF Writes, Uses, Reads, TakesBoth
<1> QED
  BY <1>1, <1>2 DEF Writes

LEMMA WithinMemory ==
  ASSUME NEW L, NEW n, SlotsExist(L, n), L.from = L.to, L.does # "pair",
         \A l \in Iters(L), k \in Iters(L) : l # k =>
           L.at[l][2] # L.at[k][2] /\ L.at[l][2] # L.at[k][1] /\ L.at[l][1] # L.at[k][1]
  PROVE  Independent(L, n)
<1> SUFFICES ASSUME NEW l \in Iters(L), NEW k \in Iters(L), l # k, NEW m, NEW s,
                    Writes(L, l, m, s), Uses(L, k, m, s)
             PROVE  FALSE
  BY DEF Independent, NoneShared
<1>1. L.at[k][2] # L.at[l][1]
  OBVIOUS
<1> QED
  BY <1>1 DEF Writes, Uses, Reads

(* The loops over the whole range that keep each element in its place.              *)
InPlace(L, n, does, from, to) ==
  /\ L.does = does /\ L.lo = 0 /\ L.hi = n /\ L.from = from /\ L.to = to
  /\ \A l \in 0..(n - 1) : L.at[l][1] = l /\ L.at[l][2] = l

LEMMA WalkIs ==
  ASSUME NEW n \in Nat, NEW does, NEW from, NEW to
  PROVE  InPlace(Moves!Shift(does, 0, n, from, to, 0), n, does, from, to)
BY DEF InPlace, Moves!Shift, Moves!Loop

LEMMA WalkIsIndependent ==
  ASSUME NEW n \in Nat, NEW does, NEW from \in Memories, NEW to \in Memories, does # "pair",
         from # to \/ does \notin {"swap", "move"}, NEW L, InPlace(L, n, does, from, to)
  PROVE  Independent(L, n)
<1>1. SlotsExist(L, n)
  BY DEF InPlace, SlotsExist, Iters, TakesBoth
<1>2. \A l \in Iters(L), k \in Iters(L) : l # k =>
        L.at[l][2] # L.at[k][2] /\ L.at[l][2] # L.at[k][1] /\ L.at[l][1] # L.at[k][1]
  BY DEF InPlace, Iters
<1>3. L.from = from /\ L.to = to /\ L.does # "pair"
  BY DEF InPlace
<1> QED
  BY <1>1, <1>2, <1>3, BetweenMemories, WithinMemory

\* What iteration l has done to slot l of each memory, in y.
Walked(M, L, y, l, does, from, to) ==
  /\ y[to][l] = Moves!Put(M, L, l)
  /\ does \in {"swap", "move"} => y[from][l] = Moves!LeftBehind(M, L, l)
  /\ \A m \in Memories : m # to /\ (m # from \/ does \notin {"swap", "move"}) => y[m][l] = M[m][l]

LEMMA WalkRan ==
  ASSUME NEW n \in Nat, NEW does, NEW from \in Memories, NEW to \in Memories,
         NEW L, InPlace(L, n, does, from, to), NEW M, Shape(M, n),
         NEW y, Ran(M, L, Iters(L), y), NEW l \in 0..(n - 1)
  PROVE  Walked(M, L, y, l, does, from, to)
<1>1. l \in Iters(L) /\ L.at[l][1] = l /\ L.at[l][2] = l /\ L.from = from /\ L.to = to
      /\ (TakesBoth(L) <=> does \in {"swap", "move"})
  BY DEF InPlace, Iters, TakesBoth
<1>2. y[to][l] = Moves!Put(M, L, l) /\ (TakesBoth(L) => y[from][l] = Moves!LeftBehind(M, L, l))
  BY <1>1 DEF Ran
<1>3. ASSUME NEW m \in Memories, m # to, m # from \/ does \notin {"swap", "move"} PROVE y[m][l] = M[m][l]
  <2>1. \A k \in Iters(L) : ~Writes(L, k, m, l)
    BY <1>1, <1>3 DEF Writes
  <2>2. l \in DOMAIN M[m]
    BY DEF Shape
  <2> QED BY <2>1, <2>2 DEF Ran
<1> QED
  BY <1>1, <1>2, <1>3 DEF Walked

Visits == {"for_each", "fill", "destroy", "copy", "move", "transform", "swap_ranges"}

LEMMA VisitsAreOK ==
  ASSUME NEW d, ACall(d), d.alg \in Visits
  PROVE  Len(Moves!Loops(d)) = 1 /\ LoopOK(d, 1)
<1> DEFINE does == CASE d.alg \in {"for_each", "transform"} -> "apply" [] d.alg = "swap_ranges" -> "swap" [] OTHER -> d.alg
           to == IF d.alg \in {"for_each", "fill", "destroy"} THEN "range" ELSE "output"
           L == Moves!Shift(does, 0, d.n, "range", to, 0)
           M == Before(d, 1)
<1>1. d.n \in Nat /\ to \in Memories /\ "range" \in Memories
  BY DEF ACall, Memories
<1>2. Moves!Loops(d) = << L >>
  BY DEF Moves!Loops, Moves!ForEachLoops, Moves!FillLoops, Moves!DestroyLoops, Moves!CopyLoops, Moves!TransformLoops,
         Moves!SwapRangesLoops, Visits
<1>3. Len(Moves!Loops(d)) = 1 /\ Moves!Loops(d)[1] = L
  BY <1>2
<1>4. InPlace(L, d.n, does, "range", to)
  BY <1>1, WalkIs
<1>5. does # "pair" /\ ("range" # to \/ does \notin {"swap", "move"})
  BY DEF Visits
<1> HIDE DEF L
<1>6. Independent(L, d.n)
  <2> HIDE DEF does, to
  <2> QED BY <1>1, <1>4, <1>5, WalkIsIndependent
<1>7. Shape(M, d.n) /\ \A l \in 0..(d.n - 1) :
        M["range"][l] = l /\ M["buffer"][l] = Moves!Raw
        /\ M["output"][l] = (IF d.alg = "swap_ranges" THEN d.n + l ELSE Moves!NotWritten)
  BY <1>1, BeforeIs DEF InRange, InBuffer, InOutput
<1> HIDE DEF M
<1>8. Moves!MayRun(M, L, L.lo, L.hi)
  BY <1>1, <1>4, <1>7 DEF Moves!MayRun, InPlace, Moves!Raw, Moves!NotWritten, Visits
<1>9. ASSUME NEW y, Shape(y, d.n), Ran(M, L, Iters(L), y) PROVE Stands(d, 2, y)
  <2> SUFFICES ASSUME NEW l \in 0..(d.n - 1)
               PROVE  y["range"][l] = InRange(d, 2, l) /\ y["buffer"][l] = InBuffer(d, 2, l) /\ y["output"][l] = InOutput(d, 2, l)
    BY <1>9 DEF Stands
  <2>1. Walked(M, L, y, l, does, "range", to)
    <3> HIDE DEF does, to
    <3> QED BY <1>1, <1>4, <1>7, <1>9, WalkRan
  <2>2. L.does = does /\ L.from = "range" /\ L.to = to /\ L.at[l][1] = l /\ L.at[l][2] = l
    BY <1>4 DEF InPlace
  <2>3. y["buffer"][l] = InBuffer(d, 2, l)
    BY <2>1, <1>7 DEF Walked, InBuffer, Memories, Visits
  <2>4. Moves!Put(M, L, l) = CASE d.alg \in {"for_each", "transform"} -> Moves!Applied(l) [] d.alg = "fill" -> Moves!Filled
                               [] d.alg = "destroy" -> Moves!Raw [] OTHER -> l
    BY <1>7, <2>2 DEF Moves!Put, Visits
  <2>5. y["range"][l] = InRange(d, 2, l)
    BY <1>7, <2>1, <2>2, <2>4 DEF Walked, InRange, Moves!LeftBehind, Memories, Visits
  <2>6. y["output"][l] = InOutput(d, 2, l)
    BY <1>7, <2>1, <2>2, <2>4 DEF Walked, InOutput, Memories, Visits
  <2> QED BY <2>3, <2>5, <2>6
<1>10. 1 + 1 = 2
  OBVIOUS
<1> QED
  BY <1>3, <1>6, <1>8, <1>9, <1>10 DEF LoopOK, M

LEMMA BeforeStands ==
  ASSUME NEW d, NEW q
  PROVE  Stands(d, q, Before(d, q))
BY BeforeIs DEF Stands

LEMMA ReverseIsOK ==
  ASSUME NEW d, ACall(d), d.alg = "reverse"
  PROVE  Len(Moves!Loops(d)) = 1 /\ LoopOK(d, 1)
<1> DEFINE n == d.n
           h == n \div 2
           L == Moves!Mirror("swap", 0, h, "range", "range", n)
           M == Before(d, 1)
<1>1. n \in Nat /\ "range" \in Memories /\ h \in Nat /\ 2 * h <= n /\ n - 2 * h < 2
  <2>1. n \in Nat
    BY DEF ACall
  <2> HIDE DEF n
  <2> QED BY <2>1, Division DEF Memories
<1>2. Moves!Loops(d) = << L >>
  BY DEF Moves!Loops, Moves!ReverseLoops
<1>3. Len(Moves!Loops(d)) = 1 /\ Moves!Loops(d)[1] = L
  BY <1>2
<1>4. /\ L.does = "swap" /\ L.lo = 0 /\ L.hi = h /\ L.from = "range" /\ L.to = "range"
      /\ \A l \in 0..(h - 1) : L.at[l][1] = l /\ L.at[l][2] = n - 1 - l
  BY DEF Moves!Mirror, Moves!Loop
<1>5. Shape(M, n) /\ Stands(d, 1, M)
  BY BeforeStands DEF Stands
<1>6. \A l \in 0..(n - 1) : M["range"][l] = l /\ M["buffer"][l] = Moves!Raw /\ M["output"][l] = Moves!NotWritten
  BY <1>5 DEF Stands, InRange, InBuffer, InOutput
<1> HIDE DEF L, M, h
<1>7. Independent(L, n)
  <2>1. SlotsExist(L, n)
    BY <1>1, <1>4 DEF SlotsExist, Iters
  <2>2. \A l \in Iters(L), k \in Iters(L) : l # k =>
          L.at[l][2] # L.at[k][2] /\ L.at[l][2] # L.at[k][1] /\ L.at[l][1] # L.at[k][1]
    BY <1>1, <1>4 DEF Iters
  <2>3. L.from = L.to /\ L.does # "pair"
    BY <1>4
  <2> QED BY <2>1, <2>2, <2>3, WithinMemory
<1>8. Moves!MayRun(M, L, L.lo, L.hi)
  BY <1>1, <1>4, <1>6 DEF Moves!MayRun, Moves!Raw
<1>9. ASSUME NEW y, Shape(y, n), Ran(M, L, Iters(L), y) PROVE Stands(d, 2, y)
  <2> SUFFICES ASSUME NEW l \in 0..(n - 1)
               PROVE  y["range"][l] = n - 1 - l /\ y["buffer"][l] = Moves!Raw /\ y["output"][l] = Moves!NotWritten
    BY <1>9 DEF Stands, InRange, InBuffer, InOutput
  <2>1. \A m \in Memories : (\A k \in Iters(L) : ~Writes(L, k, m, l)) => y[m][l] = M[m][l]
    BY <1>5, <1>9 DEF Ran, Shape
  <2>2. y["buffer"][l] = Moves!Raw /\ y["output"][l] = Moves!NotWritten
    BY <1>4, <1>6, <2>1 DEF Writes, Memories
  <2>3. \A k \in 0..(h - 1) : y["range"][n - 1 - k] = k /\ y["range"][k] = n - 1 - k
    <3> SUFFICES ASSUME NEW k \in 0..(h - 1) PROVE y["range"][n - 1 - k] = k /\ y["range"][k] = n - 1 - k
      OBVIOUS
    <3>1. k \in Iters(L) /\ L.at[k][1] = k /\ L.at[k][2] = n - 1 - k
      BY <1>4 DEF Iters
    <3>2. y["range"][n - 1 - k] = Moves!Put(M, L, k) /\ y["range"][k] = Moves!LeftBehind(M, L, k)
      BY <1>4, <1>9, <3>1 DEF Ran, TakesBoth
    <3>3. k \in 0..(n - 1) /\ n - 1 - k \in 0..(n - 1)
      BY <1>1
    <3> QED BY <1>4, <1>6, <3>1, <3>2, <3>3 DEF Moves!Put, Moves!LeftBehind
  <2>4. CASE l < h
    BY <1>1, <2>2, <2>3, <2>4
  <2>5. CASE l >= n - h
    <3>1. n - 1 - l \in 0..(h - 1) /\ n - 1 - (n - 1 - l) = l
      BY <1>1, <2>5
    <3> QED BY <2>2, <2>3, <3>1
  <2>6. CASE h <= l /\ l < n - h
    <3>1. l = n - 1 - l
      BY <1>1, <2>6
    <3>2. \A k \in Iters(L) : ~Writes(L, k, "range", l)
      BY <1>1, <1>4, <2>6 DEF Writes, Iters
    <3> QED BY <1>6, <2>1, <2>2, <3>1, <3>2 DEF Memories
  <2> QED BY <1>1, <2>4, <2>5, <2>6
<1>10. 1 + 1 = 2
  OBVIOUS
<1> QED
  BY <1>3, <1>7, <1>8, <1>9, <1>10 DEF LoopOK, M

(* The loops that copy the whole range to the output in another order.              *)
LEMMA CopiesAreOK ==
  ASSUME NEW d, ACall(d), d.alg \in {"reverse_copy", "rotate_copy"}
  PROVE  Len(Moves!Loops(d)) = 1 /\ LoopOK(d, 1)
<1> DEFINE n == d.n
           Goes(l) == IF d.alg = "reverse_copy" THEN n - 1 - l ELSE IF l < d.k THEN n - d.k + l ELSE l - d.k
           Comes(l) == IF d.alg = "reverse_copy" THEN n - 1 - l ELSE Turned(d, l)
           L == Moves!Loops(d)[1]
           M == Before(d, 1)
<1>1. n \in Nat /\ d.k \in Nat /\ (d.alg = "rotate_copy" => d.k <= n) /\ "range" \in Memories /\ "output" \in Memories
  BY DEF ACall, IsCall, Memories
<1>2. Len(Moves!Loops(d)) = 1
  BY SMTT(30) DEF Moves!Loops, Moves!ReverseCopyLoops, Moves!RotateCopyLoops
<1>3. /\ L.does = "copy" /\ L.lo = 0 /\ L.hi = n /\ L.from = "range" /\ L.to = "output"
      /\ \A l \in 0..(n - 1) : L.at[l][1] = l /\ L.at[l][2] = Goes(l)
  BY DEF Moves!Loops, Moves!ReverseCopyLoops, Moves!RotateCopyLoops, Moves!Mirror, Moves!Loop
<1>4. \A l \in 0..(n - 1) : Goes(l) \in 0..(n - 1) /\ Comes(l) \in 0..(n - 1) /\ Goes(Comes(l)) = l /\ Comes(Goes(l)) = l
  BY <1>1 DEF Turned
<1>5. Shape(M, n) /\ Stands(d, 1, M)
  BY BeforeStands DEF Stands
<1>6. \A l \in 0..(n - 1) : M["range"][l] = l /\ M["buffer"][l] = Moves!Raw /\ M["output"][l] = Moves!NotWritten
  BY <1>5 DEF Stands, InRange, InBuffer, InOutput
<1>7. \A l \in 0..(n - 1) : InRange(d, 2, l) = l /\ InBuffer(d, 2, l) = Moves!Raw /\ InOutput(d, 2, l) = Comes(l)
  BY DEF InRange, InBuffer, InOutput
<1> HIDE DEF L, M, Goes, Comes
<1>8. Independent(L, n)
  <2>1. SlotsExist(L, n)
    BY <1>1, <1>3, <1>4 DEF SlotsExist, Iters, TakesBoth
  <2>2. \A l \in Iters(L), k \in Iters(L) : l # k => L.at[l][2] # L.at[k][2]
    BY <1>1, <1>3, <1>4 DEF Iters
  <2>3. L.from # L.to /\ L.does # "pair" /\ ~TakesBoth(L)
    BY <1>3 DEF TakesBoth
  <2> QED BY <2>1, <2>2, <2>3, BetweenMemories
<1>9. Moves!MayRun(M, L, L.lo, L.hi)
  BY <1>1, <1>3, <1>4, <1>6 DEF Moves!MayRun
<1>10. ASSUME NEW y, Shape(y, n), Ran(M, L, Iters(L), y) PROVE Stands(d, 2, y)
  <2> SUFFICES ASSUME NEW l \in 0..(n - 1)
               PROVE  y["range"][l] = l /\ y["buffer"][l] = Moves!Raw /\ y["output"][l] = Comes(l)
    BY <1>7, <1>10 DEF Stands
  <2>1. \A m \in Memories : (\A k \in Iters(L) : ~Writes(L, k, m, l)) => y[m][l] = M[m][l]
    BY <1>5, <1>10 DEF Ran, Shape
  <2>2. y["buffer"][l] = Moves!Raw /\ y["range"][l] = l
    BY <1>3, <1>6, <2>1 DEF Writes, Memories, TakesBoth
  <2>3. PICK k \in 0..(n - 1) : k = Comes(l)
    BY <1>4
  <2>4. k \in Iters(L) /\ L.at[k][2] = l /\ L.at[k][1] = k
    BY <1>3, <1>4, <2>3 DEF Iters
  <2>5. y["output"][l] = Moves!Put(M, L, k)
    BY <1>3, <1>10, <2>4 DEF Ran
  <2> QED BY <1>3, <1>6, <2>2, <2>3, <2>4, <2>5 DEF Moves!Put
<1>11. 1 + 1 = 2
  OBVIOUS
<1> QED
  BY <1>2, <1>8, <1>9, <1>10, <1>11 DEF LoopOK, M, L

(* The loops over pairs of elements.                                                *)
LEMMA PairsAreOK ==
  ASSUME NEW d, ACall(d), d.alg = "transform_pairs"
  PROVE  Len(Moves!Loops(d)) = 1 /\ LoopOK(d, 1)
<1> DEFINE n == d.n
           L == Moves!Loops(d)[1]
           M == Before(d, 1)
<1>1. n \in Nat /\ d.k \in Nat /\ d.k <= n /\ "range" \in Memories /\ "output" \in Memories
  BY DEF ACall, IsCall, Memories
<1>2. Len(Moves!Loops(d)) = 1
  BY DEF Moves!Loops, Moves!TransformPairsLoops
<1>3. /\ L.does = "pair" /\ L.lo = 0 /\ L.hi = n - d.k /\ L.from = "range" /\ L.to = "output"
      /\ \A l \in 0..(n - d.k - 1) : L.at[l][1] = l /\ L.at[l][2] = l /\ L.at[l][3] = l + d.k
  BY DEF Moves!Loops, Moves!TransformPairsLoops, Moves!Loop
<1>4. Shape(M, n) /\ Stands(d, 1, M)
  BY BeforeStands DEF Stands
<1>5. \A l \in 0..(n - 1) : M["range"][l] = l /\ M["buffer"][l] = Moves!Raw /\ M["output"][l] = Moves!NotWritten
  BY <1>4 DEF Stands, InRange, InBuffer, InOutput
<1>6. \A l \in 0..(n - 1) : InRange(d, 2, l) = l /\ InBuffer(d, 2, l) = Moves!Raw
        /\ InOutput(d, 2, l) = IF l < n - d.k THEN Moves!Both(l, l + d.k) ELSE Moves!NotWritten
  BY DEF InRange, InBuffer, InOutput
<1> HIDE DEF L, M
<1>7. Independent(L, n)
  <2>1. SlotsExist(L, n)
    BY <1>1, <1>3 DEF SlotsExist, Iters, TakesBoth
  <2>2. \A l \in Iters(L), k \in Iters(L) : l # k => L.at[l][2] # L.at[k][2]
    BY <1>1, <1>3 DEF Iters
  <2>3. L.from # L.to /\ ~TakesBoth(L)
    BY <1>3 DEF TakesBoth
  <2> QED BY <2>1, <2>2, <2>3, BetweenMemories
<1>8. Moves!MayRun(M, L, L.lo, L.hi)
  BY <1>1, <1>3, <1>5 DEF Moves!MayRun
<1>9. ASSUME NEW y, Shape(y, n), Ran(M, L, Iters(L), y) PROVE Stands(d, 2, y)
  <2> SUFFICES ASSUME NEW l \in 0..(n - 1)
               PROVE  y["range"][l] = l /\ y["buffer"][l] = Moves!Raw
                      /\ y["output"][l] = IF l < n - d.k THEN Moves!Both(l, l + d.k) ELSE Moves!NotWritten
    BY <1>6, <1>9 DEF Stands
  <2>1. \A m \in Memories : (\A k \in Iters(L) : ~Writes(L, k, m, l)) => y[m][l] = M[m][l]
    BY <1>4, <1>9 DEF Ran, Shape
  <2>2. y["buffer"][l] = Moves!Raw /\ y["range"][l] = l
    BY <1>3, <1>5, <2>1 DEF Writes, Memories, TakesBoth
  <2>3. CASE l < n - d.k
    <3>1. l \in Iters(L) /\ L.at[l][1] = l /\ L.at[l][2] = l /\ L.at[l][3] = l + d.k /\ l + d.k \in 0..(n - 1)
      BY <1>1, <1>3, <2>3 DEF Iters
    <3>2. y["output"][l] = Moves!Put(M, L, l)
      BY <1>3, <1>9, <3>1 DEF Ran
    <3> QED BY <1>3, <1>5, <2>2, <2>3, <3>1, <3>2 DEF Moves!Put
  <2>4. CASE ~(l < n - d.k)
    <3>1. \A k \in Iters(L) : ~Writes(L, k, "output", l)
      BY <1>1, <1>3, <2>4 DEF Iters, Writes, TakesBoth
    <3> QED BY <1>5, <2>1, <2>2, <2>4, <3>1 DEF Memories
  <2> QED BY <2>3, <2>4
<1>10. 1 + 1 = 2
  OBVIOUS
<1> QED
  BY <1>2, <1>7, <1>8, <1>9, <1>10 DEF LoopOK, M, L

LEMMA DifferencesAreOK ==
  ASSUME NEW d, ACall(d), d.alg = "adjacent_difference"
  PROVE  Len(Moves!Loops(d)) \in Nat /\ \A q \in 1..Len(Moves!Loops(d)) : LoopOK(d, q)
<1> DEFINE n == d.n
           L1 == Moves!Loops(d)[1]
           L2 == Moves!Loops(d)[2]
           M1 == Before(d, 1)
           M2 == Before(d, 2)
<1>1. n \in Nat /\ "range" \in Memories /\ "output" \in Memories
  BY DEF ACall, Memories
<1>2. CASE n = 0
  BY <1>2 DEF Moves!Loops, Moves!AdjacentDifferenceLoops
<1>3. CASE n # 0
  <2>1. Len(Moves!Loops(d)) = 2
    BY <1>3 DEF Moves!Loops, Moves!AdjacentDifferenceLoops
  <2>2. L1.does = "copy" /\ L1.lo = 0 /\ L1.hi = 1 /\ L1.from = "range" /\ L1.to = "output"
        /\ L1.at[0][1] = 0 /\ L1.at[0][2] = 0
    BY <1>3 DEF Moves!Loops, Moves!AdjacentDifferenceLoops, Moves!Shift, Moves!Loop
  <2>3. L2.does = "pair" /\ L2.lo = 0 /\ L2.hi = n - 1 /\ L2.from = "range" /\ L2.to = "output"
        /\ \A l \in 0..(n - 2) : L2.at[l][1] = l + 1 /\ L2.at[l][2] = l + 1 /\ L2.at[l][3] = l
    BY <1>3 DEF Moves!Loops, Moves!AdjacentDifferenceLoops, Moves!Loop
  <2>4. Shape(M1, n) /\ Stands(d, 1, M1) /\ Shape(M2, n) /\ Stands(d, 2, M2)
    BY BeforeStands DEF Stands
  <2>5. \A l \in 0..(n - 1) :
          /\ M1["range"][l] = l /\ M1["buffer"][l] = Moves!Raw /\ M1["output"][l] = Moves!NotWritten
          /\ M2["range"][l] = l /\ M2["buffer"][l] = Moves!Raw
          /\ M2["output"][l] = IF l = 0 THEN 0 ELSE Moves!NotWritten
    BY <2>4 DEF Stands, InRange, InBuffer, InOutput
  <2>6. \A l \in 0..(n - 1) : /\ InRange(d, 2, l) = l /\ InBuffer(d, 2, l) = Moves!Raw
                              /\ InOutput(d, 2, l) = IF l = 0 THEN 0 ELSE Moves!NotWritten
    BY DEF InRange, InBuffer, InOutput
  <2>7. \A l \in 0..(n - 1) : /\ InRange(d, 3, l) = l /\ InBuffer(d, 3, l) = Moves!Raw
                              /\ InOutput(d, 3, l) = IF l = 0 THEN 0 ELSE Moves!Both(l, l - 1)
    BY DEF InRange, InBuffer, InOutput
  <2> HIDE DEF L1, L2, M1, M2
  <2>8. Iters(L1) = {0} /\ \A l \in Iters(L1) : L1.at[l][1] = 0 /\ L1.at[l][2] = 0
    BY <2>2 DEF Iters
  <2>9. Iters(L2) = 0..(n - 2)
    BY <1>1, <2>3 DEF Iters
  <2>10. Independent(L1, n) /\ Independent(L2, n)
    <3>1. SlotsExist(L1, n)
      BY <1>1, <1>3, <2>2, <2>8 DEF SlotsExist, TakesBoth
    <3>2. SlotsExist(L2, n)
      BY SMTT(30), <1>1, <1>3, <2>3, <2>9 DEF SlotsExist, TakesBoth
    <3>3. L1.from # L1.to /\ ~TakesBoth(L1) /\ L2.from # L2.to /\ ~TakesBoth(L2)
      BY <2>2, <2>3 DEF TakesBoth
    <3>4. \A l \in Iters(L1), k \in Iters(L1) : l # k => L1.at[l][2] # L1.at[k][2]
      BY <2>8
    <3>5. \A l \in Iters(L2), k \in Iters(L2) : l # k => L2.at[l][2] # L2.at[k][2]
      BY <1>1, <2>3, <2>9
    <3>6. Independent(L1, n)
      BY <3>1, <3>3, <3>4, BetweenMemories
    <3>7. Independent(L2, n)
      BY <3>2, <3>3, <3>5, BetweenMemories
    <3> QED BY <3>6, <3>7
  <2>11. Moves!MayRun(M1, L1, L1.lo, L1.hi)
    <3>1. \A l \in 0..(1 - 1) : l = 0
      OBVIOUS
    <3>2. 0 \in 0..(n - 1)
      BY <1>1, <1>3
    <3> QED BY <2>2, <2>5, <3>1, <3>2 DEF Moves!MayRun
  <2>12. Moves!MayRun(M2, L2, L2.lo, L2.hi)
    <3> SUFFICES ASSUME NEW l \in 0..(n - 2)
                 PROVE  M2["range"][l + 1] >= 0 /\ M2["range"][l] >= 0 /\ M2["output"][l + 1] = Moves!NotWritten
      BY <1>1, <2>3 DEF Moves!MayRun
    <3>1. l \in 0..(n - 1) /\ l + 1 \in 0..(n - 1) /\ l + 1 # 0 /\ l + 1 >= 0 /\ l >= 0
      BY <1>1
    <3> QED BY <2>5, <3>1
  <2>13. ASSUME NEW y, Shape(y, n), Ran(M1, L1, Iters(L1), y) PROVE Stands(d, 2, y)
    <3> SUFFICES ASSUME NEW l \in 0..(n - 1)
                 PROVE  y["range"][l] = l /\ y["buffer"][l] = Moves!Raw
                        /\ y["output"][l] = IF l = 0 THEN 0 ELSE Moves!NotWritten
      BY <2>6, <2>13 DEF Stands
    <3>1. \A m \in Memories : (\A k \in Iters(L1) : ~Writes(L1, k, m, l)) => y[m][l] = M1[m][l]
      BY <2>4, <2>13 DEF Ran, Shape
    <3>2. y["buffer"][l] = Moves!Raw /\ y["range"][l] = l
      BY <2>2, <2>5, <3>1 DEF Writes, Memories, TakesBoth
    <3>3. CASE l = 0
      BY <2>2, <2>5, <2>8, <2>13, <3>2, <3>3 DEF Ran, Moves!Put
    <3>4. CASE l # 0
      <4>1. \A k \in Iters(L1) : ~Writes(L1, k, "output", l)
        BY <2>2, <2>8, <3>4 DEF Writes, TakesBoth
      <4> QED BY <2>5, <3>1, <3>2, <3>4, <4>1 DEF Memories
    <3> QED BY <3>3, <3>4
  <2>14. ASSUME NEW y, Shape(y, n), Ran(M2, L2, Iters(L2), y) PROVE Stands(d, 3, y)
    <3> SUFFICES ASSUME NEW l \in 0..(n - 1)
                 PROVE  y["range"][l] = l /\ y["buffer"][l] = Moves!Raw
                        /\ y["output"][l] = IF l = 0 THEN 0 ELSE Moves!Both(l, l - 1)
      BY <2>7, <2>14 DEF Stands
    <3>1. \A m \in Memories : (\A k \in Iters(L2) : ~Writes(L2, k, m, l)) => y[m][l] = M2[m][l]
      BY <2>4, <2>14 DEF Ran, Shape
    <3>2. y["buffer"][l] = Moves!Raw /\ y["range"][l] = l
      BY <2>3, <2>5, <3>1 DEF Writes, Memories, TakesBoth
    <3>3. CASE l = 0
      <4>1. \A k \in Iters(L2) : ~Writes(L2, k, "output", l)
        BY <2>3, <2>9, <3>3 DEF Writes, TakesBoth
      <4> QED BY <2>5, <3>1, <3>2, <3>3, <4>1 DEF Memories
    <3>4. CASE l # 0
      <4>1. PICK k \in 0..(n - 2) : k = l - 1
        BY <1>1, <3>4
      <4>2. k \in Iters(L2) /\ L2.at[k][1] = l /\ L2.at[k][2] = l /\ L2.at[k][3] = l - 1 /\ l - 1 \in 0..(n - 1)
        BY <1>1, <2>3, <2>9, <4>1
      <4>3. y["output"][l] = Moves!Put(M2, L2, k)
        BY <2>3, <2>14, <4>2 DEF Ran
      <4> QED BY <2>3, <2>5, <3>2, <3>4, <4>2, <4>3 DEF Moves!Put
    <3> QED BY <3>3, <3>4
  <2>15. 1 + 1 = 2 /\ 2 + 1 = 3
    OBVIOUS
  <2>16. LoopOK(d, 1)
    BY <2>10, <2>11, <2>13, <2>15 DEF LoopOK, M1, L1
  <2>17. LoopOK(d, 2)
    BY <2>10, <2>12, <2>14, <2>15 DEF LoopOK, M2, L2
  <2>18. \A q \in 1..2 : q = 1 \/ q = 2
    OBVIOUS
  <2> QED
    BY <2>1, <2>16, <2>17, <2>18
<1> QED
  BY <1>2, <1>3

(* A loop that moves elements by a fixed distance, in a sequence that may be walked *)
(* from its end.                                                                    *)
Flip(mir, n, l) == IF mir THEN n - 1 - l ELSE l

MovesBy(L, n, mir, from, to, by) ==
  /\ L.does = "move" /\ L.from = from /\ L.to = to /\ from \in Memories /\ to \in Memories
  /\ L.lo \in Nat /\ L.hi \in Int /\ by \in Int
  /\ \A l \in Iters(L) : /\ l \in 0..(n - 1) /\ l + by \in 0..(n - 1)
                         /\ L.at[l][1] = Flip(mir, n, l) /\ L.at[l][2] = Flip(mir, n, l + by)
  /\ from # to \/ by >= L.hi - L.lo \/ -by >= L.hi - L.lo

Gone(from) == IF from = "buffer" THEN Moves!Raw ELSE Moves!MovedFrom

LEMMA FlipFacts ==
  ASSUME NEW mir, NEW n \in Nat, NEW l \in 0..(n - 1)
  PROVE  /\ Flip(mir, n, l) \in 0..(n - 1)
         /\ Flip(mir, n, Flip(mir, n, l)) = l
         /\ \A k \in 0..(n - 1) : Flip(mir, n, k) = Flip(mir, n, l) => k = l
BY DEF Flip

LEMMA MovesByIsIndependent ==
  ASSUME NEW n \in Nat, NEW L, NEW mir, NEW from, NEW to, NEW by, MovesBy(L, n, mir, from, to, by)
  PROVE  Independent(L, n)
<1>1. by \in Int /\ L.from = from /\ L.to = to /\ L.does = "move" /\ TakesBoth(L) /\ L.lo \in Nat /\ L.hi \in Int
  BY DEF MovesBy, TakesBoth
<1>2. \A l \in Iters(L) : /\ l \in 0..(n - 1) /\ l + by \in 0..(n - 1)
                          /\ L.at[l][1] = Flip(mir, n, l) /\ L.at[l][2] = Flip(mir, n, l + by)
  BY DEF MovesBy
<1>3. from = to => \A l \in Iters(L), k \in Iters(L) : l + by # k
  BY <1>1 DEF MovesBy, Iters
<1>4. SlotsExist(L, n)
  <2>1. from \in Memories /\ to \in Memories
    BY DEF MovesBy
  <2>2. \A l \in Iters(L) : L.at[l][1] \in 0..(n - 1) /\ L.at[l][2] \in 0..(n - 1)
    BY <1>2, FlipFacts
  <2>3. \A l \in Iters(L) : from # to \/ L.at[l][1] # L.at[l][2]
    <3> SUFFICES ASSUME NEW l \in Iters(L), from = to PROVE L.at[l][1] # L.at[l][2]
      OBVIOUS
    <3>1. l # l + by
      BY <1>1, <1>2, <1>3
    <3> QED BY <1>2, <3>1, FlipFacts
  <2> QED BY <1>1, <2>1, <2>2, <2>3 DEF SlotsExist
<1>5. ASSUME NEW l \in Iters(L), NEW k \in Iters(L), l # k
      PROVE  /\ L.at[l][2] # L.at[k][2] /\ L.at[l][1] # L.at[k][1]
             /\ from = to => L.at[l][2] # L.at[k][1]
  <2>1. l + by # k + by /\ (from = to => l + by # k)
    BY <1>1, <1>2, <1>3, <1>5
  <2> QED BY <1>2, <1>5, <2>1, FlipFacts
<1>6. L.does # "pair"
  BY <1>1
<1> QED
  BY <1>1, <1>4, <1>5, <1>6, BetweenMemories, WithinMemory

\* What slot p of each memory holds when such a loop has run.
Moved(M, L, n, mir, from, to, by, y, p) ==
  LET s == Flip(mir, n, p)
  IN  /\ y[to][s] = IF p - by \in Iters(L) THEN M[from][Flip(mir, n, p - by)]
                    ELSE IF from = to /\ p \in Iters(L) THEN Gone(from)
                    ELSE M[to][s]
      /\ from # to => y[from][s] = IF p \in Iters(L) THEN Gone(from) ELSE M[from][s]
      /\ \A m \in Memories \ {from, to} : y[m][s] = M[m][s]

LEMMA MovesByRan ==
  ASSUME NEW n \in Nat, NEW L, NEW mir, NEW from, NEW to, NEW by, MovesBy(L, n, mir, from, to, by),
         NEW M, Shape(M, n), NEW y, Ran(M, L, Iters(L), y), NEW p \in 0..(n - 1)
  PROVE  Moved(M, L, n, mir, from, to, by, y, p)
<1>1. by \in Int /\ L.from = from /\ L.to = to /\ L.does = "move" /\ TakesBoth(L)
      /\ from \in Memories /\ to \in Memories
  BY DEF MovesBy, TakesBoth
<1>2. \A l \in Iters(L) : /\ l \in 0..(n - 1) /\ l + by \in 0..(n - 1)
                          /\ L.at[l][1] = Flip(mir, n, l) /\ L.at[l][2] = Flip(mir, n, l + by)
  BY DEF MovesBy
<1>3. PICK s \in 0..(n - 1) : s = Flip(mir, n, p)
  BY FlipFacts
<1>4. ASSUME NEW l \in Iters(L)
      PROVE  Moves!Put(M, L, l) = M[from][Flip(mir, n, l)] /\ Moves!LeftBehind(M, L, l) = Gone(from)
  BY <1>1, <1>2 DEF Moves!Put, Moves!LeftBehind, Gone
<1>5. \A m \in Memories : (\A k \in Iters(L) : ~Writes(L, k, m, s)) => y[m][s] = M[m][s]
  BY DEF Ran, Shape
<1>6. \A k \in Iters(L) : (L.at[k][2] = s <=> k = p - by) /\ (L.at[k][1] = s <=> k = p)
  <2> SUFFICES ASSUME NEW k \in Iters(L) PROVE (L.at[k][2] = s <=> k = p - by) /\ (L.at[k][1] = s <=> k = p)
    OBVIOUS
  <2>1. L.at[k][2] = s <=> k + by = p
    BY <1>2, <1>3, FlipFacts
  <2>2. k \in Int /\ (k + by = p <=> k = p - by)
    BY <1>1, <1>2
  <2> QED BY <1>2, <1>3, <2>1, <2>2, FlipFacts
<1>8. p \in Iters(L) => y[from][s] = Gone(from)
  BY <1>1, <1>4, <1>6 DEF Ran
<1>9. y[to][s] = IF p - by \in Iters(L) THEN M[from][Flip(mir, n, p - by)]
                 ELSE IF from = to /\ p \in Iters(L) THEN Gone(from)
                 ELSE M[to][s]
  <2>1. p - by \in Iters(L) => y[to][s] = M[from][Flip(mir, n, p - by)]
    BY <1>1, <1>4, <1>6 DEF Ran
  <2>2. p - by \notin Iters(L) /\ ~(from = to /\ p \in Iters(L)) => y[to][s] = M[to][s]
    BY <1>1, <1>5, <1>6 DEF Writes
  <2> QED BY <1>8, <2>1, <2>2
<1>10. from # to => y[from][s] = IF p \in Iters(L) THEN Gone(from) ELSE M[from][s]
  BY <1>1, <1>5, <1>6, <1>8 DEF Writes
<1>11. \A m \in Memories \ {from, to} : y[m][s] = M[m][s]
  BY <1>1, <1>5 DEF Writes
<1> QED
  BY <1>3, <1>9, <1>10, <1>11 DEF Moved
\* What is in slot s of memory m when loop q of a call begins.
Slot(d, q, m, s) ==
  IF m = "range" THEN InRange(d, q, s) ELSE IF m = "buffer" THEN InBuffer(d, q, s) ELSE InOutput(d, q, s)

\* The loop's elements are there, and what the next loop begins with is what moving
\* them leaves.
MovesOn(d, q, its, mir, from, to, by) ==
  /\ \A l \in its : LET target == Slot(d, q, to, Flip(mir, d.n, l + by))
                    IN  /\ Slot(d, q, from, Flip(mir, d.n, l)) >= 0
                        /\ to = "buffer" => target = Moves!Raw
                        /\ to = "range" => target # Moves!Raw
  /\ \A p \in 0..(d.n - 1) :
       LET s == Flip(mir, d.n, p)
       IN  /\ Slot(d, q + 1, to, s) = IF p - by \in its THEN Slot(d, q, from, Flip(mir, d.n, p - by))
                                      ELSE IF from = to /\ p \in its THEN Gone(from)
                                      ELSE Slot(d, q, to, s)
           /\ from # to => Slot(d, q + 1, from, s) = IF p \in its THEN Gone(from) ELSE Slot(d, q, from, s)
           /\ \A m \in Memories \ {from, to} : Slot(d, q + 1, m, s) = Slot(d, q, m, s)

LEMMA MovingLoopIsOK ==
  ASSUME NEW d, d.n \in Nat, NEW q, NEW mir, NEW from, NEW to, NEW by,
         MovesBy(Moves!Loops(d)[q], d.n, mir, from, to, by), to # "output",
         MovesOn(d, q, Iters(Moves!Loops(d)[q]), mir, from, to, by)
  PROVE  LoopOK(d, q)
<1> DEFINE n == d.n
           L == Moves!Loops(d)[q]
           M == Before(d, q)
<1>1. Independent(L, n)
  BY MovesByIsIndependent
<1>2. Shape(M, n) /\ \A m \in Memories : \A s \in 0..(n - 1) : M[m][s] = Slot(d, q, m, s)
  BY BeforeIs DEF Slot, Memories
<1>3. from \in Memories /\ to \in Memories /\ by \in Int
  BY DEF MovesBy
<1>4. \A l \in Iters(L) : l \in 0..(n - 1) /\ l + by \in 0..(n - 1)
        /\ L.at[l][1] = Flip(mir, n, l) /\ L.at[l][2] = Flip(mir, n, l + by)
  BY DEF MovesBy
<1> HIDE DEF M
<1>5. Moves!MayRun(M, L, L.lo, L.hi)
  <2> SUFFICES ASSUME NEW l \in Iters(L)
               PROVE  LET target == M[L.to][L.at[l][2]]
                      IN  /\ M[L.from][L.at[l][1]] >= 0
                          /\ L.does = "pair" => M[L.from][L.at[l][3]] >= 0
                          /\ L.to = "buffer" => target = Moves!Raw
                          /\ L.to = "range" => target # Moves!Raw
                          /\ L.to = "output" /\ L.does # "swap" => target = Moves!NotWritten
    BY DEF Moves!MayRun, Iters
  <2>1. L.from = from /\ L.to = to /\ L.does = "move"
    BY DEF MovesBy
  <2>2. M[from][L.at[l][1]] = Slot(d, q, from, Flip(mir, n, l)) /\ M[to][L.at[l][2]] = Slot(d, q, to, Flip(mir, n, l + by))
    BY <1>2, <1>3, <1>4, FlipFacts
  <2> QED BY SMTT(30), <2>1, <2>2 DEF MovesOn
<1>6. ASSUME NEW y, Shape(y, n), Ran(M, L, Iters(L), y) PROVE Stands(d, q + 1, y)
  <2> SUFFICES ASSUME NEW s \in 0..(n - 1) PROVE \A m \in Memories : y[m][s] = Slot(d, q + 1, m, s)
    BY <1>6 DEF Stands, Slot, Memories
  <2>1. PICK p \in 0..(n - 1) : p = Flip(mir, n, s)
    BY FlipFacts
  <2>2. Flip(mir, n, p) = s
    BY <2>1, FlipFacts
  <2>3. Moved(M, L, n, mir, from, to, by, y, p)
    BY <1>2, <1>6, MovesByRan
  <2>4. p - by \in Iters(L) => M[from][Flip(mir, n, p - by)] = Slot(d, q, from, Flip(mir, n, p - by))
    BY <1>2, <1>3, <1>4, FlipFacts
  <2>5. y[to][s] = Slot(d, q + 1, to, s)
    BY <1>2, <1>3, <2>2, <2>3, <2>4 DEF Moved, MovesOn
  <2>6. from # to => y[from][s] = Slot(d, q + 1, from, s)
    BY <1>2, <1>3, <2>2, <2>3 DEF Moved, MovesOn
  <2>7. \A m \in Memories \ {from, to} : y[m][s] = Slot(d, q + 1, m, s)
    BY <1>2, <1>3, <2>2, <2>3 DEF Moved, MovesOn
  <2> QED BY <2>5, <2>6, <2>7
<1> QED
  BY <1>1, <1>5, <1>6 DEF LoopOK, M

\* The same of a loop that walks the sequence from its beginning.
ReadyAt(d, q, its, from, to, by) ==
  \A l \in its : /\ Slot(d, q, from, l) >= 0
                 /\ to = "buffer" => Slot(d, q, to, l + by) = Moves!Raw
                 /\ to = "range" => Slot(d, q, to, l + by) # Moves!Raw

MovedAt(d, q, its, from, to, by, p) ==
  /\ Slot(d, q + 1, to, p) = IF p - by \in its THEN Slot(d, q, from, p - by)
                             ELSE IF from = to /\ p \in its THEN Gone(from)
                             ELSE Slot(d, q, to, p)
  /\ from # to => Slot(d, q + 1, from, p) = IF p \in its THEN Gone(from) ELSE Slot(d, q, from, p)
  /\ \A m \in Memories \ {from, to} : Slot(d, q + 1, m, p) = Slot(d, q, m, p)

LEMMA ShiftIsOK ==
  ASSUME NEW d, d.n \in Nat, NEW q, NEW lo \in Nat, NEW hi \in Nat, NEW from \in Memories, NEW to \in Memories,
         NEW by \in Int, hi <= d.n, lo + by >= 0, hi + by <= d.n, to # "output",
         from # to \/ by >= hi - lo \/ -by >= hi - lo,
         Moves!Loops(d)[q] = Moves!Shift("move", lo, hi, from, to, by),
         ReadyAt(d, q, lo..(hi - 1), from, to, by), \A p \in 0..(d.n - 1) : MovedAt(d, q, lo..(hi - 1), from, to, by, p)
  PROVE  LoopOK(d, q)
<1> DEFINE L == Moves!Shift("move", lo, hi, from, to, by)
<1>1. /\ L.does = "move" /\ L.from = from /\ L.to = to /\ L.lo = lo /\ L.hi = hi
      /\ \A l \in lo..(hi - 1) : L.at[l][1] = l /\ L.at[l][2] = l + by
  BY DEF Moves!Shift, Moves!Loop
<1> HIDE DEF L
<1>2. Iters(L) = lo..(hi - 1)
  BY <1>1 DEF Iters
<1>3. MovesBy(L, d.n, FALSE, from, to, by)
  <2> DEFINE n == d.n
  <2>1. n \in Nat /\ hi <= n /\ hi + by <= n
    OBVIOUS
  <2> HIDE DEF n
  <2>2. ASSUME NEW l \in lo..(hi - 1) PROVE l \in 0..(n - 1) /\ l + by \in 0..(n - 1)
    BY <2>1
  <2>3. \A l \in Iters(L) : /\ l \in 0..(n - 1) /\ l + by \in 0..(n - 1)
                           /\ L.at[l][1] = Flip(FALSE, n, l) /\ L.at[l][2] = Flip(FALSE, n, l + by)
    BY <1>1, <1>2, <2>2, Zenon DEF Flip
  <2>4. from # to \/ by >= L.hi - L.lo \/ -by >= L.hi - L.lo
    BY <1>1
  <2>5. L.lo \in Nat /\ L.hi \in Int
    BY <1>1
  <2> QED BY <1>1, <2>3, <2>4, <2>5, Zenon DEF MovesBy, n
<1>4. MovesOn(d, q, lo..(hi - 1), FALSE, from, to, by)
  BY DEF MovesOn, ReadyAt, MovedAt, Flip
<1> QED
  BY <1>2, <1>3, <1>4, MovingLoopIsOK DEF L

LEMMA RotateIsOK ==
  ASSUME NEW d, ACall(d), d.alg = "rotate"
  PROVE  Len(Moves!Loops(d)) = 3 /\ \A q \in 1..3 : LoopOK(d, q)
<1> DEFINE n == d.n
           m == d.k
           h == n \div 2
<1>1. n \in Nat /\ m \in Nat /\ m <= n /\ h \in Nat /\ 2 * h <= n /\ n - 2 * h < 2
      /\ "range" \in Memories /\ "buffer" \in Memories
  <2>1. n \in Nat /\ m \in Nat /\ m <= n
    BY DEF ACall, IsCall, Moves!Rotations
  <2> HIDE DEF n
  <2> QED BY <2>1, Division DEF Memories
<1>2. Len(Moves!Loops(d)) = 3
  BY DEF Moves!Loops, Moves!RotateLoops
<1>3. \A l, q : InOutput(d, q, l) = Moves!NotWritten
  BY DEF InOutput
<1>4. \A q \in 1..3 : q = 1 \/ q = 2 \/ q = 3
  OBVIOUS
<1>5. CASE m <= h
  <2>1. /\ Moves!Loops(d)[1] = Moves!Shift("move", m, n, "range", "buffer", -m)
        /\ Moves!Loops(d)[2] = Moves!Shift("move", 0, m, "range", "range", n - m)
        /\ Moves!Loops(d)[3] = Moves!Shift("move", 0, n - m, "buffer", "range", 0)
    BY <1>5 DEF Moves!Loops, Moves!RotateLoops
  <2>2. \A l : /\ InRange(d, 1, l) = l
               /\ InRange(d, 2, l) = IF l < m THEN l ELSE Moves!MovedFrom
               /\ InRange(d, 3, l) = IF l < n - m THEN Moves!MovedFrom ELSE Turned(d, l)
               /\ InRange(d, 4, l) = Turned(d, l)
               /\ InBuffer(d, 1, l) = Moves!Raw /\ InBuffer(d, 4, l) = Moves!Raw
               /\ InBuffer(d, 2, l) = IF l < n - m THEN l + m ELSE Moves!Raw
               /\ InBuffer(d, 3, l) = IF l < n - m THEN l + m ELSE Moves!Raw
    BY <1>5 DEF InRange, InRotated, InBuffer
  <2>3. m <= n - m
    BY <1>1, <1>5
  <2> HIDE DEF h
  <2>4. LoopOK(d, 1)
    <3>1. Moves!Loops(d)[1] = Moves!Shift("move", m, n, "range", "buffer", -m)
      BY <2>1
    <3>2. ASSUME NEW l \in m..(n - 1)
          PROVE  /\ Slot(d, 1, "range", l) >= 0
                 /\ Slot(d, 1, "buffer", l + (-m)) = Moves!Raw
      BY <1>1, <2>2, <2>3 DEF Slot, Moves!Raw, Moves!MovedFrom
    <3>3. ASSUME NEW p \in 0..(n - 1)
          PROVE  /\ Slot(d, 2, "buffer", p) = IF p - (-m) \in m..(n - 1) THEN Slot(d, 1, "range", p - (-m))
                                              ELSE Slot(d, 1, "buffer", p)
                 /\ Slot(d, 2, "range", p) = IF p \in m..(n - 1) THEN Moves!MovedFrom ELSE Slot(d, 1, "range", p)
                 /\ Slot(d, 2, "output", p) = Slot(d, 1, "output", p)
      BY <1>1, <1>3, <2>2, <2>3 DEF Slot, Turned
    <3>4. ReadyAt(d, 1, m..(n - 1), "range", "buffer", -m)
      BY <3>2 DEF ReadyAt
    <3>5. ASSUME NEW p \in 0..(n - 1) PROVE MovedAt(d, 1, m..(n - 1), "range", "buffer", -m, p)
      <4>1. 1 + 1 = 2
        OBVIOUS
      <4> QED BY <3>3, <4>1 DEF MovedAt, Gone, Memories
    <3>6. m \in Nat /\ n \in Nat /\ -m \in Int /\ n <= n /\ m + (-m) >= 0 /\ n + (-m) <= n
      BY <1>1, <2>3
    <3> QED BY <1>1, <3>1, <3>4, <3>5, <3>6, ShiftIsOK
  <2>5. LoopOK(d, 2)
    <3>1. Moves!Loops(d)[2] = Moves!Shift("move", 0, m, "range", "range", n - m)
      BY <2>1
    <3>2. ASSUME NEW l \in 0..(m - 1)
          PROVE  /\ Slot(d, 2, "range", l) >= 0
                 /\ Slot(d, 2, "range", l + (n - m)) # Moves!Raw
      BY <1>1, <2>2, <2>3 DEF Slot, Moves!Raw, Moves!MovedFrom
    <3>3. ASSUME NEW p \in 0..(n - 1)
          PROVE  /\ Slot(d, 3, "range", p) = IF p - (n - m) \in 0..(m - 1) THEN Slot(d, 2, "range", p - (n - m))
                                              ELSE IF p \in 0..(m - 1) THEN Moves!MovedFrom
                                              ELSE Slot(d, 2, "range", p)
                 /\ Slot(d, 3, "buffer", p) = Slot(d, 2, "buffer", p)
                 /\ Slot(d, 3, "output", p) = Slot(d, 2, "output", p)
      BY <1>1, <1>3, <2>2, <2>3 DEF Slot, Turned
    <3>4. ReadyAt(d, 2, 0..(m - 1), "range", "range", n - m)
      BY <3>2 DEF ReadyAt
    <3>5. ASSUME NEW p \in 0..(n - 1) PROVE MovedAt(d, 2, 0..(m - 1), "range", "range", n - m, p)
      <4>1. 2 + 1 = 3
        OBVIOUS
      <4> QED BY <3>3, <4>1 DEF MovedAt, Gone, Memories
    <3>6. 0 \in Nat /\ m \in Nat /\ n - m \in Int /\ m <= n /\ 0 + (n - m) >= 0 /\ m + (n - m) <= n
          /\ ((n - m) >= m - 0 \/ -(n - m) >= m - 0)
      BY <1>1, <2>3
    <3> QED BY <1>1, <3>1, <3>4, <3>5, <3>6, ShiftIsOK
  <2>6. LoopOK(d, 3)
    <3>1. Moves!Loops(d)[3] = Moves!Shift("move", 0, n - m, "buffer", "range", 0)
      BY <2>1
    <3>2. ASSUME NEW l \in 0..(n - m - 1)
          PROVE  /\ Slot(d, 3, "buffer", l) >= 0
                 /\ Slot(d, 3, "range", l + (0)) # Moves!Raw
      BY <1>1, <2>2, <2>3 DEF Slot, Moves!Raw, Moves!MovedFrom
    <3>3. ASSUME NEW p \in 0..(n - 1)
          PROVE  /\ Slot(d, 4, "range", p) = IF p - 0 \in 0..(n - m - 1) THEN Slot(d, 3, "buffer", p - 0)
                                              ELSE Slot(d, 3, "range", p)
                 /\ Slot(d, 4, "buffer", p) = IF p \in 0..(n - m - 1) THEN Moves!Raw ELSE Slot(d, 3, "buffer", p)
                 /\ Slot(d, 4, "output", p) = Slot(d, 3, "output", p)
      BY <1>1, <1>3, <2>2, <2>3 DEF Slot, Turned
    <3>4. ReadyAt(d, 3, 0..(n - m - 1), "buffer", "range", 0)
      BY <3>2 DEF ReadyAt
    <3>5. ASSUME NEW p \in 0..(n - 1) PROVE MovedAt(d, 3, 0..(n - m - 1), "buffer", "range", 0, p)
      <4>1. 3 + 1 = 4
        OBVIOUS
      <4> QED BY <3>3, <4>1 DEF MovedAt, Gone, Memories
    <3>6. 0 \in Nat /\ n - m \in Nat /\ 0 \in Int /\ n - m <= n /\ 0 + (0) >= 0 /\ n - m + (0) <= n
      BY <1>1, <2>3
    <3> QED BY <1>1, <3>1, <3>4, <3>5, <3>6, ShiftIsOK
  <2> QED BY <1>2, <1>4, <2>4, <2>5, <2>6
<1>6. CASE ~(m <= h)
  <2>1. /\ Moves!Loops(d)[1] = Moves!Shift("move", 0, m, "range", "buffer", 0)
        /\ Moves!Loops(d)[2] = Moves!Shift("move", m, n, "range", "range", -m)
        /\ Moves!Loops(d)[3] = Moves!Shift("move", 0, m, "buffer", "range", n - m)
    BY <1>6 DEF Moves!Loops, Moves!RotateLoops
  <2>2. \A l : /\ InRange(d, 1, l) = l
               /\ InRange(d, 2, l) = IF l < m THEN Moves!MovedFrom ELSE l
               /\ InRange(d, 3, l) = IF l < n - m THEN Turned(d, l) ELSE Moves!MovedFrom
               /\ InRange(d, 4, l) = Turned(d, l)
               /\ InBuffer(d, 1, l) = Moves!Raw /\ InBuffer(d, 4, l) = Moves!Raw
               /\ InBuffer(d, 2, l) = IF l < m THEN l ELSE Moves!Raw
               /\ InBuffer(d, 3, l) = IF l < m THEN l ELSE Moves!Raw
    BY <1>6 DEF InRange, InRotated, InBuffer
  <2>3. n - m < m
    BY <1>1, <1>6
  <2> HIDE DEF h
  <2>4. LoopOK(d, 1)
    <3>1. Moves!Loops(d)[1] = Moves!Shift("move", 0, m, "range", "buffer", 0)
      BY <2>1
    <3>2. ASSUME NEW l \in 0..(m - 1)
          PROVE  /\ Slot(d, 1, "range", l) >= 0
                 /\ Slot(d, 1, "buffer", l + (0)) = Moves!Raw
      BY <1>1, <2>2, <2>3 DEF Slot, Moves!Raw, Moves!MovedFrom
    <3>3. ASSUME NEW p \in 0..(n - 1)
          PROVE  /\ Slot(d, 2, "buffer", p) = IF p - 0 \in 0..(m - 1) THEN Slot(d, 1, "range", p - 0)
                                              ELSE Slot(d, 1, "buffer", p)
                 /\ Slot(d, 2, "range", p) = IF p \in 0..(m - 1) THEN Moves!MovedFrom ELSE Slot(d, 1, "range", p)
                 /\ Slot(d, 2, "output", p) = Slot(d, 1, "output", p)
      BY <1>1, <1>3, <2>2, <2>3 DEF Slot, Turned
    <3>4. ReadyAt(d, 1, 0..(m - 1), "range", "buffer", 0)
      BY <3>2 DEF ReadyAt
    <3>5. ASSUME NEW p \in 0..(n - 1) PROVE MovedAt(d, 1, 0..(m - 1), "range", "buffer", 0, p)
      <4>1. 1 + 1 = 2
        OBVIOUS
      <4> QED BY <3>3, <4>1 DEF MovedAt, Gone, Memories
    <3>6. 0 \in Nat /\ m \in Nat /\ 0 \in Int /\ m <= n /\ 0 + (0) >= 0 /\ m + (0) <= n
      BY <1>1, <2>3
    <3> QED BY <1>1, <3>1, <3>4, <3>5, <3>6, ShiftIsOK
  <2>5. LoopOK(d, 2)
    <3>1. Moves!Loops(d)[2] = Moves!Shift("move", m, n, "range", "range", -m)
      BY <2>1
    <3>2. ASSUME NEW l \in m..(n - 1)
          PROVE  /\ Slot(d, 2, "range", l) >= 0
                 /\ Slot(d, 2, "range", l + (-m)) # Moves!Raw
      BY <1>1, <2>2, <2>3 DEF Slot, Moves!Raw, Moves!MovedFrom
    <3>3. ASSUME NEW p \in 0..(n - 1)
          PROVE  /\ Slot(d, 3, "range", p) = IF p - (-m) \in m..(n - 1) THEN Slot(d, 2, "range", p - (-m))
                                              ELSE IF p \in m..(n - 1) THEN Moves!MovedFrom
                                              ELSE Slot(d, 2, "range", p)
                 /\ Slot(d, 3, "buffer", p) = Slot(d, 2, "buffer", p)
                 /\ Slot(d, 3, "output", p) = Slot(d, 2, "output", p)
      BY <1>1, <1>3, <2>2, <2>3 DEF Slot, Turned
    <3>4. ReadyAt(d, 2, m..(n - 1), "range", "range", -m)
      BY <3>2 DEF ReadyAt
    <3>5. ASSUME NEW p \in 0..(n - 1) PROVE MovedAt(d, 2, m..(n - 1), "range", "range", -m, p)
      <4>1. 2 + 1 = 3
        OBVIOUS
      <4> QED BY <3>3, <4>1 DEF MovedAt, Gone, Memories
    <3>6. m \in Nat /\ n \in Nat /\ -m \in Int /\ n <= n /\ m + (-m) >= 0 /\ n + (-m) <= n
          /\ ((-m) >= n - m \/ -(-m) >= n - m)
      BY <1>1, <2>3
    <3> QED BY <1>1, <3>1, <3>4, <3>5, <3>6, ShiftIsOK
  <2>6. LoopOK(d, 3)
    <3>1. Moves!Loops(d)[3] = Moves!Shift("move", 0, m, "buffer", "range", n - m)
      BY <2>1
    <3>2. ASSUME NEW l \in 0..(m - 1)
          PROVE  /\ Slot(d, 3, "buffer", l) >= 0
                 /\ Slot(d, 3, "range", l + (n - m)) # Moves!Raw
      BY <1>1, <2>2, <2>3 DEF Slot, Moves!Raw, Moves!MovedFrom
    <3>3. ASSUME NEW p \in 0..(n - 1)
          PROVE  /\ Slot(d, 4, "range", p) = IF p - (n - m) \in 0..(m - 1) THEN Slot(d, 3, "buffer", p - (n - m))
                                              ELSE Slot(d, 3, "range", p)
                 /\ Slot(d, 4, "buffer", p) = IF p \in 0..(m - 1) THEN Moves!Raw ELSE Slot(d, 3, "buffer", p)
                 /\ Slot(d, 4, "output", p) = Slot(d, 3, "output", p)
      BY <1>1, <1>3, <2>2, <2>3 DEF Slot, Turned
    <3>4. ReadyAt(d, 3, 0..(m - 1), "buffer", "range", n - m)
      BY <3>2 DEF ReadyAt
    <3>5. ASSUME NEW p \in 0..(n - 1) PROVE MovedAt(d, 3, 0..(m - 1), "buffer", "range", n - m, p)
      <4>1. 3 + 1 = 4
        OBVIOUS
      <4> QED BY <3>3, <4>1 DEF MovedAt, Gone, Memories
    <3>6. 0 \in Nat /\ m \in Nat /\ n - m \in Int /\ m <= n /\ 0 + (n - m) >= 0 /\ m + (n - m) <= n
      BY <1>1, <2>3
    <3> QED BY <1>1, <3>1, <3>4, <3>5, <3>6, ShiftIsOK
  <2> QED BY <1>2, <1>4, <2>4, <2>5, <2>6
<1> QED
  BY <1>2, <1>5, <1>6

(* The blocks that __pattern_shift_left moves, one loop each.                       *)
BlockLoop(d, q, hi) ==
  LET L == Moves!Loops(d)[q]
  IN  /\ L.does = "move" /\ L.from = "range" /\ L.to = "range" /\ L.lo = q * d.k /\ L.hi = hi
      /\ \A l \in (q * d.k)..(hi - 1) :
           /\ L.at[l][1] = Flip(d.alg = "shift_right", d.n, l)
           /\ L.at[l][2] = Flip(d.alg = "shift_right", d.n, l - d.k)

Ends(d, q, hi) ==
  q * d.k < d.n /\ hi <= d.n /\ hi <= q * d.k + d.k /\ (hi = d.n \/ hi = q * d.k + d.k)

Shifts == {"shift_left", "shift_right"}

LEMMA ShiftBlocks ==
  ASSUME NEW d, ACall(d), d.alg \in Shifts, 0 < d.k, d.k < d.n
  PROVE  /\ Len(Moves!Loops(d)) \in Nat /\ Len(Moves!Loops(d)) * d.k >= d.n - d.k
         /\ \A q \in 1..Len(Moves!Loops(d)) :
              \E hi \in Nat : BlockLoop(d, q, hi) /\ Ends(d, q, hi)
<1> DEFINE n == d.n
           k == d.k
           mirrored == d.alg = "shift_right"
           mid == (n \div 2) + (n % 2)
           Source(l) == IF mirrored THEN n - 1 - l ELSE l
           by == IF mirrored THEN k ELSE -k
           Block(lo, hi) == Moves!Loop("move", lo, hi, "range", "range", [l \in lo..(hi - 1) |-> <<Source(l), Source(l) + by>>])
           t == (n - 1) \div k
<1>1. n \in Nat /\ k \in Nat
  BY DEF ACall
<1>2. 2 * mid >= n
  BY <1>1
<1>3. t \in Nat /\ k * t <= n - 1 /\ n - 1 - k * t < k
  <2>1. n - 1 \in Nat /\ k \in Nat \ {0}
    BY <1>1
  <2> QED BY <2>1, Division
<1>4. Moves!Loops(d) = IF k >= mid THEN << Block(k, n) >>
                       ELSE [q \in 1..t |-> Block(q * k, Moves!Min({q * k + k, n}))]
  BY <1>1 DEF Moves!Loops, Moves!ShiftLoops, Shifts
<1>5. ASSUME NEW q \in Nat, NEW hi \in Nat, Moves!Loops(d)[q] = Block(q * k, hi) PROVE BlockLoop(d, q, hi)
  <2>1. PICK b \in Nat : b = q * k
    BY <1>1
  <2> QED BY <1>1, <1>5, <2>1 DEF BlockLoop, Moves!Loop, Flip
<1> HIDE DEF mid, t
<1>6. CASE k >= mid
  <2>1. Len(Moves!Loops(d)) = 1 /\ Moves!Loops(d)[1] = Block(k, n)
    BY <1>4, <1>6
  <2>2. 1 * k = k
    BY <1>1
  <2>3. BlockLoop(d, 1, n)
    BY <1>1, <1>5, <2>1, <2>2
  <2>4. k >= n - k
    BY <1>1, <1>2, <1>6 DEF mid
  <2>5. \E hi \in Nat : BlockLoop(d, 1, hi) /\ Ends(d, 1, hi)
    BY <1>1, <2>2, <2>3, <2>4 DEF Ends
  <2>6. \A q \in 1..1 : q = 1
    OBVIOUS
  <2>7. Len(Moves!Loops(d)) \in Nat /\ Len(Moves!Loops(d)) * k >= n - k
    BY <2>1, <2>2, <2>4
  <2> HIDE DEF Block
  <2> QED BY <2>1, <2>5, <2>6, <2>7
<1>7. CASE ~(k >= mid)
  <2>1. Len(Moves!Loops(d)) = t /\ \A q \in 1..t : Moves!Loops(d)[q] = Block(q * k, Moves!Min({q * k + k, n}))
    BY <1>3, <1>4, <1>7
  <2>2. t * k >= n - k
    BY <1>1, <1>3
  <2>3. ASSUME NEW q \in 1..t
        PROVE  \E hi \in Nat : BlockLoop(d, q, hi) /\ Ends(d, q, hi)
    <3>1. PICK b \in Nat : b = q * k /\ b < n
      <4>1. q * k \in Nat
        BY <1>1, <1>3
      <4>2. k * (t - q) >= 0
        BY <1>1, <1>3
      <4>3. q * k <= k * t
        BY <1>1, <1>3, <4>1, <4>2
      <4> QED BY <1>1, <1>3, <4>1, <4>3
    <3>2. PICK hi \in {b + k, n} : hi = Moves!Min({b + k, n}) /\ hi <= b + k /\ hi <= n
      <4>1. {b + k, n} \subseteq Nat /\ {b + k, n} # {}
        BY <1>1
      <4> QED BY <4>1, MinIsLeast
    <3>3. hi \in Nat /\ q \in Nat
      BY <1>1, <1>3
    <3>4. BlockLoop(d, q, hi)
      BY <1>5, <2>1, <3>1, <3>2, <3>3
    <3> QED BY <3>1, <3>2, <3>3, <3>4 DEF Ends
  <2> QED BY <1>3, <2>1, <2>2, <2>3
<1> QED
  BY <1>6, <1>7

LEMMA ShiftedSlots ==
  ASSUME NEW d, ACall(d), d.alg \in Shifts, NEW q \in Nat \ {0}, NEW p \in 0..(d.n - 1)
  PROVE  InRange(d, q, Flip(d.alg = "shift_right", d.n, p)) =
           IF p < (q - 1) * d.k /\ p < d.n - d.k THEN Flip(d.alg = "shift_right", d.n, p + d.k)
           ELSE IF d.k <= p /\ p < q * d.k THEN Moves!MovedFrom
           ELSE Flip(d.alg = "shift_right", d.n, p)
<1> DEFINE s == Flip(d.alg = "shift_right", d.n, p)
<1>1. d.n \in Nat /\ d.k \in Nat
  BY DEF ACall
<1>2. Mirrored(d, s) = p
  BY <1>1 DEF Mirrored, Flip
<1>3. Mirrored(d, p + d.k) = Flip(d.alg = "shift_right", d.n, p + d.k)
  BY DEF Mirrored, Flip
<1>4. CASE q = 1
  <2>1. (q - 1) * d.k = 0 /\ q * d.k = d.k
    BY <1>1, <1>4
  <2> QED BY <1>1, <1>4, <2>1 DEF InRange
<1>5. CASE q # 1
  <2>1. InRange(d, q, s) = InShifted(d, q, s)
    BY <1>5 DEF InRange, Shifts
  <2>2. CASE p < (q - 1) * d.k /\ p < d.n - d.k
    BY <1>2, <1>3, <2>1, <2>2 DEF InShifted
  <2>3. CASE ~(p < (q - 1) * d.k /\ p < d.n - d.k)
    BY <1>2, <2>1, <2>3 DEF InShifted
  <2> QED BY <2>2, <2>3
<1> QED
  BY <1>4, <1>5

LEMMA ShiftsAreOK ==
  ASSUME NEW d, ACall(d), d.alg \in Shifts
  PROVE  Len(Moves!Loops(d)) \in Nat /\ \A q \in 1..Len(Moves!Loops(d)) : LoopOK(d, q)
<1> DEFINE n == d.n
           k == d.k
           mir == d.alg = "shift_right"
<1>1. n \in Nat /\ k \in Nat /\ "range" \in Memories
  BY DEF ACall, Memories
<1>2. CASE k <= 0 \/ k >= n
  BY <1>2 DEF Moves!Loops, Moves!ShiftLoops, Shifts
<1>3. CASE 0 < k /\ k < n
  <2>1. Len(Moves!Loops(d)) \in Nat
    BY <1>3, ShiftBlocks
  <2>2. SUFFICES ASSUME NEW q \in 1..Len(Moves!Loops(d)) PROVE LoopOK(d, q)
    BY <2>1
  <2> DEFINE L == Moves!Loops(d)[q]
  <2>3. PICK hi \in Nat : BlockLoop(d, q, hi) /\ Ends(d, q, hi)
    BY <1>3, ShiftBlocks
  <2>4. PICK b \in Nat : b = q * k /\ (q - 1) * k = b - k /\ (q + 1) * k = b + k /\ k <= b
    <3>1. q * k \in Nat /\ (q - 1) * k = q * k - k /\ (q + 1) * k = q * k + k /\ (q - 1) * k >= 0
      BY <1>1, <2>1
    <3> QED BY <1>1, <3>1
  <2>5. /\ L.does = "move" /\ L.from = "range" /\ L.to = "range" /\ L.lo = b /\ L.hi = hi
        /\ \A l \in b..(hi - 1) : L.at[l][1] = Flip(mir, n, l) /\ L.at[l][2] = Flip(mir, n, l - k)
    BY <2>3, <2>4 DEF BlockLoop
  <2>6. k <= b /\ b < n /\ hi <= n /\ hi <= b + k /\ (hi = n \/ hi = b + k)
    BY <2>3, <2>4 DEF Ends
  <2>7. \A p \in 0..(n - 1) :
          /\ InRange(d, q, Flip(mir, n, p)) = IF p < b - k /\ p < n - k THEN Flip(mir, n, p + k)
                                              ELSE IF k <= p /\ p < b THEN Moves!MovedFrom ELSE Flip(mir, n, p)
          /\ InRange(d, q + 1, Flip(mir, n, p)) = IF p < b /\ p < n - k THEN Flip(mir, n, p + k)
                                                  ELSE IF k <= p /\ p < b + k THEN Moves!MovedFrom ELSE Flip(mir, n, p)
    <3> SUFFICES ASSUME NEW p \in 0..(n - 1)
                 PROVE  /\ InRange(d, q, Flip(mir, n, p)) = IF p < b - k /\ p < n - k THEN Flip(mir, n, p + k)
                                              ELSE IF k <= p /\ p < b THEN Moves!MovedFrom ELSE Flip(mir, n, p)
                        /\ InRange(d, q + 1, Flip(mir, n, p)) = IF p < b /\ p < n - k THEN Flip(mir, n, p + k)
                                                  ELSE IF k <= p /\ p < b + k THEN Moves!MovedFrom ELSE Flip(mir, n, p)
      OBVIOUS
    <3>1. q \in Nat \ {0} /\ q + 1 \in Nat \ {0} /\ (q + 1) - 1 = q
      BY <2>1
    <3>2. PICK r \in Nat \ {0} : r = q + 1
      BY <3>1
    <3> QED BY <2>4, <3>1, <3>2, ShiftedSlots
  <2>8. \A s : /\ InBuffer(d, q, s) = Moves!Raw /\ InBuffer(d, q + 1, s) = Moves!Raw
               /\ InOutput(d, q, s) = Moves!NotWritten /\ InOutput(d, q + 1, s) = Moves!NotWritten
    BY DEF InBuffer, InOutput, Shifts
  <2> HIDE DEF L, mir
  <2>9. Iters(L) = b..(hi - 1)
    BY <2>5 DEF Iters
  <2>10. \A l \in b..(hi - 1) : l \in 0..(n - 1) /\ l - k \in 0..(n - 1) /\ l + (-k) = l - k
    BY SMTT(30), <1>1, <2>6
  <2>11. MovesBy(L, n, mir, "range", "range", -k)
    <3>1. -k \in Int /\ -(-k) >= hi - b /\ b \in Nat /\ hi \in Int
      BY <1>1, <2>6
    <3> QED BY <1>1, <2>5, <2>9, <2>10, <3>1 DEF MovesBy
  <2>12. ASSUME NEW l \in b..(hi - 1)
         PROVE  InRange(d, q, Flip(mir, n, l)) >= 0 /\ InRange(d, q, Flip(mir, n, l + (-k))) # Moves!Raw
    <3>1. l \in 0..(n - 1) /\ ~(l < b - k) /\ ~(l < b)
      BY <1>1, <2>6
    <3>2. PICK r \in 0..(n - 1) : r = l + (-k) /\ ~(r < b - k)
      BY SMTT(30), <1>1, <2>10, <2>6
    <3>3. InRange(d, q, Flip(mir, n, l)) = Flip(mir, n, l) /\ Flip(mir, n, l) \in 0..(n - 1)
      BY <1>1, <2>7, <3>1, FlipFacts
    <3>4. InRange(d, q, Flip(mir, n, r)) \in {Moves!MovedFrom, Flip(mir, n, r)} /\ Flip(mir, n, r) \in 0..(n - 1)
      BY <1>1, <2>7, <3>2, FlipFacts
    <3> QED BY <3>2, <3>3, <3>4 DEF Moves!Raw, Moves!MovedFrom
  <2>13. ASSUME NEW p \in 0..(n - 1)
         PROVE  InRange(d, q + 1, Flip(mir, n, p)) =
                  IF p - (-k) \in b..(hi - 1) THEN InRange(d, q, Flip(mir, n, p - (-k)))
                  ELSE IF p \in b..(hi - 1) THEN Moves!MovedFrom
                  ELSE InRange(d, q, Flip(mir, n, p))
    <3>1. p - (-k) = p + k
      BY <1>1
    <3>2. CASE p + k \in b..(hi - 1)
      <4>1. PICK r \in 0..(n - 1) : r = p + k /\ ~(r < b - k) /\ ~(r < b) /\ p < b /\ p < n - k
        <5>1. k \in Nat /\ n \in Nat /\ hi <= n /\ hi <= b + k /\ b <= p + k /\ p + k < hi
          BY <1>1, <2>6, <3>2
        <5>2. p + k \in 0..(n - 1) /\ ~(p + k < b - k) /\ ~(p + k < b) /\ p < b /\ p < n - k
          BY SMTT(30), <5>1
        <5> QED BY <5>2
      <4>2. InRange(d, q, Flip(mir, n, r)) = Flip(mir, n, r)
        BY <2>7, <4>1
      <4>3. InRange(d, q + 1, Flip(mir, n, p)) = Flip(mir, n, p + k)
        BY <2>7, <4>1
      <4> QED BY <3>1, <3>2, <4>1, <4>2, <4>3
    <3>3. CASE p + k \notin b..(hi - 1) /\ p \in b..(hi - 1)
      <4>1. ~(p < b) /\ k <= p /\ p < b + k
        BY <1>1, <2>6, <3>3
      <4>2. InRange(d, q + 1, Flip(mir, n, p)) = Moves!MovedFrom
        BY <2>7, <4>1
      <4> QED BY <3>1, <3>3, <4>2
    <3>4. CASE p + k \notin b..(hi - 1) /\ p \notin b..(hi - 1)
      <4>1. \/ p < b - k /\ p < b /\ p < n - k
            \/ ~(p < n - k) /\ p < b /\ p < b + k
            \/ ~(p < b - k) /\ ~(p < b) /\ ~(p < b + k)
        BY SMTT(30), <1>1, <2>6, <3>4
      <4>2. InRange(d, q + 1, Flip(mir, n, p)) = InRange(d, q, Flip(mir, n, p))
        BY <2>7, <4>1
      <4> QED BY <3>1, <3>4, <4>2
    <3> QED BY <3>2, <3>3, <3>4
  <2>14. MovesOn(d, q, b..(hi - 1), mir, "range", "range", -k)
    <3> DEFINE its == b..(hi - 1)
    <3>1. \A l \in its : LET target == Slot(d, q, "range", Flip(mir, d.n, l + (-k)))
                         IN  /\ Slot(d, q, "range", Flip(mir, d.n, l)) >= 0
                             /\ "range" = "buffer" => target = Moves!Raw
                             /\ "range" = "range" => target # Moves!Raw
      BY <2>12 DEF Slot
    <3>2. ASSUME NEW p \in 0..(n - 1)
          PROVE  LET s == Flip(mir, d.n, p)
                 IN  /\ Slot(d, q + 1, "range", s) = IF p - (-k) \in its THEN Slot(d, q, "range", Flip(mir, d.n, p - (-k)))
                                                ELSE IF "range" = "range" /\ p \in its THEN Gone("range")
                                                ELSE Slot(d, q, "range", s)
                     /\ \A m \in Memories \ {"range", "range"} : Slot(d, q + 1, m, s) = Slot(d, q, m, s)
      BY <2>8, <2>13 DEF Slot, Gone, Memories
    <3> QED BY <3>1, <3>2 DEF MovesOn
  <2> QED BY <1>1, <2>9, <2>11, <2>14, MovingLoopIsOK DEF L
<1> QED
  BY <1>1, <1>2, <1>3

(* Whatever the call: each of its loops is right, and the buffer is empty again     *)
(* after the last.                                                                  *)
LEMMA LoopsAreOK ==
  ASSUME NEW d, ACall(d)
  PROVE  /\ Len(Moves!Loops(d)) \in Nat /\ \A q \in 1..Len(Moves!Loops(d)) : LoopOK(d, q)
         /\ \A l : InBuffer(d, Len(Moves!Loops(d)) + 1, l) = Moves!Raw
<1>1. CASE d.alg = "rotate"
  <2>1. Len(Moves!Loops(d)) = 3 /\ \A q \in 1..3 : LoopOK(d, q)
    BY <1>1, RotateIsOK
  <2>2. 3 + 1 = 4 /\ \A l : InBuffer(d, 4, l) = Moves!Raw
    BY DEF InBuffer
  <2> QED BY <2>1, <2>2
<1>2. CASE d.alg # "rotate"
  <2>1. \A l, q : InBuffer(d, q, l) = Moves!Raw
    BY <1>2 DEF InBuffer
  <2>2. d.alg \in Visits \cup Shifts \cup {"reverse", "reverse_copy", "rotate_copy", "transform_pairs", "adjacent_difference"}
    BY <1>2 DEF ACall, Moves!LoopAlgs, Moves!Rotations, Moves!Walks, Visits, Shifts
  <2>3. CASE d.alg \in Visits \cup {"reverse", "reverse_copy", "rotate_copy", "transform_pairs"}
    <3>1. Len(Moves!Loops(d)) = 1 /\ LoopOK(d, 1)
      BY <2>3, VisitsAreOK, ReverseIsOK, CopiesAreOK, PairsAreOK
    <3>2. \A q \in 1..1 : q = 1
      OBVIOUS
    <3> QED BY <2>1, <3>1, <3>2
  <2>4. CASE d.alg = "adjacent_difference"
    BY <2>1, <2>4, DifferencesAreOK
  <2>5. CASE d.alg \in Shifts
    BY <2>1, <2>5, ShiftsAreOK
  <2> QED BY <2>2, <2>3, <2>4, <2>5
<1> QED
  BY <1>1, <1>2

LEMMA MemoryStands ==
  ASSUME NEW d, ACall(d)
  PROVE  Stands(d, 1, Moves!Memory(d))
<1>1. \A l : /\ InRange(d, 1, l) = l /\ InBuffer(d, 1, l) = Moves!Raw
             /\ InOutput(d, 1, l) = IF d.alg = "swap_ranges" THEN d.n + l ELSE Moves!NotWritten
  BY DEF InRange, InBuffer, InOutput
<1> QED
  BY <1>1 DEF Stands, Shape, Memories, Moves!Memory
-------------------------------------------------------------------------------
(* What the loops leave is what std's algorithm does.                               *)
LEMMA TurnedIsRotated ==
  ASSUME NEW n \in Nat, NEW k \in 0..n, NEW l \in 0..(n - 1)
  PROVE  (l + k) % n = IF l < n - k THEN l + k ELSE l - (n - k)
<1>1. n \in Nat \ {0}
  OBVIOUS
<1>2. CASE l < n - k
  <2>1. n * 0 + (l + k) = l + k /\ l + k \in 0..(n - 1)
    BY <1>1, <1>2
  <2>2. (n * 0 + (l + k)) % n = l + k
    BY <1>1, <2>1, DivisionUnique
  <2> QED BY <1>2, <2>1, <2>2
<1>3. CASE ~(l < n - k)
  <2>1. n * 1 + (l - (n - k)) = l + k /\ l - (n - k) \in 0..(n - 1)
    BY <1>1, <1>3
  <2>2. (n * 1 + (l - (n - k))) % n = l - (n - k)
    BY <1>1, <2>1, DivisionUnique
  <2> QED BY <1>3, <2>1, <2>2
<1> QED
  BY <1>2, <1>3

LEMMA LoopsDoTheCall ==
  ASSUME NEW d, ACall(d), NEW y, Stands(d, Len(Moves!Loops(d)) + 1, y)
  PROVE  Moves!Correct(d, y, Moves!Returned(d))
<1> DEFINE q == Len(Moves!Loops(d)) + 1
<1>1. d.n \in Nat /\ d.k \in Nat
  BY DEF ACall
<1>2. \A l \in 0..(d.n - 1) : y["range"][l] = InRange(d, q, l) /\ y["output"][l] = InOutput(d, q, l)
  BY DEF Stands
<1> HIDE DEF q
<1>3. CASE d.alg = "reverse"
  <2>1. q = 2
    <3>1. Len(Moves!Loops(d)) = 1
      BY <1>3, ReverseIsOK
    <3> QED BY <3>1 DEF q
  <2> QED BY <1>2, <1>3, <2>1 DEF Moves!Correct, InRange
<1>4. CASE d.alg \in Visits
  <2>1. q = 2
    <3>1. Len(Moves!Loops(d)) = 1
      BY <1>4, VisitsAreOK
    <3> QED BY <3>1 DEF q
  <2> QED BY <1>2, <1>4, <2>1 DEF Moves!Correct, Moves!Returned, InRange, InOutput, Visits
<1>5. CASE d.alg = "reverse_copy"
  <2>1. q = 2
    <3>1. Len(Moves!Loops(d)) = 1
      BY <1>5, CopiesAreOK
    <3> QED BY <3>1 DEF q
  <2> QED BY <1>2, <1>5, <2>1 DEF Moves!Correct, Moves!Returned, InRange, InOutput
<1>6. CASE d.alg = "rotate_copy"
  <2>1. q = 2
    <3>1. Len(Moves!Loops(d)) = 1
      BY <1>6, CopiesAreOK
    <3> QED BY <3>1 DEF q
  <2>2. d.k \in 0..d.n
    BY <1>1, <1>6 DEF ACall, IsCall
  <2>3. \A l \in 0..(d.n - 1) : (l + d.k) % d.n = Turned(d, l)
    BY <1>1, <2>2, TurnedIsRotated DEF Turned
  <2> QED BY <1>2, <1>6, <2>1, <2>3 DEF Moves!Correct, Moves!Returned, InRange, InOutput
<1>7. CASE d.alg = "rotate"
  <2>1. q = 4
    <3>1. Len(Moves!Loops(d)) = 3
      BY <1>7, RotateIsOK
    <3> QED BY <3>1 DEF q
  <2>2. d.k \in 0..d.n
    BY <1>1, <1>7 DEF ACall, IsCall
  <2>3. \A l \in 0..(d.n - 1) : (l + d.k) % d.n = Turned(d, l)
    BY <1>1, <2>2, TurnedIsRotated DEF Turned
  <2> QED BY <1>2, <1>7, <2>1, <2>3 DEF Moves!Correct, Moves!Returned, InRange, InRotated
<1>8. CASE d.alg = "transform_pairs"
  <2>1. q = 2
    <3>1. Len(Moves!Loops(d)) = 1
      BY <1>8, PairsAreOK
    <3> QED BY <3>1 DEF q
  <2>2. \A l \in 0..(d.n - d.k - 1) : y["output"][l] = Moves!Both(l, l + d.k)
    BY <1>1, <1>2, <1>8, <2>1 DEF InOutput
  <2> QED BY <1>8, <2>2 DEF Moves!Correct, Moves!Returned
<1>9. CASE d.alg = "adjacent_difference"
  <2>1. CASE d.n = 0
    BY <1>9, <2>1 DEF Moves!Correct, Moves!Returned
  <2>2. CASE d.n # 0
    <3>1. q = 3
      BY <1>9, <2>2 DEF q, Moves!Loops, Moves!AdjacentDifferenceLoops
    <3> QED BY <1>2, <1>9, <3>1 DEF Moves!Correct, Moves!Returned, InOutput
  <2> QED BY <2>1, <2>2
<1>10. CASE d.alg \in Shifts /\ (d.k <= 0 \/ d.k >= d.n)
  <2>1. q = 1
    BY <1>10 DEF q, Moves!Loops, Moves!ShiftLoops, Shifts
  <2>2. d.k \notin 1..(d.n - 1)
    BY <1>1, <1>10
  <2> QED BY <1>2, <1>10, <2>1, <2>2 DEF Moves!Correct, InRange, Shifts
<1>11. CASE d.alg \in Shifts /\ 0 < d.k /\ d.k < d.n
  <2>1. Len(Moves!Loops(d)) \in Nat /\ Len(Moves!Loops(d)) * d.k >= d.n - d.k
    BY <1>11, ShiftBlocks
  <2>2. q \in Nat \ {0} /\ (q - 1) * d.k >= d.n - d.k
    BY <2>1 DEF q
  <2>3. \A p \in 0..(d.n - 1) : p < d.n - d.k => InRange(d, q, Flip(d.alg = "shift_right", d.n, p)) = Flip(d.alg = "shift_right", d.n, p + d.k)
    <3> SUFFICES ASSUME NEW p \in 0..(d.n - 1), p < d.n - d.k
                 PROVE  InRange(d, q, Flip(d.alg = "shift_right", d.n, p)) = Flip(d.alg = "shift_right", d.n, p + d.k)
      OBVIOUS
    <3>1. p < (q - 1) * d.k
      <4>1. PICK b \in Int : b = (q - 1) * d.k /\ b >= d.n - d.k
        BY <1>1, <2>2
      <4> QED BY <1>1, <4>1
    <3> QED BY <1>11, <2>2, <3>1, ShiftedSlots
  <2>4. d.k \in 1..(d.n - 1)
    BY <1>1, <1>11
  <2>5. CASE d.alg = "shift_left"
    <3>1. \A l \in 0..(d.n - d.k - 1) : y["range"][l] = l + d.k
      BY <1>1, <1>2, <2>3, <2>4, <2>5 DEF Flip
    <3> QED BY <1>1, <1>11, <2>4, <2>5, <3>1 DEF Moves!Correct, Moves!Returned
  <2>6. CASE d.alg = "shift_right"
    <3>1. ASSUME NEW l \in d.k..(d.n - 1) PROVE y["range"][l] = l - d.k
      <4>1. PICK p \in 0..(d.n - 1) : p = d.n - 1 - l /\ p < d.n - d.k
        BY <1>1, <2>4
      <4>2. Flip(TRUE, d.n, p) = l /\ Flip(TRUE, d.n, p + d.k) = l - d.k /\ l \in 0..(d.n - 1)
        BY <1>1, <4>1 DEF Flip
      <4> QED BY <1>2, <2>3, <2>6, <4>1, <4>2
    <3> QED BY <1>1, <1>11, <2>4, <2>6, <3>1 DEF Moves!Correct, Moves!Returned
  <2> QED BY <1>11, <2>5, <2>6 DEF Shifts
<1> QED
  BY <1>1, <1>3, <1>4, <1>5, <1>6, <1>7, <1>8, <1>9, <1>10, <1>11
     DEF ACall, Moves!LoopAlgs, Moves!Rotations, Moves!Walks, Visits, Shifts
-------------------------------------------------------------------------------
(* The chunks the backend cuts a loop into lie side by side and cover it.           *)
LEMMA ChunksTile ==
  ASSUME NEW lo \in Nat, NEW hi \in Int, NEW T \in Tilings(lo, hi)
  PROVE  /\ T \subseteq Nat \X Nat
         /\ \A h \in T : lo <= h[1] /\ h[1] < h[2] /\ h[2] <= hi
         /\ \A h \in T, g \in T : h # g => Apart(h, g)
         /\ UNION {Chunk(h) : h \in T} = lo..(hi - 1)
<1>1. CASE lo >= hi
  <2>1. T = {} /\ lo..(hi - 1) = {}
    BY <1>1 DEF Tilings
  <2> QED BY <2>1
<1>2. CASE ~(lo >= hi)
  <2>1. PICK cut \in SUBSET ((lo + 1)..(hi - 1)) : T = {<<i, Min({j \in cut \cup {hi} : j > i})>> : i \in cut \cup {lo}}
    BY <1>2 DEF Tilings
  <2> DEFINE End(i) == Min({j \in cut \cup {hi} : j > i})
             starts == cut \cup {lo}
  <2>2. starts \subseteq Nat /\ \A i \in starts : lo <= i /\ i < hi
    BY <1>2
  <2>3. hi \in Nat
    BY <1>2
  <2>4. ASSUME NEW i \in starts
        PROVE  /\ End(i) \in cut \cup {hi} /\ i < End(i)
               /\ \A j \in cut \cup {hi} : j > i => End(i) <= j
    <3> DEFINE S == {j \in cut \cup {hi} : j > i}
    <3>1. S \subseteq Nat /\ hi \in S
      BY <2>2, <2>3
    <3>2. S # {}
      BY <3>1
    <3>3. Min(S) \in S /\ \A s \in S : Min(S) <= s
      <4> HIDE DEF S
      <4> QED BY <3>1, <3>2, MinIsLeast
    <3> QED BY <3>3
  <2>5. T = {<<i, End(i)>> : i \in starts}
    BY <2>1
  <2> HIDE DEF End
  <2>6. \A i \in starts : End(i) \in Nat /\ End(i) <= hi
    BY <2>2, <2>3, <2>4
  <2>7. ASSUME NEW h \in T PROVE \E i \in starts : h = <<i, End(i)>> /\ h[1] = i /\ h[2] = End(i)
    BY <2>5
  <2>8. T \subseteq Nat \X Nat /\ \A h \in T : lo <= h[1] /\ h[1] < h[2] /\ h[2] <= hi
    <3> SUFFICES ASSUME NEW h \in T PROVE h \in Nat \X Nat /\ lo <= h[1] /\ h[1] < h[2] /\ h[2] <= hi
      OBVIOUS
    <3>1. PICK i \in starts : h = <<i, End(i)>> /\ h[1] = i /\ h[2] = End(i)
      BY <2>7
    <3> QED BY <2>2, <2>4, <2>6, <3>1
  <2>9. ASSUME NEW h \in T, NEW g \in T, h # g PROVE Apart(h, g)
    <3>1. PICK i \in starts : h = <<i, End(i)>> /\ h[1] = i /\ h[2] = End(i)
      BY <2>7
    <3>2. PICK j \in starts : g = <<j, End(j)>> /\ g[1] = j /\ g[2] = End(j)
      BY <2>7
    <3>3. i # j /\ i \in Nat /\ j \in Nat /\ lo <= i /\ lo <= j
      BY <2>2, <2>9, <3>1, <3>2
    <3>4. i < j => j \in cut
      BY <3>3
    <3>5. j < i => i \in cut
      BY <3>3
    <3>6. i < j => End(i) <= j
      BY <2>4, <3>4
    <3>7. j < i => End(j) <= i
      BY <2>4, <3>5
    <3> QED BY <3>1, <3>2, <3>3, <3>6, <3>7 DEF Apart
  <2>10. ASSUME NEW l \in lo..(hi - 1) PROVE \E h \in T : l \in Chunk(h)
    <3> DEFINE S == {j \in cut \cup {hi} : j > l}
               B == {hi - i : i \in {j \in starts : j <= l}}
    <3>1. B \subseteq Nat /\ B # {}
      BY <2>2, <2>3
    <3>2. PICK b \in B : \A e \in B : b <= e
      <4> HIDE DEF B
      <4> QED BY <3>1, LeastNumber
    <3>3. PICK i \in starts : i <= l /\ b = hi - i
      BY <3>2
    <3>4. \A j \in starts : j <= l => j <= i
      BY <2>2, <2>3, <3>2, <3>3
    <3>5. l < End(i)
      <4>1. End(i) \in cut => End(i) \in starts
        OBVIOUS
      <4>2. End(i) = hi \/ End(i) \in starts
        BY <2>4, <4>1
      <4>3. i < End(i) /\ End(i) \in Nat /\ i \in Nat
        BY <2>2, <2>4, <2>6
      <4> QED BY <3>4, <4>2, <4>3
    <3>6. <<i, End(i)>> \in T
      BY <2>5
    <3>7. i \in Int /\ End(i) \in Int
      BY <2>2, <2>6
    <3>8. l \in i..(End(i) - 1)
      BY <2>2, <3>3, <3>5, <3>7
    <3>9. Chunk(<<i, End(i)>>) = i..(End(i) - 1)
      BY DEF Chunk
    <3> QED BY <3>6, <3>8, <3>9
  <2>11. \A h \in T : Chunk(h) \subseteq lo..(hi - 1)
    BY <2>8 DEF Chunk
  <2> QED BY <2>8, <2>9, <2>10, <2>11
<1> QED
  BY <1>1, <1>2
-------------------------------------------------------------------------------
(* The loop under way: what has run, and what is left, whichever chunk runs next.   *)
LEMMA LoopHolds ==
  ASSUME IsMove(c), ACall(c), LoopUnderWay
  PROVE  /\ Independent(loops[stage], c.n) /\ Shape(Before(c, stage), c.n)
         /\ Moves!MayRun(Before(c, stage), loops[stage], loops[stage].lo, loops[stage].hi)
         /\ \A h \in chunks : /\ h[1] \in Nat /\ h[2] \in Nat
                              /\ Chunk(h) \subseteq Iters(loops[stage]) \ (Iters(loops[stage]) \ Left)
<1>1. LoopOK(c, stage)
  BY LoopsAreOK DEF LoopUnderWay, loops
<1>2. \A h \in chunks : h[1] \in Nat /\ h[2] \in Nat
  BY DEF LoopUnderWay
<1>3. loops[stage].lo \in Nat /\ loops[stage].hi \in Int
  BY <1>1 DEF LoopOK, Independent, SlotsExist, loops
<1>4. ASSUME NEW h \in chunks PROVE Chunk(h) \subseteq Iters(loops[stage])
  <2>1. loops[stage].lo <= h[1] /\ h[2] <= loops[stage].hi
    BY DEF LoopUnderWay
  <2> QED BY <1>2, <1>3, <2>1 DEF Chunk, Iters
<1>5. \A h \in chunks : Chunk(h) \subseteq Left
  BY DEF Left
<1> QED
  BY <1>1, <1>2, <1>4, <1>5, BeforeIs DEF LoopOK, loops

LEMMA LoopBegins ==
  ASSUME IsMove(c), ACall(c), NEW q \in 1..Len(loops), Stands(c, q, x), stage' = q, c' = c, x' = x,
         chunks' \in Tilings(loops[q].lo, loops[q].hi)
  PROVE  LoopUnderWay'
<1>1. LoopOK(c, q) /\ Len(loops) \in Nat
  BY LoopsAreOK DEF loops
<1>2. loops[q].lo \in Nat /\ loops[q].hi \in Int
  BY <1>1 DEF LoopOK, Independent, SlotsExist, loops
<1>3. loops' = loops /\ stage' \in 1..Len(loops)
  BY DEF loops
<1>4. PICK T \in Tilings(loops[q].lo, loops[q].hi) : T = chunks'
  OBVIOUS
<1>5. /\ T \subseteq Nat \X Nat
      /\ \A h \in T : loops[q].lo <= h[1] /\ h[1] < h[2] /\ h[2] <= loops[q].hi
      /\ \A h \in T, g \in T : h # g => Apart(h, g)
      /\ UNION {Chunk(h) : h \in T} = Iters(loops[q])
  <2>1. PICK lo \in Nat, hi \in Int : lo = loops[q].lo /\ hi = loops[q].hi
    BY <1>2
  <2> QED BY <2>1, ChunksTile DEF Iters
<1>6. Left' = Iters(loops[q])
  BY <1>4, <1>5 DEF Left
<1>7. Shape(x, c.n) /\ Ran(Before(c, q), loops[q], {}, x)
  <2>1. Shape(Before(c, q), c.n) /\ Shape(x, c.n)
    BY BeforeIs DEF Stands
  <2>2. \A m \in Memories : \A s \in 0..(c.n - 1) : x[m][s] = Before(c, q)[m][s]
    BY BeforeIs DEF Stands, Memories
  <2> QED BY <2>1, <2>2 DEF Ran, Shape
<1>8. Iters(loops[q]) \ Iters(loops[q]) = {}
  OBVIOUS
<1> QED
  BY <1>3, <1>4, <1>5, <1>6, <1>7, <1>8 DEF LoopUnderWay

LEMMA LoopGoesOn ==
  ASSUME IsMove(c), ACall(c), LoopUnderWay, RunChunk
  PROVE  LoopUnderWay'
<1>1. PICK h \in chunks : x' = Moves!Body(x, loops[stage], h[1], h[2]) /\ chunks' = chunks \ {h}
  BY DEF RunChunk
<1>2. c' = c /\ stage' = stage /\ loops' = loops
  BY DEF RunChunk, Unrelated, loops
<1> DEFINE D == Iters(loops[stage]) \ Left
<1>3. /\ Independent(loops[stage], c.n) /\ Shape(Before(c, stage), c.n) /\ h[1] \in Nat /\ h[2] \in Nat
      /\ Chunk(h) \subseteq Iters(loops[stage]) \ D
  BY LoopHolds
<1>4. c.n \in Nat /\ Shape(x, c.n) /\ Ran(Before(c, stage), loops[stage], D, x) /\ D \subseteq Iters(loops[stage])
  BY DEF ACall, LoopUnderWay
<1>5. Shape(x', c.n) /\ Ran(Before(c, stage), loops[stage], D \cup Chunk(h), x')
  <2>1. PICK y : y = x'
    OBVIOUS
  <2>2. PICK L, M, E : L = loops[stage] /\ M = Before(c, stage) /\ E = D
    OBVIOUS
  <2> HIDE DEF D
  <2> QED BY <1>1, <1>3, <1>4, <2>2, ChunkRuns DEF Chunk
<1>6. Left' = Left \ Chunk(h)
  <2>1. \A g \in chunks : g # h => Chunk(g) \cap Chunk(h) = {}
    <3> SUFFICES ASSUME NEW g \in chunks, g # h PROVE Chunk(g) \cap Chunk(h) = {}
      OBVIOUS
    <3>1. g[1] \in Nat /\ g[2] \in Nat /\ Apart(g, h)
      BY LoopHolds DEF LoopUnderWay
    <3> QED BY <1>3, <3>1 DEF Apart, Chunk
  <2> QED BY <1>1, <2>1 DEF Left
<1>7. Iters(loops[stage]) \ (Left \ Chunk(h)) = D \cup Chunk(h)
  BY <1>3
<1> QED
  BY <1>1, <1>2, <1>5, <1>6, <1>7 DEF LoopUnderWay

LEMMA LoopEnds ==
  ASSUME IsMove(c), ACall(c), LoopUnderWay, chunks = {}
  PROVE  Stands(c, stage + 1, x)
<1>1. Iters(loops[stage]) \ Left = Iters(loops[stage])
  BY DEF Left
<1>2. Shape(x, c.n) /\ Ran(Before(c, stage), loops[stage], Iters(loops[stage]), x)
  BY <1>1 DEF LoopUnderWay
<1>3. LoopOK(c, stage)
  BY LoopsAreOK DEF LoopUnderWay, loops
<1> QED
  BY <1>2, <1>3 DEF LoopOK, loops
-------------------------------------------------------------------------------
(* Every step of a call that moves elements keeps the closed form.                  *)
LEMMA NoMoveSearches == IsMove(c) => ~IsSearch(c) /\ c.alg # "nth_element"
  BY DEF IsMove, IsSearch, Moves!LoopAlgs, Moves!Rotations, Moves!Walks, Search!OrAlgs, Search!FindAlgs

\* Every loop before the one at q + 1 has run.
RanUpTo(q) == Stands(c, q + 1, x)

LEMMA LoopsHaveRun ==
  ASSUME MovesInv, IsMove(c), pc \in {"call", "moves"}, chunks = {}
  PROVE  ACall(c) /\ stage \in Nat /\ RanUpTo(stage)
<1>1. ACall(c)
  BY DEF MovesInv
<1>2. CASE pc = "call"
  <2>1. stage = 0 /\ 0 + 1 = 1 /\ Stands(c, 1, x)
    BY <1>2 DEF MovesInv
  <2> QED BY <1>1, <2>1 DEF RanUpTo
<1>3. CASE pc = "moves"
  <2>1. LoopUnderWay
    BY <1>3 DEF MovesInv
  <2>2. Len(loops) \in Nat
    BY <1>1, LoopsAreOK DEF loops
  <2> QED BY <1>1, <2>1, <2>2, LoopEnds DEF RanUpTo, LoopUnderWay
<1> QED
  BY <1>2, <1>3

LEMMA NextLoopKeeps == MovesInv /\ NextLoop => MovesInv'
<1> SUFFICES ASSUME MovesInv, NextLoop PROVE MovesInv'
  OBVIOUS
<1>1. IsMove(c) /\ ACall(c) /\ stage \in Nat /\ RanUpTo(stage)
  BY LoopsHaveRun DEF NextLoop
<1>2. Len(loops) \in Nat
  BY <1>1, LoopsAreOK DEF loops
<1>3. c' = c /\ x' = x /\ pc' = "moves" /\ IsMove(c)' /\ ACall(c)'
  BY <1>1 DEF NextLoop, Unrelated, IsMove, ACall, IsCall
<1>4. PICK q : q = stage + 1
  OBVIOUS
<1>5. q \in 1..Len(loops) /\ Stands(c, q, x) /\ stage' = q /\ chunks' \in Tilings(loops[q].lo, loops[q].hi)
  BY <1>1, <1>2, <1>4 DEF NextLoop, RanUpTo
<1>6. LoopUnderWay'
  BY <1>1, <1>3, <1>5, LoopBegins
<1> QED
  BY <1>3, <1>6 DEF MovesInv

LEMMA RunChunkKeeps == MovesInv /\ RunChunk => MovesInv'
<1> SUFFICES ASSUME MovesInv, RunChunk PROVE MovesInv'
  OBVIOUS
<1>1. pc = "moves" /\ IsMove(c) /\ ACall(c) /\ LoopUnderWay
  BY DEF MovesInv, RunChunk
<1>2. pc' = "moves" /\ IsMove(c)' /\ ACall(c)'
  BY <1>1 DEF RunChunk, Unrelated, IsMove, ACall, IsCall
<1>3. LoopUnderWay'
  BY <1>1, LoopGoesOn
<1> QED
  BY <1>2, <1>3 DEF MovesInv

LEMMA EndLoopsKeeps == MovesInv /\ EndLoops => MovesInv'
<1> SUFFICES ASSUME MovesInv, EndLoops PROVE MovesInv'
  OBVIOUS
<1>1. IsMove(c) /\ ACall(c) /\ stage = Len(loops) /\ RanUpTo(stage)
  BY LoopsHaveRun DEF EndLoops
<1>2. c' = c /\ x' = x /\ pc' = "done" /\ answer' = {Moves!Returned(c)} /\ IsMove(c)' /\ ACall(c)'
  BY <1>1 DEF EndLoops, Return, Unrelated, loopVars, IsMove, ACall, IsCall
<1>3. Stands(c, Len(loops) + 1, x)
  BY <1>1 DEF RanUpTo
<1>4. Stands(c, Len(loops) + 1, x)'
  BY <1>2, <1>3 DEF loops, Stands
<1>5. Moves!Returned(c)' = Moves!Returned(c)
  BY <1>2
<1> QED
  BY <1>2, <1>4, <1>5 DEF MovesInv

LEMMA OthersKeep ==
  ASSUME MovesInv, Decide \/ BeginOr \/ StepOr \/ EndOr \/ BeginFind \/ StepFind \/ EndFind \/ BeginNth \/ Iterate
  PROVE  MovesInv'
<1>1. ~IsMove(c)
  BY NoMoveSearches DEF MovesInv, Decide, BeginOr, StepOr, EndOr, BeginFind, StepFind, EndFind, BeginNth, Iterate
<1>2. c' = c
  BY DEF Decide, BeginOr, StepOr, EndOr, BeginFind, StepFind, EndFind, BeginNth, Iterate, Unrelated
<1>3. pc # "moves" /\ pc' # "moves"
  BY <1>1 DEF MovesInv, Decide, BeginOr, StepOr, EndOr, BeginFind, StepFind, EndFind, BeginNth, Iterate, Return
<1> QED
  BY <1>1, <1>2, <1>3 DEF MovesInv, IsMove

LEMMA MovesKeep == MovesInv /\ [Next]_vars => MovesInv'
<1>1. ASSUME MovesInv, UNCHANGED vars PROVE MovesInv'
  BY <1>1 DEF vars, MovesInv, IsMove, ACall, IsCall, Stands, LoopUnderWay, Left, loops
<1> QED
  BY <1>1, NextLoopKeeps, RunChunkKeeps, EndLoopsKeeps, OthersKeep DEF Next

LEMMA MovesBegin == Init => MovesInv
<1> SUFFICES ASSUME Init, IsMove(c) PROVE MovesInv
  BY DEF Init, MovesInv
<1>1. pc = "call" /\ stage = 0 /\ chunks = {} /\ IsCall(c) /\ c \in SearchCalls \cup MoveCalls \cup NthCalls
  BY DEF Init
<1>2. c \notin NthCalls
  BY NoMoveSearches DEF NthCalls
<1>3. c \notin SearchCalls
  <2>1. \A d \in SearchCalls : d.alg \in Search!OrAlgs \cup Search!FindAlgs
    <3>1. ASSUME NEW alg, NEW A, NEW B, NEW d \in Pairs(alg, A, B) PROVE d.alg = alg
      BY DEF Pairs, SearchCall
    <3>2. ASSUME NEW a, NEW k PROVE SearchCall("search_n", a, None, k).alg = "search_n"
      BY DEF SearchCall
    <3> QED BY <3>1, <3>2 DEF SearchCalls, Search!OrAlgs, Search!FindAlgs
  <2> QED BY <2>1, NoMoveSearches DEF IsSearch
<1>4. c.n \in Nat /\ c.k \in Nat
  BY <1>1, <1>2, <1>3, SizesAssumption DEF MoveCalls
<1>5. ACall(c)
  BY <1>1, <1>4 DEF ACall, IsMove
<1>6. x = Moves!Memory(c)
  <2>1. x = CASE IsMove(c) -> Moves!Memory(c) [] c.alg = "nth_element" -> c.a [] OTHER -> None
    BY DEF Init
  <2>2. c.alg # "nth_element"
    BY NoMoveSearches
  <2> QED BY <2>1, <2>2
<1>7. Stands(c, 1, x)
  BY <1>5, <1>6, MemoryStands
<1> QED
  BY <1>1, <1>5, <1>7 DEF MovesInv
-------------------------------------------------------------------------------
LEMMA ChunksAreIndependent ==
  ASSUME IsMove(c), ACall(c), LoopUnderWay, NEW h \in chunks, NEW g \in chunks
  PROVE  /\ Moves!MayRun(x, loops[stage], h[1], h[2])
         /\ h # g => Moves!Changed(loops[stage], h[1], h[2]) \cap Moves!Touched(loops[stage], g[1], g[2]) = {}
<1> DEFINE D == Iters(loops[stage]) \ Left
<1>1. /\ Independent(loops[stage], c.n) /\ Shape(Before(c, stage), c.n)
      /\ Moves!MayRun(Before(c, stage), loops[stage], loops[stage].lo, loops[stage].hi)
      /\ h[1] \in Nat /\ h[2] \in Nat /\ Chunk(h) \subseteq Iters(loops[stage]) \ D
      /\ g[1] \in Nat /\ g[2] \in Nat /\ Chunk(g) \subseteq Iters(loops[stage]) \ D
  BY LoopHolds
<1>2. c.n \in Nat /\ Ran(Before(c, stage), loops[stage], D, x) /\ D \subseteq Iters(loops[stage])
  BY DEF ACall, LoopUnderWay
<1>3. Moves!MayRun(x, loops[stage], h[1], h[2])
  <2>1. PICK y : y = x
    OBVIOUS
  <2>2. PICK L, M, E : L = loops[stage] /\ M = Before(c, stage) /\ E = D
    OBVIOUS
  <2> HIDE DEF D
  <2> QED BY <1>1, <1>2, <2>2, ChunkMayRun DEF Chunk
<1>4. ASSUME h # g PROVE Moves!Changed(loops[stage], h[1], h[2]) \cap Moves!Touched(loops[stage], g[1], g[2]) = {}
  <2>1. Apart(h, g)
    BY <1>4 DEF LoopUnderWay
  <2>2. Chunk(h) \cap Chunk(g) = {}
    BY <1>1, <2>1 DEF Apart, Chunk
  <2>3. Chunk(h) \subseteq Iters(loops[stage]) /\ Chunk(g) \subseteq Iters(loops[stage])
    BY <1>1
  <2> QED BY <1>1, <2>2, <2>3, ChunksShareNothing DEF Chunk
<1> QED
  BY <1>3, <1>4

\* Whatever the algorithm, the length, __middle or the distance, and the cuts: the
\* chunks of a loop still to run touch no slot another one changes, each finds what it
\* reads where the loop before left it, nothing is constructed over an element, and the
\* buffer of __pattern_rotate is empty again at the end (algorithm_impl.h:1794-1917,
\* 4081-4126).
THEOREM LoopsAreIndependent == Spec => []MovesAreIndependent
<1>1. MovesInv => MovesAreIndependent
  <2> SUFFICES ASSUME MovesInv PROVE MovesAreIndependent
    OBVIOUS
  <2>1. pc = "moves" => IsMove(c) /\ ACall(c) /\ LoopUnderWay
    BY DEF MovesInv
  <2>2. ASSUME pc = "done", IsMove(c), NEW l \in DOMAIN x.buffer PROVE x.buffer[l] = Moves!Raw
    <3>1. ACall(c) /\ Stands(c, Len(loops) + 1, x)
      BY <2>2 DEF MovesInv
    <3>2. l \in 0..(c.n - 1)
      BY <2>2, <3>1 DEF Stands, Shape, Memories
    <3> QED BY <3>1, <3>2, LoopsAreOK DEF Stands, loops
  <2> QED BY <2>1, <2>2, ChunksAreIndependent DEF MovesAreIndependent
<1> QED
  BY <1>1, MovesBegin, MovesKeep, PTL DEF Spec

\* What CallIsCorrect asks of an answer.
AnswersTheCall(it) ==
  CASE IsSearch(c) -> Search!Correct(c, it)
    [] IsMove(c)   -> Moves!Correct(c, x, it)
    [] OTHER       -> c.k < Cardinality(DOMAIN x) => Moves!NthCorrect(c.a, x, c.k)

\* And every one of them leaves in the range, or in the output, and returns what std's
\* algorithm does: reverse and rotate with their copies, the shifts, adjacent_difference
\* and the algorithms that visit each element once (algorithm_impl.h:1794-1917, 4081-4126).
THEOREM MovesDoTheCall == Spec => [](IsMove(c) => CallIsCorrect)
<1>1. MovesInv => (IsMove(c) => CallIsCorrect)
  <2> SUFFICES ASSUME MovesInv, IsMove(c), pc = "done"
               PROVE  \E it \in answer : AnswersTheCall(it)
    BY DEF CallIsCorrect, AnswersTheCall
  <2>1. ACall(c) /\ Stands(c, Len(loops) + 1, x) /\ answer = {Moves!Returned(c)}
    BY DEF MovesInv
  <2>2. Moves!Correct(c, x, Moves!Returned(c))
    <3>1. PICK y : y = x
      OBVIOUS
    <3> QED BY <2>1, LoopsDoTheCall DEF loops
  <2> QED BY <2>1, <2>2, NoMoveSearches DEF AnswersTheCall
<1> QED
  BY <1>1, MovesBegin, MovesKeep, PTL DEF Spec
-------------------------------------------------------------------------------
(* The searches. A sequence that a call is given, and the places it looks for.      *)
Given(s) ==
  /\ Search!Len(s) \in Nat /\ DOMAIN s = 0..(Search!Len(s) - 1)
  /\ \A l \in DOMAIN s : s[l] \in Nat

Ascending(s) == \A p \in DOMAIN s, q \in DOMAIN s : p < q => s[p] <= s[q]

ASearch(d) ==
  /\ IsSearch(d) /\ Given(d.a) /\ Given(d.b) /\ d.k \in Nat
  /\ d.alg = "includes" => Ascending(d.a) /\ Ascending(d.b)

LastIn(S, j) == IF S = {} THEN j ELSE Search!Max(S)

LEMMA LeastAndGreatest ==
  ASSUME NEW n \in Nat, NEW S, S \subseteq 0..(n - 1), S # {}
  PROVE  /\ Search!Min(S) \in S /\ \A s \in S : Search!Min(S) <= s
         /\ Search!Max(S) \in S /\ \A s \in S : s <= Search!Max(S)
<1>1. S \subseteq Nat
  OBVIOUS
<1>2. \E s \in S : \A t \in S : s <= t
  BY <1>1, LeastNumber
<1>3. \E s \in S : \A t \in S : t <= s
  <2> DEFINE B == {n - s : s \in S}
  <2>1. B \subseteq Nat /\ B # {}
    OBVIOUS
  <2>2. PICK b \in B : \A e \in B : b <= e
    <3> HIDE DEF B
    <3> QED BY <2>1, LeastNumber
  <2>3. PICK s \in S : b = n - s
    BY <2>2
  <2>4. ASSUME NEW t \in S PROVE t <= s
    <3>1. b <= n - t
      BY <2>2
    <3> QED BY <2>3, <3>1
  <2> QED BY <2>4
<1> QED
  BY <1>2, <1>3 DEF Search!Min, Search!Max

LEMMA MinIsUnique ==
  ASSUME NEW n \in Nat, NEW S, S \subseteq 0..(n - 1), NEW r \in S, \A s \in S : r <= s
  PROVE  Search!Min(S) = r
<1>1. Search!Min(S) \in S /\ Search!Min(S) <= r
  BY LeastAndGreatest
<1>2. PICK m \in S : m = Search!Min(S)
  BY <1>1
<1>3. m <= r /\ r <= m /\ m \in Int /\ r \in Int
  BY <1>1, <1>2
<1> QED
  BY <1>2, <1>3

LEMMA MaxIsUnique ==
  ASSUME NEW n \in Nat, NEW S, S \subseteq 0..(n - 1), NEW r \in S, \A s \in S : s <= r
  PROVE  Search!Max(S) = r
<1>1. Search!Max(S) \in S /\ r <= Search!Max(S)
  BY LeastAndGreatest
<1>2. PICK m \in S : m = Search!Max(S)
  BY <1>1
<1>3. m <= r /\ r <= m /\ m \in Int /\ r \in Int
  BY <1>1, <1>2
<1> QED
  BY <1>2, <1>3

(* Every place looked for is in one chunk.                                          *)
LEMMA ChunksCover ==
  ASSUME NEW n \in Nat, NEW T \in Tilings(0, n), NEW S, S \subseteq 0..(n - 1)
  PROVE  /\ \A h \in T : h[1] \in Nat /\ h[2] \in Nat /\ h[1] < h[2] /\ h[2] <= n
         /\ \A s \in S : \E h \in T : s \in S \cap Chunk(h)
<1>1. 0 \in Nat /\ n \in Int
  OBVIOUS
<1>2. /\ T \subseteq Nat \X Nat /\ \A h \in T : h[1] < h[2] /\ h[2] <= n
      /\ UNION {Chunk(h) : h \in T} = 0..(n - 1)
  BY <1>1, ChunksTile
<1> QED
  BY <1>2

(* The first place found in any chunk is the first of all, the last the last.       *)
LEMMA FirstOfChunks ==
  ASSUME NEW n \in Nat, NEW T \in Tilings(0, n), NEW S, S \subseteq 0..(n - 1), NEW r,
         Find!IsAnswer(TRUE, n, {Search!FirstIn(S \cap Chunk(h), h[2]) :
                                   h \in {t \in T : Search!FirstIn(S \cap Chunk(t), t[2]) # t[2]}}, r)
  PROVE  r = Search!FirstIn(S, n)
<1> DEFINE F(h) == Search!FirstIn(S \cap Chunk(h), h[2])
           M == {F(h) : h \in {t \in T : F(t) # t[2]}}
<1>1. /\ \A h \in T : h[1] \in Nat /\ h[2] \in Nat /\ h[1] < h[2] /\ h[2] <= n
      /\ \A s \in S : \E h \in T : s \in S \cap Chunk(h)
  BY ChunksCover
<1>2. ASSUME NEW h \in T, S \cap Chunk(h) # {}
      PROVE  F(h) \in S \cap Chunk(h) /\ F(h) # h[2] /\ \A s \in S \cap Chunk(h) : F(h) <= s
  <2>1. PICK I : I = S \cap Chunk(h)
    OBVIOUS
  <2>2. I # {} /\ I \subseteq 0..(n - 1)
    BY <1>2, <2>1
  <2>3. Search!Min(I) \in I /\ \A s \in I : Search!Min(I) <= s
    BY <2>2, LeastAndGreatest
  <2>4. F(h) = Search!Min(I)
    BY <2>1, <2>2 DEF Search!FirstIn
  <2>5. h[2] \notin Chunk(h)
    BY <1>1 DEF Chunk
  <2> QED BY <2>1, <2>3, <2>4, <2>5
<1>3. ASSUME NEW h \in T, S \cap Chunk(h) = {} PROVE F(h) = h[2]
  BY <1>3 DEF Search!FirstIn
<1> HIDE DEF F
<1>4. \A m \in M : m \in S
  BY <1>2, <1>3
<1>5. \A s \in S : \E m \in M : m <= s
  BY <1>1, <1>2
<1>6. Find!IsAnswer(TRUE, n, M, r)
  BY DEF F
<1> HIDE DEF M
<1>7. CASE M = {}
  <2>1. S = {} /\ r = n
    BY <1>5, <1>6, <1>7 DEF Find!IsAnswer
  <2> QED BY <2>1 DEF Search!FirstIn
<1>8. CASE M # {}
  <2>1. r \in M /\ \A m \in M : ~(m < r)
    BY <1>6, <1>8 DEF Find!IsAnswer, Find!Better
  <2>2. r \in S
    BY <1>4, <2>1
  <2>3. ASSUME NEW s \in S PROVE r <= s
    <3>1. PICK m \in M : m <= s
      BY <1>5
    <3> QED BY <1>4, <2>1, <2>2, <3>1
  <2> QED BY <2>2, <2>3, MinIsUnique DEF Search!FirstIn
<1> QED
  BY <1>7, <1>8

LEMMA LastOfChunks ==
  ASSUME NEW n \in Nat, NEW T \in Tilings(0, n), NEW S, S \subseteq 0..(n - 1), NEW r,
         Find!IsAnswer(FALSE, n, {LastIn(S \cap Chunk(h), h[2]) :
                                    h \in {t \in T : LastIn(S \cap Chunk(t), t[2]) # t[2]}}, r)
  PROVE  r = LastIn(S, n)
<1> DEFINE F(h) == LastIn(S \cap Chunk(h), h[2])
           M == {F(h) : h \in {t \in T : F(t) # t[2]}}
<1>1. /\ \A h \in T : h[1] \in Nat /\ h[2] \in Nat /\ h[1] < h[2] /\ h[2] <= n
      /\ \A s \in S : \E h \in T : s \in S \cap Chunk(h)
  BY ChunksCover
<1>2. ASSUME NEW h \in T, S \cap Chunk(h) # {}
      PROVE  F(h) \in S \cap Chunk(h) /\ F(h) # h[2] /\ \A s \in S \cap Chunk(h) : s <= F(h)
  <2>1. PICK I : I = S \cap Chunk(h)
    OBVIOUS
  <2>2. I # {} /\ I \subseteq 0..(n - 1)
    BY <1>2, <2>1
  <2>3. Search!Max(I) \in I /\ \A s \in I : s <= Search!Max(I)
    BY <2>2, LeastAndGreatest
  <2>4. F(h) = Search!Max(I)
    BY <2>1, <2>2 DEF LastIn
  <2>5. h[2] \notin Chunk(h)
    BY <1>1 DEF Chunk
  <2> QED BY <2>1, <2>3, <2>4, <2>5
<1>3. ASSUME NEW h \in T, S \cap Chunk(h) = {} PROVE F(h) = h[2]
  BY <1>3 DEF LastIn
<1> HIDE DEF F
<1>4. \A m \in M : m \in S
  BY <1>2, <1>3
<1>5. \A s \in S : \E m \in M : s <= m
  BY <1>1, <1>2
<1>6. Find!IsAnswer(FALSE, n, M, r)
  BY DEF F
<1> HIDE DEF M
<1>7. CASE M = {}
  <2>1. S = {} /\ r = n
    BY <1>5, <1>6, <1>7 DEF Find!IsAnswer
  <2> QED BY <2>1 DEF LastIn
<1>8. CASE M # {}
  <2>1. r \in M /\ \A m \in M : ~(m > r)
    BY <1>6, <1>8 DEF Find!IsAnswer, Find!Better
  <2>2. r \in S
    BY <1>4, <2>1
  <2>3. ASSUME NEW s \in S PROVE s <= r
    <3>1. PICK m \in M : s <= m
      BY <1>5
    <3> QED BY <1>4, <2>1, <2>2, <3>1
  <2> QED BY <2>2, <2>3, MaxIsUnique DEF LastIn
<1> QED
  BY <1>7, <1>8

(* The places a call of __parallel_find looks for.                                  *)
Sought(d) ==
  CASE d.alg \in {"search", "find_end"} -> {l \in DOMAIN d.a : Search!Occurs(d, l) /\ (DOMAIN d.b = {} => Search!IsFirst(d))}
    [] d.alg = "search_n" -> {l \in DOMAIN d.a : l + d.k <= Search!Len(d.a) /\ \A q \in l..(l + d.k - 1) : d.a[q] = 1}
    [] d.alg = "find_if" -> {l \in DOMAIN d.a : d.a[l] = 1}
    [] d.alg = "find_first_of" -> {l \in DOMAIN d.a : \E q \in DOMAIN d.b : d.a[l] = d.b[q]}
    [] d.alg = "is_heap_until" -> {l \in DOMAIN d.a : d.a[Search!Parent(l)] < d.a[l]}
    [] OTHER -> {l \in 0..(Search!SearchLength(d) - 1) : d.a[l] # d.b[l]}

Pick(d, S, j) == IF Search!IsFirst(d) THEN Search!FirstIn(S, j) ELSE LastIn(S, j)

Subranges == {"search", "find_end", "search_n"}

LEMMA Lengths ==
  ASSUME NEW d, ASearch(d), d.alg \in Search!FindAlgs, Search!Shortcut(d) = {}
  PROVE  /\ Search!SearchLength(d) \in Nat
         /\ Search!SearchLength(d) <= Search!Len(d.a)
         /\ d.alg = "mismatch" => /\ Search!SearchLength(d) = Search!Min({Search!Len(d.a), Search!Len(d.b)})
                                  /\ Search!SearchLength(d) <= Search!Len(d.b)
         /\ d.alg = "lexicographical_compare" =>
              /\ Search!SearchLength(d) + 1 = Search!Min({Search!Len(d.a), Search!Len(d.b)})
              /\ \/ Search!SearchLength(d) + 1 = Search!Len(d.a) /\ Search!Len(d.a) <= Search!Len(d.b)
                 \/ Search!SearchLength(d) + 1 = Search!Len(d.b) /\ Search!Len(d.b) < Search!Len(d.a)
         /\ d.alg \notin {"mismatch", "lexicographical_compare"} => Search!SearchLength(d) = Search!Len(d.a)
<1> DEFINE n1 == Search!Len(d.a)
           n2 == Search!Len(d.b)
           m == Search!Min({n1, n2})
<1>1. n1 \in Nat /\ n2 \in Nat
  BY DEF ASearch, Given
<1>2. m \in {n1, n2} /\ m <= n1 /\ m <= n2
  <2>1. {n1, n2} \subseteq 0..(n1 + n2 + 1 - 1) /\ {n1, n2} # {} /\ n1 + n2 + 1 \in Nat
    BY <1>1
  <2> QED BY <2>1, LeastAndGreatest
<1>3. d.alg = "lexicographical_compare" => n1 # 0 /\ n2 # 0
  BY DEF Search!Shortcut
<1>4. Search!SearchLength(d) = IF d.alg = "mismatch" THEN m
                               ELSE IF d.alg = "lexicographical_compare" THEN m - 1 ELSE n1
  BY DEF Search!SearchLength, Search!FindAlgs
<1> HIDE DEF n1, n2, m
<1>5. d.alg = "mismatch" => /\ Search!SearchLength(d) \in Nat /\ Search!SearchLength(d) <= n1
                            /\ Search!SearchLength(d) = m /\ Search!SearchLength(d) <= n2
  BY <1>1, <1>2, <1>4
<1>6. d.alg = "lexicographical_compare" =>
        /\ Search!SearchLength(d) \in Nat /\ Search!SearchLength(d) <= n1
        /\ Search!SearchLength(d) + 1 = m
        /\ (Search!SearchLength(d) + 1 = n1 /\ n1 <= n2) \/ (Search!SearchLength(d) + 1 = n2 /\ n2 < n1)
  BY <1>1, <1>2, <1>3, <1>4
<1>7. d.alg \notin {"mismatch", "lexicographical_compare"} => Search!SearchLength(d) = n1
  BY <1>4
<1> QED
  BY <1>1, <1>5, <1>6, <1>7 DEF n1, n2, m

LEMMA BricksFind ==
  ASSUME NEW d, ASearch(d), d.alg \in Search!FindAlgs, Search!Shortcut(d) = {},
         NEW i \in Nat, NEW j \in Nat, i < j, j <= Search!SearchLength(d)
  PROVE  Search!FindBrick(d, i, j) = Pick(d, Sought(d) \cap (i..(j - 1)), j)
<1> DEFINE I == i..(j - 1)
<1>1. Search!Len(d.a) \in Nat /\ DOMAIN d.a = 0..(Search!Len(d.a) - 1) /\ Search!Len(d.b) \in Nat
      /\ DOMAIN d.b = 0..(Search!Len(d.b) - 1) /\ d.k \in Nat
  BY DEF ASearch, Given
<1>2. I \subseteq DOMAIN d.a /\ I \subseteq 0..(Search!SearchLength(d) - 1)
  <2>1. Search!SearchLength(d) \in Nat /\ Search!SearchLength(d) <= Search!Len(d.a)
    BY Lengths
  <2> QED BY <1>1, <2>1
<1>3. d.alg # "find_end" => Pick(d, Sought(d) \cap I, j) = Search!FirstIn(Sought(d) \cap I, j)
  BY DEF Pick, Search!IsFirst
<1>4. CASE d.alg = "find_if"
  <2>1. Sought(d) \cap I = {l \in I : d.a[l] = 1}
    BY <1>2, <1>4 DEF Sought
  <2> QED BY <1>3, <1>4, <2>1 DEF Search!FindBrick, Search!FindIfBrick
<1>5. CASE d.alg = "find_first_of"
  <2>1. Sought(d) \cap I = {l \in I : \E q \in DOMAIN d.b : d.a[l] = d.b[q]}
    BY <1>2, <1>5 DEF Sought
  <2> QED BY <1>3, <1>5, <2>1 DEF Search!FindBrick, Search!FindFirstOfBrick
<1>6. CASE d.alg = "is_heap_until"
  <2>1. Sought(d) \cap I = {l \in I : d.a[Search!Parent(l)] < d.a[l]}
    BY <1>2, <1>6 DEF Sought
  <2> QED BY <1>3, <1>6, <2>1 DEF Search!FindBrick, Search!HeapUntilBrick
<1>7. CASE d.alg \in {"mismatch", "lexicographical_compare"}
  <2>1. Sought(d) \cap I = {l \in I : d.a[l] # d.b[l]}
    BY <1>2, <1>7 DEF Sought
  <2> QED BY <1>3, <1>7, <2>1 DEF Search!FindBrick, Search!MismatchBrick
<1>8. I # {} /\ I \subseteq 0..(j - 1) /\ i \in I /\ \A s \in I : i <= s
  <2>1. i \in I /\ I \subseteq 0..(j - 1) /\ \A s \in I : i <= s
    OBVIOUS
  <2> HIDE DEF I
  <2> QED BY <2>1
<1>9. Search!FirstIn(I, j) = i
  <2>1. PICK S : S = I
    OBVIOUS
  <2> QED BY <1>8, <2>1, MinIsUnique DEF Search!FirstIn
<1>10. CASE d.alg = "search_n"
  <2> DEFINE starts == {l \in I : l + d.k <= Search!Len(d.a) /\ \A q \in l..(l + d.k - 1) : d.a[q] = 1}
  <2>1. Sought(d) \cap I = starts
    BY <1>2, <1>10 DEF Sought
  <2>2. Search!FindBrick(d, i, j) = Search!FindSubrange(d, i, j, d.k, starts)
    BY <1>10 DEF Search!FindBrick, Search!SearchNBrick
  <2>3. CASE d.k < 1
    <3>1. starts = I
      BY <1>1, <1>2, <2>3
    <3> QED BY <1>3, <1>9, <1>10, <2>1, <2>2, <2>3, <3>1 DEF Search!FindSubrange, Search!IsFirst
  <2>4. CASE ~(d.k < 1)
    <3> HIDE DEF starts
    <3>1. Search!FindSubrange(d, i, j, d.k, starts) = Search!FirstIn(starts, j)
      BY <1>10, <2>4 DEF Search!FindSubrange, Search!IsFirst, Search!FirstIn
    <3> QED BY <1>3, <1>10, <2>1, <2>2, <3>1
  <2> QED BY <2>3, <2>4
<1>11. CASE d.alg \in {"search", "find_end"}
  <2> DEFINE starts == {l \in I : l + Search!Len(d.b) <= Search!Len(d.a) /\ \A q \in DOMAIN d.b : d.a[l + q] = d.b[q]}
  <2>1. Sought(d) \cap I = {l \in starts : DOMAIN d.b = {} => Search!IsFirst(d)}
    BY <1>2, <1>11 DEF Sought, Search!Occurs
  <2>2. Search!FindBrick(d, i, j) = Search!FindSubrange(d, i, j, Search!Len(d.b), starts)
    BY <1>11 DEF Search!FindBrick, Search!SubrangeBrick
  <2>3. CASE Search!Len(d.b) < 1
    <3>1. starts = I /\ DOMAIN d.b = {}
      BY <1>1, <1>2, <2>3
    <3> QED BY <1>9, <2>1, <2>2, <2>3, <3>1 DEF Search!FindSubrange, Pick, LastIn
  <2>4. CASE ~(Search!Len(d.b) < 1)
    <3>1. DOMAIN d.b # {}
      <4>1. 0 \in 0..(Search!Len(d.b) - 1)
        BY <1>1, <2>4
      <4> QED BY <1>1, <4>1
    <3>2. Sought(d) \cap I = starts
      BY <2>1, <3>1
    <3> QED BY <2>2, <2>4, <3>2 DEF Search!FindSubrange, Pick, LastIn, Search!FirstIn
  <2> QED BY <2>3, <2>4
<1> QED
  BY <1>4, <1>5, <1>6, <1>7, <1>10, <1>11 DEF Search!FindAlgs

(* What is looked for is what the algorithm returns.                                *)
LEMMA SameCardinality ==
  ASSUME NEW S
  PROVE  Search!Cardinality(S) = Cardinality(S)
BY Zenon DEF Search!Cardinality, Cardinality

LEMMA CountIsPositive ==
  ASSUME NEW s, Given(s), NEW key
  PROVE  /\ Search!Cardinality({l \in DOMAIN s : s[l] = key}) \in Nat
         /\ Search!Cardinality({l \in DOMAIN s : s[l] = key}) > 0 <=> \E l \in DOMAIN s : s[l] = key
<1> DEFINE S == {l \in DOMAIN s : s[l] = key}
<1>1. IsFiniteSet(DOMAIN s)
  BY FS_Interval DEF Given
<1>2. IsFiniteSet(S)
  BY <1>1, FS_Subset
<1>3. Cardinality(S) \in Nat /\ (Cardinality(S) = 0 <=> S = {})
  BY <1>2, FS_CardinalityType, FS_EmptySet
<1>4. Search!Cardinality(S) \in Nat /\ (Search!Cardinality(S) > 0 <=> S # {})
  BY <1>3, SameCardinality
<1>5. S # {} <=> \E l \in DOMAIN s : s[l] = key
  OBVIOUS
<1> QED
  BY <1>4, <1>5

LEMMA Parents ==
  ASSUME NEW s, Given(s), NEW l \in DOMAIN s
  PROVE  (s[Search!Parent(l)] < s[l]) <=>
         \E m \in 0..(l - 1) : l \in {2 * m + 1, 2 * m + 2} /\ s[m] < s[l]
<1>1. l \in Nat /\ \A m \in DOMAIN s : s[m] \in Nat
  BY DEF Given
<1>2. CASE l = 0
  BY <1>1, <1>2 DEF Search!Parent
<1>3. CASE l # 0
  <2>1. PICK p \in 0..(l - 1) : p = (l - 1) \div 2
    BY <1>1, <1>3
  <2>2. l \in {2 * p + 1, 2 * p + 2}
    <3>1. l - 1 \in Nat /\ 2 \in Nat \ {0}
      BY <1>1, <1>3
    <3>2. 2 * p <= l - 1 /\ (l - 1) - 2 * p < 2
      BY <2>1, <3>1, Division
    <3> QED BY <1>1, <3>2
  <2>3. \A m \in 0..(l - 1) : l \in {2 * m + 1, 2 * m + 2} => m = p
    BY <1>1, <2>2
  <2>4. Search!Parent(l) = p
    BY <1>3, <2>1 DEF Search!Parent
  <2> QED BY <2>2, <2>3, <2>4
<1> QED
  BY <1>2, <1>3

LEMMA FirstIsFirst ==
  ASSUME NEW n \in Nat, NEW S, S \subseteq 0..(n - 1), NEW r, r = Search!FirstIn(S, n)
  PROVE  /\ S = {} => r = n
         /\ S # {} => r \in S /\ r \in 0..(n - 1) /\ \A s \in S : r <= s
  BY LeastAndGreatest DEF Search!FirstIn

LEMMA SimpleSearches ==
  ASSUME NEW d, ASearch(d), d.alg \in {"find_if", "find_first_of", "is_heap_until", "mismatch"},
         Search!Shortcut(d) = {}
  PROVE  Search!Correct(d, Search!FirstIn(Sought(d), Search!SearchLength(d)))
<1> DEFINE n1 == Search!Len(d.a)
           n2 == Search!Len(d.b)
<1>1. DOMAIN d.a = 0..(n1 - 1) /\ DOMAIN d.b = 0..(n2 - 1)
  BY DEF ASearch, Given
<1>2. d.alg # "mismatch" => Search!SearchLength(d) = n1
  BY DEF Search!SearchLength
<1>3. CASE d.alg = "find_if"
  BY <1>2, <1>3 DEF Search!Correct, Sought
<1>4. CASE d.alg = "find_first_of"
  <2>1. Given(d.b)
    BY DEF ASearch
  <2>2. \A key : Search!Cardinality({q \in DOMAIN d.b : d.b[q] = key}) > 0 <=> \E q \in DOMAIN d.b : d.b[q] = key
    BY <2>1, CountIsPositive
  <2>3. Sought(d) = {l \in DOMAIN d.a : Search!Cardinality({q \in DOMAIN d.b : d.b[q] = d.a[l]}) > 0}
    <3>1. \A l \in DOMAIN d.a : (Search!Cardinality({q \in DOMAIN d.b : d.b[q] = d.a[l]}) > 0) <=> \E q \in DOMAIN d.b : d.a[l] = d.b[q]
      BY <2>2
    <3> QED BY <1>4, <3>1 DEF Sought
  <2> QED BY <1>2, <1>4, <2>3 DEF Search!Correct
<1>5. CASE d.alg = "is_heap_until"
  <2>1. \A l \in DOMAIN d.a : (d.a[Search!Parent(l)] < d.a[l]) <=>
          \E m \in 0..(l - 1) : l \in {2 * m + 1, 2 * m + 2} /\ d.a[m] < d.a[l]
    BY Parents DEF ASearch
  <2>2. Sought(d) = {l \in 0..(n1 - 1) : \E m \in 0..(l - 1) : l \in {2 * m + 1, 2 * m + 2} /\ d.a[m] < d.a[l]}
    BY <1>1, <1>5, <2>1 DEF Sought
  <2> QED BY <1>2, <1>5, <2>2 DEF Search!Correct
<1>6. CASE d.alg = "mismatch"
  BY <1>6 DEF Search!Correct, Sought, Search!SearchLength
<1> QED
  BY <1>3, <1>4, <1>5, <1>6

LEMMA LexicographicalSearch ==
  ASSUME NEW d, ASearch(d), d.alg = "lexicographical_compare", Search!Shortcut(d) = {}
  PROVE  Search!Correct(d, Search!FromFind(d, Search!FirstIn(Sought(d), Search!SearchLength(d))))
<1> DEFINE n1 == Search!Len(d.a)
           n2 == Search!Len(d.b)
           n == Search!SearchLength(d)
           S == Sought(d)
           r == Search!FirstIn(S, n)
           differ == {l \in 0..(Search!Min({n1, n2}) - 1) : d.a[l] # d.b[l]}
<1>1. n1 \in Nat /\ n2 \in Nat /\ DOMAIN d.a = 0..(n1 - 1) /\ DOMAIN d.b = 0..(n2 - 1)
      /\ (\A l \in DOMAIN d.a : d.a[l] \in Nat) /\ (\A l \in DOMAIN d.b : d.b[l] \in Nat)
  BY DEF ASearch, Given
<1>2. n \in Nat /\ n + 1 = Search!Min({n1, n2}) /\ ((n + 1 = n1 /\ n1 <= n2) \/ (n + 1 = n2 /\ n2 < n1))
  BY Lengths DEF Search!FindAlgs
<1>3. S = {l \in 0..(n - 1) : d.a[l] # d.b[l]}
  BY DEF Sought
<1>4. differ = {l \in 0..n : d.a[l] # d.b[l]}
  BY <1>2
<1>5. S \subseteq 0..(n - 1) /\ differ \subseteq 0..((n + 1) - 1) /\ n + 1 \in Nat
  BY <1>2, <1>3, <1>4
<1>6. Search!Correct(d, Search!FromFind(d, r)) <=>
        Search!FromFind(d, r) = IF differ = {} THEN n1 < n2 ELSE d.a[Search!Min(differ)] < d.b[Search!Min(differ)]
  BY DEF Search!Correct
<1>7. Search!FromFind(d, r) =
        IF r = n1 - 1 /\ r # n2 - 1 THEN ~(d.b[r] < d.a[r]) ELSE d.a[r] < d.b[r]
  BY DEF Search!FromFind
<1>8. /\ S = {} => r = n
      /\ S # {} => r \in S /\ r \in 0..(n - 1) /\ \A s \in S : r <= s
  BY <1>2, <1>5, FirstIsFirst
<1> HIDE DEF S, r, differ, n, n1, n2
<1>9. CASE S # {}
  <2>1. r \in differ /\ r < n /\ \A s \in differ : r <= s
    BY <1>2, <1>3, <1>4, <1>8, <1>9
  <2>2. Search!Min(differ) = r
    BY <1>5, <2>1, MinIsUnique
  <2>3. r # n1 - 1
    BY <1>1, <1>2, <1>8, <1>9
  <2> QED BY <1>6, <1>7, <2>1, <2>2, <2>3 DEF r, S, n
<1>10. CASE S = {} /\ d.a[n] # d.b[n]
  <2>1. r = n
    BY <1>8, <1>10
  <2>2. r \in differ /\ \A s \in differ : r <= s
    BY <1>2, <1>3, <1>4, <1>10, <2>1
  <2>3. Search!Min(differ) = r
    BY <1>5, <2>2, MinIsUnique
  <2>4. d.a[r] \in Nat /\ d.b[r] \in Nat /\ d.a[r] # d.b[r]
    BY <1>1, <1>2, <1>10, <2>1
  <2>5. Search!FromFind(d, r) = (d.a[r] < d.b[r])
    BY <1>7, <2>4
  <2> QED BY <1>6, <2>2, <2>3, <2>5 DEF r, S, n
<1>11. CASE S = {} /\ d.a[n] = d.b[n]
  <2>1. r = n
    BY <1>8, <1>11
  <2>2. differ = {}
    BY <1>2, <1>3, <1>4, <1>11
  <2>3. d.a[r] \in Nat /\ d.b[r] \in Nat /\ d.a[r] = d.b[r]
    BY <1>1, <1>2, <1>11, <2>1
  <2>4. Search!FromFind(d, r) = (n1 < n2)
    BY <1>1, <1>2, <1>7, <2>1, <2>3
  <2> QED BY <1>6, <2>2, <2>4 DEF r, S, n
<1> QED
  BY <1>9, <1>10, <1>11 DEF r, S, n

LEMMA SubrangeSearches ==
  ASSUME NEW d, ASearch(d), d.alg \in Subranges, ~Search!IsOr(d)
  PROVE  Search!Correct(d, Pick(d, Sought(d), Search!SearchLength(d)))
<1> DEFINE n1 == Search!Len(d.a)
           n2 == Search!Len(d.b)
           S == Sought(d)
<1>1. n1 \in Nat /\ n2 \in Nat /\ d.k \in Nat /\ DOMAIN d.a = 0..(n1 - 1) /\ DOMAIN d.b = 0..(n2 - 1)
  BY DEF ASearch, Given
<1>2. Search!SearchLength(d) = n1
  BY DEF Search!SearchLength, Subranges
<1>3. S \subseteq 0..(n1 - 1)
  BY <1>1 DEF Sought, Subranges
<1>4. n1 + 1 \in Nat /\ (n1 + 1) - 1 = n1
  BY <1>1
<1>5. CASE d.alg = "search_n"
  <2> DEFINE runs == {l \in 0..(n1 - d.k) : \A q \in l..(l + d.k - 1) : d.a[q] = 1}
  <2>1. d.k # n1
    BY <1>5 DEF Search!IsOr
  <2>2. S = {l \in 0..(n1 - 1) : l + d.k <= n1 /\ \A q \in l..(l + d.k - 1) : d.a[q] = 1}
    BY <1>1, <1>5 DEF Sought
  <2>3. Pick(d, S, n1) = Search!FirstIn(S, n1)
    BY <1>5 DEF Pick, Search!IsFirst
  <2>4. Search!FirstIn(S, n1) = Search!FirstIn(runs, n1)
    <3>1. CASE d.k > 0
      <4>1. runs = S
        BY <1>1, <2>2, <3>1
      <4> QED BY <4>1
    <3>2. CASE d.k = 0
      <4>1. 0 \in S /\ 0 \in runs /\ runs \subseteq 0..((n1 + 1) - 1) /\ (\A s \in S : 0 <= s) /\ (\A s \in runs : 0 <= s)
        BY <1>1, <2>1, <2>2, <3>2
      <4> HIDE DEF S, runs
      <4>2. Search!Min(S) = 0 /\ Search!Min(runs) = 0
        BY <1>1, <1>3, <1>4, <4>1, MinIsUnique
      <4> QED BY <4>1, <4>2 DEF Search!FirstIn
    <3> QED BY <1>1, <3>1, <3>2
  <2> QED BY <1>2, <1>5, <2>3, <2>4 DEF Search!Correct
<1>6. CASE d.alg \in {"search", "find_end"}
  <2> DEFINE all == {l \in 0..n1 : Search!Occurs(d, l)}
  <2>1. n1 # n2
    BY <1>6 DEF Search!IsOr
  <2>2. S = {l \in 0..(n1 - 1) : Search!Occurs(d, l) /\ (DOMAIN d.b = {} => Search!IsFirst(d))}
    BY <1>1, <1>6 DEF Sought
  <2>3. n2 > 0 => S = all
    <3> SUFFICES ASSUME n2 > 0 PROVE S = all
      OBVIOUS
    <3>1. 0 \in DOMAIN d.b
      BY <1>1
    <3>2. \A l \in all : l \in 0..(n1 - 1)
      BY <1>1 DEF Search!Occurs
    <3> QED BY <1>1, <2>2, <3>1, <3>2
  <2>4. CASE d.alg = "search"
    <3>1. Pick(d, S, n1) = Search!FirstIn(S, n1)
      BY <2>4 DEF Pick, Search!IsFirst
    <3>2. Search!FirstIn(S, n1) = Search!FirstIn(all, n1)
      <4>1. CASE n2 > 0
        BY <2>3, <4>1
      <4>2. CASE n2 = 0
        <5>1. DOMAIN d.b = {} /\ \A l \in 0..n1 : Search!Occurs(d, l)
          BY <1>1, <4>2 DEF Search!Occurs
        <5>2. 0 \in S /\ 0 \in all /\ all \subseteq 0..((n1 + 1) - 1) /\ (\A s \in S : 0 <= s) /\ (\A s \in all : 0 <= s)
          BY <1>1, <2>1, <2>2, <2>4, <4>2, <5>1 DEF Search!IsFirst
        <5> HIDE DEF S, all
        <5>3. Search!Min(S) = 0 /\ Search!Min(all) = 0
          BY <1>1, <1>3, <1>4, <5>2, MinIsUnique
        <5> QED BY <5>2, <5>3 DEF Search!FirstIn
      <4> QED BY <1>1, <4>1, <4>2
    <3> QED BY <1>2, <2>4, <3>1, <3>2 DEF Search!Correct
  <2>5. CASE d.alg = "find_end"
    <3>1. Pick(d, S, n1) = LastIn(S, n1)
      BY <2>5 DEF Pick, Search!IsFirst
    <3>2. CASE n2 > 0
      BY <1>2, <2>3, <2>5, <3>1, <3>2 DEF Search!Correct, LastIn
    <3>3. CASE n2 = 0
      <4>1. DOMAIN d.b = {}
        BY <1>1, <3>3
      <4>2. S = {}
        BY <2>2, <2>5, <4>1 DEF Search!IsFirst
      <4>3. Pick(d, S, n1) = n1
        BY <3>1, <4>2 DEF LastIn
      <4> QED BY <1>2, <2>5, <3>3, <4>3 DEF Search!Correct
    <3> QED BY <1>1, <3>2, <3>3
  <2> QED BY <1>6, <2>4, <2>5
<1> QED
  BY <1>5, <1>6 DEF Subranges

(* An or. The places that make the bricks of a call true.                          *)
Lacks(d, l) ==
  Cardinality({q \in DOMAIN d.a : d.a[q] = d.b[l]}) < Cardinality({q \in DOMAIN d.b : d.b[q] = d.b[l]})

Bad(d, l) ==
  CASE d.alg = "any_of"   -> d.a[l] = 1
    [] d.alg = "is_heap"  -> d.a[Search!Parent(l)] < d.a[l]
    [] d.alg = "search_n" -> d.a[l] # 1
    [] d.alg = "includes" -> Lacks(d, l)
    [] OTHER              -> d.a[l] # d.b[l]

\* What is less than a bound in an ascending sequence comes first.
Initial(S, i, n) == S \subseteq i..(n - 1) /\ \A p \in S : \A q \in i..(n - 1) : q < p => q \in S
EndsAt(S, i, m) == S = i..(m - 1) /\ i + Search!Cardinality(S) = m

LEMMA Segment ==
  ASSUME NEW i \in Nat, NEW n \in Nat, i <= n, NEW S, Initial(S, i, n)
  PROVE  \E m \in i..n : EndsAt(S, i, m)
<1> USE DEF Initial, EndsAt
<1> DEFINE R == (i..(n - 1)) \ S
<1>1. \E m \in i..n : S = i..(m - 1)
  <2>1. CASE R = {}
    <3>1. S = i..(n - 1)
      BY <2>1
    <3> QED BY <3>1
  <2>2. CASE R # {}
    <3>1. R \subseteq Nat
      OBVIOUS
    <3>2. PICK m \in R : \A y \in R : m <= y
      <4> HIDE DEF R
      <4> QED BY <2>2, <3>1, LeastNumber
    <3>3. S = i..(m - 1)
      <4>1. \A p \in S : p < m
        BY <3>2
      <4>2. \A p \in i..(m - 1) : p \in S
        BY <3>2
      <4>3. \A p \in S : p \in i..(m - 1)
        BY <3>2, <4>1
      <4> QED BY <4>2, <4>3
    <3> QED BY <3>2, <3>3
  <2> QED BY <2>1, <2>2
<1>2. PICK m \in i..n : S = i..(m - 1)
  BY <1>1
<1>3. Cardinality(i..(m - 1)) = m - i
  <2>1. m - 1 \in Int /\ i \in Int /\ (i > m - 1 <=> m = i)
    OBVIOUS
  <2>2. Cardinality(i..(m - 1)) = IF i > m - 1 THEN 0 ELSE (m - 1) - i + 1
    BY <2>1, FS_Interval
  <2> QED BY <2>1, <2>2
<1>4. Search!Cardinality(S) = m - i
  BY <1>2, <1>3, SameCardinality
<1> QED
  BY <1>2, <1>4

LEMMA Bounds ==
  ASSUME NEW s, Given(s), Ascending(s), NEW i \in Nat, i <= Search!Len(s), NEW key \in Nat
  PROVE  /\ Search!UpperBound(s, i, Search!Len(s), key) \in i..Search!Len(s)
         /\ \A q \in i..(Search!Len(s) - 1) : s[q] <= key <=> q < Search!UpperBound(s, i, Search!Len(s), key)
         /\ Search!LowerBound(s, i, Search!Len(s), key) \in i..Search!Len(s)
         /\ \A q \in i..(Search!Len(s) - 1) : s[q] < key <=> q < Search!LowerBound(s, i, Search!Len(s), key)
<1> DEFINE n == Search!Len(s)
           U == {l \in i..(n - 1) : s[l] <= key}
           V == {l \in i..(n - 1) : s[l] < key}
<1>1. n \in Nat /\ i <= n /\ DOMAIN s = 0..(n - 1) /\ \A l \in DOMAIN s : s[l] \in Nat
  BY DEF Given
<1>2. \A p \in i..(n - 1) : \A q \in i..(n - 1) : q < p => s[q] <= s[p] /\ s[q] \in Nat /\ s[p] \in Nat
  BY <1>1 DEF Ascending
<1>3. PICK m \in i..n : U = i..(m - 1) /\ i + Search!Cardinality(U) = m
  <2>1. U \subseteq i..(n - 1) /\ \A p \in U : \A q \in i..(n - 1) : q < p => q \in U
    BY <1>1, <1>2
  <2>2. Initial(U, i, n)
    BY <2>1 DEF Initial
  <2>3. \E m \in i..n : EndsAt(U, i, m)
    <3> HIDE DEF U, n
    <3> QED BY <1>1, <2>2, Segment
  <2> QED BY <2>3 DEF EndsAt
<1>4. PICK k \in i..n : V = i..(k - 1) /\ i + Search!Cardinality(V) = k
  <2>1. V \subseteq i..(n - 1) /\ \A p \in V : \A q \in i..(n - 1) : q < p => q \in V
    BY <1>1, <1>2
  <2>2. Initial(V, i, n)
    BY <2>1 DEF Initial
  <2>3. \E k \in i..n : EndsAt(V, i, k)
    <3> HIDE DEF V, n
    <3> QED BY <1>1, <2>2, Segment
  <2> QED BY <2>3 DEF EndsAt
<1>5. Search!UpperBound(s, i, n, key) = m /\ Search!LowerBound(s, i, n, key) = k
  BY <1>3, <1>4 DEF Search!UpperBound, Search!LowerBound
<1>6. \A q \in i..(n - 1) : s[q] <= key <=> q < m
  <2>1. \A q \in i..(n - 1) : q \in U <=> s[q] <= key
    OBVIOUS
  <2> HIDE DEF U
  <2> QED BY <1>1, <1>3, <2>1
<1>7. \A q \in i..(n - 1) : s[q] < key <=> q < k
  <2>1. \A q \in i..(n - 1) : q \in V <=> s[q] < key
    OBVIOUS
  <2> HIDE DEF V
  <2> QED BY <1>1, <1>4, <2>1
<1> QED
  BY <1>5, <1>6, <1>7

\* The run of equal keys that place l of the second sequence is in begins at i or later.
Begins(d, i, l) == \A q \in 0..(i - 1) : d.b[q] # d.b[l]

(* The brick of includes looks at the runs that begin in its chunk, and at all of   *)
(* each.                                                                            *)
LEMMA RunsOfChunk ==
  ASSUME NEW d, ASearch(d), d.alg = "includes",
         NEW i \in Nat, NEW j \in Nat, i < j, j <= Search!Len(d.b)
  PROVE  Search!IncludesBrick(d, i, j) <=> \E l \in i..(j - 1) : Begins(d, i, l) /\ Lacks(d, l)
<1> DEFINE n1 == Search!Len(d.a)
           n2 == Search!Len(d.b)
           continues == i > 0 /\ d.b[i - 1] = d.b[i]
           extended == j < n2 /\ d.b[j - 1] = d.b[j]
           b == IF continues THEN Search!UpperBound(d.b, i, n2, d.b[i]) ELSE i
           e == IF extended THEN Search!UpperBound(d.b, j, n2, d.b[j]) ELSE j
           f == Search!LowerBound(d.a, 0, n1, d.b[b])
<1>1. /\ n1 \in Nat /\ n2 \in Nat /\ DOMAIN d.a = 0..(n1 - 1) /\ DOMAIN d.b = 0..(n2 - 1)
      /\ \A l \in 0..(n2 - 1) : d.b[l] \in Nat
      /\ \A l \in 0..(n1 - 1) : d.a[l] \in Nat
      /\ \A p \in 0..(n2 - 1), q \in 0..(n2 - 1) : p <= q => d.b[p] <= d.b[q]
  <2>1. Given(d.a) /\ Given(d.b) /\ Ascending(d.b)
    BY DEF ASearch
  <2>2. n1 \in Nat /\ n2 \in Nat /\ DOMAIN d.a = 0..(n1 - 1) /\ DOMAIN d.b = 0..(n2 - 1)
        /\ (\A l \in 0..(n2 - 1) : d.b[l] \in Nat) /\ (\A l \in 0..(n1 - 1) : d.a[l] \in Nat)
    BY <2>1 DEF Given
  <2>3. \A p \in 0..(n2 - 1), q \in 0..(n2 - 1) : p < q => d.b[p] <= d.b[q]
    BY <2>1, <2>2 DEF Ascending
  <2> HIDE DEF n1, n2
  <2>4. \A p \in 0..(n2 - 1), q \in 0..(n2 - 1) : p <= q => d.b[p] <= d.b[q]
    BY SMTT(30), <2>2, <2>3
  <2> QED BY <2>2, <2>4
<1>2. i \in 0..(n2 - 1) /\ j - 1 \in 0..(n2 - 1) /\ j <= n2 /\ (i > 0 => i - 1 \in 0..(n2 - 1))
      /\ (j < n2 => j \in 0..(n2 - 1)) /\ n2 \in Nat
  BY <1>1
<1>3. continues => b \in i..n2 /\ \A q \in i..(n2 - 1) : d.b[q] <= d.b[i] <=> q < b
  <2>1. Given(d.b) /\ Ascending(d.b) /\ d.b[i] \in Nat /\ i <= Search!Len(d.b)
    BY <1>1, <1>2 DEF ASearch
  <2> QED BY <2>1, Bounds
<1>4. extended => e \in j..n2 /\ \A q \in j..(n2 - 1) : d.b[q] <= d.b[j] <=> q < e
  <2> SUFFICES ASSUME extended PROVE e \in j..n2 /\ \A q \in j..(n2 - 1) : d.b[q] <= d.b[j] <=> q < e
    OBVIOUS
  <2>1. Given(d.b) /\ Ascending(d.b) /\ d.b[j] \in Nat /\ j <= Search!Len(d.b)
    BY <1>1, <1>2 DEF ASearch
  <2> QED BY <2>1, Bounds
<1>5. (~continues => b = i) /\ (~extended => e = j)
  OBVIOUS
<1>6. Search!IncludesBrick(d, i, j) =
        IF continues /\ d.b[i] = d.b[j - 1] THEN FALSE
        ELSE \E l \in b..(e - 1) :
               Search!Cardinality({q \in f..(n1 - 1) : d.a[q] = d.b[l]}) < Search!Cardinality({q \in b..(e - 1) : d.b[q] = d.b[l]})
  BY DEF Search!IncludesBrick
<1>7. \A l \in 0..(n2 - 1) : Lacks(d, l) <=>
        Cardinality({q \in 0..(n1 - 1) : d.a[q] = d.b[l]}) < Cardinality({q \in 0..(n2 - 1) : d.b[q] = d.b[l]})
  BY <1>1 DEF Lacks
<1> HIDE DEF n1, n2, b, e
<1>8. CASE continues /\ d.b[i] = d.b[j - 1]
  <2>1. \A l \in i..(j - 1) : d.b[l] = d.b[i - 1]
    BY <1>1, <1>2, <1>8
  <2>2. \A l \in i..(j - 1) : ~Begins(d, i, l)
    BY <1>8, <2>1 DEF Begins
  <2> QED BY <1>6, <1>8, <2>2
<1>9. CASE ~(continues /\ d.b[i] = d.b[j - 1])
  <2>1. b \in i..n2 /\ e \in j..n2 /\ n2 \in Nat
    BY <1>2, <1>3, <1>4, <1>5
  <2>2. \A l \in b..(e - 1) : \A q \in 0..(n2 - 1) : d.b[q] = d.b[l] => q \in b..(e - 1)
    <3> SUFFICES ASSUME NEW l \in b..(e - 1), NEW q \in 0..(n2 - 1), d.b[q] = d.b[l] PROVE q \in b..(e - 1)
      OBVIOUS
    <3>1. l \in 0..(n2 - 1)
      BY <2>1
    <3>2. q < i => FALSE
      <4> SUFFICES ASSUME q < i PROVE FALSE
        OBVIOUS
      <4>1. d.b[q] <= d.b[i - 1] /\ d.b[i - 1] <= d.b[i] /\ d.b[i] <= d.b[l]
        <5>1. i - 1 \in 0..(n2 - 1) /\ q <= i - 1 /\ i - 1 <= i /\ i <= l
          BY <1>2, <2>1, <3>1
        <5> QED BY <1>1, <1>2, <3>1, <5>1
      <4>2. d.b[i - 1] = d.b[i] /\ d.b[i] = d.b[l]
        BY <1>1, <1>2, <3>1, <4>1
      <4>3. continues
        BY <4>2
      <4> QED BY <1>3, <2>1, <3>1, <4>2, <4>3, <1>1, <1>2
    <3>3. i <= q /\ q < b => FALSE
      <4> SUFFICES ASSUME i <= q, q < b PROVE FALSE
        OBVIOUS
      <4>1. continues
        BY <1>5, <2>1
      <4>2. d.b[q] <= d.b[i] /\ ~(d.b[l] <= d.b[i])
        BY <1>3, <2>1, <3>1, <4>1
      <4> QED BY <4>2
    <3>4. q >= e => FALSE
      <4> SUFFICES ASSUME q >= e PROVE FALSE
        OBVIOUS
      <4>1. CASE extended
        <5>1. d.b[q] > d.b[j]
          BY <1>1, <1>2, <1>4, <2>1, <4>1
        <5>2. d.b[l] <= d.b[j]
          <6>1. CASE l < j
            BY <1>1, <1>2, <3>1, <4>1, <6>1
          <6>2. CASE l >= j
            BY <1>4, <2>1, <3>1, <4>1, <6>2
          <6> QED BY <3>1, <6>1, <6>2
        <5> QED BY <1>1, <1>2, <3>1, <4>1, <5>1, <5>2
      <4>2. CASE ~extended
        <5>1. e = j /\ l <= j - 1 /\ j <= q /\ j < n2
          BY <1>5, <2>1, <4>2
        <5>2. d.b[l] <= d.b[j - 1] /\ d.b[j - 1] <= d.b[j] /\ d.b[j] <= d.b[q]
          BY <1>1, <1>2, <3>1, <5>1
        <5>3. d.b[j - 1] = d.b[j]
          BY <1>1, <1>2, <3>1, <5>1, <5>2
        <5> QED BY <4>2, <5>1, <5>3
      <4> QED BY <4>1, <4>2
    <3> QED BY <2>1, <3>2, <3>3, <3>4
  <2>3. \A l \in b..(e - 1) :
          Lacks(d, l) <=>
          Search!Cardinality({q \in f..(n1 - 1) : d.a[q] = d.b[l]}) < Search!Cardinality({q \in b..(e - 1) : d.b[q] = d.b[l]})
    <3> SUFFICES ASSUME NEW l \in b..(e - 1)
                 PROVE  Lacks(d, l) <=>
          Search!Cardinality({q \in f..(n1 - 1) : d.a[q] = d.b[l]}) < Search!Cardinality({q \in b..(e - 1) : d.b[q] = d.b[l]})
      OBVIOUS
    <3>1. l \in 0..(n2 - 1) /\ b \in 0..(n2 - 1) /\ b <= l
      BY <2>1
    <3>2. {q \in 0..(n2 - 1) : d.b[q] = d.b[l]} = {q \in b..(e - 1) : d.b[q] = d.b[l]}
      BY <2>1, <2>2
    <3>3. f \in 0..n1 /\ \A q \in 0..(n1 - 1) : d.a[q] < d.b[b] <=> q < f
      <4>1. Given(d.a) /\ Ascending(d.a) /\ d.b[b] \in Nat /\ 0 <= Search!Len(d.a) /\ 0 \in Nat
        BY <1>1, <3>1 DEF ASearch, n1
      <4> QED BY <4>1, Bounds DEF n1
    <3>4. d.b[b] <= d.b[l] /\ d.b[b] \in Nat /\ d.b[l] \in Nat
      BY <1>1, <3>1
    <3> HIDE DEF f
    <3>5. \A q \in 0..(n1 - 1) : d.a[q] = d.b[l] => q >= f
      BY <1>1, <3>3, <3>4
    <3>6. {q \in 0..(n1 - 1) : d.a[q] = d.b[l]} = {q \in f..(n1 - 1) : d.a[q] = d.b[l]}
      BY <3>3, <3>5
    <3> QED BY <1>7, <3>1, <3>2, <3>6, SameCardinality
  <2> HIDE DEF f
  <2>4. Search!IncludesBrick(d, i, j) <=> \E l \in b..(e - 1) : Lacks(d, l)
    BY <1>6, <1>9, <2>3
  <2>5. ASSUME NEW l \in b..(e - 1), Lacks(d, l)
        PROVE  \E k \in i..(j - 1) : Begins(d, i, k) /\ Lacks(d, k)
    <3>1. \A k \in b..(e - 1) : Begins(d, i, k)
      <4> SUFFICES ASSUME NEW k \in b..(e - 1), NEW q \in 0..(i - 1), d.b[q] = d.b[k] PROVE FALSE
        BY DEF Begins
      <4>1. q \in 0..(n2 - 1)
        BY <1>1, <1>2
      <4>2. q \in b..(e - 1)
        BY <2>2, <4>1
      <4> QED BY <2>1, <4>2
    <3>2. CASE l < j
      <4>1. l \in i..(j - 1)
        BY <2>1, <3>2
      <4> QED BY <2>5, <3>1, <4>1
    <3>3. CASE l >= j
      <4>1. extended
        BY <1>5, <2>1, <3>3
      <4>2. d.b[l] <= d.b[j] /\ d.b[j] <= d.b[l] /\ l \in 0..(n2 - 1)
        BY <1>1, <1>2, <1>4, <2>1, <3>3, <4>1
      <4>3. d.b[l] = d.b[j - 1]
        BY <1>1, <1>2, <4>1, <4>2
      <4>4. j - 1 \in b..(e - 1)
        BY <1>1, <1>2, <2>1, <2>2, <4>3
      <4>5. Lacks(d, j - 1)
        BY <2>5, <4>3 DEF Lacks
      <4>6. j - 1 \in i..(j - 1)
        OBVIOUS
      <4> QED BY <3>1, <4>4, <4>5, <4>6
    <3> QED BY <2>1, <3>2, <3>3
  <2>6. ASSUME NEW l \in i..(j - 1), Begins(d, i, l) PROVE l \in b..(e - 1)
    <3>1. l \in 0..(n2 - 1)
      BY <1>2
    <3>2. continues => l >= b
      <4> SUFFICES ASSUME continues PROVE l >= b
        OBVIOUS
      <4>1. i - 1 \in 0..(i - 1) /\ d.b[i - 1] # d.b[l]
        BY <2>6 DEF Begins
      <4>2. d.b[l] > d.b[i]
        BY <1>1, <1>2, <3>1, <4>1
      <4>3. ~(d.b[l] <= d.b[i])
        BY SMTT(30), <1>1, <1>2, <3>1, <4>2
      <4> QED BY <1>3, <2>1, <3>1, <4>3
    <3> QED BY <1>5, <2>1, <3>2
  <2> QED BY <2>4, <2>5, <2>6
<1> QED
  BY <1>8, <1>9

LEMMA OrLength ==
  ASSUME NEW d, ASearch(d), Search!IsOr(d), Search!Shortcut(d) = {}
  PROVE  /\ Search!SearchLength(d) \in Nat
         /\ d.alg = "includes" => Search!SearchLength(d) = Search!Len(d.b)
         /\ d.alg # "includes" => Search!SearchLength(d) = Search!Len(d.a)
         /\ d.alg \in {"equal", "search", "find_end"} => Search!Len(d.a) = Search!Len(d.b)
<1>1. Search!Len(d.a) \in Nat /\ Search!Len(d.b) \in Nat
  BY DEF ASearch, Given
<1>2. d.alg \in Search!OrAlgs \cup Subranges
  BY DEF Search!IsOr, Subranges
<1>3. d.alg = "equal" => Search!Len(d.a) = Search!Len(d.b)
  BY DEF Search!Shortcut
<1>4. d.alg \in {"search", "find_end"} => Search!Len(d.a) = Search!Len(d.b)
  BY DEF Search!IsOr, Search!OrAlgs
<1>5. Search!SearchLength(d) = IF d.alg = "includes" THEN Search!Len(d.b) ELSE Search!Len(d.a)
  BY <1>2 DEF Search!SearchLength, Search!OrAlgs, Subranges
<1> QED
  BY <1>1, <1>3, <1>4, <1>5

LEMMA OrFinds ==
  ASSUME NEW d, ASearch(d), Search!IsOr(d), Search!Shortcut(d) = {},
         NEW T \in Tilings(0, Search!SearchLength(d))
  PROVE  (\E h \in T : Search!OrBrick(d, h[1], h[2])) <=> \E l \in 0..(Search!SearchLength(d) - 1) : Bad(d, l)
<1> DEFINE n == Search!SearchLength(d)
<1>1. n \in Nat /\ d.alg \in Search!OrAlgs \cup Subranges
  BY OrLength DEF Search!IsOr, Subranges
<1>2. /\ \A h \in T : h[1] \in Nat /\ h[2] \in Nat /\ h[1] < h[2] /\ h[2] <= n
      /\ \A s \in 0..(n - 1) : \E h \in T : s \in Chunk(h)
  <2>1. PICK m \in Nat : m = n
    BY <1>1
  <2>2. PICK S : S = 0..(m - 1) /\ S \subseteq 0..(m - 1) /\ T \in Tilings(0, m)
    BY <2>1
  <2>3. /\ T \subseteq Nat \X Nat /\ \A h \in T : h[1] < h[2] /\ h[2] <= m
        /\ UNION {Chunk(h) : h \in T} = 0..(m - 1)
    <3>1. 0 \in Nat /\ m \in Int
      OBVIOUS
    <3> QED BY <2>2, <3>1, ChunksTile
  <2> QED BY <2>1, <2>2, <2>3
<1> HIDE DEF n
<1>3. CASE d.alg # "includes"
  <2>1. \A h \in T : Search!OrBrick(d, h[1], h[2]) <=> \E l \in Chunk(h) : Bad(d, l)
    BY <1>1, <1>3 DEF Search!OrBrick, Bad, Chunk, Search!AnyOfBrick, Search!HeapBrick, Search!NotEqualTo,
                      Search!NotEqualBrick, Search!OrAlgs, Subranges
  <2>2. \A h \in T : Chunk(h) \subseteq 0..(n - 1)
    BY <1>1, <1>2 DEF Chunk
  <2> QED BY <1>2, <2>1, <2>2 DEF n
<1>4. CASE d.alg = "includes"
  <2>1. n = Search!Len(d.b) /\ DOMAIN d.b = 0..(n - 1)
    BY <1>4, OrLength DEF n, ASearch, Given
  <2>2. \A l \in 0..(n - 1) : Bad(d, l) <=> Lacks(d, l)
    BY <1>4 DEF Bad
  <2>3. ASSUME NEW h \in T
        PROVE  Search!OrBrick(d, h[1], h[2]) <=> \E l \in Chunk(h) : Begins(d, h[1], l) /\ Lacks(d, l)
    <3>1. PICK i \in Nat, j \in Nat : i = h[1] /\ j = h[2] /\ i < j /\ j <= Search!Len(d.b)
      BY <1>2, <2>1
    <3>2. Search!IncludesBrick(d, i, j) <=> \E l \in i..(j - 1) : Begins(d, i, l) /\ Lacks(d, l)
      BY <1>4, <3>1, RunsOfChunk
    <3> QED BY <1>4, <3>1, <3>2 DEF Search!OrBrick, Chunk
  <2>4. ASSUME NEW l \in 0..(n - 1), Lacks(d, l) PROVE \E h \in T : Search!OrBrick(d, h[1], h[2])
    <3> DEFINE R == {q \in 0..(n - 1) : d.b[q] = d.b[l]}
    <3>1. R \subseteq Nat /\ l \in R
      BY <1>1
    <3>2. PICK s \in R : \A q \in R : s <= q
      <4> HIDE DEF R
      <4>1. R # {}
        BY <3>1
      <4> QED BY <3>1, <4>1, LeastNumber
    <3>3. s \in 0..(n - 1) /\ d.b[s] = d.b[l]
      OBVIOUS
    <3>4. Lacks(d, s)
      BY <2>4, <3>3 DEF Lacks
    <3>5. PICK h \in T : s \in Chunk(h)
      BY <1>2, <3>3
    <3>6. Begins(d, h[1], s)
      <4> SUFFICES ASSUME NEW q \in 0..(h[1] - 1), d.b[q] = d.b[s] PROVE FALSE
        BY DEF Begins
      <4>1. h[1] \in Nat /\ h[1] <= s /\ q < s
        BY <1>2, <3>5 DEF Chunk
      <4>2. q \in 0..(n - 1)
        BY <1>1, <3>3, <4>1
      <4>3. q \in R
        BY <3>3, <4>2
      <4> QED BY <3>2, <4>1, <4>3
    <3> QED BY <2>3, <3>4, <3>5, <3>6
  <2>5. \A h \in T : Chunk(h) \subseteq 0..(n - 1)
    BY <1>1, <1>2 DEF Chunk
  <2> QED BY <2>2, <2>3, <2>4, <2>5 DEF n
<1> QED
  BY <1>3, <1>4

LEMMA IncludesAnswer ==
  ASSUME NEW d, ASearch(d), d.alg = "includes", NEW v \in BOOLEAN, v <=> \A l \in DOMAIN d.b : ~Lacks(d, l)
  PROVE  Search!Correct(d, v)
<1>1. \A l \in DOMAIN d.b : Lacks(d, l) <=>
        ~(Search!Cardinality({q \in DOMAIN d.b : d.b[q] = d.b[l]}) <= Search!Cardinality({q \in DOMAIN d.a : d.a[q] = d.b[l]}))
  <2> SUFFICES ASSUME NEW l \in DOMAIN d.b
               PROVE  Lacks(d, l) <=>
        ~(Search!Cardinality({q \in DOMAIN d.b : d.b[q] = d.b[l]}) <= Search!Cardinality({q \in DOMAIN d.a : d.a[q] = d.b[l]}))
    OBVIOUS
  <2>1. Given(d.a) /\ Given(d.b)
    BY DEF ASearch
  <2>2. PICK m \in Nat : m = Search!Cardinality({q \in DOMAIN d.b : d.b[q] = d.b[l]})
    BY <2>1, CountIsPositive
  <2>3. PICK n \in Nat : n = Search!Cardinality({q \in DOMAIN d.a : d.a[q] = d.b[l]})
    BY <2>1, CountIsPositive
  <2>4. Lacks(d, l) <=> n < m
    BY <2>2, <2>3, SameCardinality DEF Lacks
  <2> QED BY <2>2, <2>3, <2>4
<1>2. Search!Correct(d, v) <=>
        v = (\A l \in DOMAIN d.b : Search!Cardinality({q \in DOMAIN d.b : d.b[q] = d.b[l]})
                                   <= Search!Cardinality({q \in DOMAIN d.a : d.a[q] = d.b[l]}))
  BY DEF Search!Correct
<1> QED
  BY <1>1, <1>2

LEMMA OrCorrect ==
  ASSUME NEW d, ASearch(d), Search!IsOr(d), Search!Shortcut(d) = {}
  PROVE  Search!Correct(d, Search!FromOr(d, \E l \in 0..(Search!SearchLength(d) - 1) : Bad(d, l)))
<1> DEFINE n1 == Search!Len(d.a)
           n2 == Search!Len(d.b)
           bad == \E l \in 0..(n1 - 1) : Bad(d, l)
           differ == {l \in 0..(Search!Min({n1, n2}) - 1) : d.a[l] # d.b[l]}
<1>1. n1 \in Nat /\ n2 \in Nat /\ DOMAIN d.a = 0..(n1 - 1) /\ DOMAIN d.b = 0..(n2 - 1) /\ Given(d.a) /\ Given(d.b)
  BY DEF ASearch, Given
<1>2. d.alg # "includes" => Search!SearchLength(d) = n1
  BY OrLength
<1>3. d.alg \in {"equal", "search", "find_end"} => n1 = n2 /\ Search!Min({n1, n2}) = n1
  <2> SUFFICES ASSUME d.alg \in {"equal", "search", "find_end"} PROVE n1 = n2 /\ Search!Min({n1, n2}) = n1
    OBVIOUS
  <2>1. n1 = n2
    BY OrLength
  <2>2. {n1, n2} \subseteq 0..((n1 + 1) - 1) /\ n1 + 1 \in Nat /\ n1 \in {n1, n2} /\ \A s \in {n1, n2} : n1 <= s
    BY <1>1, <2>1
  <2>3. Search!Min({n1, n2}) = n1
    BY <2>2, MinIsUnique
  <2> QED BY <2>1, <2>3
<1>4. CASE d.alg = "any_of"
  <2>1. /\ Search!Cardinality({l \in DOMAIN d.a : d.a[l] = 1}) \in Nat
        /\ Search!Cardinality({l \in DOMAIN d.a : d.a[l] = 1}) > 0 <=> \E l \in DOMAIN d.a : d.a[l] = 1
    BY <1>1, CountIsPositive
  <2>2. bad <=> \E l \in DOMAIN d.a : d.a[l] = 1
    BY <1>1, <1>4 DEF Bad
  <2>3. Search!FromOr(d, bad) = bad
    BY <1>4 DEF Search!FromOr
  <2>4. PICK v \in BOOLEAN : v = bad
    OBVIOUS
  <2>5. Search!Correct(d, v) <=> v = (Search!Cardinality({l \in DOMAIN d.a : d.a[l] = 1}) > 0)
    BY <1>4 DEF Search!Correct
  <2>6. v = (Search!Cardinality({l \in DOMAIN d.a : d.a[l] = 1}) > 0)
    <3>1. v <=> \E l \in DOMAIN d.a : d.a[l] = 1
      BY <2>2, <2>4
    <3>2. PICK count \in Nat : count = Search!Cardinality({l \in DOMAIN d.a : d.a[l] = 1})
      BY <2>1
    <3>3. v <=> count > 0
      BY <2>1, <3>1, <3>2
    <3> QED BY <3>2, <3>3
  <2> QED BY <1>2, <1>4, <2>3, <2>4, <2>5, <2>6
<1>5. CASE d.alg = "is_heap"
  <2> DEFINE noHeap == {l \in 0..(n1 - 1) : \E m \in 0..(l - 1) : l \in {2 * m + 1, 2 * m + 2} /\ d.a[m] < d.a[l]}
  <2>1. \A l \in DOMAIN d.a : (d.a[Search!Parent(l)] < d.a[l]) <=>
          \E m \in 0..(l - 1) : l \in {2 * m + 1, 2 * m + 2} /\ d.a[m] < d.a[l]
    BY <1>1, Parents
  <2>2. bad <=> noHeap # {}
    BY <1>1, <1>5, <2>1 DEF Bad
  <2>3. Search!FromOr(d, bad) = ~bad
    BY <1>5 DEF Search!FromOr
  <2>4. Search!Correct(d, ~bad) <=> (~bad) = (noHeap = {})
    BY <1>5 DEF Search!Correct
  <2> QED BY <1>2, <1>5, <2>2, <2>3, <2>4
<1>6. CASE d.alg = "equal"
  <2>1. bad <=> differ # {}
    BY <1>3, <1>6 DEF Bad
  <2>2. Search!FromOr(d, bad) = ~bad
    BY <1>6 DEF Search!FromOr
  <2>3. Search!Correct(d, ~bad) <=> (~bad) = (n1 = n2 /\ differ = {})
    BY <1>6 DEF Search!Correct
  <2> QED BY <1>2, <1>3, <1>6, <2>1, <2>2, <2>3
<1>7. CASE d.alg = "includes"
  <2> DEFINE lacks == \E l \in 0..(Search!SearchLength(d) - 1) : Bad(d, l)
  <2>1. lacks <=> \E l \in DOMAIN d.b : Lacks(d, l)
    <3>1. Search!SearchLength(d) = n2
      BY <1>7, OrLength
    <3> QED BY <1>1, <1>7, <3>1 DEF Bad
  <2>2. Search!FromOr(d, lacks) = ~lacks
    BY <1>7 DEF Search!FromOr
  <2>3. PICK v \in BOOLEAN : v = ~lacks
    OBVIOUS
  <2>4. v <=> \A l \in DOMAIN d.b : ~Lacks(d, l)
    BY <2>1, <2>3
  <2>5. Search!Correct(d, v)
    BY <1>7, <2>4, IncludesAnswer
  <2> QED BY <2>2, <2>3, <2>5
<1>8. CASE d.alg = "search_n"
  <2> DEFINE runs == {l \in 0..(n1 - d.k) : \A q \in l..(l + d.k - 1) : d.a[q] = 1}
  <2>1. d.k = n1
    BY <1>8 DEF Search!IsOr, Search!OrAlgs
  <2>2. Search!Correct(d, Search!FromOr(d, bad)) <=> (IF bad THEN n1 ELSE 0) = Search!FirstIn(runs, n1)
    BY <1>8 DEF Search!Correct, Search!FromOr
  <2>3. runs = IF bad THEN {} ELSE {0}
    BY <1>1, <1>8, <2>1 DEF Bad
  <2>4. Search!FirstIn(runs, n1) = IF bad THEN n1 ELSE 0
    <3>1. Search!Min({0}) = 0
      <4>1. 1 \in Nat /\ {0} \subseteq 0..(1 - 1) /\ 0 \in {0} /\ \A s \in {0} : 0 <= s
        OBVIOUS
      <4> QED BY <4>1, MinIsUnique
    <3> QED BY <2>3, <3>1 DEF Search!FirstIn
  <2> QED BY <1>2, <1>8, <2>2, <2>4
<1>9. CASE d.alg \in {"search", "find_end"}
  <2> DEFINE all == {l \in 0..n1 : Search!Occurs(d, l)}
  <2>1. Search!FromOr(d, bad) = IF bad THEN n1 ELSE 0
    BY <1>9 DEF Search!FromOr
  <2>2. all = IF bad THEN {} ELSE {0}
    <3>1. \A l \in 0..n1 : Search!Occurs(d, l) <=> l = 0 /\ ~bad
      BY <1>1, <1>3, <1>9 DEF Bad, Search!Occurs
    <3> HIDE DEF bad
    <3> QED BY <1>1, <3>1
  <2>3. Search!Min({0}) = 0 /\ Search!Max({0}) = 0
    <4>1. 1 \in Nat /\ {0} \subseteq 0..(1 - 1) /\ 0 \in {0} /\ (\A s \in {0} : 0 <= s) /\ (\A s \in {0} : s <= 0)
      OBVIOUS
    <4> QED BY <4>1, MinIsUnique, MaxIsUnique
  <2>4. CASE d.alg = "search"
    <3>1. Search!Correct(d, Search!FromOr(d, bad)) <=> Search!FromOr(d, bad) = Search!FirstIn(all, n1)
      BY <2>4 DEF Search!Correct
    <3> QED BY <1>2, <2>1, <2>2, <2>3, <2>4, <3>1 DEF Search!FirstIn
  <2>5. CASE d.alg = "find_end"
    <3>1. Search!Correct(d, Search!FromOr(d, bad)) <=>
            IF n2 > 0 /\ \E l \in 0..n1 : Search!Occurs(d, l)
              THEN Search!FromOr(d, bad) = Search!Max(all) ELSE Search!FromOr(d, bad) = n1
      BY <2>5 DEF Search!Correct
    <3>2. (\E l \in 0..n1 : Search!Occurs(d, l)) <=> ~bad
      <4>1. (\E l \in 0..n1 : Search!Occurs(d, l)) <=> all # {}
        OBVIOUS
      <4> QED BY <2>2, <4>1
    <3>3. n2 = 0 => n1 = 0
      BY <1>3, <2>5
    <3>4. CASE bad
      BY <1>2, <2>1, <2>5, <3>1, <3>2, <3>4
    <3>5. CASE ~bad
      <4>1. Search!FromOr(d, bad) = 0 /\ all = {0}
        BY <2>1, <2>2, <3>5
      <4>2. n2 > 0 \/ n1 = 0
        BY <1>1, <3>3
      <4> QED BY <1>2, <2>3, <2>5, <3>1, <3>2, <3>5, <4>1, <4>2
    <3> QED BY <3>4, <3>5
  <2> QED BY <1>9, <2>4, <2>5
<1> QED
  BY <1>4, <1>5, <1>6, <1>7, <1>8, <1>9 DEF Search!IsOr, Search!OrAlgs

(* What a call answers without a search.                                            *)
AtMost(s, key) == {q \in DOMAIN s : s[q] <= key}
Below(s, key) == {q \in DOMAIN s : s[q] < key}
EqualTo(s, key) == {q \in DOMAIN s : s[q] = key}

LEMMA PlacesOf ==
  ASSUME NEW s, Given(s), NEW key \in Nat
  PROVE  /\ IsFiniteSet(Below(s, key)) /\ Cardinality(Below(s, key)) \in Nat
         /\ IsFiniteSet(EqualTo(s, key)) /\ Cardinality(EqualTo(s, key)) \in Nat
         /\ Cardinality(AtMost(s, key)) = Cardinality(Below(s, key)) + Cardinality(EqualTo(s, key))
         /\ Cardinality(AtMost(s, key)) <= Search!Len(s)
         /\ Cardinality(DOMAIN s) = Search!Len(s)
<1>1. \A q \in DOMAIN s : s[q] \in Nat
  BY DEF Given
<1>2. IsFiniteSet(DOMAIN s) /\ Cardinality(DOMAIN s) = Search!Len(s)
  <2>1. PICK n \in Nat : n = Search!Len(s) /\ DOMAIN s = 0..(n - 1)
    BY DEF Given
  <2>2. IsFiniteSet(0..(n - 1)) /\ Cardinality(0..(n - 1)) = IF 0 > n - 1 THEN 0 ELSE (n - 1) - 0 + 1
    BY FS_Interval
  <2>3. (IF 0 > n - 1 THEN 0 ELSE (n - 1) - 0 + 1) = n
    OBVIOUS
  <2> QED BY <2>1, <2>2, <2>3
<1>3. Below(s, key) \in SUBSET (DOMAIN s) /\ EqualTo(s, key) \in SUBSET (DOMAIN s) /\ AtMost(s, key) \in SUBSET (DOMAIN s)
  BY DEF Below, EqualTo, AtMost
<1>4. /\ IsFiniteSet(Below(s, key)) /\ Cardinality(Below(s, key)) \in Nat
      /\ IsFiniteSet(EqualTo(s, key)) /\ Cardinality(EqualTo(s, key)) \in Nat
      /\ Cardinality(AtMost(s, key)) <= Cardinality(DOMAIN s)
  BY <1>2, <1>3, FS_Subset, FS_CardinalityType
<1>5. AtMost(s, key) = Below(s, key) \cup EqualTo(s, key) /\ Below(s, key) \cap EqualTo(s, key) = {}
  BY <1>1 DEF Below, EqualTo, AtMost
<1>6. Cardinality(Below(s, key) \cup EqualTo(s, key)) =
        Cardinality(Below(s, key)) + Cardinality(EqualTo(s, key)) - Cardinality(Below(s, key) \cap EqualTo(s, key))
  BY <1>4, FS_Union
<1>7. Cardinality(AtMost(s, key)) = Cardinality(Below(s, key)) + Cardinality(EqualTo(s, key))
  <2>1. Cardinality(AtMost(s, key)) = Cardinality(Below(s, key)) + Cardinality(EqualTo(s, key)) - Cardinality({})
    BY <1>5, <1>6, Zenon
  <2>2. Cardinality({}) = 0
    BY FS_EmptySet
  <2> QED BY <1>4, <2>1, <2>2
<1> QED
  BY <1>2, <1>4, <1>7

LEMMA Outnumbered ==
  ASSUME NEW d, ASearch(d), d.alg = "includes", \A l \in DOMAIN d.b : ~Lacks(d, l)
  PROVE  Search!Len(d.b) <= Search!Len(d.a)
<1> DEFINE a == d.a
           b == d.b
           Few == {l \in DOMAIN b : ~(Cardinality(AtMost(b, b[l])) <= Cardinality(AtMost(a, b[l])))}
<1>1. Given(a) /\ Given(b) /\ Ascending(b)
  BY DEF ASearch
<1>2. /\ Search!Len(a) \in Nat /\ Search!Len(b) \in Nat /\ DOMAIN b = 0..(Search!Len(b) - 1)
      /\ \A q \in DOMAIN b : b[q] \in Nat
      /\ \A p \in DOMAIN b, q \in DOMAIN b : p < q => b[p] <= b[q]
  BY <1>1 DEF Given, Ascending
<1>3. \A l \in DOMAIN b : Cardinality(EqualTo(b, b[l])) <= Cardinality(EqualTo(a, b[l]))
  <2> SUFFICES ASSUME NEW l \in DOMAIN b PROVE Cardinality(EqualTo(b, b[l])) <= Cardinality(EqualTo(a, b[l]))
    OBVIOUS
  <2>1. Cardinality(EqualTo(b, b[l])) \in Nat /\ Cardinality(EqualTo(a, b[l])) \in Nat
    BY <1>1, <1>2, PlacesOf
  <2>2. ~(Cardinality(EqualTo(a, b[l])) < Cardinality(EqualTo(b, b[l])))
    BY DEF Lacks, EqualTo
  <2> QED BY <2>1, <2>2
<1> HIDE DEF a, b
<1>4. Few = {}
  <2> SUFFICES ASSUME Few # {} PROVE FALSE
    OBVIOUS
  <2>1. PICK l \in Few : \A q \in Few : l <= q
    <3>1. Few \subseteq Nat
      BY <1>2
    <3> HIDE DEF Few
    <3> QED BY <3>1, LeastNumber
  <2>2. l \in DOMAIN b /\ b[l] \in Nat
    BY <1>2
  <2>3. PICK v \in Nat : v = b[l]
    BY <2>2
  <2>4. Cardinality(Below(b, v)) <= Cardinality(Below(a, v))
    <3>1. Cardinality(Below(a, v)) \in Nat /\ Cardinality(Below(b, v)) \in Nat /\ IsFiniteSet(Below(a, v))
      BY <1>1, PlacesOf
    <3>2. CASE Below(b, v) = {}
      <4>1. Cardinality(Below(b, v)) = 0
        BY <3>2, FS_EmptySet
      <4> QED BY <3>1, <4>1
    <3>3. CASE Below(b, v) # {}
      <4>1. PICK n \in Nat, S \in {Below(b, v)} : n = Search!Len(b)
        BY <1>2
      <4>2. S \subseteq 0..(n - 1) /\ S # {}
        BY <1>2, <3>3, <4>1 DEF Below
      <4>3. Search!Max(S) \in S /\ \A s \in S : s <= Search!Max(S)
        BY <4>2, LeastAndGreatest
      <4>4. PICK m \in S : \A s \in S : s <= m
        BY <4>3
      <4>5. m \in DOMAIN b /\ b[m] < v /\ b[m] \in Nat
        BY <1>2, <4>1 DEF Below
      <4>6. ~(l < m) /\ l # m
        BY <1>2, <2>2, <2>3, <4>5
      <4>7. m < l
        BY <1>2, <2>2, <4>5, <4>6
      <4>8. m \notin Few
        BY <1>2, <2>1, <2>2, <4>5, <4>7
      <4>9. Cardinality(AtMost(b, b[m])) <= Cardinality(AtMost(a, b[m]))
        BY <4>5, <4>8
      <4>10. AtMost(b, b[m]) = Below(b, v)
        <5>1. \A q \in DOMAIN b : b[q] < v => b[q] <= b[m]
          <6> SUFFICES ASSUME NEW q \in DOMAIN b, b[q] < v PROVE b[q] <= b[m]
            OBVIOUS
          <6>1. q \in S
            BY <4>1 DEF Below
          <6>2. q <= m
            BY <4>4, <6>1
          <6>3. q < m \/ q = m
            BY <1>2, <4>5, <6>2
          <6> QED BY <1>2, <4>5, <6>3
        <5>2. \A q \in DOMAIN b : b[q] <= b[m] => b[q] < v
          BY <1>2, <4>5
        <5> QED BY <5>1, <5>2 DEF AtMost, Below
      <4>11. AtMost(a, b[m]) \in SUBSET Below(a, v)
        <5>1. \A q \in DOMAIN a : a[q] \in Nat
          BY <1>1 DEF Given
        <5> QED BY <4>5, <5>1 DEF AtMost, Below
      <4>12. Cardinality(AtMost(a, b[m])) <= Cardinality(Below(a, v)) /\ Cardinality(AtMost(a, b[m])) \in Nat
        BY <3>1, <4>11, FS_Subset, FS_CardinalityType
      <4> QED BY <3>1, <4>9, <4>10, <4>12
    <3> QED BY <3>2, <3>3
  <2>5. /\ Cardinality(AtMost(b, v)) = Cardinality(Below(b, v)) + Cardinality(EqualTo(b, v))
        /\ Cardinality(AtMost(a, v)) = Cardinality(Below(a, v)) + Cardinality(EqualTo(a, v))
        /\ Cardinality(Below(b, v)) \in Nat /\ Cardinality(EqualTo(b, v)) \in Nat
        /\ Cardinality(Below(a, v)) \in Nat /\ Cardinality(EqualTo(a, v)) \in Nat
    BY <1>1, PlacesOf
  <2>6. Cardinality(EqualTo(b, v)) <= Cardinality(EqualTo(a, v))
    BY <1>3, <2>2, <2>3
  <2>7. Cardinality(AtMost(b, v)) <= Cardinality(AtMost(a, v))
    BY <2>4, <2>5, <2>6
  <2> QED BY <2>1, <2>3, <2>7
<1>5. CASE Search!Len(b) = 0
  BY <1>2, <1>5 DEF a, b
<1>6. CASE Search!Len(b) # 0
  <2>1. PICK l \in DOMAIN b : \A q \in DOMAIN b : q = l \/ q < l
    <3>1. Search!Len(b) - 1 \in DOMAIN b /\ \A q \in DOMAIN b : q = Search!Len(b) - 1 \/ q < Search!Len(b) - 1
      BY <1>2, <1>6
    <3> QED BY <3>1
  <2>2. AtMost(b, b[l]) = DOMAIN b
    BY <1>2, <2>1 DEF AtMost
  <2>3. Cardinality(AtMost(b, b[l])) <= Cardinality(AtMost(a, b[l]))
    BY <1>4
  <2>4. PICK v \in Nat : v = b[l]
    BY <1>2
  <2>5. Cardinality(DOMAIN b) = Search!Len(b) /\ Cardinality(AtMost(a, v)) <= Search!Len(a)
        /\ Cardinality(AtMost(a, v)) = Cardinality(Below(a, v)) + Cardinality(EqualTo(a, v))
        /\ Cardinality(Below(a, v)) \in Nat /\ Cardinality(EqualTo(a, v)) \in Nat
    BY <1>1, PlacesOf
  <2> QED BY <1>2, <2>2, <2>3, <2>4, <2>5 DEF a, b
<1> QED
  BY <1>5, <1>6

LEMMA ShortcutsAnswer ==
  ASSUME NEW d, ASearch(d), NEW v \in Search!Shortcut(d)
  PROVE  Search!Correct(d, v)
<1> DEFINE n1 == Search!Len(d.a)
           n2 == Search!Len(d.b)
           differ == {l \in 0..(Search!Min({n1, n2}) - 1) : d.a[l] # d.b[l]}
<1>1. n1 \in Nat /\ n2 \in Nat /\ DOMAIN d.a = 0..(n1 - 1) /\ DOMAIN d.b = 0..(n2 - 1)
      /\ (\A l \in 0..(n1 - 1) : d.a[l] \in Nat) /\ (\A l \in 0..(n2 - 1) : d.b[l] \in Nat)
  BY DEF ASearch, Given
<1>2. d.alg \in {"includes", "equal", "lexicographical_compare"}
  BY DEF Search!Shortcut
<1>3. CASE d.alg = "equal"
  <2>1. v = FALSE /\ n1 # n2
    BY <1>3 DEF Search!Shortcut
  <2> QED BY <1>3, <2>1 DEF Search!Correct
<1>4. CASE d.alg = "lexicographical_compare"
  <2>1. (n2 = 0 /\ v = FALSE) \/ (n2 # 0 /\ n1 = 0 /\ v = TRUE)
    BY <1>4 DEF Search!Shortcut
  <2>2. Search!Min({n1, n2}) = 0
    <3>1. PICK p \in Nat, q \in Nat : p = n1 /\ q = n2 /\ (p = 0 \/ q = 0)
      BY <1>1, <2>1
    <3>2. PICK m \in Nat : m = p + q + 1
      OBVIOUS
    <3>3. PICK S : S = {p, q}
      OBVIOUS
    <3>4. S \subseteq 0..(m - 1) /\ 0 \in S /\ \A s \in S : 0 <= s
      BY <3>1, <3>2, <3>3
    <3>5. Search!Min(S) = 0
      BY <3>4, MinIsUnique
    <3> QED BY <3>1, <3>3, <3>5
  <2>3. differ = {}
    BY <2>2
  <2>4. v = (n1 < n2)
    <3>1. PICK p \in Nat, q \in Nat : p = n1 /\ q = n2
      BY <1>1
    <3>2. CASE v = FALSE
      <4>1. (p < q) = FALSE
        BY <2>1, <3>1, <3>2
      <4> QED BY <3>1, <3>2, <4>1
    <3>3. CASE v = TRUE
      <4>1. (p < q) = TRUE
        BY <2>1, <3>1, <3>3
      <4> QED BY <3>1, <3>3, <4>1
    <3> QED BY <2>1, <3>2, <3>3
  <2>5. Search!Correct(d, v) <=> v = IF differ = {} THEN n1 < n2 ELSE d.a[Search!Min(differ)] < d.b[Search!Min(differ)]
    BY <1>4 DEF Search!Correct
  <2> QED BY <2>3, <2>4, <2>5
<1>5. CASE d.alg = "includes"
  <2> DEFINE first1 == Search!LowerBound(d.a, 0, n1, d.b[0])
  <2>1. /\ \A p \in 0..(n1 - 1), q \in 0..(n1 - 1) : p < q => d.a[p] <= d.a[q]
        /\ \A p \in 0..(n2 - 1), q \in 0..(n2 - 1) : p < q => d.b[p] <= d.b[q]
    BY <1>1, <1>5 DEF ASearch, Ascending
  <2>2. /\ n2 = 0 => v = TRUE
        /\ n2 # 0 /\ (n1 = 0 \/ n2 > n1 \/ d.b[0] < d.a[0] \/ d.a[n1 - 1] < d.b[n2 - 1] \/ first1 = n1) => v = FALSE
        /\ n2 # 0 /\ v # FALSE => n2 = 1
        /\ n2 # 0 /\ ~(n1 = 0 \/ n2 > n1 \/ d.b[0] < d.a[0] \/ d.a[n1 - 1] < d.b[n2 - 1] \/ first1 = n1)
             => n2 = 1 /\ v = (d.a[first1] = d.b[0])
    BY <1>5 DEF Search!Shortcut
  <2>3. n2 # 0 => first1 \in 0..n1 /\ \A q \in 0..(n1 - 1) : d.a[q] < d.b[0] <=> q < first1
    <3> SUFFICES ASSUME n2 # 0 PROVE first1 \in 0..n1 /\ \A q \in 0..(n1 - 1) : d.a[q] < d.b[0] <=> q < first1
      OBVIOUS
    <3>1. Given(d.a) /\ Ascending(d.a) /\ d.b[0] \in Nat /\ 0 \in Nat /\ 0 <= Search!Len(d.a)
      BY <1>1, <1>5 DEF ASearch
    <3> QED BY <3>1, Bounds
  <2>4. \A l \in 0..(n2 - 1) : (\A q \in 0..(n1 - 1) : d.a[q] # d.b[l]) => Lacks(d, l)
    <3> SUFFICES ASSUME NEW l \in 0..(n2 - 1), \A q \in 0..(n1 - 1) : d.a[q] # d.b[l] PROVE Lacks(d, l)
      OBVIOUS
    <3>1. {q \in DOMAIN d.a : d.a[q] = d.b[l]} = {} /\ l \in {q \in DOMAIN d.b : d.b[q] = d.b[l]}
      BY <1>1
    <3>2. Given(d.b) /\ d.b[l] \in Nat
      BY <1>1 DEF ASearch
    <3>3. IsFiniteSet(EqualTo(d.b, d.b[l])) /\ Cardinality(EqualTo(d.b, d.b[l])) \in Nat
      BY <3>2, PlacesOf
    <3>4. Cardinality({}) = 0 /\ Cardinality(EqualTo(d.b, d.b[l])) # 0
      BY <3>1, <3>3, FS_EmptySet DEF EqualTo
    <3> QED BY <3>1, <3>3, <3>4 DEF Lacks, EqualTo
  <2>5. \A l \in 0..(n2 - 1) : n2 = 1 /\ (\E q \in 0..(n1 - 1) : d.a[q] = d.b[l]) => ~Lacks(d, l)
    <3> SUFFICES ASSUME NEW l \in 0..(n2 - 1), n2 = 1, NEW q \in 0..(n1 - 1), d.a[q] = d.b[l] PROVE ~Lacks(d, l)
      OBVIOUS
    <3>1. l = 0 /\ EqualTo(d.b, d.b[l]) = {0}
      BY <1>1 DEF EqualTo
    <3>2. Cardinality(EqualTo(d.b, d.b[l])) = 1
      BY <3>1, FS_Singleton
    <3>3. Given(d.a) /\ d.b[l] \in Nat
      BY <1>1 DEF ASearch
    <3>4. IsFiniteSet(EqualTo(d.a, d.b[l])) /\ Cardinality(EqualTo(d.a, d.b[l])) \in Nat
      BY <3>3, PlacesOf
    <3>5. q \in EqualTo(d.a, d.b[l])
      BY <1>1 DEF EqualTo
    <3>6. Cardinality(EqualTo(d.a, d.b[l])) # 0
      BY <3>4, <3>5, FS_EmptySet
    <3>7. ~(Cardinality(EqualTo(d.a, d.b[l])) < Cardinality(EqualTo(d.b, d.b[l])))
      BY <3>2, <3>4, <3>6
    <3> QED BY <3>7 DEF Lacks, EqualTo
  <2> HIDE DEF first1
  <2>6. v \in BOOLEAN
    BY <1>1, <2>2
  <2>7. v <=> \A l \in DOMAIN d.b : ~Lacks(d, l)
    <3>1. CASE n2 = 0
      BY <1>1, <2>2, <3>1
    <3>2. CASE n2 # 0 /\ (n1 = 0 \/ d.b[0] < d.a[0] \/ first1 = n1)
      <4>1. v = FALSE /\ 0 \in 0..(n2 - 1) /\ d.b[0] \in Nat
        BY <1>1, <2>2, <3>2
      <4>2. \A q \in 0..(n1 - 1) : d.a[q] # d.b[0]
        <5> SUFFICES ASSUME NEW q \in 0..(n1 - 1), d.a[q] = d.b[0] PROVE FALSE
          OBVIOUS
        <5>1. 0 \in 0..(n1 - 1) /\ d.a[0] <= d.a[q]
          <6>1. 0 \in 0..(n1 - 1) /\ (q = 0 \/ 0 < q)
            BY <1>1
          <6> QED BY <1>1, <2>1, <6>1
        <5>2. ~(d.a[q] < d.b[0]) /\ ~(d.b[0] < d.a[0])
          BY <1>1, <4>1, <5>1
        <5> QED BY <1>1, <2>3, <3>2, <5>1, <5>2
      <4> QED BY <1>1, <2>4, <4>1, <4>2
    <3>3. CASE n2 # 0 /\ n1 # 0 /\ d.a[n1 - 1] < d.b[n2 - 1]
      <4>1. v = FALSE /\ n2 - 1 \in 0..(n2 - 1) /\ n1 - 1 \in 0..(n1 - 1)
        BY <1>1, <2>2, <3>3
      <4>2. \A q \in 0..(n1 - 1) : d.a[q] # d.b[n2 - 1]
        <5> SUFFICES ASSUME NEW q \in 0..(n1 - 1) PROVE d.a[q] # d.b[n2 - 1]
          OBVIOUS
        <5>1. d.a[q] <= d.a[n1 - 1]
          <6>1. q = n1 - 1 \/ q < n1 - 1
            BY <1>1
          <6> QED BY <1>1, <2>1, <4>1, <6>1
        <5> QED BY <1>1, <3>3, <4>1, <5>1
      <4> QED BY <1>1, <2>4, <4>1, <4>2
    <3>4. CASE n2 # 0 /\ n2 > n1
      <4>1. v = FALSE
        BY <2>2, <3>4
      <4>2. ~\A l \in DOMAIN d.b : ~Lacks(d, l)
        <5>1. ~(Search!Len(d.b) <= Search!Len(d.a))
          BY <1>1, <3>4
        <5> QED BY <1>5, <5>1, Outnumbered
      <4> QED BY <4>1, <4>2
    <3>5. CASE n2 # 0 /\ ~(n1 = 0 \/ n2 > n1 \/ d.b[0] < d.a[0] \/ d.a[n1 - 1] < d.b[n2 - 1] \/ first1 = n1)
      <4>1. n2 = 1 /\ (v <=> d.a[first1] = d.b[0]) /\ first1 \in 0..(n1 - 1)
        <5>1. n2 = 1 /\ v = (d.a[first1] = d.b[0])
          BY <2>2, <3>5
        <5>2. first1 \in 0..(n1 - 1)
          BY <1>1, <2>3, <3>5
        <5> QED BY <5>1, <5>2
      <4>2. DOMAIN d.b = {0}
        BY <1>1, <4>1
      <4>3. CASE d.a[first1] = d.b[0]
        BY <2>5, <4>1, <4>2, <4>3
      <4>4. CASE d.a[first1] # d.b[0]
        <5>1. d.b[0] \in Nat /\ d.a[first1] > d.b[0]
          <6>1. ~(d.a[first1] < d.b[0])
            BY <1>1, <2>3, <3>5, <4>1
          <6> QED BY <1>1, <4>1, <4>4, <6>1
        <5>2. \A q \in 0..(n1 - 1) : d.a[q] # d.b[0]
          <6> SUFFICES ASSUME NEW q \in 0..(n1 - 1) PROVE d.a[q] # d.b[0]
            OBVIOUS
          <6>1. CASE q < first1
            BY <1>1, <2>3, <3>5, <5>1, <6>1
          <6>2. CASE q >= first1
            <7>1. d.a[first1] <= d.a[q]
              <8>1. q = first1 \/ first1 < q
                BY <1>1, <4>1, <6>2
              <8> QED BY <1>1, <2>1, <4>1, <8>1
            <7> QED BY <1>1, <4>1, <5>1, <7>1
          <6> QED BY <4>1, <6>1, <6>2
        <5>3. Lacks(d, 0)
          BY <2>4, <4>1, <5>2
        <5> QED BY <4>1, <4>2, <4>4, <5>3
      <4> QED BY <4>3, <4>4
    <3> QED BY <3>1, <3>2, <3>3, <3>4, <3>5
  <2> QED BY <1>5, <2>6, <2>7, IncludesAnswer
<1> QED
  BY <1>2, <1>3, <1>4, <1>5

(* A find.                                                                          *)
LEMMA FindCorrect ==
  ASSUME NEW d, ASearch(d), d.alg \in Search!FindAlgs, ~Search!IsOr(d), Search!Shortcut(d) = {},
         NEW T \in Tilings(0, Search!SearchLength(d)), NEW r,
         Find!IsAnswer(Search!IsFirst(d), Search!SearchLength(d),
                       {Search!FindBrick(d, h[1], h[2]) : h \in {t \in T : Search!FindBrick(d, t[1], t[2]) # t[2]}}, r)
  PROVE  Search!Correct(d, Search!FromFind(d, r))
<1>1. PICK n \in Nat : n = Search!SearchLength(d) /\ n <= Search!Len(d.a)
  BY Lengths
<1>2. PICK S : S = Sought(d)
  OBVIOUS
<1>3. S \subseteq 0..(n - 1)
  <2>1. DOMAIN d.a = 0..(Search!Len(d.a) - 1)
    BY DEF ASearch, Given
  <2>2. d.alg \notin {"mismatch", "lexicographical_compare"} => DOMAIN d.a = 0..(n - 1)
    <3>1. d.alg \notin {"mismatch", "lexicographical_compare"} => Search!SearchLength(d) = Search!Len(d.a)
      BY Lengths
    <3> QED BY <1>1, <2>1, <3>1
  <2> QED BY <1>1, <1>2, <2>2 DEF Sought, Search!FindAlgs
<1>4. T \in Tilings(0, n)
  BY <1>1
<1>5. \A h \in T : h[1] \in Nat /\ h[2] \in Nat /\ h[1] < h[2] /\ h[2] <= n
  <2>1. 0 \in Nat /\ n \in Int
    OBVIOUS
  <2>2. T \subseteq Nat \X Nat /\ \A h \in T : h[1] < h[2] /\ h[2] <= n
    BY <1>4, <2>1, ChunksTile
  <2> QED BY <2>2
<1>6. \A h \in T : Search!FindBrick(d, h[1], h[2]) = Pick(d, S \cap Chunk(h), h[2])
  <2> SUFFICES ASSUME NEW h \in T PROVE Search!FindBrick(d, h[1], h[2]) = Pick(d, S \cap Chunk(h), h[2])
    OBVIOUS
  <2>1. PICK i \in Nat, j \in Nat : i = h[1] /\ j = h[2] /\ i < j /\ j <= Search!SearchLength(d)
    BY <1>1, <1>5
  <2>2. Search!FindBrick(d, i, j) = Pick(d, Sought(d) \cap (i..(j - 1)), j)
    BY <2>1, BricksFind
  <2> QED BY <1>2, <2>1, <2>2 DEF Chunk
<1>7. r = Pick(d, S, n)
  <2>1. CASE Search!IsFirst(d)
    <3>1. \A h \in T : Search!FindBrick(d, h[1], h[2]) = Search!FirstIn(S \cap Chunk(h), h[2])
      BY <1>6, <2>1 DEF Pick
    <3>2. {Search!FindBrick(d, h[1], h[2]) : h \in {t \in T : Search!FindBrick(d, t[1], t[2]) # t[2]}}
          = {Search!FirstIn(S \cap Chunk(h), h[2]) : h \in {t \in T : Search!FirstIn(S \cap Chunk(t), t[2]) # t[2]}}
      BY <3>1
    <3>3. Search!IsFirst(d) = TRUE
      BY <2>1 DEF Search!IsFirst
    <3>4. Find!IsAnswer(TRUE, n, {Search!FirstIn(S \cap Chunk(h), h[2]) : h \in {t \in T : Search!FirstIn(S \cap Chunk(t), t[2]) # t[2]}}, r)
      BY <1>1, <3>2, <3>3
    <3>5. r = Search!FirstIn(S, n)
      BY <1>3, <1>4, <3>4, FirstOfChunks
    <3> QED BY <2>1, <3>5 DEF Pick
  <2>2. CASE ~Search!IsFirst(d)
    <3>1. \A h \in T : Search!FindBrick(d, h[1], h[2]) = LastIn(S \cap Chunk(h), h[2])
      BY <1>6, <2>2 DEF Pick
    <3>2. {Search!FindBrick(d, h[1], h[2]) : h \in {t \in T : Search!FindBrick(d, t[1], t[2]) # t[2]}}
          = {LastIn(S \cap Chunk(h), h[2]) : h \in {t \in T : LastIn(S \cap Chunk(t), t[2]) # t[2]}}
      BY <3>1
    <3>3. Search!IsFirst(d) = FALSE
      BY <2>2 DEF Search!IsFirst
    <3>4. Find!IsAnswer(FALSE, n, {LastIn(S \cap Chunk(h), h[2]) : h \in {t \in T : LastIn(S \cap Chunk(t), t[2]) # t[2]}}, r)
      BY <1>1, <3>2, <3>3
    <3>5. r = LastIn(S, n)
      BY <1>3, <1>4, <3>4, LastOfChunks
    <3> QED BY <2>2, <3>5 DEF Pick
  <2> QED BY <2>1, <2>2
<1>8. d.alg # "lexicographical_compare" => Search!FromFind(d, r) = r
  BY DEF Search!FromFind
<1>9. CASE d.alg \in {"find_if", "find_first_of", "is_heap_until", "mismatch"}
  <2>1. Search!Correct(d, Search!FirstIn(Sought(d), Search!SearchLength(d)))
    BY <1>9, SimpleSearches
  <2>2. r = Search!FirstIn(Sought(d), Search!SearchLength(d))
    BY <1>1, <1>2, <1>7, <1>9 DEF Pick, Search!IsFirst
  <2> QED BY <1>8, <1>9, <2>1, <2>2
<1>10. CASE d.alg = "lexicographical_compare"
  <2>1. r = Search!FirstIn(Sought(d), Search!SearchLength(d))
    BY <1>1, <1>2, <1>7, <1>10 DEF Pick, Search!IsFirst
  <2> QED BY <1>10, <2>1, LexicographicalSearch
<1>11. CASE d.alg \in Subranges
  <2>1. Search!Correct(d, Pick(d, Sought(d), Search!SearchLength(d)))
    BY <1>11, SubrangeSearches
  <2> QED BY <1>1, <1>2, <1>7, <1>8, <1>11, <2>1 DEF Subranges
<1> QED
  BY <1>9, <1>10, <1>11 DEF Search!FindAlgs, Subranges

(* A call that searches, at every moment.                                           *)
FoundBy(d, T) == {Search!FindBrick(d, h[1], h[2]) : h \in {t \in T : Search!FindBrick(d, t[1], t[2]) # t[2]}}

Answered == \E v \in answer : answer = {v} /\ Search!Correct(c, v)

SearchInv ==
  /\ IsSearch(c) => ASearch(c)
  /\ pc = "nth" => ~IsSearch(c)
  /\ pc = "call" => place = Find!Running
  /\ pc = "or" =>
       /\ IsSearch(c) /\ Search!Shortcut(c) = {} /\ Search!IsOr(c)
       /\ chunks \in Tilings(0, Search!SearchLength(c))
       /\ hits = {h \in chunks : Search!OrBrick(c, h[1], h[2])}
  /\ pc = "find" =>
       /\ IsSearch(c) /\ Search!Shortcut(c) = {} /\ ~Search!IsOr(c)
       /\ chunks \in Tilings(0, Search!SearchLength(c))
       /\ hits = FoundBy(c, chunks)
       /\ place # Find!Running => Find!IsAnswer(Search!IsFirst(c), Search!SearchLength(c), hits, place)
  /\ pc = "done" /\ IsSearch(c) => Answered

LEMMA RangesAreGiven ==
  ASSUME NEW n \in Nat, NEW S, S \subseteq Nat, NEW s \in Ranges(n, S)
  PROVE  Given(s)
<1>1. PICK m \in 0..n : s \in [0..(m - 1) -> S]
  BY DEF Ranges
<1>2. Cardinality(0..(m - 1)) = m
  <2>1. Cardinality(0..(m - 1)) = IF 0 > m - 1 THEN 0 ELSE (m - 1) - 0 + 1
    BY FS_Interval
  <2>2. (IF 0 > m - 1 THEN 0 ELSE (m - 1) - 0 + 1) = m
    OBVIOUS
  <2> QED BY <2>1, <2>2
<1>3. DOMAIN s = 0..(m - 1) /\ \A l \in DOMAIN s : s[l] \in Nat
  BY <1>1
<1>4. Search!Len(s) = m
  BY <1>2, <1>3, SameCardinality DEF Search!Len
<1> QED
  BY <1>3, <1>4 DEF Given

LEMMA NoneIsGiven == Given(None)
<1>1. DOMAIN None = {} /\ 0..(0 - 1) = {}
  BY DEF None
<1>2. Search!Len(None) = 0
  BY <1>1, FS_EmptySet, SameCardinality DEF Search!Len
<1> QED
  BY <1>1, <1>2 DEF Given

LEMMA SearchesAreGiven ==
  ASSUME NEW d \in SearchCalls
  PROVE  ASearch(d)
<1>1. MaxN \in Nat /\ Keys \subseteq Nat /\ Marks \subseteq Nat /\ 3 \in Nat /\ 2 \in Nat
  BY SizesAssumption DEF Marks
<1>2. /\ \A s \in Ranges(MaxN, Keys) : Given(s)
      /\ \A s \in Ranges(MaxN, Marks) : Given(s)
      /\ \A s \in Ranges(3, Marks) : Given(s)
      /\ \A s \in Ranges(2, Marks) : Given(s)
  BY <1>1, RangesAreGiven
<1>3. Given(None) /\ 0 \in Nat
  BY NoneIsGiven
<1>4. CASE d \in Pairs("includes", Ordered(MaxN), Ordered(MaxN))
  <2>1. d.alg = "includes" /\ d.a \in Ordered(MaxN) /\ d.b \in Ordered(MaxN) /\ d.k = 0
    BY <1>4 DEF Pairs, SearchCall
  <2>2. Given(d.a) /\ Given(d.b) /\ Ascending(d.a) /\ Ascending(d.b)
    BY <1>2, <2>1 DEF Ordered, Ascending
  <2> QED BY <2>1, <2>2 DEF ASearch, IsSearch, Search!OrAlgs
<1>5. CASE \E alg \in {"any_of", "find_if"} : d \in Pairs(alg, Ranges(MaxN, Marks), {None})
  <2>1. d.alg \in {"any_of", "find_if"} /\ d.a \in Ranges(MaxN, Marks) /\ d.b = None /\ d.k = 0
    BY <1>5 DEF Pairs, SearchCall
  <2> QED BY <1>2, <1>3, <2>1 DEF ASearch, IsSearch, Search!OrAlgs, Search!FindAlgs
<1>6. CASE \E alg \in {"is_heap", "is_heap_until"} : d \in Pairs(alg, Ranges(MaxN, Keys), {None})
  <2>1. d.alg \in {"is_heap", "is_heap_until"} /\ d.a \in Ranges(MaxN, Keys) /\ d.b = None /\ d.k = 0
    BY <1>6 DEF Pairs, SearchCall
  <2> QED BY <1>2, <1>3, <2>1 DEF ASearch, IsSearch, Search!OrAlgs, Search!FindAlgs
<1>7. CASE \E alg \in {"equal", "mismatch", "lexicographical_compare"} :
             d \in Pairs(alg, Ranges(3, Marks), Ranges(3, Marks))
  <2>1. d.alg \in {"equal", "mismatch", "lexicographical_compare"} /\ d.a \in Ranges(3, Marks)
        /\ d.b \in Ranges(3, Marks) /\ d.k = 0
    BY <1>7 DEF Pairs, SearchCall
  <2> QED BY <1>2, <1>3, <2>1 DEF ASearch, IsSearch, Search!OrAlgs, Search!FindAlgs
<1>8. CASE \E alg \in {"search", "find_end", "find_first_of"} :
             d \in Pairs(alg, Ranges(MaxN, Marks), Ranges(2, Marks))
  <2>1. d.alg \in {"search", "find_end", "find_first_of"} /\ d.a \in Ranges(MaxN, Marks)
        /\ d.b \in Ranges(2, Marks) /\ d.k = 0
    BY <1>8 DEF Pairs, SearchCall
  <2> QED BY <1>2, <1>3, <2>1 DEF ASearch, IsSearch, Search!OrAlgs, Search!FindAlgs
<1>9. CASE d \in {SearchCall("search_n", a, None, k) : a \in Ranges(MaxN, Marks), k \in 0..MaxN}
  <2>1. d.alg = "search_n" /\ d.a \in Ranges(MaxN, Marks) /\ d.b = None /\ d.k \in 0..MaxN
    BY <1>9 DEF SearchCall
  <2> QED BY <1>1, <1>2, <1>3, <2>1 DEF ASearch, IsSearch, Search!OrAlgs, Search!FindAlgs
<1> QED
  BY <1>4, <1>5, <1>6, <1>7, <1>8, <1>9 DEF SearchCalls

LEMMA SearchBegins == Init => SearchInv
<1> SUFFICES ASSUME Init PROVE SearchInv
  OBVIOUS
<1>1. pc = "call" /\ place = Find!Running /\ c \in SearchCalls \cup MoveCalls \cup NthCalls
  BY DEF Init
<1>2. c \in MoveCalls => IsMove(c)
  BY DEF MoveCalls, IsMove
<1>3. c \in NthCalls => ~IsSearch(c)
  BY DEF NthCalls, IsSearch, Search!OrAlgs, Search!FindAlgs
<1>4. IsSearch(c) => ASearch(c)
  <2>1. PICK d : d = c
    OBVIOUS
  <2>2. d \in SearchCalls => ASearch(d)
    BY SearchesAreGiven
  <2> QED BY <1>1, <1>2, <1>3, <2>1, <2>2, NoMoveSearches
<1> QED
  BY <1>1, <1>4 DEF SearchInv

LEMMA OrEnds ==
  ASSUME SearchInv, OrInv, EndOr
  PROVE  Answered'
<1>1. /\ ASearch(c) /\ Search!Shortcut(c) = {} /\ Search!IsOr(c)
      /\ chunks \in Tilings(0, Search!SearchLength(c))
      /\ hits = {h \in chunks : Search!OrBrick(c, h[1], h[2])}
      /\ Flags /\ Witnesses /\ Verdict /\ verdict # "running"
  BY DEF EndOr, SearchInv, OrInv
<1>2. answer' = {Search!FromOr(c, verdict = "true")} /\ c' = c
  BY DEF EndOr, Return
<1>3. verdict = "true" <=> hits # {}
  BY <1>1 DEF Flags, Witnesses, Verdict
<1>4. PICK d, T : d = c /\ T = chunks
  OBVIOUS
<1>5. (\E h \in T : Search!OrBrick(d, h[1], h[2])) <=> \E l \in 0..(Search!SearchLength(d) - 1) : Bad(d, l)
  BY <1>1, <1>4, OrFinds
<1>6. hits # {} <=> \E h \in T : Search!OrBrick(d, h[1], h[2])
  BY <1>1, <1>4
<1>7. Search!Correct(d, Search!FromOr(d, \E l \in 0..(Search!SearchLength(d) - 1) : Bad(d, l)))
  BY <1>1, <1>4, OrCorrect
<1>8. (verdict = "true") = \E l \in 0..(Search!SearchLength(d) - 1) : Bad(d, l)
  BY <1>3, <1>5, <1>6
<1>9. Search!Correct(d, Search!FromOr(d, verdict = "true"))
  BY <1>7, <1>8
<1>10. PICK v : v = Search!FromOr(c, verdict = "true")
  OBVIOUS
<1>11. answer' = {v} /\ Search!Correct(c', v)
  BY <1>2, <1>4, <1>9, <1>10
<1> QED
  BY <1>11 DEF Answered

LEMMA FindEnds ==
  ASSUME SearchInv, EndFind
  PROVE  Answered'
<1>1. /\ ASearch(c) /\ Search!Shortcut(c) = {} /\ ~Search!IsOr(c)
      /\ chunks \in Tilings(0, Search!SearchLength(c))
      /\ Find!IsAnswer(Search!IsFirst(c), Search!SearchLength(c), FoundBy(c, chunks), place)
  BY DEF EndFind, SearchInv
<1>2. answer' = {Search!FromFind(c, place)} /\ c' = c
  BY DEF EndFind, Return
<1>3. c.alg \in Search!FindAlgs
  BY <1>1 DEF ASearch, IsSearch, Search!IsOr
<1>4. PICK d, T, r : d = c /\ T = chunks /\ r = place
  OBVIOUS
<1>5. Find!IsAnswer(Search!IsFirst(d), Search!SearchLength(d),
                    {Search!FindBrick(d, h[1], h[2]) : h \in {t \in T : Search!FindBrick(d, t[1], t[2]) # t[2]}}, r)
  BY <1>1, <1>4 DEF FoundBy
<1>6. Search!Correct(d, Search!FromFind(d, r))
  BY <1>1, <1>3, <1>4, <1>5, FindCorrect
<1>7. PICK v : v = Search!FromFind(c, place)
  OBVIOUS
<1>8. answer' = {v} /\ Search!Correct(c', v)
  BY <1>2, <1>4, <1>6, <1>7
<1> QED
  BY <1>8 DEF Answered

LEMMA DecisionAnswers ==
  ASSUME SearchInv, Decide
  PROVE  Answered'
<1>1. PICK v \in Search!Shortcut(c) : answer' = {v}
  BY DEF Decide, Return
<1>2. ASearch(c) /\ c' = c
  BY DEF SearchInv, Decide
<1>3. PICK d : d = c
  OBVIOUS
<1>4. Search!Correct(d, v)
  BY <1>1, <1>2, <1>3, ShortcutsAnswer
<1>5. answer' = {v} /\ Search!Correct(c', v)
  BY <1>1, <1>2, <1>3, <1>4
<1> QED
  BY <1>5 DEF Answered

LEMMA SearchKeeps == SearchInv /\ OrInv /\ [Next]_vars => SearchInv'
<1> SUFFICES ASSUME SearchInv, OrInv, [Next]_vars PROVE SearchInv'
  OBVIOUS
<1>1. CASE Decide
  <2>1. pc' = "done" /\ c' = c
    BY <1>1 DEF Decide, Return
  <2> QED BY <1>1, <2>1, DecisionAnswers DEF SearchInv
<1>2. CASE BeginOr
  <2>1. pc' = "or" /\ c' = c /\ IsSearch(c) /\ Search!Shortcut(c) = {} /\ Search!IsOr(c)
        /\ chunks' \in Tilings(0, Search!SearchLength(c))
        /\ hits' = {h \in chunks' : Search!OrBrick(c, h[1], h[2])}
    BY <1>2 DEF BeginOr
  <2> QED BY <2>1 DEF SearchInv
<1>3. CASE StepOr
  <2>1. pc' = pc /\ c' = c /\ pc = "or"
    BY <1>3 DEF StepOr
  <2>2. chunks' = chunks /\ hits' = hits
    BY <1>3 DEF StepOr, Or!Next, Or!Step, Or!Check, Or!Brick, Or!Store, Or!Cancel, Or!Drop, Or!Return
  <2> QED BY <2>1, <2>2 DEF SearchInv
<1>4. CASE EndOr
  <2>1. pc' = "done" /\ c' = c
    BY <1>4 DEF EndOr, Return
  <2> QED BY <1>4, <2>1, OrEnds DEF SearchInv
<1>5. CASE BeginFind
  <2>1. pc' = "find" /\ c' = c /\ IsSearch(c) /\ Search!Shortcut(c) = {} /\ ~Search!IsOr(c)
        /\ chunks' \in Tilings(0, Search!SearchLength(c)) /\ pc = "call" /\ place' = place
    BY <1>5 DEF BeginFind
  <2>2. hits' = FoundBy(c, chunks)'
    BY <1>5, <2>1 DEF BeginFind, FoundBy
  <2> QED BY <2>1, <2>2 DEF SearchInv
<1>6. CASE StepFind
  <2>1. pc' = pc /\ c' = c /\ pc = "find" /\ chunks' = chunks
    BY <1>6 DEF StepFind
  <2>2. hits' = hits
    BY <1>6 DEF StepFind, Find!Next, Find!Improve, Find!Return
  <2>3. place = Find!Running
    BY <1>6 DEF StepFind, Find!Next, Find!Improve, Find!Return
  <2>4. place' = place \/ Find!IsAnswer(Search!IsFirst(c), Search!SearchLength(c), hits, place')
    BY <1>6 DEF StepFind, Find!Next, Find!Improve, Find!Return
  <2>5. FoundBy(c, chunks)' = FoundBy(c, chunks)
    BY <2>1
  <2> QED BY <2>1, <2>2, <2>3, <2>4, <2>5 DEF SearchInv
<1>7. CASE EndFind
  <2>1. pc' = "done" /\ c' = c
    BY <1>7 DEF EndFind, Return
  <2> QED BY <1>7, <2>1, FindEnds DEF SearchInv
<1>8. CASE NextLoop \/ RunChunk \/ EndLoops
  <2>1. c' = c /\ ((pc' = "moves") \/ (pc' = "done" /\ IsMove(c)))
    BY <1>8 DEF NextLoop, RunChunk, EndLoops, Return, Unrelated
  <2> QED BY <2>1, NoMoveSearches DEF SearchInv
<1>9. CASE BeginNth \/ Iterate
  <2>1. c' = c /\ ~IsSearch(c) /\ pc' \in {"nth", "done"}
    <3>1. CASE BeginNth
      <4>1. c.alg = "nth_element" /\ c' = c
        BY <3>1 DEF BeginNth, Unrelated
      <4>2. pc' \in {"nth", "done"}
        BY <3>1 DEF BeginNth, Return
      <4> QED BY <4>1, <4>2 DEF IsSearch, Search!OrAlgs, Search!FindAlgs
    <3>2. CASE Iterate
      <4>1. c' = c /\ pc = "nth"
        BY <3>2 DEF Iterate, Unrelated
      <4>2. pc' \in {"nth", "done"}
        BY <3>2 DEF Iterate, Return
      <4> QED BY <4>1, <4>2 DEF SearchInv
    <3> QED BY <1>9, <3>1, <3>2
  <2> QED BY <2>1 DEF SearchInv
<1>10. CASE UNCHANGED vars
  <2>1. c' = c /\ pc' = pc /\ chunks' = chunks /\ hits' = hits /\ place' = place /\ answer' = answer
    BY <1>10 DEF vars, findVars
  <2> QED BY <2>1 DEF SearchInv, Answered, FoundBy
<1> QED
  BY <1>1, <1>2, <1>3, <1>4, <1>5, <1>6, <1>7, <1>8, <1>9, <1>10 DEF Next

\* Whatever the range, the algorithm, the way it is cut and the order its chunks run in:
\* every algorithm that is one __parallel_or or one __parallel_find returns what std's
\* does (algorithm_impl.h, the patterns named in SearchPatterns).
THEOREM SearchesAnswerTheCall == Spec => [](IsSearch(c) => CallIsCorrect)
<1>1. SearchInv => (IsSearch(c) => CallIsCorrect)
  <2> SUFFICES ASSUME SearchInv, IsSearch(c), pc = "done"
               PROVE  \E it \in answer : AnswersTheCall(it)
    BY DEF CallIsCorrect, AnswersTheCall
  <2>1. PICK v \in answer : Search!Correct(c, v)
    BY DEF SearchInv, Answered
  <2>2. ~IsMove(c)
    BY NoMoveSearches
  <2> QED BY <2>1, <2>2 DEF AnswersTheCall
<1>2. Init => Fresh /\ OrInv /\ SearchInv
  BY SearchBegins DEF Init, Fresh, OrInv
<1>3. Fresh /\ OrInv /\ SearchInv /\ [Next]_vars => (Fresh /\ OrInv /\ SearchInv)'
  BY CallKeeps, SearchKeeps
<1> QED
  BY <1>1, <1>2, <1>3, PTL DEF Spec
-------------------------------------------------------------------------------
(* nth_element. The same elements, in another order.                                *)
AreNumbers(s, n) == s \in [0..(n - 1) -> Nat]

SameElements(t, s, n) ==
  AreNumbers(t, n) /\ \A key \in Nat : Moves!Times(t, 0, n, key) = Moves!Times(s, 0, n, key)

At(s, lo, hi, key) == {l \in lo..(hi - 1) : s[l] = key}
Nowhere(s, lo, hi, key) == \A l \in lo..(hi - 1) : s[l] # key

LEMMA TimesAre ==
  ASSUME NEW s, NEW lo \in Int, NEW hi \in Int, NEW key
  PROVE  /\ Moves!Times(s, lo, hi, key) = Cardinality(At(s, lo, hi, key))
         /\ IsFiniteSet(At(s, lo, hi, key))
         /\ Moves!Times(s, lo, hi, key) \in Nat
         /\ Moves!Times(s, lo, hi, key) = 0 <=> Nowhere(s, lo, hi, key)
<1> DEFINE S == {l \in lo..(hi - 1) : s[l] = key}
<1>1. Moves!Times(s, lo, hi, key) = Cardinality(S) /\ S = At(s, lo, hi, key)
  BY Zenon DEF Moves!Times, Moves!Cardinality, Cardinality, At
<1>2. IsFiniteSet(lo..(hi - 1)) /\ S \in SUBSET (lo..(hi - 1))
  BY FS_Interval
<1>3. IsFiniteSet(S) /\ Cardinality(S) \in Nat
  BY <1>2, FS_Subset, FS_CardinalityType
<1>4. Cardinality(S) = 0 <=> S = {}
  BY <1>3, FS_EmptySet
<1>5. S = {} <=> Nowhere(s, lo, hi, key)
  BY DEF Nowhere
<1> QED
  BY <1>1, <1>3, <1>4, <1>5

LEMMA TimesAdd ==
  ASSUME NEW s, NEW i \in Int, NEW j \in Int, NEW k \in Int, i <= j, j <= k, NEW key
  PROVE  Moves!Times(s, i, k, key) = Moves!Times(s, i, j, key) + Moves!Times(s, j, k, key)
<1>1. PICK R, S : R = At(s, i, j, key) /\ S = At(s, j, k, key)
  OBVIOUS
<1>2. At(s, i, k, key) = R \cup S /\ R \cap S = {}
  BY <1>1 DEF At
<1>3. /\ Moves!Times(s, i, k, key) = Cardinality(R \cup S)
      /\ Moves!Times(s, i, j, key) = Cardinality(R) /\ IsFiniteSet(R)
      /\ Moves!Times(s, j, k, key) = Cardinality(S) /\ IsFiniteSet(S)
  BY <1>1, <1>2, TimesAre
<1>4. Cardinality(R) \in Nat /\ Cardinality(S) \in Nat
  BY <1>3, FS_CardinalityType
<1>5. Cardinality(R \cup S) = Cardinality(R) + Cardinality(S) - Cardinality(R \cap S)
  BY <1>3, FS_Union
<1>6. Cardinality(R \cap S) = 0
  BY <1>2, FS_EmptySet
<1>7. Cardinality(R \cup S) = Cardinality(R) + Cardinality(S)
  BY <1>4, <1>5, <1>6
<1> QED
  BY <1>3, <1>7

LEMMA TimesOfEqual ==
  ASSUME NEW s, NEW t, NEW lo \in Int, NEW hi \in Int, \A l \in lo..(hi - 1) : t[l] = s[l], NEW key
  PROVE  Moves!Times(t, lo, hi, key) = Moves!Times(s, lo, hi, key)
<1>1. {l \in lo..(hi - 1) : s[l] = key} = {l \in lo..(hi - 1) : t[l] = key}
  OBVIOUS
<1> QED
  BY <1>1 DEF Moves!Times

(* What Permuted says of its result: the elements of [lo, hi) stay there.           *)
LEMMA PermutedKeeps ==
  ASSUME NEW n \in Nat, NEW s, AreNumbers(s, n), NEW lo \in Nat, NEW hi \in Nat, lo <= hi, hi <= n,
         NEW t \in Moves!Permuted(s, lo, hi)
  PROVE  /\ SameElements(t, s, n)
         /\ \A l \in 0..(n - 1) : l \notin lo..(hi - 1) => t[l] = s[l]
         /\ \A l \in lo..(hi - 1) : \E m \in lo..(hi - 1) : t[l] = s[m]
<1>1. /\ DOMAIN s = 0..(n - 1) /\ \A l \in 0..(n - 1) : s[l] \in Nat
      /\ t \in [0..(n - 1) -> {s[l] : l \in 0..(n - 1)}]
      /\ \A l \in 0..(n - 1) : l \notin lo..(hi - 1) => t[l] = s[l]
      /\ \A l \in 0..(n - 1) : Moves!Times(t, lo, hi, s[l]) = Moves!Times(s, lo, hi, s[l])
  BY DEF Moves!Permuted, AreNumbers
<1>2. AreNumbers(t, n) /\ \A l \in 0..(n - 1) : \E m \in 0..(n - 1) : t[l] = s[m]
  BY <1>1 DEF AreNumbers
<1>3. \A l \in lo..(hi - 1) : l \in 0..(n - 1)
  OBVIOUS
<1>4. ASSUME NEW key \in Nat PROVE Moves!Times(t, lo, hi, key) = Moves!Times(s, lo, hi, key)
  <2>1. CASE \E l \in 0..(n - 1) : s[l] = key
    BY <1>1, <2>1
  <2>2. CASE \A l \in 0..(n - 1) : s[l] # key
    <3>1. Nowhere(s, lo, hi, key) /\ Nowhere(t, lo, hi, key)
      BY <1>2, <1>3, <2>2 DEF Nowhere
    <3>2. Moves!Times(t, lo, hi, key) = 0 /\ Moves!Times(s, lo, hi, key) = 0
      BY <3>1, TimesAre
    <3> QED BY <3>2
  <2> QED BY <2>1, <2>2
<1>5. ASSUME NEW key \in Nat PROVE Moves!Times(t, 0, n, key) = Moves!Times(s, 0, n, key)
  <2>1. /\ Moves!Times(t, 0, n, key) = Moves!Times(t, 0, lo, key) + Moves!Times(t, lo, n, key)
        /\ Moves!Times(s, 0, n, key) = Moves!Times(s, 0, lo, key) + Moves!Times(s, lo, n, key)
    BY TimesAdd
  <2>2. /\ Moves!Times(t, lo, n, key) = Moves!Times(t, lo, hi, key) + Moves!Times(t, hi, n, key)
        /\ Moves!Times(s, lo, n, key) = Moves!Times(s, lo, hi, key) + Moves!Times(s, hi, n, key)
    BY TimesAdd
  <2>3. (\A l \in 0..(lo - 1) : t[l] = s[l]) /\ (\A l \in hi..(n - 1) : t[l] = s[l])
    BY <1>1
  <2>4. Moves!Times(t, 0, lo, key) = Moves!Times(s, 0, lo, key) /\ Moves!Times(t, hi, n, key) = Moves!Times(s, hi, n, key)
    BY <2>3, TimesOfEqual
  <2> QED BY <1>4, <2>1, <2>2, <2>4
<1>6. ASSUME NEW l \in lo..(hi - 1) PROVE \E m \in lo..(hi - 1) : t[l] = s[m]
  <2>1. t[l] \in Nat
    BY <1>2, <1>3 DEF AreNumbers
  <2>2. PICK key \in Nat : key = t[l]
    BY <2>1
  <2>3. ~Nowhere(t, lo, hi, key)
    BY <2>2 DEF Nowhere
  <2>4. Moves!Times(s, lo, hi, key) # 0
    BY <1>4, <2>3, TimesAre
  <2>5. ~Nowhere(s, lo, hi, key)
    BY <2>4, TimesAre
  <2> QED BY <2>2, <2>5 DEF Nowhere
<1> QED
  BY <1>1, <1>2, <1>5, <1>6 DEF SameElements

LEMMA SwapKeeps ==
  ASSUME NEW n \in Nat, NEW s, AreNumbers(s, n), NEW p \in 0..(n - 1), NEW q \in 0..(n - 1)
  PROVE  /\ SameElements(Moves!Swap(s, p, q), s, n)
         /\ Moves!Swap(s, p, q)[p] = s[q] /\ Moves!Swap(s, p, q)[q] = s[p]
         /\ \A l \in 0..(n - 1) : l # p /\ l # q => Moves!Swap(s, p, q)[l] = s[l]
<1> DEFINE t == Moves!Swap(s, p, q)
<1>1. /\ AreNumbers(t, n) /\ t[p] = s[q] /\ t[q] = s[p]
      /\ \A l \in 0..(n - 1) : l # p /\ l # q => t[l] = s[l]
  BY DEF Moves!Swap, AreNumbers
<1> HIDE DEF t
<1>2. ASSUME NEW key \in Nat PROVE Moves!Times(t, 0, n, key) = Moves!Times(s, 0, n, key)
  <2> DEFINE R == {l \in 0..(n - 1) : s[l] = key}
             S == {l \in 0..(n - 1) : t[l] = key}
             f == [l \in R |-> IF l = p THEN q ELSE IF l = q THEN p ELSE l]
  <2>1. f \in [R -> S]
    BY <1>1
  <2>2. \A l \in R, m \in R : f[l] = f[m] => l = m
    OBVIOUS
  <2>3. \A m \in S : \E l \in R : f[l] = m
    <3> SUFFICES ASSUME NEW m \in S PROVE \E l \in R : f[l] = m
      OBVIOUS
    <3>1. PICK l \in 0..(n - 1) : l = IF m = p THEN q ELSE IF m = q THEN p ELSE m
      OBVIOUS
    <3>2. l \in R /\ f[l] = m
      BY <1>1, <3>1
    <3> QED BY <3>2
  <2>4. ExistsBijection(R, S)
    <3> HIDE DEF R, S
    <3>1. f \in Injection(R, S)
      BY <2>1, <2>2 DEF Injection, IsInjective
    <3>2. f \in Surjection(R, S)
      BY <2>1, <2>3 DEF Surjection
    <3> QED BY <3>1, <3>2 DEF ExistsBijection, Bijection
  <2>5. Moves!Times(s, 0, n, key) = Cardinality(R) /\ IsFiniteSet(R) /\ Moves!Times(t, 0, n, key) = Cardinality(S)
    BY TimesAre DEF At
  <2> HIDE DEF R, S
  <2> QED BY <2>4, <2>5, FS_Bijection
<1> QED
  BY <1>1, <1>2 DEF SameElements, t

LEMMA SameIsPermuted ==
  ASSUME NEW n \in Nat, NEW s, AreNumbers(s, n), NEW t, SameElements(t, s, n)
  PROVE  t \in Moves!Permuted(s, 0, n)
<1>1. /\ DOMAIN s = 0..(n - 1) /\ (\A l \in 0..(n - 1) : s[l] \in Nat)
      /\ t \in [0..(n - 1) -> Nat]
      /\ \A l \in 0..(n - 1) : Moves!Times(t, 0, n, s[l]) = Moves!Times(s, 0, n, s[l])
  BY DEF SameElements, AreNumbers
<1>2. ASSUME NEW l \in 0..(n - 1) PROVE \E m \in 0..(n - 1) : t[l] = s[m]
  <2>1. PICK key \in Nat : key = t[l]
    BY <1>1
  <2>2. ~Nowhere(t, 0, n, key)
    BY <2>1 DEF Nowhere
  <2>3. Moves!Times(s, 0, n, key) # 0
    BY <2>2, TimesAre DEF SameElements
  <2>4. ~Nowhere(s, 0, n, key)
    BY <2>3, TimesAre
  <2> QED BY <2>1, <2>4 DEF Nowhere
<1>3. t \in [DOMAIN s -> {s[l] : l \in DOMAIN s}]
  BY <1>1, <1>2
<1> QED
  BY <1>1, <1>3 DEF Moves!Permuted

\* The elements before place m are no greater than the others.
Divides(s, n, m) == \A p \in 0..(m - 1), q \in m..(n - 1) : s[p] <= s[q]

\* The k-th element is where sorting would put it.
Decided(s, n, k) == \A l \in 0..(n - 1) : (l < k => s[l] <= s[k]) /\ (l > k => s[k] <= s[l])

Narrowed(s, n, lo, hi, k) ==
  /\ AreNumbers(s, n)
  /\ lo \in 0..k /\ hi \in (k + 1)..n
  /\ Divides(s, n, lo) /\ Divides(s, n, hi)

LEMMA SwapDivides ==
  ASSUME NEW n \in Nat, NEW s, AreNumbers(s, n), NEW p \in 0..(n - 1), NEW q \in 0..(n - 1),
         NEW m \in 0..n, Divides(s, n, m), p < m <=> q < m
  PROVE  Divides(Moves!Swap(s, p, q), n, m)
<1>1. PICK t : t = Moves!Swap(s, p, q)
  OBVIOUS
<1>2. t[p] = s[q] /\ t[q] = s[p] /\ \A l \in 0..(n - 1) : l # p /\ l # q => t[l] = s[l]
  BY <1>1, SwapKeeps
<1>3. \A l \in 0..(m - 1) : \E i \in 0..(m - 1) : t[l] = s[i]
  BY <1>2
<1>4. \A l \in m..(n - 1) : \E i \in m..(n - 1) : t[l] = s[i]
  BY <1>2
<1>5. Divides(t, n, m)
  BY <1>3, <1>4 DEF Divides
<1> QED
  BY <1>1, <1>5

(* One iteration divides the range at mid, around the element that was first.      *)
Around(t, n, mid) == (\A l \in 0..(mid - 1) : t[l] <= t[mid]) /\ (\A l \in (mid + 1)..(n - 1) : t[mid] <= t[l])

LEMMA PartitionDivides ==
  ASSUME NEW n \in Nat, NEW s, NEW k \in 0..(n - 1), NEW lo, NEW hi, Narrowed(s, n, lo, hi, k),
         NEW r \in Moves!Partitions(s, lo, hi)
  PROVE  /\ r[2] \in lo..(hi - 1)
         /\ SameElements(Moves!Swap(r[1], lo, r[2]), s, n)
         /\ Divides(Moves!Swap(r[1], lo, r[2]), n, lo) /\ Divides(Moves!Swap(r[1], lo, r[2]), n, hi)
         /\ Around(Moves!Swap(r[1], lo, r[2]), n, r[2])
<1>1. /\ AreNumbers(s, n) /\ lo \in Nat /\ hi \in Nat /\ lo < hi /\ hi <= n /\ lo + 1 \in Nat /\ lo + 1 <= hi
      /\ Divides(s, n, lo) /\ Divides(s, n, hi)
  BY DEF Narrowed
<1>2. PICK u, mid :
        /\ r = <<u, mid>> /\ u \in Moves!Permuted(s, lo + 1, hi)
        /\ mid = lo + Moves!Cardinality({l \in (lo + 1)..(hi - 1) : s[l] < s[lo]})
        /\ \A l \in (lo + 1)..(hi - 1) : u[l] < u[lo] <=> l <= mid
  BY DEF Moves!Partitions
<1>3. mid \in lo..(hi - 1)
  <2> DEFINE I == (lo + 1)..(hi - 1)
             S == {l \in I : s[l] < s[lo]}
  <2>1. Moves!Cardinality(S) = Cardinality(S)
    BY Zenon DEF Moves!Cardinality, Cardinality
  <2>2. PICK i \in Int, j \in Int : i = lo + 1 /\ j = hi - 1
    BY <1>1
  <2>3. IsFiniteSet(I) /\ Cardinality(I) = hi - 1 - lo
    <3>1. IsFiniteSet(i..j) /\ Cardinality(i..j) = IF i > j THEN 0 ELSE j - i + 1
      BY FS_Interval
    <3>2. (IF i > j THEN 0 ELSE j - i + 1) = hi - 1 - lo
      BY <1>1, <2>2
    <3> QED BY <2>2, <3>1, <3>2
  <2>4. S \in SUBSET I
    OBVIOUS
  <2> HIDE DEF I, S
  <2>5. Cardinality(S) \in Nat /\ Cardinality(S) <= Cardinality(I)
    BY <2>3, <2>4, FS_Subset, FS_CardinalityType
  <2> QED BY <1>1, <1>2, <2>1, <2>3, <2>5 DEF S, I
<1>4. /\ SameElements(u, s, n)
      /\ \A l \in 0..(n - 1) : l \notin (lo + 1)..(hi - 1) => u[l] = s[l]
      /\ \A l \in (lo + 1)..(hi - 1) : \E m \in (lo + 1)..(hi - 1) : u[l] = s[m]
  BY <1>1, <1>2, PermutedKeeps
<1>5. AreNumbers(u, n)
  BY <1>4 DEF SameElements
<1>6. Divides(u, n, lo)
  <2>1. \A l \in lo..(n - 1) : \E m \in lo..(n - 1) : u[l] = s[m]
    BY <1>1, <1>4
  <2>2. \A l \in 0..(lo - 1) : u[l] = s[l]
    BY <1>1, <1>4
  <2> QED BY <1>1, <2>1, <2>2 DEF Divides
<1>7. Divides(u, n, hi)
  <2>1. \A l \in 0..(hi - 1) : \E m \in 0..(hi - 1) : u[l] = s[m]
    BY <1>1, <1>4
  <2>2. \A l \in hi..(n - 1) : u[l] = s[l]
    BY <1>1, <1>4
  <2> QED BY <1>1, <2>1, <2>2 DEF Divides
<1>8. PICK t : t = Moves!Swap(u, lo, mid)
  OBVIOUS
<1>9. lo \in 0..(n - 1) /\ mid \in 0..(n - 1) /\ lo \in 0..n /\ hi \in 0..n /\ (lo < lo <=> mid < lo) /\ (lo < hi <=> mid < hi)
  BY <1>1, <1>3
<1>10. Divides(t, n, lo) /\ Divides(t, n, hi)
  BY <1>5, <1>6, <1>7, <1>8, <1>9, SwapDivides
<1>11. /\ SameElements(t, u, n) /\ t[lo] = u[mid] /\ t[mid] = u[lo]
       /\ \A l \in 0..(n - 1) : l # lo /\ l # mid => t[l] = u[l]
  BY <1>5, <1>8, <1>9, SwapKeeps
<1>12. SameElements(t, s, n)
  BY <1>4, <1>11 DEF SameElements
<1>13. \A l \in 0..(n - 1) : t[l] \in Nat /\ u[l] \in Nat
  BY <1>5, <1>11 DEF SameElements, AreNumbers
<1>14. Around(t, n, mid)
  <2>1. ASSUME NEW l \in 0..(mid - 1) PROVE t[l] <= t[mid]
    <3>1. CASE l < lo
      BY <1>1, <1>3, <1>9, <1>10, <3>1 DEF Divides
    <3>2. CASE l = lo
      <4>1. mid \in (lo + 1)..(hi - 1)
        BY <1>1, <1>3, <3>2
      <4>2. u[mid] < u[lo]
        BY <1>2, <4>1
      <4> QED BY <1>9, <1>11, <1>13, <3>2, <4>2
    <3>3. CASE l > lo
      <4>1. l \in (lo + 1)..(hi - 1) /\ l <= mid /\ l # mid /\ l \in 0..(n - 1)
        BY <1>1, <1>3, <1>9, <3>3
      <4>2. u[l] < u[lo] /\ t[l] = u[l]
        BY <1>2, <1>11, <3>3, <4>1
      <4> QED BY <1>9, <1>11, <1>13, <4>1, <4>2
    <3> QED BY <1>1, <1>9, <3>1, <3>2, <3>3
  <2>2. ASSUME NEW l \in (mid + 1)..(n - 1) PROVE t[mid] <= t[l]
    <3>1. CASE l >= hi
      <4>1. mid \in 0..(hi - 1) /\ l \in hi..(n - 1)
        BY <1>1, <1>3, <3>1
      <4> QED BY <1>10, <4>1 DEF Divides
    <3>2. CASE l < hi
      <4>1. l \in (lo + 1)..(hi - 1) /\ ~(l <= mid) /\ l # mid /\ l # lo /\ l \in 0..(n - 1)
        BY <1>1, <1>3, <1>9, <3>2
      <4>2. ~(u[l] < u[lo]) /\ t[l] = u[l]
        BY <1>2, <1>11, <4>1
      <4> QED BY <1>9, <1>11, <1>13, <4>1, <4>2
    <3> QED BY <1>1, <1>9, <3>1, <3>2
  <2> QED BY <2>1, <2>2 DEF Around
<1> QED
  BY <1>2, <1>3, <1>8, <1>10, <1>12, <1>14

LEMMA FirstUnequal ==
  ASSUME NEW s, NEW mid \in Nat, NEW k \in Nat, mid < k
  PROVE  \E y \in mid..k : y = Moves!PastEqual(s, mid, k) /\ \A l \in mid..(y - 1) : s[l] = s[k]
<1> DEFINE S == {k} \cup {l \in mid..k : s[l] # s[k]}
<1>1. S \subseteq Nat /\ S # {} /\ S \subseteq mid..k
  OBVIOUS
<1>2. Moves!PastEqual(s, mid, k) = Moves!Min(S)
  BY DEF Moves!PastEqual
<1>3. PICK y \in S : y = Moves!Min(S) /\ \A l \in S : y <= l
  <2> HIDE DEF S
  <2> QED BY <1>1, MinIsLeast
<1>4. \A l \in mid..(y - 1) : l \in mid..k /\ l \notin S
  BY <1>1, <1>3
<1> QED
  BY <1>1, <1>2, <1>3, <1>4

LEMMA IterationKeeps ==
  ASSUME NEW n \in Nat, NEW s, NEW k \in 0..(n - 1), NEW lo, NEW hi, Narrowed(s, n, lo, hi, k),
         NEW r \in Moves!Iterations(s, lo, hi, k)
  PROVE  /\ SameElements(r[1], s, n)
         /\ r[4] = k => Decided(r[1], n, k)
         /\ r[4] # k => Narrowed(r[1], n, r[2], r[3], k)
<1>1. PICK p \in Moves!Partitions(s, lo, hi) : r = Moves!Shrink(Moves!Swap(p[1], lo, p[2]), lo, hi, p[2], k)
  BY DEF Moves!Iterations
<1>2. PICK t, mid : t = Moves!Swap(p[1], lo, p[2]) /\ mid = p[2]
  OBVIOUS
<1>3. mid \in lo..(hi - 1) /\ SameElements(t, s, n) /\ Divides(t, n, lo) /\ Divides(t, n, hi) /\ Around(t, n, mid)
  BY <1>2, PartitionDivides
<1>4. r = Moves!Shrink(t, lo, hi, mid, k)
  BY <1>1, <1>2
<1>5. lo \in 0..k /\ hi \in (k + 1)..n /\ mid \in 0..(n - 1) /\ lo \in Nat /\ hi \in Nat
  BY <1>3 DEF Narrowed
<1>6. AreNumbers(t, n) /\ \A l \in 0..(n - 1) : t[l] \in Nat
  BY <1>3 DEF SameElements, AreNumbers
<1>7. CASE mid > k
  <2>1. r = <<t, lo, mid, mid>>
    BY <1>4, <1>7 DEF Moves!Shrink
  <2>2. Divides(t, n, mid)
    <3> SUFFICES ASSUME NEW i \in 0..(mid - 1), NEW j \in mid..(n - 1) PROVE t[i] <= t[j]
      BY DEF Divides
    <3>1. t[i] <= t[mid] /\ (j = mid \/ t[mid] <= t[j])
      BY <1>3, <1>5 DEF Around
    <3>2. i \in 0..(n - 1) /\ j \in 0..(n - 1)
      BY <1>5
    <3> QED BY <1>5, <1>6, <3>1, <3>2
  <2>3. mid \in (k + 1)..n /\ mid # k
    BY <1>5, <1>7
  <2> QED BY <1>3, <1>5, <1>6, <2>1, <2>2, <2>3 DEF Narrowed
<1>8. CASE mid = k
  <2>1. r = <<t, lo, hi, mid>>
    BY <1>4, <1>8 DEF Moves!Shrink
  <2>2. Decided(t, n, k)
    BY <1>3, <1>8 DEF Around, Decided
  <2> QED BY <1>3, <1>8, <2>1, <2>2
<1>9. CASE mid < k
  <2>1. PICK y \in mid..k : y = Moves!PastEqual(t, mid, k) /\ \A l \in mid..(y - 1) : t[l] = t[k]
    <3>1. mid \in Nat /\ k \in Nat
      BY <1>5
    <3> QED BY ZenonT(60), <1>9, <3>1, FirstUnequal
  <2>2. PICK v : v = Moves!Swap(t, k, y)
    OBVIOUS
  <2>3. r = <<v, y, hi, y>>
    BY <1>4, <1>5, <1>9, <2>1, <2>2 DEF Moves!Shrink
  <2>4. y \in 0..(n - 1) /\ y \in Nat /\ y <= k /\ mid <= y
    BY <1>5, <2>1
  <2>5. /\ SameElements(v, t, n) /\ v[k] = t[y] /\ v[y] = t[k]
        /\ \A l \in 0..(n - 1) : l # k /\ l # y => v[l] = t[l]
    BY <1>6, <2>2, <2>4, SwapKeeps
  <2>6. SameElements(v, s, n)
    BY <1>3, <2>5 DEF SameElements
  <2>7. CASE y = k
    <3>1. \A l \in 0..(n - 1) : v[l] = t[l]
      BY <2>4, <2>5, <2>7
    <3>2. t[mid] = t[k]
      BY <1>5, <1>9, <2>1, <2>7
    <3>3. Decided(t, n, k)
      <4> SUFFICES ASSUME NEW l \in 0..(n - 1) PROVE (l < k => t[l] <= t[k]) /\ (l > k => t[k] <= t[l])
        BY DEF Decided
      <4>1. CASE l < mid
        BY <1>3, <1>5, <1>9, <3>2, <4>1 DEF Around
      <4>2. CASE l >= mid /\ l < k
        BY <1>5, <1>6, <2>1, <2>7, <4>2
      <4>3. CASE l > k
        BY <1>3, <1>5, <1>9, <3>2, <4>3 DEF Around
      <4> QED BY <1>5, <1>9, <4>1, <4>2, <4>3
    <3>4. Decided(v, n, k)
      BY <3>1, <3>3 DEF Decided
    <3> QED BY <2>3, <2>6, <2>7, <3>4
  <2>8. CASE y # k
    <3>1. y < k
      BY <2>4, <2>8
    <3>2. Divides(t, n, y)
      <4> SUFFICES ASSUME NEW i \in 0..(y - 1), NEW j \in y..(n - 1) PROVE t[i] <= t[j]
        BY DEF Divides
      <4>1. i \in 0..(n - 1) /\ j \in 0..(n - 1)
        BY <2>4
      <4>2. t[mid] <= t[j]
        <5>1. j = mid \/ j \in (mid + 1)..(n - 1)
          BY <1>5, <2>4
        <5> QED BY <1>3, <1>5, <1>6, <5>1 DEF Around
      <4>3. CASE i < mid
        <5>1. t[i] <= t[mid]
          BY <1>3, <1>5, <4>3 DEF Around
        <5> QED BY <1>5, <1>6, <4>1, <4>2, <5>1
      <4>4. CASE i >= mid
        <5>1. t[i] = t[k] /\ t[mid] = t[k]
          BY <1>5, <2>1, <2>4, <4>4
        <5> QED BY <4>2, <5>1
      <4> QED BY <1>5, <4>3, <4>4
    <3>3. Divides(v, n, y) /\ Divides(v, n, hi)
      <4>1. k \in 0..(n - 1) /\ y \in 0..n /\ hi \in 0..n /\ (k < y <=> y < y) /\ (k < hi <=> y < hi)
        BY <1>5, <2>4, <3>1
      <4> QED BY <1>3, <1>6, <2>2, <2>4, <3>2, <4>1, SwapDivides
    <3>4. Narrowed(v, n, y, hi, k)
      BY <1>5, <2>4, <2>6, <3>3 DEF Narrowed, SameElements
    <3> QED BY <2>3, <2>6, <2>8, <3>4
  <2> QED BY <2>7, <2>8
<1> QED
  BY <1>5, <1>7, <1>8, <1>9

\* The call to nth_element is for n numbers, and k is the place of one of them.
NthCall(n) == c.alg = "nth_element" /\ AreNumbers(c.a, n)

\* nth_element has the elements it was given, and knows where the k-th is to be found.
NthUnderWay(n) ==
  /\ NthCall(n) /\ c.k \in 0..(n - 1) /\ SameElements(x, c.a, n)
  /\ \E lo \in Nat, hi \in Nat : span = <<lo, hi>> /\ Narrowed(x, n, lo, hi, c.k)

NthAnswered == answer # {} /\ (c.k < Cardinality(DOMAIN x) => Moves!NthCorrect(c.a, x, c.k))

NthInv ==
  /\ IsSearch(c) \/ IsMove(c) \/ c.alg = "nth_element"
  /\ pc = "call" /\ c.alg = "nth_element" => x = c.a /\ \E n \in Nat : NthCall(n) /\ c.k \in 0..n
  /\ pc = "nth" => \E n \in Nat : NthUnderWay(n)
  /\ pc = "done" /\ c.alg = "nth_element" => NthAnswered

LEMMA LengthOfNumbers ==
  ASSUME NEW n \in Nat, NEW s, AreNumbers(s, n)
  PROVE  Cardinality(DOMAIN s) = n /\ Moves!Cardinality(DOMAIN s) = n
<1>1. DOMAIN s = 0..(n - 1)
  BY DEF AreNumbers
<1>2. Cardinality(0..(n - 1)) = n
  <2>1. Cardinality(0..(n - 1)) = IF 0 > n - 1 THEN 0 ELSE (n - 1) - 0 + 1
    BY FS_Interval
  <2>2. (IF 0 > n - 1 THEN 0 ELSE (n - 1) - 0 + 1) = n
    OBVIOUS
  <2> QED BY <2>1, <2>2
<1>3. Moves!Cardinality(DOMAIN s) = Cardinality(DOMAIN s)
  BY Zenon DEF Moves!Cardinality, Cardinality
<1> QED
  BY <1>1, <1>2, <1>3

LEMMA DecidedIsCorrect ==
  ASSUME NEW n \in Nat, NEW s, AreNumbers(s, n), NEW t, SameElements(t, s, n), NEW k \in 0..(n - 1), Decided(t, n, k)
  PROVE  Moves!NthCorrect(s, t, k)
<1>1. DOMAIN t = 0..(n - 1)
  BY DEF SameElements, AreNumbers
<1>2. t \in Moves!Permuted(s, 0, Moves!Cardinality(DOMAIN s))
  BY SameIsPermuted, LengthOfNumbers
<1> QED
  BY <1>1, <1>2 DEF Moves!NthCorrect, Decided

LEMMA NthBegins == Init => NthInv
<1> SUFFICES ASSUME Init PROVE NthInv
  OBVIOUS
<1>1. /\ pc = "call" /\ IsCall(c) /\ c \in SearchCalls \cup MoveCalls \cup NthCalls
      /\ x = CASE IsMove(c) -> Moves!Memory(c) [] c.alg = "nth_element" -> c.a [] OTHER -> None
  BY DEF Init
<1>2. c \in MoveCalls => IsMove(c)
  BY DEF MoveCalls, IsMove
<1>3. c \in SearchCalls => IsSearch(c)
  <2>1. PICK d : d = c
    OBVIOUS
  <2>2. ASSUME d \in SearchCalls PROVE d.alg \in Search!OrAlgs \cup Search!FindAlgs
    <3>1. ASSUME NEW alg, NEW A, NEW B, d \in Pairs(alg, A, B) PROVE d.alg = alg
      BY <3>1 DEF Pairs, SearchCall
    <3>2. ASSUME NEW a, NEW k PROVE SearchCall("search_n", a, None, k).alg = "search_n"
      BY DEF SearchCall
    <3> QED BY <2>2, <3>1, <3>2 DEF SearchCalls, Search!OrAlgs, Search!FindAlgs
  <2> QED BY <2>1, <2>2 DEF IsSearch
<1>4. c \in NthCalls => c.alg = "nth_element"
  BY DEF NthCalls
<1>5. ASSUME c.alg = "nth_element" PROVE x = c.a /\ \E n \in Nat : NthCall(n) /\ c.k \in 0..n
  <2>1. ~IsMove(c) /\ ~IsSearch(c)
    BY <1>5, NoMoveSearches DEF IsSearch, Search!OrAlgs, Search!FindAlgs
  <2>2. c \in NthCalls
    BY <1>1, <1>2, <1>3, <2>1
  <2>3. PICK a \in Ranges(MaxLoop, Keys), k \in 0..MaxLoop : c = [alg |-> "nth_element", a |-> a, k |-> k]
    BY <2>2 DEF NthCalls
  <2>4. PICK n \in 0..MaxLoop : a \in [0..(n - 1) -> Keys]
    BY <2>3 DEF Ranges
  <2>5. n \in Nat /\ AreNumbers(c.a, n)
    <3>1. n \in Nat /\ c.a = a
      BY <2>3, <2>4, SizesAssumption
    <3>2. a \in [0..(n - 1) -> Nat]
      BY <2>4, SizesAssumption
    <3> QED BY <3>1, <3>2 DEF AreNumbers
  <2>6. c.k \in Nat /\ c.k <= n
    BY <1>1, <1>5, <2>3, <2>5, LengthOfNumbers, SizesAssumption DEF IsCall
  <2> QED BY <1>1, <1>5, <2>1, <2>5, <2>6 DEF NthCall
<1> QED
  BY <1>1, <1>2, <1>3, <1>4, <1>5 DEF NthInv

LEMMA BeginNthKeeps == NthInv /\ BeginNth => NthInv'
<1> SUFFICES ASSUME NthInv, BeginNth PROVE NthInv'
  OBVIOUS
<1>1. /\ c.alg = "nth_element" /\ c' = c /\ x' = x /\ x = c.a
      /\ \E n \in Nat : NthCall(n) /\ c.k \in 0..n
  BY DEF NthInv, BeginNth, Unrelated
<1>2. PICK n \in Nat : AreNumbers(x, n) /\ c.k \in 0..n
  BY <1>1 DEF NthCall
<1>3. Cardinality(DOMAIN c.a) = n
  BY <1>1, <1>2, LengthOfNumbers
<1>4. CASE n = 0 \/ c.k = n
  <2>1. pc' = "done" /\ answer' = {n}
    BY <1>3, <1>4 DEF BeginNth, Return
  <2>2. c.k \in Nat /\ ~(c.k < n)
    BY <1>2, <1>4
  <2>3. NthAnswered'
    BY <1>1, <1>3, <2>1, <2>2 DEF NthAnswered
  <2> QED BY <1>1, <2>1, <2>3 DEF NthInv
<1>5. CASE n # 0 /\ c.k # n
  <2>1. pc' = "nth" /\ span' = <<0, n>>
    BY <1>3, <1>5 DEF BeginNth
  <2>2. c.k \in 0..(n - 1)
    BY <1>2, <1>5
  <2>3. Narrowed(x, n, 0, n, c.k)
    BY <1>2, <2>2 DEF Narrowed, Divides
  <2>4. SameElements(x, c.a, n)
    BY <1>1, <1>2 DEF SameElements
  <2>5. NthUnderWay(n)'
    BY <1>1, <1>2, <2>1, <2>2, <2>3, <2>4 DEF NthUnderWay, NthCall
  <2> QED BY <1>1, <2>1, <2>5 DEF NthInv
<1> QED
  BY <1>4, <1>5

LEMMA IterateKeeps == NthInv /\ Iterate => NthInv'
<1> SUFFICES ASSUME NthInv, Iterate PROVE NthInv'
  OBVIOUS
<1>1. pc = "nth" /\ c' = c
  BY DEF Iterate, Unrelated
<1>2. PICK n \in Nat : NthUnderWay(n)
  BY <1>1 DEF NthInv
<1>3. PICK lo \in Nat, hi \in Nat : span = <<lo, hi>> /\ Narrowed(x, n, lo, hi, c.k)
  BY <1>2 DEF NthUnderWay
<1>4. c.alg = "nth_element" /\ AreNumbers(c.a, n) /\ c.k \in 0..(n - 1) /\ SameElements(x, c.a, n)
  BY <1>2 DEF NthUnderWay, NthCall
<1>5. PICK r \in Moves!Iterations(x, lo, hi, c.k) :
        /\ x' = r[1] /\ span' = <<r[2], r[3]>>
        /\ IF r[4] = c.k THEN Return(Cardinality(DOMAIN x)) ELSE UNCHANGED <<pc, answer>>
  BY <1>3 DEF Iterate
<1>6. PICK k : k = c.k
  OBVIOUS
<1>7. /\ SameElements(r[1], x, n)
      /\ r[4] = k => Decided(r[1], n, k)
      /\ r[4] # k => Narrowed(r[1], n, r[2], r[3], k)
  <2>1. PICK y : y = x
    OBVIOUS
  <2>2. Narrowed(y, n, lo, hi, k) /\ r \in Moves!Iterations(y, lo, hi, k) /\ k \in 0..(n - 1)
    BY <1>3, <1>4, <1>5, <1>6, <2>1
  <2> QED BY <2>1, <2>2, IterationKeeps
<1>8. SameElements(r[1], c.a, n)
  BY <1>4, <1>7 DEF SameElements
<1>9. CASE r[4] = k
  <2>1. pc' = "done" /\ answer' # {}
    BY <1>5, <1>6, <1>9 DEF Return
  <2>2. Moves!NthCorrect(c.a, r[1], k)
    BY <1>4, <1>6, <1>7, <1>8, <1>9, DecidedIsCorrect
  <2>3. NthAnswered'
    BY <1>1, <1>5, <1>6, <2>1, <2>2 DEF NthAnswered
  <2> QED BY <1>1, <1>4, <2>1, <2>3 DEF NthInv
<1>10. CASE r[4] # k
  <2>1. pc' = "nth"
    BY <1>1, <1>5, <1>6, <1>10
  <2>2. Narrowed(r[1], n, r[2], r[3], k) /\ r[2] \in Nat /\ r[3] \in Nat
    BY <1>4, <1>6, <1>7, <1>10 DEF Narrowed
  <2>3. NthUnderWay(n)'
    BY <1>1, <1>4, <1>5, <1>6, <1>8, <2>2 DEF NthUnderWay, NthCall
  <2> QED BY <1>1, <1>4, <2>1, <2>3 DEF NthInv
<1> QED
  BY <1>9, <1>10

LEMMA NthKeeps == NthInv /\ SearchInv /\ [Next]_vars => NthInv'
<1> SUFFICES ASSUME NthInv, SearchInv, [Next]_vars PROVE NthInv'
  OBVIOUS
<1>1. CASE BeginNth
  BY <1>1, BeginNthKeeps
<1>2. CASE Iterate
  BY <1>2, IterateKeeps
<1>3. CASE Decide \/ BeginOr \/ StepOr \/ EndOr \/ BeginFind \/ StepFind \/ EndFind
  <2>1. IsSearch(c) /\ c' = c
    BY <1>3 DEF SearchInv, Decide, BeginOr, StepOr, EndOr, BeginFind, StepFind, EndFind
  <2>2. pc' # "nth"
    BY <1>3 DEF Decide, BeginOr, StepOr, EndOr, BeginFind, StepFind, EndFind, Return
  <2>3. c.alg # "nth_element"
    BY <2>1 DEF IsSearch, Search!OrAlgs, Search!FindAlgs
  <2> QED BY <2>1, <2>2, <2>3 DEF NthInv
<1>4. CASE NextLoop \/ EndLoops
  <2>1. IsMove(c) /\ c' = c
    BY <1>4 DEF NextLoop, EndLoops, Unrelated
  <2>2. pc' # "nth"
    BY <1>4 DEF NextLoop, EndLoops, Return
  <2> QED BY <2>1, <2>2, NoMoveSearches DEF NthInv
<1>5. CASE RunChunk
  <2>1. c' = c /\ pc' = "moves"
    BY <1>5 DEF RunChunk, Unrelated
  <2> QED BY <2>1 DEF NthInv
<1>6. CASE UNCHANGED vars
  <2>1. c' = c /\ x' = x /\ pc' = pc /\ span' = span /\ answer' = answer
    BY <1>6 DEF vars, loopVars
  <2> QED BY <2>1 DEF NthInv, NthAnswered, NthUnderWay, NthCall
<1> QED
  BY <1>1, <1>2, <1>3, <1>4, <1>5, <1>6 DEF Next

\* Every parallel algorithm of the host that is one __parallel_or, one __parallel_find,
\* a sequence of parallel loops or repeated partitions returns, and leaves in the range,
\* what std's does: for every range, __middle, distance and nth, however the backend cuts
\* it and in whatever order its chunks run (algorithm_impl.h, the patterns named in
\* SearchPatterns and LoopPatterns).
THEOREM CallsAreCorrect == Spec => []CallIsCorrect
<1> DEFINE CallInv == MovesInv /\ Fresh /\ OrInv /\ SearchInv /\ NthInv
<1>1. Init => CallInv
  BY MovesBegin, SearchBegins, NthBegins DEF Init, Fresh, OrInv
<1>2. CallInv /\ [Next]_vars => CallInv'
  BY MovesKeep, CallKeeps, SearchKeeps, NthKeeps
<1>3. MovesInv /\ NthInv /\ (IsMove(c) => CallIsCorrect) /\ (IsSearch(c) => CallIsCorrect) => CallIsCorrect
  <2> SUFFICES ASSUME NthInv, ~IsMove(c), ~IsSearch(c), pc = "done"
               PROVE  \E it \in answer : AnswersTheCall(it)
    BY DEF CallIsCorrect, AnswersTheCall
  <2>1. NthAnswered
    BY DEF NthInv
  <2>2. PICK v \in answer : TRUE
    BY <2>1 DEF NthAnswered
  <2> QED BY <2>1, <2>2 DEF NthAnswered, AnswersTheCall
<1>4. Spec => []CallInv
  BY <1>1, <1>2, PTL DEF Spec
<1> QED
  BY <1>3, <1>4, MovesDoTheCall, SearchesAnswerTheCall, PTL
-------------------------------------------------------------------------------
(* The patterns made of one reduction: whatever the range, the grain and the order *)
(* in which parts are made and joined, the value of a part says of that part what   *)
(* the algorithm relies on - where a test turns, the first pair of neighbours, the  *)
(* extremes, the sum of a loop, or where the elements that moved are split -, so a  *)
(* call that has returned has the answer of std's algorithm. First what each        *)
(* functor does to a part, algorithm by algorithm; then what a call is; then the    *)
(* schedule.                                                                        *)
LEMMA PartCardinality ==
  ASSUME NEW S
  PROVE  Part!Cardinality(S) = Cardinality(S)
BY Zenon DEF Part!Cardinality, Cardinality
-------------------------------------------------------------------------------
(* is_partitioned: the state of a part tells whether it turns at some place.     *)

\* A part [i, j) inside a range of length m, with something in it.
IsPart(m, i, j) == m \in Nat /\ i \in Nat /\ j \in Nat /\ i < j /\ j <= m

Turns(r, i, t, j) == \A k \in i..(j - 1) : r[k] <=> k < t

TurnStates == {Part!Broken, Part!AllTrue, Part!AllFalse, Part!TrueFalse}

StateIs(r, i, j, changes) ==
  /\ r[i] /\ changes = {} => Part!Summary(r, i, j) = Part!AllTrue
  /\ r[i] /\ changes # {} /\ Cardinality(changes) = 1 => Part!Summary(r, i, j) = Part!TrueFalse
  /\ r[i] /\ changes # {} /\ Cardinality(changes) # 1 => Part!Summary(r, i, j) = Part!Broken
  /\ ~r[i] /\ changes = {} => Part!Summary(r, i, j) = Part!AllFalse
  /\ ~r[i] /\ changes # {} => Part!Summary(r, i, j) = Part!Broken

LEMMA StateDefined ==
  ASSUME NEW r, NEW i, NEW j, r[i] \in BOOLEAN
  PROVE  StateIs(r, i, j, {k \in (i + 1)..(j - 1) : r[k] # r[k - 1]})
<1> DEFINE changes == {k \in (i + 1)..(j - 1) : r[k] # r[k - 1]}
<1>1. Part!Summary(r, i, j) =
        IF r[i]
        THEN CASE changes = {} -> Part!AllTrue
               [] Part!Cardinality(changes) = 1 -> Part!TrueFalse
               [] OTHER -> Part!Broken
        ELSE IF changes = {} THEN Part!AllFalse ELSE Part!Broken
  BY Zenon DEF Part!Summary
<1>2. Part!Cardinality(changes) = Cardinality(changes)
  BY PartCardinality
<1> HIDE DEF changes
<1>3. StateIs(r, i, j, changes)
  <2>1. CASE r[i]
    <3>1. Part!Summary(r, i, j) =
            CASE changes = {} -> Part!AllTrue
              [] Cardinality(changes) = 1 -> Part!TrueFalse
              [] OTHER -> Part!Broken
      BY Zenon, <1>1, <1>2, <2>1
    <3>2. changes = {} => Cardinality(changes) # 1
      BY FS_EmptySet
    <3> QED BY Zenon, <2>1, <3>1, <3>2 DEF StateIs
  <2>2. CASE ~r[i]
    BY <1>1, <1>2, <2>2 DEF StateIs
  <2> QED BY <2>1, <2>2
<1> QED BY <1>3 DEF changes

Steady(r, i, j) == \A k \in (i + 1)..(j - 1) : r[k] = r[k - 1]

AllAlike(r, i, j) == \A k \in i..(j - 1) : r[k] = r[i]

\* Where no element differs from the one before it all are as the first.
LEMMA NoChange ==
  ASSUME NEW m, NEW i, NEW j, IsPart(m, i, j), NEW r \in [0..(m - 1) -> BOOLEAN],
         Steady(r, i, j)
  PROVE  AllAlike(r, i, j)
<1> DEFINE S == {q \in Nat : i + q < j => r[i + q] = r[i]}
<1>1. 0 \in S
  BY DEF IsPart
<1>2. ASSUME NEW q \in Nat, q \in S PROVE q + 1 \in S
  <2>1. SUFFICES ASSUME i + (q + 1) < j PROVE r[i + (q + 1)] = r[i]
    BY DEF IsPart
  <2>2. r[i + q] = r[i]
    BY <1>2, <2>1 DEF IsPart
  <2>3. i + (q + 1) \in (i + 1)..(j - 1) /\ (i + (q + 1)) - 1 = i + q
    BY <2>1 DEF IsPart
  <2> QED BY <2>2, <2>3 DEF Steady
<1>3. Nat \subseteq S
  <2> HIDE DEF S
  <2> QED BY <1>1, <1>2, Induction
<1>4. ASSUME NEW k \in i..(j - 1) PROVE r[k] = r[i]
  <2>1. k - i \in Nat /\ i + (k - i) = k /\ i + (k - i) < j
    BY <1>4 DEF IsPart
  <2>2. k - i \in S
    <3> HIDE DEF S
    <3> QED BY <1>3, <2>1
  <2> QED BY <2>1, <2>2
<1> QED BY <1>4 DEF AllAlike

\* A part that turns has the state that tells how.
LEMMA StateOfTurn ==
  ASSUME NEW m, NEW i, NEW j, IsPart(m, i, j), NEW r \in [0..(m - 1) -> BOOLEAN],
         NEW t \in i..j, Turns(r, i, t, j)
  PROVE  Part!Summary(r, i, j) = IF t = j THEN Part!AllTrue ELSE IF t = i THEN Part!AllFalse ELSE Part!TrueFalse
<1> DEFINE changes == {k \in (i + 1)..(j - 1) : r[k] # r[k - 1]}
<1>1. \A k \in (i + 1)..(j - 1) : /\ k \in i..(j - 1) /\ k - 1 \in i..(j - 1)
                                  /\ k \in 0..(m - 1) /\ k - 1 \in 0..(m - 1)
  BY DEF IsPart
<1>2. \A k \in (i + 1)..(j - 1) : r[k] # r[k - 1] <=> k = t
  <2> SUFFICES ASSUME NEW k \in (i + 1)..(j - 1) PROVE r[k] # r[k - 1] <=> k = t
    OBVIOUS
  <2>1. (r[k] <=> k < t) /\ (r[k - 1] <=> k - 1 < t) /\ r[k] \in BOOLEAN /\ r[k - 1] \in BOOLEAN
    BY <1>1 DEF Turns
  <2>2. (k < t <=> k - 1 < t) <=> k # t
    BY DEF IsPart
  <2> QED BY <2>1, <2>2
<1>3. (t = i \/ t = j) => changes = {}
  BY <1>2 DEF IsPart
<1>4. (t # i /\ t # j) => changes = {t}
  BY <1>2 DEF IsPart
<1>5. r[i] <=> i < t
  BY DEF Turns, IsPart
<1>6. Cardinality({t}) = 1
  BY FS_Singleton
<1>7. StateIs(r, i, j, changes)
  BY StateDefined DEF IsPart
<1> HIDE DEF changes
<1>8. CASE t = i
  BY <1>3, <1>5, <1>7, <1>8 DEF IsPart, StateIs
<1>9. CASE t = j
  BY <1>3, <1>5, <1>7, <1>9 DEF IsPart, StateIs
<1>10. CASE t # i /\ t # j
  <2>1. i < t /\ changes # {}
    BY <1>4, <1>10 DEF IsPart
  <2> QED BY <1>4, <1>5, <1>6, <1>7, <1>10, <2>1 DEF StateIs
<1> QED BY <1>8, <1>9, <1>10

\* A part whose state is not broken turns somewhere.
LEMMA TurnOfState ==
  ASSUME NEW m, NEW i, NEW j, IsPart(m, i, j), NEW r \in [0..(m - 1) -> BOOLEAN],
         Part!Summary(r, i, j) # Part!Broken
  PROVE  \E t \in i..j : Turns(r, i, t, j)
<1> DEFINE changes == {k \in (i + 1)..(j - 1) : r[k] # r[k - 1]}
<1>1. StateIs(r, i, j, changes)
  BY StateDefined, SMTT(30) DEF IsPart
<1>2. changes = {} \/ (r[i] /\ Cardinality(changes) = 1)
  <2> HIDE DEF changes
  <2> QED BY <1>1 DEF StateIs
<1>3. r[i] \in BOOLEAN
  BY DEF IsPart
<1>4. CASE changes = {}
  <2>1. AllAlike(r, i, j)
    <3>1. Steady(r, i, j)
      BY <1>4 DEF Steady
    <3> QED BY <3>1, NoChange
  <2>2. r[i] => Turns(r, i, j, j)
    <3> SUFFICES ASSUME r[i], NEW k \in i..(j - 1) PROVE r[k] /\ k < j
      BY DEF Turns
    <3>1. r[k]
      BY Zenon, <2>1 DEF AllAlike
    <3> QED BY <3>1 DEF IsPart
  <2>3. ~r[i] => Turns(r, i, i, j)
    BY <2>1 DEF Turns, IsPart, AllAlike
  <2>4. i \in i..j /\ j \in i..j
    BY DEF IsPart
  <2> QED BY <2>2, <2>3, <2>4
<1>5. CASE r[i] /\ Cardinality(changes) = 1
  <2>1. IsFiniteSet(changes)
    <3>1. IsFiniteSet((i + 1)..(j - 1))
      BY FS_Interval DEF IsPart
    <3> QED BY <3>1, FS_Subset
  <2>2. PICK t : changes = {t}
    <3> HIDE DEF changes
    <3> QED BY <1>5, <2>1, FS_Singleton
  <2>3. t \in (i + 1)..(j - 1) /\ r[t] # r[t - 1]
    BY <2>2
  <2>4. \A k \in (i + 1)..(j - 1) : k # t => r[k] = r[k - 1]
    BY <2>2
  <2>5. IsPart(m, i, t) /\ IsPart(m, t, j)
    BY <2>3 DEF IsPart
  <2>6. AllAlike(r, i, t)
    <3>1. \A k \in (i + 1)..(t - 1) : k \in (i + 1)..(j - 1) /\ k # t
      BY <2>3 DEF IsPart
    <3>2. Steady(r, i, t)
      BY <2>4, <3>1 DEF Steady
    <3> QED BY <2>5, <3>2, NoChange
  <2>7. AllAlike(r, t, j)
    <3>1. \A k \in (t + 1)..(j - 1) : k \in (i + 1)..(j - 1) /\ k # t
      BY <2>3 DEF IsPart
    <3>2. Steady(r, t, j)
      BY <2>4, <3>1 DEF Steady
    <3> QED BY <2>5, <3>2, NoChange
  <2>8. r[t - 1] = r[i] /\ r[t] \in BOOLEAN
    BY <2>3, <2>6 DEF IsPart, AllAlike
  <2>9. Turns(r, i, t, j)
    <3> SUFFICES ASSUME NEW k \in i..(j - 1) PROVE r[k] <=> k < t
      BY DEF Turns
    <3>1. CASE k < t
      <4>1. k \in i..(t - 1)
        BY <2>3, <3>1 DEF IsPart
      <4> QED BY <1>5, <2>6, <3>1, <4>1 DEF AllAlike
    <3>2. CASE ~(k < t)
      <4>1. k \in t..(j - 1)
        BY <2>3, <3>2 DEF IsPart
      <4> QED BY <1>5, <2>3, <2>7, <2>8, <3>2, <4>1 DEF AllAlike
    <3> QED BY <3>1, <3>2
  <2>10. t \in i..j
    BY <2>3 DEF IsPart
  <2> QED BY <2>9, <2>10
<1> QED BY <1>2, <1>4, <1>5

LEMMA StateIsOneOf ==
  ASSUME NEW r, NEW i, NEW j, r[i] \in BOOLEAN
  PROVE  Part!Summary(r, i, j) \in TurnStates
<1> DEFINE changes == {k \in (i + 1)..(j - 1) : r[k] # r[k - 1]}
<1>1. StateIs(r, i, j, changes)
  BY StateDefined
<1> HIDE DEF changes
<1> QED BY <1>1 DEF TurnStates, StateIs

\* The state of two neighbouring parts together, by the table.
LEMMA StatesJoin ==
  ASSUME NEW m, NEW i, NEW k, NEW j, IsPart(m, i, k), IsPart(m, k, j), NEW r \in [0..(m - 1) -> BOOLEAN]
  PROVE  Part!Summary(r, i, j) = Part!Table[Part!Summary(r, i, k) * 4 + Part!Summary(r, k, j) + 1]
<1> DEFINE a == Part!Summary(r, i, k)
           b == Part!Summary(r, k, j)
           e == Part!Summary(r, i, j)
<1>1. IsPart(m, i, j)
  BY DEF IsPart
<1>2. a \in TurnStates /\ b \in TurnStates /\ e \in TurnStates
  BY StateIsOneOf DEF IsPart
<1>3. \A t \in i..k : Turns(r, i, t, k) => a = IF t = k THEN Part!AllTrue ELSE IF t = i THEN Part!AllFalse ELSE Part!TrueFalse
  BY StateOfTurn
<1>4. \A t \in k..j : Turns(r, k, t, j) => b = IF t = j THEN Part!AllTrue ELSE IF t = k THEN Part!AllFalse ELSE Part!TrueFalse
  BY StateOfTurn
<1>5. \A t \in i..j : Turns(r, i, t, j) => e = IF t = j THEN Part!AllTrue ELSE IF t = i THEN Part!AllFalse ELSE Part!TrueFalse
  BY <1>1, StateOfTurn
<1>6. a # Part!Broken => \E t \in i..k : Turns(r, i, t, k)
  BY TurnOfState
<1>7. b # Part!Broken => \E t \in k..j : Turns(r, k, t, j)
  BY TurnOfState
<1>8. e # Part!Broken => \E t \in i..j : Turns(r, i, t, j)
  BY <1>1, TurnOfState
<1> HIDE DEF a, b, e
<1>9. ASSUME NEW t \in i..j, Turns(r, i, t, j)
      PROVE  /\ t < k => Turns(r, i, t, k) /\ Turns(r, k, k, j)
             /\ t >= k => Turns(r, i, k, k) /\ Turns(r, k, t, j)
  <2>1. i..(k - 1) \subseteq i..(j - 1) /\ k..(j - 1) \subseteq i..(j - 1)
    BY DEF IsPart
  <2> QED BY <1>9, <2>1 DEF Turns, IsPart
<1>10. e # Part!Broken =>
         \/ b = Part!AllFalse /\ a # Part!Broken /\ a # Part!AllTrue
         \/ a = Part!AllTrue /\ b # Part!Broken
  <2> SUFFICES ASSUME e # Part!Broken
               PROVE  \/ b = Part!AllFalse /\ a # Part!Broken /\ a # Part!AllTrue
                      \/ a = Part!AllTrue /\ b # Part!Broken
    OBVIOUS
  <2>1. PICK t \in i..j : Turns(r, i, t, j)
    BY <1>8
  <2>2. CASE t < k
    <3>1. t \in i..k /\ k \in k..j /\ t # k /\ k # j
      BY <2>2 DEF IsPart
    <3>2. Turns(r, i, t, k) /\ Turns(r, k, k, j)
      BY <1>9, <2>1, <2>2
    <3> QED BY <1>3, <1>4, <3>1, <3>2 DEF Part!AllTrue, Part!AllFalse, Part!TrueFalse, Part!Broken
  <2>3. CASE t >= k
    <3>1. t \in k..j /\ k \in i..k
      BY <2>3 DEF IsPart
    <3>2. Turns(r, i, k, k) /\ Turns(r, k, t, j)
      BY <1>9, <2>1, <2>3
    <3> QED BY <1>3, <1>4, <3>1, <3>2 DEF Part!AllTrue, Part!AllFalse, Part!TrueFalse, Part!Broken
  <2> QED BY <2>1, <2>2, <2>3 DEF IsPart
<1>11. a = Part!AllTrue /\ b # Part!Broken => e = IF b = Part!AllTrue THEN Part!AllTrue ELSE Part!TrueFalse
  <2> SUFFICES ASSUME a = Part!AllTrue, b # Part!Broken
               PROVE  e = IF b = Part!AllTrue THEN Part!AllTrue ELSE Part!TrueFalse
    OBVIOUS
  <2>1. PICK t \in i..k : Turns(r, i, t, k)
    BY <1>6 DEF Part!AllTrue, Part!Broken
  <2>2. t = k
    BY <1>3, <2>1 DEF Part!AllTrue, Part!AllFalse, Part!TrueFalse
  <2>3. PICK u \in k..j : Turns(r, k, u, j)
    BY <1>7
  <2>4. Turns(r, i, u, j) /\ u \in i..j /\ u # i
    BY <2>1, <2>2, <2>3 DEF Turns, IsPart
  <2> QED BY <1>4, <1>5, <2>3, <2>4 DEF Part!AllTrue, Part!AllFalse, Part!TrueFalse
<1>12. b = Part!AllFalse /\ a # Part!Broken /\ a # Part!AllTrue => e = IF a = Part!AllFalse THEN Part!AllFalse ELSE Part!TrueFalse
  <2> SUFFICES ASSUME b = Part!AllFalse, a # Part!Broken, a # Part!AllTrue
               PROVE  e = IF a = Part!AllFalse THEN Part!AllFalse ELSE Part!TrueFalse
    OBVIOUS
  <2>1. PICK t \in i..k : Turns(r, i, t, k)
    BY <1>6
  <2>2. PICK u \in k..j : Turns(r, k, u, j)
    BY <1>7 DEF Part!AllFalse, Part!Broken
  <2>3. u = k
    BY <1>4, <2>2 DEF Part!AllTrue, Part!AllFalse, Part!TrueFalse, IsPart
  <2>4. t # k
    BY <1>3, <2>1
  <2>5. Turns(r, i, t, j) /\ t \in i..j /\ t # j
    BY <2>1, <2>2, <2>3 DEF Turns, IsPart
  <2> QED BY <1>3, <1>5, <2>1, <2>4, <2>5 DEF Part!AllTrue, Part!AllFalse, Part!TrueFalse
<1>13. e = Part!Table[a * 4 + b + 1]
  <2>1. CASE a = Part!Broken
    BY <1>2, <1>10, <2>1 DEF TurnStates, Part!Table, Part!AllTrue, Part!AllFalse, Part!TrueFalse, Part!Broken
  <2>2. CASE a = Part!AllTrue
    BY <1>2, <1>10, <1>11, <2>2 DEF TurnStates, Part!Table, Part!AllTrue, Part!AllFalse, Part!TrueFalse, Part!Broken
  <2>3. CASE a = Part!AllFalse
    BY <1>2, <1>10, <1>12, <2>3 DEF TurnStates, Part!Table, Part!AllTrue, Part!AllFalse, Part!TrueFalse, Part!Broken
  <2>4. CASE a = Part!TrueFalse
    BY <1>2, <1>10, <1>12, <2>4 DEF TurnStates, Part!Table, Part!AllTrue, Part!AllFalse, Part!TrueFalse, Part!Broken
  <2> QED BY <1>2, <2>1, <2>2, <2>3, <2>4 DEF TurnStates
<1> QED BY <1>13 DEF a, b, e

\* What the table says of a part that does not turn, and of the others.
LEMMA TableBroken ==
  ASSUME NEW a \in TurnStates, NEW b \in TurnStates, a = Part!Broken \/ b = Part!Broken
  PROVE  Part!Table[a * 4 + b + 1] = Part!Broken
BY DEF TurnStates, Part!Table, Part!AllTrue, Part!AllFalse, Part!TrueFalse, Part!Broken

\* The state of a part alone, and of one added to the one before it.
LEMMA TestJoined ==
  ASSUME NEW m, NEW i, NEW k, NEW j, IsPart(m, i, k), IsPart(m, k, j), NEW r \in [0..(m - 1) -> BOOLEAN],
         NEW v, Part!DescribesTest(r, i, k, v), NEW w, Part!DescribesTest(r, k, j, w)
  PROVE  /\ v.val = Part!Broken \/ w.val = Part!Broken => Part!Summary(r, i, j) = Part!Broken
         /\ v.val # Part!Broken /\ w.val # Part!Broken =>
              Part!DescribesTest(r, i, j, Part!Combine(v, w))
         /\ v.val # Part!NotInit /\ w.val # Part!NotInit
<1>1. v.val \in TurnStates /\ w.val \in TurnStates
  <2>1. Part!Summary(r, i, k) \in TurnStates /\ Part!Summary(r, k, j) \in TurnStates
    BY StateIsOneOf DEF IsPart
  <2> QED BY <2>1 DEF Part!DescribesTest
<1>2. Part!Summary(r, i, j) = Part!Table[v.val * 4 + w.val + 1]
  BY StatesJoin DEF Part!DescribesTest
<1>3. v.val = Part!Broken \/ w.val = Part!Broken => Part!Summary(r, i, j) = Part!Broken
  BY <1>1, <1>2, TableBroken
<1>4. ASSUME v.val # Part!Broken, w.val # Part!Broken
      PROVE  Part!DescribesTest(r, i, j, Part!Combine(v, w))
  <2>1. v.pos = i /\ w.pos = k
    BY <1>4 DEF Part!DescribesTest
  <2>2. Part!Combine(v, w) = Part!State(Part!Table[v.val * 4 + w.val + 1], i)
    BY <2>1 DEF Part!Combine, IsPart
  <2> QED BY <1>2, <2>2 DEF Part!DescribesTest, Part!State
<1>5. v.val # Part!NotInit /\ w.val # Part!NotInit
  BY <1>1 DEF TurnStates, Part!AllTrue, Part!AllFalse, Part!TrueFalse, Part!Broken, Part!NotInit
<1> QED BY <1>3, <1>4, <1>5

\* __real_body makes the state of the piece, or of the part it follows with it.
LEMMA TestBegins ==
  ASSUME NEW m, NEW i, NEW j, IsPart(m, i, j), NEW r \in [0..(m - 1) -> BOOLEAN],
         NEW o \in Part!Brick(r, i, j, Part!Start(m, r))
  PROVE  o[1] = r /\ Part!DescribesTest(r, i, j, o[2])
<1>1. o[1] = r /\ (o[2] = Part!State(Part!Summary(r, i, j), i) \/ (Part!Summary(r, i, j) = Part!Broken /\ o[2] = Part!State(Part!Broken, i)))
  BY DEF Part!Brick, Part!Start, Part!State, Part!NotInit, Part!Broken
<1> QED BY <1>1 DEF Part!DescribesTest, Part!State

LEMMA TestGoesOn ==
  ASSUME NEW m, NEW i, NEW k, NEW j, IsPart(m, i, k), IsPart(m, k, j), NEW r \in [0..(m - 1) -> BOOLEAN],
         NEW v, Part!DescribesTest(r, i, k, v), NEW o \in Part!Brick(r, k, j, v)
  PROVE  o[1] = r /\ Part!DescribesTest(r, i, j, o[2])
<1> DEFINE w == Part!State(Part!Summary(r, k, j), k)
<1>1. Part!DescribesTest(r, k, j, w)
  BY DEF Part!DescribesTest, Part!State
<1>2. o = <<r, CASE v.val = Part!Broken \/ w.val = Part!Broken -> Part!State(Part!Broken, k)
                 [] v.val = Part!NotInit -> w
                 [] OTHER -> Part!Combine(v, w)>>
  BY DEF Part!Brick
<1> HIDE DEF w
<1>3. /\ v.val = Part!Broken \/ w.val = Part!Broken => Part!Summary(r, i, j) = Part!Broken
      /\ v.val # Part!Broken /\ w.val # Part!Broken => Part!DescribesTest(r, i, j, Part!Combine(v, w))
      /\ v.val # Part!NotInit /\ w.val # Part!NotInit
  BY <1>1, TestJoined
<1>4. CASE v.val = Part!Broken \/ w.val = Part!Broken
  <2>1. o = <<r, Part!State(Part!Broken, k)>>
    BY <1>2, <1>3, <1>4
  <2> QED BY <1>3, <1>4, <2>1 DEF Part!DescribesTest, Part!State
<1>5. CASE v.val # Part!Broken /\ w.val # Part!Broken
  <2>1. o = <<r, Part!Combine(v, w)>>
    BY <1>2, <1>3, <1>5
  <2> QED BY <1>3, <1>5, <2>1
<1> QED BY <1>4, <1>5

\* __reduction makes the states of two neighbouring parts one.
LEMMA TestMerges ==
  ASSUME NEW m, NEW i, NEW k, NEW j, IsPart(m, i, k), IsPart(m, k, j), NEW r \in [0..(m - 1) -> BOOLEAN],
         NEW v, Part!DescribesTest(r, i, k, v), NEW w, Part!DescribesTest(r, k, j, w),
         NEW o \in Part!Merge(r, v, w)
  PROVE  o[1] = r /\ Part!DescribesTest(r, i, j, o[2])
<1>1. o = <<r, CASE v.val = Part!NotInit -> w
                 [] w.val = Part!NotInit -> v
                 [] v.val = Part!Broken \/ w.val = Part!Broken -> Part!State(Part!Broken, v.pos)
                 [] OTHER -> Part!Combine(v, w)>>
  BY DEF Part!Merge
<1>2. /\ v.val = Part!Broken \/ w.val = Part!Broken => Part!Summary(r, i, j) = Part!Broken
      /\ v.val # Part!Broken /\ w.val # Part!Broken => Part!DescribesTest(r, i, j, Part!Combine(v, w))
      /\ v.val # Part!NotInit /\ w.val # Part!NotInit
  BY TestJoined
<1>3. CASE v.val = Part!Broken \/ w.val = Part!Broken
  <2>1. o = <<r, Part!State(Part!Broken, v.pos)>>
    BY <1>1, <1>2, <1>3
  <2> QED BY <1>2, <1>3, <2>1 DEF Part!DescribesTest, Part!State
<1>4. CASE v.val # Part!Broken /\ w.val # Part!Broken
  <2>1. o = <<r, Part!Combine(v, w)>>
    BY <1>1, <1>2, <1>4
  <2> QED BY <1>2, <1>4, <2>1
<1> QED BY <1>3, <1>4

\* The state of the whole range answers the question.
LEMMA TestAnswers ==
  ASSUME NEW m, IsPart(m, 0, m), NEW r \in [0..(m - 1) -> BOOLEAN],
         NEW v, Part!DescribesTest(r, 0, m, v)
  PROVE  Part!Returned(r, v) = Part!CorrectTest(r, m)
<1>1. CASE v.val = Part!Broken
  <2> SUFFICES ASSUME Part!CorrectTest(r, m) PROVE FALSE
    BY <1>1 DEF Part!Returned, Part!CorrectTest
  <2> DEFINE no == {q \in 0..(m - 1) : ~r[q]}
  <2>1. PICK t \in 0..m : Turns(r, 0, t, m)
    <3>1. CASE no = {}
      <4>1. Turns(r, 0, m, m)
        BY <3>1 DEF Turns, IsPart
      <4> QED BY <4>1 DEF IsPart
    <3>2. CASE no # {}
      <4>1. no \subseteq Nat
        BY DEF IsPart
      <4>2. PICK t \in no : \A q \in no : t <= q
        <5> HIDE DEF no
        <5> QED BY <3>2, <4>1, LeastNumber
      <4>3. Turns(r, 0, t, m)
        <5> SUFFICES ASSUME NEW q \in 0..(m - 1) PROVE r[q] <=> q < t
          BY DEF Turns
        <5>1. CASE q < t
          <6>1. q \notin no
            BY <4>1, <4>2, <5>1
          <6> QED BY <5>1, <6>1
        <5>2. CASE q = t
          BY <4>2, <5>2
        <5>3. CASE q > t
          BY <4>2, <5>3 DEF Part!CorrectTest
        <5> QED BY <4>1, <4>2, <5>1, <5>2, <5>3
      <4> QED BY <4>2, <4>3 DEF IsPart
    <3> QED BY <3>1, <3>2
  <2>2. Part!Summary(r, 0, m) # Part!Broken
    BY <2>1, StateOfTurn DEF Part!AllTrue, Part!AllFalse, Part!TrueFalse, Part!Broken
  <2> QED BY <1>1, <2>2 DEF Part!DescribesTest
<1>2. CASE v.val # Part!Broken
  <2>1. PICK t \in 0..m : Turns(r, 0, t, m)
    BY <1>2, TurnOfState DEF Part!DescribesTest
  <2>2. ASSUME NEW k \in 0..(m - 1), NEW l \in 0..(m - 1), k < l, r[l] PROVE r[k]
    BY <2>1, <2>2 DEF Turns, IsPart
  <2> QED BY <1>2, <2>2 DEF Part!Returned, Part!CorrectTest
<1> QED BY <1>1, <1>2
-------------------------------------------------------------------------------
(* adjacent_find: the value is the first pair that begins in the part, or some place *)
(* before it if any will do, and the end of the range if there is none.              *)

ToldPairs(r, i, j, v) ==
  /\ Near!DescribesPairs(r, i, j, v)
  /\ (~r.orSemantic /\ v # r.last) => v \in r.pairs /\ \A k \in r.pairs \cap (i..(j - 1)) : v <= k

LEMMA NearMin ==
  ASSUME NEW S \in SUBSET Nat, S # {}
  PROVE  Near!Min(S) \in S /\ \A k \in S : Near!Min(S) <= k
BY LeastNumber DEF Near!Min

\* What the brick returns for a piece that no earlier value makes superfluous.
LEMMA PairsBegin ==
  ASSUME NEW m, NEW i, NEW j, IsPart(m, i, j), NEW r \in Near!PairCalls(m),
         NEW o \in Near!Find(r, i, j, m)
  PROVE  o[1] = r /\ ToldPairs(r, i, j, o[2])
<1> DEFINE E == IF j # m THEN j + 1 ELSE j
           there == {k \in i..(E - 2) : k \in r.pairs}
           here == r.pairs \cap (i..(j - 1))
<1>1. r.last = m /\ r.pairs \subseteq 0..(m - 2) /\ r.orSemantic \in BOOLEAN
  BY DEF Near!PairCalls
<1>2. there = here
  <2>1. CASE j = m
    BY <1>1, <2>1 DEF IsPart
  <2>2. CASE j # m
    BY <2>2 DEF IsPart
  <2> QED BY <2>1, <2>2
<1>3. here \in SUBSET Nat
  BY DEF IsPart
<1>4. E \in Nat /\ i < E /\ j <= E
  BY DEF IsPart
<1>5. PICK res \in (IF there = {} THEN {E} ELSE IF r.orSemantic THEN i..Near!Min(there) ELSE {Near!Min(there)}) :
        o = <<r, IF res < E THEN res ELSE m>>
  <2>1. ~((r.orSemantic /\ m < r.last) \/ m <= i)
    BY <1>1 DEF IsPart
  <2>2. Near!EndOfSearch(r, j) = E
    BY <1>1 DEF Near!EndOfSearch
  <2> QED BY <2>1, <2>2 DEF Near!Find, Near!BrickAdjacentFind
<1> HIDE DEF E, there
<1>6. CASE here = {}
  <2>1. o = <<r, m>>
    BY <1>2, <1>4, <1>5, <1>6
  <2> QED BY <1>1, <1>6, <2>1 DEF ToldPairs, Near!DescribesPairs
<1>7. CASE here # {}
  <2> DEFINE low == Near!Min(there)
  <2>1. low \in here /\ \A k \in here : low <= k
    BY <1>2, <1>3, <1>7, NearMin
  <2> HIDE DEF low
  <2>2. low \in i..(j - 1) /\ low \in r.pairs
    BY <2>1
  <2>3. res \in i..low /\ (~r.orSemantic => res = low)
    BY <1>1, <1>2, <1>5, <1>7, <2>2 DEF low, IsPart
  <2>4. o = <<r, res>> /\ res \in i..(j - 1) /\ res # m
    BY <1>4, <1>5, <2>2, <2>3 DEF IsPart
  <2> QED BY <1>1, <1>7, <2>1, <2>2, <2>3, <2>4 DEF ToldPairs, Near!DescribesPairs
<1> QED BY <1>6, <1>7

\* What two neighbouring parts tell of the two together: the left one has the first pair
\* if it has one.
LEMMA PairsJoin ==
  ASSUME NEW m, NEW i, NEW k, NEW j, IsPart(m, i, k), IsPart(m, k, j), NEW r \in Near!PairCalls(m),
         NEW v, ToldPairs(r, i, k, v)
  PROVE  /\ v # m => v < k /\ ToldPairs(r, i, j, v)
         /\ v = m => \A w : ToldPairs(r, k, j, w) => ToldPairs(r, i, j, w)
<1>1. r.last = m /\ r.pairs \subseteq 0..(m - 2) /\ r.orSemantic \in BOOLEAN
  BY DEF Near!PairCalls
<1>2. i..(j - 1) = (i..(k - 1)) \cup (k..(j - 1))
  BY DEF IsPart
<1>3. CASE v # m
  <2>1. v \in i..(k - 1) /\ r.pairs \cap (i..(k - 1)) # {}
    BY <1>1, <1>3 DEF ToldPairs, Near!DescribesPairs
  <2>2. v < k /\ v \in i..(j - 1) /\ \A l \in k..(j - 1) : v <= l
    BY <2>1 DEF IsPart
  <2> QED BY <1>1, <1>2, <1>3, <2>1, <2>2 DEF ToldPairs, Near!DescribesPairs
<1>4. CASE v = m
  <2>1. r.pairs \cap (i..(j - 1)) = r.pairs \cap (k..(j - 1))
    BY <1>1, <1>2, <1>4 DEF ToldPairs, Near!DescribesPairs
  <2>2. k..(j - 1) \subseteq i..(j - 1)
    BY <1>2
  <2> QED BY <1>4, <2>1, <2>2 DEF ToldPairs, Near!DescribesPairs
<1> QED BY <1>3, <1>4

LEMMA PairsGoOn ==
  ASSUME NEW m, NEW i, NEW k, NEW j, IsPart(m, i, k), IsPart(m, k, j), NEW r \in Near!PairCalls(m),
         NEW v, ToldPairs(r, i, k, v), NEW o \in Near!Find(r, k, j, v)
  PROVE  o[1] = r /\ ToldPairs(r, i, j, o[2])
<1>1. CASE v # m
  <2>1. v < k /\ ToldPairs(r, i, j, v) /\ v \in Int
    <3>1. v \in i..(k - 1)
      BY <1>1 DEF ToldPairs, Near!DescribesPairs, Near!PairCalls
    <3>2. v < k /\ ToldPairs(r, i, j, v)
      BY <1>1, PairsJoin
    <3> QED BY <3>1, <3>2 DEF IsPart
  <2>2. o = <<r, v>>
    BY <2>1 DEF Near!Find, IsPart
  <2> QED BY <2>1, <2>2
<1>2. CASE v = m
  <2>1. o[1] = r /\ ToldPairs(r, k, j, o[2])
    BY <1>2, PairsBegin
  <2> QED BY <1>2, <2>1, PairsJoin
<1> QED BY <1>1, <1>2

LEMMA PairsMerge ==
  ASSUME NEW m, NEW i, NEW k, NEW j, IsPart(m, i, k), IsPart(m, k, j), NEW r \in Near!PairCalls(m),
         NEW v, ToldPairs(r, i, k, v), NEW w, ToldPairs(r, k, j, w), NEW o \in Near!Nearer(r, v, w)
  PROVE  o[1] = r /\ ToldPairs(r, i, j, o[2])
<1>1. (v = m \/ v \in i..(k - 1)) /\ (w = m \/ w \in k..(j - 1))
  BY DEF ToldPairs, Near!DescribesPairs, Near!PairCalls
<1>2. o = <<r, IF v # m THEN v ELSE w>>
  BY <1>1 DEF Near!Nearer, IsPart
<1> QED BY <1>2, PairsJoin

LEMMA PairsAnswer ==
  ASSUME NEW m, IsPart(m, 0, m), NEW r \in Near!PairCalls(m), NEW v, ToldPairs(r, 0, m, v)
  PROVE  Near!CorrectPair(r, Near!Returned(r, v))
<1>1. r.last = m /\ r.pairs \subseteq 0..(m - 2) /\ r.orSemantic \in BOOLEAN
  BY DEF Near!PairCalls
<1>2. r.pairs \cap (0..(m - 1)) = r.pairs /\ r.pairs \in SUBSET Nat
  BY <1>1 DEF IsPart
<1>3. (~r.orSemantic /\ v # r.last) => v = Near!Min(r.pairs)
  <2> SUFFICES ASSUME ~r.orSemantic, v # r.last PROVE v = Near!Min(r.pairs)
    OBVIOUS
  <2>1. v \in r.pairs /\ \A k \in r.pairs : v <= k
    BY <1>2 DEF ToldPairs
  <2>2. Near!Min(r.pairs) \in r.pairs /\ Near!Min(r.pairs) <= v
    BY <1>2, <2>1, NearMin
  <2>3. v <= Near!Min(r.pairs)
    BY <2>1, <2>2
  <2> QED BY <1>2, <2>1, <2>2, <2>3
<1> QED BY <1>1, <1>2, <1>3 DEF ToldPairs, Near!DescribesPairs, Near!CorrectPair, Near!Returned
-------------------------------------------------------------------------------
(* remove: the mask of every element of the part is there, and the value is an       *)
(* element to remove, at or before the first one of the part, or the end of the range. *)

\* The mask grows by the part.
MaskGrows(r, q, i, j) == q = [r EXCEPT !.masked = @ \cup (i..(j - 1))]

MaskRange(m) == [keeps : SUBSET (0..(m - 1)), masked : SUBSET (0..(m - 1)), last : {m}]

LEMMA MaskBrick ==
  ASSUME NEW m, NEW i, NEW j, IsPart(m, i, j), NEW r \in MaskRange(m), NEW v \in 0..m,
         NEW o \in Near!FindRemoved(r, i, j, v)
  PROVE  /\ MaskGrows(r, o[1], i, j) /\ o[1] \in MaskRange(m)
         /\ o[2] \in 0..m /\ (o[2] = v \/ o[2] \in (i..(j - 1)) \ r.keeps)
         /\ o[2] <= v /\ \A k \in (i..(j - 1)) \ r.keeps : o[2] <= k
<1> DEFINE q == [r EXCEPT !.masked = @ \cup (i..(j - 1))]
           removed == (i..(j - 1)) \ r.keeps
           low == Near!Min(removed)
<1>1. o \in IF v < i \/ removed = {} THEN {<<q, v>>} ELSE {<<q, Near!Min({v, low})>>}
  BY DEF Near!FindRemoved, Near!CalcMask
<1>2. q \in MaskRange(m)
  BY DEF MaskRange, IsPart
<1>3. removed \in SUBSET Nat /\ \A k \in removed : i <= k
  BY DEF IsPart
<1> HIDE DEF q
<1>4. CASE v < i \/ removed = {}
  <2>1. o = <<q, v>>
    BY <1>1, <1>4
  <2>2. \A k \in removed : v <= k
    BY <1>3, <1>4 DEF IsPart
  <2> QED BY <1>2, <2>1, <2>2 DEF MaskGrows, q
<1>5. CASE ~(v < i \/ removed = {})
  <2>1. o = <<q, Near!Min({v, low})>>
    BY <1>1, <1>5
  <2>2. low \in removed /\ \A k \in removed : low <= k
    BY <1>3, <1>5, NearMin
  <2> HIDE DEF low
  <2>3. {v, low} \in SUBSET Nat /\ {v, low} # {}
    BY <1>3, <2>2 DEF IsPart
  <2>4. Near!Min({v, low}) \in {v, low} /\ Near!Min({v, low}) <= v /\ Near!Min({v, low}) <= low
    BY <2>3, NearMin
  <2>5. \A k \in removed : Near!Min({v, low}) <= k
    BY <1>3, <2>2, <2>3, <2>4
  <2>6. low \in 0..m
    BY <2>2 DEF IsPart
  <2> QED BY <1>2, <2>1, <2>2, <2>4, <2>5, <2>6 DEF MaskGrows, q
<1> QED BY <1>4, <1>5

LEMMA MaskBegins ==
  ASSUME NEW m, NEW i, NEW j, IsPart(m, i, j), NEW r \in MaskRange(m),
         NEW o \in Near!FindRemoved(r, i, j, m)
  PROVE  /\ MaskGrows(r, o[1], i, j) /\ o[1] \in MaskRange(m)
         /\ Near!DescribesMask(o[1], i, j, o[2])
<1>1. m \in 0..m
  BY DEF IsPart
<1>2. /\ MaskGrows(r, o[1], i, j) /\ o[1] \in MaskRange(m)
      /\ o[2] \in 0..m /\ (o[2] = m \/ o[2] \in (i..(j - 1)) \ r.keeps)
      /\ o[2] <= m /\ \A k \in (i..(j - 1)) \ r.keeps : o[2] <= k
  BY <1>1, MaskBrick
<1>3. o[1].keeps = r.keeps /\ o[1].last = m /\ i..(j - 1) \subseteq o[1].masked
  BY <1>2 DEF MaskGrows, MaskRange
<1>4. i..(j - 1) \subseteq 0..(m - 1)
  BY DEF IsPart
<1> QED BY <1>2, <1>3, <1>4 DEF Near!DescribesMask

\* The value a part has is a place of the range, or its end.
LEMMA MaskValue ==
  ASSUME NEW m, m \in Nat, NEW r \in MaskRange(m), NEW i, NEW j, NEW v, Near!DescribesMask(r, i, j, v)
  PROVE  v \in 0..m
BY DEF Near!DescribesMask, MaskRange

LEMMA MaskGoesOn ==
  ASSUME NEW m, NEW i, NEW k, NEW j, IsPart(m, i, k), IsPart(m, k, j), NEW r \in MaskRange(m),
         NEW v, Near!DescribesMask(r, i, k, v), NEW o \in Near!FindRemoved(r, k, j, v)
  PROVE  /\ MaskGrows(r, o[1], k, j) /\ o[1] \in MaskRange(m)
         /\ Near!DescribesMask(o[1], i, j, o[2])
<1>1. v \in 0..m
  BY MaskValue DEF IsPart
<1>2. /\ MaskGrows(r, o[1], k, j) /\ o[1] \in MaskRange(m)
      /\ o[2] \in 0..m /\ (o[2] = v \/ o[2] \in (k..(j - 1)) \ r.keeps)
      /\ o[2] <= v /\ \A l \in (k..(j - 1)) \ r.keeps : o[2] <= l
  BY <1>1, MaskBrick
<1>3. o[1].keeps = r.keeps /\ o[1].last = m /\ r.last = m /\ o[1].masked = r.masked \cup (k..(j - 1))
  BY <1>2 DEF MaskGrows, MaskRange
<1>4. k..(j - 1) \subseteq 0..(m - 1) /\ i..(j - 1) = (i..(k - 1)) \cup (k..(j - 1))
  BY DEF IsPart
<1>5. \A l \in (i..(k - 1)) \ r.keeps : o[2] <= l
  <2>1. \A l \in (i..(k - 1)) \ r.keeps : v <= l /\ l \in Int
    BY DEF Near!DescribesMask, IsPart
  <2> QED BY <1>1, <1>2, <2>1
<1>6. o[2] \in ((0..(m - 1)) \ r.keeps) \cup {m}
  BY <1>2, <1>3, <1>4 DEF Near!DescribesMask
<1>7. i..(j - 1) \subseteq o[1].masked
  BY <1>3, <1>4 DEF Near!DescribesMask
<1> QED BY <1>2, <1>3, <1>4, <1>5, <1>6, <1>7 DEF Near!DescribesMask

LEMMA MaskMerges ==
  ASSUME NEW m, NEW i, NEW k, NEW j, IsPart(m, i, k), IsPart(m, k, j), NEW r \in MaskRange(m),
         NEW v, Near!DescribesMask(r, i, k, v), NEW w, Near!DescribesMask(r, k, j, w),
         NEW o \in Near!Nearer(r, v, w)
  PROVE  o[1] = r /\ Near!DescribesMask(r, i, j, o[2])
<1>1. v \in 0..m /\ w \in 0..m
  BY MaskValue DEF IsPart
<1>2. o = <<r, IF v < w THEN v ELSE w>>
  BY DEF Near!Nearer
<1>3. (o[2] = v \/ o[2] = w) /\ o[2] <= v /\ o[2] <= w
  BY <1>1, <1>2
<1>4. i..(j - 1) = (i..(k - 1)) \cup (k..(j - 1))
  BY DEF IsPart
<1>5. \A l \in (i..(j - 1)) \ r.keeps : o[2] <= l
  <2>1. \A l \in (i..(k - 1)) \ r.keeps : v <= l /\ l \in Int
    BY DEF Near!DescribesMask, IsPart
  <2>2. \A l \in (k..(j - 1)) \ r.keeps : w <= l /\ l \in Int
    BY DEF Near!DescribesMask, IsPart
  <2> QED BY <1>1, <1>3, <1>4, <2>1, <2>2
<1> QED BY <1>2, <1>3, <1>4, <1>5 DEF Near!DescribesMask

LEMMA MaskAnswer ==
  ASSUME NEW m, IsPart(m, 0, m), NEW r \in MaskRange(m), NEW v, Near!DescribesMask(r, 0, m, v)
  PROVE  Near!CorrectMask(r, Near!Returned(r, v))
<1>1. v \in 0..m /\ r.last = m /\ r.keeps \subseteq 0..(m - 1) /\ r.masked = 0..(m - 1)
  BY MaskValue DEF IsPart, MaskRange, Near!DescribesMask
<1>2. v \notin r.keeps
  BY <1>1 DEF Near!DescribesMask, IsPart
<1>3. \A k \in 0..(v - 1) : k \in r.keeps
  <2> SUFFICES ASSUME NEW k \in 0..(v - 1), k \notin r.keeps PROVE FALSE
    OBVIOUS
  <2>1. k \in (0..(m - 1)) \ r.keeps /\ k < v
    BY <1>1 DEF IsPart
  <2> QED BY <1>1, <2>1 DEF Near!DescribesMask
<1> QED BY <1>1, <1>2, <1>3 DEF Near!CorrectMask, Near!Returned
-------------------------------------------------------------------------------
(* minmax_element: the first of the least and the last of the greatest elements are   *)
(* each the best place of the part in a strict order of the places.                    *)

\* A set of pairs that orders the places of a range of length m.
Orders(R, m) ==
  /\ \A a, b \in 0..(m - 1) : <<a, b>> \in R \/ <<b, a>> \in R
  /\ \A a, b \in 0..(m - 1) : <<a, b>> \in R /\ <<b, a>> \in R => a = b
  /\ \A a, b, e \in 0..(m - 1) : <<a, b>> \in R /\ <<b, e>> \in R => <<a, e>> \in R

IsBest(R, i, j, a) == a \in i..(j - 1) /\ \A l \in i..(j - 1) : <<a, l>> \in R

\* The better one of the best places of two neighbouring parts is that of both.
LEMMA BestJoin ==
  ASSUME NEW m, NEW i, NEW k, NEW j, IsPart(m, i, k), IsPart(m, k, j), NEW R, Orders(R, m),
         NEW a, IsBest(R, i, k, a), NEW b, IsBest(R, k, j, b)
  PROVE  IsBest(R, i, j, IF <<a, b>> \in R THEN a ELSE b)
<1>1. i..(j - 1) = (i..(k - 1)) \cup (k..(j - 1)) /\ i..(j - 1) \subseteq 0..(m - 1)
  BY DEF IsPart
<1>2. a \in 0..(m - 1) /\ b \in 0..(m - 1) /\ a \in i..(j - 1) /\ b \in i..(j - 1)
  BY <1>1 DEF IsBest
<1>3. CASE <<a, b>> \in R
  <2>1. ASSUME NEW l \in i..(j - 1) PROVE <<a, l>> \in R
    <3>1. CASE l \in i..(k - 1)
      BY <3>1 DEF IsBest
    <3>2. CASE l \in k..(j - 1)
      <4>1. <<b, l>> \in R /\ l \in 0..(m - 1)
        BY <1>1, <3>2 DEF IsBest
      <4> QED BY <1>2, <1>3, <4>1 DEF Orders
    <3> QED BY <1>1, <2>1, <3>1, <3>2
  <2> QED BY <1>2, <1>3, <2>1 DEF IsBest
<1>4. CASE <<a, b>> \notin R
  <2>1. <<b, a>> \in R
    BY <1>2, <1>4 DEF Orders
  <2>2. ASSUME NEW l \in i..(j - 1) PROVE <<b, l>> \in R
    <3>1. CASE l \in k..(j - 1)
      BY <3>1 DEF IsBest
    <3>2. CASE l \in i..(k - 1)
      <4>1. <<a, l>> \in R /\ l \in 0..(m - 1)
        BY <1>1, <3>2 DEF IsBest
      <4> QED BY <1>2, <2>1, <4>1 DEF Orders
    <3> QED BY <1>1, <2>2, <3>1, <3>2
  <2> QED BY <1>2, <1>4, <2>2 DEF IsBest
<1> QED BY <1>3, <1>4

LEMMA BestExists ==
  ASSUME NEW m, NEW i, NEW j, IsPart(m, i, j), NEW R, Orders(R, m)
  PROVE  \E a : IsBest(R, i, j, a)
<1> DEFINE S == {q \in Nat : i + q < m => \E a : IsBest(R, i, (i + q) + 1, a)}
<1>1. 0 \in S
  <2>1. IsBest(R, i, i + 1, i)
    <3>1. i..((i + 1) - 1) = {i} /\ i \in 0..(m - 1)
      BY DEF IsPart
    <3> QED BY <3>1 DEF IsBest, Orders
  <2>2. (i + 0) + 1 = i + 1
    BY DEF IsPart
  <2> QED BY <2>1, <2>2
<1>2. ASSUME NEW q \in Nat, q \in S PROVE q + 1 \in S
  <2> SUFFICES ASSUME i + (q + 1) < m PROVE \E a : IsBest(R, i, (i + (q + 1)) + 1, a)
    OBVIOUS
  <2> DEFINE k == (i + q) + 1
  <2>1. PICK a : IsBest(R, i, k, a)
    <3>1. i + q < m
      BY DEF IsPart
    <3> QED BY <1>2, <3>1
  <2>2. IsPart(m, i, k) /\ IsPart(m, k, k + 1) /\ (i + (q + 1)) + 1 = k + 1
    BY DEF IsPart
  <2>3. IsBest(R, k, k + 1, k)
    <3>1. k..((k + 1) - 1) = {k} /\ k \in 0..(m - 1)
      BY <2>2 DEF IsPart
    <3> QED BY <3>1 DEF IsBest, Orders
  <2> HIDE DEF k
  <2>4. IsBest(R, i, k + 1, IF <<a, k>> \in R THEN a ELSE k)
    BY <2>1, <2>2, <2>3, BestJoin
  <2> QED BY <2>2, <2>4
<1>3. Nat \subseteq S
  <2> HIDE DEF S
  <2> QED BY <1>1, <1>2, Induction
<1>4. (j - 1) - i \in Nat /\ i + ((j - 1) - i) < m /\ (i + ((j - 1) - i)) + 1 = j
  BY DEF IsPart
<1>5. (j - 1) - i \in S
  <2> HIDE DEF S
  <2> QED BY <1>3, <1>4
<1> QED BY <1>4, <1>5

LEMMA BestUnique ==
  ASSUME NEW m, NEW i, NEW j, IsPart(m, i, j), NEW R, Orders(R, m),
         NEW a, IsBest(R, i, j, a), NEW b, IsBest(R, i, j, b)
  PROVE  a = b
<1>1. i..(j - 1) \subseteq 0..(m - 1)
  BY DEF IsPart
<1>2. <<a, b>> \in R /\ <<b, a>> \in R /\ a \in 0..(m - 1) /\ b \in 0..(m - 1)
  BY <1>1 DEF IsBest
<1> QED BY <1>2 DEF Orders

\* The order of the places for the least element, and for the greatest.
LeastFirst(r) == {p \in (DOMAIN r) \X (DOMAIN r) : r[p[1]] < r[p[2]] \/ (r[p[1]] = r[p[2]] /\ p[1] <= p[2])}
GreatestLast(r) == {p \in (DOMAIN r) \X (DOMAIN r) : r[p[1]] > r[p[2]] \/ (r[p[1]] = r[p[2]] /\ p[1] >= p[2])}

LEMMA PairsInOrder ==
  ASSUME NEW r, NEW a \in DOMAIN r, NEW b \in DOMAIN r
  PROVE  /\ <<a, b>> \in LeastFirst(r) <=> (r[a] < r[b] \/ (r[a] = r[b] /\ a <= b))
         /\ <<a, b>> \in GreatestLast(r) <=> (r[a] > r[b] \/ (r[a] = r[b] /\ a >= b))
BY DEF LeastFirst, GreatestLast

LEMMA KeyOrders ==
  ASSUME NEW m, m \in Nat, NEW r \in [0..(m - 1) -> Int]
  PROVE  Orders(LeastFirst(r), m) /\ Orders(GreatestLast(r), m)
<1>1. /\ \A a, b \in 0..(m - 1) : <<a, b>> \in LeastFirst(r) <=> (r[a] < r[b] \/ (r[a] = r[b] /\ a <= b))
      /\ \A a, b \in 0..(m - 1) : <<a, b>> \in GreatestLast(r) <=> (r[a] > r[b] \/ (r[a] = r[b] /\ a >= b))
  BY PairsInOrder
<1>2. \A a \in 0..(m - 1) : r[a] \in Int /\ a \in Int
  OBVIOUS
<1>3. Orders(LeastFirst(r), m)
  BY <1>1, <1>2, SMTT(30) DEF Orders
<1>4. Orders(GreatestLast(r), m)
  BY <1>1, <1>2, SMTT(30) DEF Orders
<1> QED BY <1>3, <1>4

LEMMA ExtremesAreBest ==
  ASSUME NEW m, NEW i, NEW j, IsPart(m, i, j), NEW r \in [0..(m - 1) -> Int]
  PROVE  IsBest(LeastFirst(r), i, j, Near!FirstMin(r, i, j)) /\ IsBest(GreatestLast(r), i, j, Near!LastMax(r, i, j))
<1>1. i..(j - 1) \subseteq DOMAIN r
  BY DEF IsPart
<1>2. IsBest(LeastFirst(r), i, j, Near!FirstMin(r, i, j))
  <2>1. PICK a : IsBest(LeastFirst(r), i, j, a)
    BY KeyOrders, BestExists DEF IsPart
  <2>2. \A k \in i..(j - 1) : IsBest(LeastFirst(r), i, j, k) <=>
          \A l \in i..(j - 1) : r[k] < r[l] \/ (r[k] = r[l] /\ k <= l)
    BY <1>1, PairsInOrder DEF IsBest
  <2>3. a \in i..(j - 1)
    BY <2>1 DEF IsBest
  <2> QED BY <2>1, <2>2, <2>3 DEF Near!FirstMin
<1>3. IsBest(GreatestLast(r), i, j, Near!LastMax(r, i, j))
  <2>1. PICK a : IsBest(GreatestLast(r), i, j, a)
    BY KeyOrders, BestExists DEF IsPart
  <2>2. \A k \in i..(j - 1) : IsBest(GreatestLast(r), i, j, k) <=>
          \A l \in i..(j - 1) : r[k] > r[l] \/ (r[k] = r[l] /\ k >= l)
    BY <1>1, PairsInOrder DEF IsBest
  <2>3. a \in i..(j - 1)
    BY <2>1 DEF IsBest
  <2> QED BY <2>1, <2>2, <2>3 DEF Near!LastMax
<1> QED BY <1>2, <1>3

\* Comparing the extremes of two neighbouring parts gives those of both.
LEMMA ExtremesJoin ==
  ASSUME NEW m, NEW i, NEW k, NEW j, IsPart(m, i, k), IsPart(m, k, j), NEW r \in [0..(m - 1) -> Int],
         NEW v, Near!DescribesExtremes(r, i, k, v), NEW w, Near!DescribesExtremes(r, k, j, w)
  PROVE  /\ Near!DescribesExtremes(r, i, j, Near!BestOfBoth(r, v, w))
         /\ v[1] # m /\ w[1] # m
<1> DEFINE a == Near!FirstMin(r, i, k)
           b == Near!FirstMin(r, k, j)
           e == Near!LastMax(r, i, k)
           d == Near!LastMax(r, k, j)
           low == Near!FirstMin(r, i, j)
           high == Near!LastMax(r, i, j)
<1>1. v = <<a, e>> /\ w = <<b, d>>
  BY DEF Near!DescribesExtremes
<1>2. IsPart(m, i, j) /\ m \in Nat
  BY DEF IsPart
<1>3. /\ IsBest(LeastFirst(r), i, k, a) /\ IsBest(LeastFirst(r), k, j, b) /\ IsBest(LeastFirst(r), i, j, low)
      /\ IsBest(GreatestLast(r), i, k, e) /\ IsBest(GreatestLast(r), k, j, d) /\ IsBest(GreatestLast(r), i, j, high)
  BY <1>2, ExtremesAreBest
<1>4. Orders(LeastFirst(r), m) /\ Orders(GreatestLast(r), m)
  BY <1>2, KeyOrders
<1> HIDE DEF a, b, e, d, low, high
<1>5. /\ a \in i..(k - 1) /\ e \in i..(k - 1) /\ b \in k..(j - 1) /\ d \in k..(j - 1)
  BY <1>3 DEF IsBest
<1>6. /\ a \in 0..(m - 1) /\ e \in 0..(m - 1) /\ b \in 0..(m - 1) /\ d \in 0..(m - 1) /\ a < b /\ e < d
  BY <1>5 DEF IsPart
<1>7. low = Near!Lesser(r, a, b)
  <2>1. Near!Lesser(r, a, b) = IF <<a, b>> \in LeastFirst(r) THEN a ELSE b
    <3>1. <<a, b>> \in LeastFirst(r) <=> (r[a] < r[b] \/ (r[a] = r[b] /\ a <= b))
      BY <1>6, PairsInOrder
    <3>2. r[a] \in Int /\ r[b] \in Int
      BY <1>6
    <3> QED BY <1>6, <3>1, <3>2 DEF Near!Lesser
  <2> QED BY <1>2, <1>3, <1>4, <2>1, BestJoin, BestUnique
<1>8. high = Near!Greater(r, e, d)
  <2>1. Near!Greater(r, e, d) = IF <<e, d>> \in GreatestLast(r) THEN e ELSE d
    <3>1. <<e, d>> \in GreatestLast(r) <=> (r[e] > r[d] \/ (r[e] = r[d] /\ e >= d))
      BY <1>6, PairsInOrder
    <3>2. r[e] \in Int /\ r[d] \in Int
      BY <1>6
    <3> QED BY <1>6, <3>1, <3>2 DEF Near!Greater
  <2> QED BY <1>2, <1>3, <1>4, <2>1, BestJoin, BestUnique
<1>9. Near!BestOfBoth(r, v, w) = <<low, high>>
  BY <1>1, <1>7, <1>8 DEF Near!BestOfBoth
<1>10. Near!DescribesExtremes(r, i, j, <<low, high>>)
  BY DEF Near!DescribesExtremes, low, high
<1> QED BY <1>1, <1>6, <1>9, <1>10

LEMMA KeysLength ==
  ASSUME NEW m, m \in Nat, NEW r \in [0..(m - 1) -> Int]
  PROVE  Near!Length(r) = m
<1>1. Near!Cardinality(DOMAIN r) = Cardinality(0..(m - 1))
  BY Zenon DEF Near!Cardinality, Cardinality
<1>2. Cardinality(0..(m - 1)) = m
  BY FS_Interval
<1> QED BY <1>1, <1>2 DEF Near!Length

LEMMA ExtremesBegin ==
  ASSUME NEW m, NEW i, NEW j, IsPart(m, i, j), NEW r \in [0..(m - 1) -> Int],
         NEW o \in Near!Extremes(r, i, j, <<m, m>>)
  PROVE  o[1] = r /\ Near!DescribesExtremes(r, i, j, o[2])
<1>1. Near!Length(r) = m
  BY KeysLength DEF IsPart
<1> QED BY <1>1 DEF Near!Extremes, Near!DescribesExtremes

LEMMA ExtremesGoOn ==
  ASSUME NEW m, NEW i, NEW k, NEW j, IsPart(m, i, k), IsPart(m, k, j), NEW r \in [0..(m - 1) -> Int],
         NEW v, Near!DescribesExtremes(r, i, k, v), NEW o \in Near!Extremes(r, k, j, v)
  PROVE  o[1] = r /\ Near!DescribesExtremes(r, i, j, o[2])
<1> DEFINE w == <<Near!FirstMin(r, k, j), Near!LastMax(r, k, j)>>
<1>1. Near!Length(r) = m
  BY KeysLength DEF IsPart
<1>2. Near!DescribesExtremes(r, k, j, w)
  BY DEF Near!DescribesExtremes
<1>3. o = <<r, IF v[1] = Near!Length(r) THEN w ELSE Near!BestOfBoth(r, v, w)>>
  BY DEF Near!Extremes
<1> HIDE DEF w
<1> QED BY <1>1, <1>2, <1>3, ExtremesJoin

LEMMA ExtremesMerge ==
  ASSUME NEW m, NEW i, NEW k, NEW j, IsPart(m, i, k), IsPart(m, k, j), NEW r \in [0..(m - 1) -> Int],
         NEW v, Near!DescribesExtremes(r, i, k, v), NEW w, Near!DescribesExtremes(r, k, j, w),
         NEW o \in Near!Further(r, v, w)
  PROVE  o[1] = r /\ Near!DescribesExtremes(r, i, j, o[2])
<1>1. Near!Length(r) = m
  BY KeysLength DEF IsPart
<1> QED BY <1>1, ExtremesJoin DEF Near!Further
-------------------------------------------------------------------------------
(* for_loop: the packs of neighbouring parts are put one after the other.            *)

LEMMA ReduceBegins ==
  ASSUME NEW m, NEW i, NEW j, IsPart(m, i, j), NEW d, NEW o \in For!Walk(d, i, j, << >>)
  PROVE  o[1] = d /\ For!Describes(d, i, j, o[2])
BY DEF For!Walk, For!Describes, IsPart

\* The values of a function at consecutive numbers, in two runs.
LEMMA JoinedRuns ==
  ASSUME NEW i \in Nat, NEW k \in Nat, NEW j \in Nat, i <= k, k <= j, NEW S, NEW f \in [Nat -> S]
  PROVE  [q \in 1..(k - i) |-> f[i + q - 1]] \o [q \in 1..(j - k) |-> f[k + q - 1]] = [q \in 1..(j - i) |-> f[i + q - 1]]
OBVIOUS

LEMMA TermsJoin ==
  ASSUME NEW m, NEW i, NEW k, NEW j, IsPart(m, i, k), IsPart(m, k, j), NEW d,
         NEW v, For!Describes(d, i, k, v), NEW w, For!Describes(d, k, j, w)
  PROVE  For!Describes(d, i, j, v \o w)
<1> DEFINE f == [t \in Nat |-> For!Term(d, t)]
           S == {For!Term(d, t) : t \in Nat}
<1>1. f \in [Nat -> S]
  OBVIOUS
<1>2. \A t \in Nat : f[t] = For!Term(d, t)
  OBVIOUS
<1> HIDE DEF f, S
<1>3. v = [q \in 1..(k - i) |-> f[i + q - 1]]
  <2>1. \A q \in 1..(k - i) : f[i + q - 1] = For!Term(d, i + q - 1)
    BY <1>2 DEF IsPart
  <2> QED BY <2>1 DEF For!Describes
<1>4. w = [q \in 1..(j - k) |-> f[k + q - 1]]
  <2>1. \A q \in 1..(j - k) : f[k + q - 1] = For!Term(d, k + q - 1)
    BY <1>2 DEF IsPart
  <2> QED BY <2>1 DEF For!Describes
<1>5. v \o w = [q \in 1..(j - i) |-> f[i + q - 1]]
  <2>1. i \in Nat /\ k \in Nat /\ j \in Nat /\ i <= k /\ k <= j
    BY DEF IsPart
  <2>2. [q \in 1..(k - i) |-> f[i + q - 1]] \o [q \in 1..(j - k) |-> f[k + q - 1]] = [q \in 1..(j - i) |-> f[i + q - 1]]
    BY <1>1, <2>1, JoinedRuns
  <2> QED BY <1>3, <1>4, <2>2
<1>6. \A q \in 1..(j - i) : f[i + q - 1] = For!Term(d, i + q - 1)
  BY <1>2 DEF IsPart
<1> QED BY <1>5, <1>6 DEF For!Describes

LEMMA ReduceGoesOn ==
  ASSUME NEW m, NEW i, NEW k, NEW j, IsPart(m, i, k), IsPart(m, k, j), NEW d,
         NEW v, For!Describes(d, i, k, v), NEW o \in For!Walk(d, k, j, v)
  PROVE  o[1] = d /\ For!Describes(d, i, j, o[2])
<1> DEFINE w == [q \in 1..(j - k) |-> For!Term(d, k + q - 1)]
<1>1. For!Describes(d, k, j, w)
  BY DEF For!Describes
<1>2. o = <<d, v \o w>>
  BY DEF For!Walk
<1> HIDE DEF w
<1> QED BY <1>1, <1>2, TermsJoin

LEMMA LoopMerges ==
  ASSUME NEW m, NEW i, NEW k, NEW j, IsPart(m, i, k), IsPart(m, k, j), NEW d,
         NEW v, For!Describes(d, i, k, v), NEW w, For!Describes(d, k, j, w), NEW o \in For!Combined(d, v, w)
  PROVE  o[1] = d /\ For!Describes(d, i, j, o[2])
<1>1. For!Describes(d, i, j, v \o w)
  BY TermsJoin
<1>2. o = <<d, v \o w>>
  BY DEF For!Combined
<1> QED BY <1>1, <1>2
LEMMA HalfUp ==
  ASSUME NEW a \in Int, NEW m, m = (a + 1) \div 2
  PROVE  a = 2 * m \/ a = 2 * m - 1
OBVIOUS

\* The positions of a loop are the iterations of the plain one.
LEMMA IterationsCounted ==
  ASSUME NEW m \in Nat, NEW d \in For!Loops(m)
  PROVE  /\ For!Iterations(d) = 0..(m - 1) /\ Cardinality(For!Iterations(d)) = m
         /\ For!Positions(d) = m
<1>1. /\ d.first = 0 /\ d.last \in Int /\ d.stride \in {-2, -1, 1, 2} /\ d.last * d.stride >= 0
      /\ For!SequenceLength(d.first, d.last, d.stride) = m
  BY DEF For!Loops, For!Strides
<1>2. For!Iterations(d) = {p \in 0..For!Distance(d) : p * (IF d.stride > 0 THEN d.stride ELSE -d.stride) < For!Distance(d)}
  BY DEF For!Iterations
<1>3. d.last \in Int
  BY <1>1
<1>4. For!Iterations(d) = 0..(m - 1)
  <2>1. CASE d.stride = 1
    <3>1. For!Distance(d) = d.last /\ m = (d.last + 0) \div 1
      BY <1>1, <2>1 DEF For!Distance, For!SequenceLength
    <3>2. d.last = m
      BY <1>3, <3>1
    <3>3. For!Iterations(d) = {p \in 0..m : p < m}
      BY <1>2, <2>1, <3>1, <3>2
    <3> QED BY <3>3
  <2>2. CASE d.stride = 2
    <3>1. For!Distance(d) = d.last /\ m = (d.last + 1) \div 2
      BY <1>1, <2>2 DEF For!Distance, For!SequenceLength
    <3>2. d.last = 2 * m \/ d.last = 2 * m - 1
      BY <1>3, <3>1, HalfUp
    <3>3. \A p \in Int : (p \in 0..(d.last) /\ p * 2 < d.last) <=> p \in 0..(m - 1)
      BY <1>3, <3>2
    <3>4. For!Iterations(d) = {p \in 0..(d.last) : p * 2 < d.last}
      BY <1>2, <2>2, <3>1
    <3> QED BY <1>3, <3>3, <3>4
  <2>3. CASE d.stride = -1
    <3>1. For!Distance(d) = -d.last /\ m = (-d.last + 0) \div 1
      BY <1>1, <2>3 DEF For!Distance, For!SequenceLength
    <3>2. -d.last = m
      BY <1>3, <3>1
    <3>3. For!Iterations(d) = {p \in 0..m : p < m}
      BY <1>2, <2>3, <3>1, <3>2
    <3> QED BY <3>3
  <2>4. CASE d.stride = -2
    <3>1. For!Distance(d) = -d.last /\ m = (-d.last + 1) \div 2
      BY <1>1, <2>4 DEF For!Distance, For!SequenceLength
    <3>2. -d.last = 2 * m \/ -d.last = 2 * m - 1
      BY <1>3, <3>1, HalfUp
    <3>3. \A p \in Int : (p \in 0..(-d.last) /\ p * 2 < -d.last) <=> p \in 0..(m - 1)
      BY <1>3, <3>2
    <3>4. For!Iterations(d) = {p \in 0..(-d.last) : p * 2 < -d.last}
      BY <1>2, <2>4, <3>1
    <3> QED BY <1>3, <3>3, <3>4
  <2> QED BY <1>1, <2>1, <2>2, <2>3, <2>4
<1>5. Cardinality(0..(m - 1)) = m
  <2>1. Cardinality(0..(m - 1)) = IF 0 > m - 1 THEN 0 ELSE (m - 1) - 0 + 1
    BY FS_Interval
  <2> QED BY <2>1
<1> QED BY <1>1, <1>4, <1>5 DEF For!Positions

\* The pack of the whole loop is what the plain one would leave.
LEMMA LoopAnswers ==
  ASSUME NEW m \in Nat, NEW d \in For!Loops(m), NEW v, For!Describes(d, 0, m, v)
  PROVE  For!Correct(d, For!Returned(d, v)) /\ For!Correct(d, For!Finalized(d, v, For!Positions(d)))
<1> DEFINE it == For!Finalized(d, v, m)
<1>1. /\ For!Iterations(d) = 0..(m - 1) /\ Cardinality(For!Iterations(d)) = m
      /\ For!Positions(d) = m
  BY IterationsCounted
<1>2. For!Cardinality(For!Iterations(d)) = m
  BY Zenon, <1>1 DEF For!Cardinality, Cardinality
<1>3. v = [q \in 1..(m - 0) |-> For!Term(d, 0 + q - 1)]
  BY DEF For!Describes
<1>4. it.reduced = <<"before">> \o v /\ it.var = m * d.varStride
  BY DEF For!Finalized
<1> HIDE DEF it
<1> DEFINE S == {"before"} \cup {For!Term(d, t) : t \in Nat}
<1>5. <<"before">> \in Seq(S) /\ v \in Seq(S) /\ Len(v) = m /\ \A p \in 0..(m - 1) : v[p + 1] = For!Term(d, p)
  <2>1. m - 0 = m /\ \A q \in 1..m : 0 + q - 1 = q - 1 /\ q - 1 \in Nat
    OBVIOUS
  <2>2. v = [q \in 1..m |-> For!Term(d, q - 1)]
    BY Zenon, <1>3, <2>1
  <2>3. \A q \in 1..m : For!Term(d, q - 1) \in S
    BY <2>1
  <2>4. <<"before">> \in Seq(S)
    OBVIOUS
  <2> HIDE DEF S
  <2>5. v \in [1..m -> S]
    BY <2>2, <2>3
  <2>6. v \in Seq(S) /\ Len(v) = m
    BY <2>5
  <2>7. \A p \in 0..(m - 1) : p + 1 \in 1..m /\ (p + 1) - 1 = p
    OBVIOUS
  <2> QED BY <2>2, <2>4, <2>6, <2>7
<1> HIDE DEF S
<1>6. /\ Len(it.reduced) = 1 + m /\ it.reduced[1] = "before"
      /\ \A p \in 0..(m - 1) : it.reduced[p + 2] = v[p + 1]
  BY <1>4, <1>5
<1>7. For!Correct(d, it)
  BY <1>1, <1>2, <1>4, <1>5, <1>6 DEF For!Correct, For!Term
<1> QED BY <1>1, <1>7 DEF it, For!Returned

\* The pack of __execute_loop_strided after i elements.
IterateStep(d, f, i) ==
  LET sign == IF d.stride > 0 THEN 1 ELSE -1
  IN  IF i = 0 THEN << >>
      ELSE IF (i - 1) % (sign * d.stride) # 0 THEN f[i - 1]
      ELSE Append(f[i - 1], <<d.first + sign * (i - 1), d.var + Len(f[i - 1]) * d.varStride>>)

\* The elements among the first i that are positions of the loop.
Met(d, i) == IF d.stride \in {-1, 1} THEN i ELSE (i + 1) \div 2

LEMMA MetGrows ==
  ASSUME NEW d, d.stride \in {-2, -1, 1, 2}, NEW i \in Nat,
         NEW by, by = (IF d.stride > 0 THEN 1 ELSE -1) * d.stride
  PROVE  /\ Met(d, i) \in Nat /\ Met(d, 0) = 0
         /\ i % by # 0 => Met(d, i + 1) = Met(d, i)
         /\ i % by = 0 => Met(d, i + 1) = Met(d, i) + 1 /\ i = by * Met(d, i)
<1>1. CASE d.stride \in {-1, 1}
  <2>1. by = 1 /\ Met(d, i) = i /\ Met(d, 0) = 0 /\ Met(d, i + 1) = i + 1
    BY <1>1 DEF Met
  <2> QED BY <2>1
<1>2. CASE d.stride \in {-2, 2}
  <2>1. by = 2 /\ Met(d, i) = (i + 1) \div 2 /\ Met(d, 0) = (0 + 1) \div 2 /\ Met(d, i + 1) = (i + 2) \div 2
    BY <1>2 DEF Met
  <2> QED BY <2>1
<1> QED BY <1>1, <1>2

LEMMA AppendTerm ==
  ASSUME NEW d, NEW k \in Nat, NEW s, s = [q \in 1..k |-> For!Term(d, q - 1)]
  PROVE  Append(s, For!Term(d, k)) = [q \in 1..(k + 1) |-> For!Term(d, q - 1)] /\ Len(s) = k
<1> DEFINE S == {For!Term(d, p) : p \in Nat}
           w == [q \in 1..(k + 1) |-> For!Term(d, q - 1)]
<1>1. \A q \in 1..(k + 1) : q - 1 \in Nat
  OBVIOUS
<1>2. s \in [1..k -> S] /\ w \in [1..(k + 1) -> S] /\ For!Term(d, k) \in S
  BY <1>1
<1>3. \A q \in 1..k : s[q] = w[q]
  OBVIOUS
<1>4. w[k + 1] = For!Term(d, k)
  OBVIOUS
<1> HIDE DEF S, w
<1>5. s \in Seq(S) /\ w \in Seq(S) /\ Len(s) = k /\ Len(w) = k + 1
  BY <1>2
<1>6. Append(s, For!Term(d, k)) = w
  BY <1>2, <1>3, <1>4, <1>5
<1> QED BY <1>5, <1>6 DEF w

\* A loop over an iterator that goes on by one has the positions of one over numbers.
LEMMA IteratedIsComputed ==
  ASSUME NEW m \in Nat, NEW d \in For!Loops(m)
  PROVE  For!Describes(d, 0, m, For!Iterated(d)) /\ Len(For!Iterated(d)) = m
<1> DEFINE n == For!Distance(d)
           sign == IF d.stride > 0 THEN 1 ELSE -1
           by == sign * d.stride
           pack[i \in 0..n] == IterateStep(d, pack, i)
           terms == [i \in 0..n |-> [q \in 1..Met(d, i) |-> For!Term(d, q - 1)]]
<1>1. /\ d.first = 0 /\ d.last \in Int /\ d.stride \in {-2, -1, 1, 2} /\ d.last * d.stride >= 0
      /\ d.var \in Int /\ d.varStride \in Int /\ For!SequenceLength(d.first, d.last, d.stride) = m
  BY DEF For!Loops, For!Strides
<1>2. n \in Nat /\ Met(d, n) = m
  <2>1. CASE d.stride = 1
    BY <1>1, <2>1 DEF For!Distance, For!SequenceLength, Met
  <2>2. CASE d.stride = -1
    BY <1>1, <2>2 DEF For!Distance, For!SequenceLength, Met
  <2>3. CASE d.stride = 2
    BY <1>1, <2>3 DEF For!Distance, For!SequenceLength, Met
  <2>4. CASE d.stride = -2
    BY <1>1, <2>4 DEF For!Distance, For!SequenceLength, Met
  <2> QED BY <1>1, <2>1, <2>2, <2>3, <2>4
<1>3. For!Iterated(d) = pack[n]
  BY DEF For!Iterated, IterateStep
<1> HIDE DEF n
<1>4. ASSUME NEW i \in Nat, i + 1 \in 0..n
      PROVE  /\ terms[i] = [q \in 1..Met(d, i) |-> For!Term(d, q - 1)]
             /\ terms[i + 1] = [q \in 1..Met(d, i + 1) |-> For!Term(d, q - 1)]
             /\ IterateStep(d, terms, i + 1) = terms[i + 1]
  <2>1. i \in 0..n /\ (i + 1) - 1 = i /\ i + 1 # 0
    BY <1>2, <1>4
  <2>2. /\ terms[i] = [q \in 1..Met(d, i) |-> For!Term(d, q - 1)]
        /\ terms[i + 1] = [q \in 1..Met(d, i + 1) |-> For!Term(d, q - 1)]
    BY <2>1, <1>4
  <2> HIDE DEF terms
  <2>3. /\ Met(d, i) \in Nat
        /\ i % by # 0 => Met(d, i + 1) = Met(d, i)
        /\ i % by = 0 => Met(d, i + 1) = Met(d, i) + 1 /\ i = by * Met(d, i)
    BY <1>1, MetGrows
  <2>4. IterateStep(d, terms, i + 1) = IF i % by # 0 THEN terms[i]
                                       ELSE Append(terms[i], <<d.first + sign * i, d.var + Len(terms[i]) * d.varStride>>)
    BY <2>1 DEF IterateStep
  <2>5. CASE i % by # 0
    BY <2>2, <2>3, <2>4, <2>5
  <2>6. CASE i % by = 0
    <3>1. Append(terms[i], For!Term(d, Met(d, i))) = [q \in 1..(Met(d, i) + 1) |-> For!Term(d, q - 1)] /\ Len(terms[i]) = Met(d, i)
      BY <2>2, <2>3, AppendTerm
    <3>2. sign * i = Met(d, i) * d.stride
      <4> DEFINE k == Met(d, i)
      <4>1. k \in Nat /\ i = by * k
        BY <2>3, <2>6
      <4> HIDE DEF k
      <4>2. sign * i = k * d.stride
        BY <1>1, <4>1
      <4> QED BY <4>2 DEF k
    <3>3. For!Term(d, Met(d, i)) = <<d.first + sign * i, d.var + Len(terms[i]) * d.varStride>>
      BY <3>1, <3>2 DEF For!Term
    <3> QED BY <2>2, <2>3, <2>4, <2>6, <3>1, <3>3
  <2> QED BY <2>2, <2>5, <2>6, <1>1
<1>5. terms[0] = << >> /\ \A f : IterateStep(d, f, 0) = << >>
  <2>1. Met(d, 0) = 0 /\ 0 \in 0..n
    BY <1>1, <1>2, MetGrows
  <2>2. terms[0] = [q \in 1..0 |-> For!Term(d, q - 1)]
    BY <2>1
  <2> HIDE DEF terms
  <2> QED BY <2>2 DEF IterateStep
<1>6. \A i \in 0..n : pack[i] = IterateStep(d, pack, i)
  <2>1. \A i \in 0..n : terms[i] = IterateStep(d, terms, i)
    <3> SUFFICES ASSUME NEW i \in 0..n PROVE terms[i] = IterateStep(d, terms, i)
      OBVIOUS
    <3> HIDE DEF terms
    <3>1. CASE i = 0
      BY <1>5, <3>1
    <3>2. CASE i # 0
      <4>1. i - 1 \in Nat /\ (i - 1) + 1 = i
        BY <1>2, <3>2
      <4> QED BY <1>4, <4>1
    <3> QED BY <3>1, <3>2
  <2>2. terms = [i \in 0..n |-> IterateStep(d, terms, i)]
    BY <2>1
  <2>3. pack = [i \in 0..n |-> IterateStep(d, pack, i)]
    <3> HIDE DEF terms
    <3> QED BY <2>2
  <2> HIDE DEF pack
  <2> QED BY <2>3
<1> DEFINE S == {i \in Nat : i \in 0..n => pack[i] = terms[i]}
<1> HIDE DEF pack, terms
<1>7. 0 \in S
  BY <1>2, <1>5, <1>6
<1>8. ASSUME NEW i \in Nat, i \in S PROVE i + 1 \in S
  <2> SUFFICES ASSUME i + 1 \in 0..n PROVE pack[i + 1] = terms[i + 1]
    OBVIOUS
  <2>1. i \in 0..n /\ (i + 1) - 1 = i /\ i + 1 # 0
    BY <1>2
  <2>2. pack[i] = terms[i]
    BY <1>8, <2>1
  <2>3. IterateStep(d, pack, i + 1) = IterateStep(d, terms, i + 1)
    BY <2>1, <2>2 DEF IterateStep
  <2> QED BY <1>4, <1>6, <2>3
<1>9. pack[n] = terms[n]
  <2>1. Nat \subseteq S
    <3> HIDE DEF S
    <3> QED BY <1>7, <1>8, Induction
  <2> QED BY <1>2, <2>1
<1>10. terms[n] = [q \in 1..m |-> For!Term(d, q - 1)]
  BY <1>2 DEF terms
<1>11. m - 0 = m /\ \A q \in 1..m : 0 + q - 1 = q - 1
  OBVIOUS
<1>12. Len([q \in 1..m |-> For!Term(d, q - 1)]) = m
  BY AppendTerm
<1> QED BY <1>3, <1>9, <1>10, <1>11, <1>12 DEF For!Describes
-------------------------------------------------------------------------------
(* partition: the elements of a part are the given ones of its places, those that    *)
(* satisfy the predicate first, in their order if the algorithm is the stable one.   *)

PartRange(m) == [stable : BOOLEAN, mem : [0..(m - 1) -> Int]]

SameOutside(m, r, q, i, j) ==
  q.stable = r.stable /\ \A k \in 0..(m - 1) : k \notin i..(j - 1) => q.mem[k] = r.mem[k]

ToldPart(g, r, i, j, v) ==
  \E p \in i..j : /\ v = Part!PartitionRange(i, p, j)
                  /\ Part!IsPartitionedAt(r, i, p, j)
                  /\ Part!Elements(r, i, j) = Part!Elements(g, i, j)

\* Every element of a part is there again where its places are taken from one another.
Rearranges(f, r, q, i, j) ==
  /\ f \in [i..(j - 1) -> i..(j - 1)]
  /\ \A l \in i..(j - 1) : \E k \in i..(j - 1) : f[k] = l
  /\ \A k \in i..(j - 1) : q.mem[k] = r.mem[f[k]]

LEMMA Rearranged ==
  ASSUME NEW i, NEW j, NEW r, NEW q, NEW f, Rearranges(f, r, q, i, j)
  PROVE  Part!Elements(q, i, j) = Part!Elements(r, i, j)
<1>1. ASSUME NEW k \in i..(j - 1) PROVE q.mem[k] \in Part!Elements(r, i, j)
  <2>1. f[k] \in i..(j - 1) /\ q.mem[k] = r.mem[f[k]]
    BY DEF Rearranges
  <2> QED BY <2>1 DEF Part!Elements
<1>2. ASSUME NEW l \in i..(j - 1) PROVE r.mem[l] \in Part!Elements(q, i, j)
  <2>1. PICK k \in i..(j - 1) : f[k] = l
    BY DEF Rearranges
  <2>2. q.mem[k] = r.mem[l]
    BY <2>1 DEF Rearranges
  <2> QED BY <2>2 DEF Part!Elements
<1> QED BY <1>1, <1>2 DEF Part!Elements

LEMMA PartBrick ==
  ASSUME NEW m, NEW i \in Nat, NEW j \in Nat, i <= j, m \in Nat, j <= m, NEW r \in PartRange(m),
         NEW o \in Part!BrickPartition(r, i, j)
  PROVE  /\ o[1] \in PartRange(m) /\ SameOutside(m, r, o[1], i, j)
         /\ o[2] \in i..j /\ Part!IsPartitionedAt(o[1], i, o[2], j)
         /\ Part!Elements(o[1], i, j) = Part!Elements(r, i, j)
<1> DEFINE yes == {k \in i..(j - 1) : Part!Pred(r.mem[k])}
           pivot == i + Part!Cardinality(yes)
           Permuted(f) == [r EXCEPT !.mem = [k \in DOMAIN @ |-> IF k \in i..(j - 1) THEN @[f[k]] ELSE @[k]]]
<1>1. pivot \in i..j
  <2>1. Cardinality(i..(j - 1)) = j - i /\ IsFiniteSet(i..(j - 1))
    <3>1. i \in Int /\ j - 1 \in Int
      OBVIOUS
    <3>2. IsFiniteSet(i..(j - 1)) /\ Cardinality(i..(j - 1)) = IF i > j - 1 THEN 0 ELSE ((j - 1) - i) + 1
      BY <3>1, FS_Interval
    <3> QED BY <3>2
  <2>2. Cardinality(yes) \in Nat /\ Cardinality(yes) <= j - i
    BY <2>1, FS_Subset, FS_CardinalityType
  <2>3. Part!Cardinality(yes) = Cardinality(yes)
    BY PartCardinality
  <2> HIDE DEF yes
  <2> QED BY <2>2, <2>3
<1>2. PICK f \in Part!Rearrangements(i..(j - 1)) :
        o = <<Permuted(f), pivot>> /\ Part!IsPartitionedAt(Permuted(f), i, pivot, j)
  BY Zenon DEF Part!BrickPartition
<1>3. f \in [i..(j - 1) -> i..(j - 1)] /\ \A l \in i..(j - 1) : \E k \in i..(j - 1) : f[k] = l
  BY DEF Part!Rearrangements
<1> DEFINE q == Permuted(f)
<1>4. r.mem \in [0..(m - 1) -> Int] /\ r.stable \in BOOLEAN /\ r = [stable |-> r.stable, mem |-> r.mem]
  BY DEF PartRange
<1>5. q = [stable |-> r.stable, mem |-> [k \in 0..(m - 1) |-> IF k \in i..(j - 1) THEN r.mem[f[k]] ELSE r.mem[k]]]
  <2>1. DOMAIN r.mem = 0..(m - 1)
    BY <1>4
  <2>2. \A w : [r EXCEPT !.mem = w] = [stable |-> r.stable, mem |-> w]
    BY DEF PartRange
  <2> QED BY Zenon, <2>1, <2>2
<1> HIDE DEF q
<1>6. q \in PartRange(m)
  <2>1. \A k \in i..(j - 1) : f[k] \in 0..(m - 1)
    BY <1>3
  <2> QED BY <1>4, <1>5, <2>1 DEF PartRange
<1>7. SameOutside(m, r, q, i, j)
  BY <1>5 DEF SameOutside
<1>8. Part!Elements(q, i, j) = Part!Elements(r, i, j)
  <2>1. \A k \in i..(j - 1) : q.mem[k] = r.mem[f[k]]
    BY <1>5
  <2> QED BY <1>3, <2>1, Rearranged, ZenonT(30) DEF Rearranges
<1> QED BY <1>1, <1>2, <1>6, <1>7, <1>8 DEF q

\* A part whose elements stay is told of as before.
LEMMA PartFrame ==
  ASSUME NEW m, NEW i, NEW j, IsPart(m, i, j), NEW g, NEW r, NEW q, NEW v, ToldPart(g, r, i, j, v),
         q.stable = r.stable, \A k \in i..(j - 1) : q.mem[k] = r.mem[k]
  PROVE  ToldPart(g, q, i, j, v)
<1>1. PICK p \in i..j : /\ v = Part!PartitionRange(i, p, j)
                       /\ Part!IsPartitionedAt(r, i, p, j)
                       /\ Part!Elements(r, i, j) = Part!Elements(g, i, j)
  BY DEF ToldPart
<1>2. Part!IsPartitionedAt(q, i, p, j)
  <2>1. \A k \in (i + 1)..(j - 1) : k \in i..(j - 1) /\ k - 1 \in i..(j - 1)
    BY DEF IsPart
  <2> QED BY <1>1, <2>1 DEF Part!IsPartitionedAt
<1>3. Part!Elements(q, i, j) = Part!Elements(r, i, j)
  BY DEF Part!Elements
<1> QED BY <1>1, <1>2, <1>3 DEF ToldPart

\* The elements of a part that is told of are those given at its places.
LEMMA PlacesStay ==
  ASSUME NEW m, NEW i, NEW j, IsPart(m, i, j), NEW g \in Part!Calls(m), NEW r,
         Part!Elements(r, i, j) = Part!Elements(g, i, j)
  PROVE  \A k \in i..(j - 1) : Part!Place(r.mem[k]) \in (i + 1)..j
<1>1. \A k \in 0..(m - 1) : g.mem[k] = k + 1 \/ g.mem[k] = -(k + 1)
  <2>1. PICK s, yes : g = [stable |-> s, mem |-> [k \in 0..(m - 1) |-> IF k \in yes THEN k + 1 ELSE -(k + 1)]]
    BY DEF Part!Calls
  <2>2. g.mem = [k \in 0..(m - 1) |-> IF k \in yes THEN k + 1 ELSE -(k + 1)]
    BY <2>1
  <2> QED BY <2>2
<1>2. \A k \in i..(j - 1) : Part!Place(g.mem[k]) = k + 1
  BY <1>1 DEF Part!Place, IsPart
<1> SUFFICES ASSUME NEW k \in i..(j - 1) PROVE Part!Place(r.mem[k]) \in (i + 1)..j
  OBVIOUS
<1>3. PICK l \in i..(j - 1) : r.mem[k] = g.mem[l]
  BY DEF Part!Elements
<1> QED BY <1>2, <1>3 DEF IsPart

LEMMA ElementsJoin ==
  ASSUME NEW m, NEW i, NEW k, NEW j, IsPart(m, i, k), IsPart(m, k, j), NEW r
  PROVE  Part!Elements(r, i, j) = Part!Elements(r, i, k) \cup Part!Elements(r, k, j)
<1>1. i..(j - 1) = (i..(k - 1)) \cup (k..(j - 1))
  BY DEF IsPart
<1> QED BY <1>1 DEF Part!Elements

\* What is known of two neighbouring parts, the left one [i, k) that turns at p, the
\* right one [k, j) that turns at q.
TwoParts(m, r, i, p, k, q, j) ==
  /\ IsPart(m, i, k) /\ IsPart(m, k, j) /\ p \in i..k /\ q \in k..j
  /\ r \in PartRange(m)
  /\ \A l \in i..(k - 1) : (Part!Pred(r.mem[l]) <=> l < p) /\ Part!Place(r.mem[l]) \in (i + 1)..k
  /\ \A l \in k..(j - 1) : (Part!Pred(r.mem[l]) <=> l < q) /\ Part!Place(r.mem[l]) \in (k + 1)..j
  /\ r.stable => /\ \A l \in (i + 1)..(k - 1) : l # p => Part!Place(r.mem[l - 1]) < Part!Place(r.mem[l])
                 /\ \A l \in (k + 1)..(j - 1) : l # q => Part!Place(r.mem[l - 1]) < Part!Place(r.mem[l])

LEMMA AreTwoParts ==
  ASSUME NEW m, NEW i, NEW k, NEW j, IsPart(m, i, k), IsPart(m, k, j), NEW g \in Part!Calls(m), NEW r \in PartRange(m),
         NEW a, ToldPart(g, r, i, k, a), NEW b, ToldPart(g, r, k, j, b)
  PROVE  \E p \in i..k, q \in k..j :
           /\ a = Part!PartitionRange(i, p, k) /\ b = Part!PartitionRange(k, q, j)
           /\ TwoParts(m, r, i, p, k, q, j)
           /\ Part!Elements(r, i, j) = Part!Elements(g, i, j)
<1>1. PICK p \in i..k : /\ a = Part!PartitionRange(i, p, k) /\ Part!IsPartitionedAt(r, i, p, k)
                       /\ Part!Elements(r, i, k) = Part!Elements(g, i, k)
  BY DEF ToldPart
<1>2. PICK q \in k..j : /\ b = Part!PartitionRange(k, q, j) /\ Part!IsPartitionedAt(r, k, q, j)
                       /\ Part!Elements(r, k, j) = Part!Elements(g, k, j)
  BY DEF ToldPart
<1>3. \A l \in i..(k - 1) : Part!Place(r.mem[l]) \in (i + 1)..k
  BY <1>1, PlacesStay
<1>4. \A l \in k..(j - 1) : Part!Place(r.mem[l]) \in (k + 1)..j
  BY <1>2, PlacesStay
<1>5. TwoParts(m, r, i, p, k, q, j)
  BY <1>1, <1>2, <1>3, <1>4 DEF TwoParts, Part!IsPartitionedAt
<1>6. Part!Elements(r, i, j) = Part!Elements(g, i, j)
  BY <1>1, <1>2, ElementsJoin
<1> QED BY <1>1, <1>2, <1>5, <1>6

\* A left part without an end to exchange: the two are partitioned as they are.
LEMMA NothingToExchange ==
  ASSUME NEW m, NEW r, NEW i, NEW k, NEW q, NEW j, TwoParts(m, r, i, k, k, q, j)
  PROVE  Part!IsPartitionedAt(r, i, q, j)
<1>1. \A l \in i..(j - 1) : Part!Pred(r.mem[l]) <=> l < q
  <2> SUFFICES ASSUME NEW l \in i..(j - 1) PROVE Part!Pred(r.mem[l]) <=> l < q
    OBVIOUS
  <2>1. l \in i..(k - 1) \/ l \in k..(j - 1)
    BY DEF TwoParts, IsPart
  <2> QED BY <2>1 DEF TwoParts, IsPart
<1>2. ASSUME r.stable, NEW l \in (i + 1)..(j - 1), l # q
      PROVE  Part!Place(r.mem[l - 1]) < Part!Place(r.mem[l])
  <2>1. CASE l \in (i + 1)..(k - 1)
    BY <1>2, <2>1 DEF TwoParts, IsPart
  <2>2. CASE l \in (k + 1)..(j - 1)
    BY <1>2, <2>2 DEF TwoParts, IsPart
  <2>3. CASE l = k
    <3>1. l - 1 \in i..(k - 1) /\ l \in k..(j - 1)
      BY <2>3 DEF TwoParts, IsPart
    <3>2. Part!Place(r.mem[l - 1]) \in (i + 1)..k /\ Part!Place(r.mem[l]) \in (k + 1)..j
      BY <3>1 DEF TwoParts
    <3> QED BY <3>2 DEF TwoParts, IsPart
  <2> QED BY <1>2, <2>1, <2>2, <2>3 DEF TwoParts, IsPart
<1> QED BY <1>1, <1>2 DEF Part!IsPartitionedAt

HoldsNow(r, o, w) == o = [r EXCEPT !.mem = w]

\* __brick_rotate puts the true beginning of the right part before the false end of the
\* left one, and every order stays.
LEMMA Rotated ==
  ASSUME NEW m, NEW r, NEW i, NEW p, NEW k, NEW q, NEW j, TwoParts(m, r, i, p, k, q, j),
         NEW o, HoldsNow(r, o, Part!RotateRange(r.mem, p, k, q))
  PROVE  /\ o \in PartRange(m) /\ SameOutside(m, r, o, i, j)
         /\ Part!IsPartitionedAt(o, i, q - (k - p), j)
         /\ Part!Elements(o, i, j) = Part!Elements(r, i, j)
<1>1. PICK t \in Nat :
        /\ m \in Nat /\ i \in Nat /\ p \in Nat /\ k \in Nat /\ q \in Nat /\ j \in Nat
        /\ i <= p /\ p <= t /\ t <= q /\ p <= k /\ k <= q /\ q <= j /\ j <= m
        /\ t = q - (k - p) /\ p + q - k = t /\ q - k = t - p
        /\ r \in PartRange(m) /\ r.mem \in [0..(m - 1) -> Int] /\ i < k /\ k < j
  <2>1. q - (k - p) \in Nat
    BY DEF TwoParts, IsPart
  <2>2. r.mem \in [0..(m - 1) -> Int]
    BY DEF TwoParts, PartRange
  <2> QED BY <2>1, <2>2 DEF TwoParts, IsPart
<1> DEFINE w == Part!RotateRange(r.mem, p, k, q)
           f == [l \in i..(j - 1) |-> IF l \in p..(t - 1) THEN l - p + k
                                      ELSE IF l \in t..(q - 1) THEN l - (q - k) ELSE l]
<1>2. w = [l \in 0..(m - 1) |-> IF l \in p..(p + q - k - 1) THEN r.mem[l - p + k]
                                 ELSE IF l \in (p + q - k)..(q - 1) THEN r.mem[l - (q - k)] ELSE r.mem[l]]
  <2>1. DOMAIN r.mem = 0..(m - 1)
    BY <1>1
  <2> QED BY Zenon, <2>1 DEF Part!RotateRange
<1>3. \A l \in 0..(m - 1) : w[l] = IF l \in p..(t - 1) THEN r.mem[l - p + k]
                                   ELSE IF l \in t..(q - 1) THEN r.mem[l - (q - k)] ELSE r.mem[l]
  <2> HIDE DEF w, f
  <2>1. p + q - k = t /\ p + q - k - 1 = t - 1
    BY <1>1
  <2> QED BY <1>2, <2>1
<1>4. w \in [0..(m - 1) -> Int]
  <2>1. \A l \in 0..(m - 1) : w[l] \in Int
    <3> HIDE DEF w, f
    <3> SUFFICES ASSUME NEW l \in 0..(m - 1) PROVE w[l] \in Int
      OBVIOUS
    <3>1. l \in p..(t - 1) => l - p + k \in 0..(m - 1)
      BY <1>1
    <3>2. l \in t..(q - 1) => l - (q - k) \in 0..(m - 1)
      BY <1>1
    <3> QED BY <1>1, <1>3, <3>1, <3>2
  <2> HIDE DEF w
  <2> QED BY <1>2, <2>1
<1>5. \A l \in i..(j - 1) : f[l] = IF l \in p..(t - 1) THEN l - p + k
                                   ELSE IF l \in t..(q - 1) THEN l - (q - k) ELSE l
  OBVIOUS
<1>6. o \in PartRange(m) /\ o.mem = w /\ o.stable = r.stable
  <2>1. o = [r EXCEPT !.mem = w]
    BY DEF HoldsNow
  <2> HIDE DEF w, f
  <2> QED BY <1>1, <1>4, <2>1 DEF PartRange
<1> HIDE DEF w
<1> HIDE DEF f
<1>7. SameOutside(m, r, o, i, j)
  <2>1. \A l \in 0..(m - 1) : l \notin i..(j - 1) => w[l] = r.mem[l]
    <3> SUFFICES ASSUME NEW l \in 0..(m - 1), l \notin i..(j - 1) PROVE w[l] = r.mem[l]
      OBVIOUS
    <3>1. l < i \/ l >= j
      BY <1>1
    <3>2. l \notin p..(t - 1) /\ l \notin t..(q - 1)
      BY <1>1, <3>1
    <3> QED BY <1>3, <3>2
  <2> QED BY <1>6, <2>1 DEF SameOutside
<1>8. \A l \in i..(j - 1) :
        /\ l < p => f[l] = l /\ f[l] \in i..(k - 1) /\ f[l] < p
        /\ (l >= p /\ l < t) => f[l] = l - p + k /\ f[l] \in k..(j - 1) /\ f[l] < q
        /\ (l >= t /\ l < q) => f[l] = l - (q - k) /\ f[l] \in i..(k - 1) /\ f[l] >= p
        /\ l >= q => f[l] = l /\ f[l] \in k..(j - 1) /\ f[l] >= q
  <2> TAKE l \in i..(j - 1)
  <2>1. /\ l < p => f[l] = l
        /\ (l >= p /\ l < t) => f[l] = l - p + k
        /\ (l >= t /\ l < q) => f[l] = l - (q - k)
        /\ l >= q => f[l] = l
    <3>1. l \in Int /\ p \in Int /\ t \in Int /\ q \in Int /\ p <= t /\ t <= q
      BY <1>1
    <3> QED BY <1>5, <3>1
  <2> QED BY <1>1, <2>1
<1>9. f \in [i..(j - 1) -> i..(j - 1)]
  <2>1. i..(k - 1) \subseteq i..(j - 1) /\ k..(j - 1) \subseteq i..(j - 1)
    BY <1>1
  <2>2. ASSUME NEW l \in i..(j - 1) PROVE f[l] \in i..(j - 1)
    <3>1. l < p \/ (l >= p /\ l < t) \/ (l >= t /\ l < q) \/ l >= q
      BY <1>1
    <3> QED BY <1>8, <2>1, <3>1
  <2> QED BY <2>2 DEF f
<1>10. \A l \in i..(j - 1) : o.mem[l] = r.mem[f[l]]
  <2>1. \A l \in i..(j - 1) : l \in 0..(m - 1)
    BY <1>1
  <2> QED BY <1>3, <1>5, <1>6, <2>1
<1>11. ASSUME NEW l \in i..(j - 1) PROVE \E h \in i..(j - 1) : f[h] = l
  <2>1. CASE l \in k..(q - 1)
    <3>1. (l - k) + p \in i..(j - 1) /\ (l - k) + p >= p /\ (l - k) + p < t /\ ((l - k) + p) - p + k = l
      BY <1>1, <2>1
    <3> QED BY <1>8, <3>1
  <2>2. CASE l \in p..(k - 1)
    <3>1. l + (q - k) \in i..(j - 1) /\ l + (q - k) >= t /\ l + (q - k) < q /\ (l + (q - k)) - (q - k) = l
      BY <1>1, <2>2
    <3> QED BY <1>8, <3>1
  <2>3. CASE l \notin p..(q - 1)
    <3>1. l < p \/ l >= q
      BY <1>1, <2>3
    <3> QED BY <1>8, <3>1
  <2> QED BY <1>1, <2>1, <2>2, <2>3
<1>12. /\ \A l \in i..(k - 1) : (Part!Pred(r.mem[l]) <=> l < p) /\ Part!Place(r.mem[l]) \in (i + 1)..k
       /\ \A l \in k..(j - 1) : (Part!Pred(r.mem[l]) <=> l < q) /\ Part!Place(r.mem[l]) \in (k + 1)..j
  BY DEF TwoParts
<1>13. ASSUME NEW l \in i..(j - 1) PROVE Part!Pred(o.mem[l]) <=> l < t
  <2>1. o.mem[l] = r.mem[f[l]]
    BY <1>10
  <2>2. \/ l < t /\ f[l] \in i..(k - 1) /\ f[l] < p
        \/ l < t /\ f[l] \in k..(j - 1) /\ f[l] < q
        \/ ~(l < t) /\ f[l] \in i..(k - 1) /\ ~(f[l] < p)
        \/ ~(l < t) /\ f[l] \in k..(j - 1) /\ ~(f[l] < q)
    BY <1>1, <1>8
  <2> QED BY <1>12, <2>1, <2>2
<1>14. ASSUME r.stable, NEW l \in (i + 1)..(j - 1), l # t
       PROVE  Part!Place(o.mem[l - 1]) < Part!Place(o.mem[l])
  <2>1. l \in i..(j - 1) /\ l - 1 \in i..(j - 1) /\ l \in Int
    BY <1>1
  <2>2. o.mem[l] = r.mem[f[l]] /\ o.mem[l - 1] = r.mem[f[l - 1]]
    BY <1>10, <2>1
  <2>3. /\ \A h \in (i + 1)..(k - 1) : h # p => Part!Place(r.mem[h - 1]) < Part!Place(r.mem[h])
        /\ \A h \in (k + 1)..(j - 1) : h # q => Part!Place(r.mem[h - 1]) < Part!Place(r.mem[h])
    BY <1>14 DEF TwoParts
  <2>4. /\ l < p => f[l] = l
        /\ (l >= p /\ l < t) => f[l] = l - p + k
        /\ (l >= t /\ l < q) => f[l] = l - (q - k)
        /\ l >= q => f[l] = l
        /\ l - 1 < p => f[l - 1] = l - 1
        /\ (l - 1 >= p /\ l - 1 < t) => f[l - 1] = (l - 1) - p + k
        /\ (l - 1 >= t /\ l - 1 < q) => f[l - 1] = (l - 1) - (q - k)
        /\ l - 1 >= q => f[l - 1] = l - 1
    BY <1>8, <2>1
  <2>5. CASE l < p \/ (l > t /\ l < q)
    <3>1. f[l] \in (i + 1)..(k - 1) /\ f[l] # p /\ f[l - 1] = f[l] - 1
      BY <1>1, <2>1, <2>4, <2>5
    <3> QED BY <2>2, <2>3, <3>1
  <2>6. CASE (l > p /\ l < t) \/ l > q
    <3>1. f[l] \in (k + 1)..(j - 1) /\ f[l] # q /\ f[l - 1] = f[l] - 1
      BY <1>1, <2>1, <2>4, <2>6
    <3> QED BY <2>2, <2>3, <3>1
  <2>7. CASE (l = p /\ p < t) \/ (l = q /\ t < q)
    <3>1. f[l] \in k..(j - 1) /\ f[l - 1] \in i..(k - 1)
      BY <1>1, <2>1, <2>4, <2>7
    <3>2. Part!Place(r.mem[f[l]]) \in (k + 1)..j /\ Part!Place(r.mem[f[l - 1]]) \in (i + 1)..k
      BY <1>12, <3>1
    <3> QED BY <1>1, <2>2, <3>2
  <2>8. l < p \/ (l = p /\ p < t) \/ (l > p /\ l < t) \/ (l > t /\ l < q) \/ (l = q /\ t < q) \/ l > q
    BY <1>1, <1>14, <2>1
  <2> QED BY <2>5, <2>6, <2>7, <2>8
<1>15. Part!IsPartitionedAt(o, i, t, j)
  BY <1>6, <1>13, <1>14 DEF Part!IsPartitionedAt
<1>16. Part!Elements(o, i, j) = Part!Elements(r, i, j)
  <2>1. Rearranges(f, r, o, i, j)
    BY <1>9, <1>10, <1>11 DEF Rearranges
  <2> QED BY <2>1, Rearranged
<1> QED BY <1>1, <1>6, <1>7, <1>15, <1>16

\* The last len places before q and as many from p on are on different sides of k, and
\* all of one side are swapped: the two parts together turn at t.
CanSwap(p, k, q, len, b, t) ==
  /\ len \in Nat /\ b \in Nat /\ b + len = q /\ b >= k /\ p + len <= k
  /\ (p + len = k /\ t = b) \/ (b = k /\ t = p + len)

\* The swap leaves a part partitioned when what it exchanges is the same in number.
LEMMA Swapped ==
  ASSUME NEW m, NEW r, NEW i, NEW p, NEW k, NEW q, NEW j, TwoParts(m, r, i, p, k, q, j), ~r.stable,
         NEW len, NEW b, NEW t, CanSwap(p, k, q, len, b, t),
         NEW o, HoldsNow(r, o, Part!SwapRanges(r.mem, p, b, len))
  PROVE  /\ o \in PartRange(m) /\ SameOutside(m, r, o, i, j)
         /\ Part!IsPartitionedAt(o, i, t, j)
         /\ Part!Elements(o, i, j) = Part!Elements(r, i, j)
<1>0. /\ len \in Nat /\ b \in Nat /\ b + len = q /\ b >= k /\ p + len <= k
      /\ (p + len = k /\ t = b) \/ (b = k /\ t = p + len)
  BY DEF CanSwap
<1> USE <1>0
<1> DEFINE w == Part!SwapRanges(r.mem, p, b, len)
           f == [l \in i..(j - 1) |-> IF l \in p..(p + len - 1) THEN l - p + b
                                      ELSE IF l \in b..(b + len - 1) THEN l - b + p ELSE l]
<1>1. /\ m \in Nat /\ i \in Nat /\ p \in Nat /\ k \in Nat /\ q \in Nat /\ j \in Nat
      /\ i <= p /\ p <= k /\ k <= q /\ q <= j /\ j <= m /\ i < k /\ k < j /\ t \in Nat /\ p <= t /\ t <= q
      /\ r \in PartRange(m) /\ r.mem \in [0..(m - 1) -> Int]
  <2>1. r.mem \in [0..(m - 1) -> Int]
    BY DEF TwoParts, PartRange
  <2> HIDE DEF w, f
  <2> QED BY <2>1 DEF TwoParts, IsPart
<1>2. w = [l \in 0..(m - 1) |-> IF l \in p..(p + len - 1) THEN r.mem[l - p + b]
                                 ELSE IF l \in b..(b + len - 1) THEN r.mem[l - b + p] ELSE r.mem[l]]
  <2>1. DOMAIN r.mem = 0..(m - 1)
    BY <1>1
  <2> QED BY Zenon, <2>1 DEF Part!SwapRanges
<1>3. \A l \in 0..(m - 1) : w[l] = IF l \in p..(p + len - 1) THEN r.mem[l - p + b]
                                   ELSE IF l \in b..(b + len - 1) THEN r.mem[l - b + p] ELSE r.mem[l]
  <2> HIDE DEF w, f
  <2> QED BY <1>2
<1>4. w \in [0..(m - 1) -> Int]
  <2>1. \A l \in 0..(m - 1) : w[l] \in Int
    <3> HIDE DEF w, f
    <3> SUFFICES ASSUME NEW l \in 0..(m - 1) PROVE w[l] \in Int
      OBVIOUS
    <3>1. l \in p..(p + len - 1) => l - p + b \in 0..(m - 1)
      BY <1>1
    <3>2. l \in b..(b + len - 1) => l - b + p \in 0..(m - 1)
      BY <1>1
    <3> QED BY <1>1, <1>3, <3>1, <3>2
  <2> HIDE DEF w
  <2> QED BY <1>2, <2>1
<1>5. \A l \in i..(j - 1) : f[l] = IF l \in p..(p + len - 1) THEN l - p + b
                                   ELSE IF l \in b..(b + len - 1) THEN l - b + p ELSE l
  OBVIOUS
<1>6. o \in PartRange(m) /\ o.mem = w /\ o.stable = r.stable
  <2>1. o = [r EXCEPT !.mem = w]
    BY DEF HoldsNow
  <2> HIDE DEF w, f
  <2> QED BY <1>1, <1>4, <2>1 DEF PartRange
<1> HIDE DEF w
<1> HIDE DEF f
<1>7. SameOutside(m, r, o, i, j)
  <2>1. \A l \in 0..(m - 1) : l \notin i..(j - 1) => w[l] = r.mem[l]
    <3> SUFFICES ASSUME NEW l \in 0..(m - 1), l \notin i..(j - 1) PROVE w[l] = r.mem[l]
      OBVIOUS
    <3>1. l < i \/ l >= j
      BY <1>1
    <3>2. l \notin p..(p + len - 1) /\ l \notin b..(b + len - 1)
      BY <1>1, <3>1
    <3> QED BY <1>3, <3>2
  <2> QED BY <1>6, <2>1 DEF SameOutside
<1>8. \A l \in i..(j - 1) :
        /\ (l >= p /\ l < p + len) => f[l] = l - p + b /\ f[l] \in k..(j - 1) /\ f[l] < q /\ f[l] >= b
        /\ (l >= b /\ l < q) => f[l] = l - b + p /\ f[l] \in i..(k - 1) /\ f[l] >= p /\ f[l] < p + len
        /\ (l < p \/ (l >= p + len /\ l < b) \/ l >= q) => f[l] = l
  <2> TAKE l \in i..(j - 1)
  <2>1. /\ (l >= p /\ l < p + len) => f[l] = l - p + b
        /\ (l >= b /\ l < q) => f[l] = l - b + p
        /\ (l < p \/ (l >= p + len /\ l < b) \/ l >= q) => f[l] = l
    <3>1. l \in Int /\ p \in Int /\ q \in Int /\ p + len <= b
      BY <1>1
    <3> QED BY <1>5, <3>1
  <2>2. (l >= p /\ l < p + len) => /\ l - p + b \in k..(j - 1) /\ l - p + b < q /\ l - p + b >= b
    BY <1>1
  <2>3. (l >= b /\ l < q) => /\ l - b + p \in i..(k - 1) /\ l - b + p >= p /\ l - b + p < p + len
    BY <1>1
  <2> QED BY <2>1, <2>2, <2>3
<1>9. \A l \in i..(j - 1) : l < p \/ (l >= p /\ l < p + len) \/ (l >= p + len /\ l < b) \/ (l >= b /\ l < q) \/ l >= q
  BY <1>1
<1>10. f \in [i..(j - 1) -> i..(j - 1)]
  <2>1. i..(k - 1) \subseteq i..(j - 1) /\ k..(j - 1) \subseteq i..(j - 1)
    BY <1>1
  <2>2. ASSUME NEW l \in i..(j - 1) PROVE f[l] \in i..(j - 1)
    BY <1>8, <1>9, <2>1
  <2> QED BY <2>2 DEF f
<1>11. \A l \in i..(j - 1) : o.mem[l] = r.mem[f[l]]
  <2>1. \A l \in i..(j - 1) : l \in 0..(m - 1)
    BY <1>1
  <2> QED BY <1>3, <1>5, <1>6, <2>1
<1>12. ASSUME NEW l \in i..(j - 1) PROVE \E h \in i..(j - 1) : f[h] = l
  <2>1. CASE l >= p /\ l < p + len
    <3>1. f[l] = l - p + b /\ f[l] < q /\ f[l] >= b
      BY <1>8, <2>1
    <3>2. f[l] \in i..(j - 1)
      BY <1>10
    <3>3. l \in Int /\ p \in Int /\ b \in Int
      BY <1>1
    <3>4. f[l] - b + p = l
      BY <3>1, <3>3
    <3>5. f[f[l]] = f[l] - b + p
      BY <1>8, <3>1, <3>2
    <3> QED BY <3>2, <3>4, <3>5
  <2>2. CASE l >= b /\ l < q
    <3>1. f[l] \in i..(j - 1) /\ f[l] >= p /\ f[l] < p + len /\ f[l] - p + b = l
      BY <1>1, <1>8, <2>2, SMTT(30)
    <3> QED BY <1>8, <3>1
  <2>3. CASE l < p \/ (l >= p + len /\ l < b) \/ l >= q
    BY <1>8, <2>3
  <2> QED BY <1>9, <2>1, <2>2, <2>3
<1>13. /\ \A l \in i..(k - 1) : Part!Pred(r.mem[l]) <=> l < p
       /\ \A l \in k..(j - 1) : Part!Pred(r.mem[l]) <=> l < q
  BY DEF TwoParts
<1>14. ASSUME NEW l \in i..(j - 1) PROVE Part!Pred(o.mem[l]) <=> l < t
  <2>1. o.mem[l] = r.mem[f[l]]
    BY <1>11
  <2>2. \/ l < t /\ f[l] \in i..(k - 1) /\ f[l] < p
        \/ l < t /\ f[l] \in k..(j - 1) /\ f[l] < q
        \/ ~(l < t) /\ f[l] \in i..(k - 1) /\ ~(f[l] < p)
        \/ ~(l < t) /\ f[l] \in k..(j - 1) /\ ~(f[l] < q)
    <3>1. CASE l >= p /\ l < p + len
      <4>1. l < t
        BY <1>1, <3>1
      <4> QED BY <1>8, <3>1, <4>1
    <3>2. CASE l >= b /\ l < q
      <4>1. ~(l < t)
        BY <1>1, <3>2
      <4>2. f[l] \in i..(k - 1) /\ f[l] >= p
        BY <1>8, <3>2
      <4>3. ~(f[l] < p)
        BY <1>1, <4>2
      <4> QED BY <4>1, <4>2, <4>3
    <3>3. CASE l < p \/ (l >= p + len /\ l < b) \/ l >= q
      <4>1. f[l] = l
        BY <1>8, <3>3
      <4> QED BY <1>1, <3>3, <4>1
    <3> QED BY <1>9, <3>1, <3>2, <3>3
  <2> QED BY <1>13, <2>1, <2>2
<1>15. Part!IsPartitionedAt(o, i, t, j)
  BY <1>6, <1>14 DEF Part!IsPartitionedAt
<1>16. Part!Elements(o, i, j) = Part!Elements(r, i, j)
  <2>1. Rearranges(f, r, o, i, j)
    BY <1>10, <1>11, <1>12 DEF Rearranges
  <2> QED BY <2>1, Rearranged
<1> QED BY <1>6, <1>7, <1>15, <1>16

\* __reductor makes two neighbouring parts one.
LEMMA Exchanged ==
  ASSUME NEW m, NEW i, NEW k, NEW j, IsPart(m, i, k), IsPart(m, k, j), NEW g \in Part!Calls(m), NEW r \in PartRange(m),
         NEW a, ToldPart(g, r, i, k, a), NEW b, ToldPart(g, r, k, j, b), NEW o, o = Part!Exchange(r, a, b)
  PROVE  o[1] \in PartRange(m) /\ SameOutside(m, r, o[1], i, j) /\ ToldPart(g, o[1], i, j, o[2])
<1>1. PICK p \in i..k, q \in k..j :
        /\ a = Part!PartitionRange(i, p, k) /\ b = Part!PartitionRange(k, q, j)
        /\ TwoParts(m, r, i, p, k, q, j)
        /\ Part!Elements(r, i, j) = Part!Elements(g, i, j)
  BY AreTwoParts
<1>2. /\ a.begin = i /\ a.pivot = p /\ a.end = k /\ b.begin = k /\ b.pivot = q /\ b.end = j
  BY <1>1 DEF Part!PartitionRange
<1>3. /\ i \in Nat /\ k \in Nat /\ j \in Nat /\ p \in Nat /\ q \in Nat /\ i < k /\ k < j
      /\ i <= p /\ p <= k /\ k <= q /\ q <= j
  BY DEF IsPart
<1>4. Part!NewBegin(a, b) = i
  BY <1>2, <1>3 DEF Part!NewBegin
<1>5. CASE k - p = 0
  <2>1. p = k
    BY <1>3, <1>5
  <2>2. o = <<r, Part!PartitionRange(i, q, j)>>
    BY <1>2, <1>4, <1>5 DEF Part!Exchange
  <2>3. Part!IsPartitionedAt(r, i, q, j)
    BY <1>1, <2>1, NothingToExchange
  <2>4. q \in i..j
    BY <1>3
  <2> QED BY <1>1, <2>2, <2>3, <2>4 DEF ToldPart, SameOutside
<1>6. CASE k - p # 0 /\ r.stable
  <2> DEFINE d == [r EXCEPT !.mem = Part!RotateRange(@, p, k, q)]
  <2>1. o = <<d, Part!PartitionRange(i, q - (k - p), j)>>
    BY <1>2, <1>4, <1>6 DEF Part!Exchange
  <2>2. /\ d \in PartRange(m) /\ SameOutside(m, r, d, i, j)
        /\ Part!IsPartitionedAt(d, i, q - (k - p), j)
        /\ Part!Elements(d, i, j) = Part!Elements(r, i, j)
    <3>1. HoldsNow(r, d, Part!RotateRange(r.mem, p, k, q))
      BY DEF HoldsNow
    <3> HIDE DEF d
    <3> QED BY <3>1, <1>1, Rotated
  <2> HIDE DEF d
  <2>3. q - (k - p) \in i..j
    BY <1>3
  <2> QED BY <1>1, <2>1, <2>2, <2>3 DEF ToldPart
<1>7. CASE k - p # 0 /\ ~r.stable /\ q - k > k - p
  <2> DEFINE len == k - p
             from == q - (k - p)
             d == [r EXCEPT !.mem = Part!SwapRanges(@, p, from, len)]
  <2>1. o = <<d, Part!PartitionRange(i, from, j)>>
    BY <1>2, <1>4, <1>7 DEF Part!Exchange
  <2>2. len \in Nat /\ from \in Nat /\ from + len = q /\ from >= k /\ p + len = k /\ p + len <= k /\ from \in i..j
    BY <1>3, <1>7
  <2> HIDE DEF len, from
  <2>3. /\ d \in PartRange(m) /\ SameOutside(m, r, d, i, j)
        /\ Part!IsPartitionedAt(d, i, from, j)
        /\ Part!Elements(d, i, j) = Part!Elements(r, i, j)
    <3>1. HoldsNow(r, d, Part!SwapRanges(r.mem, p, from, len))
      BY DEF HoldsNow
    <3> HIDE DEF d
    <3>2. CanSwap(p, k, q, len, from, from)
      BY <2>2 DEF CanSwap
    <3>3. TwoParts(m, r, i, p, k, q, j) /\ ~r.stable
      BY <1>1, <1>7
    <3> QED BY <3>1, <3>2, <3>3, Swapped
  <2> HIDE DEF d
  <2> QED BY <1>1, <2>1, <2>2, <2>3 DEF ToldPart
<1>8. CASE k - p # 0 /\ ~r.stable /\ ~(q - k > k - p)
  <2> DEFINE len == q - k
             to == p + len
             d == [r EXCEPT !.mem = Part!SwapRanges(@, p, k, len)]
  <2>1. o = <<d, Part!PartitionRange(i, to, j)>>
    BY <1>2, <1>4, <1>8 DEF Part!Exchange
  <2>2. len \in Nat /\ k + len = q /\ k >= k /\ p + len <= k /\ to = p + len /\ to \in i..j
    BY <1>3, <1>8
  <2> HIDE DEF len, to
  <2>3. /\ d \in PartRange(m) /\ SameOutside(m, r, d, i, j)
        /\ Part!IsPartitionedAt(d, i, to, j)
        /\ Part!Elements(d, i, j) = Part!Elements(r, i, j)
    <3>1. HoldsNow(r, d, Part!SwapRanges(r.mem, p, k, len))
      BY DEF HoldsNow
    <3> HIDE DEF d
    <3>2. CanSwap(p, k, q, len, k, to)
      BY <1>3, <2>2 DEF CanSwap
    <3>3. TwoParts(m, r, i, p, k, q, j) /\ ~r.stable
      BY <1>1, <1>8
    <3> QED BY <3>1, <3>2, <3>3, Swapped
  <2> HIDE DEF d
  <2> QED BY <1>1, <2>1, <2>2, <2>3 DEF ToldPart
<1> QED BY <1>5, <1>6, <1>7, <1>8
\* A piece that a serial algorithm has partitioned.
LEMMA PartAlone ==
  ASSUME NEW m, NEW i, NEW j, IsPart(m, i, j), NEW g, NEW r \in PartRange(m),
         \A k \in i..(j - 1) : r.mem[k] = g.mem[k], NEW o \in Part!BrickPartition(r, i, j)
  PROVE  /\ o[1] \in PartRange(m) /\ SameOutside(m, r, o[1], i, j)
         /\ ToldPart(g, o[1], i, j, Part!PartitionRange(i, o[2], j))
<1>1. /\ o[1] \in PartRange(m) /\ SameOutside(m, r, o[1], i, j)
      /\ o[2] \in i..j /\ Part!IsPartitionedAt(o[1], i, o[2], j)
      /\ Part!Elements(o[1], i, j) = Part!Elements(r, i, j)
  <2>1. i \in Nat /\ j \in Nat /\ i <= j /\ m \in Nat /\ j <= m
    BY DEF IsPart
  <2> QED BY <2>1, PartBrick
<1>2. Part!Elements(r, i, j) = Part!Elements(g, i, j)
  BY DEF Part!Elements
<1> QED BY <1>1, <1>2 DEF ToldPart

\* __real_body partitions the piece, and exchanges it with the part it follows.
LEMMA PartBegins ==
  ASSUME NEW m, NEW i, NEW j, IsPart(m, i, j), NEW g, NEW r \in PartRange(m),
         \A k \in i..(j - 1) : r.mem[k] = g.mem[k],
         NEW o \in Part!Done(r, i, j, Part!PartitionRange(m, m, m))
  PROVE  o[1] \in PartRange(m) /\ SameOutside(m, r, o[1], i, j) /\ ToldPart(g, o[1], i, j, o[2])
<1>1. PICK q \in Part!BrickPartition(r, i, j) :
        o = Part!Exchange(q[1], Part!PartitionRange(m, m, m), Part!PartitionRange(i, q[2], j))
  BY DEF Part!Done
<1>2. /\ q[1] \in PartRange(m) /\ SameOutside(m, r, q[1], i, j)
      /\ ToldPart(g, q[1], i, j, Part!PartitionRange(i, q[2], j))
  BY PartAlone
<1>3. m - m = 0 /\ i - 0 = i
  BY DEF IsPart
<1>4. o = <<q[1], Part!PartitionRange(i, q[2], j)>>
  BY <1>1, <1>3 DEF Part!Exchange, Part!PartitionRange, Part!NewBegin
<1> QED BY <1>2, <1>4

LEMMA PartGoesOn ==
  ASSUME NEW m, NEW i, NEW k, NEW j, IsPart(m, i, k), IsPart(m, k, j), NEW g \in Part!Calls(m), NEW r \in PartRange(m),
         \A l \in k..(j - 1) : r.mem[l] = g.mem[l],
         NEW v, ToldPart(g, r, i, k, v), NEW o \in Part!Done(r, k, j, v)
  PROVE  o[1] \in PartRange(m) /\ SameOutside(m, r, o[1], i, j) /\ ToldPart(g, o[1], i, j, o[2])
<1>1. PICK q \in Part!BrickPartition(r, k, j) :
        o = Part!Exchange(q[1], v, Part!PartitionRange(k, q[2], j))
  BY DEF Part!Done
<1>2. /\ q[1] \in PartRange(m) /\ SameOutside(m, r, q[1], k, j)
      /\ ToldPart(g, q[1], k, j, Part!PartitionRange(k, q[2], j))
  BY PartAlone
<1>3. \A l \in i..(k - 1) : l \in 0..(m - 1) /\ l \notin k..(j - 1)
  BY DEF IsPart
<1>4. ToldPart(g, q[1], i, k, v)
  <2>1. q[1].stable = r.stable /\ \A l \in i..(k - 1) : q[1].mem[l] = r.mem[l]
    BY <1>2, <1>3 DEF SameOutside
  <2> QED BY <2>1, PartFrame
<1>5. o[1] \in PartRange(m) /\ SameOutside(m, q[1], o[1], i, j) /\ ToldPart(g, o[1], i, j, o[2])
  BY <1>1, <1>2, <1>4, Exchanged
<1>6. SameOutside(m, r, o[1], i, j)
  <2>1. \A l \in 0..(m - 1) : l \notin i..(j - 1) => l \notin k..(j - 1)
    BY DEF IsPart
  <2> QED BY <1>2, <1>5, <2>1 DEF SameOutside
<1> QED BY <1>5, <1>6

\* An empty range is left as it is.
LEMMA PartOfNothing ==
  ASSUME NEW r \in PartRange(0), NEW o \in Part!Done(r, 0, 0, Part!PartitionRange(0, 0, 0))
  PROVE  o[1] \in PartRange(0) /\ o[2] = Part!PartitionRange(0, 0, 0)
<1>1. PICK q \in Part!BrickPartition(r, 0, 0) :
        o = Part!Exchange(q[1], Part!PartitionRange(0, 0, 0), Part!PartitionRange(0, q[2], 0))
  BY DEF Part!Done
<1>2. q[1] \in PartRange(0) /\ q[2] \in 0..0
  BY PartBrick
<1>3. o = <<q[1], Part!PartitionRange(0, q[2], 0)>>
  BY <1>1 DEF Part!Exchange, Part!PartitionRange, Part!NewBegin
<1> QED BY <1>2, <1>3
-------------------------------------------------------------------------------
(* A call of any of the algorithms.                                                  *)

\* The calls on a range of length m, at any time.
Formed(m) ==
  {Call("is_partitioned", d) : d \in Part!Holds(m)} \cup
  {Call("adjacent_find", d) : d \in Near!PairCalls(m)} \cup
  {Call("minmax_element", d) : d \in [0..(m - 1) -> Int]} \cup
  {Call("partition", d) : d \in PartRange(m)} \cup
  {Call("remove", d) : d \in MaskRange(m)} \cup
  {Call("for_loop", d) : d \in For!Loops(m)}

\* What the value v of the part [i, j) says, where g is the call at first.
Told(g, call, i, j, v) ==
  /\ call.alg = "is_partitioned" => Part!DescribesTest(call.data, i, j, v)
  /\ call.alg = "adjacent_find"  => ToldPairs(call.data, i, j, v)
  /\ call.alg = "minmax_element" => Near!DescribesExtremes(call.data, i, j, v)
  /\ call.alg = "partition"      => ToldPart(g.data, call.data, i, j, v)
  /\ call.alg = "remove"         => Near!DescribesMask(call.data, i, j, v)
  /\ call.alg = "for_loop"       => For!Describes(call.data, i, j, v)

\* The elements of a part are the given ones, at their places.
Untouched(g, call, i, j) == call.alg = "partition" => \A k \in i..(j - 1) : call.data.mem[k] = g.data.mem[k]

\* A functor works on the part [i, j): the call cl becomes d.
Works(m, call, d, i, j) ==
  /\ d \in Formed(m) /\ d.alg = call.alg
  /\ IF call.alg = "partition" THEN SameOutside(m, call.data, d.data, i, j)
     ELSE IF call.alg = "remove" THEN /\ d.data.keeps = call.data.keeps /\ d.data.last = call.data.last
                                   /\ call.data.masked \subseteq d.data.masked
     ELSE d = call

LEMMA FormedCases ==
  ASSUME NEW m, NEW call \in Formed(m)
  PROVE  \/ \E d \in Part!Holds(m) : call = Call("is_partitioned", d)
         \/ \E d \in Near!PairCalls(m) : call = Call("adjacent_find", d)
         \/ \E d \in [0..(m - 1) -> Int] : call = Call("minmax_element", d)
         \/ \E d \in PartRange(m) : call = Call("partition", d)
         \/ \E d \in MaskRange(m) : call = Call("remove", d)
         \/ \E d \in For!Loops(m) : call = Call("for_loop", d)
BY Zenon DEF Formed

LEMMA CallParts ==
  ASSUME NEW a, NEW d
  PROVE  Call(a, d).alg = a /\ Call(a, d).data = d
BY DEF Call

LEMMA OutcomeOf ==
  ASSUME NEW a, NEW d, NEW S, NEW o \in OnData(Call(a, d), S)
  PROVE  \E q \in S : o[1] = Call(a, q[1]) /\ o[2] = q[2]
<1>1. PICK q \in S : o = <<[Call(a, d) EXCEPT !.data = q[1]], q[2]>>
  BY DEF OnData
<1> QED BY <1>1 DEF Call

LEMMA BrickCases ==
  ASSUME NEW d, NEW i, NEW j, NEW v
  PROVE  /\ Brick(Call("is_partitioned", d), i, j, v) = OnData(Call("is_partitioned", d), Part!Brick(d, i, j, v))
         /\ Brick(Call("adjacent_find", d), i, j, v) = OnData(Call("adjacent_find", d), Near!Find(d, i, j, v))
         /\ Brick(Call("minmax_element", d), i, j, v) = OnData(Call("minmax_element", d), Near!Extremes(d, i, j, v))
         /\ Brick(Call("partition", d), i, j, v) = OnData(Call("partition", d), Part!Done(d, i, j, v))
         /\ Brick(Call("remove", d), i, j, v) = OnData(Call("remove", d), Near!FindRemoved(d, i, j, v))
         /\ Brick(Call("for_loop", d), i, j, v) = OnData(Call("for_loop", d), For!Walk(d, i, j, v))
BY CallParts DEF Brick

LEMMA MergeCases ==
  ASSUME NEW d, NEW a, NEW b
  PROVE  /\ Merge(Call("is_partitioned", d), a, b) = OnData(Call("is_partitioned", d), Part!Merge(d, a, b))
         /\ Merge(Call("adjacent_find", d), a, b) = OnData(Call("adjacent_find", d), Near!Nearer(d, a, b))
         /\ Merge(Call("minmax_element", d), a, b) = OnData(Call("minmax_element", d), Near!Further(d, a, b))
         /\ Merge(Call("partition", d), a, b) = OnData(Call("partition", d), Part!Merged(d, a, b))
         /\ Merge(Call("remove", d), a, b) = OnData(Call("remove", d), Near!Nearer(d, a, b))
         /\ Merge(Call("for_loop", d), a, b) = OnData(Call("for_loop", d), For!Combined(d, a, b))
BY CallParts DEF Merge

LEMMA StartCases ==
  ASSUME NEW m, NEW d
  PROVE  /\ Start(m, Call("is_partitioned", d)) = Part!Start(m, d)
         /\ Start(m, Call("adjacent_find", d)) = m
         /\ Start(m, Call("minmax_element", d)) = <<m, m>>
         /\ Start(m, Call("partition", d)) = Part!PartitionRange(m, m, m)
         /\ Start(m, Call("remove", d)) = m
         /\ Start(m, Call("for_loop", d)) = << >>
BY CallParts DEF Start, Near!Last, Near!LastTwice, Part!AtEnd, For!IdentityPack

LEMMA ToldCases ==
  ASSUME NEW g, NEW d, NEW i, NEW j, NEW v
  PROVE  /\ Told(g, Call("is_partitioned", d), i, j, v) <=> Part!DescribesTest(d, i, j, v)
         /\ Told(g, Call("adjacent_find", d), i, j, v) <=> ToldPairs(d, i, j, v)
         /\ Told(g, Call("minmax_element", d), i, j, v) <=> Near!DescribesExtremes(d, i, j, v)
         /\ Told(g, Call("partition", d), i, j, v) <=> ToldPart(g.data, d, i, j, v)
         /\ Told(g, Call("remove", d), i, j, v) <=> Near!DescribesMask(d, i, j, v)
         /\ Told(g, Call("for_loop", d), i, j, v) <=> For!Describes(d, i, j, v)
BY CallParts DEF Told

\* Which calls are formed, and what work is, for each algorithm.
LEMMA FormedCall ==
  ASSUME NEW m, NEW d
  PROVE  /\ d \in Part!Holds(m) => Call("is_partitioned", d) \in Formed(m)
         /\ d \in Near!PairCalls(m) => Call("adjacent_find", d) \in Formed(m)
         /\ d \in [0..(m - 1) -> Int] => Call("minmax_element", d) \in Formed(m)
         /\ d \in PartRange(m) => Call("partition", d) \in Formed(m)
         /\ d \in MaskRange(m) => Call("remove", d) \in Formed(m)
         /\ d \in For!Loops(m) => Call("for_loop", d) \in Formed(m)
BY Zenon DEF Formed

LEMMA WorksCases ==
  ASSUME NEW m, NEW d, NEW q, NEW i, NEW j
  PROVE  /\ q \in PartRange(m) /\ SameOutside(m, d, q, i, j) =>
              Works(m, Call("partition", d), Call("partition", q), i, j)
         /\ q \in MaskRange(m) /\ MaskGrows(d, q, i, j) /\ d \in MaskRange(m) =>
              Works(m, Call("remove", d), Call("remove", q), i, j)
<1>1. q \in PartRange(m) /\ SameOutside(m, d, q, i, j) =>
        Works(m, Call("partition", d), Call("partition", q), i, j)
  BY CallParts, FormedCall DEF Works
<1>2. ASSUME q \in MaskRange(m), MaskGrows(d, q, i, j), d \in MaskRange(m)
      PROVE  Works(m, Call("remove", d), Call("remove", q), i, j)
  <2>1. q.keeps = d.keeps /\ q.last = d.last /\ d.masked \subseteq q.masked
    BY <1>2 DEF MaskGrows, MaskRange
  <2> QED BY <1>2, <2>1, CallParts, FormedCall DEF Works
<1> QED BY <1>1, <1>2

LEMMA NothingWorked ==
  ASSUME NEW m, NEW call \in Formed(m), NEW i, NEW j
  PROVE  Works(m, call, call, i, j)
BY DEF Works, SameOutside

LEMMA GivenPartition ==
  ASSUME NEW m, NEW g \in Calls(m), g.alg = "partition"
  PROVE  g.data \in Part!Calls(m)
BY CallParts DEF Calls

\* __real_body on a piece makes a value that describes the piece.
LEMMA BrickBegins ==
  ASSUME NEW m, NEW i, NEW j, IsPart(m, i, j), NEW g, NEW call \in Formed(m), Untouched(g, call, i, j),
         g.alg = call.alg, NEW o \in Brick(call, i, j, Start(m, call))
  PROVE  Works(m, call, o[1], i, j) /\ Told(g, o[1], i, j, o[2])
<1>1. CASE \E d \in Part!Holds(m) : call = Call("is_partitioned", d)
  <2>1. PICK d \in Part!Holds(m) : call = Call("is_partitioned", d)
    BY <1>1
  <2>2. PICK q \in Part!Brick(d, i, j, Part!Start(m, d)) : o[1] = Call("is_partitioned", q[1]) /\ o[2] = q[2]
    <3>1. o \in OnData(Call("is_partitioned", d), Part!Brick(d, i, j, Part!Start(m, d)))
      BY <2>1, BrickCases, StartCases
    <3> QED BY <3>1, OutcomeOf
  <2>3. q[1] = d /\ Part!DescribesTest(d, i, j, q[2])
    BY TestBegins DEF Part!Holds
  <2> QED BY <2>1, <2>2, <2>3, ToldCases, NothingWorked
<1>2. CASE \E d \in Near!PairCalls(m) : call = Call("adjacent_find", d)
  <2>1. PICK d \in Near!PairCalls(m) : call = Call("adjacent_find", d)
    BY <1>2
  <2>2. PICK q \in Near!Find(d, i, j, m) : o[1] = Call("adjacent_find", q[1]) /\ o[2] = q[2]
    <3>1. o \in OnData(Call("adjacent_find", d), Near!Find(d, i, j, m))
      BY <2>1, BrickCases, StartCases
    <3> QED BY <3>1, OutcomeOf
  <2>3. q[1] = d /\ ToldPairs(d, i, j, q[2])
    BY PairsBegin
  <2> QED BY <2>1, <2>2, <2>3, ToldCases, NothingWorked
<1>3. CASE \E d \in [0..(m - 1) -> Int] : call = Call("minmax_element", d)
  <2>1. PICK d \in [0..(m - 1) -> Int] : call = Call("minmax_element", d)
    BY <1>3
  <2>2. PICK q \in Near!Extremes(d, i, j, <<m, m>>) : o[1] = Call("minmax_element", q[1]) /\ o[2] = q[2]
    <3>1. o \in OnData(Call("minmax_element", d), Near!Extremes(d, i, j, <<m, m>>))
      BY <2>1, BrickCases, StartCases
    <3> QED BY <3>1, OutcomeOf
  <2>3. q[1] = d /\ Near!DescribesExtremes(d, i, j, q[2])
    BY ExtremesBegin
  <2> QED BY <2>1, <2>2, <2>3, ToldCases, NothingWorked
<1>4. CASE \E d \in PartRange(m) : call = Call("partition", d)
  <2>1. PICK d \in PartRange(m) : call = Call("partition", d)
    BY <1>4
  <2>2. PICK q \in Part!Done(d, i, j, Part!PartitionRange(m, m, m)) : o[1] = Call("partition", q[1]) /\ o[2] = q[2]
    <3>1. o \in OnData(Call("partition", d), Part!Done(d, i, j, Part!PartitionRange(m, m, m)))
      BY <2>1, BrickCases, StartCases
    <3> QED BY <3>1, OutcomeOf
  <2>3. \A k \in i..(j - 1) : d.mem[k] = g.data.mem[k]
    BY <2>1, CallParts DEF Untouched
  <2>4. q[1] \in PartRange(m) /\ SameOutside(m, d, q[1], i, j) /\ ToldPart(g.data, q[1], i, j, q[2])
    BY <2>3, PartBegins
  <2> QED BY <2>1, <2>2, <2>4, ToldCases, WorksCases
<1>5. CASE \E d \in MaskRange(m) : call = Call("remove", d)
  <2>1. PICK d \in MaskRange(m) : call = Call("remove", d)
    BY <1>5
  <2>2. PICK q \in Near!FindRemoved(d, i, j, m) : o[1] = Call("remove", q[1]) /\ o[2] = q[2]
    <3>1. o \in OnData(Call("remove", d), Near!FindRemoved(d, i, j, m))
      BY <2>1, BrickCases, StartCases
    <3> QED BY <3>1, OutcomeOf
  <2>3. MaskGrows(d, q[1], i, j) /\ q[1] \in MaskRange(m) /\ Near!DescribesMask(q[1], i, j, q[2])
    BY MaskBegins
  <2> QED BY <2>1, <2>2, <2>3, ToldCases, WorksCases
<1>6. CASE \E d \in For!Loops(m) : call = Call("for_loop", d)
  <2>1. PICK d \in For!Loops(m) : call = Call("for_loop", d)
    BY <1>6
  <2>2. PICK q \in For!Walk(d, i, j, << >>) : o[1] = Call("for_loop", q[1]) /\ o[2] = q[2]
    <3>1. o \in OnData(Call("for_loop", d), For!Walk(d, i, j, << >>))
      BY <2>1, BrickCases, StartCases
    <3> QED BY <3>1, OutcomeOf
  <2>3. q[1] = d /\ For!Describes(d, i, j, q[2])
    BY ReduceBegins
  <2> QED BY <2>1, <2>2, <2>3, ToldCases, NothingWorked
<1> QED BY Zenon, <1>1, <1>2, <1>3, <1>4, <1>5, <1>6, FormedCases

\* __real_body on the piece that follows a part makes a value that describes both.
LEMMA BrickGoesOn ==
  ASSUME NEW m, NEW i, NEW k, NEW j, IsPart(m, i, k), IsPart(m, k, j), NEW g \in Calls(m), NEW call \in Formed(m),
         Untouched(g, call, k, j), g.alg = call.alg, NEW v, Told(g, call, i, k, v), NEW o \in Brick(call, k, j, v)
  PROVE  Works(m, call, o[1], i, j) /\ Told(g, o[1], i, j, o[2])
<1>1. CASE \E d \in Part!Holds(m) : call = Call("is_partitioned", d)
  <2>1. PICK d \in Part!Holds(m) : call = Call("is_partitioned", d)
    BY <1>1
  <2>2. PICK q \in Part!Brick(d, k, j, v) : o[1] = Call("is_partitioned", q[1]) /\ o[2] = q[2]
    <3>1. o \in OnData(Call("is_partitioned", d), Part!Brick(d, k, j, v))
      BY <2>1, BrickCases
    <3> QED BY <3>1, OutcomeOf
  <2>3. Part!DescribesTest(d, i, k, v)
    BY <2>1, ToldCases
  <2>4. q[1] = d /\ Part!DescribesTest(d, i, j, q[2])
    BY <2>3, TestGoesOn DEF Part!Holds
  <2> QED BY <2>1, <2>2, <2>4, ToldCases, NothingWorked
<1>2. CASE \E d \in Near!PairCalls(m) : call = Call("adjacent_find", d)
  <2>1. PICK d \in Near!PairCalls(m) : call = Call("adjacent_find", d)
    BY <1>2
  <2>2. PICK q \in Near!Find(d, k, j, v) : o[1] = Call("adjacent_find", q[1]) /\ o[2] = q[2]
    <3>1. o \in OnData(Call("adjacent_find", d), Near!Find(d, k, j, v))
      BY <2>1, BrickCases
    <3> QED BY <3>1, OutcomeOf
  <2>3. ToldPairs(d, i, k, v)
    BY <2>1, ToldCases
  <2>4. q[1] = d /\ ToldPairs(d, i, j, q[2])
    BY <2>3, PairsGoOn
  <2> QED BY <2>1, <2>2, <2>4, ToldCases, NothingWorked
<1>3. CASE \E d \in [0..(m - 1) -> Int] : call = Call("minmax_element", d)
  <2>1. PICK d \in [0..(m - 1) -> Int] : call = Call("minmax_element", d)
    BY <1>3
  <2>2. PICK q \in Near!Extremes(d, k, j, v) : o[1] = Call("minmax_element", q[1]) /\ o[2] = q[2]
    <3>1. o \in OnData(Call("minmax_element", d), Near!Extremes(d, k, j, v))
      BY <2>1, BrickCases
    <3> QED BY <3>1, OutcomeOf
  <2>3. Near!DescribesExtremes(d, i, k, v)
    BY <2>1, ToldCases
  <2>4. q[1] = d /\ Near!DescribesExtremes(d, i, j, q[2])
    BY <2>3, ExtremesGoOn
  <2> QED BY <2>1, <2>2, <2>4, ToldCases, NothingWorked
<1>4. CASE \E d \in PartRange(m) : call = Call("partition", d)
  <2>1. PICK d \in PartRange(m) : call = Call("partition", d)
    BY <1>4
  <2>2. PICK q \in Part!Done(d, k, j, v) : o[1] = Call("partition", q[1]) /\ o[2] = q[2]
    <3>1. o \in OnData(Call("partition", d), Part!Done(d, k, j, v))
      BY <2>1, BrickCases
    <3> QED BY <3>1, OutcomeOf
  <2>3. /\ ToldPart(g.data, d, i, k, v) /\ g.data \in Part!Calls(m)
        /\ \A l \in k..(j - 1) : d.mem[l] = g.data.mem[l]
    <3>1. ToldPart(g.data, d, i, k, v)
      BY <2>1, ToldCases
    <3>2. \A l \in k..(j - 1) : d.mem[l] = g.data.mem[l]
      BY <2>1, CallParts DEF Untouched
    <3>3. g.alg = "partition"
      BY <2>1, CallParts
    <3> QED BY <3>1, <3>2, <3>3, GivenPartition
  <2>4. q[1] \in PartRange(m) /\ SameOutside(m, d, q[1], i, j) /\ ToldPart(g.data, q[1], i, j, q[2])
    BY <2>3, PartGoesOn
  <2> QED BY <2>1, <2>2, <2>4, ToldCases, WorksCases
<1>5. CASE \E d \in MaskRange(m) : call = Call("remove", d)
  <2>1. PICK d \in MaskRange(m) : call = Call("remove", d)
    BY <1>5
  <2>2. PICK q \in Near!FindRemoved(d, k, j, v) : o[1] = Call("remove", q[1]) /\ o[2] = q[2]
    <3>1. o \in OnData(Call("remove", d), Near!FindRemoved(d, k, j, v))
      BY <2>1, BrickCases
    <3> QED BY <3>1, OutcomeOf
  <2>3. Near!DescribesMask(d, i, k, v)
    BY <2>1, ToldCases
  <2>4. MaskGrows(d, q[1], k, j) /\ q[1] \in MaskRange(m) /\ Near!DescribesMask(q[1], i, j, q[2])
    BY <2>3, MaskGoesOn
  <2>5. Works(m, call, o[1], k, j)
    BY <2>1, <2>2, <2>4, WorksCases
  <2>6. Works(m, call, o[1], i, j)
    BY <2>1, <2>5, CallParts DEF Works
  <2> QED BY <2>2, <2>4, <2>6, ToldCases
<1>6. CASE \E d \in For!Loops(m) : call = Call("for_loop", d)
  <2>1. PICK d \in For!Loops(m) : call = Call("for_loop", d)
    BY <1>6
  <2>2. PICK q \in For!Walk(d, k, j, v) : o[1] = Call("for_loop", q[1]) /\ o[2] = q[2]
    <3>1. o \in OnData(Call("for_loop", d), For!Walk(d, k, j, v))
      BY <2>1, BrickCases
    <3> QED BY <3>1, OutcomeOf
  <2>3. For!Describes(d, i, k, v)
    BY <2>1, ToldCases
  <2>4. q[1] = d /\ For!Describes(d, i, j, q[2])
    BY <2>3, ReduceGoesOn
  <2> QED BY <2>1, <2>2, <2>4, ToldCases, NothingWorked
<1> QED BY Zenon, <1>1, <1>2, <1>3, <1>4, <1>5, <1>6, FormedCases

\* __reduction makes the values of two neighbouring parts one that describes both.
LEMMA MergeJoins ==
  ASSUME NEW m, NEW i, NEW k, NEW j, IsPart(m, i, k), IsPart(m, k, j), NEW g \in Calls(m), NEW call \in Formed(m),
         g.alg = call.alg, NEW v, Told(g, call, i, k, v), NEW w, Told(g, call, k, j, w), NEW o \in Merge(call, v, w)
  PROVE  Works(m, call, o[1], i, j) /\ Told(g, o[1], i, j, o[2])
<1>1. CASE \E d \in Part!Holds(m) : call = Call("is_partitioned", d)
  <2>1. PICK d \in Part!Holds(m) : call = Call("is_partitioned", d)
    BY <1>1
  <2>2. PICK q \in Part!Merge(d, v, w) : o[1] = Call("is_partitioned", q[1]) /\ o[2] = q[2]
    <3>1. o \in OnData(Call("is_partitioned", d), Part!Merge(d, v, w))
      BY <2>1, MergeCases
    <3> QED BY <3>1, OutcomeOf
  <2>3. Part!DescribesTest(d, i, k, v) /\ Part!DescribesTest(d, k, j, w)
    BY <2>1, ToldCases
  <2>4. q[1] = d /\ Part!DescribesTest(d, i, j, q[2])
    BY <2>3, TestMerges DEF Part!Holds
  <2> QED BY <2>1, <2>2, <2>4, ToldCases, NothingWorked
<1>2. CASE \E d \in Near!PairCalls(m) : call = Call("adjacent_find", d)
  <2>1. PICK d \in Near!PairCalls(m) : call = Call("adjacent_find", d)
    BY <1>2
  <2>2. PICK q \in Near!Nearer(d, v, w) : o[1] = Call("adjacent_find", q[1]) /\ o[2] = q[2]
    <3>1. o \in OnData(Call("adjacent_find", d), Near!Nearer(d, v, w))
      BY <2>1, MergeCases
    <3> QED BY <3>1, OutcomeOf
  <2>3. ToldPairs(d, i, k, v) /\ ToldPairs(d, k, j, w)
    BY <2>1, ToldCases
  <2>4. q[1] = d /\ ToldPairs(d, i, j, q[2])
    BY <2>3, PairsMerge
  <2> QED BY <2>1, <2>2, <2>4, ToldCases, NothingWorked
<1>3. CASE \E d \in [0..(m - 1) -> Int] : call = Call("minmax_element", d)
  <2>1. PICK d \in [0..(m - 1) -> Int] : call = Call("minmax_element", d)
    BY <1>3
  <2>2. PICK q \in Near!Further(d, v, w) : o[1] = Call("minmax_element", q[1]) /\ o[2] = q[2]
    <3>1. o \in OnData(Call("minmax_element", d), Near!Further(d, v, w))
      BY <2>1, MergeCases
    <3> QED BY <3>1, OutcomeOf
  <2>3. Near!DescribesExtremes(d, i, k, v) /\ Near!DescribesExtremes(d, k, j, w)
    BY <2>1, ToldCases
  <2>4. q[1] = d /\ Near!DescribesExtremes(d, i, j, q[2])
    BY <2>3, ExtremesMerge
  <2> QED BY <2>1, <2>2, <2>4, ToldCases, NothingWorked
<1>4. CASE \E d \in PartRange(m) : call = Call("partition", d)
  <2>1. PICK d \in PartRange(m) : call = Call("partition", d)
    BY <1>4
  <2>2. PICK q \in Part!Merged(d, v, w) : o[1] = Call("partition", q[1]) /\ o[2] = q[2]
    <3>1. o \in OnData(Call("partition", d), Part!Merged(d, v, w))
      BY <2>1, MergeCases
    <3> QED BY <3>1, OutcomeOf
  <2>3. ToldPart(g.data, d, i, k, v) /\ ToldPart(g.data, d, k, j, w) /\ g.data \in Part!Calls(m)
    <3>1. g.alg = "partition"
      BY <2>1, CallParts
    <3> QED BY <2>1, <3>1, ToldCases, GivenPartition
  <2>4. q[1] \in PartRange(m) /\ SameOutside(m, d, q[1], i, j) /\ ToldPart(g.data, q[1], i, j, q[2])
    <3>1. q = Part!Exchange(d, v, w)
      BY <2>2 DEF Part!Merged
    <3> QED BY <2>3, <3>1, Exchanged
  <2> QED BY <2>1, <2>2, <2>4, ToldCases, WorksCases
<1>5. CASE \E d \in MaskRange(m) : call = Call("remove", d)
  <2>1. PICK d \in MaskRange(m) : call = Call("remove", d)
    BY <1>5
  <2>2. PICK q \in Near!Nearer(d, v, w) : o[1] = Call("remove", q[1]) /\ o[2] = q[2]
    <3>1. o \in OnData(Call("remove", d), Near!Nearer(d, v, w))
      BY <2>1, MergeCases
    <3> QED BY <3>1, OutcomeOf
  <2>3. Near!DescribesMask(d, i, k, v) /\ Near!DescribesMask(d, k, j, w)
    BY <2>1, ToldCases
  <2>4. q[1] = d /\ Near!DescribesMask(d, i, j, q[2])
    BY <2>3, MaskMerges
  <2> QED BY <2>1, <2>2, <2>4, ToldCases, NothingWorked
<1>6. CASE \E d \in For!Loops(m) : call = Call("for_loop", d)
  <2>1. PICK d \in For!Loops(m) : call = Call("for_loop", d)
    BY <1>6
  <2>2. PICK q \in For!Combined(d, v, w) : o[1] = Call("for_loop", q[1]) /\ o[2] = q[2]
    <3>1. o \in OnData(Call("for_loop", d), For!Combined(d, v, w))
      BY <2>1, MergeCases
    <3> QED BY <3>1, OutcomeOf
  <2>3. For!Describes(d, i, k, v) /\ For!Describes(d, k, j, w)
    BY <2>1, ToldCases
  <2>4. q[1] = d /\ For!Describes(d, i, j, q[2])
    BY <2>3, LoopMerges
  <2> QED BY <2>1, <2>2, <2>4, ToldCases, NothingWorked
<1> QED BY Zenon, <1>1, <1>2, <1>3, <1>4, <1>5, <1>6, FormedCases

\* What a value says of a part stays true when a functor works on another one.
LEMMA ToldKept ==
  ASSUME NEW m, NEW i, NEW j, IsPart(m, i, j), NEW g, NEW call \in Formed(m), NEW v, Told(g, call, i, j, v),
         NEW a, NEW b, NEW d, Works(m, call, d, a, b), \A k \in i..(j - 1) : k \notin a..(b - 1)
  PROVE  Told(g, d, i, j, v)
<1>1. \A k \in i..(j - 1) : k \in 0..(m - 1)
  BY DEF IsPart
<1>2. d.alg = call.alg
  BY DEF Works
<1>3. CASE call.alg = "partition"
  <2>1. SameOutside(m, call.data, d.data, a, b)
    BY <1>3 DEF Works
  <2>2. d.data.stable = call.data.stable /\ \A k \in i..(j - 1) : d.data.mem[k] = call.data.mem[k]
    BY <1>1, <2>1 DEF SameOutside
  <2>3. ToldPart(g.data, call.data, i, j, v)
    BY <1>3 DEF Told
  <2>4. ToldPart(g.data, d.data, i, j, v)
    BY <2>2, <2>3, PartFrame
  <2> QED BY <1>2, <1>3, <2>4 DEF Told
<1>4. CASE call.alg = "remove"
  <2>1. /\ d.data.keeps = call.data.keeps /\ d.data.last = call.data.last
        /\ call.data.masked \subseteq d.data.masked
    BY <1>4 DEF Works
  <2>2. Near!DescribesMask(call.data, i, j, v)
    BY <1>4 DEF Told
  <2>3. Near!DescribesMask(d.data, i, j, v)
    BY <2>1, <2>2 DEF Near!DescribesMask
  <2> QED BY <1>2, <1>4, <2>3 DEF Told
<1>5. CASE call.alg # "partition" /\ call.alg # "remove"
  BY <1>5 DEF Works
<1> QED BY <1>3, <1>4, <1>5

LEMMA UntouchedKept ==
  ASSUME NEW m, NEW i, NEW j, i \in Nat, j \in Nat, j <= m, m \in Nat, NEW g, NEW call, Untouched(g, call, i, j),
         NEW a, NEW b, NEW d, Works(m, call, d, a, b), \A k \in i..(j - 1) : k \notin a..(b - 1)
  PROVE  Untouched(g, d, i, j)
<1> SUFFICES ASSUME d.alg = "partition", NEW k \in i..(j - 1) PROVE d.data.mem[k] = g.data.mem[k]
  BY DEF Untouched
<1>1. k \in 0..(m - 1)
  OBVIOUS
<1>2. call.alg = "partition"
  BY DEF Works
<1>3. SameOutside(m, call.data, d.data, a, b)
  BY <1>2 DEF Works
<1>4. d.data.mem[k] = call.data.mem[k]
  BY <1>1, <1>3 DEF SameOutside
<1> QED BY <1>2, <1>4 DEF Untouched

\* What a new body begins with does not depend on what the range holds.
LEMMA StartKept ==
  ASSUME NEW m, NEW call \in Formed(m), NEW d \in Formed(m), d.alg = call.alg
  PROVE  Start(m, d) = Start(m, call)
BY FormedCases, StartCases, CallParts DEF Part!Start

\* An empty range: __real_body, if it is called at all, leaves the value as it is.
LEMMA BrickOfNothing ==
  ASSUME NEW call \in Formed(0), call.alg = "partition" \/ call.alg = "for_loop", NEW o \in Brick(call, 0, 0, Start(0, call))
  PROVE  o[1] \in Formed(0) /\ o[1].alg = call.alg /\ o[2] = Start(0, o[1])
<1>1. CASE \E d \in PartRange(0) : call = Call("partition", d)
  <2>1. PICK d \in PartRange(0) : call = Call("partition", d)
    BY <1>1
  <2>2. PICK q \in Part!Done(d, 0, 0, Part!PartitionRange(0, 0, 0)) : o[1] = Call("partition", q[1]) /\ o[2] = q[2]
    <3>1. o \in OnData(Call("partition", d), Part!Done(d, 0, 0, Part!PartitionRange(0, 0, 0)))
      BY <2>1, BrickCases, StartCases
    <3> QED BY <3>1, OutcomeOf
  <2>3. q[1] \in PartRange(0) /\ q[2] = Part!PartitionRange(0, 0, 0)
    BY PartOfNothing
  <2> QED BY <2>1, <2>2, <2>3, CallParts, FormedCall, StartCases
<1>2. CASE \E d \in For!Loops(0) : call = Call("for_loop", d)
  <2>1. PICK d \in For!Loops(0) : call = Call("for_loop", d)
    BY <1>2
  <2>2. PICK q \in For!Walk(d, 0, 0, << >>) : o[1] = Call("for_loop", q[1]) /\ o[2] = q[2]
    <3>1. o \in OnData(Call("for_loop", d), For!Walk(d, 0, 0, << >>))
      BY <2>1, BrickCases, StartCases
    <3> QED BY <3>1, OutcomeOf
  <2>3. q[1] = d /\ q[2] = << >>
    BY <2>2 DEF For!Walk
  <2> QED BY <2>1, <2>2, <2>3, CallParts, FormedCall, StartCases
<1> QED BY <1>1, <1>2, FormedCases, CallParts

\* What the answer it of a call must be, where g is the call at first.
Right(m, g, call, it) ==
  /\ call.alg = "is_partitioned" => it = Part!CorrectTest(call.data, m)
  /\ call.alg = "adjacent_find"  => Near!CorrectPair(call.data, it)
  /\ call.alg = "minmax_element" => Near!CorrectExtremes(call.data, m, it)
  /\ call.alg = "partition"      => Part!Correct(g.data, call.data, m, it)
  /\ call.alg = "remove"         => Near!CorrectMask(call.data, it)
  /\ call.alg = "for_loop"       => For!Correct(call.data, it)

LEMMA RightCases ==
  ASSUME NEW m, NEW g, NEW d, NEW it
  PROVE  /\ Right(m, g, Call("is_partitioned", d), it) <=> it = Part!CorrectTest(d, m)
         /\ Right(m, g, Call("adjacent_find", d), it) <=> Near!CorrectPair(d, it)
         /\ Right(m, g, Call("minmax_element", d), it) <=> Near!CorrectExtremes(d, m, it)
         /\ Right(m, g, Call("partition", d), it) <=> Part!Correct(g.data, d, m, it)
         /\ Right(m, g, Call("remove", d), it) <=> Near!CorrectMask(d, it)
         /\ Right(m, g, Call("for_loop", d), it) <=> For!Correct(d, it)
BY CallParts DEF Right

LEMMA ReturnedCases ==
  ASSUME NEW d, NEW v
  PROVE  /\ Returned(Call("is_partitioned", d), v) = Part!Returned(d, v)
         /\ Returned(Call("adjacent_find", d), v) = Near!Returned(d, v)
         /\ Returned(Call("minmax_element", d), v) = Near!Returned(d, v)
         /\ Returned(Call("partition", d), v) = Part!Pivot(d, v)
         /\ Returned(Call("remove", d), v) = Near!Returned(d, v)
         /\ Returned(Call("for_loop", d), v) = For!Returned(d, v)
BY CallParts DEF Returned

\* A value that describes the whole range is the right answer.
LEMMA AnswerOfAll ==
  ASSUME NEW m, IsPart(m, 0, m), NEW g, NEW call \in Formed(m), NEW v, Told(g, call, 0, m, v)
  PROVE  Right(m, g, call, Returned(call, v))
<1>1. CASE \E d \in Part!Holds(m) : call = Call("is_partitioned", d)
  <2>1. PICK d \in Part!Holds(m) : call = Call("is_partitioned", d)
    BY <1>1
  <2>2. Part!Returned(d, v) = Part!CorrectTest(d, m)
    BY <2>1, ToldCases, TestAnswers DEF Part!Holds
  <2> QED BY <2>1, <2>2, RightCases, ReturnedCases
<1>2. CASE \E d \in Near!PairCalls(m) : call = Call("adjacent_find", d)
  <2>1. PICK d \in Near!PairCalls(m) : call = Call("adjacent_find", d)
    BY <1>2
  <2>2. Near!CorrectPair(d, Near!Returned(d, v))
    BY <2>1, ToldCases, PairsAnswer
  <2> QED BY <2>1, <2>2, RightCases, ReturnedCases
<1>3. CASE \E d \in [0..(m - 1) -> Int] : call = Call("minmax_element", d)
  <2>1. PICK d \in [0..(m - 1) -> Int] : call = Call("minmax_element", d)
    BY <1>3
  <2>2. Near!CorrectExtremes(d, m, Near!Returned(d, v))
    BY <2>1, ToldCases DEF Near!DescribesExtremes, Near!CorrectExtremes, Near!Returned
  <2> QED BY <2>1, <2>2, RightCases, ReturnedCases
<1>4. CASE \E d \in PartRange(m) : call = Call("partition", d)
  <2>1. PICK d \in PartRange(m) : call = Call("partition", d)
    BY <1>4
  <2>2. PICK p \in 0..m : /\ v = Part!PartitionRange(0, p, m)
                          /\ Part!IsPartitionedAt(d, 0, p, m)
                          /\ Part!Elements(d, 0, m) = Part!Elements(g.data, 0, m)
    BY <2>1, ToldCases DEF ToldPart
  <2>3. Part!Pivot(d, v) = p
    BY <2>2 DEF Part!Pivot, Part!PartitionRange
  <2>4. Part!Correct(g.data, d, m, Part!Pivot(d, v))
    BY <2>2, <2>3 DEF Part!Correct
  <2> QED BY <2>1, <2>4, RightCases, ReturnedCases
<1>5. CASE \E d \in MaskRange(m) : call = Call("remove", d)
  <2>1. PICK d \in MaskRange(m) : call = Call("remove", d)
    BY <1>5
  <2>2. Near!CorrectMask(d, Near!Returned(d, v))
    BY <2>1, ToldCases, MaskAnswer
  <2> QED BY <2>1, <2>2, RightCases, ReturnedCases
<1>6. CASE \E d \in For!Loops(m) : call = Call("for_loop", d)
  <2>1. PICK d \in For!Loops(m) : call = Call("for_loop", d)
    BY <1>6
  <2>2. For!Correct(d, For!Returned(d, v))
    BY <2>1, ToldCases, LoopAnswers DEF IsPart
  <2> QED BY <2>1, <2>2, RightCases, ReturnedCases
<1> QED BY Zenon, <1>1, <1>2, <1>3, <1>4, <1>5, <1>6, FormedCases

LEMMA AnswerOfNothing ==
  ASSUME NEW g, NEW call \in Formed(0), call.alg = "partition" \/ call.alg = "for_loop"
  PROVE  Right(0, g, call, Returned(call, Start(0, call)))
<1>1. CASE \E d \in PartRange(0) : call = Call("partition", d)
  <2>1. PICK d \in PartRange(0) : call = Call("partition", d)
    BY <1>1
  <2>2. Part!Correct(g.data, d, 0, Part!Pivot(d, Part!PartitionRange(0, 0, 0)))
    BY DEF Part!Correct, Part!IsPartitionedAt, Part!Elements
  <2> QED BY <2>1, <2>2, RightCases, ReturnedCases, StartCases
<1>2. CASE \E d \in For!Loops(0) : call = Call("for_loop", d)
  <2>1. PICK d \in For!Loops(0) : call = Call("for_loop", d)
    BY <1>2
  <2>2. For!Describes(d, 0, 0, << >>)
    BY DEF For!Describes
  <2>3. For!Correct(d, For!Returned(d, << >>))
    BY <2>2, LoopAnswers
  <2> QED BY <2>1, <2>3, RightCases, ReturnedCases, StartCases
<1> QED BY <1>1, <1>2, FormedCases, CallParts

LEMMA ShortCases ==
  ASSUME NEW m, NEW call
  PROVE  /\ call.alg = "is_partitioned" => IsShort(m, call) = Part!IsShort(m, call.data)
         /\ call.alg = "adjacent_find"  => IsShort(m, call) = Near!IsShort(m, call.data)
         /\ call.alg = "minmax_element" => IsShort(m, call) = Near!IsShort(m, call.data)
         /\ call.alg = "partition"      => IsShort(m, call) = Part!NeverShort(m, call.data)
         /\ call.alg = "remove"         => IsShort(m, call) = Near!NeverShort(m, call.data)
         /\ call.alg = "for_loop"       => IsShort(m, call) = For!InOneGo(m, call.data)
BY DEF IsShort

LEMMA TrivialCases ==
  ASSUME NEW m, NEW call
  PROVE  /\ call.alg = "is_partitioned" => TrivialAnswer(m, call) = Part!TrivialAnswer(m, call.data)
         /\ call.alg = "adjacent_find"  => TrivialAnswer(m, call) = Near!Last(m, call.data)
         /\ call.alg = "minmax_element" => TrivialAnswer(m, call) = Near!FirstTwice(m, call.data)
         /\ call.alg = "for_loop"       => TrivialAnswer(m, call) = For!AnswerInOneGo(m, call.data)
BY DEF TrivialAnswer

\* What is returned without a reduction.
LEMMA AnswerAtOnce ==
  ASSUME NEW m \in Nat, NEW g, NEW call \in Formed(m), IsShort(m, call)
  PROVE  Right(m, g, call, TrivialAnswer(m, call))
<1>1. CASE \E d \in Part!Holds(m) : call = Call("is_partitioned", d)
  <2>1. PICK d \in Part!Holds(m) : call = Call("is_partitioned", d)
    BY <1>1
  <2>2. m = 0
    <3>1. Part!IsShort(m, d)
      BY <2>1, CallParts, ShortCases
    <3> QED BY <3>1 DEF Part!IsShort
  <2>3. Part!CorrectTest(d, m) = TRUE
    BY <2>2 DEF Part!CorrectTest
  <2>4. TrivialAnswer(m, call) = TRUE
    BY <2>1, CallParts, TrivialCases DEF Part!TrivialAnswer
  <2> QED BY <2>1, <2>3, <2>4, RightCases
<1>2. CASE \E d \in Near!PairCalls(m) : call = Call("adjacent_find", d)
  <2>1. PICK d \in Near!PairCalls(m) : call = Call("adjacent_find", d)
    BY <1>2
  <2>2. m < 2
    BY <2>1, CallParts, ShortCases DEF Near!IsShort
  <2>3. d.pairs = {} /\ d.last = m
    BY <2>2 DEF Near!PairCalls
  <2>4. TrivialAnswer(m, call) = m
    BY <2>1, CallParts, TrivialCases DEF Near!Last
  <2> QED BY <2>1, <2>3, <2>4, RightCases DEF Near!CorrectPair
<1>3. CASE \E d \in [0..(m - 1) -> Int] : call = Call("minmax_element", d)
  <2>1. PICK d \in [0..(m - 1) -> Int] : call = Call("minmax_element", d)
    BY <1>3
  <2>2. m < 2
    BY <2>1, CallParts, ShortCases DEF Near!IsShort
  <2>3. TrivialAnswer(m, call) = <<0, 0>>
    BY <2>1, CallParts, TrivialCases DEF Near!FirstTwice
  <2>4. m > 0 => <<0, 0>> = <<Near!FirstMin(d, 0, m), Near!LastMax(d, 0, m)>>
    <3> SUFFICES ASSUME m > 0 PROVE Near!FirstMin(d, 0, m) = 0 /\ Near!LastMax(d, 0, m) = 0
      OBVIOUS
    <3>1. IsPart(m, 0, m)
      BY DEF IsPart
    <3>2. IsBest(LeastFirst(d), 0, m, Near!FirstMin(d, 0, m)) /\ IsBest(GreatestLast(d), 0, m, Near!LastMax(d, 0, m))
      BY <3>1, ExtremesAreBest
    <3>3. Near!FirstMin(d, 0, m) \in 0..(m - 1) /\ Near!LastMax(d, 0, m) \in 0..(m - 1)
      BY <3>2 DEF IsBest
    <3> QED BY <2>2, <3>3
  <2> QED BY <2>1, <2>3, <2>4, RightCases DEF Near!CorrectExtremes
<1>4. CASE \E d \in PartRange(m) : call = Call("partition", d)
  <2>1. ~IsShort(m, call)
    BY <1>4, CallParts, ShortCases DEF Part!NeverShort
  <2> QED BY <2>1
<1>5. CASE \E d \in MaskRange(m) : call = Call("remove", d)
  <2>1. ~IsShort(m, call)
    BY <1>5, CallParts, ShortCases DEF Near!NeverShort
  <2> QED BY <2>1
<1>6. CASE \E d \in For!Loops(m) : call = Call("for_loop", d)
  <2>1. PICK d \in For!Loops(m) : call = Call("for_loop", d)
    BY <1>6
  <2>2. d.version = "computed" \/ d.version = "iterated"
    <3>1. d.version # "parallel"
      BY <2>1, CallParts, ShortCases DEF For!InOneGo
    <3> QED BY <3>1 DEF For!Loops
  <2>3. For!Positions(d) = m
    BY IterationsCounted
  <2>4. PICK v : For!Describes(d, 0, m, v) /\ TrivialAnswer(m, call) = For!Finalized(d, v, For!Positions(d))
    <3>1. CASE d.version = "computed"
      <4>1. TrivialAnswer(m, call) = For!Finalized(d, For!Computed(d), For!Positions(d))
        BY <2>1, <3>1, CallParts, TrivialCases DEF For!AnswerInOneGo
      <4>2. m - 0 = m /\ \A q \in 1..m : 0 + q - 1 = q - 1
        OBVIOUS
      <4>3. For!Describes(d, 0, m, For!Computed(d))
        BY <2>3, <4>2 DEF For!Describes, For!Computed
      <4> QED BY <4>1, <4>3
    <3>2. CASE d.version = "iterated"
      <4>1. TrivialAnswer(m, call) = For!Finalized(d, For!Iterated(d), Len(For!Iterated(d)))
        BY <2>1, <3>2, CallParts, TrivialCases DEF For!AnswerInOneGo
      <4> QED BY <2>3, <4>1, IteratedIsComputed
    <3> QED BY <2>2, <3>1, <3>2
  <2>6. For!Correct(d, TrivialAnswer(m, call))
    BY <2>4, LoopAnswers
  <2> QED BY <2>1, <2>6, RightCases
<1> QED BY Zenon, <1>1, <1>2, <1>3, <1>4, <1>5, <1>6, FormedCases
-------------------------------------------------------------------------------
(* The schedule. The pieces and the parts of the bodies lie side by side, and the    *)
(* value of every part describes it.                                                 *)

HeldInv == reduceN \in Nat /\ given \in Calls(reduceN) /\ reduced \in Formed(reduceN) /\ reduced.alg = given.alg

PiecesInv ==
  \A p \in pieces : /\ p[1] \in Nat /\ p[2] \in Nat /\ p[1] <= p[2] /\ p[2] <= reduceN /\ (reduceN # 0 => p[1] < p[2])
                    /\ Untouched(given, reduced, p[1], p[2])

BodiesInv ==
  \A b \in bodies : /\ b.lo \in Nat /\ b.hi \in Nat /\ b.lo <= b.hi /\ b.hi <= reduceN
                    /\ b.lo = b.hi => b.val = Start(reduceN, reduced)
                    /\ b.lo < b.hi => Told(given, reduced, b.lo, b.hi, b.val)

ApartInv ==
  /\ \A b \in bodies, e \in bodies : b # e => b.lo # e.lo /\ (b.hi <= e.lo \/ e.hi <= b.lo)
  /\ \A b \in bodies, p \in pieces : b.hi <= p[1] \/ p[2] <= b.lo
  /\ \A p \in pieces, q \in pieces : p # q => p[2] <= q[1] \/ q[2] <= p[1]

Covered(k) ==
  \/ \E p \in pieces : p[1] <= k /\ k < p[2]
  \/ \E b \in bodies : b.lo <= k /\ k < b.hi

PhaseInv ==
  /\ reducePc \in {"begin", "reduce", "done"}
  /\ reducePc = "begin" => pieces = {} /\ bodies = {} /\ reduced = given
  /\ reducePc = "reduce" => /\ \A k \in 0..(reduceN - 1) : Covered(k)
                            /\ reduceN = 0 => reduced.alg = "partition" \/ reduced.alg = "for_loop"
  /\ reducePc = "done" => /\ pieces = {} /\ (\A b \in bodies, e \in bodies : b = e)
                          /\ \E it \in reduceAnswer : Right(reduceN, given, reduced, it)

ReduceInv == HeldInv /\ PiecesInv /\ BodiesInv /\ ApartInv /\ PhaseInv

LEMMA CallsAreFormed ==
  ASSUME NEW m \in Nat, ReduceKeys \subseteq Int, NEW g \in Calls(m)
  PROVE  g \in Formed(m)
<1>1. Part!Calls(m) \subseteq PartRange(m)
  <2> SUFFICES ASSUME NEW d \in Part!Calls(m) PROVE d \in PartRange(m)
    OBVIOUS
  <2>1. PICK s \in BOOLEAN, yes \in SUBSET (0..(m - 1)) :
          d = [stable |-> s, mem |-> [k \in 0..(m - 1) |-> IF k \in yes THEN k + 1 ELSE -(k + 1)]]
    BY DEF Part!Calls
  <2>2. \A k \in 0..(m - 1) : (IF k \in yes THEN k + 1 ELSE -(k + 1)) \in Int
    OBVIOUS
  <2> QED BY <2>1, <2>2 DEF PartRange
<1>2. Near!RemoveCalls(m) \subseteq MaskRange(m)
  BY DEF Near!RemoveCalls, MaskRange
<1>3. Near!KeyRanges(m, ReduceKeys) \subseteq [0..(m - 1) -> Int]
  BY DEF Near!KeyRanges
<1> QED BY <1>1, <1>2, <1>3, FormedCall DEF Calls

LEMMA ReduceInit ==
  ASSUME MaxReduce \in Nat, ReduceKeys \subseteq Int, Reduce!Init
  PROVE  ReduceInv
<1>1. HeldInv
  BY CallsAreFormed DEF Reduce!Init, HeldInv
<1>2. PiecesInv /\ BodiesInv /\ ApartInv /\ PhaseInv
  BY DEF Reduce!Init, PiecesInv, BodiesInv, ApartInv, PhaseInv
<1> QED BY <1>1, <1>2 DEF ReduceInv

\* Pieces and bodies are only there while the reduction goes on, but for the last body.
LEMMA NoPieceLater ==
  ASSUME ReduceInv, NEW p \in pieces
  PROVE  reducePc = "reduce"
BY DEF ReduceInv, PhaseInv

LEMMA PrecheckKeeps ==
  ASSUME ReduceInv, Reduce!Precheck
  PROVE  ReduceInv'
<1>1. /\ reducePc = "begin" /\ IsShort(reduceN, reduced) /\ reducePc' = "done" /\ reduceAnswer' = {TrivialAnswer(reduceN, reduced)}
      /\ reduceN' = reduceN /\ given' = given /\ reduced' = reduced /\ pieces' = pieces /\ bodies' = bodies
  BY DEF Reduce!Precheck, Reduce!args
<1>2. pieces = {} /\ bodies = {}
  BY <1>1 DEF ReduceInv, PhaseInv
<1>3. HeldInv'
  BY <1>1 DEF ReduceInv, HeldInv
<1>4. Right(reduceN, given, reduced, TrivialAnswer(reduceN, reduced))
  BY <1>1, AnswerAtOnce DEF ReduceInv, HeldInv
<1>5. PhaseInv'
  BY <1>1, <1>2, <1>4 DEF PhaseInv
<1>6. PiecesInv' /\ BodiesInv' /\ ApartInv'
  BY <1>1, <1>2 DEF PiecesInv, BodiesInv, ApartInv
<1> QED BY <1>3, <1>5, <1>6 DEF ReduceInv

LEMMA OnEmptyRange ==
  ASSUME NEW g \in Calls(0), ~IsShort(0, g)
  PROVE  g.alg = "partition" \/ g.alg = "for_loop"
<1>1. Near!RemoveCalls(0) = {}
  BY DEF Near!RemoveCalls
<1>2. \A d \in Part!Holds(0) : IsShort(0, Call("is_partitioned", d))
  <2> SUFFICES ASSUME NEW d \in Part!Holds(0) PROVE IsShort(0, Call("is_partitioned", d))
    OBVIOUS
  <2>1. Part!IsShort(0, d)
    BY DEF Part!IsShort
  <2> QED BY <2>1, CallParts, ShortCases
<1>3. ASSUME NEW d PROVE IsShort(0, Call("adjacent_find", d)) /\ IsShort(0, Call("minmax_element", d))
  <2>1. Near!IsShort(0, d)
    BY DEF Near!IsShort
  <2> QED BY <2>1, CallParts, ShortCases
<1> QED BY <1>1, <1>2, <1>3, CallParts DEF Calls

LEMMA BeginKeeps ==
  ASSUME ReduceInv, Reduce!Begin
  PROVE  ReduceInv'
<1>1. /\ reducePc = "begin" /\ ~IsShort(reduceN, reduced) /\ reducePc' = "reduce"
      /\ pieces' \in {{<<0, reduceN>>}} \cup (IF reduceN = 0 THEN {{}} ELSE {})
      /\ bodies' = {Reduce!Body(0, 0, Start(reduceN, reduced))}
      /\ reduceN' = reduceN /\ given' = given /\ reduced' = reduced
  BY DEF Reduce!Begin, Reduce!args
<1>2. reduced = given /\ reduceN \in Nat
  BY <1>1 DEF ReduceInv, PhaseInv, HeldInv
<1>3. HeldInv'
  BY <1>1 DEF ReduceInv, HeldInv
<1>4. \A p \in pieces' : p = <<0, reduceN>>
  BY <1>1
<1>5. Untouched(given, reduced, 0, reduceN)
  BY <1>2 DEF Untouched
<1>6. PiecesInv'
  BY <1>1, <1>2, <1>4, <1>5 DEF PiecesInv
<1>7. \A b \in bodies' : b.lo = 0 /\ b.hi = 0 /\ b.val = Start(reduceN, reduced)
  BY <1>1 DEF Reduce!Body
<1>8. BodiesInv'
  BY <1>1, <1>2, <1>7 DEF BodiesInv
<1>9. ApartInv'
  BY <1>1, <1>2, <1>4, <1>7 DEF ApartInv
<1>10. reduceN = 0 => reduced.alg = "partition" \/ reduced.alg = "for_loop"
  BY <1>1, <1>2, OnEmptyRange DEF ReduceInv, HeldInv
<1>11. \A k \in 0..(reduceN - 1) : Covered(k)'
  <2>1. reduceN # 0 => <<0, reduceN>> \in pieces'
    BY <1>1
  <2> QED BY <1>2, <2>1 DEF Covered
<1>12. PhaseInv'
  BY <1>1, <1>10, <1>11 DEF PhaseInv
<1> QED BY <1>3, <1>6, <1>8, <1>9, <1>12 DEF ReduceInv

LEMMA HalveKeeps ==
  ASSUME Grain \in Nat \ {0}, ReduceInv, NEW p \in pieces, Reduce!Halve(p)
  PROVE  ReduceInv'
<1> DEFINE mid == p[1] + (p[2] - p[1]) \div 2
<1>1. /\ p[2] - p[1] > Grain /\ pieces' = (pieces \ {p}) \cup {<<p[1], mid>>, <<mid, p[2]>>}
      /\ reduceN' = reduceN /\ given' = given /\ reduced' = reduced /\ bodies' = bodies /\ reducePc' = reducePc /\ reduceAnswer' = reduceAnswer
  BY DEF Reduce!Halve, Reduce!args
<1>2. /\ reduceN \in Nat /\ p[1] \in Nat /\ p[2] \in Nat /\ p[2] <= reduceN /\ Untouched(given, reduced, p[1], p[2])
  BY DEF ReduceInv, HeldInv, PiecesInv
<1>3. mid \in Nat /\ p[1] < mid /\ mid < p[2]
  <2>1. p[2] - p[1] > 1 /\ p[2] - p[1] \in Nat
    BY <1>1, <1>2
  <2>2. (p[2] - p[1]) \div 2 \in 1..(p[2] - p[1] - 1)
    BY <2>1
  <2> QED BY <1>2, <2>2
<1> HIDE DEF mid
<1>4. HeldInv'
  BY <1>1 DEF ReduceInv, HeldInv
<1>5. Untouched(given, reduced, p[1], mid) /\ Untouched(given, reduced, mid, p[2])
  BY <1>2, <1>3 DEF Untouched
<1>6. PiecesInv'
  <2> SUFFICES ASSUME NEW q \in pieces'
               PROVE  /\ q[1] \in Nat /\ q[2] \in Nat /\ q[1] <= q[2] /\ q[2] <= reduceN /\ (reduceN # 0 => q[1] < q[2])
                      /\ Untouched(given, reduced, q[1], q[2])
    BY <1>1 DEF PiecesInv
  <2>1. CASE q \in pieces
    BY <2>1 DEF ReduceInv, PiecesInv
  <2>2. CASE q = <<p[1], mid>> \/ q = <<mid, p[2]>>
    BY <1>2, <1>3, <1>5, <2>2
  <2> QED BY <1>1, <2>1, <2>2
<1>7. BodiesInv'
  BY <1>1 DEF ReduceInv, BodiesInv
<1>8. \A q \in pieces' : \/ q \in pieces /\ q # p
                         \/ q[1] = p[1] /\ q[2] = mid /\ q = <<p[1], mid>>
                         \/ q[1] = mid /\ q[2] = p[2] /\ q = <<mid, p[2]>>
  BY <1>1
<1>9. \A b \in bodies : b.lo \in Nat /\ b.hi \in Nat
  BY DEF ReduceInv, BodiesInv
<1>10. \A q \in pieces : q[1] \in Nat /\ q[2] \in Nat
  BY DEF ReduceInv, PiecesInv
<1>11. ApartInv'
  <2>1. \A b \in bodies, e \in bodies : b # e => b.lo # e.lo /\ (b.hi <= e.lo \/ e.hi <= b.lo)
    BY DEF ReduceInv, ApartInv
  <2>2. \A b \in bodies, q \in pieces' : b.hi <= q[1] \/ q[2] <= b.lo
    <3>1. \A b \in bodies, q \in pieces : b.hi <= q[1] \/ q[2] <= b.lo
      BY DEF ReduceInv, ApartInv
    <3> QED BY <1>2, <1>3, <1>8, <1>9, <3>1
  <2>3. \A q \in pieces', t \in pieces' : q # t => q[2] <= t[1] \/ t[2] <= q[1]
    <3>1. \A q \in pieces, t \in pieces : q # t => q[2] <= t[1] \/ t[2] <= q[1]
      BY DEF ReduceInv, ApartInv
    <3> SUFFICES ASSUME NEW q \in pieces', NEW t \in pieces', q # t PROVE q[2] <= t[1] \/ t[2] <= q[1]
      OBVIOUS
    <3>2. CASE q \in pieces /\ q # p /\ t \in pieces /\ t # p
      BY <3>1, <3>2
    <3>3. CASE q \in pieces /\ q # p /\ ~(t \in pieces /\ t # p)
      BY <1>2, <1>3, <1>8, <1>10, <3>1, <3>3
    <3>4. CASE ~(q \in pieces /\ q # p) /\ t \in pieces /\ t # p
      BY <1>2, <1>3, <1>8, <1>10, <3>1, <3>4
    <3>5. CASE ~(q \in pieces /\ q # p) /\ ~(t \in pieces /\ t # p)
      BY <1>2, <1>3, <1>8, <3>5
    <3> QED BY <3>2, <3>3, <3>4, <3>5
  <2> QED BY <1>1, <2>1, <2>2, <2>3 DEF ApartInv
<1>12. reducePc = "reduce"
  BY NoPieceLater
<1>13. ASSUME NEW k \in 0..(reduceN - 1) PROVE Covered(k)'
  <2>1. Covered(k)
    BY <1>12, <1>13 DEF ReduceInv, PhaseInv
  <2>2. CASE \E b \in bodies : b.lo <= k /\ k < b.hi
    BY <1>1, <2>2 DEF Covered
  <2>3. CASE \E q \in pieces : q[1] <= k /\ k < q[2]
    <3>1. PICK q \in pieces : q[1] <= k /\ k < q[2]
      BY <2>3
    <3>2. CASE q # p
      BY <1>1, <3>1, <3>2 DEF Covered
    <3>3. CASE q = p
      <4>1. <<p[1], mid>> \in pieces' /\ <<mid, p[2]>> \in pieces'
        BY <1>1
      <4>2. k < mid \/ mid <= k
        BY <1>2, <1>3
      <4> QED BY <3>1, <3>3, <4>1, <4>2 DEF Covered
    <3> QED BY <3>2, <3>3
  <2> QED BY <2>1, <2>2, <2>3 DEF Covered
<1>14. PhaseInv'
  BY <1>1, <1>12, <1>13 DEF ReduceInv, PhaseInv
<1> QED BY <1>4, <1>6, <1>7, <1>11, <1>14 DEF ReduceInv

LEMMA NewBodyKeeps ==
  ASSUME ReduceInv, NEW p \in pieces, Reduce!NewBody(p)
  PROVE  ReduceInv'
<1> DEFINE new == Reduce!Body(p[1], p[1], Start(reduceN, reduced))
<1>1. /\ \A b \in bodies : b.lo # p[1]
      /\ bodies' = bodies \cup {new}
      /\ reduceN' = reduceN /\ given' = given /\ reduced' = reduced /\ pieces' = pieces /\ reducePc' = reducePc /\ reduceAnswer' = reduceAnswer
  BY DEF Reduce!NewBody, Reduce!args
<1>2. new.lo = p[1] /\ new.hi = p[1] /\ new.val = Start(reduceN, reduced)
  BY DEF Reduce!Body
<1> HIDE DEF new
<1>3. reduceN \in Nat /\ p[1] \in Nat /\ p[2] \in Nat /\ p[1] <= p[2] /\ p[2] <= reduceN
  BY DEF ReduceInv, HeldInv, PiecesInv
<1>4. HeldInv' /\ PiecesInv'
  BY <1>1 DEF ReduceInv, HeldInv, PiecesInv
<1>5. BodiesInv'
  <2> SUFFICES ASSUME NEW b \in bodies'
               PROVE  /\ b.lo \in Nat /\ b.hi \in Nat /\ b.lo <= b.hi /\ b.hi <= reduceN
                      /\ b.lo = b.hi => b.val = Start(reduceN, reduced)
                      /\ b.lo < b.hi => Told(given, reduced, b.lo, b.hi, b.val)
    BY <1>1 DEF BodiesInv
  <2>1. CASE b \in bodies
    BY <2>1 DEF ReduceInv, BodiesInv
  <2>2. CASE b = new
    BY <1>2, <1>3, <2>2
  <2> QED BY <1>1, <2>1, <2>2
<1>6. ApartInv'
  <2>1. \A b \in bodies, e \in bodies : b # e => b.lo # e.lo /\ (b.hi <= e.lo \/ e.hi <= b.lo)
    BY DEF ReduceInv, ApartInv
  <2>2. \A b \in bodies, q \in pieces : b.hi <= q[1] \/ q[2] <= b.lo
    BY DEF ReduceInv, ApartInv
  <2>3. \A q \in pieces, t \in pieces : q # t => q[2] <= t[1] \/ t[2] <= q[1]
    BY DEF ReduceInv, ApartInv
  <2>4. \A b \in bodies : b.lo \in Nat /\ b.hi \in Nat
    BY DEF ReduceInv, BodiesInv
  <2>5. \A q \in pieces : q[1] \in Nat /\ q[2] \in Nat /\ q[1] <= q[2]
    BY DEF ReduceInv, PiecesInv
  <2>6. \A b \in bodies : b.hi <= new.lo \/ new.hi <= b.lo
    BY <1>2, <1>3, <2>2, <2>4
  <2>7. \A q \in pieces : new.hi <= q[1] \/ q[2] <= new.lo
    BY <1>2, <1>3, <2>3, <2>5
  <2> QED BY <1>1, <1>2, <2>1, <2>2, <2>3, <2>6, <2>7 DEF ApartInv
<1>7. reducePc = "reduce"
  BY NoPieceLater
<1>8. \A k \in 0..(reduceN - 1) : Covered(k) => Covered(k)'
  BY <1>1 DEF Covered
<1>9. PhaseInv'
  BY <1>1, <1>7, <1>8 DEF ReduceInv, PhaseInv
<1> QED BY <1>4, <1>5, <1>6, <1>9 DEF ReduceInv

\* What is not in the part [lo, hi) a functor works on stays as it is.
LEMMA OthersKept ==
  ASSUME ReduceInv, NEW lo, NEW hi, Works(reduceN, reduced, reduced', lo, hi), lo \in Nat, hi \in Nat
  PROVE  /\ \A e \in bodies : e.lo < e.hi /\ (e.hi <= lo \/ hi <= e.lo) => Told(given, reduced', e.lo, e.hi, e.val)
         /\ \A e \in bodies : e.lo = e.hi => e.val = Start(reduceN, reduced')
         /\ \A q \in pieces : (q[2] <= lo \/ hi <= q[1]) => Untouched(given, reduced', q[1], q[2])
<1>1. reduceN \in Nat /\ reduced \in Formed(reduceN) /\ reduced' \in Formed(reduceN) /\ reduced'.alg = reduced.alg
  BY DEF ReduceInv, HeldInv, Works
<1>2. ASSUME NEW e \in bodies, e.lo < e.hi, e.hi <= lo \/ hi <= e.lo PROVE Told(given, reduced', e.lo, e.hi, e.val)
  <2>1. e.lo \in Nat /\ e.hi \in Nat /\ e.hi <= reduceN /\ Told(given, reduced, e.lo, e.hi, e.val)
    BY <1>2 DEF ReduceInv, BodiesInv
  <2>2. IsPart(reduceN, e.lo, e.hi)
    BY <1>1, <1>2, <2>1 DEF IsPart
  <2>3. \A k \in (e.lo)..(e.hi - 1) : k \notin lo..(hi - 1)
    BY <1>2, <2>1
  <2> QED BY <1>1, <2>1, <2>2, <2>3, ToldKept
<1>3. ASSUME NEW e \in bodies, e.lo = e.hi PROVE e.val = Start(reduceN, reduced')
  <2>1. e.val = Start(reduceN, reduced)
    BY <1>3 DEF ReduceInv, BodiesInv
  <2> QED BY <1>1, <2>1, StartKept
<1>4. ASSUME NEW q \in pieces, q[2] <= lo \/ hi <= q[1] PROVE Untouched(given, reduced', q[1], q[2])
  <2>1. q[1] \in Nat /\ q[2] \in Nat /\ q[2] <= reduceN /\ Untouched(given, reduced, q[1], q[2])
    BY DEF ReduceInv, PiecesInv
  <2>2. \A k \in (q[1])..(q[2] - 1) : k \notin lo..(hi - 1)
    BY <1>4, <2>1
  <2> QED BY <1>1, <2>1, <2>2, UntouchedKept
<1> QED BY <1>2, <1>3, <1>4

\* What a body does to the piece it takes.
LEMMA ProcessWorks ==
  ASSUME ReduceInv, NEW b \in bodies, NEW p \in pieces, b.hi = p[1], NEW r \in Brick(reduced, p[1], p[2], b.val), reduced' = r[1]
  PROVE  IF reduceN = 0 THEN reduced' \in Formed(reduceN) /\ reduced'.alg = reduced.alg /\ r[2] = Start(reduceN, reduced')
                        ELSE /\ b.lo < p[2] /\ Works(reduceN, reduced, reduced', b.lo, p[2])
                             /\ Told(given, reduced', b.lo, p[2], r[2])
<1>1. /\ reduceN \in Nat /\ given \in Calls(reduceN) /\ reduced \in Formed(reduceN) /\ given.alg = reduced.alg
      /\ p[1] \in Nat /\ p[2] \in Nat /\ p[1] <= p[2] /\ p[2] <= reduceN /\ (reduceN # 0 => p[1] < p[2])
      /\ Untouched(given, reduced, p[1], p[2])
      /\ b.lo \in Nat /\ b.lo <= p[1]
      /\ b.lo = p[1] => b.val = Start(reduceN, reduced)
      /\ b.lo < p[1] => Told(given, reduced, b.lo, p[1], b.val)
  BY DEF ReduceInv, HeldInv, PiecesInv, BodiesInv
<1>2. CASE reduceN = 0
  <2>1. p[1] = 0 /\ p[2] = 0 /\ b.lo = 0
    BY <1>1, <1>2
  <2>2. reduced.alg = "partition" \/ reduced.alg = "for_loop"
    BY <1>2, NoPieceLater DEF ReduceInv, PhaseInv
  <2>3. r \in Brick(reduced, 0, 0, Start(0, reduced)) /\ reduced \in Formed(0)
    BY <1>1, <1>2, <2>1
  <2> QED BY <1>2, <2>2, <2>3, BrickOfNothing
<1>3. CASE reduceN # 0 /\ b.lo = p[1]
  <2>1. IsPart(reduceN, p[1], p[2])
    BY <1>1, <1>3 DEF IsPart
  <2> QED BY <1>1, <1>3, <2>1, BrickBegins
<1>4. CASE reduceN # 0 /\ b.lo < p[1]
  <2>1. IsPart(reduceN, b.lo, p[1]) /\ IsPart(reduceN, p[1], p[2])
    BY <1>1, <1>4 DEF IsPart
  <2> QED BY <1>1, <1>4, <2>1, BrickGoesOn
<1> QED BY <1>1, <1>2, <1>3, <1>4

LEMMA ProcessKeeps ==
  ASSUME ReduceInv, NEW b \in bodies, NEW p \in pieces, Reduce!Process(b, p)
  PROVE  ReduceInv'
<1>1. PICK r \in Brick(reduced, p[1], p[2], b.val) :
        reduced' = r[1] /\ bodies' = (bodies \ {b}) \cup {Reduce!Body(b.lo, p[2], r[2])}
  BY DEF Reduce!Process
<1>2. /\ b.hi = p[1] /\ \A e \in bodies : e # b => e.lo # p[1]
      /\ pieces' = pieces \ {p} /\ reduceN' = reduceN /\ given' = given /\ reducePc' = reducePc /\ reduceAnswer' = reduceAnswer
  BY DEF Reduce!Process, Reduce!args
<1> DEFINE new == Reduce!Body(b.lo, p[2], r[2])
<1>3. new.lo = b.lo /\ new.hi = p[2] /\ new.val = r[2] /\ bodies' = (bodies \ {b}) \cup {new}
  BY <1>1 DEF Reduce!Body
<1> HIDE DEF new
<1>4. /\ reduceN \in Nat /\ reduced.alg = given.alg
      /\ p[1] \in Nat /\ p[2] \in Nat /\ p[1] <= p[2] /\ p[2] <= reduceN /\ (reduceN # 0 => p[1] < p[2])
      /\ b.lo \in Nat /\ b.lo <= p[1]
  BY <1>2 DEF ReduceInv, HeldInv, PiecesInv, BodiesInv
<1>5. IF reduceN = 0 THEN reduced' \in Formed(reduceN) /\ reduced'.alg = reduced.alg /\ r[2] = Start(reduceN, reduced')
                     ELSE /\ b.lo < p[2] /\ Works(reduceN, reduced, reduced', b.lo, p[2])
                          /\ Told(given, reduced', b.lo, p[2], r[2])
  BY <1>1, <1>2, ProcessWorks
<1>6. reduced' \in Formed(reduceN) /\ reduced'.alg = reduced.alg
  BY <1>5 DEF Works
<1>7. HeldInv'
  BY <1>2, <1>4, <1>6 DEF ReduceInv, HeldInv
<1>8. \A e \in bodies : e.lo \in Nat /\ e.hi \in Nat /\ e.lo <= e.hi /\ e.hi <= reduceN
  BY DEF ReduceInv, BodiesInv
<1>9. \A q \in pieces : q[1] \in Nat /\ q[2] \in Nat /\ q[1] <= q[2] /\ q[2] <= reduceN
  BY DEF ReduceInv, PiecesInv
<1>10. \A e \in bodies : e # b => e.lo # b.lo /\ (e.hi <= b.lo \/ p[2] <= e.lo)
  <2>1. \A e \in bodies : e # b => e.lo # b.lo /\ (e.hi <= b.lo \/ b.hi <= e.lo)
    BY DEF ReduceInv, ApartInv
  <2>2. \A e \in bodies : e.hi <= p[1] \/ p[2] <= e.lo
    BY DEF ReduceInv, ApartInv
  <2> QED BY <1>2, <1>4, <1>8, <2>1, <2>2
<1>11. \A q \in pieces : q # p => q[2] <= b.lo \/ p[2] <= q[1]
  <2>1. \A q \in pieces : b.hi <= q[1] \/ q[2] <= b.lo
    BY DEF ReduceInv, ApartInv
  <2>2. \A q \in pieces : q # p => q[2] <= p[1] \/ p[2] <= q[1]
    BY DEF ReduceInv, ApartInv
  <2>3. \A q \in pieces : reduceN # 0 => q[1] < q[2]
    BY DEF ReduceInv, PiecesInv
  <2> QED BY <1>2, <1>4, <1>9, <2>1, <2>2, <2>3
<1>12. PiecesInv'
  <2> SUFFICES ASSUME NEW q \in pieces, q # p
               PROVE  /\ q[1] \in Nat /\ q[2] \in Nat /\ q[1] <= q[2] /\ q[2] <= reduceN /\ (reduceN # 0 => q[1] < q[2])
                      /\ Untouched(given, reduced', q[1], q[2])
    BY <1>2 DEF PiecesInv
  <2>1. /\ q[1] \in Nat /\ q[2] \in Nat /\ q[1] <= q[2] /\ q[2] <= reduceN /\ (reduceN # 0 => q[1] < q[2])
    BY DEF ReduceInv, PiecesInv
  <2>2. CASE reduceN = 0
    <3>1. (q[1])..(q[2] - 1) = {}
      BY <2>1, <2>2
    <3> QED BY <2>1, <3>1 DEF Untouched
  <2>3. CASE reduceN # 0
    BY <1>4, <1>5, <1>11, <2>1, <2>3, OthersKept
  <2> QED BY <2>2, <2>3
<1>13. BodiesInv'
  <2> SUFFICES ASSUME NEW e \in bodies'
               PROVE  /\ e.lo \in Nat /\ e.hi \in Nat /\ e.lo <= e.hi /\ e.hi <= reduceN
                      /\ e.lo = e.hi => e.val = Start(reduceN, reduced')
                      /\ e.lo < e.hi => Told(given, reduced', e.lo, e.hi, e.val)
    BY <1>2 DEF BodiesInv
  <2>1. CASE e \in bodies /\ e # b
    <3>1. CASE reduceN = 0
      <4>1. e.lo = e.hi /\ e.val = Start(reduceN, reduced)
        BY <1>8, <2>1, <3>1 DEF ReduceInv, BodiesInv
      <4>2. Start(reduceN, reduced') = Start(reduceN, reduced)
        BY <1>6, StartKept DEF ReduceInv, HeldInv
      <4> QED BY <1>8, <2>1, <4>1, <4>2
    <3>2. CASE reduceN # 0
      BY <1>4, <1>5, <1>8, <1>10, <2>1, <3>2, OthersKept
    <3> QED BY <3>1, <3>2
  <2>2. CASE e = new
    BY <1>3, <1>4, <1>5, <2>2
  <2> QED BY <1>3, <2>1, <2>2
<1>14. ApartInv'
  <2>1. \A e \in bodies, d \in bodies : e # d => e.lo # d.lo /\ (e.hi <= d.lo \/ d.hi <= e.lo)
    BY DEF ReduceInv, ApartInv
  <2>2. \A e \in bodies, q \in pieces : e.hi <= q[1] \/ q[2] <= e.lo
    BY DEF ReduceInv, ApartInv
  <2>3. \A q \in pieces, t \in pieces : q # t => q[2] <= t[1] \/ t[2] <= q[1]
    BY DEF ReduceInv, ApartInv
  <2> QED BY <1>2, <1>3, <1>10, <1>11, <2>1, <2>2, <2>3 DEF ApartInv
<1>15. reducePc = "reduce"
  BY NoPieceLater
<1>16. ASSUME NEW k \in 0..(reduceN - 1) PROVE Covered(k)'
  <2>1. Covered(k)
    BY <1>15, <1>16 DEF ReduceInv, PhaseInv
  <2>2. new \in bodies'
    BY <1>3
  <2>3. CASE \E q \in pieces : q[1] <= k /\ k < q[2]
    <3>1. PICK q \in pieces : q[1] <= k /\ k < q[2]
      BY <2>3
    <3>2. CASE q # p
      BY <1>2, <3>1, <3>2 DEF Covered
    <3>3. CASE q = p
      BY <1>3, <1>4, <2>2, <3>1, <3>3 DEF Covered
    <3> QED BY <3>2, <3>3
  <2>4. CASE \E e \in bodies : e.lo <= k /\ k < e.hi
    <3>1. PICK e \in bodies : e.lo <= k /\ k < e.hi
      BY <2>4
    <3>2. CASE e # b
      BY <1>3, <3>1, <3>2 DEF Covered
    <3>3. CASE e = b
      BY <1>2, <1>3, <1>4, <2>2, <3>1, <3>3 DEF Covered
    <3> QED BY <3>2, <3>3
  <2> QED BY <2>1, <2>3, <2>4 DEF Covered
<1>17. PhaseInv'
  BY <1>2, <1>6, <1>15, <1>16 DEF ReduceInv, PhaseInv
<1> QED BY <1>7, <1>12, <1>13, <1>14, <1>17 DEF ReduceInv

\* What joining two neighbours does.
LEMMA JoinWorks ==
  ASSUME ReduceInv, NEW b \in bodies, NEW e \in bodies, b.hi = e.lo, e.lo < e.hi,
         NEW r \in Merge(reduced, b.val, e.val), reduced' = r[1]
  PROVE  b # e /\ b.lo < b.hi /\ Works(reduceN, reduced, reduced', b.lo, e.hi) /\ Told(given, reduced', b.lo, e.hi, r[2])
<1>1. /\ reduceN \in Nat /\ given \in Calls(reduceN) /\ reduced \in Formed(reduceN) /\ given.alg = reduced.alg
      /\ b.lo \in Nat /\ b.hi \in Nat /\ b.lo <= b.hi /\ e.lo \in Nat /\ e.hi \in Nat /\ e.hi <= reduceN
      /\ b.lo < b.hi => Told(given, reduced, b.lo, b.hi, b.val)
      /\ Told(given, reduced, e.lo, e.hi, e.val)
  BY DEF ReduceInv, HeldInv, BodiesInv
<1>2. b # e /\ b.lo < b.hi
  <2>1. b # e => b.lo # e.lo
    BY DEF ReduceInv, ApartInv
  <2> QED BY <1>1, <2>1
<1>3. IsPart(reduceN, b.lo, b.hi) /\ IsPart(reduceN, b.hi, e.hi)
  BY <1>1, <1>2 DEF IsPart
<1> QED BY <1>1, <1>2, <1>3, MergeJoins

LEMMA JoinKeeps ==
  ASSUME ReduceInv, NEW b \in bodies, NEW o \in bodies, Reduce!Join(b, o)
  PROVE  ReduceInv'
<1>1. PICK r \in Merge(reduced, b.val, o.val) :
        reduced' = r[1] /\ bodies' = (bodies \ {b, o}) \cup {Reduce!Body(b.lo, o.hi, r[2])}
  BY DEF Reduce!Join
<1>2. /\ b.hi = o.lo /\ o.lo < o.hi
      /\ pieces' = pieces /\ reduceN' = reduceN /\ given' = given /\ reducePc' = reducePc /\ reduceAnswer' = reduceAnswer
  BY DEF Reduce!Join, Reduce!args
<1> DEFINE new == Reduce!Body(b.lo, o.hi, r[2])
<1>3. new.lo = b.lo /\ new.hi = o.hi /\ new.val = r[2] /\ bodies' = (bodies \ {b, o}) \cup {new}
  BY <1>1 DEF Reduce!Body
<1> HIDE DEF new
<1>4. b # o /\ b.lo < b.hi /\ Works(reduceN, reduced, reduced', b.lo, o.hi) /\ Told(given, reduced', b.lo, o.hi, r[2])
  BY <1>1, <1>2, JoinWorks
<1>5. reduced' \in Formed(reduceN) /\ reduced'.alg = reduced.alg
  BY <1>4 DEF Works
<1>6. HeldInv'
  BY <1>2, <1>5 DEF ReduceInv, HeldInv
<1>7. \A d \in bodies : d.lo \in Nat /\ d.hi \in Nat /\ d.lo <= d.hi /\ d.hi <= reduceN
  BY DEF ReduceInv, BodiesInv
<1>8. \A q \in pieces : q[1] \in Nat /\ q[2] \in Nat /\ q[1] <= q[2] /\ q[2] <= reduceN
  BY DEF ReduceInv, PiecesInv
<1>9. reduceN \in Nat /\ reduceN # 0
  BY <1>2, <1>7 DEF ReduceInv, HeldInv
<1>10. \A d \in bodies : d # b /\ d # o => d.lo # b.lo /\ (d.hi <= b.lo \/ o.hi <= d.lo)
  <2>1. \A d \in bodies : d # b => d.lo # b.lo /\ (d.hi <= b.lo \/ b.hi <= d.lo)
    BY DEF ReduceInv, ApartInv
  <2>2. \A d \in bodies : d # o => d.lo # o.lo /\ (d.hi <= o.lo \/ o.hi <= d.lo)
    BY DEF ReduceInv, ApartInv
  <2> QED BY <1>2, <1>4, <1>7, <2>1, <2>2
<1>11. \A q \in pieces : q[2] <= b.lo \/ o.hi <= q[1]
  <2>1. \A q \in pieces : b.hi <= q[1] \/ q[2] <= b.lo
    BY DEF ReduceInv, ApartInv
  <2>2. \A q \in pieces : o.hi <= q[1] \/ q[2] <= o.lo
    BY DEF ReduceInv, ApartInv
  <2>3. \A q \in pieces : q[1] < q[2]
    BY <1>9 DEF ReduceInv, PiecesInv
  <2> QED BY <1>2, <1>4, <1>7, <1>8, <2>1, <2>2, <2>3
<1>12. PiecesInv'
  <2> SUFFICES ASSUME NEW q \in pieces
               PROVE  /\ q[1] \in Nat /\ q[2] \in Nat /\ q[1] <= q[2] /\ q[2] <= reduceN /\ (reduceN # 0 => q[1] < q[2])
                      /\ Untouched(given, reduced', q[1], q[2])
    BY <1>2 DEF PiecesInv
  <2>1. /\ q[1] \in Nat /\ q[2] \in Nat /\ q[1] <= q[2] /\ q[2] <= reduceN /\ (reduceN # 0 => q[1] < q[2])
    BY DEF ReduceInv, PiecesInv
  <2> QED BY <1>4, <1>7, <1>11, <2>1, OthersKept
<1>13. BodiesInv'
  <2> SUFFICES ASSUME NEW d \in bodies'
               PROVE  /\ d.lo \in Nat /\ d.hi \in Nat /\ d.lo <= d.hi /\ d.hi <= reduceN
                      /\ d.lo = d.hi => d.val = Start(reduceN, reduced')
                      /\ d.lo < d.hi => Told(given, reduced', d.lo, d.hi, d.val)
    BY <1>2 DEF BodiesInv
  <2>1. CASE d \in bodies /\ d # b /\ d # o
    BY <1>4, <1>7, <1>10, <2>1, OthersKept
  <2>2. CASE d = new
    BY <1>2, <1>3, <1>4, <1>7, <2>2
  <2> QED BY <1>3, <2>1, <2>2
<1>14. ApartInv'
  <2>1. \A d \in bodies, e \in bodies : d # e => d.lo # e.lo /\ (d.hi <= e.lo \/ e.hi <= d.lo)
    BY DEF ReduceInv, ApartInv
  <2>2. \A d \in bodies, q \in pieces : d.hi <= q[1] \/ q[2] <= d.lo
    BY DEF ReduceInv, ApartInv
  <2>3. \A q \in pieces, t \in pieces : q # t => q[2] <= t[1] \/ t[2] <= q[1]
    BY DEF ReduceInv, ApartInv
  <2> QED BY <1>2, <1>3, <1>10, <1>11, <2>1, <2>2, <2>3 DEF ApartInv
<1>15. reducePc = "reduce"
  BY <1>4 DEF ReduceInv, PhaseInv
<1>16. ASSUME NEW k \in 0..(reduceN - 1) PROVE Covered(k)'
  <2>1. Covered(k)
    BY <1>15, <1>16 DEF ReduceInv, PhaseInv
  <2>2. new \in bodies'
    BY <1>3
  <2>3. CASE \E q \in pieces : q[1] <= k /\ k < q[2]
    BY <1>2, <2>3 DEF Covered
  <2>4. CASE \E d \in bodies : d.lo <= k /\ k < d.hi
    <3>1. PICK d \in bodies : d.lo <= k /\ k < d.hi
      BY <2>4
    <3>2. CASE d # b /\ d # o
      BY <1>3, <3>1, <3>2 DEF Covered
    <3>3. CASE d = b \/ d = o
      <4>1. b.lo <= k /\ k < o.hi
        BY <1>2, <1>4, <1>7, <3>1, <3>3
      <4> QED BY <1>3, <2>2, <4>1 DEF Covered
    <3> QED BY <3>2, <3>3
  <2> QED BY <2>1, <2>3, <2>4 DEF Covered
<1>17. PhaseInv'
  BY <1>2, <1>5, <1>15, <1>16 DEF ReduceInv, PhaseInv
<1> QED BY <1>6, <1>12, <1>13, <1>14, <1>17 DEF ReduceInv

LEMMA ReturnKeeps ==
  ASSUME ReduceInv, Reduce!Return
  PROVE  ReduceInv'
<1>1. PICK b \in bodies : bodies = {b} /\ reduceAnswer' = {Returned(reduced, b.val)}
  BY DEF Reduce!Return
<1>2. /\ reducePc = "reduce" /\ pieces = {} /\ reducePc' = "done"
      /\ reduceN' = reduceN /\ given' = given /\ reduced' = reduced /\ pieces' = pieces /\ bodies' = bodies
  BY DEF Reduce!Return, Reduce!args
<1>3. /\ reduceN \in Nat /\ reduced \in Formed(reduceN) /\ b.lo \in Nat /\ b.hi \in Nat /\ b.lo <= b.hi /\ b.hi <= reduceN
      /\ b.lo = b.hi => b.val = Start(reduceN, reduced)
      /\ b.lo < b.hi => Told(given, reduced, b.lo, b.hi, b.val)
  BY DEF ReduceInv, HeldInv, BodiesInv
<1>4. Right(reduceN, given, reduced, Returned(reduced, b.val))
  <2>1. CASE reduceN = 0
    <3>1. reduced.alg = "partition" \/ reduced.alg = "for_loop"
      BY <1>2, <2>1 DEF ReduceInv, PhaseInv
    <3>2. b.val = Start(0, reduced) /\ reduced \in Formed(0)
      BY <1>3, <2>1
    <3> QED BY <2>1, <3>1, <3>2, AnswerOfNothing
  <2>2. CASE reduceN # 0
    <3>1. 0 \in 0..(reduceN - 1) /\ reduceN - 1 \in 0..(reduceN - 1)
      BY <1>3, <2>2
    <3>2. \A k \in 0..(reduceN - 1) : b.lo <= k /\ k < b.hi
      BY <1>1, <1>2 DEF ReduceInv, PhaseInv, Covered
    <3>3. b.lo = 0 /\ b.hi = reduceN
      BY <1>3, <2>2, <3>1, <3>2
    <3>4. IsPart(reduceN, 0, reduceN) /\ Told(given, reduced, 0, reduceN, b.val)
      BY <1>3, <2>2, <3>3 DEF IsPart
    <3> QED BY <1>3, <3>4, AnswerOfAll
  <2> QED BY <2>1, <2>2
<1>5. HeldInv' /\ PiecesInv' /\ BodiesInv' /\ ApartInv'
  BY <1>2 DEF ReduceInv, HeldInv, PiecesInv, BodiesInv, ApartInv
<1>6. PhaseInv'
  BY <1>1, <1>2, <1>4 DEF PhaseInv
<1> QED BY <1>5, <1>6 DEF ReduceInv

LEMMA ReduceStep ==
  ASSUME Grain \in Nat \ {0}, ReduceInv, [Reduce!Next]_Reduce!vars
  PROVE  ReduceInv'
<1>1. CASE UNCHANGED Reduce!vars
  <2>1. /\ reduceN' = reduceN /\ given' = given /\ reduced' = reduced /\ pieces' = pieces /\ bodies' = bodies
        /\ reducePc' = reducePc /\ reduceAnswer' = reduceAnswer
    BY <1>1 DEF Reduce!vars, Reduce!args
  <2> QED BY <2>1 DEF ReduceInv, HeldInv, PiecesInv, BodiesInv, ApartInv, PhaseInv, Covered
<1>2. CASE Reduce!Precheck \/ Reduce!Begin \/ Reduce!Return
  BY <1>2, PrecheckKeeps, BeginKeeps, ReturnKeeps
<1>3. CASE \E p \in pieces : Reduce!Halve(p) \/ Reduce!NewBody(p) \/ \E b \in bodies : Reduce!Process(b, p)
  BY <1>3, HalveKeeps, NewBodyKeeps, ProcessKeeps
<1>4. CASE \E b \in bodies, e \in bodies : Reduce!Join(b, e)
  BY <1>4, JoinKeeps
<1> QED BY <1>1, <1>2, <1>3, <1>4 DEF Reduce!Next
-------------------------------------------------------------------------------
\* The value of a body describes exactly the part it has done and what no body has
\* done is untouched, for ranges and pieces of any length and whatever neighbours
\* __parallel_reduce joins first.
THEOREM PartsAreDescribed ==
  Reduce!Spec => []ValuesDescribeParts
<1>1. Reduce!Init => ReduceInv
  BY ReduceInit, ReduceAssumption
<1>2. ReduceInv /\ [Reduce!Next]_Reduce!vars => ReduceInv'
  BY ReduceStep, ReduceAssumption
<1>3. ReduceInv => ValuesDescribeParts
  <2> SUFFICES ASSUME ReduceInv PROVE ValuesDescribeParts
    OBVIOUS
  <2>1. ASSUME NEW b \in bodies, b.lo < b.hi
        PROVE  (CASE reduced.alg = "is_partitioned" -> Part!DescribesTest(reduced.data, b.lo, b.hi, b.val)
                 [] reduced.alg = "adjacent_find"  -> Near!DescribesPairs(reduced.data, b.lo, b.hi, b.val)
                 [] reduced.alg = "minmax_element" -> Near!DescribesExtremes(reduced.data, b.lo, b.hi, b.val)
                 [] reduced.alg = "partition"      -> Part!Describes(given.data, reduced.data, b.lo, b.hi, b.val)
                 [] reduced.alg = "remove"         -> Near!DescribesMask(reduced.data, b.lo, b.hi, b.val)
                 [] reduced.alg = "for_loop"       -> For!Describes(reduced.data, b.lo, b.hi, b.val))
    <3>1. Told(given, reduced, b.lo, b.hi, b.val)
      BY <2>1 DEF ReduceInv, BodiesInv
    <3>2. reduced.alg = "adjacent_find" => Near!DescribesPairs(reduced.data, b.lo, b.hi, b.val)
      BY <3>1 DEF Told, ToldPairs
    <3>3. reduced.alg = "partition" => Part!Describes(given.data, reduced.data, b.lo, b.hi, b.val)
      <4>1. ASSUME NEW p, b.val = Part!PartitionRange(b.lo, p, b.hi)
            PROVE  b.val.begin = b.lo /\ b.val.pivot = p /\ b.val.end = b.hi
        BY <4>1 DEF Part!PartitionRange
      <4> QED BY <3>1, <4>1 DEF Told, ToldPart, Part!Describes
    <3>4. \/ reduced.alg = "is_partitioned" \/ reduced.alg = "adjacent_find" \/ reduced.alg = "minmax_element"
          \/ reduced.alg = "partition" \/ reduced.alg = "remove" \/ reduced.alg = "for_loop"
      BY FormedCases, CallParts DEF ReduceInv, HeldInv
    <3> QED BY Zenon, <3>1, <3>2, <3>3, <3>4 DEF Told
  <2>2. reduced.alg = "partition" =>
                \A p \in pieces : \A k \in p[1]..(p[2] - 1) : reduced.data.mem[k] = given.data.mem[k]
    BY DEF ReduceInv, PiecesInv, Untouched
  <2> QED BY <2>1, <2>2 DEF ValuesDescribeParts
<1> QED BY <1>1, <1>2, <1>3, PTL DEF Reduce!Spec

\* Every call returns, and leaves in the range, what its algorithm promises.
THEOREM ReductionsAreCorrect ==
  Reduce!Spec => []ReductionIsCorrect
<1>1. Reduce!Init => ReduceInv
  BY ReduceInit, ReduceAssumption
<1>2. ReduceInv /\ [Reduce!Next]_Reduce!vars => ReduceInv'
  BY ReduceStep, ReduceAssumption
<1>3. ReduceInv => ReductionIsCorrect
  <2> SUFFICES ASSUME ReduceInv, reducePc = "done" PROVE ReductionIsCorrect
    BY DEF ReductionIsCorrect
  <2>1. PICK it \in reduceAnswer : Right(reduceN, given, reduced, it)
    BY DEF ReduceInv, PhaseInv
  <2>2. \/ reduced.alg = "is_partitioned" \/ reduced.alg = "adjacent_find" \/ reduced.alg = "minmax_element"
        \/ reduced.alg = "partition" \/ reduced.alg = "remove" \/ reduced.alg = "for_loop"
    BY FormedCases, CallParts DEF ReduceInv, HeldInv
  <2>3. (CASE reduced.alg = "is_partitioned" -> it = Part!CorrectTest(reduced.data, reduceN)
          [] reduced.alg = "adjacent_find"  -> Near!CorrectPair(reduced.data, it)
          [] reduced.alg = "minmax_element" -> Near!CorrectExtremes(reduced.data, reduceN, it)
          [] reduced.alg = "partition"      -> Part!Correct(given.data, reduced.data, reduceN, it)
          [] reduced.alg = "remove"         -> Near!CorrectMask(reduced.data, it)
          [] reduced.alg = "for_loop"       -> For!Correct(reduced.data, it))
    BY Zenon, <2>1, <2>2 DEF Right
  <2> QED BY <2>1, <2>3 DEF ReductionIsCorrect
<1> QED BY <1>1, <1>2, <1>3, PTL DEF Reduce!Spec

\* A functor changes elements of the part it makes and of no other.
THEOREM FunctorsKeepToTheirPart ==
  Reduce!Spec => OwnSlotsOnly
<1>1. Reduce!Init => ReduceInv
  BY ReduceInit, ReduceAssumption
<1>2. ReduceInv /\ [Reduce!Next]_Reduce!vars => ReduceInv'
  BY ReduceStep, ReduceAssumption
<1>3. ReduceInv /\ [Reduce!Next]_Reduce!vars =>
        [reduced.alg = "partition" => \A k \in 0..(reduceN - 1) : reduced'.data.mem[k] # reduced.data.mem[k] =>
                 \E b \in bodies' \ bodies : b.lo <= k /\ k < b.hi]_Reduce!vars
  <2> SUFFICES ASSUME ReduceInv, Reduce!Next, reduced.alg = "partition", NEW k \in 0..(reduceN - 1),
                      reduced'.data.mem[k] # reduced.data.mem[k]
               PROVE  \E b \in bodies' \ bodies : b.lo <= k /\ k < b.hi
    OBVIOUS
  <2>1. reduceN \in Nat /\ reduceN # 0
    BY DEF ReduceInv, HeldInv
  <2>2. ASSUME NEW lo, NEW hi, Works(reduceN, reduced, reduced', lo, hi), lo \in Nat, hi \in Nat
        PROVE  lo <= k /\ k < hi
    <3>1. SameOutside(reduceN, reduced.data, reduced'.data, lo, hi)
      BY <2>2 DEF Works
    <3> QED BY <2>1, <2>2, <3>1 DEF SameOutside
  <2>3. ~(Reduce!Precheck \/ Reduce!Begin \/ Reduce!Return)
    BY DEF Reduce!Precheck, Reduce!Begin, Reduce!Return
  <2>4. ASSUME NEW p \in pieces PROVE ~(Reduce!Halve(p) \/ Reduce!NewBody(p))
    BY DEF Reduce!Halve, Reduce!NewBody
  <2>5. ASSUME NEW b \in bodies, NEW p \in pieces, Reduce!Process(b, p)
        PROVE  \E d \in bodies' \ bodies : d.lo <= k /\ k < d.hi
    <3>1. PICK r \in Brick(reduced, p[1], p[2], b.val) :
            reduced' = r[1] /\ bodies' = (bodies \ {b}) \cup {Reduce!Body(b.lo, p[2], r[2])}
      BY <2>5 DEF Reduce!Process
    <3>2. b.hi = p[1]
      BY <2>5 DEF Reduce!Process
    <3>3. Works(reduceN, reduced, reduced', b.lo, p[2])
      BY <2>1, <3>1, <3>2, ProcessWorks
    <3>4. b.lo \in Nat /\ p[1] \in Nat /\ p[2] \in Nat /\ p[1] < p[2]
      BY <2>1 DEF ReduceInv, BodiesInv, PiecesInv
    <3> DEFINE new == Reduce!Body(b.lo, p[2], r[2])
    <3>5. new.lo = b.lo /\ new.hi = p[2]
      BY DEF Reduce!Body
    <3> HIDE DEF new
    <3>6. new \notin bodies
      <4>1. new # b
        BY <3>2, <3>4, <3>5
      <4> QED BY <3>5, <4>1 DEF ReduceInv, ApartInv
    <3>7. new \in bodies'
      BY <3>1 DEF new
    <3> QED BY <2>2, <3>3, <3>4, <3>5, <3>6, <3>7
  <2>6. ASSUME NEW b \in bodies, NEW e \in bodies, Reduce!Join(b, e)
        PROVE  \E d \in bodies' \ bodies : d.lo <= k /\ k < d.hi
    <3>1. PICK r \in Merge(reduced, b.val, e.val) :
            reduced' = r[1] /\ bodies' = (bodies \ {b, e}) \cup {Reduce!Body(b.lo, e.hi, r[2])}
      BY <2>6 DEF Reduce!Join
    <3>2. b.hi = e.lo /\ e.lo < e.hi
      BY <2>6 DEF Reduce!Join
    <3>3. Works(reduceN, reduced, reduced', b.lo, e.hi)
      BY <3>1, <3>2, JoinWorks
    <3>4. b.lo \in Nat /\ e.lo \in Nat /\ e.hi \in Nat
      BY DEF ReduceInv, BodiesInv
    <3> DEFINE new == Reduce!Body(b.lo, e.hi, r[2])
    <3>5. new.lo = b.lo /\ new.hi = e.hi
      BY DEF Reduce!Body
    <3> HIDE DEF new
    <3>6. new \notin bodies
      <4>1. new # b
        BY <3>2, <3>4, <3>5
      <4> QED BY <3>5, <4>1 DEF ReduceInv, ApartInv
    <3>7. new \in bodies'
      BY <3>1 DEF new
    <3> QED BY <2>2, <3>3, <3>4, <3>5, <3>6, <3>7
  <2> QED BY <2>3, <2>4, <2>5, <2>6 DEF Reduce!Next
<1> QED BY <1>1, <1>2, <1>3, PTL DEF Reduce!Spec, OwnSlotsOnly
-------------------------------------------------------------------------------
(* The public calls that change what they hand to a pattern.                       *)
Public == INSTANCE PublicCalls WITH MaxPublic <- MaxN, asked <- None, done <- None

SearchesAsked ==
  {Public!Call(api, a, None, 0) : api \in {"all_of", "none_of", "find_if_not"}, a \in Ranges(MaxN, Marks)} \cup
  {Public!Call("find", a, None, k) : a \in Ranges(MaxN, Marks), k \in Marks} \cup
  {p \in {Public!Call(api, a, b, 0) : api \in {"mismatch_3", "equal_3"}, a, b \in Ranges(MaxN, Marks)} :
     DOMAIN p.a \subseteq DOMAIN p.b}

LEMMA SameMeasures ==
  ASSUME NEW p, NEW S, NEW n
  PROVE  /\ Public!Size(p) = Search!Len(p.a)
         /\ (IF S = {} THEN n ELSE Public!Min(S)) = Search!FirstIn(S, n)
<1>1. Public!Cardinality(DOMAIN p.a) = Search!Cardinality(DOMAIN p.a)
  BY Zenon DEF Public!Cardinality, Search!Cardinality
<1> QED BY <1>1 DEF Public!Size, Search!Len, Search!FirstIn, Public!Min, Search!Min

\* Another sequence on the same places.
LEMMA SamePlaces ==
  ASSUME NEW s, Given(s), NEW t, DOMAIN t = DOMAIN s
  PROVE  /\ Search!Len(t) = Search!Len(s)
         /\ (\A l \in DOMAIN s : t[l] \in Nat) => Given(t)
BY DEF Given, Search!Len

LEMMA SearchIsAdapted ==
  ASSUME NEW p \in SearchesAsked, NEW it, Search!Correct(Public!SearchPattern(p), it)
  PROVE  Public!Correct(p, Public!Returned(p, it))
<1> DEFINE d == Public!SearchPattern(p)
           n == Search!Len(p.a)
<1>1. /\ p.api \in Public!Searches /\ p.a \in Ranges(MaxN, Marks)
      /\ p.api = "find" => p.k \in Marks
  BY DEF SearchesAsked, Public!Call, Public!Searches
<1>2. Given(p.a) /\ \A l \in DOMAIN p.a : p.a[l] \in {1, 2}
  <2>1. MaxN \in Nat /\ Marks \subseteq Nat
    BY SizesAssumption DEF Marks
  <2>2. \A l \in DOMAIN p.a : p.a[l] \in Marks
    <3>1. PICK m : p.a \in [0..(m - 1) -> Marks]
      BY <1>1 DEF Ranges
    <3> QED BY <3>1
  <2> QED BY <1>1, <2>1, <2>2, RangesAreGiven DEF Marks
<1>3. Public!Size(p) = n /\ Search!Correct(d, it)
  BY SameMeasures
<1>4. CASE p.api \in {"all_of", "none_of"}
  <2>1. /\ d.alg = "any_of" /\ DOMAIN d.a = DOMAIN p.a
        /\ \A l \in DOMAIN p.a : d.a[l] = IF p.api = "all_of" THEN 3 - p.a[l] ELSE p.a[l]
    BY <1>4 DEF Public!SearchPattern, Public!AnyOfCall, Public!Not
  <2>2. Given(d.a)
    BY <1>2, <2>1, SamePlaces
  <2>3. it = (\E l \in DOMAIN d.a : d.a[l] = 1)
    <3> HIDE DEF d
    <3>1. it = (Search!Cardinality({l \in DOMAIN d.a : d.a[l] = 1}) > 0)
      BY Zenon, <1>3, <2>1 DEF Search!Correct
    <3>2. (Search!Cardinality({l \in DOMAIN d.a : d.a[l] = 1}) > 0) <=> \E l \in DOMAIN d.a : d.a[l] = 1
      BY <2>2, CountIsPositive
    <3>3. (Search!Cardinality({l \in DOMAIN d.a : d.a[l] = 1}) > 0) \in BOOLEAN
      BY <2>2, CountIsPositive
    <3> QED BY Zenon, <3>1, <3>2, <3>3
  <2>4. \A l \in DOMAIN p.a : d.a[l] = 1 <=> IF p.api = "all_of" THEN p.a[l] # 1 ELSE p.a[l] = 1
    BY <1>2, <2>1
  <2> HIDE DEF d
  <2>5. CASE p.api = "all_of"
    BY <2>1, <2>3, <2>4, <2>5 DEF Public!Correct, Public!Returned
  <2>6. CASE p.api = "none_of"
    BY <2>1, <2>3, <2>4, <2>6 DEF Public!Correct, Public!Returned
  <2> QED BY <1>4, <2>5, <2>6
<1>5. CASE p.api \in {"find_if_not", "find"}
  <2> DEFINE S == {l \in DOMAIN p.a : IF p.api = "find" THEN p.a[l] = p.k ELSE p.a[l] # 1}
  <2>1. /\ d.alg = "find_if" /\ DOMAIN d.a = DOMAIN p.a
        /\ \A l \in DOMAIN p.a : d.a[l] = IF p.api = "find" THEN IF p.a[l] = p.k THEN 1 ELSE 2 ELSE 3 - p.a[l]
    BY <1>5 DEF Public!SearchPattern, Public!FindIfCall, Public!Not, Public!EqualTo
  <2>2. Search!Len(d.a) = n
    BY <1>2, <2>1, SamePlaces
  <2>3. {l \in DOMAIN d.a : d.a[l] = 1} = S
    BY <1>2, <2>1
  <2>4. it = Search!FirstIn(S, n)
    <3> HIDE DEF d, S
    <3>1. it = Search!FirstIn({l \in DOMAIN d.a : d.a[l] = 1}, Search!Len(d.a))
      BY Zenon, <1>3, <2>1 DEF Search!Correct
    <3> QED BY <2>2, <2>3, <3>1
  <2>5. it = IF S = {} THEN n ELSE Public!Min(S)
    BY <2>4, SameMeasures
  <2>6. Public!Returned(p, it) = it
    BY <1>5 DEF Public!Returned
  <2>7. CASE p.api = "find"
    BY <1>3, <2>5, <2>6, <2>7 DEF Public!Correct
  <2>8. CASE p.api = "find_if_not"
    BY <1>3, <2>5, <2>6, <2>8 DEF Public!Correct
  <2> QED BY <1>5, <2>7, <2>8
<1>6. CASE p.api \in {"mismatch_3", "equal_3"}
  <2> DEFINE S == {l \in DOMAIN p.a : p.b[l] # p.a[l]}
  <2>1. /\ d.alg = IF p.api = "mismatch_3" THEN "mismatch" ELSE "equal"
        /\ d.a = p.a /\ DOMAIN d.b = DOMAIN p.a /\ \A l \in DOMAIN p.a : d.b[l] = p.b[l]
    BY <1>6 DEF Public!SearchPattern, Public!MismatchCall, Public!EqualCall, Public!FirstPart
  <2>2. Search!Len(d.b) = n /\ Search!Len(d.a) = n /\ DOMAIN p.a = 0..(n - 1) /\ n \in Nat
    BY <1>2, <2>1, SamePlaces DEF Given
  <2>3. Search!Min({n, n}) = n
    BY <2>2 DEF Search!Min
  <2>4. {l \in 0..(Search!Min({Search!Len(d.a), Search!Len(d.b)}) - 1) : d.a[l] # d.b[l]} = S
    BY <2>1, <2>2, <2>3
  <2> HIDE DEF d, S
  <2>5. CASE p.api = "mismatch_3"
    <3>1. it = Search!FirstIn(S, n)
      <4>1. it = Search!FirstIn({l \in 0..(Search!Min({Search!Len(d.a), Search!Len(d.b)}) - 1) : d.a[l] # d.b[l]},
                                Search!Min({Search!Len(d.a), Search!Len(d.b)}))
        BY Zenon, <1>3, <2>1, <2>5 DEF Search!Correct
      <4> QED BY <2>2, <2>3, <2>4, <4>1
    <3>2. it = IF S = {} THEN n ELSE Public!Min(S)
      BY <3>1, SameMeasures
    <3> QED BY <1>3, <2>5, <3>2 DEF Public!Correct, Public!Returned, S
  <2>6. CASE p.api = "equal_3"
    <3>1. it = (S = {})
      <4>1. it = (Search!Len(d.a) = Search!Len(d.b) /\
                  {l \in 0..(Search!Min({Search!Len(d.a), Search!Len(d.b)}) - 1) : d.a[l] # d.b[l]} = {})
        BY Zenon, <1>3, <2>1, <2>6 DEF Search!Correct
      <4> QED BY Zenon, <2>2, <2>4, <4>1
    <3> QED BY <2>6, <3>1 DEF Public!Correct, Public!Returned, S
  <2> QED BY <1>6, <2>5, <2>6
<1> QED BY <1>1, <1>4, <1>5, <1>6 DEF Public!Searches

\* The algorithms that negate their predicate, turn a value into one or cut the second
\* range to run a search (glue_algorithm_impl.h: all_of, none_of, find, find_if_not, and
\* equal and mismatch without a second end) return what std's do.
THEOREM SearchesAreAdapted ==
  Spec => [](pc = "done" => \A p \in SearchesAsked : Public!SearchPattern(p) = c =>
               \E it \in answer : Public!Correct(p, Public!Returned(p, it)))
<1>1. CallIsCorrect => (pc = "done" => \A p \in SearchesAsked : Public!SearchPattern(p) = c =>
               \E it \in answer : Public!Correct(p, Public!Returned(p, it)))
  <2> SUFFICES ASSUME CallIsCorrect, pc = "done", NEW p \in SearchesAsked, Public!SearchPattern(p) = c
               PROVE  \E it \in answer : Public!Correct(p, Public!Returned(p, it))
    OBVIOUS
  <2>1. p.api \in Public!Searches
    BY DEF SearchesAsked, Public!Call, Public!Searches
  <2>2. IsSearch(c)
    BY <2>1 DEF Public!Searches, Public!SearchPattern, Public!AnyOfCall, Public!FindIfCall, Public!MismatchCall,
                Public!EqualCall, IsSearch, Search!OrAlgs, Search!FindAlgs
  <2>3. PICK it \in answer : AnswersTheCall(it)
    BY DEF CallIsCorrect, AnswersTheCall
  <2>4. Search!Correct(c, it)
    BY Zenon, <2>2, <2>3, NoMoveSearches DEF AnswersTheCall
  <2> QED BY <2>4, SearchIsAdapted
<1> QED BY <1>1, CallsAreCorrect, PTL

ReductionsAsked ==
  {Public!Call(api, a, None, 0) : api \in Public!Reductions, a \in UNION {[0..(m - 1) -> Int] : m \in Nat}}

\* A beginning is sorted when no neighbours in it are out of order.
LEMMA SortedIsNoDescent ==
  ASSUME NEW n \in Nat, NEW a \in [0..(n - 1) -> Int], NEW m \in 0..n
  PROVE  (\A i, j \in 0..(m - 1) : i < j => a[i] <= a[j]) <=> \A l \in {k \in 0..(n - 2) : a[k + 1] < a[k]} : m <= l + 1
<1>1. ASSUME \A i, j \in 0..(m - 1) : i < j => a[i] <= a[j], NEW l \in 0..(n - 2), a[l + 1] < a[l], l + 1 < m PROVE FALSE
  <2>1. l \in 0..(m - 1) /\ l + 1 \in 0..(m - 1) /\ a[l] \in Int /\ a[l + 1] \in Int /\ l < l + 1
    BY <1>1
  <2> QED BY <1>1, <2>1
<1>2. ASSUME \A l \in {k \in 0..(n - 2) : a[k + 1] < a[k]} : m <= l + 1,
             NEW i \in 0..(m - 1), NEW j \in 0..(m - 1), i < j, a[j] < a[i]
      PROVE  FALSE
  <2>1. PICK k \in {q \in Nat : i < q /\ q <= j /\ a[q] < a[i]} :
          \A q \in {q \in Nat : i < q /\ q <= j /\ a[q] < a[i]} : k <= q
    <3>1. j \in {q \in Nat : i < q /\ q <= j /\ a[q] < a[i]}
      BY <1>2
    <3> QED BY <3>1, LeastNumber
  <2>2. k - 1 \in 0..(n - 2) /\ (k - 1) + 1 = k /\ k < m /\ {a[k], a[k - 1], a[i]} \subseteq Int
    BY <1>2, <2>1
  <2>3. a[k] < a[k - 1]
    <3>1. k - 1 > i => a[i] <= a[k - 1]
      BY <1>2, <2>1, <2>2
    <3> QED BY <2>1, <2>2, <3>1
  <2> QED BY <1>2, <2>2, <2>3
<1>3. \A i, j \in 0..(m - 1) : a[i] \in Int /\ a[j] \in Int
  OBVIOUS
<1> QED BY <1>1, <1>2, <1>3

LEMMA ReductionIsAdapted ==
  ASSUME NEW p \in ReductionsAsked, NEW top \in Int, NEW n \in Nat, NEW it,
         LET d == Public!ReducePattern(p, top)
         IN  /\ d \in Formed(n) /\ Right(n, d, d, it)
             /\ d.alg = "minmax_element" /\ n = 0 => it = <<0, 0>>
  PROVE  Public!Correct(p, Public!Returned(p, it))
<1> DEFINE d == Public!ReducePattern(p, top)
<1>1. p.api \in Public!Reductions /\ \E k \in Nat : p.a \in [0..(k - 1) -> Int]
  BY DEF ReductionsAsked, Public!Call
<1>2. PICK k \in Nat : p.a \in [0..(k - 1) -> Int]
  BY <1>1
<1>3. Public!Size(p) = k /\ d \in Formed(n) /\ Right(n, d, d, it) /\ (d.alg = "minmax_element" /\ n = 0 => it = <<0, 0>>)
  <2>1. Public!Size(p) = Near!Length(p.a)
    BY Zenon DEF Public!Size, Near!Length, Public!Cardinality, Near!Cardinality
  <2> QED BY <1>2, <2>1, KeysLength
<1>4. CASE p.api \in {"is_sorted", "is_sorted_until"}
  <2> DEFINE D == {l \in 0..(k - 2) : p.a[l + 1] < p.a[l]}
             sorted == {m \in 0..k : \A i, j \in 0..(m - 1) : i < j => p.a[i] <= p.a[j]}
  <2>1. d.alg = "adjacent_find" /\ d.data = [pairs |-> D, orSemantic |-> p.api = "is_sorted", last |-> k]
    BY <1>3, <1>4 DEF Public!ReducePattern, Public!DescentsCall
  <2>2. Near!CorrectPair(d.data, it)
    BY <1>3, <2>1 DEF Right
  <2>4. sorted = {m \in 0..k : \A l \in D : m <= l + 1} /\ D \subseteq 0..(k - 2)
    BY <1>2, SortedIsNoDescent
  <2> HIDE DEF d, D
  <2>3. (it = k <=> D = {}) /\ (p.api = "is_sorted_until" /\ it # k => it = Search!Min(D))
    <3>1. d.data.pairs = D /\ d.data.orSemantic = (p.api = "is_sorted") /\ d.data.last = k
      BY <2>1
    <3>2. Near!Min(D) = Search!Min(D)
      BY DEF Near!Min, Search!Min
    <3> QED BY <2>2, <3>1, <3>2 DEF Near!CorrectPair
  <2>5. CASE p.api = "is_sorted"
    <3>1. k \in sorted <=> D = {}
      <4>1. k \in 0..k
        OBVIOUS
      <4>2. \A l \in 0..(k - 2) : ~(k <= l + 1)
        OBVIOUS
      <4> QED BY <2>4, <4>1, <4>2
    <3> QED BY <1>3, <2>3, <2>5, <3>1 DEF Public!Correct, Public!Returned, sorted
  <2>6. CASE p.api = "is_sorted_until"
    <3> DEFINE r == IF it = k THEN k ELSE it + 1
    <3>1. r \in sorted /\ \A m \in sorted : m <= r
      <4>1. CASE it = k
        BY <2>3, <2>4, <4>1
      <4>2. CASE it # k
        <5>1. D # {} /\ D \subseteq 0..((k - 1) - 1) /\ k - 1 \in Nat
          BY <2>3, <2>4, <4>2
        <5>2. it \in D /\ \A l \in D : it <= l
          BY <2>3, <2>6, <4>2, <5>1, LeastAndGreatest
        <5>3. it \in 0..(k - 2) /\ it + 1 \in 0..k /\ r = it + 1
          BY <2>4, <4>2, <5>2
        <5> HIDE DEF r, sorted
        <5> QED BY <2>4, <5>2, <5>3
      <4> QED BY <4>1, <4>2
    <3>2. sorted \subseteq 0..((k + 1) - 1) /\ k + 1 \in Nat
      OBVIOUS
    <3> HIDE DEF r, sorted
    <3>3. Search!Max(sorted) = r
      BY <3>1, <3>2, MaxIsUnique
    <3>4. Public!Max(sorted) = r
      BY <3>3 DEF Public!Max, Search!Max
    <3> QED BY <1>3, <2>6, <3>4 DEF Public!Correct, Public!Returned, r, sorted
  <2> QED BY <1>4, <2>5, <2>6
<1>5. CASE p.api \in {"min_element", "max_element"}
  <2> DEFINE B == {l \in DOMAIN p.a : \A m \in DOMAIN p.a :
                     IF p.api = "max_element" THEN p.a[m] <= p.a[l] ELSE p.a[l] <= p.a[m]}
             f == Near!FirstMin(d.data, 0, k)
  <2>1. /\ d.alg = "minmax_element" /\ d.data \in [0..(k - 1) -> Int]
        /\ \A l \in 0..(k - 1) : d.data[l] = IF p.api = "max_element" THEN top - p.a[l] ELSE p.a[l]
    BY <1>2, <1>5 DEF Public!ReducePattern, Public!Extreme
  <2> HIDE DEF d
  <2>2. n = k
    <3>1. d.data \in [0..(n - 1) -> Int]
      BY <1>3, <2>1, FormedCases, CallParts
    <3> QED BY <2>1, <3>1, KeysLength
  <2>3. it[1] = IF k = 0 THEN 0 ELSE f
    BY <1>3, <2>1, <2>2 DEF Right, Near!CorrectExtremes
  <2>4. it[1] = Search!FirstIn(B, k)
    <3>1. CASE k = 0
      BY <1>2, <2>3, <3>1 DEF Search!FirstIn
    <3>2. CASE k # 0
      <4>1. IsPart(k, 0, k)
        BY <3>2 DEF IsPart
      <4>2. f \in 0..(k - 1) /\ \A l \in 0..(k - 1) : d.data[f] < d.data[l] \/ (d.data[f] = d.data[l] /\ f <= l)
        BY <2>1, <4>1, ExtremesAreBest, PairsInOrder DEF IsBest
      <4> HIDE DEF f
      <4>3. \A l, m \in 0..(k - 1) :
              (IF p.api = "max_element" THEN p.a[m] <= p.a[l] ELSE p.a[l] <= p.a[m]) <=> d.data[l] <= d.data[m]
        BY <1>2, <2>1
      <4>4. B = {l \in 0..(k - 1) : \A m \in 0..(k - 1) : d.data[l] <= d.data[m]}
        BY <1>2, <4>3
      <4>5. f \in B /\ B \subseteq 0..(k - 1) /\ \A s \in B : f <= s
        <5> HIDE DEF B
        <5> QED BY <2>1, <4>2, <4>4
      <4> HIDE DEF B
      <4> QED BY <2>3, <3>2, <4>5, MinIsUnique DEF Search!FirstIn
    <3> QED BY <3>1, <3>2
  <2>5. it[1] = IF B = {} THEN k ELSE Public!Min(B)
    BY <2>4, SameMeasures
  <2>6. CASE p.api = "min_element"
    BY <1>3, <2>5, <2>6 DEF Public!Correct, Public!Returned
  <2>7. CASE p.api = "max_element"
    BY <1>3, <2>5, <2>7 DEF Public!Correct, Public!Returned
  <2> QED BY <1>5, <2>6, <2>7
<1> QED BY <1>1, <1>4, <1>5 DEF Public!Reductions

\* The functors of these two change nothing, and an empty range is answered at once.
Unchanged ==
  given.alg \in {"adjacent_find", "minmax_element"} =>
    /\ reduced = given
    /\ reducePc = "done" /\ reduceN = 0 /\ given.alg = "minmax_element" => reduceAnswer = {<<0, 0>>}

LEMMA ReductionsChangeNothing ==
  ASSUME ReduceInv, Unchanged, [Reduce!Next]_Reduce!vars
  PROVE  Unchanged'
<1> SUFFICES ASSUME given.alg \in {"adjacent_find", "minmax_element"} PROVE Unchanged'
  BY DEF Unchanged, Reduce!Next, Reduce!Precheck, Reduce!Begin, Reduce!Return, Reduce!Halve, Reduce!NewBody,
         Reduce!Process, Reduce!Join, Reduce!vars, Reduce!args
<1>1. reducePc = "reduce" => reduceN # 0
  BY DEF ReduceInv, HeldInv, PhaseInv
<1>2. CASE Reduce!Precheck
  BY <1>2, TrivialCases DEF Unchanged, Reduce!Precheck, Reduce!args, Near!FirstTwice
<1>3. CASE Reduce!Begin \/ Reduce!Return
  BY <1>1, <1>3 DEF Unchanged, Reduce!Begin, Reduce!Return, Reduce!args
<1>4. CASE UNCHANGED Reduce!vars \/ \E p \in pieces : Reduce!Halve(p) \/ Reduce!NewBody(p)
  BY <1>4 DEF Unchanged, Reduce!Halve, Reduce!NewBody, Reduce!vars, Reduce!args
<1>5. ASSUME NEW b \in bodies, NEW p \in pieces, Reduce!Process(b, p) PROVE Unchanged'
  <2>1. PICK r \in Brick(reduced, p[1], p[2], b.val) : reduced' = r[1] /\ b.hi = p[1]
    BY <1>5 DEF Reduce!Process
  <2>2. Works(reduceN, reduced, reduced', b.lo, p[2])
    BY <1>1, <2>1, NoPieceLater, ProcessWorks
  <2> QED BY <1>1, <1>5, <2>2, NoPieceLater DEF Unchanged, Works, Reduce!Process, Reduce!args
<1>6. ASSUME NEW b \in bodies, NEW e \in bodies, Reduce!Join(b, e) PROVE Unchanged'
  <2>1. PICK r \in Merge(reduced, b.val, e.val) : reduced' = r[1] /\ b.hi = e.lo /\ e.lo < e.hi
    BY <1>6 DEF Reduce!Join
  <2>2. Works(reduceN, reduced, reduced', b.lo, e.hi) /\ b # e
    BY <2>1, JoinWorks
  <2> QED BY <1>6, <2>2 DEF Unchanged, Works, Reduce!Join, Reduce!args, ReduceInv, PhaseInv
<1> QED BY <1>2, <1>3, <1>4, <1>5, <1>6 DEF Reduce!Next

\* And so do is_sorted and is_sorted_until, which look for a descent, and min_element and
\* max_element, which run minmax_element with the order turned (glue_algorithm_impl.h).
THEOREM ReductionsAreAdapted ==
  Reduce!Spec => [](reducePc = "done" =>
    \A p \in ReductionsAsked, top \in Int : Public!ReducePattern(p, top) = given =>
      \E it \in reduceAnswer : Public!Correct(p, Public!Returned(p, it)))
<1>1. Reduce!Init => ReduceInv /\ Unchanged
  BY ReduceInit, ReduceAssumption DEF Reduce!Init, Unchanged
<1>2. ReduceInv /\ Unchanged /\ [Reduce!Next]_Reduce!vars => (ReduceInv /\ Unchanged)'
  BY ReduceStep, ReductionsChangeNothing, ReduceAssumption
<1>3. ReduceInv /\ Unchanged => (reducePc = "done" =>
    \A p \in ReductionsAsked, top \in Int : Public!ReducePattern(p, top) = given =>
      \E it \in reduceAnswer : Public!Correct(p, Public!Returned(p, it)))
  <2> SUFFICES ASSUME ReduceInv, Unchanged, reducePc = "done", NEW p \in ReductionsAsked, NEW top \in Int,
                      Public!ReducePattern(p, top) = given
               PROVE  \E it \in reduceAnswer : Public!Correct(p, Public!Returned(p, it))
    OBVIOUS
  <2>1. given.alg \in {"adjacent_find", "minmax_element"}
    BY DEF Public!ReducePattern
  <2>2. PICK it \in reduceAnswer : Right(reduceN, given, reduced, it)
    BY DEF ReduceInv, PhaseInv
  <2>3. reduced = given /\ given \in Formed(reduceN) /\ reduceN \in Nat
    BY <2>1 DEF Unchanged, ReduceInv, HeldInv
  <2>4. given.alg = "minmax_element" /\ reduceN = 0 => it = <<0, 0>>
    BY <2>2 DEF Unchanged
  <2> QED BY <2>2, <2>3, <2>4, ReductionIsAdapted
<1> QED BY <1>1, <1>2, <1>3, PTL DEF Reduce!Spec
===============================================================================
