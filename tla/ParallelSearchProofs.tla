------------------------- MODULE ParallelSearchProofs -------------------------
(* Proofs about ParallelFind, for a range of any length, any set of matches    *)
(* and any way to split the range, and about SyclFindOr, for any number and    *)
(* size of work-groups.                                                        *)
EXTENDS ParallelSearch, NaturalLemmas

(* No index of a range is as bad as the initial value of the cell, so a cell   *)
(* that still holds it when a match was compared with it is impossible.        *)
LEMMA MatchBeatsInitial ==
  ASSUME NEW first \in BOOLEAN, NEW size \in Nat, NEW m \in 0..(size - 1)
  PROVE  Better(first, m, Initial(first, size))
BY DEF Better, Initial

\* "Not worse than" is transitive: what loses against a value loses against
\* every better one.
LEMMA BetterTransitive ==
  ASSUME NEW first \in BOOLEAN, NEW a \in Int, NEW b \in Int, NEW d \in Int,
         ~Better(first, a, b), Better(first, d, b) \/ d = b
  PROVE  ~Better(first, a, d)
BY DEF Better

\* The inductive invariant holds initially.
LEMMA InitIInv == Init => IInv
<1> SUFFICES ASSUME Init PROVE IInv
  OBVIOUS
<1> USE DEF Init, Subranges
<1>1. TypeOK
  BY DEF TypeOK, Initial, Running
<1>2. ChunksTile /\ ResultOfChunk /\ OldIsWorse /\ CellIsMatch
  BY DEF ChunksTile, ResultOfChunk, OldIsWorse, CellIsMatch
<1>3. CellFromSearched
  BY DEF CellFromSearched, In, Initial
<1>4. NothingForgotten /\ AnswerIsExtremum /\ AnswerAfterAll
  BY DEF NothingForgotten, AnswerIsExtremum, AnswerAfterAll
<1>5. QED
  BY <1>1, <1>2, <1>3, <1>4 DEF IInv

\* A step of chunk c's task other than its compare-and-swap leaves the cell
\* alone; all that must be shown is what the task itself now claims.
LEMMA CheckIInv ==
  ASSUME IInv, NEW c \in chunks, Check(c)
  PROVE  IInv'
<1> USE DEF IInv, Check, input
<1>1. TypeOK'
  BY DEF TypeOK
<1>2. ASSUME pc'[c] = "done", NEW m \in match, In(m, c)
      PROVE  ~Better(isFirst, m, extremum)
  <2>1. ~Better(isFirst, c[1], extremum) /\ ~In(extremum, c)
    BY <1>2 DEF TypeOK, CellFromSearched
  <2>2. QED
    BY <1>2, <2>1 DEF TypeOK, Better, In, Subranges
<1>3. NothingForgotten'
  BY <1>2 DEF NothingForgotten, TypeOK
<1>4. ChunksTile' /\ ResultOfChunk' /\ OldIsWorse' /\ CellIsMatch'
  BY DEF ChunksTile, ResultOfChunk, OldIsWorse, CellIsMatch, TypeOK
<1>5. CellFromSearched'
  BY DEF CellFromSearched, TypeOK
<1>6. AnswerIsExtremum' /\ AnswerAfterAll'
  BY DEF AnswerIsExtremum, IsAnswer, AnswerAfterAll, TypeOK, Running
<1>7. QED
  BY <1>1, <1>3, <1>4, <1>5, <1>6

LEMMA BrickIInv ==
  ASSUME IInv, NEW c \in chunks, Brick(c)
  PROVE  IInv'
<1> USE DEF IInv, Brick, input
<1>0. PICK r \in c[1]..c[2] :
        /\ BrickResult(isFirst, match, c, r)
        /\ res' = [res EXCEPT ![c] = r]
        /\ pc' = [pc EXCEPT ![c] = IF r # c[2] THEN "load" ELSE "done"]
  OBVIOUS
<1>a. r \in 0..n
  BY DEF TypeOK, Subranges
<1>1. TypeOK'
  BY <1>0, <1>a DEF TypeOK
<1>2. ASSUME r # c[2]
      PROVE  /\ r \in match
             /\ In(r, c)
             /\ \A m \in match : In(m, c) => ~Better(isFirst, m, r)
  BY <1>0, <1>2 DEF BrickResult
<1>3. ASSUME r = c[2], NEW m \in match, In(m, c)
      PROVE  FALSE
  BY <1>0, <1>3 DEF BrickResult, In, TypeOK, Subranges
<1>4. ResultOfChunk'
  <2> SUFFICES ASSUME NEW d \in chunks, pc'[d] \in {"load", "cas"}
               PROVE  /\ res'[d] \in match
                      /\ \A m \in match : In(m, d) => ~Better(isFirst, m, res'[d])
                      /\ In(res'[d], d)
    BY DEF ResultOfChunk
  <2>1. CASE d = c
    BY <1>0, <1>2, <2>1 DEF TypeOK
  <2>2. CASE d # c
    BY <1>0, <2>2 DEF ResultOfChunk, TypeOK
  <2>3. QED
    BY <2>1, <2>2
<1>5. NothingForgotten'
  BY <1>0, <1>3 DEF NothingForgotten, TypeOK
<1>6. ChunksTile' /\ OldIsWorse' /\ CellIsMatch'
  BY <1>0 DEF ChunksTile, OldIsWorse, CellIsMatch, TypeOK
<1>7. CellFromSearched'
  BY <1>0 DEF CellFromSearched, TypeOK
<1>8. AnswerIsExtremum' /\ AnswerAfterAll'
  BY DEF AnswerIsExtremum, IsAnswer, AnswerAfterAll, TypeOK, Running
<1>9. QED
  BY <1>1, <1>4, <1>5, <1>6, <1>7, <1>8

LEMMA LoadIInv ==
  ASSUME IInv, NEW c \in chunks, Load(c)
  PROVE  IInv'
<1> USE DEF IInv, Load, input
<1>1. TypeOK'
  BY DEF TypeOK
<1>2. ASSUME pc'[c] = "done", NEW m \in match, In(m, c)
      PROVE  ~Better(isFirst, m, extremum)
  <2>1. ~Better(isFirst, res[c], extremum) /\ ~Better(isFirst, m, res[c])
    BY <1>2 DEF TypeOK, ResultOfChunk
  <2>2. m \in Int /\ res[c] \in Int /\ extremum \in Int
    BY DEF TypeOK
  <2>3. QED
    BY <2>1, <2>2 DEF Better
<1>3. NothingForgotten'
  BY <1>2 DEF NothingForgotten, TypeOK
<1>4. ResultOfChunk' /\ OldIsWorse'
  BY DEF ResultOfChunk, OldIsWorse, TypeOK
<1>5. ChunksTile' /\ CellIsMatch' /\ CellFromSearched'
  BY DEF ChunksTile, CellIsMatch, CellFromSearched, TypeOK
<1>6. AnswerIsExtremum' /\ AnswerAfterAll'
  BY DEF AnswerIsExtremum, IsAnswer, AnswerAfterAll, TypeOK, Running
<1>7. QED
  BY <1>1, <1>3, <1>4, <1>5, <1>6

\* The one step that changes the cell replaces it by a better value.
LEMMA CasStoreImproves ==
  ASSUME IInv, NEW c \in chunks, CasStore(c)
  PROVE  Better(isFirst, extremum', extremum)
BY DEF IInv, OldIsWorse, CasStore

LEMMA CasStoreIInv ==
  ASSUME IInv, NEW c \in chunks, CasStore(c)
  PROVE  IInv'
<1> USE DEF IInv, CasStore, input
<1>1. TypeOK'
  BY DEF TypeOK
<1>2. NothingForgotten'
  <2> SUFFICES ASSUME NEW d \in chunks, pc'[d] = "done", NEW m \in match, In(m, d)
               PROVE  ~Better(isFirst, m, extremum')
    BY DEF NothingForgotten
  <2>1. ~Better(isFirst, m, extremum)
    BY DEF NothingForgotten, TypeOK
  <2>2. m \in Int /\ extremum \in Int /\ extremum' \in Int
    BY <1>1 DEF TypeOK
  <2>3. QED
    BY <2>1, <2>2, CasStoreImproves, BetterTransitive DEF TypeOK
<1>3. ResultOfChunk' /\ OldIsWorse' /\ ChunksTile'
  BY DEF ResultOfChunk, OldIsWorse, ChunksTile, TypeOK
<1>4. CellIsMatch'
  BY DEF CellIsMatch, ResultOfChunk
<1>5. CellFromSearched'
  <2> SUFFICES ASSUME NEW d \in chunks, In(res[c], d)
               PROVE  pc'[d] \in {"load", "cas", "done"}
    BY DEF CellFromSearched
  <2>1. d = c
    BY DEF ChunksTile, IsTiling, ResultOfChunk, In, TypeOK, Subranges
  <2>2. QED
    BY <2>1 DEF TypeOK
<1>6. AnswerIsExtremum' /\ AnswerAfterAll'
  BY DEF AnswerIsExtremum, IsAnswer, AnswerAfterAll, TypeOK, Running
<1>7. QED
  BY <1>1, <1>2, <1>3, <1>4, <1>5, <1>6

LEMMA CasFailIInv ==
  ASSUME IInv, NEW c \in chunks, CasFail(c)
  PROVE  IInv'
<1> USE DEF IInv, CasFail, input
<1>1. TypeOK'
  BY DEF TypeOK
<1>2. ResultOfChunk' /\ OldIsWorse' /\ NothingForgotten'
  BY DEF ResultOfChunk, OldIsWorse, NothingForgotten, TypeOK
<1>3. ChunksTile' /\ CellIsMatch' /\ CellFromSearched'
  BY DEF ChunksTile, CellIsMatch, CellFromSearched, TypeOK
<1>4. AnswerIsExtremum' /\ AnswerAfterAll'
  BY DEF AnswerIsExtremum, IsAnswer, AnswerAfterAll, TypeOK, Running
<1>5. QED
  BY <1>1, <1>2, <1>3, <1>4

\* When every chunk has been dealt with, the cell is the answer: the chunks cover
\* the range, so a match better than the cell would have been forgotten by one.
LEMMA ReturnIInv ==
  ASSUME IInv, Return
  PROVE  IInv'
<1> USE DEF IInv, Return, input
<1>1. \A m \in match : ~Better(isFirst, m, extremum)
  <2> TAKE m \in match
  <2>1. PICK c \in chunks : In(m, c)
    BY DEF ChunksTile, IsTiling, TypeOK
  <2>2. QED
    BY <2>1 DEF NothingForgotten
<1>2. ASSUME match # {} PROVE extremum \in match /\ answer' = extremum
  <2>1. PICK m \in match : TRUE
    BY <1>2
  <2>2. Better(isFirst, m, Initial(isFirst, n))
    BY MatchBeatsInitial DEF TypeOK
  <2>3. extremum # Initial(isFirst, n)
    BY <1>1, <2>2
  <2>4. QED
    BY <2>3 DEF CellIsMatch
<1>3. ASSUME match = {} PROVE answer' = n
  BY <1>3 DEF CellIsMatch
<1>4. IsAnswer(answer')
  BY <1>1, <1>2, <1>3 DEF IsAnswer
<1>5. TypeOK'
  BY <1>2, <1>3 DEF TypeOK
<1>6. AnswerIsExtremum' /\ AnswerAfterAll'
  BY <1>4 DEF AnswerIsExtremum, IsAnswer, AnswerAfterAll
<1>7. ResultOfChunk' /\ OldIsWorse' /\ NothingForgotten'
  BY DEF ResultOfChunk, OldIsWorse, NothingForgotten
<1>8. ChunksTile' /\ CellIsMatch' /\ CellFromSearched'
  BY DEF ChunksTile, CellIsMatch, CellFromSearched
<1>9. QED
  BY <1>5, <1>6, <1>7, <1>8

\* Every step preserves the inductive invariant.
LEMMA NextIInv == IInv /\ [Next]_vars => IInv'
<1> SUFFICES ASSUME IInv, [Next]_vars PROVE IInv'
  OBVIOUS
<1>1. ASSUME NEW c \in chunks, Step(c) PROVE IInv'
  BY <1>1, CheckIInv, BrickIInv, LoadIInv, CasStoreIInv, CasFailIInv DEF Step
<1>2. CASE Return
  BY <1>2, ReturnIInv
<1>3. CASE UNCHANGED vars
  BY <1>3 DEF IInv, vars, TypeOK, ChunksTile, ResultOfChunk, OldIsWorse, CellIsMatch,
              CellFromSearched, NothingForgotten, AnswerIsExtremum, IsAnswer,
              AnswerAfterAll
<1>4. QED
  BY <1>1, <1>2, <1>3 DEF Next

(* The inductive invariant is an invariant of __parallel_find.                 *)
THEOREM Invariance == Spec => []IInv
BY InitIInv, NextIInv, PTL DEF Spec

(* Type correctness of the model of __parallel_find.                           *)
THEOREM TypeCorrect == Spec => []TypeOK
<1>1. IInv => TypeOK
  BY DEF IInv
<1>2. QED
  BY <1>1, Invariance, PTL

(* The call returns the first (last) match of the whole range, for every       *)
(* length, every set of matches, every split and every interleaving.           *)
THEOREM ReturnsExtremum == Spec => []AnswerIsExtremum
<1>1. IInv => AnswerIsExtremum
  BY DEF IInv
<1>2. QED
  BY <1>1, Invariance, PTL

(* A task that has ended left no match better than the cell in its chunk.      *)
THEOREM EarlyExitIsSafe == Spec => []NothingForgotten
<1>1. IInv => NothingForgotten
  BY DEF IInv
<1>2. QED
  BY <1>1, Invariance, PTL

(* The cell only ever moves to a better value.                                 *)
THEOREM CellNeverWorse == Spec => NeverWorse
<1>1. IInv /\ [Next]_vars =>
        [extremum' # extremum => Better(isFirst, extremum', extremum)]_extremum
  <2> SUFFICES ASSUME IInv, Next PROVE extremum' # extremum => Better(isFirst, extremum', extremum)
    BY DEF vars
  <2>1. ASSUME NEW c \in chunks, CasStore(c) PROVE Better(isFirst, extremum', extremum)
    BY <2>1, CasStoreImproves
  <2>2. QED
    BY <2>1 DEF Next, Step, Check, Brick, Load, CasFail, Return
<1>2. QED
  BY <1>1, Invariance, PTL DEF Spec, NeverWorse

(* __parallel_find implements the priority update its comment names: the       *)
(* compare-and-swap is Improve, the return is Return, all else a stutter.      *)
THEOREM ImplementsPriorityUpdate == Spec => Refines
<1>1. Init => Abstract!Init
  BY DEF Init, Abstract!Init, Initial, Abstract!Initial, Running, Abstract!Running
<1>2. IInv /\ IInv' /\ [Next]_vars => [Abstract!Next]_Abstract!puVars
  <2> SUFFICES ASSUME IInv, IInv', [Next]_vars PROVE [Abstract!Next]_Abstract!puVars
    OBVIOUS
  <2> USE DEF Abstract!puVars, input
  <2>1. ASSUME NEW c \in chunks, CasStore(c) PROVE Abstract!Improve
    <3>1. answer = Running
      BY <2>1 DEF IInv, AnswerAfterAll, CasStore
    <3>2. res[c] \in match /\ Better(isFirst, res[c], extremum)
      BY <2>1 DEF IInv, ResultOfChunk, OldIsWorse, CasStore
    <3>3. QED
      BY <2>1, <3>1, <3>2
      DEF Abstract!Improve, CasStore, Running, Abstract!Running, Better, Abstract!Better
  <2>2. ASSUME Return PROVE Abstract!Return
    <3>1. IsAnswer(answer') /\ answer' \in 0..n
      BY <2>2, ReturnIInv DEF IInv, AnswerIsExtremum, IsAnswer, TypeOK, Return, Running, input,
                              Initial, CellIsMatch
    <3>2. extremum = IF match = {} THEN Initial(isFirst, n) ELSE answer'
      BY <2>2, <3>1 DEF Return, IInv, CellIsMatch, IsAnswer, Initial, TypeOK
    <3>3. QED
      BY <2>2, <3>1, <3>2
      DEF Abstract!Return, Return, IsAnswer, Abstract!IsAnswer, Running, Abstract!Running,
          Initial, Abstract!Initial, Better, Abstract!Better
  <2>3. ASSUME NEW c \in chunks, Check(c) \/ Brick(c) \/ Load(c) \/ CasFail(c)
        PROVE  UNCHANGED Abstract!puVars
    BY <2>3 DEF Check, Brick, Load, CasFail
  <2>4. CASE UNCHANGED vars
    BY <2>4 DEF vars
  <2>5. QED
    BY <2>1, <2>2, <2>3, <2>4 DEF Next, Step, Abstract!Next
<1>3. QED
  BY <1>1, <1>2, Invariance, PTL DEF Spec, Refines, Abstract!Spec
-------------------------------------------------------------------------------
(* The device search. What an item offers to the atomics is the index of a     *)
(* match or, for the or-semantics, 1.                                          *)
Groups == 0..(groups - 1)
Stages == {"init", "search", "load", "cas", "done"}
Offer(m) == IF tag = "or" THEN 1 ELSE m
Worth == {InitValue} \cup {Offer(m) : m \in accept}

DeviceTypeOK ==
  /\ len \in 1..MaxLen
  /\ tag \in {"first", "last", "or"}
  /\ accept \subseteq 0..(len - 1)
  /\ groups \in Nat \ {0}
  /\ stage \in [Groups -> Stages]
  /\ todo \in [Items(groups) -> SUBSET accept]
  /\ read \in [Items(groups) -> Worth \cup {Nothing}]
  /\ foundLocal \in [Groups -> Worth \cup {Nothing}]
  /\ foundGlobal \in Worth
  /\ found \in Int

(* The inductive invariant: a group that has begun holds a value of its own    *)
(* (LocalIsSet), an item between its load and its exchange has something better *)
(* than what it read (ReadIsWorse), an index an item is done with is no better *)
(* than the group's value (LocalForgetsNothing), a group past its second       *)
(* barrier has no items left (GroupHasEnded), one that has ended has nothing   *)
(* better than the global value (GlobalForgetsNothing), and the call returns   *)
(* after all of them.                                                          *)
LocalIsSet == \A g \in Groups : stage[g] # "init" => foundLocal[g] \in Worth
ReadIsWorse ==
  \A i \in Items(groups) : read[i] # Nothing =>
    /\ tag # "or" /\ read[i] \in Worth
    /\ \/ stage[i[1]] = "search" /\ todo[i] # {} /\ Wins(NextIndex(i), read[i])
       \/ stage[i[1]] = "cas" /\ i[2] = 0 /\ Wins(foundLocal[i[1]], read[i])
CasHasRead ==
  \A g \in Groups : /\ stage[g] = "cas" => tag # "or" /\ read[<<g, 0>>] # Nothing
                    /\ stage[g] = "load" /\ tag = "or" => foundLocal[g] = 1
LocalForgets(i) ==
  /\ stage[i[1]] = "init" => todo[i] = accept \cap Examined(len, groups, i[1], i[2])
  /\ stage[i[1]] # "init" =>
       \A m \in (accept \cap Examined(len, groups, i[1], i[2])) \ todo[i] : ~Wins(Offer(m), foundLocal[i[1]])
LocalForgetsNothing == \A i \in Items(groups) : LocalForgets(i)
GroupHasEnded ==
  \A i \in Items(groups) : stage[i[1]] \in {"load", "cas", "done"} => todo[i] = {}
GlobalForgetsNothing ==
  \A g \in Groups : stage[g] = "done" => ~Wins(foundLocal[g], foundGlobal)
ReturnAfterGroups == found # Nothing => \A g \in Groups : stage[g] = "done"

DeviceIInv ==
  /\ DeviceTypeOK /\ LocalIsSet /\ ReadIsWorse /\ CasHasRead /\ LocalForgetsNothing
  /\ GroupHasEnded /\ GlobalForgetsNothing /\ ReturnAfterGroups

(* Facts about the values and their order.                                     *)
LEMMA WorthIsOrdered ==
  ASSUME DeviceTypeOK
  PROVE  /\ Worth \subseteq Int /\ Nothing \notin Worth /\ InitValue \in Worth
         /\ \A m \in accept : Offer(m) \in Worth /\ Wins(Offer(m), InitValue)
         /\ \A a \in Worth : ~Wins(a, a)
         /\ \A a \in Worth, b \in Worth : Wins(a, b) => \E m \in accept : a = Offer(m)
         /\ \A a \in Worth, b \in Worth, d \in Worth : ~Wins(a, b) /\ ~Wins(b, d) => ~Wins(a, d)
         /\ \A a \in Worth, b \in Worth : Wins(a, b) => ~Wins(b, a)
<1> USE DEF DeviceTypeOK, Worth, Offer, InitValue, Wins, Nothing
<1>1. len \in Nat \ {0}
  BY DeviceAssumption
<1>2. \A m \in accept : m \in Nat /\ m < len
  BY <1>1
<1>3. CASE tag = "first"
  BY <1>1, <1>2, <1>3
<1>4. CASE tag = "last"
  BY <1>1, <1>2, <1>4
<1>5. CASE tag = "or"
  BY <1>1, <1>2, <1>5
<1> QED BY <1>3, <1>4, <1>5

LEMMA NextIndexIsLeft ==
  ASSUME DeviceTypeOK, NEW i \in Items(groups), todo[i] # {}
  PROVE  NextIndex(i) \in todo[i] /\ NextIndex(i) \in accept
<1> DEFINE S == todo[i]
<1>1. S \subseteq accept /\ accept \subseteq Nat /\ len \in Nat /\ \A m \in S : m \in Nat /\ m < len
  BY DeviceAssumption DEF DeviceTypeOK
<1>2. \E m \in S : \A k \in S : m <= k
  BY <1>1, LeastNumber
<1>3. \E m \in S : \A k \in S : m >= k
  <2> DEFINE T == {len - m : m \in S}
  <2>1. T \subseteq Nat /\ T # {}
    BY <1>1
  <2>2. PICK y \in T : \A z \in T : y <= z
    <3> HIDE DEF T
    <3> QED BY <2>1, LeastNumber
  <2>3. PICK m \in S : y = len - m
    BY <2>2
  <2>4. \A k \in S : len - m <= len - k
    BY <2>2, <2>3
  <2> HIDE DEF S
  <2> QED BY <1>1, <2>3, <2>4
<1>4. Max(S) \in S /\ Min(S) \in S
  BY <1>2, <1>3 DEF Max, Min
<1> QED BY <1>1, <1>4 DEF NextIndex

(* Every index of the range is examined by some item: its group is the one of  *)
(* its block of WgSize * iters indices, its line the one of its Shift * iters  *)
(* indices in the block, its iteration and its place in the line what remains. *)
LEMMA ItemsCoverTheRange ==
  ASSUME NEW m \in Nat \ {0}, NEW count \in Nat \ {0}, NEW k \in 0..(m - 1)
  PROVE  \E i \in Items(count) : k \in Examined(m, count, i[1], i[2])
<1> DEFINE W      == WgSize
           iters  == (m - 1) \div (count * W) + 1
           block  == W * iters
           g      == k \div block
           o      == k - block * g
           piece  == Shift * iters
           b      == o \div piece
           q      == o - piece * b
           leader == b * Shift
           width  == IF Shift <= W - leader THEN Shift ELSE W - leader
           j      == q \div width
           s      == q - width * j
           l      == leader + s
<1>1. W \in Nat \ {0} /\ Shift \in Nat \ {0} /\ m - 1 \in Nat /\ k \in Nat /\ k <= m - 1
  BY DeviceAssumption
<1>2. count * W \in Nat \ {0}
  <2> HIDE DEF W
  <2> QED BY <1>1
<1>3. iters \in Nat \ {0} /\ m - 1 < (count * W) * iters
  <2> DEFINE d == (m - 1) \div (count * W)
  <2>1. d \in Nat /\ m - 1 - (count * W) * d < count * W
    BY <1>1, <1>2, Division
  <2> HIDE DEF d
  <2>2. (count * W) * (d + 1) = (count * W) * d + count * W
    BY <1>2, <2>1
  <2> DEFINE cw == count * W
  <2>3. cw * d \in Nat /\ cw \in Nat
    BY <1>2, <2>1
  <2> HIDE DEF cw
  <2>4. m - 1 < cw * d + cw
    BY <1>1, <2>1, <2>3 DEF cw
  <2> QED BY <2>1, <2>2, <2>4 DEF d, cw
<1> HIDE DEF iters
<1>4. block \in Nat \ {0} /\ piece \in Nat \ {0} /\ (count * W) * iters = count * block
  <2> HIDE DEF W
  <2> QED BY <1>1, <1>3
<1> HIDE DEF block, piece
<1>5. g \in Nat /\ o \in Nat /\ o < block /\ k = block * g + o
  <2>1. g \in Nat /\ block * g <= k /\ k - block * g < block
    BY <1>1, <1>4, Division
  <2>2. block * g \in Nat
    <3> HIDE DEF g
    <3> QED BY <1>4, <2>1
  <2> HIDE DEF g
  <2> QED BY <1>1, <2>1, <2>2
<1> HIDE DEF g, o
<1>6. g < count
  <2>1. g >= count => block * g >= count * block
    <3>1. g >= count => block * (g - count) >= 0
      BY <1>4, <1>5
    <3> QED BY <1>4, <1>5, <3>1
  <2>2. block * g \in Nat /\ count * block \in Nat
    BY <1>4, <1>5
  <2> QED BY <1>1, <1>3, <1>4, <1>5, <2>1, <2>2
<1>7. b \in Nat /\ q \in Nat /\ q < piece /\ o = piece * b + q
  <2>1. b \in Nat /\ piece * b <= o /\ o - piece * b < piece
    BY <1>4, <1>5, Division
  <2>2. piece * b \in Nat
    <3> HIDE DEF b
    <3> QED BY <1>4, <2>1
  <2> HIDE DEF b
  <2> QED BY <1>5, <2>1, <2>2
<1> HIDE DEF b, q
<1>8. leader \in Nat /\ piece * b = leader * iters
  BY <1>1, <1>3, <1>7 DEF piece
<1> HIDE DEF leader
<1>9. q < (W - leader) * iters /\ leader < W
  <2>1. (W - leader) * iters = block - leader * iters
    BY <1>1, <1>3, <1>8 DEF block, W
  <2>2. leader * iters \in Nat
    BY <1>3, <1>8
  <2>3. q < block - leader * iters
    BY <1>4, <1>5, <1>7, <1>8, <2>2
  <2>4. leader >= W => (W - leader) * iters <= 0
    <3>1. leader >= W => (leader - W) * iters >= 0
      BY <1>1, <1>3, <1>8
    <3> QED BY <1>1, <1>3, <1>8, <3>1
  <2>5. (W - leader) * iters \in Int
    BY <1>1, <1>3, <1>8
  <2> QED BY <1>1, <1>7, <1>8, <2>1, <2>3, <2>4, <2>5
<1>10. width \in Nat \ {0} /\ q < width * iters /\ width <= Shift /\ width <= W - leader
  BY <1>1, <1>7, <1>8, <1>9 DEF piece
<1> HIDE DEF width
<1>11. j \in Nat /\ s \in Nat /\ s < width /\ q = width * j + s
  <2>1. j \in Nat /\ width * j <= q /\ q - width * j < width
    BY <1>7, <1>10, Division
  <2>2. width * j \in Nat
    <3> HIDE DEF j
    <3> QED BY <1>10, <2>1
  <2> HIDE DEF j
  <2> QED BY <1>7, <2>1, <2>2
<1> HIDE DEF j, s
<1>12. j < iters
  <2>1. j >= iters => width * j >= width * iters
    <3>1. j >= iters => width * (j - iters) >= 0
      BY <1>3, <1>10, <1>11
    <3> QED BY <1>3, <1>10, <1>11, <3>1
  <2> DEFINE wj == width * j
             wi == width * iters
  <2>2. wj \in Nat /\ wi \in Nat /\ q = wj + s /\ q < wi /\ (j >= iters => wj >= wi)
    BY <1>3, <1>10, <1>11, <2>1
  <2> HIDE DEF wj, wi
  <2> QED BY <1>3, <1>11, <2>2
<1>13. l \in 0..(W - 1)
  BY <1>1, <1>8, <1>10, <1>11
<1>14. l \div Shift = b /\ l % Shift = s
  <2>1. s \in 0..(Shift - 1)
    BY <1>1, <1>10, <1>11
  <2>2. l = Shift * b + s
    BY <1>1, <1>7, <1>11 DEF leader
  <2> HIDE DEF l
  <2> QED BY <1>1, <1>7, <2>1, <2>2, DivisionUnique
<1>15. k = g * W * iters + leader * iters + s + j * width
  <2>1. block * g = g * W * iters
    BY <1>1, <1>3, <1>5 DEF block, W
  <2>2. k = block * g + (leader * iters + (width * j + s))
    BY <1>5, <1>7, <1>8, <1>11
  <2>3. width * j = j * width /\ width * j \in Nat /\ leader * iters \in Nat /\ block * g \in Nat
    BY <1>3, <1>4, <1>5, <1>8, <1>10, <1>11
  <2> HIDE DEF W
  <2>4. block * g = g * W * iters /\ g * W * iters \in Nat
    BY <2>1, <2>3
  <2> QED BY <1>11, <2>2, <2>3, <2>4
<1>16. Min({Shift, W - leader}) = width
  <2>1. W - leader \in Int
    BY <1>1, <1>8
  <2> QED BY <1>1, <2>1 DEF Min, width
<1>17. k \in Examined(m, count, g, l)
  <2>1. (l \div Shift) * Shift = leader
    BY <1>14 DEF leader
  <2>2. j \in 0..(iters - 1) /\ k < m
    BY <1>1, <1>3, <1>11, <1>12
  <2>3. Examined(m, count, g, l) =
          {e \in {g * W * iters + leader * iters + s + x * width : x \in 0..(iters - 1)} : e < m}
    BY <1>14, <1>16, <2>1 DEF Examined, iters, W
  <2> DEFINE places == {g * W * iters + leader * iters + s + x * width : x \in 0..(iters - 1)}
  <2>4. k \in places
    <3> HIDE DEF W, l
    <3> QED BY <1>15, <2>2
  <2>5. Examined(m, count, g, l) = {e \in places : e < m}
    BY <2>3
  <2> HIDE DEF places, l
  <2> QED BY <2>2, <2>4, <2>5
<1>18. <<g, l>> \in Items(count)
  BY <1>5, <1>6, <1>13 DEF Items
<1> QED BY <1>17, <1>18

(* No step changes the call, nor anything that depends on nothing else.        *)
LEMMA CallKept ==
  ASSUME UNCHANGED call
  PROVE  /\ Groups' = Groups /\ InitValue' = InitValue /\ Worth' = Worth
         /\ Items(groups)' = Items(groups)
         /\ \A m : Offer(m)' = Offer(m)
         /\ \A a, b : Wins(a, b)' = Wins(a, b)
         /\ \A i : Examined(len, groups, i[1], i[2])' = Examined(len, groups, i[1], i[2])
BY DEF call, Groups, InitValue, Worth, Offer, Wins

LEMMA ItemGroup ==
  ASSUME NEW i \in Items(groups)
  PROVE  i[1] \in Groups /\ i[2] \in 0..(WgSize - 1) /\ i = <<i[1], i[2]>>
BY DEF Items, Groups

LEMMA LeaderItem ==
  ASSUME NEW g \in Groups
  PROVE  <<g, 0>> \in Items(groups)
BY DeviceAssumption DEF Items, Groups

(* What an item has done stays done when the group's value gets better.        *)
LEMMA BetterForgetsNothing ==
  ASSUME DeviceTypeOK, NEW a \in Worth, NEW was \in Worth, NEW now \in Worth,
         ~Wins(a, was), now = was \/ Wins(now, was)
  PROVE  ~Wins(a, now)
<1>1. ~Wins(was, now)
  BY WorthIsOrdered
<1> QED BY <1>1, WorthIsOrdered

LEMMA DeviceInitIInv == FindInit => DeviceIInv
<1> SUFFICES ASSUME FindInit PROVE DeviceIInv
  OBVIOUS
<1> USE DEF FindInit
<1>1. groups \in Nat \ {0}
  <2>1. PICK units \in 1..MaxUnits : groups = GroupCount(len, units)
    OBVIOUS
  <2> DEFINE a == (len - 1) \div WgSize + 1
  <2>2. units \in Nat \ {0}
    BY DeviceAssumption
  <2>3. a \in Nat \ {0}
    <3>1. len - 1 \in Nat /\ WgSize \in Nat \ {0}
      BY DeviceAssumption
    <3> QED BY <3>1, Division
  <2> HIDE DEF a
  <2>4. Min({a, units}) \in {a, units}
    <3>1. a <= units \/ units <= a
      BY <2>2, <2>3
    <3>2. \E x \in {a, units} : \A y \in {a, units} : x <= y
      BY <2>2, <2>3, <3>1
    <3> QED BY <3>2 DEF Min
  <2> QED BY <2>1, <2>2, <2>3, <2>4 DEF GroupCount, a
<1>2. DeviceTypeOK
  BY <1>1 DEF DeviceTypeOK, Groups, Stages, Worth, Nothing
<1>3. \A g \in Groups : stage[g] = "init"
  BY DEF Groups
<1>4. \A i \in Items(groups) : stage[i[1]] = "init"
  BY <1>3, ItemGroup
<1>5. LocalForgetsNothing
  BY <1>4 DEF LocalForgetsNothing, LocalForgets
<1> QED BY <1>2, <1>3, <1>4, <1>5
     DEF DeviceIInv, LocalIsSet, ReadIsWorse, CasHasRead, GroupHasEnded, GlobalForgetsNothing,
         ReturnAfterGroups

LEMMA SetLocalIInv ==
  ASSUME DeviceIInv, NEW g \in Groups, SetLocal(g)
  PROVE  DeviceIInv'
<1> USE DEF DeviceIInv, SetLocal
<1> USE CallKept
<1>1. InitValue \in Worth
  BY DEF Worth
<1>2. DeviceTypeOK'
  BY <1>1 DEF DeviceTypeOK, call, Stages
<1>3. \A h \in Groups : h # g => stage'[h] = stage[h] /\ foundLocal'[h] = foundLocal[h]
  BY DEF DeviceTypeOK
<1>4. stage'[g] = "search" /\ foundLocal'[g] = InitValue
  BY DEF DeviceTypeOK
<1>5. LocalIsSet'
  BY <1>1, <1>3, <1>4 DEF LocalIsSet
<1>6. ReadIsWorse'
  <2> SUFFICES ASSUME NEW i \in Items(groups), read[i] # Nothing
               PROVE  /\ tag # "or" /\ read[i] \in Worth
                      /\ \/ stage'[i[1]] = "search" /\ todo[i] # {} /\ Wins(NextIndex(i), read[i])
                         \/ stage'[i[1]] = "cas" /\ i[2] = 0 /\ Wins(foundLocal'[i[1]], read[i])
    BY DEF ReadIsWorse, NextIndex, Wins, call
  <2>1. i[1] \in Groups /\ i[1] # g
    BY ItemGroup DEF ReadIsWorse
  <2> QED BY <1>3, <2>1 DEF ReadIsWorse
<1>7. CasHasRead'
  BY ZenonT(60), <1>3, <1>4 DEF CasHasRead, call
<1>8. LocalForgetsNothing'
  <2> SUFFICES ASSUME NEW i \in Items(groups)
               PROVE  /\ stage'[i[1]] = "init" => todo[i] = accept \cap Examined(len, groups, i[1], i[2])
                      /\ stage'[i[1]] # "init" =>
                           \A m \in (accept \cap Examined(len, groups, i[1], i[2])) \ todo[i] :
                             ~Wins(Offer(m), foundLocal'[i[1]])
    BY DEF LocalForgetsNothing, LocalForgets, call
  <2>1. CASE i[1] = g
    BY <1>4, <2>1 DEF LocalForgetsNothing, LocalForgets
  <2>2. CASE i[1] # g
    BY <1>3, <2>2, ItemGroup DEF LocalForgetsNothing, LocalForgets
  <2> QED BY <2>1, <2>2
<1>9. GroupHasEnded'
  BY <1>3, <1>4, ItemGroup DEF GroupHasEnded
<1>10. GlobalForgetsNothing'
  <2> SUFFICES ASSUME NEW h \in Groups, stage'[h] = "done" PROVE ~Wins(foundLocal'[h], foundGlobal)
    BY DEF GlobalForgetsNothing
  <2> QED BY <1>3, <1>4 DEF GlobalForgetsNothing
<1>11. ReturnAfterGroups'
  BY <1>3 DEF ReturnAfterGroups
<1> QED BY <1>2, <1>5, <1>6, <1>7, <1>8, <1>9, <1>10, <1>11

(* What an item of a group that searches must still show after a step of it,   *)
(* or of another item of the group: the groups' stages are unchanged.          *)
LEMMA StoreLocalIInv ==
  ASSUME DeviceIInv, NEW i \in Items(groups), StoreLocal(i)
  PROVE  DeviceIInv'
<1> USE DEF DeviceIInv, StoreLocal
<1> USE CallKept
<1> DEFINE g == i[1]
<1>1. g \in Groups /\ stage[g] = "search" /\ tag = "or"
  BY ItemGroup
<1>2. 1 \in Worth
  BY DEF DeviceTypeOK, Worth, Offer
<1>3. \A j \in Items(groups) : todo'[j] \subseteq todo[j] /\ (j # i => todo'[j] = todo[j])
  BY DEF DeviceTypeOK
<1>4. DeviceTypeOK'
  BY <1>2 DEF DeviceTypeOK, call
<1>5. \A h \in Groups : foundLocal'[h] = IF h = g THEN 1 ELSE foundLocal[h]
  BY <1>1 DEF DeviceTypeOK
<1>6. LocalIsSet'
  BY <1>2, <1>5 DEF LocalIsSet
<1>7. ReadIsWorse' /\ CasHasRead'
  BY <1>1, <1>5 DEF ReadIsWorse, CasHasRead, call
<1>8. LocalForgetsNothing'
  <2> USE DEF LocalForgetsNothing, LocalForgets, call
  <2> SUFFICES ASSUME NEW j \in Items(groups) PROVE LocalForgets(j)'
    OBVIOUS
  <2>1. CASE j[1] = g
    BY <1>1, <1>5, <2>1 DEF Wins
  <2>2. CASE j[1] # g
    BY <1>3, <1>5, <2>2, ItemGroup
  <2> QED BY <2>1, <2>2
<1>9. GroupHasEnded'
  BY <1>3 DEF GroupHasEnded
<1>10. GlobalForgetsNothing'
  <2> SUFFICES ASSUME NEW h \in Groups, stage[h] = "done" PROVE ~Wins(foundLocal'[h], foundGlobal)
    BY DEF GlobalForgetsNothing
  <2> QED BY <1>1, <1>5 DEF GlobalForgetsNothing
<1>11. ReturnAfterGroups'
  BY DEF ReturnAfterGroups
<1> QED BY <1>4, <1>6, <1>7, <1>8, <1>9, <1>10, <1>11

LEMMA LoadLocalIInv ==
  ASSUME DeviceIInv, NEW i \in Items(groups), LoadLocal(i)
  PROVE  DeviceIInv'
<1> USE DEF DeviceIInv, LoadLocal
<1> USE CallKept
<1> DEFINE g == i[1]
<1>1. g \in Groups /\ stage[g] = "search" /\ tag # "or" /\ stage' = stage /\ foundLocal' = foundLocal
  BY ItemGroup
<1>2. foundLocal[g] \in Worth /\ foundLocal[g] # Nothing
  BY <1>1, WorthIsOrdered DEF LocalIsSet
<1>3. \A j \in Items(groups) : j # i => todo'[j] = todo[j] /\ read'[j] = read[j]
  BY DEF DeviceTypeOK
<1>4. DeviceTypeOK'
  BY <1>2 DEF DeviceTypeOK, call
<1>5. LocalIsSet'
  BY <1>1 DEF LocalIsSet
<1>6. ReadIsWorse'
  <2> SUFFICES ASSUME NEW j \in Items(groups), read'[j] # Nothing
               PROVE  /\ tag # "or" /\ read'[j] \in Worth
                      /\ \/ /\ stage[j[1]] = "search" /\ todo'[j] # {}
                            /\ Wins((IF tag = "last" THEN Max(todo'[j]) ELSE Min(todo'[j])), read'[j])
                         \/ stage[j[1]] = "cas" /\ j[2] = 0 /\ Wins(foundLocal[j[1]], read'[j])
    BY ZenonT(60), <1>1 DEF ReadIsWorse, NextIndex, Wins, call
  <2>1. CASE j # i
    BY <1>3, <2>1 DEF ReadIsWorse, NextIndex
  <2>2. CASE j = i
    <3>1. Wins(NextIndex(i), foundLocal[g])
      BY <2>2
    <3>2. todo' = todo /\ read'[i] = foundLocal[g]
      BY <3>1 DEF DeviceTypeOK
    <3> QED BY <1>1, <1>2, <2>2, <3>1, <3>2 DEF NextIndex
  <2> QED BY <2>1, <2>2
<1>7. CasHasRead'
  <2> SUFFICES ASSUME NEW h \in Groups
               PROVE  /\ stage[h] = "cas" => read'[<<h, 0>>] # Nothing
    BY <1>1 DEF CasHasRead, call
  <2> QED BY <1>1, <1>3, LeaderItem DEF CasHasRead
<1>8. LocalForgetsNothing'
  <2> USE DEF LocalForgetsNothing, LocalForgets, call
  <2> SUFFICES ASSUME NEW j \in Items(groups) PROVE LocalForgets(j)'
    OBVIOUS
  <2>1. CASE j # i \/ todo' = todo
    BY <1>3, <2>1
  <2>2. CASE j = i /\ todo' # todo
    <3>1. ~Wins(NextIndex(i), foundLocal[g]) /\ todo'[i] = todo[i] \ {NextIndex(i)}
      BY <2>2 DEF DeviceTypeOK
    <3>2. Offer(NextIndex(i)) = NextIndex(i)
      BY <1>1 DEF Offer
    <3> QED BY <1>1, <2>2, <3>1, <3>2
  <2> QED BY <2>1, <2>2
<1>9. GroupHasEnded'
  BY <1>1, <1>3 DEF GroupHasEnded
<1>10. GlobalForgetsNothing' /\ ReturnAfterGroups'
  BY <1>1 DEF GlobalForgetsNothing, ReturnAfterGroups
<1> QED BY <1>4, <1>5, <1>6, <1>7, <1>8, <1>9, <1>10

LEMMA CasLocalIInv ==
  ASSUME DeviceIInv, NEW i \in Items(groups), CasLocal(i)
  PROVE  DeviceIInv'
<1> USE DEF DeviceIInv, CasLocal
<1> USE CallKept
<1> DEFINE g == i[1]
<1>1. /\ g \in Groups /\ stage[g] = "search" /\ stage' = stage /\ todo' = todo
      /\ tag # "or" /\ todo[i] # {} /\ read[i] \in Worth /\ Wins(NextIndex(i), read[i])
  BY ItemGroup DEF ReadIsWorse
<1>2. NextIndex(i) \in accept /\ NextIndex(i) \in Worth /\ foundLocal[g] \in Worth
  BY <1>1, NextIndexIsLeft DEF LocalIsSet, Worth, Offer
<1>3. /\ foundLocal'[g] \in Worth
      /\ foundLocal'[g] = foundLocal[g] \/ Wins(foundLocal'[g], foundLocal[g])
      /\ \A h \in Groups : h # g => foundLocal'[h] = foundLocal[h]
  BY <1>1, <1>2 DEF DeviceTypeOK
<1>4. \A j \in Items(groups) : read'[j] = IF j = i THEN Nothing ELSE read[j]
  BY DEF DeviceTypeOK
<1>5. DeviceTypeOK'
  BY <1>2 DEF DeviceTypeOK, call
<1>6. LocalIsSet'
  BY <1>1, <1>3 DEF LocalIsSet
<1>7. ReadIsWorse'
  <2> SUFFICES ASSUME NEW j \in Items(groups), read'[j] # Nothing
               PROVE  /\ tag # "or" /\ read'[j] \in Worth
                      /\ \/ stage[j[1]] = "search" /\ todo[j] # {} /\ Wins(NextIndex(j), read'[j])
                         \/ stage[j[1]] = "cas" /\ j[2] = 0 /\ Wins(foundLocal'[j[1]], read'[j])
    BY ZenonT(60), <1>1 DEF ReadIsWorse, NextIndex, Wins, call
  <2> QED BY <1>1, <1>3, <1>4, ItemGroup DEF ReadIsWorse
<1>8. CasHasRead'
  <2> SUFFICES ASSUME NEW h \in Groups
               PROVE  /\ stage[h] = "cas" => read'[<<h, 0>>] # Nothing
    BY <1>1 DEF CasHasRead, call
  <2> QED BY <1>1, <1>4, LeaderItem DEF CasHasRead
<1>9. LocalForgetsNothing'
  <2> USE DEF LocalForgetsNothing, LocalForgets, call
  <2> SUFFICES ASSUME NEW j \in Items(groups) PROVE LocalForgets(j)'
    BY <1>1
  <2>1. CASE j[1] = g
    <3> SUFFICES ASSUME NEW m \in (accept \cap Examined(len, groups, j[1], j[2])) \ todo[j]
                 PROVE  ~Wins(Offer(m), foundLocal'[g])
      BY <1>1, <2>1
    <3>1. ~Wins(Offer(m), foundLocal[g]) /\ Offer(m) \in Worth
      BY <1>1, <2>1, WorthIsOrdered
    <3> QED BY <1>2, <1>3, <3>1, BetterForgetsNothing
  <2>2. CASE j[1] # g
    BY <1>3, <2>2, ItemGroup
  <2> QED BY <2>1, <2>2
<1>10. GroupHasEnded'
  BY <1>1 DEF GroupHasEnded
<1>11. GlobalForgetsNothing'
  <2> SUFFICES ASSUME NEW h \in Groups, stage[h] = "done" PROVE ~Wins(foundLocal'[h], foundGlobal)
    BY <1>1 DEF GlobalForgetsNothing
  <2> QED BY <1>1, <1>3 DEF GlobalForgetsNothing
<1>12. ReturnAfterGroups'
  BY <1>1 DEF ReturnAfterGroups
<1> QED BY <1>5, <1>6, <1>7, <1>8, <1>9, <1>10, <1>11, <1>12

LEMMA TestGlobalIInv ==
  ASSUME DeviceIInv, NEW g \in Groups, TestGlobal(g)
  PROVE  DeviceIInv'
<1> USE DEF DeviceIInv, TestGlobal
<1> USE CallKept
<1>1. \A j \in Items(groups) : j[1] = g => todo[j] = {}
  BY DEF DeviceTypeOK
<1>2. \A j \in Items(groups) : j[1] = g => read[j] = Nothing
  BY <1>1 DEF ReadIsWorse
<1>3. \A h \in Groups : h # g => stage'[h] = stage[h]
  BY DEF DeviceTypeOK
<1>4. stage'[g] = IF Wins(foundLocal[g], foundGlobal) THEN "load" ELSE "done"
  BY DEF DeviceTypeOK
<1>5. DeviceTypeOK'
  BY DEF DeviceTypeOK, call, Stages
<1>6. LocalIsSet'
  BY <1>3, <1>4 DEF LocalIsSet
<1>7. ReadIsWorse'
  <2> SUFFICES ASSUME NEW j \in Items(groups), read[j] # Nothing
               PROVE  /\ tag # "or" /\ read[j] \in Worth
                      /\ \/ stage'[j[1]] = "search" /\ todo[j] # {} /\ Wins(NextIndex(j), read[j])
                         \/ stage'[j[1]] = "cas" /\ j[2] = 0 /\ Wins(foundLocal[j[1]], read[j])
    BY DEF ReadIsWorse, NextIndex, Wins, call
  <2>1. j[1] # g
    BY <1>2
  <2>2. stage'[j[1]] = stage[j[1]]
    BY <2>1, <1>3, ItemGroup
  <2> QED BY <2>2 DEF ReadIsWorse
<1>8. CasHasRead'
  <2>1. tag = "or" /\ Wins(foundLocal[g], foundGlobal) => foundLocal[g] = 1
    BY DEF Wins
  <2> SUFFICES ASSUME NEW h \in Groups
               PROVE  /\ stage'[h] = "cas" => tag # "or" /\ read[<<h, 0>>] # Nothing
                      /\ stage'[h] = "load" /\ tag = "or" => foundLocal[h] = 1
    BY DEF CasHasRead, call
  <2> QED BY <1>3, <1>4, <2>1 DEF CasHasRead
<1>9. LocalForgetsNothing'
  <2> USE DEF LocalForgetsNothing, LocalForgets, call
  <2> SUFFICES ASSUME NEW j \in Items(groups) PROVE LocalForgets(j)'
    OBVIOUS
  <2>1. stage'[j[1]] = "init" <=> stage[j[1]] = "init"
    BY <1>3, <1>4, ItemGroup
  <2> QED BY <2>1
<1>10. GroupHasEnded'
  BY <1>1, <1>3, ItemGroup DEF GroupHasEnded
<1>11. GlobalForgetsNothing'
  <2> SUFFICES ASSUME NEW h \in Groups, stage'[h] = "done" PROVE ~Wins(foundLocal[h], foundGlobal)
    BY DEF GlobalForgetsNothing
  <2> QED BY <1>3, <1>4 DEF GlobalForgetsNothing
<1>12. ReturnAfterGroups'
  BY <1>3 DEF ReturnAfterGroups
<1> QED BY <1>5, <1>6, <1>7, <1>8, <1>9, <1>10, <1>11, <1>12

LEMMA StoreGlobalIInv ==
  ASSUME DeviceIInv, NEW g \in Groups, StoreGlobal(g)
  PROVE  DeviceIInv'
<1> USE DEF DeviceIInv, StoreGlobal
<1> USE CallKept
<1>1. foundLocal[g] = 1 /\ 1 \in Worth
  BY DEF CasHasRead, LocalIsSet
<1>2. \A h \in Groups : h # g => stage'[h] = stage[h]
  BY DEF DeviceTypeOK
<1>3. stage'[g] = "done" /\ foundGlobal' = 1
  BY DEF DeviceTypeOK
<1>4. DeviceTypeOK'
  BY <1>1 DEF DeviceTypeOK, call, Stages
<1>5. LocalIsSet'
  BY <1>2, <1>3 DEF LocalIsSet
<1>6. ReadIsWorse' /\ CasHasRead'
  BY <1>2, <1>3 DEF ReadIsWorse, CasHasRead, call
<1>7. LocalForgetsNothing'
  <2> USE DEF LocalForgetsNothing, LocalForgets, call
  <2> SUFFICES ASSUME NEW j \in Items(groups) PROVE LocalForgets(j)'
    OBVIOUS
  <2>1. stage'[j[1]] = "init" <=> stage[j[1]] = "init"
    BY <1>2, <1>3, ItemGroup
  <2> QED BY <2>1
<1>8. GroupHasEnded'
  BY <1>2, ItemGroup DEF GroupHasEnded
<1>9. GlobalForgetsNothing'
  <2> SUFFICES ASSUME NEW h \in Groups PROVE ~Wins(foundLocal[h], foundGlobal')
    BY DEF GlobalForgetsNothing
  <2> QED BY <1>3 DEF Wins
<1>10. ReturnAfterGroups'
  BY <1>2 DEF ReturnAfterGroups
<1> QED BY <1>4, <1>5, <1>6, <1>7, <1>8, <1>9, <1>10

LEMMA LoadGlobalIInv ==
  ASSUME DeviceIInv, NEW g \in Groups, LoadGlobal(g)
  PROVE  DeviceIInv'
<1> USE DEF DeviceIInv, LoadGlobal
<1> USE CallKept
<1>1. \A h \in Groups : h # g => stage'[h] = stage[h]
  BY DEF DeviceTypeOK
<1>2. stage'[g] = IF Wins(foundLocal[g], foundGlobal) THEN "cas" ELSE "done"
  BY DEF DeviceTypeOK
<1>3. \A j \in Items(groups) : j # <<g, 0>> => read'[j] = read[j]
  BY DEF DeviceTypeOK
<1>4. \A j \in Items(groups) : j[1] = g => read[j] = Nothing
  BY DEF ReadIsWorse
<1>5. foundGlobal \in Worth /\ foundGlobal # Nothing
  BY WorthIsOrdered DEF DeviceTypeOK
<1>6. Wins(foundLocal[g], foundGlobal) => read'[<<g, 0>>] = foundGlobal
  BY LeaderItem DEF DeviceTypeOK
<1>7. DeviceTypeOK'
  BY <1>5 DEF DeviceTypeOK, call, Stages
<1>8. LocalIsSet'
  BY <1>1, <1>2 DEF LocalIsSet
<1>9. ReadIsWorse'
  <2> SUFFICES ASSUME NEW j \in Items(groups), read'[j] # Nothing
               PROVE  /\ tag # "or" /\ read'[j] \in Worth
                      /\ \/ stage'[j[1]] = "search" /\ todo[j] # {} /\ Wins(NextIndex(j), read'[j])
                         \/ stage'[j[1]] = "cas" /\ j[2] = 0 /\ Wins(foundLocal[j[1]], read'[j])
    BY DEF ReadIsWorse, NextIndex, Wins, call
  <2>1. CASE j[1] # g
    BY <1>1, <1>3, <2>1, ItemGroup DEF ReadIsWorse
  <2>2. CASE j[1] = g
    <3>1. j = <<g, 0>> /\ Wins(foundLocal[g], foundGlobal)
      BY <1>3, <1>4, <2>2
    <3> QED BY <1>2, <1>5, <1>6, <2>2, <3>1
  <2> QED BY <2>1, <2>2
<1>10. CasHasRead'
  <2> SUFFICES ASSUME NEW h \in Groups
               PROVE  stage'[h] = "cas" => read'[<<h, 0>>] # Nothing
    BY DEF CasHasRead, call
  <2> QED BY <1>1, <1>2, <1>3, <1>5, <1>6, LeaderItem DEF CasHasRead
<1>11. LocalForgetsNothing'
  <2> USE DEF LocalForgetsNothing, LocalForgets, call
  <2> SUFFICES ASSUME NEW j \in Items(groups) PROVE LocalForgets(j)'
    OBVIOUS
  <2>1. stage'[j[1]] = "init" <=> stage[j[1]] = "init"
    BY <1>1, <1>2, ItemGroup
  <2> QED BY <2>1
<1>12. GroupHasEnded'
  BY <1>1, ItemGroup DEF GroupHasEnded
<1>13. GlobalForgetsNothing'
  <2> SUFFICES ASSUME NEW h \in Groups, stage'[h] = "done" PROVE ~Wins(foundLocal[h], foundGlobal)
    BY DEF GlobalForgetsNothing
  <2> QED BY <1>1, <1>2 DEF GlobalForgetsNothing
<1>14. ReturnAfterGroups'
  BY <1>1 DEF ReturnAfterGroups
<1> QED BY <1>7, <1>8, <1>9, <1>10, <1>11, <1>12, <1>13, <1>14

LEMMA CasGlobalIInv ==
  ASSUME DeviceIInv, NEW g \in Groups, CasGlobal(g)
  PROVE  /\ DeviceIInv'
         /\ foundGlobal' = foundGlobal \/ Wins(foundGlobal', foundGlobal)
<1> USE DEF DeviceIInv, CasGlobal
<1> USE CallKept
<1>1. \A h \in Groups : h # g => stage'[h] = stage[h]
  BY DEF DeviceTypeOK
<1>2. stage'[g] = "load" /\ tag # "or" /\ foundLocal[g] \in Worth
  BY DEF DeviceTypeOK, CasHasRead, LocalIsSet
<1>3. \A j \in Items(groups) : read'[j] = IF j = <<g, 0>> THEN Nothing ELSE read[j]
  BY DEF DeviceTypeOK
<1>4. Wins(foundLocal[g], read[<<g, 0>>])
  BY LeaderItem DEF CasHasRead, ReadIsWorse
<1>5. foundGlobal' \in Worth /\ (foundGlobal' = foundGlobal \/ Wins(foundGlobal', foundGlobal))
  BY <1>2, <1>4 DEF DeviceTypeOK
<1>6. DeviceTypeOK'
  BY <1>5 DEF DeviceTypeOK, call, Stages
<1>7. LocalIsSet'
  BY <1>1, <1>2 DEF LocalIsSet
<1>8. ReadIsWorse'
  <2> SUFFICES ASSUME NEW j \in Items(groups), read'[j] # Nothing
               PROVE  /\ tag # "or" /\ read'[j] \in Worth
                      /\ \/ stage'[j[1]] = "search" /\ todo[j] # {} /\ Wins(NextIndex(j), read'[j])
                         \/ stage'[j[1]] = "cas" /\ j[2] = 0 /\ Wins(foundLocal[j[1]], read'[j])
    BY DEF ReadIsWorse, NextIndex, Wins, call
  <2>1. j # <<g, 0>> /\ read'[j] = read[j]
    BY <1>3
  <2>2. j[1] # g
    BY <2>1, ItemGroup DEF ReadIsWorse
  <2> QED BY <1>1, <2>1, <2>2, ItemGroup DEF ReadIsWorse
<1>9. CasHasRead'
  <2> SUFFICES ASSUME NEW h \in Groups
               PROVE  stage'[h] = "cas" => read'[<<h, 0>>] # Nothing
    BY <1>2 DEF CasHasRead, call
  <2> QED BY <1>1, <1>2, <1>3, LeaderItem DEF CasHasRead
<1>10. LocalForgetsNothing'
  <2> USE DEF LocalForgetsNothing, LocalForgets, call
  <2> SUFFICES ASSUME NEW j \in Items(groups) PROVE LocalForgets(j)'
    OBVIOUS
  <2>1. stage'[j[1]] = "init" <=> stage[j[1]] = "init"
    BY <1>1, <1>2, ItemGroup
  <2> QED BY <2>1
<1>11. GroupHasEnded'
  BY <1>1, ItemGroup DEF GroupHasEnded
<1>12. GlobalForgetsNothing'
  <2> SUFFICES ASSUME NEW h \in Groups, stage'[h] = "done" PROVE ~Wins(foundLocal[h], foundGlobal')
    BY DEF GlobalForgetsNothing
  <2>1. h # g /\ ~Wins(foundLocal[h], foundGlobal) /\ foundLocal[h] \in Worth /\ foundGlobal \in Worth
    BY <1>1, <1>2 DEF GlobalForgetsNothing, LocalIsSet, DeviceTypeOK
  <2> QED BY <1>5, <2>1, BetterForgetsNothing
<1>13. ReturnAfterGroups'
  BY <1>1 DEF ReturnAfterGroups
<1> QED BY <1>5, <1>6, <1>7, <1>8, <1>9, <1>10, <1>11, <1>12, <1>13

(* Every group has ended: no match wins over the global value.                 *)
LEMMA ReturnHasTheBest ==
  ASSUME DeviceIInv, \A g \in Groups : stage[g] = "done"
  PROVE  /\ \A m \in accept : ~Wins(Offer(m), foundGlobal)
         /\ accept # {} => foundGlobal # InitValue
         /\ foundGlobal # InitValue => \E m \in accept : foundGlobal = Offer(m)
<1> USE DEF DeviceIInv
<1>1. ASSUME NEW m \in accept PROVE ~Wins(Offer(m), foundGlobal)
  <2>1. m \in 0..(len - 1) /\ len \in Nat \ {0}
    BY DeviceAssumption DEF DeviceTypeOK
  <2>2. PICK i \in Items(groups) : m \in Examined(len, groups, i[1], i[2])
    BY <2>1, ItemsCoverTheRange DEF DeviceTypeOK
  <2>3. i[1] \in Groups /\ stage[i[1]] = "done" /\ todo[i] = {}
    BY ItemGroup DEF GroupHasEnded
  <2>4. ~Wins(Offer(m), foundLocal[i[1]])
    BY <2>2, <2>3 DEF LocalForgetsNothing, LocalForgets
  <2>5. ~Wins(foundLocal[i[1]], foundGlobal) /\ foundLocal[i[1]] \in Worth /\ foundGlobal \in Worth
    BY <2>3 DEF GlobalForgetsNothing, LocalIsSet, DeviceTypeOK
  <2> QED BY <2>4, <2>5, WorthIsOrdered
<1>2. accept # {} => foundGlobal # InitValue
  BY <1>1, WorthIsOrdered
<1>3. foundGlobal # InitValue => \E m \in accept : foundGlobal = Offer(m)
  BY DEF DeviceTypeOK, Worth
<1> QED BY <1>1, <1>2, <1>3

LEMMA FindReturnIInv ==
  ASSUME DeviceIInv, FindReturn
  PROVE  DeviceIInv'
<1> USE DEF DeviceIInv, FindReturn
<1> USE CallKept
<1>1. \A g \in Groups : stage[g] = "done"
  BY DEF DeviceTypeOK
<1>2. foundGlobal \in Int /\ len \in Int
  BY WorthIsOrdered, DeviceAssumption DEF DeviceTypeOK
<1>3. DeviceTypeOK'
  BY <1>2 DEF DeviceTypeOK, call
<1>4. LocalIsSet' /\ ReadIsWorse' /\ CasHasRead' /\ GroupHasEnded'
  BY DEF LocalIsSet, ReadIsWorse, CasHasRead, GroupHasEnded, call, NextIndex
<1>5. LocalForgetsNothing'
  BY DEF LocalForgetsNothing, LocalForgets, call
<1>6. GlobalForgetsNothing' /\ ReturnAfterGroups'
  BY <1>1 DEF GlobalForgetsNothing, ReturnAfterGroups
<1> QED BY <1>3, <1>4, <1>5, <1>6

LEMMA DeviceNextIInv == DeviceIInv /\ [FindNext]_findVars => DeviceIInv'
<1> SUFFICES ASSUME DeviceIInv, [FindNext]_findVars PROVE DeviceIInv'
  OBVIOUS
<1>1. DOMAIN stage = Groups /\ DOMAIN todo = Items(groups)
  BY DEF DeviceIInv, DeviceTypeOK
<1>2. ASSUME NEW g \in Groups, GroupStep(g) PROVE DeviceIInv'
  BY <1>2, SetLocalIInv, TestGlobalIInv, StoreGlobalIInv, LoadGlobalIInv, CasGlobalIInv DEF GroupStep
<1>3. ASSUME NEW i \in Items(groups), ItemStep(i) PROVE DeviceIInv'
  BY <1>3, StoreLocalIInv, LoadLocalIInv, CasLocalIInv DEF ItemStep
<1>4. CASE FindReturn
  BY <1>4, FindReturnIInv
<1>5. CASE UNCHANGED findVars
  <2> USE <1>5 DEF findVars, DeviceIInv
  <2> USE CallKept
  <2>1. DeviceTypeOK'
    BY DEF DeviceTypeOK, call
  <2>2. LocalIsSet' /\ ReadIsWorse' /\ CasHasRead' /\ GroupHasEnded'
    BY DEF LocalIsSet, ReadIsWorse, CasHasRead, GroupHasEnded, call, NextIndex
  <2>3. LocalForgetsNothing'
    BY DEF LocalForgetsNothing, LocalForgets, call
  <2>4. GlobalForgetsNothing' /\ ReturnAfterGroups'
    BY DEF GlobalForgetsNothing, ReturnAfterGroups
  <2> QED BY <2>1, <2>2, <2>3, <2>4
<1> QED BY <1>1, <1>2, <1>3, <1>4, <1>5 DEF FindNext

(* Every step of the kernel is a step of the priority update, or a stutter: an *)
(* exchange or a store on the global atomic is Improve, the return is Return.  *)
LEMMA DeviceStep ==
  ASSUME DeviceIInv, [FindNext]_findVars
  PROVE  [DeviceAbstract!Next]_(DeviceAbstract!puVars)
<1> DEFINE best == IF tag = "or" THEN foundGlobal - 1 ELSE foundGlobal
           answered == IF found # Nothing /\ tag = "or" THEN 1 - found ELSE found
           places == IF tag # "or" THEN accept ELSE IF accept = {} THEN {} ELSE {0}
<1> USE DEF DeviceAbstract!puVars
<1>1. DOMAIN stage = Groups /\ DOMAIN todo = Items(groups)
  BY DEF DeviceIInv, DeviceTypeOK
<1>2. ASSUME NEW g \in Groups, SetLocal(g) \/ TestGlobal(g) \/ LoadGlobal(g)
      PROVE  UNCHANGED DeviceAbstract!puVars
  BY <1>2 DEF SetLocal, TestGlobal, LoadGlobal, call
<1>3. ASSUME NEW i \in Items(groups), ItemStep(i)
      PROVE  UNCHANGED DeviceAbstract!puVars
  BY <1>3 DEF ItemStep, StoreLocal, LoadLocal, CasLocal, call
<1>4. ASSUME NEW g \in Groups, StoreGlobal(g)
      PROVE  [DeviceAbstract!Next]_(DeviceAbstract!puVars)
  <2> USE <1>4 DEF DeviceIInv
  <2>1. tag = "or" /\ foundGlobal' = 1 /\ found' = found /\ UNCHANGED call /\ stage[g] = "load"
    BY DEF StoreGlobal
  <2>2. found = Nothing
    BY <2>1 DEF ReturnAfterGroups
  <2>3. foundGlobal \in {0, 1}
    BY <2>1 DEF DeviceTypeOK, Worth, Offer, InitValue
  <2>4. CASE foundGlobal = 1
    BY <2>1, <2>4 DEF call
  <2>5. CASE foundGlobal = 0
    <3>1. accept # {}
      <4>1. foundLocal[g] = 1 /\ foundLocal[g] \in Worth
        BY <2>1 DEF CasHasRead, LocalIsSet
      <4> QED BY <2>1, <4>1 DEF Worth, InitValue
    <3>2. DeviceAbstract!Improve
      BY <2>1, <2>2, <2>5, <3>1
      DEF DeviceAbstract!Improve, DeviceAbstract!Running, DeviceAbstract!Better, Nothing, call
    <3> QED BY <3>2 DEF DeviceAbstract!Next
  <2> QED BY <2>3, <2>4, <2>5
<1>5. ASSUME NEW g \in Groups, CasGlobal(g)
      PROVE  [DeviceAbstract!Next]_(DeviceAbstract!puVars)
  <2> USE <1>5 DEF DeviceIInv
  <2>1. tag # "or" /\ found' = found /\ UNCHANGED call /\ stage[g] = "cas" /\ found = Nothing
    BY DEF CasGlobal, CasHasRead, ReturnAfterGroups
  <2>2. CASE foundGlobal' = foundGlobal
    BY <2>1, <2>2 DEF call
  <2>3. CASE foundGlobal' # foundGlobal
    <3>1. Wins(foundGlobal', foundGlobal) /\ foundGlobal' \in Worth /\ foundGlobal \in Worth
      BY <2>1, <2>3, CasGlobalIInv, CallKept DEF DeviceTypeOK
    <3>2. foundGlobal' \in accept
      <4>1. \E m \in accept : foundGlobal' = Offer(m)
        BY <3>1, WorthIsOrdered
      <4> QED BY <2>1, <4>1 DEF Offer
    <3>3. DeviceAbstract!Better(tag = "first", foundGlobal', foundGlobal)
      BY <2>1, <3>1 DEF DeviceAbstract!Better, Wins, DeviceTypeOK
    <3>4. DeviceAbstract!Improve
      BY <2>1, <3>2, <3>3 DEF DeviceAbstract!Improve, DeviceAbstract!Running, Nothing, call
    <3> QED BY <3>4 DEF DeviceAbstract!Next
  <2> QED BY <2>2, <2>3
<1>6. CASE FindReturn
  <2> USE <1>6 DEF DeviceIInv, FindReturn
  <2>1. \A g \in Groups : stage[g] = "done"
    BY <1>1
  <2>2. /\ \A m \in accept : ~Wins(Offer(m), foundGlobal)
        /\ accept # {} => foundGlobal # InitValue
        /\ foundGlobal # InitValue => \E m \in accept : foundGlobal = Offer(m)
    BY <2>1, ReturnHasTheBest
  <2>3. len \in Nat \ {0} /\ \A m \in accept : m \in 0..(len - 1)
    BY DeviceAssumption DEF DeviceTypeOK
  <2>4. CASE tag = "or"
    <3>1. foundGlobal = IF accept = {} THEN 0 ELSE 1
      BY <2>2, <2>4 DEF Offer, InitValue
    <3>2. DeviceAbstract!Return
      BY <2>4, <3>1
      DEF DeviceAbstract!Return, DeviceAbstract!IsAnswer, DeviceAbstract!Better,
          DeviceAbstract!Initial, DeviceAbstract!Running, Nothing, call
    <3> QED BY <3>2 DEF DeviceAbstract!Next
  <2>5. CASE tag # "or"
    <3>1. \A m \in accept : ~Wins(m, foundGlobal)
      BY <2>2, <2>5 DEF Offer
    <3>2. \A m \in accept : ~DeviceAbstract!Better(tag = "first", m, foundGlobal)
      BY <2>5, <3>1 DEF DeviceAbstract!Better, Wins, DeviceTypeOK
    <3>3. CASE accept = {}
      <4>1. foundGlobal = InitValue /\ found' = len
        BY <2>2, <2>5, <3>3
      <4>2. InitValue = IF tag = "first" THEN len ELSE -1
        BY <2>5 DEF InitValue, DeviceTypeOK
      <4>3. DeviceAbstract!Return
        BY <2>3, <2>5, <3>3, <4>1, <4>2
        DEF DeviceAbstract!Return, DeviceAbstract!IsAnswer, DeviceAbstract!Initial,
            DeviceAbstract!Running, Nothing, call
      <4> QED BY <4>3 DEF DeviceAbstract!Next
    <3>4. CASE accept # {}
      <4>1. foundGlobal # InitValue /\ foundGlobal \in accept /\ found' = foundGlobal
        BY <2>2, <2>5, <3>4 DEF Offer
      <4>2. foundGlobal \in 0..len
        BY <2>3, <4>1
      <4>3. DeviceAbstract!Return
        BY <2>5, <3>2, <3>4, <4>1, <4>2
        DEF DeviceAbstract!Return, DeviceAbstract!IsAnswer, DeviceAbstract!Running, Nothing, call
      <4> QED BY <4>3 DEF DeviceAbstract!Next
    <3> QED BY <3>3, <3>4
  <2> QED BY <2>4, <2>5
<1>7. CASE UNCHANGED findVars
  BY <1>7 DEF findVars, call
<1> QED BY <1>1, <1>2, <1>3, <1>4, <1>5, <1>6, <1>7 DEF FindNext, GroupStep

(* In a call with a host policy the device stands still.                       *)
SearchIInv ==
  \/ policy = "device" /\ DeviceIInv
  \/ policy = "host" /\ DeviceIdle

LEMMA DeviceIdleIsInitial == DeviceIdle \/ FindInit => DeviceAbstract!Init
<1>1. MaxLen \in Nat \ {0}
  BY DeviceAssumption
<1>2. CASE DeviceIdle
  BY <1>1, <1>2 DEF DeviceIdle, DeviceAbstract!Init, DeviceAbstract!Initial, DeviceAbstract!Running, Nothing
<1>3. CASE FindInit
  <2>1. len \in 1..MaxLen /\ accept \subseteq 0..(len - 1) /\ foundGlobal = InitValue /\ found = Nothing
        /\ tag \in {"first", "last", "or"}
    BY <1>3 DEF FindInit
  <2>2. CASE tag = "or"
    BY <1>1, <2>1, <2>2 DEF DeviceAbstract!Init, DeviceAbstract!Initial, DeviceAbstract!Running, Nothing, InitValue
  <2>3. CASE tag # "or"
    BY <1>1, <2>1, <2>3 DEF DeviceAbstract!Init, DeviceAbstract!Initial, DeviceAbstract!Running, Nothing, InitValue
  <2> QED BY <2>2, <2>3
<1> QED BY <1>2, <1>3

(* The kernel of the device search implements the priority update as well: for *)
(* every range, every set of matches and any number and size of work-groups it *)
(* returns the first or last match, or whether there is one, and its global    *)
(* atomic only moves towards it (parallel_backend_sycl.h:737-745, 899-914).    *)
THEOREM DeviceImplementsPriorityUpdate == SearchSpec => DeviceRefines
<1>1. SearchInit => SearchIInv /\ DeviceAbstract!Init
  BY DeviceInitIInv, DeviceIdleIsInitial DEF SearchInit, SearchIInv
<1>2. SearchIInv /\ [SearchNext]_allVars => SearchIInv'
  <2>1. ASSUME SearchIInv, SearchNext PROVE SearchIInv'
    BY <2>1, DeviceNextIInv DEF SearchIInv, SearchNext, DeviceIdle, findVars, call
  <2>2. ASSUME SearchIInv, UNCHANGED allVars PROVE SearchIInv'
    BY <2>2, DeviceNextIInv DEF SearchIInv, allVars, DeviceIdle, findVars, call
  <2> QED BY <2>1, <2>2
<1>3. SearchIInv /\ [SearchNext]_allVars => [DeviceAbstract!Next]_(DeviceAbstract!puVars)
  <2>1. SearchIInv /\ UNCHANGED findVars => UNCHANGED DeviceAbstract!puVars
    BY DEF DeviceAbstract!puVars, findVars, call
  <2>2. ASSUME SearchIInv, FindNext, policy = "device"
        PROVE  [DeviceAbstract!Next]_(DeviceAbstract!puVars)
    BY <2>2, DeviceStep DEF SearchIInv
  <2> QED BY <2>1, <2>2 DEF SearchNext, allVars
<1> QED BY <1>1, <1>2, <1>3, PTL DEF SearchSpec, DeviceRefines, DeviceAbstract!Spec
===============================================================================
