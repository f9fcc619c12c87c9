------------------------------ MODULE RandomNumbers ------------------------------
(* The random distributions: how many numbers a call takes from the engine, in      *)
(* which calls of the engine, and which of them go into which element of the         *)
(* result. A number of the engine is known by its place in the engine's sequence;     *)
(* the formula applied to it is left out, except that a normal distribution makes two *)
(* results, "sin" and "cos", of two numbers. Size 0 is a scalar, 1, 2, 3, ... a vec.  *)
(* A distribution relies on the property checked of the engines, so a behaviour is    *)
(* that of one engine, or of one distribution over the places of an engine's          *)
(* sequence; the other stands still.                                                  *)
EXTENDS Integers, Sequences, SequencesExt, FiniteSetsExt

CONSTANTS EngineSizes, DistributionSizes,   \* the sizes of the result types
          MaxDrawn                          \* bound on the numbers drawn before a call

ASSUME SizesAssumption ==
  EngineSizes \subseteq Nat /\ DistributionSizes \subseteq Nat /\ MaxDrawn \in Nat

VARIABLES kind,      \* which distribution it is
          dsize,     \* size_of_type_
          esize,     \* num_elems of the engine's result_type
          drawn,     \* numbers drawn from the engine
          flag,      \* flag_
          saved,     \* what saved_ln_ and saved_u2_ were computed from
          result     \* what the last call returned

distrVars == <<kind, dsize, esize, drawn, flag, saved, result>>

Uniforms == {"uniform_real", "uniform_int"}
ByElements == {"exponential", "bernoulli", "geometric", "cauchy", "weibull", "extreme_value"}
Paired == {"normal", "lognormal"}
Kinds == Uniforms \cup ByElements \cup Paired
Unspecified == "unspecified"

Stream == INSTANCE RandomStream WITH
  MaxVector <- Max(DistributionSizes \cup {1}), paired <- kind \in Paired, taken <- drawn,
  pending <- IF flag THEN saved ELSE << >>, delivered <- result
-------------------------------------------------------------------------------
(* uniform_real_distribution: a list of engine calls, each of which fills `ask`     *)
(* elements of the result from `at` on.                                             *)
Ask(at, ask) == [at |-> at, ask |-> ask]
Singly(n) == [k \in 1..n |-> Ask(k - 1, 1)]
FullCalls(n, e) == [k \in 1..(n \div e) |-> Ask((k - 1) * e, e)]

UniformGenerate(d, e) ==
  CASE d = 0           -> Singly(1)
    [] d # 0 /\ d <= e -> <<Ask(0, d)>>
    [] d > e /\ e = 0  -> Singly(d)
    [] d > e /\ e # 0  ->
         FullCalls(d, e) \o IF d % e = 0 THEN << >> ELSE <<Ask(d - (d % e), d % e)>>

\* The loop over the engine's vectors runs while there is an element left, so it also
\* fills the places of the tail, which is then drawn again, to the end of the vector.
\* (With an engine of 3 its last store may lie one place behind a vector of 8; no element
\* comes from there.)
UniformElems(d, e, n) ==
  CASE d <= e            -> <<Ask(0, n)>>
    [] d > e /\ e = 0    -> Singly(n)
    [] d > e /\ e >= n   -> <<Ask(0, n)>>
    [] OTHER             ->
         FullCalls(n + e - 1, e) \o IF n % e = 0 THEN << >> ELSE <<Ask(d - (n % e), n % e)>>

UniformPortion(d, e, n) ==
  IF n = 0 THEN << >> ELSE IF n >= d THEN UniformGenerate(d, e) ELSE UniformElems(d, e, n)

Asked(asks) == FoldLeft(LAMBDA sum, a : sum + a.ask, 0, asks)

\* The element of the result after the calls; element 0 of a scalar is its value.
Drawn(asks, from, i) ==
  LET ks == {k \in DOMAIN asks : asks[k].at <= i /\ i < asks[k].at + asks[k].ask}
  IN  IF ks = {} THEN Unspecified
      ELSE from + Asked(SubSeq(asks, 1, Max(ks) - 1)) + i - asks[Max(ks)].at
-------------------------------------------------------------------------------
(* Every other distribution, on top of it. A state is what a distribution and the    *)
(* engine remember; an outcome is the next state with the elements returned.          *)
State == [drawn |-> drawn, flag |-> flag, saved |-> saved]
Outcome(s, elements) == [state |-> s, elements |-> elements]

OnUniform(s, asks, m) ==
  Outcome([s EXCEPT !.drawn = @ + Asked(asks)], [i \in 1..m |-> Stream!One(Drawn(asks, s.drawn, i - 1))])

\* One element after the other, each by a call for a scalar.
OneByOne(Scalar(_), s, m) ==
  FoldLeft(LAMBDA o, i : LET next == Scalar(o.state)
                         IN  Outcome(next.state, o.elements \o next.elements),
           Outcome(s, << >>), [i \in 1..m |-> i])

UniformScalar(s) == OnUniform(s, UniformGenerate(0, esize), 1)

UniformVec(s, d) == OnUniform(s, UniformGenerate(d, esize), d)

\* Short vecs and portions are made of scalars, long vecs of one long vec.
ByElement(Scalar(_), Vec(_, _), s, d, n) ==
  CASE d # 0 /\ n = 0      -> Outcome(s, << >>)
    [] n >= d /\ d > 3     -> Vec(s, d)
    [] n >= d /\ d \in 1..3 -> OneByOne(Scalar, s, d)
    [] d = 0               -> Scalar(s)
    [] OTHER               -> OneByOne(Scalar, s, n)

Exponential(s, d, n) == ByElement(UniformScalar, UniformVec, s, d, n)
Bernoulli(s, d, n) == ByElement(UniformScalar, UniformVec, s, d, n)
Geometric(s, d, n) == ByElement(UniformScalar, UniformVec, s, d, n)
Cauchy(s, d, n) == ByElement(UniformScalar, UniformVec, s, d, n)
Weibull(s, d, n) == ByElement(UniformScalar, UniformVec, s, d, n)

\* Logarithms of exponentially distributed numbers.
ExponentialScalar(s) == Exponential(s, 0, 1)
ExponentialVec(s, d) == Exponential(s, d, d)
ExtremeValue(s, d, n) == ByElement(ExponentialScalar, ExponentialVec, s, d, n)

\* The pair the k-th two numbers of the uniform portion make.
PairOf(asks, from, k) == <<Drawn(asks, from, 2 * k), Drawn(asks, from, 2 * k + 1)>>
InPairs(asks, from, m) ==
  [i \in 1..m |-> LET u == PairOf(asks, from, (i - 1) \div 2)
                  IN  IF i % 2 = 1 THEN Stream!First(u) ELSE Stream!Second(u)]

NormalScalar(s) ==
  LET asks == UniformGenerate(0, esize)
      u == <<s.drawn, s.drawn + Asked(asks)>>
  IN  IF s.flag
        THEN Outcome([s EXCEPT !.flag = FALSE], <<Stream!Second(s.saved)>>)
        ELSE Outcome([drawn |-> s.drawn + 2 * Asked(asks), flag |-> TRUE, saved |-> u], <<Stream!First(u)>>)

\* The uniform distribution under a vec of odd size has one element more.
UniformSize(d) == IF d % 2 = 1 THEN d + 1 ELSE d

NormalElems(s, d, n) ==
  LET owed == IF s.flag THEN 1 ELSE 0
      tail == (n - owed) % 2
      asks == UniformPortion(UniformSize(d), esize, n - owed + tail)
  IN  Outcome([drawn |-> s.drawn + Asked(asks),
               flag  |-> tail = 1,
               saved |-> IF tail = 1 THEN PairOf(asks, s.drawn, (n - owed) \div 2) ELSE s.saved],
              (IF s.flag THEN <<Stream!Second(s.saved)>> ELSE << >>) \o InPairs(asks, s.drawn, n - owed))

\* [mutant] The last pair of a vec is not remembered.
NormalVec_KeepsSaved(s, d) ==
  LET asks == UniformPortion(d, esize, d)
      after == [s EXCEPT !.drawn = @ + Asked(asks)]
  IN  IF s.flag
        THEN Outcome(after, <<Stream!Second(s.saved)>> \o InPairs(asks, s.drawn, d - 1))
        ELSE Outcome(after, InPairs(asks, s.drawn, d))

NormalVec(s, d) ==
  LET asks == UniformPortion(d, esize, d)
      after == [s EXCEPT !.drawn = @ + Asked(asks)]
  IN  IF s.flag
        THEN Outcome([after EXCEPT !.saved = PairOf(asks, s.drawn, d \div 2 - 1)],
                     <<Stream!Second(s.saved)>> \o InPairs(asks, s.drawn, d - 1))
        ELSE Outcome(after, InPairs(asks, s.drawn, d))

Normal(s, d, n) ==
  CASE d = 0                      -> NormalScalar(s)
    [] d # 0 /\ n = 0             -> Outcome(s, << >>)
    [] d # 0 /\ n >= d /\ d > 3   -> NormalVec(s, d)
    [] OTHER                      -> NormalElems(s, d, Min({n, d}))

\* Over a scalar normal distribution for the short vecs, over one of its size for others.
LogNormal(s, d, n) ==
  CASE d > 3             -> Normal(s, d, n)
    [] d = 0             -> NormalScalar(s)
    [] d \in 1..3        -> OneByOne(NormalScalar, s, Min({n, d}))

UniformReal(s, d, n) ==
  OnUniform(s, IF d = 0 THEN UniformGenerate(0, esize) ELSE UniformPortion(d, esize, n),
            IF d = 0 THEN 1 ELSE Min({n, d}))

\* Over a real distribution of its size; a portion is of both.
UniformInt(s, d, n) ==
  IF d # 0 /\ n = 0 THEN Outcome(s, << >>)
  ELSE IF n >= d THEN UniformReal(s, d, d) ELSE UniformReal(s, d, n)

Called(s, d, n) ==
  CASE kind = "uniform_real"  -> UniformReal(s, d, n)
    [] kind = "uniform_int"   -> UniformInt(s, d, n)
    [] kind = "exponential"   -> Exponential(s, d, n)
    [] kind = "bernoulli"     -> Bernoulli(s, d, n)
    [] kind = "geometric"     -> Geometric(s, d, n)
    [] kind = "cauchy"        -> Cauchy(s, d, n)
    [] kind = "weibull"       -> Weibull(s, d, n)
    [] kind = "extreme_value" -> ExtremeValue(s, d, n)
    [] kind = "normal"        -> Normal(s, d, n)
    [] kind = "lognormal"     -> LogNormal(s, d, n)
-------------------------------------------------------------------------------
Init ==
  /\ kind \in Kinds /\ dsize \in DistributionSizes /\ esize \in EngineSizes
  /\ drawn = 0 /\ flag = FALSE /\ saved = << >> /\ result = << >>

\* operator() with a number of elements, or, for n >= dsize, without one.
Generate(n) ==
  /\ drawn <= MaxDrawn
  /\ LET o == Called(State, dsize, n)
     IN  /\ drawn' = o.state.drawn /\ flag' = o.state.flag /\ saved' = o.state.saved
         /\ result' = o.elements
  /\ UNCHANGED <<kind, dsize, esize>>

\* Only the distributions that make pairs have anything to forget.
ResetDistribution ==
  /\ flag' = FALSE
  /\ result' = << >>
  /\ UNCHANGED <<kind, dsize, esize, drawn, saved>>

Next ==
  \/ \E n \in (IF dsize = 0 THEN {1} ELSE 0..dsize) : Generate(n)
  \/ ResetDistribution
-------------------------------------------------------------------------------
(* Engines and distributions.                                                        *)

CONSTANTS Congruential, Subtractive, Blocks, VecSizes, MaxSeed, Narrow, Word, MaxTaken

ASSUME EnginesAssumption ==
  /\ \A p \in Congruential : p.a \in 1..(p.m - 1) /\ p.c \in 0..(p.m - 1)
  /\ \A p \in Subtractive : p.w \in Nat \ {0} /\ p.s \in 1..(p.r - 1)
  /\ \A b \in Blocks : b[2] \in 1..b[1]
  /\ VecSizes \subseteq Nat /\ MaxSeed \in Nat /\ Narrow \in Nat /\ Word \in Nat \ {0} /\ MaxTaken \in Nat

VARIABLES params, block, size, engine, used, origin, taken, exact, numbers

Engines == INSTANCE RandomEngines WITH Sizes <- VecSizes

engineVars == <<params, block, size, engine, used, origin, taken, exact, numbers>>

\* An engine of one congruential kind that has been seeded and not used.
EngineStill ==
  /\ params = (CHOOSE p \in Congruential : TRUE) /\ block = (CHOOSE b \in Blocks : TRUE) /\ size = 0
  /\ engine = Engines!InitCongruential(params, 0, 0) /\ origin = 0
  /\ used = 0 /\ taken = 0 /\ exact = TRUE /\ numbers = << >>

DistributionStill ==
  /\ kind = "uniform_real" /\ dsize = 0 /\ esize = 0
  /\ drawn = 0 /\ flag = FALSE /\ saved = << >> /\ result = << >>

NumbersInit == (Init /\ EngineStill) \/ (DistributionStill /\ Engines!Init)

NumbersNext ==
  \/ EngineStill /\ Next /\ UNCHANGED engineVars
  \/ DistributionStill /\ Engines!Next /\ UNCHANGED distrVars

NumbersSpec == NumbersInit /\ [][NumbersNext]_<<distrVars, engineVars>>

\* Congruential engines, of which the first can skip by a power; short lags; blocks of
\* which two of six, three of four or all numbers are used.
SmallCongruential == {[a |-> 3, c |-> 0, m |-> 7], [a |-> 2, c |-> 3, m |-> 5], [a |-> 3, c |-> 0, m |-> 11]}
SmallSubtractive == {[w |-> 2, s |-> 1, r |-> 3]}
SmallBlocks == {<<1, 1>>, <<6, 2>>, <<4, 3>>}
-------------------------------------------------------------------------------
\* The numbers an engine's call returns are the next ones of the sequence the seed
\* started, without those a block leaves out, whatever calls, portions and discards
\* came before, none of which has wrapped: what lets each work-item make its own part
\* of one sequence (linear_congruential_engine.h:147-240, subtract_with_carry_engine.h:108-150,
\* discard_block_engine.h:79-205).
NumbersFollowTheSeed == Engines!NumbersFollowTheSeed

\* The portion a call for n elements asks the uniform distribution for.
Portion(n) == IF kind \in Paired THEN 2 * ((n - (IF flag THEN 1 ELSE 0) + 1) \div 2) ELSE n

\* The portion ends inside a vector of the engine, and is not the engine's first
\* (uniform_real_distribution.h:308-335).
LongTail(d, e, n) == n < d /\ e >= 2 /\ n > e /\ n % e # 0

TailDrawnTwice(n) == kind \notin ByElements /\ n < dsize /\ LongTail(dsize, esize, Portion(n))

\* However its numbers are asked for, by vectors or portions of any size over engines
\* of any size, a distribution returns what RandomStream says: no number of the engine
\* is skipped, used twice or used out of order, and the second of a pair is owed until
\* it is asked for or reset() is called (uniform_real_distribution.h:139-370,
\* normal_distribution.h:194-415, lognormal_distribution.h:160-230). Left out are the
\* calls that draw a tail twice, of which TakesWhatItReturns speaks.
StreamIsFollowed == Stream!Init /\ [][TailDrawnTwice(Len(result')) \/ Stream!Next]_(Stream!vars)

\* A call of n elements takes n numbers from the engine and returns the last ones
\* taken: what the tests rely on that start the engine of work-item k at k * n_elems
\* (statistics_tests/uniform_real_distribution_test.pass.cpp:108).
TakesWhatItReturns ==
  kind \in Uniforms => \A i \in DOMAIN result : result[i] = Stream!One(drawn - Len(result) + i - 1)
===============================================================================
