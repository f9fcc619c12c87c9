------------------------------ MODULE RandomEngines ------------------------------
(* The random number engines: linear_congruential_engine, subtract_with_carry_engine *)
(* and discard_block_engine over either, scalar or over a sycl::vec. Whatever the      *)
(* calls, the numbers are those of one sequence, the one the seed starts.              *)
EXTENDS Integers, Sequences, SequencesExt, FiniteSetsExt

CONSTANTS Congruential,  \* records a, c, m: multiplier, increment and modulus
          Subtractive,   \* records w, s, r: word_size, short_lag and long_lag
          Blocks,        \* <<block_size, used_block>>; equal ones stand for no adaptor
          Sizes,         \* num_elems of the result types, 0 for a scalar
          MaxSeed,       \* bound on the seeds of a linear congruential engine
          Narrow,        \* the largest value of 32 bits
          Word,          \* the number of values of an unsigned long long
          MaxTaken       \* bound on the numbers taken before a call

VARIABLES params,        \* of the engine at the bottom
          block, size,   \* its adaptor, and the size of its result type
          engine,        \* state_, or x_, c_ and i_
          used,          \* n_ of discard_block_engine
          origin,        \* the engine as it was last seeded
          taken,         \* how many numbers have been taken since
          exact,         \* every discard since then has fitted
          numbers        \* the numbers the last call returned

engineVars == <<params, block, size, engine, used, origin, taken, exact, numbers>>

\* What an engine returns, and what it is afterwards.
Result(numbersOf, e) == [numbers |-> numbersOf, engine |-> e]
isCongruential == "a" \in DOMAIN params
IsBlock == block[1] # block[2]
-------------------------------------------------------------------------------
(* linear_congruential_engine: state_ holds the next numbers, as many as the vec. *)
ModScalar(p, state) == (p.a * state + p.c) % p.m

Following(p, first, n) ==
  FoldLeft(LAMBDA state, i : Append(state, ModScalar(p, state[i])), <<first>>, [i \in 1..(n - 1) |-> i])

InitCongruential(p, seed, n) ==
  Following(p, ModScalar(p, IF p.c % p.m = 0 /\ seed % p.m = 0 THEN 1 ELSE seed), Max({n, 1}))

\* The power is found by squaring, one bit of the exponent after the other.
Bits(k) == CHOOSE n \in 0..k : 2^n > k /\ (n = 0 \/ 2^(n - 1) <= k)
PowMultN(p, k) ==
  FoldLeft(LAMBDA ra, i : <<IF (k \div 2^(i - 1)) % 2 = 1 THEN (ra[1] * ra[2]) % p.m ELSE ra[1],
                            (ra[2] * ra[2]) % p.m>>,
           <<1, p.a>>, [i \in 1..Max({Bits(k), 1}) |-> i])[1]

\* Powers are for multipliers alone, and for products of less than 64 bits.
Skips(p) == p.c = 0 /\ p.m < Narrow /\ p.a < Narrow

\* One step of a vec otherwise: all numbers move down, the last is computed.
Shifted(p, state) ==
  [i \in 1..Len(state) |-> IF i < Len(state) THEN state[i + 1] ELSE ModScalar(p, state[i])]

SkipCongruential(p, state, k) ==
  IF k = 0 THEN state
  ELSE IF Skips(p) THEN [i \in DOMAIN state |-> (PowMultN(p, k) * state[i]) % p.m]
  ELSE FoldLeft(LAMBDA st, i : Shifted(p, st), state, [i \in 1..k |-> i])
-------------------------------------------------------------------------------
(* subtract_with_carry_engine *)
Mask(p) == 2^p.w

\* Seeding refills the words and the carry, and leaves the place in the words alone.
InitSubtractive(p, words, i) == [x |-> words, c |-> IF words[p.r - 1] = 0 THEN 1 ELSE 0, i |-> i]

GenerateScalar(p, e) ==
  LET xs == e.x[(e.i + p.r - p.s) % p.r]
      xr == e.x[e.i]
      carry == IF e.c = 0 THEN xs < xr ELSE IF xs # 0 THEN xs <= xr ELSE TRUE
      new == (xs - xr - e.c) % Mask(p)
  IN  Result(<<new>>, [x |-> [e.x EXCEPT ![e.i] = new], c |-> IF carry THEN 1 ELSE 0, i |-> (e.i + 1) % p.r])

GenerateScalars(p, e, n) ==
  FoldLeft(LAMBDA r, i : LET next == GenerateScalar(p, r.engine)
                         IN  Result(r.numbers \o next.numbers, next.engine),
           Result(<< >>, e), [i \in 1..n |-> i])
-------------------------------------------------------------------------------
(* The engine at the bottom: discard(k), and operator() for n numbers, of which a   *)
(* call without an argument asks for all the vec has.                               *)
Skip(e, k) ==
  IF isCongruential THEN SkipCongruential(params, e, k) ELSE GenerateScalars(params, e, k).engine

Count(n) == IF size = 0 THEN 1 ELSE Min({n, size})

Call(e, n) ==
  IF isCongruential
    THEN Result(SubSeq(e, 1, Count(n)), Skip(e, Count(n)))
    ELSE GenerateScalars(params, e, Count(n))

(* discard_block_engine: of every block the first used_block numbers are used. *)
Adapted(ns, e, n) == [numbers |-> ns, engine |-> e, used |-> n]

BlockScalar(r) ==
  LET over == r.used >= block[2]
      next == Call(IF over THEN Skip(r.engine, block[1] - block[2]) ELSE r.engine, 1)
  IN  Adapted(r.numbers \o next.numbers, next.engine, (IF over THEN 0 ELSE r.used) + 1)

BlockScalars(r, n) == FoldLeft(LAMBDA s, i : BlockScalar(s), r, [i \in 1..n |-> i])

\* [mutant] A vector that ends the used part of a block counts as inside it.
BlockCall_Fits(r, n) ==
  IF size > 0 /\ n >= size /\ size <= block[2] - r.used + 1
    THEN LET all == Call(r.engine, size) IN Adapted(all.numbers, all.engine, r.used + size)
    ELSE BlockScalars(Adapted(<< >>, r.engine, r.used), Count(n))

BlockCall(r, n) ==
  IF size > 0 /\ n >= size /\ size < block[2] - r.used
    THEN LET all == Call(r.engine, size) IN Adapted(all.numbers, all.engine, r.used + size)
    ELSE BlockScalars(Adapted(<< >>, r.engine, r.used), Count(n))

\* The unused numbers a discard of k passes over, k + r.used being a word or not.
Product(r, sum) == (sum \div block[2]) * (block[1] - block[2])

BlockSkip(r, k) ==
  LET inner == (k + Product(r, (k + r.used) % Word)) % Word
      stepped == FoldLeft(LAMBDA s, i : BlockCall(s, Max({size, 1})), r, [i \in 1..k |-> i])
  IN  CASE k = 0                                      -> r
        [] k > 0 /\ k < block[2] - r.used             -> Adapted(<< >>, Skip(r.engine, k), r.used + k)
        [] k >= block[2] - r.used /\ inner >= k       ->
             Adapted(<< >>, Skip(r.engine, inner), (k - (block[2] - r.used)) % block[2])
        [] OTHER                                      -> stepped

Whole == Adapted(<< >>, engine, used)
EngineCall(r, n) ==
  IF IsBlock THEN BlockCall(r, n)
  ELSE LET next == Call(r.engine, n) IN Adapted(next.numbers, next.engine, r.used)
EngineSkip(r, k) == IF IsBlock THEN BlockSkip(r, k) ELSE Adapted(<< >>, Skip(r.engine, k), r.used)
-------------------------------------------------------------------------------
\* The words come from the low bits of another engine, which take every value.
Words(p) == [0..(p.r - 1) -> 0..(Mask(p) - 1)]

\* What seeding makes of the engine, and what its sequence starts from.
Seeded(p, n, i) ==
  IF "a" \in DOMAIN p
    THEN {[engine |-> InitCongruential(p, seed, n), origin |-> seed] : seed \in 0..MaxSeed}
    ELSE {[engine |-> InitSubtractive(p, words, i), origin |-> InitSubtractive(p, words, i)] : words \in Words(p)}

\* Where neither the product nor, for a vec, the sum of what a discard passes over wraps.
\* The code tests the sum alone, and then counts vectors for numbers.
SkipFits(r, k) == IsBlock => Product(r, k + r.used) + (IF size > 1 THEN k ELSE 0) < Word

Init ==
  /\ params \in Congruential \cup Subtractive /\ block \in Blocks /\ size \in Sizes
  /\ \E e \in Seeded(params, size, 0) : engine = e.engine /\ origin = e.origin
  /\ used = 0 /\ taken = 0 /\ exact = TRUE /\ numbers = << >>

\* operator() with a number of elements, or, for n >= size, without one.
Generate(n) ==
  /\ taken <= MaxTaken
  /\ LET r == EngineCall(Whole, n)
     IN  /\ engine' = r.engine /\ used' = r.used /\ numbers' = r.numbers
         /\ taken' = taken + Len(r.numbers)
  /\ UNCHANGED <<params, block, size, origin, exact>>

\* Also the last step of the constructors, by their offset.
Discard(k) ==
  /\ taken + k <= MaxTaken
  /\ LET r == EngineSkip(Whole, k) IN engine' = r.engine /\ used' = r.used
  /\ taken' = taken + k /\ numbers' = << >> /\ exact' = (exact /\ SkipFits(Whole, k))
  /\ UNCHANGED <<params, block, size, origin>>

Seed ==
  /\ \E e \in Seeded(params, size, IF isCongruential THEN 0 ELSE engine.i) :
       engine' = e.engine /\ origin' = e.origin
  /\ used' = 0 /\ taken' = 0 /\ exact' = TRUE /\ numbers' = << >>
  /\ UNCHANGED <<params, block, size>>

Next ==
  \/ \E n \in (IF size = 0 THEN {1} ELSE 0..size) : Generate(n)
  \/ \E k \in 0..Min({MaxTaken, Word - 1}) : Discard(k)
  \/ Seed
-------------------------------------------------------------------------------
(* The sequence a seed starts, from the recurrences: x[k+1] = a x[k] + c, and          *)
(* x[k] = x[k-s] - x[k-r] with the borrow of the difference before.                     *)
CongruentialNumber(k) ==
  FoldLeft(LAMBDA x, i : (params.a * x + params.c) % params.m,
           IF params.c = 0 /\ origin % params.m = 0 THEN 1 ELSE origin, [i \in 1..(k + 1) |-> i])

SubtractiveNumber(k) ==
  LET r == params.r
      oldest == [t \in 1..r |-> origin.x[(origin.i + t - 1) % r]]
      Extended(h) ==
        LET y == h.x[Len(h.x) + 1 - params.s] - h.x[Len(h.x) + 1 - r] - h.borrow
        IN  [x |-> Append(h.x, y % Mask(params)), borrow |-> IF y < 0 THEN 1 ELSE 0]
      all == FoldLeft(LAMBDA h, i : Extended(h), [x |-> oldest, borrow |-> origin.c], [i \in 1..(k + 1) |-> i])
  IN  all.x[r + k + 1]

Number(k) ==
  LET base == (k \div block[2]) * block[1] + (k % block[2])
  IN  IF isCongruential THEN CongruentialNumber(base) ELSE SubtractiveNumber(base)

\* Unless a discard has wrapped, the numbers a call returns are the next ones of the
\* sequence the seed started
\* (linear_congruential_engine.h:147-240, subtract_with_carry_engine.h:108-150,
\* discard_block_engine.h:79-205).
NumbersFollowTheSeed ==
  exact => \A i \in DOMAIN numbers : numbers[i] = Number(taken - Len(numbers) + i - 1)
===============================================================================
