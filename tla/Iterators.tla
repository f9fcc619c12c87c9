------------------------------- MODULE Iterators -------------------------------
(* The iterators the library offers: numbers without storage, several ranges walked *)
(* at once, elements seen through a function, through a permutation or not at all,   *)
(* and any of them made of others. A behaviour walks one of them over a range.       *)
EXTENDS Integers, FiniteSets

CONSTANTS
  WalkLength,              \* bound: the places of the range
  Bits                     \* the width of a counting_iterator's number

VARIABLES shape,           \* the iterator at the beginning, and what is to be seen at each place
          walker, place    \* the iterator after some steps, and where they lead

vars == <<shape, walker, place>>

Steps == {"+=", "-=", "++", "--", "+", "-"}
Delta(op, k) ==
  CASE op = "++" -> 1 [] op = "--" -> -1 [] op \in {"+=", "+"} -> k [] op \in {"-=", "-"} -> -k

Wrapped(v) == v % 2^Bits
Signed(v) == IF Wrapped(v) < 2^(Bits - 1) THEN Wrapped(v) ELSE Wrapped(v) - 2^Bits

\* What is in place l of the storage behind a pointer, and two functions.
Stored(l) == 10 + l
Seen(e) == <<"seen", e>>
Turned(l) == WalkLength - 1 - l
-------------------------------------------------------------------------------
Pointer(at) == [kind |-> "pointer", at |-> at]
Counting(at) == [kind |-> "counting", at |-> at]
Zip(parts) == [kind |-> "zip", parts |-> parts]
ZipForward(parts) == [kind |-> "zip_forward", parts |-> parts]
Transform(inner, function) == [kind |-> "transform", inner |-> inner, function |-> function]
Permutation(source, index) == [kind |-> "permutation", source |-> source, index |-> index]
Discard(at) == [kind |-> "discard", at |-> at]

\* A permutation given by a function is an iterator over its values.
PermutationBy(source, function, at) == Permutation(source, Transform(Counting(at), function))

Apply(function, e) == IF function = "turned" THEN Turned(e) ELSE Seen(e)
-------------------------------------------------------------------------------
CountingStep(it, op, k) == [it EXCEPT !.at = Wrapped(@ + Delta(op, k))]
DiscardStep(it, op, k) == [it EXCEPT !.at = @ + Delta(op, k)]

RECURSIVE Step(_, _, _)
\* All steps are additions to every part; forward iterators only go on by one.
ZipStep(it, op, k) == [it EXCEPT !.parts = [q \in DOMAIN @ |-> Step(@[q], "+", Delta(op, k))]]
ZipForwardStep(it) == [it EXCEPT !.parts = [q \in DOMAIN @ |-> Step(@[q], "++", 0)]]
TransformStep(it, op, k) == [it EXCEPT !.inner = Step(@, op, k)]
PermutationStep(it, op, k) == [it EXCEPT !.index = Step(@, op, k)]

Step(it, op, k) ==
  CASE it.kind \in {"pointer", "discard"} -> DiscardStep(it, op, k)
    [] it.kind = "counting"    -> CountingStep(it, op, k)
    [] it.kind = "zip"         -> ZipStep(it, op, k)
    [] it.kind = "zip_forward" -> ZipForwardStep(it)
    [] it.kind = "transform"   -> TransformStep(it, op, k)
    [] it.kind = "permutation" -> PermutationStep(it, op, k)

RECURSIVE Read(_)
ZipRead(it) == [q \in DOMAIN it.parts |-> Read(it.parts[q])]
TransformRead(it) == Apply(it.function, Read(it.inner))
PermutationRead(it) == Read(Step(it.source, "+", Read(it.index)))

Read(it) ==
  CASE it.kind = "pointer"     -> Stored(it.at)
    [] it.kind = "counting"    -> it.at
    [] it.kind \in {"zip", "zip_forward"} -> ZipRead(it)
    [] it.kind = "transform"   -> TransformRead(it)
    [] it.kind = "permutation" -> PermutationRead(it)
    [] it.kind = "discard"     -> "ignore"

\* operator[].
Subscript(it, k) == Read(Step(it, "+", k))

CountingDistance(a, b) == Signed(a.at - b.at)

RECURSIVE Distance(_, _)
ZipDistance(a, b) == Distance(a.parts[1], b.parts[1])
TransformDistance(a, b) == Distance(a.inner, b.inner)

\* [mutant] The places in the source are subtracted.
PermutationDistance_InSource(a, b) == Read(a.index) - Read(b.index)

PermutationDistance(a, b) == Distance(a.index, b.index)

Distance(a, b) ==
  CASE a.kind \in {"pointer", "discard"} -> a.at - b.at
    [] a.kind = "counting"    -> CountingDistance(a, b)
    [] a.kind = "zip"         -> ZipDistance(a, b)
    [] a.kind = "transform"   -> TransformDistance(a, b)
    [] a.kind = "permutation" -> PermutationDistance(a, b)

RECURSIVE Equal(_, _)
Equal(a, b) ==
  CASE a.kind = "zip_forward" -> Equal(a.parts[1], b.parts[1])
    [] a.kind = "transform"   -> Equal(a.inner, b.inner)
    [] OTHER                  -> Distance(a, b) = 0

Less(a, b) == Distance(a, b) < 0
-------------------------------------------------------------------------------
Shape(it, sees(_)) == <<it, [p \in 0..(WalkLength - 1) |-> sees(p)]>>

\* The second number of a counting_iterator is the largest signed one plus one.
Shapes ==
  LET half == 2^(Bits - 1)
      Number(p) == p
      High(p) == half + p
      Pair(p) == <<Stored(p), p>>
      Through(p) == Seen(Stored(p))
      PairThrough(p) == <<Seen(<<Stored(p), p>>), half + p>>
      Backwards(p) == Stored(Turned(p))
      PairBackwards(p) == <<Stored(Turned(p)), Turned(p)>>
      Ignored(p) == "ignore"
      pair == <<Pointer(0), Counting(0)>>
      turned == PermutationBy(Pointer(0), "turned", 0)
  IN  {Shape(Counting(0), Number), Shape(Counting(half), High), Shape(Discard(0), Ignored),
       Shape(Zip(pair), Pair), Shape(ZipForward(pair), Pair),
       Shape(Transform(Pointer(0), "seen"), Through),
       Shape(Zip(<<Transform(Zip(pair), "seen"), Counting(half)>>), PairThrough),
       Shape(turned, Backwards), Shape(PermutationBy(Zip(pair), "turned", 0), PairBackwards),
       Shape(Permutation(Pointer(0), Counting(0)), Stored),
       Shape(PermutationBy(turned, "turned", 0), Stored)}

\* An empty range.
Unwalked == <<Discard(0), <<>>>>
Places == 0..Cardinality(DOMAIN shape[2])

Init == shape \in Shapes /\ walker = shape[1] /\ place = 0

Walk(op, k) ==
  /\ Delta(op, k) # 0 /\ place + Delta(op, k) \in Places
  /\ shape[1].kind = "zip_forward" => op = "++"
  /\ walker' = Step(walker, op, k)
  /\ place' = place + Delta(op, k)
  /\ UNCHANGED shape

\* In an empty range there is nowhere to go.
Next == shape # Unwalked /\ \E op \in Steps, k \in (-WalkLength)..WalkLength : Walk(op, k)
Spec == Init /\ [][Next]_vars
-------------------------------------------------------------------------------
\* However an iterator has been walked, it shows what its place shows, and it compares
\* and subtracts as places do: whatever it is made of and whatever the elements are, as
\* long as the length of the range fits in the difference type (iterator_impl.h:32-880).
IteratorsWalkLikePointers ==
  shape # Unwalked =>
    /\ place \in DOMAIN shape[2] => Read(walker) = shape[2][place]
    /\ \A q \in Places :
         LET other == IF shape[1].kind = "zip_forward" THEN walker ELSE Step(shape[1], "+", q)
             at == IF shape[1].kind = "zip_forward" THEN place ELSE q
         IN  /\ Equal(walker, other) <=> place = at
             /\ shape[1].kind # "zip_forward" =>
                  /\ Distance(walker, other) = place - q
                  /\ Less(walker, other) <=> place < q
                  /\ q \in DOMAIN shape[2] => Subscript(walker, q - place) = shape[2][q]
===============================================================================
