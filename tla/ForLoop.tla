-------------------------------- MODULE ForLoop --------------------------------
(* The experimental for_loop: a reduction over the positions of a strided range.    *)
(* Its value is a pack of reduction and induction objects. One of each is kept here: *)
(* the reduction stands for the terms it has accumulated, in order, a term being the *)
(* element a call of the function was given and the value of the induction then.     *)
EXTENDS Integers, Sequences, FiniteSets

Strides == {-2, -1, 1, 2}

\* __calculate_input_sequence_length.
SequenceLength(first, last, stride) ==
  IF stride > 0 THEN (last - first + (stride - 1)) \div stride
                ELSE (first - last - (stride + 1)) \div (-stride)

\* The loops of m positions, and an induction that begins at var. A loop that is not
\* parallel is one call, over numbers that can be computed or over an iterator that can
\* only go on by one.
Loops(m) ==
  {d \in [version : {"parallel", "computed", "iterated"}, first : {0}, last : (-2 * m)..(2 * m),
          stride : Strides, var : {0, 3}, varStride : {1, -2}] :
     /\ d.last * d.stride >= 0
     /\ SequenceLength(d.first, d.last, d.stride) = m}

Positions(d) == SequenceLength(d.first, d.last, d.stride)

\* __apply_func at position p.
Term(d, p) == <<d.first + p * d.stride, d.var + p * d.varStride>>

\* The pack each body begins with.
IdentityPack(m, d) == << >>

\* A chunk of the loop finds its first element and its positions by itself.
Walk(d, i, j, pack) == {<<d, pack \o [q \in 1..(j - i) |-> Term(d, i + q - 1)]>>}

\* Reductions are combined, inductions have nothing to combine.
Combined(d, a, b) == {<<d, a \o b>>}

\* The reduction is added to the variable's own value, which comes first; the induction
\* variable is set to what the loop has added to it.
Finalized(d, pack, k) == [reduced |-> <<"before">> \o pack, var |-> k * d.varStride]
Returned(d, pack) == Finalized(d, pack, Positions(d))

\* __pattern_for_loop_n on one thread.
Computed(d) == [q \in 1..Positions(d) |-> Term(d, q - 1)]

\* __execute_loop_strided passes over the elements between two positions.
Distance(d) == IF d.stride > 0 THEN d.last - d.first ELSE d.first - d.last
Iterated(d) ==
  LET sign == IF d.stride > 0 THEN 1 ELSE -1
      pack[i \in 0..Distance(d)] ==
        IF i = 0 THEN << >>
        ELSE IF (i - 1) % (sign * d.stride) # 0 THEN pack[i - 1]
        ELSE Append(pack[i - 1], <<d.first + sign * (i - 1), d.var + Len(pack[i - 1]) * d.varStride>>)
  IN  pack[Distance(d)]

InOneGo(m, d) == d.version # "parallel"
AnswerInOneGo(m, d) ==
  IF d.version = "computed" THEN Finalized(d, Computed(d), Positions(d))
                            ELSE Finalized(d, Iterated(d), Len(Iterated(d)))
-------------------------------------------------------------------------------
(* The loop that begins at first and goes on by stride as long as it has not come to *)
(* last or beyond it: every iteration counts once, in order; an induction that began *)
(* at 0 has then its next value.                                                     *)
Iterations(d) ==
  LET k == Distance(d)
      by == IF d.stride > 0 THEN d.stride ELSE -d.stride
  IN  {p \in 0..k : p * by < k}

Correct(d, it) ==
  /\ Len(it.reduced) = 1 + Cardinality(Iterations(d))
  /\ it.reduced[1] = "before"
  /\ \A p \in Iterations(d) :
       it.reduced[p + 2] = <<d.first + p * d.stride, d.var + p * d.varStride>>
  /\ d.var = 0 => it.var = Cardinality(Iterations(d)) * d.varStride

\* The value of a part has the terms of its positions.
Describes(d, i, j, pack) == pack = [q \in 1..(j - i) |-> Term(d, i + q - 1)]
===============================================================================
