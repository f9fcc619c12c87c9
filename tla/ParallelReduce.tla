---------------------------- MODULE ParallelReduce ----------------------------
(* __parallel_reduce of both backends, and the schedule under                 *)
(* __parallel_transform_reduce of the TBB backend: a range is halved into      *)
(* pieces that bodies process from left to right, and neighbours are joined.   *)
(* The algorithm is the caller's: its functors are the constant operators.     *)
(* A pair of neighbours is joined at any time after the right one has begun,   *)
(* which allows the trees of tasks of both backends and more.                  *)
EXTENDS Integers

CONSTANTS
  MaxN,                    \* bound on the length of the range
  Grain,                   \* a piece of at most this length is not halved
  Contents(_),             \* what a range of a length may hold
  Short(_, _),             \* the caller needs no reduction,
  Trivial(_, _),           \* and returns this
  First(_, _),             \* the value of the first body,
  Identity(_, _),          \* and of the others
  RealBody(_, _, _, _),    \* the pairs of contents and value __real_body leaves
  Reduction(_, _, _),      \* the pairs of contents and value __reduction leaves
  Answer(_, _)             \* what the caller makes of the result

VARIABLES n, given,        \* the length of the range and what it holds at first
          x,               \* what it holds now
          pieces,          \* the subranges <<i, j>> that no body has taken
          bodies,          \* the bodies: the part of the range done, and the value
          pc, answer       \* what the call returned: {}, or {it}

args == <<n, given>>
vars == <<args, x, pieces, bodies, pc, answer>>

Body(lo, hi, v) == [lo |-> lo, hi |-> hi, val |-> v]

Init ==
  /\ n \in 0..MaxN
  /\ given \in Contents(n)
  /\ x = given
  /\ pieces = {} /\ bodies = {}
  /\ pc = "begin"
  /\ answer = {}

\* The trivial pre-check of the caller.
Precheck ==
  /\ pc = "begin"
  /\ Short(n, x)
  /\ pc' = "done"
  /\ answer' = {Trivial(n, x)}
  /\ UNCHANGED <<args, x, pieces, bodies>>

\* The whole range is one piece, beside the first body; an empty range is a piece
\* for the OpenMP backend and none for TBB.
Begin ==
  /\ pc = "begin"
  /\ ~Short(n, x)
  /\ pc' = "reduce"
  /\ pieces' \in {{<<0, n>>}} \cup (IF n = 0 THEN {{}} ELSE {})
  /\ bodies' = {Body(0, 0, First(n, x))}
  /\ UNCHANGED <<args, x, answer>>

\* [mutant] A piece as long as the grain is halved as well.
Halve_AtGrain(p) ==
  /\ p \in pieces
  /\ p[2] - p[1] >= Grain
  /\ LET mid == p[1] + (p[2] - p[1]) \div 2
     IN  pieces' = (pieces \ {p}) \cup {<<p[1], mid>>, <<mid, p[2]>>}
  /\ UNCHANGED <<args, x, bodies, pc, answer>>

\* [mutant] A piece is halved whatever its length.
Halve_Always(p) ==
  /\ p \in pieces
  /\ LET mid == p[1] + (p[2] - p[1]) \div 2
     IN  pieces' = (pieces \ {p}) \cup {<<p[1], mid>>, <<mid, p[2]>>}
  /\ UNCHANGED <<args, x, bodies, pc, answer>>

\* A piece is halved (blocked_range, __middle); both halves are tasks.
Halve(p) ==
  /\ p \in pieces
  /\ p[2] - p[1] > Grain
  /\ LET mid == p[1] + (p[2] - p[1]) \div 2
     IN  pieces' = (pieces \ {p}) \cup {<<p[1], mid>>, <<mid, p[2]>>}
  /\ UNCHANGED <<args, x, bodies, pc, answer>>

\* A right half begins while the left one has not ended: it gets a body of its own.
NewBody(p) ==
  /\ p \in pieces
  /\ \A b \in bodies : b.lo # p[1]
  /\ p[1] # 0
  /\ bodies' = bodies \cup {Body(p[1], p[1], Identity(n, x))}
  /\ UNCHANGED <<args, x, pieces, pc, answer>>

\* A body takes the piece that follows what it has done: __real_body is called.
Process(b, p) ==
  /\ b \in bodies
  /\ p \in pieces
  /\ b.hi = p[1]
  /\ ~\E c \in bodies : c # b /\ c.lo = p[1]
  /\ \E r \in RealBody(x, p[1], p[2], b.val) :
       /\ x' = r[1]
       /\ bodies' = (bodies \ {b}) \cup {Body(b.lo, p[2], r[2])}
  /\ pieces' = pieces \ {p}
  /\ UNCHANGED <<args, pc, answer>>

\* A body is joined to its left neighbour, whose pieces are done as its own are.
Join(b, c) ==
  /\ b \in bodies /\ c \in bodies
  /\ b.hi = c.lo
  /\ c.lo < c.hi
  /\ \E r \in Reduction(x, b.val, c.val) :
       /\ x' = r[1]
       /\ bodies' = (bodies \ {b, c}) \cup {Body(b.lo, c.hi, r[2])}
  /\ UNCHANGED <<args, pieces, pc, answer>>

\* One body is left, with nothing to do.
Return ==
  /\ pc = "reduce"
  /\ pieces = {}
  /\ \E b \in bodies : bodies = {b} /\ answer' = {Answer(x, b.val)}
  /\ pc' = "done"
  /\ UNCHANGED <<args, x, pieces, bodies>>

Next ==
  \/ Precheck \/ Begin \/ Return
  \/ \E p \in pieces : Halve(p) \/ NewBody(p) \/ \E b \in bodies : Process(b, p)
  \/ \E b \in bodies, c \in bodies : Join(b, c)

Spec == Init /\ [][Next]_vars
===============================================================================
