----------------------------- MODULE HostPatterns -----------------------------
(* The parallel patterns of the host policies that are one __parallel_or, one        *)
(* __parallel_find, a sequence of parallel loops or repeated partitions. A call runs *)
(* __parallel_or as ParallelOr says, step by step, and __parallel_find as its         *)
(* contract PriorityUpdate says, over the results of the algorithm's brick.           *)
EXTENDS Integers, Sequences, FiniteSets, FiniteSetsExt

CONSTANTS MaxN,          \* bound on the range of a search, and of its chunks
          MaxLoop,       \* bound on the range of a loop, and of nth_element
          Keys           \* the values of the elements that are ordered

ASSUME SizesAssumption == MaxN \in Nat /\ MaxLoop \in Nat /\ Keys \subseteq Nat

VARIABLES c,             \* the call
          x,             \* the memory of a call that moves elements
          pc,            \* "call", the kind of parallel pattern under way, or "done"
          stage,         \* the parallel loop under way
          chunks,        \* the subranges of the loop under way; those left to run, of moves
          hits,          \* chunks on which the brick is true, or the places it returned
          cancels, found, cancelled, task, verdict,       \* __parallel_or's
          best, place,   \* __parallel_find's
          span,          \* the range nth_element is at
          answer         \* what the call returned

orVars == <<cancels, found, cancelled, task, verdict>>
findVars == <<best, place>>
loopVars == <<x, stage, span>>
vars == <<c, x, pc, stage, chunks, hits, orVars, findVars, span, answer>>

Search == INSTANCE SearchPatterns
Moves == INSTANCE LoopPatterns
Or == INSTANCE ParallelOr WITH holds <- hits, pc <- task, answer <- verdict
Find == INSTANCE PriorityUpdate WITH
  n <- Search!SearchLength(c), isFirst <- Search!IsFirst(c), match <- hits, answer <- place

\* The ways the backend may cut [lo, hi).
Tilings(lo, hi) ==
  IF lo >= hi THEN {{}}
  ELSE {{<<i, Min({j \in cut \cup {hi} : j > i})>> : i \in cut \cup {lo}} : cut \in SUBSET ((lo + 1)..(hi - 1))}
-------------------------------------------------------------------------------
Ranges(n, S) == UNION {[0..(m - 1) -> S] : m \in 0..n}
Ordered(n) == {s \in Ranges(n, Keys) : \A p, q \in DOMAIN s : p < q => s[p] <= s[q]}
Marks == {1, 2}
SearchCall(alg, a, b, k) == [alg |-> alg, a |-> a, b |-> b, k |-> k]
Pairs(alg, A, B) == {SearchCall(alg, a, b, 0) : a \in A, b \in B}
None == <<>>

SearchCalls ==
  Pairs("includes", Ordered(MaxN), Ordered(MaxN)) \cup
  (UNION {Pairs(alg, Ranges(MaxN, Marks), {None}) : alg \in {"any_of", "find_if"}}) \cup
  (UNION {Pairs(alg, Ranges(MaxN, Keys), {None}) : alg \in {"is_heap", "is_heap_until"}}) \cup
  (UNION {Pairs(alg, Ranges(3, Marks), Ranges(3, Marks)) : alg \in {"equal", "mismatch", "lexicographical_compare"}}) \cup
  (UNION {Pairs(alg, Ranges(MaxN, Marks), Ranges(2, Marks)) : alg \in {"search", "find_end", "find_first_of"}}) \cup
  {SearchCall("search_n", a, None, k) : a \in Ranges(MaxN, Marks), k \in 0..MaxN}

MoveCalls == {[alg |-> alg, n |-> n, k |-> k] : alg \in Moves!LoopAlgs, n \in 0..MaxLoop, k \in 0..MaxLoop}

NthCalls == {[alg |-> "nth_element", a |-> a, k |-> k] : a \in Ranges(MaxLoop, Keys), k \in 0..MaxLoop}

\* __middle and __nth are in the range.
IsCall(d) ==
  /\ d.alg \in {"rotate", "rotate_copy", "transform_pairs"} => d.k <= d.n
  /\ d.alg \in Moves!LoopAlgs \ (Moves!Rotations \cup {"transform_pairs"}) => d.k = 0
  /\ d.alg = "nth_element" => d.k <= Cardinality(DOMAIN d.a)

IsSearch(d) == d.alg \in Search!OrAlgs \cup Search!FindAlgs
IsMove(d) == d.alg \in Moves!LoopAlgs

Init ==
  /\ c \in {d \in SearchCalls \cup MoveCalls \cup NthCalls : IsCall(d)}
  /\ x = (CASE IsMove(c) -> Moves!Memory(c) [] c.alg = "nth_element" -> c.a [] OTHER -> None)
  /\ pc = "call" /\ stage = 0 /\ chunks = {} /\ hits = {}
  /\ cancels \in BOOLEAN
  /\ found = FALSE /\ cancelled = FALSE /\ task = None /\ verdict = "running"
  /\ best = Find!Running /\ place = Find!Running
  /\ span = None /\ answer = {}

Return(value) ==
  /\ pc' = "done" /\ answer' = {value}

\* The call is answered by what it checks before it searches.
Decide ==
  /\ pc = "call" /\ IsSearch(c)
  /\ \E value \in Search!Shortcut(c) : Return(value)
  /\ UNCHANGED <<c, loopVars, chunks, hits, orVars, findVars>>

BeginOr ==
  /\ pc = "call" /\ IsSearch(c) /\ Search!Shortcut(c) = {} /\ Search!IsOr(c)
  /\ chunks' \in Tilings(0, Search!SearchLength(c))
  /\ hits' = {h \in chunks' : Search!OrBrick(c, h[1], h[2])}
  /\ task' = [h \in chunks' |-> "check"]
  /\ pc' = "or"
  /\ UNCHANGED <<c, loopVars, cancels, found, cancelled, verdict, findVars, answer>>

StepOr ==
  /\ pc = "or"
  /\ Or!Next
  /\ UNCHANGED <<c, pc, loopVars, findVars, answer>>

EndOr ==
  /\ pc = "or" /\ verdict # "running"
  /\ Return(Search!FromOr(c, verdict = "true"))
  /\ UNCHANGED <<c, loopVars, chunks, hits, orVars, findVars>>

BeginFind ==
  /\ pc = "call" /\ IsSearch(c) /\ Search!Shortcut(c) = {} /\ ~Search!IsOr(c)
  /\ chunks' \in Tilings(0, Search!SearchLength(c))
  /\ hits' = {Search!FindBrick(c, h[1], h[2]) : h \in {t \in chunks' : Search!FindBrick(c, t[1], t[2]) # t[2]}}
  /\ best' = Find!Initial(Search!IsFirst(c), Search!SearchLength(c))
  /\ pc' = "find"
  /\ UNCHANGED <<c, loopVars, orVars, place, answer>>

StepFind ==
  /\ pc = "find"
  /\ UNCHANGED <<c, pc, loopVars, chunks, orVars, answer>>
  /\ Find!Next

EndFind ==
  /\ pc = "find" /\ place # Find!Running
  /\ Return(Search!FromFind(c, place))
  /\ UNCHANGED <<c, loopVars, chunks, hits, orVars, findVars>>

Unrelated == <<c, hits, orVars, findVars>>
loops == Moves!Loops(c)

\* The next parallel loop starts when every chunk of the last one has run.
NextLoop ==
  /\ IsMove(c) /\ pc \in {"call", "moves"} /\ chunks = {} /\ stage < Len(loops)
  /\ pc' = "moves" /\ stage' = stage + 1
  /\ chunks' \in Tilings(loops[stage + 1].lo, loops[stage + 1].hi)
  /\ UNCHANGED <<Unrelated, x, span, answer>>

RunChunk ==
  /\ pc = "moves"
  /\ \E h \in chunks :
       x' = Moves!Body(x, loops[stage], h[1], h[2]) /\ chunks' = chunks \ {h}
  /\ UNCHANGED <<Unrelated, pc, stage, span, answer>>

EndLoops ==
  /\ IsMove(c) /\ pc \in {"call", "moves"} /\ chunks = {} /\ stage = Len(loops)
  /\ Return(Moves!Returned(c))
  /\ UNCHANGED <<Unrelated, loopVars, chunks>>

BeginNth ==
  /\ pc = "call" /\ c.alg = "nth_element"
  /\ LET n == Cardinality(DOMAIN c.a)
     IN  IF n = 0 \/ c.k = n
           THEN Return(n) /\ UNCHANGED span
           ELSE span' = <<0, n>> /\ pc' = "nth" /\ UNCHANGED answer
  /\ UNCHANGED <<Unrelated, x, stage, chunks>>

\* One iteration of nth_element's do-while.
Iterate ==
  /\ pc = "nth"
  /\ \E r \in Moves!Iterations(x, span[1], span[2], c.k) :
       /\ x' = r[1] /\ span' = <<r[2], r[3]>>
       /\ IF r[4] = c.k THEN Return(Cardinality(DOMAIN x)) ELSE UNCHANGED <<pc, answer>>
  /\ UNCHANGED <<Unrelated, stage, chunks>>

Next ==
  \/ Decide
  \/ BeginOr \/ StepOr \/ EndOr
  \/ BeginFind \/ StepFind \/ EndFind
  \/ NextLoop \/ RunChunk \/ EndLoops
  \/ BeginNth \/ Iterate

Spec == Init /\ [][Next]_vars
-------------------------------------------------------------------------------
\* Every algorithm returns, and leaves in the range, what std's does
\* (algorithm_impl.h, the parallel patterns named in SearchPatterns and
\* LoopPatterns), however the backend cuts the range and whichever chunks run first.
CallIsCorrect ==
  pc = "done" => \E it \in answer :
    CASE IsSearch(c) -> Search!Correct(c, it)
      [] IsMove(c)   -> Moves!Correct(c, x, it)
      [] OTHER       -> c.k < Cardinality(DOMAIN x) => Moves!NthCorrect(c.a, x, c.k)

\* A chunk whose brick is true is given up only once the flag that decides the answer
\* is set (parallel_impl.h:80-83), for the bricks of the real algorithms.
SkippedOnlyWhenFound == pc = "or" => Or!SkippedOnlyWhenFound

\* The chunks of a loop may run in any order, or at once: none touches a slot another
\* writes, each finds its elements where the loop before left them, no element is
\* constructed over another and none is left in the buffer (algorithm_impl.h:1794-1917,
\* 4081-4126).
MovesAreIndependent ==
  /\ pc = "moves" => \A h, g \in chunks :
       /\ Moves!MayRun(x, loops[stage], h[1], h[2])
       /\ h # g => Moves!Changed(loops[stage], h[1], h[2]) \cap Moves!Touched(loops[stage], g[1], g[2]) = {}
  /\ pc = "done" /\ IsMove(c) => \A l \in DOMAIN x.buffer : x.buffer[l] = Moves!Raw
===============================================================================
