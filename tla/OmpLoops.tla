------------------------------- MODULE OmpLoops -------------------------------
(* The loops of the OpenMP backend: how a range of n elements is cut into      *)
(* chunks (the pure functions __chunk_partitioner and __process_chunk),        *)
(* __parallel_for, and __parallel_transform_reduce.                            *)
EXTENDS Integers

CONSTANTS MaxLoop,     \* bound on the length of the range
          ChunkSizes   \* the values of __default_chunk_size to check

ASSUME ConstantsAssumption == MaxLoop \in Nat /\ ChunkSizes \subseteq Nat \ {0}

\* [mutant] The final leftovers are given to nobody.
ChunkPartitioner_Forgets(n, c) ==
  LET chunks == n \div c + 1
      size   == n \div chunks
  IN  IF n < c
        THEN [n_chunks |-> 1, chunk_size |-> n, first_chunk_size |-> n]
        ELSE [n_chunks |-> chunks, chunk_size |-> size, first_chunk_size |-> size]

\* __chunk_partitioner for n elements and a requested chunk size of c.
ChunkPartitioner(n, c) ==
  LET chunks   == n \div c + 1
      size     == n \div chunks
      leftover == n - chunks * size
      extra    == leftover \div chunks
  IN  CASE n < c -> [n_chunks |-> 1, chunk_size |-> n, first_chunk_size |-> n]
        [] n >= c /\ leftover = size ->
             [n_chunks |-> chunks + 1, chunk_size |-> size, first_chunk_size |-> size]
        [] OTHER ->
             [n_chunks |-> chunks, chunk_size |-> size + extra,
              first_chunk_size |-> size + extra + (leftover - extra * chunks)]

\* [mutant] The first chunk is taken to be as long as the others.
ChunkBegin_Uniform(metrics, i) == i * metrics.chunk_size

\* Where chunk i begins.
ChunkBegin(metrics, i) ==
  IF i = 0 THEN 0
           ELSE i * metrics.chunk_size + (metrics.first_chunk_size - metrics.chunk_size)
\* Where it ends: the first chunk has a size of its own.
ChunkEnd(metrics, i) ==
  ChunkBegin(metrics, i) + (IF i = 0 THEN metrics.first_chunk_size ELSE metrics.chunk_size)
ChunkElements(metrics, i) == ChunkBegin(metrics, i)..(ChunkEnd(metrics, i) - 1)
-------------------------------------------------------------------------------
(* __parallel_for of the OpenMP backend, and the loop of its parallel move:    *)
(* one task per chunk of [first, last), in any order and at the same time.     *)
VARIABLES forN,        \* __last - __first
          forSize,     \* __requested_chunk_size
          task,        \* task[i]: the state of iteration i of the taskloop
          applied,     \* applied[e]: how many times the body was applied to element e
          returned

forVars == <<forN, forSize, task, applied, returned>>

Policy == ChunkPartitioner(forN, forSize)
Chunks == 0..(Policy.n_chunks - 1)

ForInit ==
  /\ forN \in 0..MaxLoop
  /\ forSize \in ChunkSizes
  /\ task = [i \in Chunks |-> "ready"]
  /\ applied = [e \in 0..(forN - 1) |-> 0]
  /\ returned = FALSE

\* A thread takes an iteration of the taskloop.
ForStart(i) ==
  /\ task[i] = "ready"
  /\ task' = [task EXCEPT ![i] = "running"]
  /\ UNCHANGED <<forN, forSize, applied, returned>>

\* __process_chunk has applied the body to its subrange.
ForFinish(i) ==
  /\ task[i] = "running"
  /\ task' = [task EXCEPT ![i] = "done"]
  /\ applied' = [e \in 0..(forN - 1) |-> applied[e] + (IF e \in ChunkElements(Policy, i) THEN 1 ELSE 0)]
  /\ UNCHANGED <<forN, forSize, returned>>

\* The taskloop waits for all of its tasks.
ForReturn ==
  /\ ~returned
  /\ \A i \in Chunks : task[i] = "done"
  /\ returned' = TRUE
  /\ UNCHANGED <<forN, forSize, task, applied>>

ForNext == ForReturn \/ \E i \in Chunks : ForStart(i) \/ ForFinish(i)

ForSpec == ForInit /\ [][ForNext]_forVars
-------------------------------------------------------------------------------
\* Every variable stays in its set.
ForTypeOK ==
  /\ forN \in 0..MaxLoop
  /\ forSize \in ChunkSizes
  /\ Policy \in [n_chunks : Nat \ {0}, chunk_size : 0..forN, first_chunk_size : 0..forN]
  /\ task \in [Chunks -> {"ready", "running", "done"}]
  /\ applied \in [0..(forN - 1) -> Nat]
  /\ returned \in BOOLEAN

\* Tasks that run at the same time never touch the same element
\* (omp/util.h:163-173: a chunk that begins before its predecessor's end).
NoSharedElement ==
  \A i \in Chunks, j \in Chunks :
    i # j /\ task[i] = "running" /\ task[j] = "running"
      => ChunkElements(Policy, i) \cap ChunkElements(Policy, j) = {}

\* When the call returns, the body has been applied exactly once to each element
\* of the range (omp/util.h:126-160: leftovers lost, or handed out twice), and to
\* nothing beyond it.
EachElementOnce ==
  returned => /\ \A e \in 0..(forN - 1) : applied[e] = 1
              /\ \A i \in Chunks : ChunkElements(Policy, i) \subseteq 0..(forN - 1)

(* The inductive strengthening: an element counts one call if its chunk is done *)
(* and none before, and the call returns when every chunk is done.              *)
CallsOfDoneChunks ==
  \A e \in 0..(forN - 1) :
    applied[e] = IF \E i \in Chunks : task[i] = "done" /\ e \in ChunkElements(Policy, i)
                 THEN 1 ELSE 0
ReturnAfterAll == returned => \A i \in Chunks : task[i] = "done"
ForIInv == ForTypeOK /\ CallsOfDoneChunks /\ ReturnAfterAll
-------------------------------------------------------------------------------
(* __parallel_transform_reduce of the OpenMP backend: the threads of the team  *)
(* share the chunks of the range, and each has an accumulator of its own. A    *)
(* value is known by what it is made of: the number of times each element, and *)
(* the initial value (element -1), was taken into it.                          *)
CONSTANT MaxThreads         \* bound on the size of the team

ASSUME TeamAssumption == MaxThreads \in Nat \ {0}

VARIABLES teamN, threads, teamSize,
          teamPc,          \* where the thread is that runs the single region
          accums,          \* accums[i]: the accumulator of thread i
          runner,          \* runner[c]: the thread chunk c is tied to, or Nobody
          seen,            \* seen[c]: the accumulator __reduction was called with
          finished,        \* the chunks whose task has ended
          result

teamVars == <<teamN, threads, teamSize, teamPc, accums, runner, seen, finished, result>>
teamInput == <<teamN, threads, teamSize>>

Nobody == -1
Team == 0..(threads - 1)
TeamElements == (-1)..(teamN - 1)
Value(S) == [e \in TeamElements |-> IF e \in S THEN 1 ELSE 0]
Added(a, b) == [e \in TeamElements |-> a[e] + b[e]]

(* The first elements, one per thread, become the accumulators; the others are *)
(* cut into chunks. (For a shorter range the code computes a policy that it    *)
(* does not use.)                                                              *)
TeamPolicy == ChunkPartitioner(teamN - threads, teamSize)
TooSmall == teamN <= threads \/ TeamPolicy.n_chunks < 2
TeamChunks == IF TooSmall THEN {} ELSE 0..(TeamPolicy.n_chunks - 1)
Taken(c) == {threads + e : e \in ChunkElements(TeamPolicy, c)}

TeamInit ==
  /\ teamN \in 0..MaxLoop
  /\ threads \in 1..MaxThreads
  /\ teamSize \in ChunkSizes
  /\ teamPc = "begin"
  /\ accums = [i \in Team |-> Value({})]
  /\ runner = [c \in TeamChunks |-> Nobody]
  /\ seen = [c \in TeamChunks |-> Value({})]
  /\ finished = {}
  /\ result = Value({})

\* A range that is too small is reduced by this thread.
Serial ==
  /\ teamPc = "begin"
  /\ TooSmall
  /\ teamPc' = "done"
  /\ result' = Value(TeamElements)
  /\ UNCHANGED <<teamInput, accums, runner, seen, finished>>

\* Each thread's accumulator is made of an element of the range.
Accumulators ==
  /\ teamPc = "begin"
  /\ ~TooSmall
  /\ teamPc' = "loop"
  /\ accums' = [i \in Team |-> Value({i})]
  /\ UNCHANGED <<teamInput, runner, seen, finished, result>>

\* [mutant] The tasks are untied: a thread may take another chunk while one that
\* it began is suspended in the reduction.
Start_Untied(c, i) ==
  /\ teamPc = "loop"
  /\ runner[c] = Nobody
  /\ runner' = [runner EXCEPT ![c] = i]
  /\ seen' = [seen EXCEPT ![c] = accums[i]]
  /\ UNCHANGED <<teamInput, teamPc, accums, finished, result>>

\* Thread i begins a chunk: it calls __reduction with its accumulator. The tasks
\* are tied, so what it began it ends before it takes another chunk.
Start(c, i) ==
  /\ teamPc = "loop"
  /\ runner[c] = Nobody
  /\ \A d \in TeamChunks : runner[d] = i => d \in finished
  /\ runner' = [runner EXCEPT ![c] = i]
  /\ seen' = [seen EXCEPT ![c] = accums[i]]
  /\ UNCHANGED <<teamInput, teamPc, accums, finished, result>>

\* __reduction returns, and its value is stored into the thread's accumulator.
Finish(c) ==
  /\ runner[c] # Nobody
  /\ c \notin finished
  /\ accums' = [accums EXCEPT ![runner[c]] = Added(seen[c], Value(Taken(c)))]
  /\ finished' = finished \cup {c}
  /\ UNCHANGED <<teamInput, teamPc, runner, seen, result>>

\* The accumulators of the whole team are combined, one by one, with __init.
CombineTeam ==
  /\ teamPc = "loop"
  /\ finished = TeamChunks
  /\ teamPc' = "done"
  /\ LET sum[i \in 0..threads] == IF i = 0 THEN Value({-1}) ELSE Added(sum[i - 1], accums[i - 1])
     IN  result' = sum[threads]
  /\ UNCHANGED <<teamInput, accums, runner, seen, finished>>

TeamNext ==
  \/ Serial \/ Accumulators \/ CombineTeam
  \/ \E c \in TeamChunks : Finish(c) \/ \E i \in Team : Start(c, i)

TeamSpec == TeamInit /\ [][TeamNext]_teamVars
-------------------------------------------------------------------------------
\* The result is made of the initial value once and of each element once
\* (omp/parallel_transform_reduce.h:54-83): no chunk is lost or overlaps with the
\* elements the accumulators began with, and no accumulator that is read before
\* __reduction and replaced after it loses what another chunk put into it.
TeamResultIsExact == teamPc = "done" => \A e \in TeamElements : result[e] = 1
===============================================================================
