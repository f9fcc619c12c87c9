--------------------------- MODULE ChunkLoopsProofs ---------------------------
(* The theorems about the loops over chunks: that the chunks of the OpenMP     *)
(* backend tile every range, for every length and every requested size, and    *)
(* what follows for __parallel_for and __parallel_transform_reduce; about the  *)
(* transform reduce of TBB, for ranges of every length and every grain size of *)
(* at least 3; and about the transform scan of TBB, for ranges of every length *)
(* cut in any way.                                                             *)
EXTENDS OmpLoops, TransformBodies, NaturalLemmas, SequenceTheorems

\* What the metrics of __chunk_partitioner have in common.
Tiles(metrics, len) ==
  /\ metrics.n_chunks \in Nat \ {0}
  /\ metrics.chunk_size \in 0..len
  /\ metrics.first_chunk_size \in 0..len
  /\ metrics.first_chunk_size + (metrics.n_chunks - 1) * metrics.chunk_size = len

LEMMA ChunksAddUp ==
  ASSUME NEW len \in Nat, NEW c \in Nat \ {0}
  PROVE  Tiles(ChunkPartitioner(len, c), len)
<1> DEFINE chunks   == len \div c + 1
           size     == len \div chunks
           leftover == len - chunks * size
           extra    == leftover \div chunks
           m        == ChunkPartitioner(len, c)
<1>1. chunks \in Nat \ {0}
  BY Division
<1>2. size \in Nat /\ chunks * size <= len /\ leftover < chunks /\ leftover \in Nat
  <2> HIDE DEF chunks
  <2>1. size \in Nat /\ chunks * size <= len /\ len - chunks * size < chunks
    BY <1>1, Division
  <2>2. chunks * size \in Nat
    BY <1>1, <2>1
  <2> QED BY <2>1, <2>2
<1>3. extra = 0
  <2> HIDE DEF chunks, leftover
  <2> QED BY <1>1, <1>2
<1>4. size <= len /\ size + (chunks - 1) * size = chunks * size
  <2> HIDE DEF chunks, size
  <2>1. size + (chunks - 1) * size = chunks * size
    BY <1>1, <1>2
  <2>2. (chunks - 1) * size >= 0
    BY <1>1, <1>2
  <2> QED BY <1>1, <1>2, <2>1, <2>2
<1>5. leftover + chunks * size = len
  <2> HIDE DEF chunks, size
  <2> QED BY <1>1, <1>2
<1>6. (chunks - 1) * size >= 0
  <2> HIDE DEF chunks, size
  <2> QED BY <1>1, <1>2
<1>7. m = CASE len < c -> [n_chunks |-> 1, chunk_size |-> len, first_chunk_size |-> len]
            [] len >= c /\ leftover = size ->
                 [n_chunks |-> chunks + 1, chunk_size |-> size, first_chunk_size |-> size]
            [] OTHER ->
                 [n_chunks |-> chunks, chunk_size |-> size + extra,
                  first_chunk_size |-> size + extra + (leftover - extra * chunks)]
  BY DEF ChunkPartitioner
<1> SUFFICES Tiles(m, len)
  OBVIOUS
<1> HIDE DEF chunks, size, leftover, extra, m
<1>8. CASE len < c
  BY <1>7, <1>8 DEF Tiles
<1>9. CASE len >= c /\ leftover = size
  <2>1. m = [n_chunks |-> chunks + 1, chunk_size |-> size, first_chunk_size |-> size]
    BY <1>7, <1>9
  <2>2. size + (chunks + 1 - 1) * size = len
    BY <1>1, <1>2, <1>5, <1>9
  <2> QED BY <1>1, <1>2, <1>4, <2>1, <2>2 DEF Tiles
<1>10. CASE len >= c /\ leftover # size
  <2>1. m = [n_chunks |-> chunks, chunk_size |-> size, first_chunk_size |-> size + leftover]
    BY <1>1, <1>2, <1>3, <1>7, <1>10
  <2>2. size + leftover + (chunks - 1) * size = len /\ size + leftover <= len
    BY <1>1, <1>2, <1>4, <1>5, <1>6
  <2> QED BY <1>1, <1>2, <1>4, <2>1, <2>2 DEF Tiles
<1> QED BY <1>8, <1>9, <1>10

-------------------------------------------------------------------------------
(* Chunks follow each other, begin at 0 and end at len.                        *)
LEMMA ChunkBounds ==
  ASSUME NEW len \in Nat, NEW m, Tiles(m, len), NEW i \in 0..(m.n_chunks - 1)
  PROVE  /\ ChunkBegin(m, i) \in 0..len
         /\ ChunkEnd(m, i) \in ChunkBegin(m, i)..len
         /\ i = 0 => ChunkBegin(m, i) = 0
         /\ i = m.n_chunks - 1 => ChunkEnd(m, i) = len
<1> DEFINE size == m.chunk_size
           first == m.first_chunk_size
           chunks == m.n_chunks
<1>1. /\ chunks \in Nat \ {0} /\ size \in Nat /\ first \in Nat
      /\ first + (chunks - 1) * size = len
  BY DEF Tiles
<1>2. ChunkBegin(m, i) = IF i = 0 THEN 0 ELSE i * size + (first - size)
  BY DEF ChunkBegin
<1>3. ChunkEnd(m, i) = ChunkBegin(m, i) + (IF i = 0 THEN first ELSE size)
  BY DEF ChunkEnd
<1>4. i \in Nat /\ i <= chunks - 1
  BY <1>1
<1> HIDE DEF size, first, chunks
<1>5. (chunks - 1) * size \in Nat /\ (chunks - 1 - i) * size >= 0
  BY <1>1, <1>4
<1>6. (chunks - 1) * size = i * size + (chunks - 1 - i) * size
  BY <1>1, <1>4
<1>7. CASE i = 0
  BY <1>1, <1>2, <1>3, <1>5, <1>7 DEF chunks
<1>8. CASE i # 0
  <2>1. i * size = (i - 1) * size + size /\ (i - 1) * size >= 0 /\ i * size \in Nat
    BY <1>1, <1>4, <1>8
  <2>2. i = chunks - 1 => (chunks - 1) * size = i * size
    OBVIOUS
  <2> QED BY <1>1, <1>2, <1>3, <1>5, <1>6, <1>8, <2>1, <2>2 DEF chunks
<1> QED BY <1>7, <1>8

LEMMA ChunksInOrder ==
  ASSUME NEW len \in Nat, NEW m, Tiles(m, len),
         NEW i \in 0..(m.n_chunks - 1), NEW j \in 0..(m.n_chunks - 1), i < j
  PROVE  ChunkEnd(m, i) <= ChunkBegin(m, j)
<1> DEFINE size == m.chunk_size
           first == m.first_chunk_size
<1>1. size \in Nat /\ first \in Nat /\ i \in Nat /\ j \in Nat /\ j # 0
  BY DEF Tiles
<1>2. ChunkBegin(m, j) = j * size + (first - size)
  BY <1>1 DEF ChunkBegin
<1>3. ChunkEnd(m, i) = (IF i = 0 THEN 0 ELSE i * size + (first - size)) + (IF i = 0 THEN first ELSE size)
  BY DEF ChunkEnd, ChunkBegin
<1> HIDE DEF size, first
<1>4. j * size = (j - i - 1) * size + i * size + size /\ (j - i - 1) * size >= 0
  BY <1>1
<1>5. i = 0 => i * size = 0
  BY <1>1
<1>6. ChunkEnd(m, i) = i * size + first
  BY <1>1, <1>3, <1>5
<1>7. i * size \in Nat /\ j * size \in Nat
  BY <1>1
<1> QED BY <1>1, <1>2, <1>4, <1>6, <1>7

\* Each element of the range is in one chunk, and no other is in any.
AreInOneChunk(m, len) ==
  /\ \A i \in 0..(m.n_chunks - 1), j \in 0..(m.n_chunks - 1) :
       i # j => ChunkElements(m, i) \cap ChunkElements(m, j) = {}
  /\ \A e \in 0..(len - 1) : \E i \in 0..(m.n_chunks - 1) : e \in ChunkElements(m, i)
  /\ \A i \in 0..(m.n_chunks - 1) : ChunkElements(m, i) \subseteq 0..(len - 1)

LEMMA TilesHoldEachElement ==
  ASSUME NEW len \in Nat, NEW m, Tiles(m, len)
  PROVE  AreInOneChunk(m, len)
<1> DEFINE size == m.chunk_size
           first == m.first_chunk_size
           chunks == m.n_chunks
<1>1. /\ chunks \in Nat \ {0} /\ size \in Nat /\ first \in Nat
      /\ first + (chunks - 1) * size = len
  BY DEF Tiles
<1>2. \A i \in 0..(chunks - 1) : ChunkBegin(m, i) \in 0..len /\ ChunkEnd(m, i) \in 0..len
  BY ChunkBounds
<1>3. ASSUME NEW i \in 0..(chunks - 1), NEW j \in 0..(chunks - 1), i < j
      PROVE  ChunkElements(m, i) \cap ChunkElements(m, j) = {}
  <2>1. ChunkEnd(m, i) <= ChunkBegin(m, j)
    BY <1>3, ChunksInOrder
  <2> QED BY <1>2, <2>1 DEF ChunkElements
<1>4. ASSUME NEW i \in 0..(chunks - 1), NEW j \in 0..(chunks - 1), i # j
      PROVE  ChunkElements(m, i) \cap ChunkElements(m, j) = {}
  <2>1. i < j \/ j < i
    BY <1>1, <1>4
  <2> QED BY <1>3, <2>1
<1>5. ASSUME NEW e \in 0..(len - 1)
      PROVE  \E i \in 0..(chunks - 1) : e \in ChunkElements(m, i)
  <2>1. CASE e < first
    <3>1. 0 \in 0..(chunks - 1) /\ ChunkBegin(m, 0) = 0 /\ ChunkEnd(m, 0) = first
      BY <1>1 DEF ChunkBegin, ChunkEnd
    <3> QED BY <1>1, <2>1, <3>1 DEF ChunkElements
  <2>2. CASE e >= first
    <3> DEFINE q == (e - first) \div size
    <3>1. size # 0
      <4> HIDE DEF size, first, chunks
      <4>1. size = 0 => (chunks - 1) * size = 0
        BY <1>1
      <4> QED BY <1>1, <2>2, <4>1
    <3>2. e - first \in Nat /\ size \in Nat \ {0}
      BY <1>1, <2>2, <3>1
    <3>3. q \in Nat /\ size * q <= e - first /\ e - first - size * q < size
      <4> HIDE DEF size, first, chunks
      <4> QED BY <3>2, Division
    <3>4. q < chunks - 1
      <4> HIDE DEF size, first, chunks, q
      <4>1. size * q < (chunks - 1) * size
        BY <1>1, <2>2, <3>3
      <4>2. q >= chunks - 1 => size * q = (q - (chunks - 1)) * size + (chunks - 1) * size
                                /\ (q - (chunks - 1)) * size >= 0
        BY <1>1, <3>2, <3>3
      <4>3. size * q \in Nat /\ (chunks - 1) * size \in Nat
        BY <1>1, <3>2, <3>3
      <4> QED BY <1>1, <3>3, <4>1, <4>2, <4>3
    <3>5. q + 1 \in 0..(chunks - 1) /\ q + 1 # 0
      <4> HIDE DEF q, chunks
      <4> QED BY <1>1, <3>3, <3>4
    <3>6. /\ ChunkBegin(m, q + 1) = (q + 1) * size + (first - size)
          /\ ChunkEnd(m, q + 1) = (q + 1) * size + (first - size) + size
      <4> HIDE DEF q
      <4> QED BY <3>5 DEF ChunkBegin, ChunkEnd
    <3>7. (q + 1) * size = size * q + size
      <4> HIDE DEF q, size, first, chunks
      <4> QED BY <1>1, <3>3
    <3>8. e \in ChunkBegin(m, q + 1)..(ChunkEnd(m, q + 1) - 1)
      <4>1. size * q \in Nat
        <5> HIDE DEF q, size
        <5> QED BY <3>2, <3>3
      <4> HIDE DEF q, size, first, chunks
      <4> QED BY <1>1, <2>2, <3>3, <3>6, <3>7, <4>1
    <3> HIDE DEF q
    <3> QED BY <3>5, <3>8 DEF ChunkElements
  <2> QED BY <1>1, <2>1, <2>2
<1>6. ASSUME NEW i \in 0..(chunks - 1)
      PROVE  ChunkElements(m, i) \subseteq 0..(len - 1)
  BY <1>1, <1>2 DEF ChunkElements
<1> QED BY <1>4, <1>5, <1>6 DEF AreInOneChunk

\* For every range and every chunk size asked for, the chunks that __chunk_partitioner
\* makes tile the range (omp/util.h): they are disjoint and every element is in one, so
\* that they are one of the splits __parallel_find and its like are given.
THEOREM ChunksTileTheRange ==
  ASSUME NEW len \in Nat, NEW c \in Nat \ {0}
  PROVE  AreInOneChunk(ChunkPartitioner(len, c), len)
BY ChunksAddUp, TilesHoldEachElement
-------------------------------------------------------------------------------
LEMMA PolicyTiles ==
  ASSUME forN \in 0..MaxLoop, forSize \in ChunkSizes
  PROVE  forN \in Nat /\ Tiles(Policy, forN)
<1>1. forN \in Nat /\ forSize \in Nat \ {0}
  BY ConstantsAssumption
<1> QED BY <1>1, ChunksAddUp DEF Policy

LEMMA PolicyType ==
  ASSUME forN \in 0..MaxLoop, forSize \in ChunkSizes
  PROVE  Policy \in [n_chunks : Nat \ {0}, chunk_size : 0..forN, first_chunk_size : 0..forN]
<1>1. Tiles(Policy, forN)
  BY PolicyTiles
<1>2. Policy = [n_chunks |-> Policy.n_chunks, chunk_size |-> Policy.chunk_size,
                first_chunk_size |-> Policy.first_chunk_size]
  BY DEF Policy, ChunkPartitioner
<1> QED BY <1>1, <1>2 DEF Tiles

LEMMA PolicyChunks ==
  ASSUME forN \in 0..MaxLoop, forSize \in ChunkSizes
  PROVE  /\ \A i \in Chunks, j \in Chunks :
              i # j => ChunkElements(Policy, i) \cap ChunkElements(Policy, j) = {}
         /\ \A e \in 0..(forN - 1) : \E i \in Chunks : e \in ChunkElements(Policy, i)
         /\ \A i \in Chunks : ChunkElements(Policy, i) \subseteq 0..(forN - 1)
BY PolicyTiles, TilesHoldEachElement DEF Chunks, AreInOneChunk

LEMMA ForInitIInv == ForInit => ForIInv
<1> SUFFICES ASSUME ForInit PROVE ForIInv
  OBVIOUS
<1>1. ForTypeOK
  BY PolicyType DEF ForInit, ForTypeOK
<1>2. CallsOfDoneChunks
  BY DEF ForInit, CallsOfDoneChunks
<1> QED BY <1>1, <1>2 DEF ForInit, ForIInv, ReturnAfterAll

LEMMA ForNextIInv == ForIInv /\ [ForNext]_forVars => ForIInv'
<1> SUFFICES ASSUME ForIInv, [ForNext]_forVars PROVE ForIInv'
  OBVIOUS
<1> USE DEF ForIInv
<1>1. forN' = forN /\ forSize' = forSize
  BY DEF ForNext, ForStart, ForFinish, ForReturn, forVars
<1>2. Policy' = Policy /\ Chunks' = Chunks
  BY <1>1 DEF Policy, Chunks
<1>3. \A i : ChunkElements(Policy, i)' = ChunkElements(Policy, i)
  BY <1>2 DEF ChunkElements
<1>4. ASSUME NEW i \in Chunks, ForStart(i) PROVE ForIInv'
  <2>1. \A j \in Chunks : task'[j] = "done" <=> task[j] = "done"
    BY <1>4 DEF ForStart, ForTypeOK
  <2>2. CallsOfDoneChunks'
    BY <1>1, <1>2, <1>3, <1>4, <2>1 DEF ForStart, CallsOfDoneChunks
  <2>3. ReturnAfterAll'
    BY <1>2, <1>4, <2>1 DEF ForStart, ReturnAfterAll
  <2> QED BY <1>1, <1>2, <1>4, <2>2, <2>3 DEF ForStart, ForTypeOK
<1>5. ASSUME NEW i \in Chunks, ForFinish(i) PROVE ForIInv'
  <2>1. \A j \in Chunks : task'[j] = "done" <=> task[j] = "done" \/ j = i
    BY <1>5 DEF ForFinish, ForTypeOK
  <2>2. ASSUME NEW e \in 0..(forN - 1), e \in ChunkElements(Policy, i)
        PROVE  applied[e] = 0
    <3>1. \A j \in Chunks : e \in ChunkElements(Policy, j) => j = i
      BY <2>2, PolicyChunks DEF ForTypeOK
    <3>2. task[i] # "done"
      BY <1>5 DEF ForFinish
    <3> QED BY <2>2, <3>1, <3>2 DEF CallsOfDoneChunks
  <2>3. ASSUME NEW e \in 0..(forN - 1)
        PROVE  applied'[e] = IF \E j \in Chunks : task'[j] = "done" /\ e \in ChunkElements(Policy, j)
                             THEN 1 ELSE 0
    <3>1. applied'[e] = applied[e] + (IF e \in ChunkElements(Policy, i) THEN 1 ELSE 0)
      BY <1>5 DEF ForFinish
    <3>2. CASE e \in ChunkElements(Policy, i)
      BY <2>1, <2>2, <3>1, <3>2
    <3>3. CASE e \notin ChunkElements(Policy, i)
      <4>1. applied'[e] = applied[e]
        BY <3>1, <3>3 DEF ForTypeOK
      <4> QED BY <2>1, <3>3, <4>1 DEF CallsOfDoneChunks
    <3> QED BY <3>2, <3>3
  <2>4. CallsOfDoneChunks'
    BY <1>1, <1>2, <1>3, <2>3 DEF CallsOfDoneChunks
  <2>5. ReturnAfterAll'
    BY <1>2, <1>5, <2>1 DEF ForFinish, ReturnAfterAll
  <2>6. ForTypeOK'
    BY <1>1, <1>2, <1>5 DEF ForFinish, ForTypeOK
  <2> QED BY <2>4, <2>5, <2>6
<1>6. CASE ForReturn
  BY <1>1, <1>2, <1>3, <1>6 DEF ForReturn, ForTypeOK, CallsOfDoneChunks, ReturnAfterAll
<1>7. CASE UNCHANGED forVars
  BY <1>1, <1>2, <1>3, <1>7 DEF forVars, ForTypeOK, CallsOfDoneChunks, ReturnAfterAll
<1> QED BY <1>4, <1>5, <1>6, <1>7 DEF ForNext

\* The inductive invariant holds in every reachable state.
THEOREM ForInvariance == ForSpec => []ForIInv
<1>1. ForInit => ForIInv
  BY ForInitIInv
<1>2. ForIInv /\ [ForNext]_forVars => ForIInv'
  BY ForNextIInv
<1> QED BY <1>1, <1>2, PTL DEF ForSpec

\* For every length and chunk size the body is applied exactly once to each
\* element before __parallel_for returns.
THEOREM AppliesOnce == ForSpec => []EachElementOnce
<1>1. ForIInv => EachElementOnce
  <2> SUFFICES ASSUME ForIInv, returned PROVE EachElementOnce
    BY DEF EachElementOnce
  <2> USE DEF ForIInv
  <2>1. \A i \in Chunks : task[i] = "done"
    BY DEF ReturnAfterAll
  <2>2. \A e \in 0..(forN - 1) : applied[e] = 1
    BY <2>1, PolicyChunks DEF CallsOfDoneChunks, ForTypeOK
  <2>3. \A i \in Chunks : ChunkElements(Policy, i) \subseteq 0..(forN - 1)
    BY PolicyChunks DEF ForTypeOK
  <2> QED BY <2>2, <2>3 DEF EachElementOnce
<1> QED BY <1>1, ForInvariance, PTL

\* For every length and chunk size no two running tasks touch the same element.
THEOREM TasksShareNothing == ForSpec => []NoSharedElement
<1>1. ForIInv => NoSharedElement
  BY PolicyChunks DEF ForIInv, ForTypeOK, NoSharedElement
<1> QED BY <1>1, ForInvariance, PTL
-------------------------------------------------------------------------------
(* The inductive invariant behind it. Before the loop no chunk has a runner;   *)
(* in it and after it, the accumulator of a thread holds its first element and *)
(* the chunks it has finished.                                                 *)
TeamTypeOK ==
  /\ teamN \in 0..MaxLoop /\ threads \in 1..MaxThreads /\ teamSize \in ChunkSizes
  /\ teamPc \in {"begin", "loop", "done"}
  /\ runner \in [TeamChunks -> Team \cup {Nobody}]
  /\ seen \in [TeamChunks -> [TeamElements -> Int]]
  /\ finished \subseteq {c \in TeamChunks : runner[c] # Nobody}
  /\ result \in [TeamElements -> Int]
OneChunkAtATime ==
  \A c \in TeamChunks, d \in TeamChunks :
    runner[c] # Nobody /\ runner[c] = runner[d] /\ c \notin finished /\ d \notin finished => c = d
NothingRunsYet == teamPc = "begin" => \A c \in TeamChunks : runner[c] = Nobody
Holds(i) == {i} \cup UNION {Taken(c) : c \in {d \in finished : runner[d] = i}}
AccumsHoldTheirShare ==
  teamPc = "loop" \/ (teamPc = "done" /\ ~TooSmall) =>
    /\ ~TooSmall
    /\ accums = [i \in Team |-> Value(Holds(i))]
    /\ \A c \in TeamChunks : runner[c] # Nobody /\ c \notin finished => seen[c] = accums[runner[c]]
TeamIInv ==
  /\ TeamTypeOK /\ NothingRunsYet /\ OneChunkAtATime /\ AccumsHoldTheirShare
  /\ TeamResultIsExact

LEMMA TeamInputs ==
  ASSUME TeamTypeOK
  PROVE  teamN \in Nat /\ threads \in Nat \ {0} /\ Team \subseteq Nat /\ teamSize \in Nat \ {0}
BY ConstantsAssumption, TeamAssumption DEF TeamTypeOK, Team

\* The chunks tile what the first elements leave, by ChunksTileTheRange.
LEMMA TakenTiles ==
  ASSUME TeamTypeOK, ~TooSmall
  PROVE  /\ \A c \in TeamChunks, d \in TeamChunks : c # d => Taken(c) \cap Taken(d) = {}
         /\ \A e \in threads..(teamN - 1) : \E c \in TeamChunks : e \in Taken(c)
         /\ \A c \in TeamChunks : Taken(c) \subseteq threads..(teamN - 1)
<1> DEFINE len == teamN - threads
<1>1. teamN \in Nat /\ threads \in Nat \ {0} /\ teamSize \in Nat \ {0} /\ len \in Nat
  BY TeamInputs DEF TooSmall
<1>2. AreInOneChunk(TeamPolicy, len)
  BY <1>1, ChunksTileTheRange DEF TeamPolicy
<1>3. TeamChunks = 0..(TeamPolicy.n_chunks - 1)
  BY DEF TeamChunks
<1> HIDE DEF len
<1>4. /\ \A i \in TeamChunks, j \in TeamChunks :
           i # j => ChunkElements(TeamPolicy, i) \cap ChunkElements(TeamPolicy, j) = {}
      /\ \A e \in 0..(len - 1) : \E i \in TeamChunks : e \in ChunkElements(TeamPolicy, i)
      /\ \A i \in TeamChunks : ChunkElements(TeamPolicy, i) \subseteq 0..(len - 1)
  BY <1>2, <1>3 DEF AreInOneChunk
<1>5. ASSUME NEW c \in TeamChunks, NEW d \in TeamChunks, c # d
      PROVE  Taken(c) \cap Taken(d) = {}
  BY <1>1, <1>4, <1>5 DEF Taken
<1>6. ASSUME NEW e \in threads..(teamN - 1)
      PROVE  \E c \in TeamChunks : e \in Taken(c)
  <2>1. e - threads \in 0..(len - 1) /\ threads + (e - threads) = e
    BY <1>1 DEF len
  <2>2. PICK c \in TeamChunks : e - threads \in ChunkElements(TeamPolicy, c)
    BY <1>4, <2>1
  <2> QED BY <2>1, <2>2 DEF Taken
<1>7. ASSUME NEW c \in TeamChunks
      PROVE  Taken(c) \subseteq threads..(teamN - 1)
  <2>1. \A e \in 0..(len - 1) : threads + e \in threads..(teamN - 1)
    BY <1>1 DEF len
  <2> QED BY <1>4, <2>1 DEF Taken
<1> QED BY <1>5, <1>6, <1>7

\* What two threads' accumulators are made of has nothing in common.
LEMMA SharesAreDisjoint ==
  ASSUME TeamTypeOK, ~TooSmall
  PROVE  /\ \A i \in Team : Holds(i) \subseteq 0..(teamN - 1)
         /\ \A i \in Team, j \in Team : i # j => Holds(i) \cap Holds(j) = {}
         /\ \A i \in Team, c \in TeamChunks \ finished : Holds(i) \cap Taken(c) = {}
<1>1. teamN \in Nat /\ threads \in Nat \ {0} /\ threads < teamN /\ Team = 0..(threads - 1)
  BY TeamInputs DEF TooSmall, Team
<1>2. finished \subseteq TeamChunks
  BY DEF TeamTypeOK
<1>3. \A c \in TeamChunks : Taken(c) \subseteq threads..(teamN - 1)
  BY TakenTiles
<1>4. \A c \in TeamChunks, d \in TeamChunks : c # d => Taken(c) \cap Taken(d) = {}
  BY TakenTiles
<1>5. \A i \in Team : i \in 0..(teamN - 1) /\ i \notin threads..(teamN - 1)
  BY <1>1
<1>6. threads..(teamN - 1) \subseteq 0..(teamN - 1)
  BY <1>1
<1>7. ASSUME NEW i \in Team PROVE Holds(i) \subseteq 0..(teamN - 1)
  BY <1>2, <1>3, <1>5, <1>6 DEF Holds
<1>8. ASSUME NEW i \in Team, NEW j \in Team, i # j PROVE Holds(i) \cap Holds(j) = {}
  BY <1>2, <1>3, <1>4, <1>5, <1>8 DEF Holds
<1>9. ASSUME NEW i \in Team, NEW c \in TeamChunks \ finished PROVE Holds(i) \cap Taken(c) = {}
  BY <1>2, <1>3, <1>4, <1>5, <1>9 DEF Holds
<1> QED BY <1>7, <1>8, <1>9

LEMMA CombinedValues ==
  ASSUME NEW S, NEW T, S \cap T = {}
  PROVE  /\ Value(S) \in [TeamElements -> Int]
         /\ Added(Value(S), Value(T)) = Value(S \cup T)
BY DEF Value, Added

(* The accumulators, combined one by one with the initial value: the recursive *)
(* function of Combine is the one that has, at i, the shares of the threads    *)
(* before i.                                                                   *)
LEMMA AccumsAddUp ==
  ASSUME TeamTypeOK, ~TooSmall, finished = TeamChunks,
         accums = [i \in Team |-> Value(Holds(i))]
  PROVE  LET sum[i \in 0..threads] == IF i = 0 THEN Value({-1}) ELSE Added(sum[i - 1], accums[i - 1])
         IN  sum[threads] = Value(TeamElements)
<1> DEFINE before(i) == {-1} \cup UNION {Holds(j) : j \in 0..(i - 1)}
           w == [i \in 0..threads |-> Value(before(i))]
           sum[i \in 0..threads] == IF i = 0 THEN Value({-1}) ELSE Added(sum[i - 1], accums[i - 1])
           equation(s) == s = [i \in 0..threads |->
             IF i = 0 THEN Value({-1}) ELSE Added(s[i - 1], accums[i - 1])]
<1>1. teamN \in Nat /\ threads \in Nat \ {0} /\ threads < teamN /\ Team = 0..(threads - 1)
  BY TeamInputs DEF TooSmall, Team
<1>2. ASSUME NEW i \in 1..threads
      PROVE  Added(Value(before(i - 1)), accums[i - 1]) = Value(before(i))
  <2>1. i - 1 \in Team /\ 0..(i - 2) \subseteq Team /\ i - 1 \notin 0..(i - 2)
        /\ 0..(i - 1) = 0..(i - 2) \cup {i - 1}
    BY <1>1
  <2>2. accums[i - 1] = Value(Holds(i - 1))
    BY <2>1
  <2>3. -1 \notin Holds(i - 1)
    BY <1>1, <2>1, SharesAreDisjoint
  <2>4. \A j \in 0..(i - 2) : Holds(j) \cap Holds(i - 1) = {}
    BY <2>1, SharesAreDisjoint
  <2>5. before(i - 1) = {-1} \cup UNION {Holds(j) : j \in 0..(i - 2)}
    BY <1>1
  <2>6. before(i - 1) \cap Holds(i - 1) = {}
    BY <2>3, <2>4, <2>5
  <2>7. before(i) = before(i - 1) \cup Holds(i - 1)
    BY <2>1, <2>5
  <2> QED BY <2>2, <2>6, <2>7, CombinedValues
<1>3. equation(w)
  <2>1. before(0) = {-1}
    BY <1>1
  <2>2. \A i \in 0..threads : i # 0 => i \in 1..threads /\ i - 1 \in 0..threads
    BY <1>1
  <2> HIDE DEF before
  <2> QED BY <1>2, <2>1, <2>2
<1>4. equation(sum)
  BY <1>3
<1>5. Nat \subseteq {i \in Nat : i <= threads => sum[i] = w[i]}
  <2> DEFINE good == {i \in Nat : i <= threads => sum[i] = w[i]}
  <2> HIDE DEF sum, w
  <2>1. sum[0] = Value({-1}) /\ w[0] = Value({-1})
    BY <1>1, <1>3, <1>4
  <2>2. ASSUME NEW i \in Nat, i \in good, i + 1 <= threads
        PROVE  sum[i + 1] = w[i + 1]
    <3>1. sum[i] = w[i] /\ i + 1 \in 0..threads /\ i + 1 # 0 /\ (i + 1) - 1 = i
      BY <1>1, <2>2
    <3>2. sum[i + 1] = Added(sum[i], accums[i]) /\ w[i + 1] = Added(w[i], accums[i])
      BY <1>3, <1>4, <3>1
    <3> QED BY <3>1, <3>2
  <2>3. 0 \in good /\ \A i \in Nat : i \in good => i + 1 \in good
    BY <2>1, <2>2
  <2> HIDE DEF good
  <2> QED BY <2>3, Induction DEF good
<1>6. sum[threads] = Value(before(threads))
  <2>1. w[threads] = Value(before(threads))
    BY <1>1
  <2>2. sum[threads] = w[threads]
    <3> HIDE DEF sum, w
    <3> QED BY <1>1, <1>5
  <2> QED BY <2>1, <2>2
<1>7. before(threads) = TeamElements
  <2>1. \A i \in Team : Holds(i) \subseteq 0..(teamN - 1)
    BY SharesAreDisjoint
  <2>2. ASSUME NEW e \in 0..(teamN - 1) PROVE \E i \in Team : e \in Holds(i)
    <3>1. CASE e < threads
      BY <1>1, <3>1 DEF Holds
    <3>2. CASE e >= threads
      <4>1. PICK c \in TeamChunks : e \in Taken(c)
        BY <1>1, <3>2, TakenTiles
      <4>2. runner[c] \in Team
        BY <4>1 DEF TeamTypeOK
      <4> QED BY <4>1, <4>2 DEF Holds
    <3> QED BY <1>1, <3>1, <3>2
  <2>3. TeamElements = {-1} \cup 0..(teamN - 1)
    BY <1>1 DEF TeamElements
  <2> HIDE DEF Holds, Team
  <2> QED BY <1>1, <2>1, <2>2, <2>3
<1> QED BY <1>6, <1>7

LEMMA TeamInitIInv == TeamInit => TeamIInv
<1> SUFFICES ASSUME TeamInit PROVE TeamIInv
  OBVIOUS
<1> USE DEF TeamInit
<1>1. Value({}) \in [TeamElements -> Int]
  BY DEF Value
<1>2. TeamTypeOK
  BY <1>1 DEF TeamTypeOK
<1> QED BY <1>2 DEF TeamIInv, NothingRunsYet, OneChunkAtATime, AccumsHoldTheirShare, TeamResultIsExact

LEMMA TeamNextIInv == TeamIInv /\ [TeamNext]_teamVars => TeamIInv'
<1> SUFFICES ASSUME TeamIInv, [TeamNext]_teamVars PROVE TeamIInv'
  OBVIOUS
<1> USE DEF TeamIInv
<1>1. teamN' = teamN /\ threads' = threads /\ teamSize' = teamSize
  BY DEF TeamNext, Serial, Accumulators, CombineTeam, Start, Finish, teamInput, teamVars
<1>2. /\ TeamPolicy' = TeamPolicy /\ TooSmall' = TooSmall /\ TeamChunks' = TeamChunks
      /\ Team' = Team /\ TeamElements' = TeamElements
  BY <1>1 DEF TeamPolicy, TooSmall, TeamChunks, Team, TeamElements
<1>3. \A c : Taken(c)' = Taken(c)
  BY <1>1, <1>2 DEF Taken, ChunkElements
<1>4. \A S : Value(S)' = Value(S)
  BY <1>2 DEF Value
<1>5. TooSmall => TeamChunks = {}
  BY DEF TeamChunks
<1>6. teamN \in Nat /\ threads \in Nat \ {0} /\ Nobody \notin Team
  BY TeamInputs DEF Nobody, Team
<1> USE <1>1, <1>2
<1>7. CASE Serial
  <2>1. TeamTypeOK'
    BY <1>7 DEF Serial, TeamTypeOK, teamInput, Value
  <2>2. TeamResultIsExact'
    BY <1>7 DEF Serial, TeamResultIsExact, Value
  <2> QED BY <1>5, <1>7, <2>1, <2>2
       DEF Serial, NothingRunsYet, OneChunkAtATime, AccumsHoldTheirShare, TeamTypeOK
<1>8. CASE Accumulators
  <2>1. TeamTypeOK'
    BY <1>8 DEF Accumulators, TeamTypeOK
  <2>2. finished = {} /\ \A c \in TeamChunks : runner[c] = Nobody
    BY <1>8 DEF Accumulators, NothingRunsYet, TeamTypeOK
  <2>3. \A i \in Team : Holds(i)' = {i}
    BY <1>8, <2>2 DEF Accumulators, Holds
  <2>4. AccumsHoldTheirShare'
    BY <1>4, <1>8, <2>2, <2>3 DEF Accumulators, AccumsHoldTheirShare
  <2> QED BY <1>8, <2>1, <2>2, <2>4
       DEF Accumulators, NothingRunsYet, OneChunkAtATime, TeamResultIsExact
<1>9. ASSUME NEW c \in TeamChunks, NEW i \in Team, Start(c, i)
      PROVE  TeamIInv'
  <2> USE <1>9 DEF Start
  <2>1. ~TooSmall /\ teamPc = "loop" /\ teamPc' = "loop" /\ finished' = finished /\ accums' = accums
    BY <1>5
  <2>2. accums[i] = Value(Holds(i)) /\ accums[i] \in [TeamElements -> Int]
    BY <2>1 DEF AccumsHoldTheirShare, Value
  <2>3. runner'[c] = i /\ \A d \in TeamChunks : d # c => runner'[d] = runner[d]
    BY DEF TeamTypeOK
  <2>4. c \notin finished
    BY DEF TeamTypeOK
  <2>5. TeamTypeOK'
    BY <2>1, <2>2, <2>3 DEF TeamTypeOK
  <2>6. OneChunkAtATime'
    BY <2>1, <2>3 DEF OneChunkAtATime
  <2>7. \A j : Holds(j)' = Holds(j)
    <3>1. \A d \in finished : runner'[d] = runner[d]
      BY <2>3, <2>4 DEF TeamTypeOK
    <3>2. \A j : {d \in finished : runner'[d] = j} = {d \in finished : runner[d] = j}
      BY <3>1
    <3> QED BY <1>3, <2>1, <3>2 DEF Holds
  <2>8. AccumsHoldTheirShare'
    <3>1. accums' = [j \in Team |-> Value(Holds(j))']
      BY <1>4, <2>1, <2>7 DEF AccumsHoldTheirShare
    <3>2. \A d \in TeamChunks : runner'[d] # Nobody /\ d \notin finished => seen'[d] = accums[runner'[d]]
      BY <2>1, <2>3 DEF AccumsHoldTheirShare, TeamTypeOK
    <3> QED BY <1>4, <2>1, <3>1, <3>2 DEF AccumsHoldTheirShare
  <2> QED BY <2>1, <2>5, <2>6, <2>8 DEF NothingRunsYet, TeamResultIsExact
<1>10. ASSUME NEW c \in TeamChunks, Finish(c)
       PROVE  TeamIInv'
  <2> USE <1>10 DEF Finish
  <2> DEFINE i == runner[c]
  <2>1. ~TooSmall /\ teamPc \in {"loop", "done"} /\ teamPc' = teamPc /\ runner' = runner /\ seen' = seen
    BY <1>5 DEF NothingRunsYet, TeamTypeOK
  <2>2. i \in Team /\ seen[c] = accums[i] /\ accums[i] = Value(Holds(i))
    BY <2>1 DEF AccumsHoldTheirShare, TeamTypeOK
  <2>3. TeamTypeOK'
    BY <2>1 DEF TeamTypeOK
  <2>4. OneChunkAtATime'
    BY <2>1 DEF OneChunkAtATime
  <2>5. Holds(i)' = Holds(i) \cup Taken(c)
    BY <1>3, <2>1 DEF Holds
  <2>6. \A j \in Team : j # i => Holds(j)' = Holds(j)
    <3>1. \A j \in Team : j # i => {d \in finished' : runner[d] = j} = {d \in finished : runner[d] = j}
      OBVIOUS
    <3> QED BY <1>3, <2>1, <3>1 DEF Holds
  <2>7. Added(seen[c], Value(Taken(c))) = Value(Holds(i) \cup Taken(c))
    BY <2>1, <2>2, SharesAreDisjoint, CombinedValues
  <2>8. accums' = [j \in Team |-> Value(Holds(j))']
    BY <1>4, <2>1, <2>2, <2>5, <2>6, <2>7 DEF AccumsHoldTheirShare
  <2>9. \A d \in TeamChunks : runner[d] # Nobody /\ d \notin finished' => seen[d] = accums'[runner[d]]
    <3> SUFFICES ASSUME NEW d \in TeamChunks, runner[d] # Nobody, d \notin finished'
                 PROVE  seen[d] = accums'[runner[d]]
      OBVIOUS
    <3>1. runner[d] # i
      BY DEF OneChunkAtATime
    <3>2. runner[d] \in Team /\ seen[d] = accums[runner[d]]
      BY <2>1 DEF AccumsHoldTheirShare, TeamTypeOK
    <3> QED BY <2>1, <3>1, <3>2 DEF AccumsHoldTheirShare
  <2>10. AccumsHoldTheirShare'
    BY <1>4, <2>1, <2>8, <2>9 DEF AccumsHoldTheirShare
  <2> QED BY <2>1, <2>3, <2>4, <2>10 DEF NothingRunsYet, TeamResultIsExact
<1>11. CASE CombineTeam
  <2> DEFINE sum[i \in 0..threads] ==
               IF i = 0 THEN Value({-1}) ELSE Added(sum[i - 1], accums[i - 1])
  <2>1. /\ teamPc = "loop" /\ teamPc' = "done" /\ finished = TeamChunks
        /\ accums' = accums /\ runner' = runner /\ seen' = seen /\ finished' = finished
    BY <1>11 DEF CombineTeam, teamInput
  <2>2. result' = sum[threads]
    BY <1>11 DEF CombineTeam
  <2> HIDE DEF sum
  <2>3. ~TooSmall /\ accums = [i \in Team |-> Value(Holds(i))]
    BY <2>1 DEF AccumsHoldTheirShare
  <2>4. sum[threads] = Value(TeamElements)
    BY <2>1, <2>3, AccumsAddUp DEF sum
  <2>5. result' \in [TeamElements -> Int] /\ TeamResultIsExact'
    BY <2>2, <2>4 DEF TeamResultIsExact, Value
  <2>6. TeamTypeOK'
    BY <2>1, <2>5 DEF TeamTypeOK
  <2>7. \A i : Holds(i)' = Holds(i)
    BY <1>3, <2>1 DEF Holds
  <2>8. [i \in Team |-> Value(Holds(i))]' = [i \in Team |-> Value(Holds(i))]
    BY <1>4, <2>7
  <2>9. AccumsHoldTheirShare'
    BY <2>1, <2>3, <2>8 DEF AccumsHoldTheirShare
  <2> QED BY <2>1, <2>5, <2>6, <2>9 DEF NothingRunsYet, OneChunkAtATime
<1>12. CASE UNCHANGED teamVars
  BY <1>3, <1>4, <1>12 DEF teamVars, TeamTypeOK, NothingRunsYet, OneChunkAtATime, AccumsHoldTheirShare,
     TeamResultIsExact, Holds
<1> QED BY <1>7, <1>8, <1>9, <1>10, <1>11, <1>12 DEF TeamNext

\* For every length, chunk size and team the OpenMP transform reduce counts the initial
\* value and each element exactly once, whichever threads run its chunks.
THEOREM TeamReducesEachOnce == TeamSpec => []TeamResultIsExact
<1>1. TeamInit => TeamIInv
  BY TeamInitIInv
<1>2. TeamIInv /\ [TeamNext]_teamVars => TeamIInv'
  BY TeamNextIInv
<1>3. TeamIInv => TeamResultIsExact
  BY DEF TeamIInv
<1> QED BY <1>1, <1>2, <1>3, PTL DEF TeamSpec

-------------------------------------------------------------------------------
(* What a body holds when it has done [lo, hi).                                *)
Part(lo, hi) == IF lo = 0 THEN Terms(-1, hi)
                          ELSE IF lo = hi THEN NoSum ELSE Terms(lo, hi)

PiecesInv ==
  /\ pieces \subseteq {p \in (0..sumN) \X (0..sumN) : p[1] <= p[2]}
  /\ TwoElementsLeft

BodiesInv ==
  /\ \A b \in bodies : /\ b = Reduce!Body(b.lo, b.hi, b.val)
                       /\ b.lo \in 0..sumN /\ b.hi \in b.lo..sumN
                       /\ b.val = Part(b.lo, b.hi)
  /\ \A b \in bodies, c \in bodies : b.lo = c.lo => b = c

(* The pieces and the parts of the bodies cover the range.                     *)
Covered(k) == \/ \E p \in pieces : p[1] <= k /\ k < p[2]
              \/ \E b \in bodies : b.lo <= k /\ k < b.hi

PhaseInv ==
  /\ sumPc \in {"begin", "reduce", "done"}
  /\ sumPc = "begin" => pieces = {} /\ bodies = {}
  /\ sumPc # "begin" => \A k \in 0..(sumN - 1) : Covered(k)
  /\ ResultIsExact

ParametersInv == sumN \in 0..MaxSum /\ given = sumN /\ x = given

IInv == ParametersInv /\ PiecesInv /\ BodiesInv /\ PhaseInv

-------------------------------------------------------------------------------
(* Terms(i, j) is the sequence of the numbers from i up to, not including, j.  *)
LEMMA TermsProperties ==
  ASSUME NEW i \in Int, NEW j \in Int, i <= j
  PROVE  /\ Terms(i, j) \in Seq(Int)
         /\ Len(Terms(i, j)) = j - i
         /\ \A m \in 1..(j - i) : Terms(i, j)[m] = i + m - 1
  BY DEF Terms

(* Terms of neighbouring ranges make the terms of both.                        *)
LEMMA TermsJoin ==
  ASSUME NEW i \in Int, NEW j \in Int, NEW k \in Int, i <= j, j <= k
  PROVE  Terms(i, j) \o Terms(j, k) = Terms(i, k)
<1> DEFINE s == Terms(i, j)
           t == Terms(j, k)
           u == Terms(i, k)
<1>1. s \in Seq(Int) /\ Len(s) = j - i /\ \A m \in 1..(j - i) : s[m] = i + m - 1
  BY TermsProperties
<1>2. t \in Seq(Int) /\ Len(t) = k - j /\ \A m \in 1..(k - j) : t[m] = j + m - 1
  BY TermsProperties
<1>3. i <= k
  OBVIOUS
<1>4. u \in Seq(Int) /\ Len(u) = k - i /\ \A m \in 1..(k - i) : u[m] = i + m - 1
  BY <1>3, TermsProperties
<1> HIDE DEF s, t, u
<1>5. /\ s \o t \in Seq(Int)
      /\ Len(s \o t) = Len(s) + Len(t)
      /\ \A m \in 1..(Len(s) + Len(t)) :
           (s \o t)[m] = IF m <= Len(s) THEN s[m] ELSE t[m - Len(s)]
  BY <1>1, <1>2, ConcatProperties
<1>6. ASSUME NEW m \in 1..Len(s \o t)  PROVE (s \o t)[m] = u[m]
  <2>1. m \in 1..(k - i) /\ u[m] = i + m - 1
    BY <1>1, <1>2, <1>4, <1>5
  <2>2. CASE m <= j - i
    BY <1>1, <1>2, <1>5, <2>1, <2>2
  <2>3. CASE m > j - i
    <3>1. m - (j - i) \in 1..(k - j)
      BY <2>1, <2>3
    <3>2. t[m - (j - i)] = j + (m - (j - i)) - 1
      BY <1>2, <3>1
    <3> QED BY <1>1, <1>2, <1>5, <2>1, <2>3, <3>2
  <2> QED BY <2>1, <2>2, <2>3
<1>7. Len(s \o t) = Len(u)
  BY <1>1, <1>2, <1>4, <1>5
<1> DEFINE v == s \o t
<1>8. v \in Seq(Int) /\ Len(v) = Len(u) /\ \A m \in 1..Len(v) : v[m] = u[m]
  BY <1>5, <1>6, <1>7
<1> HIDE DEF v
<1>9. v = u
  BY <1>4, <1>8, SeqEqual
<1> QED BY <1>9 DEF s, t, u, v

(* Two neighbouring parts, of which the right one is not the first body's.     *)
LEMMA PartJoin ==
  ASSUME NEW i \in Nat, NEW j \in Nat, NEW k \in Nat, i <= j, j < k, j # 0, i = 0 \/ i < j
  PROVE  Part(i, j) \o Part(j, k) = Part(i, k)
<1>1. Part(j, k) = Terms(j, k)
  BY DEF Part
<1>2. CASE i = 0
  <2>1. -1 \in Int /\ j \in Int /\ k \in Int /\ -1 <= j /\ j <= k
    OBVIOUS
  <2>2. Terms(-1, j) \o Terms(j, k) = Terms(-1, k)
    BY ONLY <2>1, TermsJoin
  <2> QED BY <1>1, <1>2, <2>2 DEF Part
<1>3. CASE i # 0
  <2>1. i \in Int /\ j \in Int /\ k \in Int /\ j <= k
    OBVIOUS
  <2>2. Terms(i, j) \o Terms(j, k) = Terms(i, k)
    BY ONLY <2>1, i <= j, TermsJoin
  <2>3. Part(i, j) = Terms(i, j) /\ Part(i, k) = Terms(i, k)
    BY <1>3 DEF Part
  <2> QED BY <1>1, <2>2, <2>3
<1> QED BY <1>2, <1>3

(* What a call of a body on the piece that follows its part leaves.            *)
LEMMA BodyCallExtends ==
  ASSUME NEW r, NEW lo \in Nat, NEW i \in Nat, NEW j \in Nat, lo <= i, i <= j,
         lo # 0 => j - i >= 2,
         NEW e \in BodyCall(r, i, j, Part(lo, i))
  PROVE  e[1] = r /\ e[2] = Part(lo, j)
<1>1. CASE lo # 0 /\ lo = i
  <2>1. e = <<r, (Terms(i, i + 1) \o Terms(i + 1, i + 2)) \o Terms(i + 2, j)>>
    BY <1>1 DEF BodyCall, Part, NoSum
  <2>2. Terms(i, i + 1) \o Terms(i + 1, i + 2) = Terms(i, i + 2)
    <3>1. /\ i \in Int /\ i + 1 \in Int /\ i + 2 \in Int
          /\ i <= i + 1 /\ i + 1 <= i + 2
      OBVIOUS
    <3> QED BY ONLY <3>1, TermsJoin
  <2>3. Terms(i, i + 2) \o Terms(i + 2, j) = Terms(i, j)
    <3>1. /\ i \in Int /\ i + 2 \in Int /\ j \in Int
          /\ i <= i + 2 /\ i + 2 <= j
      BY <1>1
    <3> QED BY ONLY <3>1, TermsJoin
  <2>4. e = <<r, Terms(lo, j)>>
    BY <1>1, <2>1, <2>2, <2>3
  <2>5. Part(lo, j) = Terms(lo, j)
    BY <1>1 DEF Part
  <2> QED BY <2>4, <2>5
<1>2. CASE lo = 0
  <2>1. Len(Terms(-1, i)) = i + 1
    BY DEF Terms
  <2>2. Terms(-1, i) # NoSum
    BY <2>1 DEF NoSum
  <2>3. e = <<r, Terms(-1, i) \o Terms(i, j)>>
    BY <1>2, <2>2 DEF BodyCall, Part
  <2>4. Terms(-1, i) \o Terms(i, j) = Terms(-1, j)
    <3>1. -1 \in Int /\ i \in Int /\ j \in Int /\ -1 <= i /\ i <= j
      OBVIOUS
    <3> QED BY ONLY <3>1, TermsJoin
  <2> QED BY <1>2, <2>3, <2>4 DEF Part
<1>3. CASE lo # 0 /\ lo < i
  <2>1. Len(Terms(lo, i)) = i - lo
    BY DEF Terms
  <2>2. Terms(lo, i) # NoSum
    BY <1>3, <2>1 DEF NoSum
  <2>3. e = <<r, Terms(lo, i) \o Terms(i, j)>>
    BY <1>3, <2>2 DEF BodyCall, Part
  <2>4. lo \in Int /\ i \in Int /\ j \in Int
    OBVIOUS
  <2>5. Terms(lo, i) \o Terms(i, j) = Terms(lo, j)
    BY ONLY <2>4, lo <= i, i <= j, TermsJoin
  <2> QED BY <1>3, <2>3, <2>5 DEF Part
<1> QED BY <1>1, <1>2, <1>3

-------------------------------------------------------------------------------
LEMMA ReduceInitIInv == Reduce!Init => IInv
<1> SUFFICES ASSUME Reduce!Init PROVE IInv
  OBVIOUS
<1>1. ParametersInv
  BY DEF Reduce!Init, ParametersInv, Places
<1>2. PiecesInv
  BY DEF Reduce!Init, PiecesInv, TwoElementsLeft
<1>3. BodiesInv
  BY DEF Reduce!Init, BodiesInv
<1>4. PhaseInv
  BY DEF Reduce!Init, PhaseInv, ResultIsExact
<1> QED BY <1>1, <1>2, <1>3, <1>4 DEF IInv

LEMMA BeginIInv == IInv /\ Reduce!Begin => IInv'
<1> SUFFICES ASSUME IInv, Reduce!Begin PROVE IInv'
  OBVIOUS
<1>1. /\ sumN \in Nat /\ sumN' = sumN /\ given' = given /\ x' = x /\ answer' = answer
      /\ sumPc' = "reduce"
      /\ bodies' = {Reduce!Body(0, 0, Terms(-1, 0))}
      /\ pieces' = {<<0, sumN>>} \/ (sumN = 0 /\ pieces' = {})
  BY SizesAssumption DEF IInv, ParametersInv, Reduce!Begin, Reduce!args, Initial
<1>2. ParametersInv'
  BY <1>1 DEF IInv, ParametersInv
<1>3. PiecesInv'
  BY <1>1 DEF PiecesInv, TwoElementsLeft
<1>4. BodiesInv'
  <2> DEFINE first == Reduce!Body(0, 0, Terms(-1, 0))
  <2>1. /\ first.lo = 0 /\ first.hi = 0 /\ first.val = Part(0, 0)
        /\ first = Reduce!Body(first.lo, first.hi, first.val)
    BY DEF Reduce!Body, Part
  <2> HIDE DEF first
  <2>2. \A b \in bodies' : b = first
    BY <1>1 DEF first
  <2> QED BY <1>1, <2>1, <2>2 DEF BodiesInv
<1>5. PhaseInv'
  <2>1. \A k \in 0..(sumN - 1) : <<0, sumN>> \in pieces' /\ 0 <= k /\ k < sumN
    BY <1>1
  <2>2. \A k \in 0..(sumN' - 1) : Covered(k)'
    BY <1>1, <2>1 DEF Covered
  <2> QED BY <1>1, <2>2 DEF PhaseInv, ResultIsExact
<1> QED BY <1>2, <1>3, <1>4, <1>5 DEF IInv

LEMMA HalveIInv == IInv /\ (\E p \in pieces : Reduce!Halve(p)) => IInv'
<1> SUFFICES ASSUME IInv, NEW p \in pieces, Reduce!Halve(p) PROVE IInv'
  OBVIOUS
<1> DEFINE mid == p[1] + (p[2] - p[1]) \div 2
<1>1. /\ p = <<p[1], p[2]>> /\ p[1] \in 0..sumN /\ p[2] \in 0..sumN /\ sumN \in Nat
      /\ p[2] - p[1] >= 4
  BY SizesAssumption DEF IInv, PiecesInv, ParametersInv, Reduce!Halve
<1>2. mid \in 0..sumN /\ mid - p[1] >= 2 /\ p[2] - mid >= 2
  BY <1>1
<1>3. /\ sumN' = sumN /\ given' = given /\ x' = x /\ answer' = answer
      /\ sumPc' = sumPc /\ bodies' = bodies
      /\ pieces' = (pieces \ {p}) \cup {<<p[1], mid>>, <<mid, p[2]>>}
  BY DEF Reduce!Halve, Reduce!args
<1> HIDE DEF mid
<1>4. ParametersInv'
  BY <1>3 DEF IInv, ParametersInv
<1>5. PiecesInv'
  BY <1>1, <1>2, <1>3 DEF IInv, PiecesInv, TwoElementsLeft
<1>6. BodiesInv'
  BY <1>3 DEF IInv, BodiesInv
<1>7. PhaseInv'
  <2>1. sumPc # "begin"
    BY DEF IInv, PhaseInv
  <2>2. ASSUME NEW k \in 0..(sumN - 1)  PROVE Covered(k)'
    <3>1. CASE \E b \in bodies : b.lo <= k /\ k < b.hi
      BY <1>3, <3>1 DEF Covered
    <3>2. CASE p[1] <= k /\ k < p[2]
      <4>1. \/ p[1] <= k /\ k < mid
            \/ mid <= k /\ k < p[2]
        BY <1>1, <1>2, <3>2
      <4>2. <<p[1], mid>> \in pieces' /\ <<mid, p[2]>> \in pieces'
        BY <1>3
      <4> QED BY <4>1, <4>2 DEF Covered
    <3>3. CASE \E q \in pieces \ {p} : q[1] <= k /\ k < q[2]
      BY <1>3, <3>3 DEF Covered
    <3> QED BY <2>1, <3>1, <3>2, <3>3 DEF IInv, PhaseInv, Covered
  <2> QED BY <1>3, <2>1, <2>2 DEF IInv, PhaseInv, ResultIsExact
<1> QED BY <1>4, <1>5, <1>6, <1>7 DEF IInv

LEMMA NewBodyIInv == IInv /\ (\E p \in pieces : Reduce!NewBody(p)) => IInv'
<1> SUFFICES ASSUME IInv, NEW p \in pieces, Reduce!NewBody(p) PROVE IInv'
  OBVIOUS
<1> DEFINE new == Reduce!Body(p[1], p[1], NoSum)
<1>1. /\ sumN' = sumN /\ given' = given /\ x' = x /\ answer' = answer
      /\ sumPc' = sumPc /\ pieces' = pieces
      /\ bodies' = bodies \cup {new}
      /\ p[1] # 0 /\ \A b \in bodies : b.lo # p[1]
  BY DEF Reduce!NewBody, Reduce!args, NoValueYet
<1>2. new.lo = p[1] /\ new.hi = p[1] /\ new.val = Part(p[1], p[1])
  BY <1>1 DEF Reduce!Body, Part
<1>3. p[1] \in 0..sumN /\ sumN \in Nat
  BY SizesAssumption DEF IInv, PiecesInv, ParametersInv
<1>4. ParametersInv' /\ PiecesInv'
  BY <1>1 DEF IInv, ParametersInv, PiecesInv, TwoElementsLeft
<1>5. BodiesInv'
  <2>1. new = Reduce!Body(new.lo, new.hi, new.val)
    BY DEF Reduce!Body
  <2> HIDE DEF new
  <2>2. \A b \in bodies' : /\ b = Reduce!Body(b.lo, b.hi, b.val)
                           /\ b.lo \in 0..sumN' /\ b.hi \in b.lo..sumN'
                           /\ b.val = Part(b.lo, b.hi)
    BY <1>1, <1>2, <1>3, <2>1 DEF IInv, BodiesInv
  <2>3. \A b \in bodies', c \in bodies' : b.lo = c.lo => b = c
    BY <1>1, <1>2 DEF IInv, BodiesInv
  <2> QED BY <2>2, <2>3 DEF BodiesInv
<1>6. PhaseInv'
  BY <1>1 DEF IInv, PhaseInv, Covered, ResultIsExact
<1> QED BY <1>4, <1>5, <1>6 DEF IInv

LEMMA ProcessIInv == IInv /\ (\E p \in pieces, b \in bodies : Reduce!Process(b, p)) => IInv'
<1> SUFFICES ASSUME IInv, NEW p \in pieces, NEW b \in bodies, Reduce!Process(b, p) PROVE IInv'
  OBVIOUS
<1>1. PICK r \in BodyCall(x, p[1], p[2], b.val) :
        /\ x' = r[1]
        /\ bodies' = (bodies \ {b}) \cup {Reduce!Body(b.lo, p[2], r[2])}
  BY DEF Reduce!Process
<1>2. /\ sumN' = sumN /\ given' = given /\ answer' = answer /\ sumPc' = sumPc
      /\ pieces' = pieces \ {p}
      /\ b.hi = p[1]
  BY DEF Reduce!Process, Reduce!args
<1>3. /\ sumN \in Nat /\ b.lo \in 0..sumN /\ b.hi \in b.lo..sumN /\ b.val = Part(b.lo, b.hi)
      /\ p[1] \in 0..sumN /\ p[2] \in 0..sumN /\ p[1] <= p[2]
      /\ p[1] # 0 => p[2] - p[1] >= 2
  BY SizesAssumption DEF IInv, ParametersInv, PiecesInv, BodiesInv, TwoElementsLeft
<1>4. r[1] = x /\ r[2] = Part(b.lo, p[2])
  <2>1. /\ b.lo \in Nat /\ p[1] \in Nat /\ p[2] \in Nat /\ b.lo <= p[1] /\ p[1] <= p[2]
        /\ b.lo # 0 => p[2] - p[1] >= 2
        /\ r \in BodyCall(x, p[1], p[2], Part(b.lo, p[1]))
    BY <1>1, <1>2, <1>3
  <2> QED BY <2>1, BodyCallExtends
<1> DEFINE made == Reduce!Body(b.lo, p[2], r[2])
<1>5. made.lo = b.lo /\ made.hi = p[2] /\ made.val = r[2] /\ made = Reduce!Body(made.lo, made.hi, made.val)
  BY DEF Reduce!Body
<1>6. bodies' = (bodies \ {b}) \cup {made}
  BY <1>1
<1> HIDE DEF made
<1>7. ParametersInv' /\ PiecesInv'
  BY <1>1, <1>2, <1>4 DEF IInv, ParametersInv, PiecesInv, TwoElementsLeft
<1>8. BodiesInv'
  <2>1. \A c \in bodies' : /\ c = Reduce!Body(c.lo, c.hi, c.val)
                           /\ c.lo \in 0..sumN' /\ c.hi \in c.lo..sumN'
                           /\ c.val = Part(c.lo, c.hi)
    BY <1>2, <1>3, <1>4, <1>5, <1>6 DEF IInv, BodiesInv
  <2>2. \A c \in bodies', d \in bodies' : c.lo = d.lo => c = d
    BY <1>5, <1>6 DEF IInv, BodiesInv
  <2> QED BY <2>1, <2>2 DEF BodiesInv
<1>9. PhaseInv'
  <2>1. sumPc # "begin"
    BY DEF IInv, PhaseInv
  <2>2. ASSUME NEW k \in 0..(sumN - 1)  PROVE Covered(k)'
    <3>1. CASE (b.lo <= k /\ k < b.hi) \/ (p[1] <= k /\ k < p[2])
      <4>1. made \in bodies' /\ made.lo <= k /\ k < made.hi
        BY <1>2, <1>3, <1>5, <1>6, <3>1
      <4> QED BY <4>1 DEF Covered
    <3>2. CASE \E q \in pieces \ {p} : q[1] <= k /\ k < q[2]
      BY <1>2, <3>2 DEF Covered
    <3>3. CASE \E c \in bodies \ {b} : c.lo <= k /\ k < c.hi
      BY <1>6, <3>3 DEF Covered
    <3> QED BY <2>1, <3>1, <3>2, <3>3 DEF IInv, PhaseInv, Covered
  <2> QED BY <1>2, <2>1, <2>2 DEF IInv, PhaseInv, ResultIsExact
<1> QED BY <1>7, <1>8, <1>9 DEF IInv

LEMMA JoinIInv == IInv /\ (\E b \in bodies, c \in bodies : Reduce!Join(b, c)) => IInv'
<1> SUFFICES ASSUME IInv, NEW b \in bodies, NEW c \in bodies, Reduce!Join(b, c) PROVE IInv'
  OBVIOUS
<1>1. /\ sumN' = sumN /\ given' = given /\ x' = x /\ answer' = answer /\ sumPc' = sumPc
      /\ pieces' = pieces
      /\ b.hi = c.lo /\ c.lo < c.hi
      /\ bodies' = (bodies \ {b, c}) \cup {Reduce!Body(b.lo, c.hi, b.val \o c.val)}
  <2>1. PICK r \in Combined(x, b.val, c.val) :
          /\ x' = r[1]
          /\ bodies' = (bodies \ {b, c}) \cup {Reduce!Body(b.lo, c.hi, r[2])}
    BY DEF Reduce!Join
  <2> DEFINE sum == b.val \o c.val
  <2>2. r = <<x, sum>>
    BY Zenon DEF Combined
  <2> HIDE DEF sum
  <2>3. r[1] = x /\ r[2] = sum
    BY <2>2
  <2> QED BY <2>1, <2>3 DEF Reduce!Join, Reduce!args, sum
<1>2. /\ sumN \in Nat /\ b.lo \in 0..sumN /\ b.hi \in b.lo..sumN /\ b.val = Part(b.lo, b.hi)
      /\ c.lo \in 0..sumN /\ c.hi \in c.lo..sumN /\ c.val = Part(c.lo, c.hi)
      /\ b.lo = c.lo => b = c
  BY SizesAssumption DEF IInv, ParametersInv, BodiesInv
<1>3. b.val \o c.val = Part(b.lo, c.hi)
  <2>1. b.lo < b.hi
    BY <1>1, <1>2
  <2>2. /\ b.lo \in Nat /\ b.hi \in Nat /\ c.hi \in Nat
        /\ b.lo <= b.hi /\ b.hi < c.hi /\ b.hi # 0
    BY <1>1, <1>2, <2>1
  <2>3. Part(b.lo, b.hi) \o Part(b.hi, c.hi) = Part(b.lo, c.hi)
    BY ONLY <2>1, <2>2, PartJoin
  <2> QED BY <1>1, <1>2, <2>3
<1> DEFINE made == Reduce!Body(b.lo, c.hi, b.val \o c.val)
<1>4. /\ made.lo = b.lo /\ made.hi = c.hi /\ made.val = b.val \o c.val
      /\ made = Reduce!Body(made.lo, made.hi, made.val)
  BY DEF Reduce!Body
<1>5. bodies' = (bodies \ {b, c}) \cup {made}
  BY <1>1
<1> HIDE DEF made
<1>6. ParametersInv' /\ PiecesInv'
  BY <1>1 DEF IInv, ParametersInv, PiecesInv, TwoElementsLeft
<1>7. BodiesInv'
  <2>1. \A d \in bodies' : /\ d = Reduce!Body(d.lo, d.hi, d.val)
                           /\ d.lo \in 0..sumN' /\ d.hi \in d.lo..sumN'
                           /\ d.val = Part(d.lo, d.hi)
    BY <1>1, <1>2, <1>3, <1>4, <1>5 DEF IInv, BodiesInv
  <2>2. \A d \in bodies', e \in bodies' : d.lo = e.lo => d = e
    BY <1>4, <1>5 DEF IInv, BodiesInv
  <2> QED BY <2>1, <2>2 DEF BodiesInv
<1>8. PhaseInv'
  <2>1. sumPc # "begin"
    BY DEF IInv, PhaseInv
  <2>2. ASSUME NEW k \in 0..(sumN - 1)  PROVE Covered(k)'
    <3>1. CASE (b.lo <= k /\ k < b.hi) \/ (c.lo <= k /\ k < c.hi)
      <4>1. made \in bodies' /\ made.lo <= k /\ k < made.hi
        BY <1>1, <1>2, <1>4, <1>5, <3>1
      <4> QED BY <4>1 DEF Covered
    <3>2. CASE \E q \in pieces : q[1] <= k /\ k < q[2]
      BY <1>1, <3>2 DEF Covered
    <3>3. CASE \E d \in bodies \ {b, c} : d.lo <= k /\ k < d.hi
      BY <1>5, <3>3 DEF Covered
    <3> QED BY <2>1, <3>1, <3>2, <3>3 DEF IInv, PhaseInv, Covered
  <2> QED BY <1>1, <2>1, <2>2 DEF IInv, PhaseInv, ResultIsExact
<1> QED BY <1>6, <1>7, <1>8 DEF IInv

LEMMA ReturnIInv == IInv /\ Reduce!Return => IInv'
<1> SUFFICES ASSUME IInv, Reduce!Return PROVE IInv'
  OBVIOUS
<1>1. /\ sumN' = sumN /\ given' = given /\ x' = x /\ pieces' = pieces /\ bodies' = bodies
      /\ sumPc = "reduce" /\ sumPc' = "done" /\ pieces = {}
  BY DEF Reduce!Return, Reduce!args
<1>2. PICK b \in bodies : bodies = {b} /\ answer' = {b.val}
  BY DEF Reduce!Return, Sum
<1>3. /\ sumN \in Nat /\ b.lo \in 0..sumN /\ b.hi \in b.lo..sumN /\ b.val = Part(b.lo, b.hi)
  BY <1>2, SizesAssumption DEF IInv, ParametersInv, BodiesInv
<1>4. \A k \in 0..(sumN - 1) : b.lo <= k /\ k < b.hi
  BY <1>1, <1>2 DEF IInv, PhaseInv, Covered
<1>5. b.lo = 0 /\ b.hi = sumN
  <2>1. CASE sumN = 0
    BY <1>3, <2>1
  <2>2. CASE sumN > 0
    <3>1. 0 \in 0..(sumN - 1) /\ sumN - 1 \in 0..(sumN - 1)
      BY <1>3, <2>2
    <3>2. b.lo <= 0 /\ sumN - 1 < b.hi
      BY <1>4, <3>1
    <3> QED BY <1>3, <3>2
  <2> QED BY <1>3, <2>1, <2>2
<1>6. answer' = {Terms(-1, sumN)}
  <2>1. b.val = Terms(-1, sumN)
    BY <1>3, <1>5 DEF Part
  <2> QED BY <1>2, <2>1
<1>7. ParametersInv' /\ PiecesInv' /\ BodiesInv'
  BY <1>1 DEF IInv, ParametersInv, PiecesInv, BodiesInv, TwoElementsLeft
<1>8. PhaseInv'
  BY <1>1, <1>6 DEF IInv, PhaseInv, Covered, ResultIsExact
<1> QED BY <1>7, <1>8 DEF IInv

LEMMA ReduceNextIInv == IInv /\ [Reduce!Next]_Reduce!vars => IInv'
<1> SUFFICES ASSUME IInv, [Reduce!Next]_Reduce!vars PROVE IInv'
  OBVIOUS
<1>1. ~Reduce!Precheck
  BY DEF Reduce!Precheck, NeverShort
<1>2. CASE UNCHANGED Reduce!vars
  BY <1>2 DEF Reduce!vars, Reduce!args, IInv, ParametersInv, PiecesInv, BodiesInv, PhaseInv, Covered,
              TwoElementsLeft, ResultIsExact
<1> QED
  BY <1>1, <1>2, BeginIInv, HalveIInv, NewBodyIInv, ProcessIInv, JoinIInv, ReturnIInv DEF Reduce!Next

LEMMA ReduceInvariance == Reduce!Spec => []IInv
<1> QED BY ReduceInitIInv, ReduceNextIInv, PTL DEF Reduce!Spec

-------------------------------------------------------------------------------
(* For ranges of every length and every grain size of at least 3, the variables *)
(* stay in their sets; the value of a body is a sequence of terms of the range.  *)
THEOREM TypeCorrect == Reduce!Spec => []TypeOK
<1>1. IInv => TypeOK
  <2> SUFFICES ASSUME IInv PROVE TypeOK
    OBVIOUS
  <2>1. sumN \in Nat
    BY SizesAssumption DEF IInv, ParametersInv
  <2>2. ASSUME NEW b \in bodies
        PROVE  b.lo \in 0..sumN /\ b.hi \in b.lo..sumN /\ b.val \in Seq(-1..(sumN - 1))
    <3>1. b.lo \in 0..sumN /\ b.hi \in b.lo..sumN /\ b.val = Part(b.lo, b.hi)
      BY DEF IInv, BodiesInv
    <3>2. CASE b.lo = 0
      BY <2>1, <3>1, <3>2 DEF Part, Terms
    <3>3. CASE b.lo # 0 /\ b.lo = b.hi
      BY <2>1, <3>1, <3>3 DEF Part, NoSum
    <3>4. CASE b.lo # 0 /\ b.lo # b.hi
      BY <2>1, <3>1, <3>4 DEF Part, Terms
    <3> QED BY <3>1, <3>2, <3>3, <3>4
  <2> QED BY <2>2 DEF IInv, ParametersInv, PiecesInv, PhaseInv, TypeOK
<1> QED BY <1>1, ReduceInvariance, PTL

(* The result is the initial value and every element once, in the order of the *)
(* range (__parallel_transform_reduce), however the range is split and stolen.  *)
THEOREM ReducesTheRange == Reduce!Spec => []ResultIsExact
<1>1. IInv => ResultIsExact
  BY DEF IInv, PhaseInv
<1> QED BY <1>1, ReduceInvariance, PTL

(* A body made by a split always finds the two elements it combines without a  *)
(* test (__par_trans_red_body::operator()).                                     *)
THEOREM NewBodiesFindTwoElements == Reduce!Spec => []TwoElementsLeft
<1>1. IInv => TwoElementsLeft
  BY DEF IInv, PiecesInv
<1> QED BY <1>1, ReduceInvariance, PTL
-------------------------------------------------------------------------------
(* The scan. What the storage of a body holds that stands for [lo, hi).        *)
SumOf(lo, hi) == IF lo = 0 THEN Terms(-1, hi)
                           ELSE IF lo = hi THEN Raw ELSE Terms(lo, hi)

ScanParameters == scanN \in 0..MaxScan /\ inclusive \in BOOLEAN /\ scanPc \in {"scan", "done"}

UnscannedInv == unscanned \subseteq {q \in (0..scanN) \X (0..scanN) : q[1] < q[2]}

(* A body without a sum is the only one that begins where it does, so that     *)
(* nothing without a sum is put in front of something with one; and a place    *)
(* that a body stands for the elements from was some body's first one.         *)
ScanBodiesInv ==
  /\ \A b \in scanBodies : /\ b = ScanBody(b.at, b.lo, b.hi, b.sum)
                           /\ b.lo \in 0..scanN /\ b.hi \in b.lo..scanN
                           /\ b.sum = SumOf(b.lo, b.hi)
  /\ \A b \in scanBodies, c \in scanBodies :
       b.lo # 0 /\ b.lo = b.hi /\ c.lo = b.lo => c = b
  /\ \A b \in scanBodies : \E c \in scanBodies : c.at = b.lo

(* The result that element e is to get.                                        *)
Wanted(e) == Terms(-1, IF inclusive THEN e + 1 ELSE e)

WrittenInv ==
  /\ out = [e \in 0..(scanN - 1) |-> out[e]]
  /\ \A e \in 0..(scanN - 1) :
       out[e] = Wanted(e) \/ \E q \in unscanned : q[1] <= e /\ e < q[2]
  /\ scanPc = "done" => unscanned = {} /\ scanTotal = Terms(-1, scanN)

ScanIInv == ScanParameters /\ UnscannedInv /\ ScanBodiesInv /\ WrittenInv

-------------------------------------------------------------------------------
\* No sum of terms of the range looks like raw storage.
LEMMA SumsAreNotRaw ==
  ASSUME NEW i \in Int, NEW j \in Int, i < j, i >= -1
  PROVE  Terms(i, j) # Raw
<1>1. Terms(i, j)[1] = i
  BY DEF Terms
<1>2. Raw[1] = -2
  BY DEF Raw
<1> QED BY <1>1, <1>2

\* The pieces of a range of m elements lie in it, and each element is in one.
LEMMA TilingsCover ==
  ASSUME NEW m \in Nat, NEW P \in Tilings(m)
  PROVE  /\ P \subseteq {q \in (0..m) \X (0..m) : q[1] < q[2]}
         /\ \A e \in 0..(m - 1) : \E q \in P : q[1] <= e /\ e < q[2]
<1>1. PICK S \in SUBSET (1..(m - 1)) : P = Between(S \cup {0, m})
  BY DEF Tilings
<1> DEFINE ends == S \cup {0, m}
<1>2. ends \subseteq 0..m /\ 0 \in ends /\ m \in ends
  OBVIOUS
<1> HIDE DEF ends
<1>3. P = {q \in ends \X ends : q[1] < q[2] /\ (\A k \in ends : k <= q[1] \/ q[2] <= k)}
  BY <1>1 DEF Between, ends
<1>4. ASSUME NEW e \in 0..(m - 1) PROVE \E q \in P : q[1] <= e /\ e < q[2]
  <2> DEFINE after == {k \in ends : e < k}
             back == {d \in 0..e : e - d \in ends}
  <2>1. after \subseteq Nat /\ m \in after /\ back \subseteq Nat /\ e \in back
    <3>1. e \in 0..e /\ e - e \in ends
      BY <1>2
    <3>2. m \in after
      BY <1>2
    <3>3. after \subseteq Nat /\ back \subseteq Nat
      <4>1. ends \subseteq Nat /\ 0..e \subseteq Nat
        BY <1>2
      <4>2. after \subseteq ends /\ back \subseteq 0..e
        OBVIOUS
      <4> HIDE DEF after, back
      <4> QED BY <4>1, <4>2
    <3> QED BY <3>1, <3>2, <3>3
  <2>2. PICK hi \in after : \A k \in after : hi <= k
    <3> HIDE DEF after
    <3> QED BY <2>1, LeastNumber
  <2>3. PICK d \in back : \A k \in back : d <= k
    <3> HIDE DEF back
    <3> QED BY <2>1, LeastNumber
  <2> DEFINE lo == e - d
  <2>4. lo \in ends /\ hi \in ends /\ lo <= e /\ e < hi /\ lo \in Int /\ hi \in Int
    BY <1>2
  <2>5. ASSUME NEW k \in ends PROVE k <= lo \/ hi <= k
    <3>1. CASE e < k
      BY <2>2, <3>1
    <3>2. CASE k <= e
      <4>1. e - k \in 0..e /\ e - (e - k) = k
        BY <1>2, <3>2
      <4>2. d <= e - k
        BY <2>3, <4>1
      <4> QED BY <1>2, <4>2
    <3> QED BY <1>2, <3>1, <3>2
  <2> HIDE DEF lo
  <2>6. <<lo, hi>> \in P
    BY <1>3, <2>4, <2>5
  <2> QED BY <2>4, <2>6
<1> QED BY <1>2, <1>3, <1>4

LEMMA ScanInitIInv == ScanInit => ScanIInv
<1> SUFFICES ASSUME ScanInit PROVE ScanIInv
  OBVIOUS
<1>1. scanN \in Nat /\ ScanParameters
  BY ScanAssumption DEF ScanInit, ScanParameters
<1>2. /\ UnscannedInv
      /\ \A e \in 0..(scanN - 1) : \E q \in unscanned : q[1] <= e /\ e < q[2]
  BY <1>1, TilingsCover DEF ScanInit, UnscannedInv
<1>3. ScanBodiesInv
  <2> DEFINE first == ScanBody(0, 0, 0, Terms(-1, 0))
  <2>1. /\ first.at = 0 /\ first.lo = 0 /\ first.hi = 0 /\ first.sum = SumOf(0, 0)
        /\ first = ScanBody(first.at, first.lo, first.hi, first.sum)
    BY DEF ScanBody, SumOf
  <2> HIDE DEF first
  <2>2. scanBodies = {first}
    BY DEF ScanInit, first
  <2> QED BY <1>1, <2>1, <2>2 DEF ScanBodiesInv
<1>4. WrittenInv
  BY <1>2 DEF ScanInit, WrittenInv
<1> QED BY <1>1, <1>2, <1>3, <1>4 DEF ScanIInv

LEMMA SplitIInv ==
  ASSUME ScanIInv, NEW q \in unscanned, SplitBody(q)
  PROVE  ScanIInv'
<1> DEFINE new == ScanBody(q[1], q[1], q[1], Raw)
<1>1. /\ scanN' = scanN /\ inclusive' = inclusive /\ unscanned' = unscanned /\ out' = out
      /\ scanPc' = scanPc /\ scanTotal' = scanTotal /\ scanBodies' = scanBodies \cup {new}
      /\ q[1] # 0 /\ \A b \in scanBodies : b.at # q[1]
  BY DEF SplitBody
<1>2. scanN \in Nat /\ q[1] \in 0..scanN
  BY ScanAssumption DEF ScanIInv, ScanParameters, UnscannedInv
<1>3. /\ new.at = q[1] /\ new.lo = q[1] /\ new.hi = q[1] /\ new.sum = SumOf(q[1], q[1])
      /\ new = ScanBody(new.at, new.lo, new.hi, new.sum)
  BY <1>1 DEF ScanBody, SumOf
<1> HIDE DEF new
<1>4. \A b \in scanBodies : b.lo # q[1]
  BY <1>1 DEF ScanIInv, ScanBodiesInv
<1>5. ScanBodiesInv'
  <2>1. \A b \in scanBodies' : /\ b = ScanBody(b.at, b.lo, b.hi, b.sum)
                               /\ b.lo \in 0..scanN /\ b.hi \in b.lo..scanN
                               /\ b.sum = SumOf(b.lo, b.hi)
    BY <1>1, <1>2, <1>3 DEF ScanIInv, ScanBodiesInv
  <2>2. \A b \in scanBodies', c \in scanBodies' :
          b.lo # 0 /\ b.lo = b.hi /\ c.lo = b.lo => c = b
    BY <1>1, <1>3, <1>4 DEF ScanIInv, ScanBodiesInv
  <2>3. \A b \in scanBodies' : \E c \in scanBodies' : c.at = b.lo
    BY <1>1, <1>3 DEF ScanIInv, ScanBodiesInv
  <2> QED BY <1>1, <2>1, <2>2, <2>3 DEF ScanBodiesInv
<1>6. ScanParameters' /\ UnscannedInv' /\ WrittenInv'
  BY <1>1 DEF ScanIInv, ScanParameters, UnscannedInv, WrittenInv, Wanted
<1> QED BY <1>5, <1>6 DEF ScanIInv

(* A body is replaced by one of the same origin that has done more or has been  *)
(* joined to its left neighbour.                                               *)
LEMMA BodyReplaced ==
  ASSUME ScanIInv, scanN' = scanN, NEW b \in scanBodies,
         NEW lo \in 0..scanN, NEW hi \in lo..scanN,
         scanBodies' = InPlaceOf(b, ScanBody(b.at, lo, hi, SumOf(lo, hi))),
         lo # 0 => lo < hi,
         \E c \in scanBodies : c.at = lo,
         \A c \in scanBodies : c # b /\ c.lo # 0 /\ c.lo = c.hi => c.lo # lo
  PROVE  ScanBodiesInv'
<1> DEFINE new == ScanBody(b.at, lo, hi, SumOf(lo, hi))
<1>1. /\ new.at = b.at /\ new.lo = lo /\ new.hi = hi /\ new.sum = SumOf(lo, hi)
      /\ new = ScanBody(new.at, new.lo, new.hi, new.sum)
  BY DEF ScanBody
<1>2. scanBodies' = (scanBodies \ {b}) \cup {new}
  BY DEF InPlaceOf
<1>3. scanN \in Nat
  BY ScanAssumption DEF ScanIInv, ScanParameters
<1> HIDE DEF new
<1>4. \A c \in scanBodies' : /\ c = ScanBody(c.at, c.lo, c.hi, c.sum)
                             /\ c.lo \in 0..scanN /\ c.hi \in c.lo..scanN
                             /\ c.sum = SumOf(c.lo, c.hi)
  BY <1>1, <1>2 DEF ScanIInv, ScanBodiesInv
<1>5. new.lo # 0 => new.lo # new.hi
  BY <1>1, <1>3
<1>6. ASSUME NEW c \in scanBodies', NEW d \in scanBodies', c.lo # 0, c.lo = c.hi, d.lo = c.lo
      PROVE  d = c
  <2>1. c \in scanBodies /\ c # b
    BY <1>2, <1>5, <1>6
  <2>2. d # new
    BY <1>1, <1>6, <2>1
  <2> QED BY <1>2, <1>6, <2>1, <2>2 DEF ScanIInv, ScanBodiesInv
<1>7. \A c \in scanBodies : \E d \in scanBodies' : d.at = c.at
  BY <1>1, <1>2
<1>8. \A c \in scanBodies' : \E d \in scanBodies' : d.at = c.lo
  BY <1>1, <1>2, <1>7 DEF ScanIInv, ScanBodiesInv
<1> QED BY <1>4, <1>6, <1>8 DEF ScanBodiesInv

LEMMA PreScanIInv ==
  ASSUME ScanIInv, NEW b \in scanBodies, NEW q \in unscanned, PreScan(b, q)
  PROVE  ScanIInv'
<1>1. /\ scanN' = scanN /\ inclusive' = inclusive /\ unscanned' = unscanned /\ out' = out
      /\ scanPc' = scanPc /\ scanTotal' = scanTotal /\ b.lo # 0 /\ b.hi = q[1]
      /\ scanBodies' = InPlaceOf(b, ScanBody(b.at, b.lo, q[2], PreScanned(b.sum, q[1], q[2])))
  BY DEF PreScan
<1>2. /\ scanN \in Nat /\ b.lo \in 1..scanN /\ b.hi \in b.lo..scanN /\ b.sum = SumOf(b.lo, b.hi)
      /\ q[1] \in 0..scanN /\ q[2] \in 0..scanN /\ q[1] < q[2]
  BY <1>1, ScanAssumption DEF ScanIInv, ScanParameters, UnscannedInv, ScanBodiesInv
<1>3. PreScanned(b.sum, q[1], q[2]) = SumOf(b.lo, q[2])
  <2> DEFINE i == b.lo
             j == q[1]
             k == q[2]
  <2>1. i \in Int /\ j \in Int /\ k \in Int /\ 1 <= i /\ i <= j /\ j < k
    BY <1>1, <1>2
  <2>2. b.sum = SumOf(i, j)
    BY <1>1, <1>2
  <2> SUFFICES PreScanned(b.sum, j, k) = SumOf(i, k)
    OBVIOUS
  <2> HIDE DEF i, j, k
  <2>3. SumOf(i, k) = Terms(i, k)
    BY <2>1 DEF SumOf
  <2>4. CASE i = j
    <3>1. Terms(j, j + 1) \o Terms(j + 1, k) = Terms(j, k)
      BY <2>1, TermsJoin
    <3>2. b.sum = Raw
      BY <2>1, <2>2, <2>4 DEF SumOf
    <3> QED BY <2>3, <2>4, <3>1, <3>2 DEF PreScanned
  <2>5. CASE i # j
    <3>1. Terms(i, j) \o Terms(j, k) = Terms(i, k)
      BY <2>1, TermsJoin
    <3>2. b.sum = Terms(i, j) /\ Terms(i, j) # Raw
      BY <2>1, <2>2, <2>5, SumsAreNotRaw DEF SumOf
    <3> QED BY <2>3, <3>1, <3>2 DEF PreScanned
  <2> QED BY <2>4, <2>5
<1>4. ScanBodiesInv'
  <2>1. q[2] \in b.lo..scanN /\ b.lo < q[2] /\ b.lo \in 0..scanN
    BY <1>1, <1>2
  <2>2. \E c \in scanBodies : c.at = b.lo
    BY DEF ScanIInv, ScanBodiesInv
  <2>3. \A c \in scanBodies : c # b /\ c.lo # 0 /\ c.lo = c.hi => c.lo # b.lo
    BY DEF ScanIInv, ScanBodiesInv
  <2> QED BY <1>1, <1>3, <2>1, <2>2, <2>3, BodyReplaced
<1>5. ScanParameters' /\ UnscannedInv' /\ WrittenInv'
  BY <1>1 DEF ScanIInv, ScanParameters, UnscannedInv, WrittenInv, Wanted
<1> QED BY <1>4, <1>5 DEF ScanIInv

LEMMA ReverseJoinIInv ==
  ASSUME ScanIInv, NEW a \in scanBodies, NEW b \in scanBodies, ReverseJoin(a, b)
  PROVE  ScanIInv'
<1>1. /\ scanN' = scanN /\ inclusive' = inclusive /\ unscanned' = unscanned /\ out' = out
      /\ scanPc' = scanPc /\ scanTotal' = scanTotal /\ a.hi = b.lo /\ b.lo # 0
      /\ scanBodies' = InPlaceOf(b, ScanBody(b.at, a.lo, b.hi, Joined(a, b)))
  BY DEF ReverseJoin
<1>2. /\ scanN \in Nat /\ b.lo \in 1..scanN /\ b.hi \in b.lo..scanN /\ b.sum = SumOf(b.lo, b.hi)
      /\ a.lo \in 0..scanN /\ a.hi \in a.lo..scanN /\ a.sum = SumOf(a.lo, a.hi)
  BY <1>1, ScanAssumption DEF ScanIInv, ScanParameters, ScanBodiesInv
<1>3. ScanParameters' /\ UnscannedInv' /\ WrittenInv'
  BY <1>1 DEF ScanIInv, ScanParameters, UnscannedInv, WrittenInv, Wanted
<1>4. CASE a.lo = a.hi
  <2>1. a = b /\ b.lo = b.hi
    BY <1>1, <1>2, <1>4 DEF ScanIInv, ScanBodiesInv
  <2>2. Joined(a, b) = b.sum
    BY <1>2, <2>1 DEF Joined, SumOf
  <2>3. ScanBody(b.at, a.lo, b.hi, Joined(a, b)) = b
    BY <2>1, <2>2 DEF ScanIInv, ScanBodiesInv
  <2>4. scanBodies' = scanBodies
    BY <1>1, <2>3 DEF InPlaceOf
  <2>5. ScanBodiesInv'
    BY <1>1, <2>4 DEF ScanIInv, ScanBodiesInv
  <2> QED BY <1>3, <2>5 DEF ScanIInv
<1>5. CASE a.lo # a.hi
  <2> DEFINE i == a.lo
             j == a.hi
             k == b.hi
  <2>1. i \in Nat /\ j \in Nat /\ k \in Nat /\ i < j /\ j <= k
    BY <1>1, <1>2, <1>5
  <2>2. a.sum = SumOf(i, j) /\ b.sum = SumOf(j, k) /\ b.lo = j
    BY <1>1, <1>2
  <2> HIDE DEF i, j, k
  <2> DEFINE first == IF i = 0 THEN -1 ELSE i
  <2>3. SumOf(i, j) = Terms(first, j) /\ SumOf(i, k) = Terms(first, k)
    BY <2>1 DEF SumOf
  <2>4. Joined(a, b) = SumOf(i, k)
    <3>1. CASE j = k
      BY <2>1, <2>2, <3>1 DEF SumOf, Joined
    <3>2. CASE j # k
      <4>1. b.sum = Terms(j, k) /\ Terms(j, k) # Raw
        BY <2>1, <2>2, <3>2, SumsAreNotRaw DEF SumOf
      <4>2. Terms(first, j) \o Terms(j, k) = Terms(first, k)
        <5>1. first \in Int /\ first <= j
          BY <2>1
        <5> HIDE DEF first
        <5> QED BY <2>1, <5>1, TermsJoin
      <4> QED BY <2>2, <2>3, <4>1, <4>2 DEF Joined
    <3> QED BY <3>1, <3>2
  <2>5. ScanBodiesInv'
    <3>1. a.lo \in 0..scanN /\ b.hi \in a.lo..scanN /\ a.lo < b.hi
      BY <1>1, <1>2, <1>5
    <3>2. \E c \in scanBodies : c.at = a.lo
      BY DEF ScanIInv, ScanBodiesInv
    <3>3. \A c \in scanBodies : c.lo # 0 /\ c.lo = c.hi => c.lo # a.lo
      BY <1>5 DEF ScanIInv, ScanBodiesInv
    <3>4. Joined(a, b) = SumOf(a.lo, b.hi)
      BY <2>4 DEF i, k
    <3> QED BY <1>1, <3>1, <3>2, <3>3, <3>4, BodyReplaced
  <2> QED BY <1>3, <2>5 DEF ScanIInv
<1> QED BY <1>4, <1>5

LEMMA FinalScanIInv ==
  ASSUME ScanIInv, NEW b \in scanBodies, NEW q \in unscanned, FinalScan(b, q)
  PROVE  ScanIInv'
<1>1. /\ scanN' = scanN /\ inclusive' = inclusive /\ unscanned' = unscanned \ {q}
      /\ scanPc' = scanPc /\ scanTotal' = scanTotal /\ b.lo = 0 /\ b.hi = q[1]
      /\ scanBodies' = InPlaceOf(b, ScanBody(b.at, 0, q[2], b.sum \o Terms(q[1], q[2])))
  BY DEF FinalScan
<1>2. /\ scanN \in Nat /\ b.sum = Terms(-1, q[1])
      /\ q[1] \in 0..scanN /\ q[2] \in 0..scanN /\ q[1] < q[2]
  BY <1>1, ScanAssumption DEF ScanIInv, ScanParameters, UnscannedInv, ScanBodiesInv, SumOf
<1>3. ASSUME NEW j \in Int, q[1] <= j
      PROVE  b.sum \o Terms(q[1], j) = Terms(-1, j)
  <2>1. q[1] \in Int /\ -1 \in Int /\ -1 <= q[1]
    BY <1>2
  <2>2. Terms(-1, q[1]) \o Terms(q[1], j) = Terms(-1, j)
    BY ONLY <1>3, <2>1, TermsJoin
  <2> QED BY <1>2, <2>2
<1>4. ScanBodiesInv'
  <2>1. b.sum \o Terms(q[1], q[2]) = SumOf(0, q[2])
    <3>1. q[2] \in Int /\ q[1] <= q[2]
      BY <1>2
    <3> QED BY <1>3, <3>1 DEF SumOf
  <2>2. 0 \in 0..scanN /\ q[2] \in 0..scanN
    BY <1>2
  <2>3. \E c \in scanBodies : c.at = 0
    BY <1>1 DEF ScanIInv, ScanBodiesInv
  <2> QED BY <1>1, <2>1, <2>2, <2>3, BodyReplaced
<1>5. WrittenInv'
  <2>1. DOMAIN out = 0..(scanN - 1)
    BY DEF ScanIInv, WrittenInv
  <2>2. out' = [e \in 0..(scanN - 1) |->
                 IF e \in q[1]..(q[2] - 1)
                   THEN b.sum \o Terms(q[1], IF inclusive THEN e + 1 ELSE e) ELSE out[e]]
    BY <2>1 DEF FinalScan
  <2>3. ASSUME NEW e \in 0..(scanN - 1), e \in q[1]..(q[2] - 1)
        PROVE  out'[e] = Wanted(e)
    <3>1. out'[e] = b.sum \o Terms(q[1], IF inclusive THEN e + 1 ELSE e)
      BY <2>2, <2>3
    <3>2. q[1] <= (IF inclusive THEN e + 1 ELSE e) /\ (IF inclusive THEN e + 1 ELSE e) \in Int
      BY <1>2, <2>3
    <3> QED BY <1>3, <3>1, <3>2 DEF Wanted
  <2>4. ASSUME NEW e \in 0..(scanN - 1), e \notin q[1]..(q[2] - 1)
        PROVE  out'[e] = Wanted(e) \/ \E s \in unscanned' : s[1] <= e /\ e < s[2]
    <3>1. out'[e] = out[e]
      BY <2>2, <2>4
    <3>2. out[e] = Wanted(e) \/ \E s \in unscanned : s[1] <= e /\ e < s[2]
      BY DEF ScanIInv, WrittenInv
    <3>3. ~(q[1] <= e /\ e < q[2])
      BY <1>2, <2>4
    <3> QED BY <1>1, <3>1, <3>2, <3>3
  <2>5. \A e : Wanted(e)' = Wanted(e)
    BY <1>1 DEF Wanted
  <2>6. out' = [e \in 0..(scanN - 1) |-> out'[e]]
    BY <2>2
  <2> QED BY <1>1, <2>3, <2>4, <2>5, <2>6 DEF ScanIInv, WrittenInv
<1>6. ScanParameters' /\ UnscannedInv'
  BY <1>1 DEF ScanIInv, ScanParameters, UnscannedInv
<1> QED BY <1>4, <1>5, <1>6 DEF ScanIInv

LEMMA ScanReturnIInv ==
  ASSUME ScanIInv, NEW b \in scanBodies, ScanReturn(b)
  PROVE  ScanIInv'
<1>1. scanTotal' = Terms(-1, scanN)
  BY DEF ScanReturn, ScanIInv, ScanBodiesInv, SumOf
<1>2. ScanParameters' /\ UnscannedInv' /\ ScanBodiesInv'
  BY DEF ScanReturn, ScanIInv, ScanParameters, UnscannedInv, ScanBodiesInv
<1>3. WrittenInv'
  BY <1>1 DEF ScanReturn, ScanIInv, WrittenInv, Wanted
<1> QED BY <1>2, <1>3 DEF ScanIInv

\* For ranges of every length, cut in any way and scanned and joined in any order
\* the protocol of tbb::parallel_scan allows, every result and the sum returned
\* have each term once and in order (parallel_backend_tbb.h:253-299).
THEOREM ScansTheRange == ScanSpec => []ScanResultsAreExact
<1>1. ScanIInv /\ [ScanNext]_scanVars => ScanIInv'
  <2> SUFFICES ASSUME ScanIInv, [ScanNext]_scanVars PROVE ScanIInv'
    OBVIOUS
  <2>1. CASE UNCHANGED scanVars
    BY <2>1 DEF scanVars, ScanIInv, ScanParameters, UnscannedInv, ScanBodiesInv, WrittenInv, Wanted
  <2> QED BY <2>1, SplitIInv, PreScanIInv, FinalScanIInv, ReverseJoinIInv, ScanReturnIInv DEF ScanNext
<1>2. ScanIInv => ScanResultsAreExact
  BY DEF ScanIInv, WrittenInv, Wanted, ScanResultsAreExact
<1> QED BY <1>1, <1>2, ScanInitIInv, PTL DEF ScanSpec
===============================================================================
