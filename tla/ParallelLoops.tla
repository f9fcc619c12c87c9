---------------------------- MODULE ParallelLoops ----------------------------
(* The loops over chunks the backends run for a pattern: the transform reduce  *)
(* and the transform scan of the TBB backend, the parallel for and the         *)
(* transform reduce of the OpenMP backend, and the strict scan of both. A       *)
(* behaviour is one call of one of them; the others stand where a call on an    *)
(* empty range has left them, or, the strict scan, where it begins.             *)
EXTENDS ParallelStrictScan, TransformBodies, OmpLoops

VARIABLE loop              \* which of them is called

sumVars == <<sumN, given, x, pieces, bodies, sumPc, answer>>
allVars == <<loop, vars, sumVars, scanVars, forVars, teamVars>>

ReduceEnded ==
  /\ sumN = 0 /\ given = sumN /\ x = sumN
  /\ pieces = {} /\ bodies = {}
  /\ sumPc = "done" /\ answer = {Initial(sumN, x)}

ForEnded ==
  /\ forN = 0 /\ forSize = (CHOOSE c \in ChunkSizes : TRUE)
  /\ task = [i \in Chunks |-> "done"]
  /\ applied = << >>
  /\ returned = TRUE

TeamEnded ==
  /\ teamN = 0 /\ threads = 1 /\ teamSize = (CHOOSE c \in ChunkSizes : TRUE)
  /\ teamPc = "done"
  /\ accums = [i \in Team |-> Value({})]
  /\ runner = << >> /\ seen = << >> /\ finished = {}
  /\ result = Value(TeamElements)

ScanEnded ==
  /\ scanN = 0 /\ inclusive = TRUE
  /\ unscanned = {} /\ summed = {}
  /\ scanBodies = {ScanBody(0, 0, 0, Terms(-1, 0))}
  /\ out = << >>
  /\ scanPc = "done" /\ scanTotal = Terms(-1, 0)

StrictIdle ==
  /\ n = 0 /\ p = 1 /\ limit = 1
  /\ pc = "begin" /\ tilesize = 0 /\ tiles = 0
  /\ r = << >> /\ up = << >> /\ down = << >> /\ lastsize = << >> /\ initial = << >>
  /\ k = 0 /\ t = Bad
  /\ reduced = EmptyBag /\ total = Bad /\ scanned = EmptyBag

LoopsInit ==
  \/ loop = "reduce" /\ Reduce!Init /\ ForEnded /\ TeamEnded /\ ScanEnded /\ StrictIdle
  \/ loop = "for" /\ ReduceEnded /\ ForInit /\ TeamEnded /\ ScanEnded /\ StrictIdle
  \/ loop = "team" /\ ReduceEnded /\ ForEnded /\ TeamInit /\ ScanEnded /\ StrictIdle
  \/ loop = "scan" /\ ReduceEnded /\ ForEnded /\ TeamEnded /\ ScanInit /\ StrictIdle
  \/ loop = "strict" /\ ReduceEnded /\ ForEnded /\ TeamEnded /\ ScanEnded /\ Init

LoopsNext ==
  \/ Reduce!Next /\ UNCHANGED <<loop, vars, scanVars, forVars, teamVars>>
  \/ ForNext /\ UNCHANGED <<loop, vars, sumVars, scanVars, teamVars>>
  \/ TeamNext /\ UNCHANGED <<loop, vars, sumVars, scanVars, forVars>>
  \/ ScanNext /\ UNCHANGED <<loop, vars, sumVars, forVars, teamVars>>
  \/ loop = "strict" /\ Next /\ UNCHANGED <<loop, sumVars, scanVars, forVars, teamVars>>

\* A worker of the pool always goes on with some task that can.
LoopsSpec == LoopsInit /\ [][LoopsNext]_allVars /\ WF_allVars(LoopsNext)
-------------------------------------------------------------------------------
\* Every call ends, however its range is cut and whoever runs the pieces: no task of a
\* strict scan waits for one that never runs.
EveryLoopEnds ==
  <>(/\ sumPc = "done" /\ returned = TRUE /\ teamPc = "done" /\ scanPc = "done"
     /\ loop = "strict" => pc \in {"done", "bad_alloc"})
===============================================================================
