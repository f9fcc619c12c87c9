SPECIFICATION LoopsSpec
CONSTANTS
  MaxSum = 16
  Grain = 3
  MaxLoop = 12
  ChunkSizes = {2, 3, 5}
  MaxThreads = 3
  MaxScan = 4
  MaxN = 9
  MaxP = 2
  DefaultChunk = 3
INVARIANTS ResultIsExact TwoElementsLeft EachElementOnce NoSharedElement TeamResultIsExact ScanResultsAreExact
INVARIANTS ExactPrefix ScanTasksShareNothing ReadsAreWritten
PROPERTIES ContractIsKept EveryLoopEnds
CHECK_DEADLOCK FALSE
