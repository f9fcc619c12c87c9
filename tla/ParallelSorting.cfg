SPECIFICATION SortingSpec
CONSTANTS
  MaxN = 6
  Keys = {1, 2, 3}
  CutOff = 2
  MaxSort = 5
  SortKeys = {1, 2}
  SortCutOffs = {1, 2}
  MergeCutOff = 2
INVARIANTS MergedStably LifetimesKept NoSharedSlot CutsAreFinal
INVARIANTS Sorted SortKeepsLifetimes SortTasksShareNothing CountsChildren
PROPERTY EveryCallEnds
CHECK_DEADLOCK FALSE
