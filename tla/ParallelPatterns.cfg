SPECIFICATION PatternsSpec
CONSTANTS
  MaxN = 4
  MaxLoop = 5
  Keys = {1, 2, 3}
  MaxReduce = 4
  Grain = 1
  ReduceKeys = {1, 2, 3}
  Bricks = {"any_of", "is_heap", "equal", "find_if", "is_heap_until", "mismatch", "search", "find_end",
            "search_n", "lexicographical_compare", "adjacent_find", "is_partitioned", "reduce",
            "minmax_element", "rotate", "shift_left", "remove_if"}
  BlockSize = 2
  FirstBlock = 1
  Lanes = 2
  MaxBrick = 6
  WalkLength = 3
  Bits = 3
  SetKeys = {1, 2, 3}
  MaxMasked = 5
  MaxN1 = 5
  MaxN2 = 5
  MaxSum = 6
  SetCutOff = 2
  NoSum = NoSum
  MaxKeys = 5
  MaxSought = 2
  GroupSize = 2
  MaxPublic = 3
INVARIANTS EveryCallIsCorrect SkippedOnlyWhenFound MovesAreIndependent ValuesDescribeParts BricksKeepTheirContract IteratorsWalkLikePointers LifetimesKept OneBracketing SegmentsAreKept
PROPERTIES OwnSlotsOnly EveryCallEnds
CHECK_DEADLOCK FALSE
