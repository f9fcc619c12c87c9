SPECIFICATION NumbersSpec
CONSTANTS
  EngineSizes = {0, 1, 2, 3, 4, 8}
  DistributionSizes = {0, 1, 2, 3, 4, 8, 16}
  MaxDrawn = 12
  Congruential <- SmallCongruential
  Subtractive <- SmallSubtractive
  Blocks <- SmallBlocks
  VecSizes = {0, 1, 2, 3}
  MaxSeed = 3
  Narrow = 8
  Word = 16
  MaxTaken = 8
INVARIANT TakesWhatItReturns
CHECK_DEADLOCK FALSE
