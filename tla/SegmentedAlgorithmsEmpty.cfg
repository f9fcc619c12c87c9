SPECIFICATION Spec
CONSTANTS
  MaxKeys = 4
  MaxSought = 2
  GroupSize = 2
INVARIANT ReturnsEndOfResults
CHECK_DEADLOCK FALSE
