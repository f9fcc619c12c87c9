CONSTANTS
  MaxMasked = 2
  MaxN1 = 5
  MaxN2 = 5
  MaxSum = 4
  SetKeys = {1, 2, 3}
  SetCutOff = 2
  NoSum = NoSum
SPECIFICATION ScanSpec
INVARIANT IntersectionFromFirst
CHECK_DEADLOCK FALSE
