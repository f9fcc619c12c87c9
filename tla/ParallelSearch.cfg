SPECIFICATION SearchSpec
CONSTANTS
  MaxN = 4
  MaxLen = 8
  MaxMatches = 3
  WgSize = 3
  MaxUnits = 2
  Shift = 2
INVARIANTS AnswerIsExtremum NothingForgotten
PROPERTIES Refines DeviceRefines EverySearchEnds
CHECK_DEADLOCK FALSE
