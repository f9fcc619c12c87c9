SPECIFICATION Spec
CONSTANTS
  MaxN = 4
  MaxP = 1
  DefaultChunk = 3
INVARIANTS OutOfMemoryIsHandled
CHECK_DEADLOCK FALSE
