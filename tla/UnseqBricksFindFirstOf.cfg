SPECIFICATION Spec
CONSTANTS
  Bricks = {"find_first_of"}
  BlockSize = 2
  FirstBlock = 1
  Lanes = 2
  MaxBrick = 6
INVARIANTS FindFirstOfIsFirst
CHECK_DEADLOCK FALSE
