SPECIFICATION DevSpec
CONSTANTS
  MaxPlain = 1
  MaxN = 3
  MaxOther = 1
  WgSizes = {2}
  Iters = 1
  LeafSizes = {1}
  ChunkSizes = {1}
  KeyBits = 2
  RadixBits = 1
INVARIANTS CopyIsSorted
