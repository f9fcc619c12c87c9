SPECIFICATION DevSpec
CONSTANTS
  MaxPlain = 9
  MaxN = 6
  MaxOther = 4
  WgSizes = {2, 4}
  Iters = 2
  LeafSizes = {1, 2}
  ChunkSizes = {1, 4}
  KeyBits = 2
  RadixBits = 1
INVARIANTS NoRace CallIsCorrect
