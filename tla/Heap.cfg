SPECIFICATION Spec
CONSTANTS
  HEAP_SIZE = 48
  HEADER = 4
  MIN_BLOCK_SIZE = 8
  ALIGN = 2
  WORD = 256
  Sizes <- MCSizes
  MaxLive = 5
INVARIANTS Tiled LiveFits Coalesced
