SPECIFICATION MallocSpec
CONSTANTS
  Blocks = 6
  WordBits = 3
  BlockSize = 2
  MaxBins = 3
  Sizes = {3, 4, 10}
  Bytes = {5}
INVARIANTS NoOverlap LengthIntact Accounted
CHECK_DEADLOCK FALSE
