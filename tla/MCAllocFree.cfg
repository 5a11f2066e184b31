SPECIFICATION Spec
CONSTANTS
  Blocks = 4
  WordBits = 3
  BlockSize = 4
  MaxBins = 3
  Sizes = {1, 4, 12}
  Bytes = {3}
INVARIANTS CarefulPagesAreExact CarefulRunsAreFound
CHECK_DEADLOCK FALSE
