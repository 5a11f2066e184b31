SPECIFICATION HashSpec
CONSTANTS
  Names = {"a", "b", "c", "d", "e"}
  Hash <- SmallHash
  BloomSize = 2
  BloomShift = 4
  WordBits = 8
  ChainWords = 5
INVARIANTS ExportedAreFound OthersAreNotFound
CHECK_DEADLOCK FALSE
