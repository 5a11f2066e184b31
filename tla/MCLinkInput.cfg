SPECIFICATION Spec
CONSTANTS
  Sections <- AllSections
  Symbols <- TwoKinds
  ByteMod = 256
  InterpLen = 28
  MaxObjects = 2
  MaxSections = 3
  MaxSymbols = 1
INVARIANTS EverySectionPlaced HeadersFit IndexFindsSection
