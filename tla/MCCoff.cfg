CONSTANTS
  Worlds <- SmallWorlds
  Names <- Symbols
  NameLen <- Lengths
  HashOf <- Hashes
  Dll <- DllOf
  OutLen = 5
  NBucket = 2
  MaxChain = 3
SPECIFICATION Spec
INVARIANTS ReferencesReachTheirSymbol ImportsReachTheirFunction TablesFit PiecesAtTheirAddresses
CHECK_DEADLOCK FALSE
