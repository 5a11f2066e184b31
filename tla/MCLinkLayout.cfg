SPECIFICATION Spec
CONSTANTS
  Base = 4194304
  HeaderTail = 316
  Inputs <- SmallInputs
  Libraries <- TwoLibraries
  Names = {"f", "printf"}
  Length <- ShortNames
  Alloc <- RealAlloc
  GnuHashSize <- EmptyGnuHash
  MaxExports = 2
  MaxRelocs = 4
INVARIANTS InputsAtTheirAddresses DynamicAddressesMatchFile NamesAtTheirOffsets SlotsResolveTheirNames
