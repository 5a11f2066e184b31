CONSTANTS
  Worlds <- SmallWorlds
  Page = 2
  EntriesMax = 4
  DataMax = 5
SPECIFICATION PatchSpec
INVARIANTS LinesBeforeAnErrorApply DiffNamesReplacedBytes
PROPERTY PatchIsApplied
CHECK_DEADLOCK FALSE
