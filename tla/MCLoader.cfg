SPECIFICATION Spec
CONSTANTS
  Files = {"loader", "os", "log", "main", "a", "b", "c"}
  Symbols = {"s", "t"}
  Loader = "loader"
  Program = "main"
  None = None
  MaxSlots = 6
  Worlds <- SmallWorlds
INVARIANTS OneSlotEach BoundToWhatItSees
PROPERTIES RefinesLoadOrder ProgramStarts
CHECK_DEADLOCK FALSE
