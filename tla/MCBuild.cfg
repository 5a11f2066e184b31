CONSTANTS
  Worlds <- SmallWorlds
  MaxAllocs = 15
  MaxDepth = 5
  CmdMax = 5
  FullMax = 2
SPECIFICATION Spec
INVARIANTS ReadAsWritten CommandsAsWritten PrerequisitesFirst
PROPERTY GoalIsMade
CHECK_DEADLOCK FALSE
