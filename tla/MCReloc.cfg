CONSTANTS
  Worlds <- SmallWorlds
  PltGot = 200
  Bases = {0, 4096}
SPECIFICATION Spec
INVARIANTS ReferencesReachTheirDefinition LoaderWritesItsCells
PROPERTY PlainObjectsRun
CHECK_DEADLOCK FALSE
