SPECIFICATION LSpec
CONSTANTS
  Consumers = {c1}
  NoOwner = NoOwner
  MaxDocs = 2
  IdleFlush = TRUE
  MaxOffset = 4
  MaxFaults <- Evictions
  MergeFactor = 2
  Disciplines = {"quiet", "settled"}
INVARIANTS
  LTypeOK
  FoundOnce
  SettledIsFound
  ListedIsStored
PROPERTIES
  MaintenanceIsInvisible
CHECK_DEADLOCK FALSE
