SPECIFICATION LSpec
CONSTANTS
  Consumers = {c1}
  NoOwner = NoOwner
  MaxDocs = 1
  IdleFlush = FALSE
  MaxOffset = 2
  MaxFaults <- Restarts
  MergeFactor = 2
  Disciplines = {"quiet"}
INVARIANTS
  AcknowledgedIsFound
CHECK_DEADLOCK FALSE
