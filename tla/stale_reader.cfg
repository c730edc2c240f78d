SPECIFICATION LSpec
CONSTANTS
  Consumers = {c1}
  NoOwner = NoOwner
  MaxDocs = 1
  IdleFlush = FALSE
  MaxOffset = 2
  MaxFaults <- Stops
  MergeFactor = 2
  Disciplines = {"settled"}
INVARIANTS
  QueriesFindSegments
CHECK_DEADLOCK FALSE
