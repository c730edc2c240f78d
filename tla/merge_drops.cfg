SPECIFICATION LSpec
CONSTANTS
  Consumers = {c1}
  NoOwner = NoOwner
  MaxDocs = 1
  IdleFlush = FALSE
  MaxOffset = 3
  MaxFaults <- Stops
  MergeFactor = 2
  Disciplines = {"any"}
PROPERTIES
  MergeUnlistsOnlySources
CHECK_DEADLOCK FALSE
