SPECIFICATION Spec
CONSTANTS
  Consumers = {c1, c2}
  NoOwner = NoOwner
  MaxDocs = 2
  IdleFlush = TRUE
  MaxOffset = 3
  MaxFaults <- OneOfEach
INVARIANTS
  AcknowledgedIsSearchable
CHECK_DEADLOCK FALSE
