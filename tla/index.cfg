SPECIFICATION FairSpec
CONSTANTS
  Consumers = {c1}
  NoOwner = NoOwner
  MaxDocs = 3
  IdleFlush = TRUE
  MaxOffset = 5
  MaxFaults <- OneOfEach
INVARIANTS
  TypeOK
  NoDocumentTwice
  AcknowledgedIsSearchable
  ListedIsStored
  NoneStraddlesCommitted
PROPERTIES
  GenerationRises
  CommittedOnlyAdvances
  ImplementsExactlyOnce
  FullAreAcknowledged
  EventuallyAcknowledged
CHECK_DEADLOCK FALSE
