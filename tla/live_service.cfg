SPECIFICATION FairSpec
CONSTANTS
  t1 = t1
  t2 = t2
  i1 = i1
  i2 = i2
  Instances = {i1}
  Threads = {t1, t2}
  Serves <- OneInstance
  Does <- Mixed
  Posted = {e1}
  NoThread = NoThread
  FeedLength = 2
  ChunkEvents = 2
  Batch = 1
  SegmentDocs = 2
  MaxAttempts = 2
  MaxStreams = 1
  MaxFaults = 2
INVARIANTS
  TypeOK
  AcknowledgedIsDurable
  NoCopyWithoutRetry
  ReadersStayTrue
  FeedLosesAtMostSurplus
PROPERTIES
  IndexedStays
  EventuallyCurrent
  EveryRequestEnds
CHECK_DEADLOCK FALSE
