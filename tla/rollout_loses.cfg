SPECIFICATION Spec
CONSTANTS
  t1 = t1
  t2 = t2
  i1 = i1
  i2 = i2
  Instances = {i1, i2}
  Threads = {t1, t2}
  Serves <- Rollout
  Does <- PostsOnly
  Posted = {e1, e2}
  NoThread = NoThread
  FeedLength = 0
  ChunkEvents = 2
  Batch = 1
  SegmentDocs = 2
  MaxAttempts = 1
  MaxStreams = 0
  MaxFaults = 0
INVARIANTS
  AcknowledgedIsDurable
CHECK_DEADLOCK FALSE
