SPECIFICATION Spec
CONSTANTS
  t1 = t1
  t2 = t2
  i1 = i1
  i2 = i2
  Instances = {i1}
  Threads = {t1, t2}
  Serves <- OneInstance
  Does <- PostsAndSearches
  Posted = {e1}
  NoThread = NoThread
  FeedLength = 0
  ChunkEvents = 2
  Batch = 1
  SegmentDocs = 2
  MaxAttempts = 1
  MaxStreams = 0
  MaxFaults = 0
INVARIANTS
  PostedIsFound
CHECK_DEADLOCK FALSE
