SPECIFICATION Spec
CONSTANTS
  BlockSize = 2
  SmallList = 2
  TermsPerBlock = 2
  DocsPerBlock = 2
  Dropped <- DroppedWords
  Magic = Magic
  Version = 3
  Digest <- DigestOf
  NoTime = NoTime
  Nothing = Nothing
  SkipRatio = 2
  TermScore <- Weight
  NoProduct = NoProduct
  NoPrice = NoPrice
  NoSession = NoSession
  Unreadable = Unreadable
  NoLimit = NoLimit
  SizeTierRatio = 4
  Missing = Missing
  IdsFrom <- SomeIds
  DocsFrom <- SomeDocs
  MaxIndexed = 4
  MaxTerms = 3
  Asked <- SomeQueries
  Sizes = {1, 4, 17}
  MaxSegments = 5
  MergeFactors = {2, 3}
  Ceilings = {6, 100}
  RowsFrom <- SomeRows
  MaxRows = 4
  SliceSessionsUpTo = {1, 2}
  ScanLimits = {3, 10}
  TreesFrom <- SomeTrees
  MaxTrees = 3
  Seen = {0, 2, 3, Missing}
  MaxScored = 2
INVARIANTS
  ListsAreFaithful
  SegmentsAreFaithful
  SearchFindsWhatAScanFinds
  SegmentationDoesNotShow
  MergesTakeNeighbours
  PartitionsStayApart
  TrainingSetIsSound
  
  ScoresAgree
CHECK_DEADLOCK FALSE
