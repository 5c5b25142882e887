\* Two runs of index over two documents, in two collections, beside three calls of the
\* tools of memory.
SPECIFICATION RecallSpec
CONSTANTS
  Run = {j1, j2}
  Document = {"d1", "d2"}
  Text <- MCText
  Request <- MCRequest
  MaxDeletes = 1
  MemoryId <- MCMemoryId
  Fact <- MCFact
  Question <- MCQuestion
  Bucket = {1, 2}
  BucketOf <- MCBucketOf
  SignOf <- MCSignOf
  Likeness <- MCLikeness
  HashSize = 2
  MaxCandidates = 7
  DefaultLimit = 2
  MaxLimit = 3
  MaxCalls = 2
  None = None
  Gone = Gone
INVARIANTS
  LatestIsWhole
  SearchesFind
CHECK_DEADLOCK FALSE
