CONSTANTS
  Loc <- MCLoc
  Located <- MCLocated
  ChunkLen <- MCChunkLen
  FrameSize <- MCFrameSize
  Caller = {"reader", "bulk"}
  Pack = {0, 1}
  MaxBytes = 4
  LruWindow = 1
  PackMax = 10
  DenseFloor = 2
  MaxFaults = 1
  MaxBulk = 1
  Captured <- MCCaptured
  Lists <- MCLists
  FileJobs <- MCFileJobs
  RefRows <- MCRefRows
  RefParts <- MCRefParts
  MaxPrefetchBytes = 6
  MaxPrefetchChunks = 2
  Slack = 1
  Percents = {20}
  SpanSizes = {2, 6}
SPECIFICATION FairSpec
INVARIANTS TypeOK CacheTracked CacheBounded    WindowBounded
PROPERTY JobEnds
