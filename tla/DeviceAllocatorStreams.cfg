\* Three streams: a block may wait for the events of two other streams.
CONSTANTS
  Threads = {t1}
  Streams = {s1, s2, s3}
  NumUnits = 2
  DriverAlign = 1
  Requests = {1}
  kSmallSize = 1
  kSmallBuffer = 2
  kMinLargeAlloc = 3
  kLargeBuffer = 3
  kRoundLarge = 2
  MaxSplitSize = 100
  MaxNonSplitRounding = 2
  AllowedMax = 100
  GcThreshold = 100
  ReleaseLock = FALSE
  MaxDepth = 1
  NULL = NULL
SPECIFICATION FairSpec
INVARIANTS
  NoForeignWork ReturnedMemoryIdle
PROPERTY LockReleased
