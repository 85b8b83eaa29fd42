\* Two threads that release the lock around musaMalloc, and one stream: both pools,
\* splitting, oversize blocks, garbage collection and the memory fraction.  A unit
\* is half a MiB.
CONSTANTS
  Threads = {t1, t2}
  Streams = {s1}
  NumUnits = 12
  DriverAlign = 4
  Requests = {2, 3, 5, 9}
  kSmallSize = 2
  kSmallBuffer = 4
  kMinLargeAlloc = 4
  kLargeBuffer = 4
  kRoundLarge = 4
  MaxSplitSize = 6
  MaxNonSplitRounding = 4
  AllowedMax = 12
  GcThreshold = 8
  ReleaseLock = TRUE
  MaxDepth = 0
  NULL = NULL
SPECIFICATION Spec
SYMMETRY Symmetry
INVARIANTS
  ReleasesWholeSegments SegmentsTiled StatsMatch IInv
PROPERTY AllocationStable
