\* Two streams and both pools, or three streams and a block of the default pool.
CONSTANTS
  s2 = s2
  Streams = {s1, s2, s3}
  Home = s1
  DefaultBlocks = {d1}
  PrivateBlocks = {p1}
  Scenarios <- MCScenarios
  MaxDepth = 2
  MaxNodes = 5
  MaxLife = 2
SPECIFICATION Spec
INVARIANTS ReuseOrdered Bookkeeping DeferredWorkAwaited
PROPERTY NoEventInCapture
