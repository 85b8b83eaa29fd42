\* Other threads launch kernels while the capture is under way.
CONSTANTS
  s2 = s2
  Streams = {s1, s2}
  Home = s1
  DefaultBlocks = {d1}
  PrivateBlocks = {}
  Scenarios <- LaunchingScenarios
  MaxDepth = 1
  MaxNodes = 1
  MaxLife = 2
SPECIFICATION Spec
INVARIANT EarlierStreamsAwaited
