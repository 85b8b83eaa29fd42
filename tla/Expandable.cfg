\* Two pages of memory, three pages of addresses in a segment.
CONSTANTS
  s1 = s1
  s2 = s2
  p1 = p1
  Streams = {s1, s2}
  Peers = {p1}
  MaxSegments = 2
  Pages = 3
  PageSize = 2
  Memory = 2
  Requests = {1, 3}
  MaxWork = 1
  Scenarios <- MCScenarios
SPECIFICATION Spec
INVARIANTS DriverAgrees WorkMapped LoopInvariant
PROPERTY ReleasedAll
