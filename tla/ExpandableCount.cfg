\* A graph's pool, with three pages of memory.
CONSTANTS
  s1 = s1
  s2 = s2
  p1 = p1
  Streams = {s1, s2}
  Peers = {p1}
  MaxSegments = 1
  Pages = 4
  PageSize = 2
  Memory = 3
  Requests = {2, 6}
  MaxWork = 0
  Scenarios <- GraphOnly
SPECIFICATION Spec
INVARIANT MallocCountPositive
