SPECIFICATION Spec
SYMMETRY Symmetry
CONSTANTS
  Threads = {t1, t2}
  MemPools = {m1}
  Handles = {h1}
  Graphs = {g1, g2}
  Default = Default
  Segments = {x1, x2}
  Scenarios <- MCScenarios
  MaxNest = 1
  MaxUse = 3
  NULL = NULL
INVARIANTS
  PoolsExist
  UseCountSuffices
  GraphMemoryKept
  Routing
  Bookkeeping
CHECK_DEADLOCK FALSE
