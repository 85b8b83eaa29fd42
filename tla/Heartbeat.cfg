\* Two ranks; a dump may take one tick, and a missing heartbeat is seen after five.
CONSTANTS
  r1 = r1
  r2 = r2
  Ranks = {r1, r2}
  StoreHost = r1
  DumpTimeout = 1
  Heartbeat = 5
  MaxFaults = 1
  NULL = NULL
  Scenarios <- MCScenarios
SPECIFICATION FairSpec
INVARIANTS NoFalseAlarm DumpedBeforeThrow
PROPERTIES HangEnds DestructorReturns
