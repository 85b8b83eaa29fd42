\* One rank: two works in the default mode, one in each other mode.
CONSTANTS
  Works = {w1, w2}
  NoWork = NoWork
  Configs <- MCConfigs
  HookErrors = 1
SPECIFICATION FairSpec
INVARIANTS TensorsKept RetiredHasResult Bookkeeping
PROPERTIES PendingMeansHooked ShutdownReturns ResultDelivered
CHECK_DEADLOCK FALSE
