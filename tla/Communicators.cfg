\* Three ranks, and one program after another.
CONSTANTS
  N = 3
  Configs <- MCConfigs
SPECIFICATION FairSpec
INVARIANTS Consistent CollectivesAgree OffsetsMatch Watched
PROPERTY AllFinish
CHECK_DEADLOCK FALSE
