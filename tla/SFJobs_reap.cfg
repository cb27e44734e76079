CONSTANTS
  MAX_JOBS = 1
  MaxPid = 2
  MaxStages = 1
SPECIFICATION FairSpec
PROPERTIES ChildrenAreReaped
CHECK_DEADLOCK FALSE
