CONSTANTS
  MAX_JOBS = 1
  MaxPid = 2
  MaxStages = 1
SPECIFICATION Spec
INVARIANTS ForegroundHasFinished
CHECK_DEADLOCK FALSE
