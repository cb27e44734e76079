CONSTANTS
  MAX_JOBS = 1
  MaxPid = 2
  MaxStages = 2
SPECIFICATION Spec
INVARIANTS DoneMeansWholePipeline
CHECK_DEADLOCK FALSE
