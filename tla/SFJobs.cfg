CONSTANTS
  MAX_JOBS = 2
  MaxPid = 3
  MaxStages = 2
SPECIFICATION FairSpec
INVARIANTS DoneIsReaped ListedJobIsOneGroup StraysNeverRun OneAbandonedAtMost
PROPERTIES ForegroundReturns
CHECK_DEADLOCK FALSE
