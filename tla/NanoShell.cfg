CONSTANTS
  NPROC = 3
  PoolPages = 7
  UserPages = 2
  KernPages = 1
  MaxPid = 6
  MaxTicks = 4
  MaxSleep = 2
  Rounds = 3
  NULL = NULL
  KERNEL = KERNEL
  AnyVal = AnyVal
SPECIFICATION FairShellSpec
INVARIANTS WaitReturnsKid PromptIsClean
PROPERTIES CommandsFinish CollectedByForker
