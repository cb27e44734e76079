CONSTANTS
  NPROC = 3
  PoolPages = 7
  UserPages = 2
  KernPages = 2
  MaxPid = 4
  MaxTicks = 1
  MaxSleep = 1
  NULL = NULL
  KERNEL = KERNEL
  AnyVal = AnyVal
SPECIFICATION FairSpec
PROPERTIES NoStarvation SleepersWake ImplementsPagePool
