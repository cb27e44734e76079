CONSTANTS
  NPROC = 3
  PoolPages = 7
  UserPages = 2
  KernPages = 1
  MaxPid = 5
  MaxTicks = 2
  MaxSleep = 2
  NULL = NULL
  KERNEL = KERNEL
  AnyVal = AnyVal
SPECIFICATION Spec
PROPERTIES ReapedByForker
