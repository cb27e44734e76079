CONSTANTS
  NPROC = 3
  PoolPages = 23
  FAN = 2
  KERNEL_START = 5
  KERNEL_PAGES = 2
  UART0 = 7
  USER_BASE = 1
  USER_IMAGE_PAGES = 1
  USER_STACK_TOP = 4
  USER_TOTAL_PAGES = 2
  PGSIZE = 2
  NULL = NULL
  KERNEL = KERNEL
  POOL = POOL
SPECIFICATION Spec
INVARIANTS PoolAccounted Isolation MapsExactly CopyMatchesBytes
PROPERTIES OwnMemoryOnly FailsOnlyWhenShort ImplementsPagePool
CHECK_DEADLOCK FALSE
