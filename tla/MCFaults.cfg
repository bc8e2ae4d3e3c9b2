CONSTANTS
  L1_TABLE_SIZE = 1024
  L2_STACK_TABLE_SIZE = 4
  USER_STACK_COUNT = 32
  KERNEL_STACK_COUNT = 6
  ADDRESS_SPACE_COUNT = 8
  THREADS_PER_ADDRESS_SPACE = 4
  HandleRows <- MCHandleRows
  UserThreads = {t1, t2}
  None = None
  Idle = Idle
  PrefetchStatuses = {5, 7, 13, 15}
  DataStatuses = {1, 5, 7, 13, 15}
SPECIFICATION FaultsSpec
INVARIANTS
  FaultsTypeOK
  UserMemoryConfined WriteProtected SameMemorySeen GuardPagesHold
  ThreadsInOwnMode ReadyForExceptions
PROPERTIES FaultsConfined TimerRuns
CHECK_DEADLOCK FALSE
