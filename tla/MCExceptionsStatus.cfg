CONSTANTS
  UserThreads = {t1, t2}
  None = None
  Idle = Idle
  PrefetchStatuses = {1, 2, 3, 5, 6, 7, 8, 9, 11, 12, 13, 14, 15, 16, 20, 25, 28, 30}
  DataStatuses = {}
SPECIFICATION Spec
INVARIANT PrefetchAbortsNamed
CHECK_DEADLOCK FALSE
