SPECIFICATION RunSpec
CONSTANTS
  Threads = {t1, t2, t3}
  NoThread = NoThread
  MaxCalls = 2
  MaxTime = 2
INVARIANTS MutualExclusion
PROPERTIES ImplementsMutex LockIsTaken TimedTryReturns
CHECK_DEADLOCK FALSE
