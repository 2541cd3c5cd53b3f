SPECIFICATION Spec
CONSTANTS
  t1 = t1
  t2 = t2
  t3 = t3
  t4 = t4
  Threads = {t1, t2, t3, t4}
  InitialCount = 1
  Calls <- AnyCall
  MaxCalls = 2
SYMMETRY Symmetry
INVARIANTS WaitersAreWaiting
PROPERTIES ImplementsSemaphore
CHECK_DEADLOCK FALSE
