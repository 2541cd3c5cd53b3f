SPECIFICATION LiveSpec
CONSTANTS
  Threads = {t1, t2, t3}
  NoThread = NoThread
  Nothing = Nothing
  MaxCalls = 2
  NewThrows = TRUE
INVARIANTS OneObject GetReturnsObject
PROPERTIES PublishedIsStable GetReturns
CHECK_DEADLOCK FALSE
