SPECIFICATION LiveSpec
CONSTANTS
  t1 = t1
  t2 = t2
  t3 = t3
  Threads = {t1, t2, t3}
  InitialCount = 1
  Plans <- AnyOrOneWaiter
  MaxCalls = 2
PROPERTIES ImplementsAtomic OneWaiterIsServed CallsEnd
CHECK_DEADLOCK FALSE
