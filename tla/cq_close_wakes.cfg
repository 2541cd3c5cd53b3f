SPECIFICATION LiveSpec
CONSTANTS
  p1 = p1
  p2 = p2
  p3 = p3
  c1 = c1
  c2 = c2
  Producers = {p1}
  Consumers = {c1}
  N = 2
  CounterMod = 8
  MultiProducer = FALSE
  MultiConsumer = FALSE
  TornCounters = FALSE
  CopyThrows = FALSE
  Calls <- BlockingCallsAndClose
  MaxCalls = 2
  NoThread = NoThread
  Raw = Raw
PROPERTIES CloseWakesReaders
CHECK_DEADLOCK FALSE
