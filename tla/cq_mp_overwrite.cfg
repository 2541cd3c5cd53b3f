SPECIFICATION Spec
CONSTANTS
  p1 = p1
  p2 = p2
  p3 = p3
  c1 = c1
  c2 = c2
  Producers = {p1, p2}
  Consumers = {c1}
  N = 2
  CounterMod = 8
  MultiProducer = TRUE
  MultiConsumer = FALSE
  TornCounters = FALSE
  CopyThrows = FALSE
  Calls <- BlockingCalls
  MaxCalls = 2
  NoThread = NoThread
  Raw = Raw
INVARIANTS NoOverwrite
CHECK_DEADLOCK FALSE
