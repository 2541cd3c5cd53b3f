SPECIFICATION Spec
CONSTANTS
  p1 = p1
  p2 = p2
  p3 = p3
  c1 = c1
  c2 = c2
  Producers = {p1}
  Consumers = {c1}
  N = 3
  CounterMod = 8
  MultiProducer = FALSE
  MultiConsumer = FALSE
  TornCounters = FALSE
  CopyThrows = FALSE
  Calls <- AllCalls
  MaxCalls = 6
  NoThread = NoThread
  Raw = Raw
INVARIANTS QueueIsCoherent NoOverwrite TakesItsItem NoMutualSleep DestroysAllOrNone
PROPERTIES ClosedLeavesFew ImplementsFifo
CHECK_DEADLOCK FALSE
