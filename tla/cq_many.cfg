SPECIFICATION Spec
CONSTANTS
  p1 = p1
  p2 = p2
  p3 = p3
  c1 = c1
  c2 = c2
  Producers = {p1, p2, p3}
  Consumers = {c1, c2}
  N = 2
  CounterMod = 8
  MultiProducer = TRUE
  MultiConsumer = TRUE
  TornCounters = TRUE
  CopyThrows = TRUE
  Calls <- BlockingAndTryCalls
  MaxCalls = 1
  NoThread = NoThread
  Raw = Raw
VIEW WhatMatters
SYMMETRY ThreadSymmetry
INVARIANTS CountersBalance ClaimsInOrder
CHECK_DEADLOCK FALSE
