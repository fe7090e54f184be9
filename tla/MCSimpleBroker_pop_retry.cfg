SPECIFICATION Spec
CONSTANTS
  p1 = p1
  p2 = p2
  k1 = k1
  k2 = k2
  Pushes <- TwoPushes
  Pops <- TwoPops
  Attempts <- PopRetries
  MaxSize = 2
  Timed <- TwoPops
INVARIANTS DeliveredOnce LostOnlyWithItsConnection
PROPERTY AbstractSpec
CHECK_DEADLOCK FALSE
