SPECIFICATION Spec
CONSTANTS
  p1 = p1
  p2 = p2
  k1 = k1
  k2 = k2
  Pushes <- TwoPushes
  Pops <- OnePop
  Attempts <- PushRetries
  MaxSize = 1
  Timed <- Nobody
INVARIANTS ExactlyOnePlace PushAnswerIsTrue
PROPERTIES LeaseEnds CallsWaitOnlyForQueue
CHECK_DEADLOCK FALSE
