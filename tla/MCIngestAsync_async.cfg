SPECIFICATION Spec
CONSTANTS
  w1 = w1
  w2 = w2
  Jobs = {1, 2, 3}
  Workers <- TwoWorkers
  Upload = TRUE
INVARIANTS
  CompletesOnlyAtEnd
  Collected
PROPERTY CombinedCompletes
CHECK_DEADLOCK FALSE
