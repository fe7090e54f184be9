SPECIFICATION Spec
CONSTANTS
  w1 = w1
  w2 = w2
  Jobs = {1}
  Workers <- OneWorker
  Upload = FALSE
PROPERTY CompletesAtEnd
CHECK_DEADLOCK FALSE
