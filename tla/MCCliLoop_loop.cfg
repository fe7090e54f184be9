SPECIFICATION Spec
CONSTANTS
  w1 = w1
  w2 = w2
  FileCount = 4
  Jobs = {1, 3, 4}
  BatchSize = 2
  Workers <- TwoWorkers
INVARIANTS
  FilesAccounted
  RetriesAreLive
PROPERTY LoopEnds
CHECK_DEADLOCK FALSE
