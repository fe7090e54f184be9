SPECIFICATION Spec
CONSTANTS
  m1 = m1
  m2 = m2
  m3 = m3
  e1 = e1
  e2 = e2
  w1 = w1
  w2 = w2
  Messages <- TwoMessages
  Engines <- TwoEngines
  Workers <- TwoWorkers
  BufferSize = 1
  Mortal <- OneWorker
  Erring <- OneEngine
  MayStop = FALSE
PROPERTIES
  MessagesLeave
  StageFinishes
CHECK_DEADLOCK FALSE
