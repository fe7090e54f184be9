SPECIFICATION StageSpec
CONSTANTS
  m1 = m1
  m2 = m2
  m3 = m3
  e1 = e1
  e2 = e2
  w1 = w1
  w2 = w2
  Messages <- ThreeMessages
  Engines <- TwoEngines
  Workers <- OneWorker
  BufferSize = 1
  Mortal <- OneWorker
  Erring <- None
  MayStop = TRUE
SYMMETRY Symmetry
INVARIANTS
  TypeOK
  LedgerIsUnderWay
  OwnVerdict
PROPERTY AbstractSpec
CHECK_DEADLOCK FALSE
