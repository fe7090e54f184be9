------------------------------ MODULE MCMPStage ------------------------------
(* Small instances of MPStage for TLC.                                     *)
EXTENDS MPStage, TLC

CONSTANTS m1, m2, m3, e1, e2, w1, w2

TwoMessages   == {m1, m2}
ThreeMessages == {m1, m2, m3}
TwoEngines == {e1, e2}
OneEngine  == {e1}
OneWorker  == {w1}
TwoWorkers == {w1, w2}
None       == {}

\* Messages are alike, and so are the engines.
Symmetry == Permutations(Messages) \cup Permutations(Engines)
=============================================================================
