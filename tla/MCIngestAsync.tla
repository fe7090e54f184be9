------------------------- MODULE MCIngestAsync -------------------------
(* Small instances of IngestAsync for TLC. *)
EXTENDS IngestAsync

CONSTANTS w1, w2

OneWorker  == {w1}
TwoWorkers == {w1, w2}
=============================================================================
