---------------------------- MODULE MCCliLoop ----------------------------
(* Small instances of CliLoop for TLC. *)
EXTENDS CliLoop

CONSTANTS w1, w2

TwoWorkers == {w1, w2}
=============================================================================
