--------------------------- MODULE MCSimpleBroker ---------------------------
(* Small instances of SimpleBroker for TLC.                                *)
EXTENDS SimpleBroker

CONSTANTS p1, p2, k1, k2

TwoPushes == {p1, p2}
OnePop   == {k1}
TwoPops  == {k1, k2}
Nobody   == {}

PushRetries == [k \in Calls |-> IF k = p1 THEN 2 ELSE 1]
PopRetries  == [k \in Calls |-> IF k = k1 THEN 2 ELSE 1]
=============================================================================
