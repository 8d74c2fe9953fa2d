--------------------------- MODULE MCMemoryBroker ---------------------------
(* Instances of MemoryBroker for TLC.                                      *)
EXTENDS MemoryBroker

CONSTANTS e1, e2, w1, w2

\* Only the order of the dates counts: the second event is dated before, with or after the
\* first, whichever of the two is published first.
MCReadings == [e \in Events |-> IF e = e1 THEN {1} ELSE {0, 1, 2}]
=============================================================================
