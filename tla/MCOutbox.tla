------------------------------ MODULE MCOutbox ------------------------------
(* Instances of Outbox for TLC.                                            *)
EXTENDS Outbox

CONSTANTS e1, l1, r1, r2

\* Instances on one database whose stores are configured differently.
Mixed == [w \in Workers |-> IF w = r1 THEN "UPDATE" ELSE "ARCHIVE"]
=============================================================================
