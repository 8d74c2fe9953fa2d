--------------------------- MODULE MCTransaction ---------------------------
(* Instances of Transaction for TLC.                                       *)
EXTENDS Transaction

CONSTANTS v1, v2
=============================================================================
