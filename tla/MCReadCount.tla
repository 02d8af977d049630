---------------------------- MODULE MCReadCount ----------------------------
(* Small instances of ReadCount for TLC. *)
EXTENDS ReadCount

CONSTANTS q1, q2, r1, f1, f2
=============================================================================
