------------------------------ MODULE MCIopipe ------------------------------
(* Small instances of Iopipe for TLC.                                       *)
EXTENDS Iopipe

CONSTANTS c1, s1, c2, s2

MCPartner(a) == CASE a = c1 -> s1 [] a = s1 -> c1 [] a = c2 -> s2 [] a = s2 -> c2

(* What was read is flushed in one piece.                                   *)
MCWants(a, op) == {1}
=============================================================================
