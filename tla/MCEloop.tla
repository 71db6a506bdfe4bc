------------------------------ MODULE MCEloop ------------------------------
(* Small instances of Eloop for TLC.                                       *)
EXTENDS Eloop, TLC

CONSTANTS f1, t1, s1, c1, c2, h1, h2, n1, n2
=============================================================================
