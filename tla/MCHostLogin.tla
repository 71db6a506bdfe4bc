---------------------------- MODULE MCHostLogin ----------------------------
(* Small instances of HostLogin for TLC.                                   *)
EXTENDS HostLogin, TLC

CONSTANTS t1, t2, j1, j2, j3
=============================================================================
