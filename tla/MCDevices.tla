----------------------------- MODULE MCDevices -----------------------------
(* A keyboard and a mouse that come and go, and memory for one device more. *)
EXTENDS Devices, TLC

CONSTANTS k1, m1, d1, d2, d3

Symmetry == Permutations(Dev)
=============================================================================
