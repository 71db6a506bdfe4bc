------------------------------ MODULE MCVtReal ------------------------------
(* Small instances of VtReal for TLC.                                      *)
EXTENDS VtReal, TLC

CONSTANTS c1, c2, c3, t1

\* Consoles are interchangeable.
Symmetry == Permutations(Console)
=============================================================================
