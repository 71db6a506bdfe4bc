------------------------------- MODULE MCPty -------------------------------
(* Small instances of Pty for TLC.                                         *)
EXTENDS Pty, TLC

CONSTANTS s1, s2, p1, p2, p3, p4, p5

\* Process ids are interchangeable.
Symmetry == Permutations(Pid)
=============================================================================
