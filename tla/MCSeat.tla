------------------------------- MODULE MCSeat -------------------------------
(* Small instances of Seat for TLC: which device each display belongs to.  *)
EXTENDS Seat

CONSTANTS v1, v2, d1, d2, d3, d4

\* Two displays on one device.
SameDevice == [d \in Display |-> v1]

\* A display on each of two devices.
OwnDevice == [d \in Display |-> IF d = d1 THEN v1 ELSE v2]

\* Sessions and displays of one device are interchangeable.
Symmetry == Permutations(Session) \cup Permutations(Display)

SessionSymmetry == Permutations(Session)
=============================================================================
