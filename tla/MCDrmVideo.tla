----------------------------- MODULE MCDrmVideo -----------------------------
(* Small instances of DrmVideo for TLC.                                    *)
EXTENDS DrmVideo, TLC

CONSTANTS c1, c2, k1, k2

\* Connectors are interchangeable, and so are CRTCs.
Symmetry == Permutations(Connector) \cup Permutations(Crtc)
=============================================================================
