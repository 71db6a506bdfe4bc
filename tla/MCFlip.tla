------------------------------- MODULE MCFlip -------------------------------
(* Small instances of Flip for TLC.                                        *)
EXTENDS Flip, TLC

\* Blanking and VT switches with either backend, and both with displays of
\* drm2d that are plugged and unplugged.
MainUses ==
  {u \in BOOLEAN \X BOOLEAN \X {FALSE} \X BOOLEAN : u[1] # u[2]} \cup {<<TRUE, TRUE, TRUE, FALSE>>}
=============================================================================
