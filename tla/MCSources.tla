----------------------------- MODULE MCSources -----------------------------
(* Small instances of Sources for TLC.                                     *)
EXTENDS Sources, TLC

Decl(kind, user, sound) == [kind |-> kind, user |-> user, stale |-> 1, sound |-> sound]

\* More sources than are kept, so that there is every pair of them; two of one
\* kind, one by a user who is known later, and two that are not used.
Pairs == {Decl("events", "root", TRUE), Decl("events", "admin", TRUE),
          Decl("dataplicity", "agent", TRUE), Decl("system", "root", TRUE),
          Decl("weather", "root", TRUE), Decl("system", "agent", FALSE)}
=============================================================================
