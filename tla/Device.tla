------------------------------- MODULE Device -------------------------------
(***************************************************************************)
(* What a video device promises to the seat (video.h, and the callbacks of *)
(* struct video_cb): it is opened and woken up, put to sleep and looked at *)
(* again when its connectors change; displays are announced and withdrawn; *)
(* and what did not work is tried again by a timer of the device.          *)
(*                                                                         *)
(* DrmVideo implements it, and the devices in Seat behave like it.         *)
(***************************************************************************)
CONSTANT Display   \* the displays the device may announce

VARIABLES
  held,    \* the seat has the device in its list
  state,   \* "none", "asleep" or "awake" (VIDEO_AWAKE)
  retry,   \* the timer that tries again is armed
  shown    \* the displays announced with new_disp and not withdrawn

vars == <<held, state, retry, shown>>

Init == ~held /\ state = "none" /\ ~retry /\ shown = {}

\* After a call that failed nothing new is announced.
Announce(ok) == shown' \in SUBSET Display /\ (ok \/ shown' \subseteq shown)

\* seat_video_init: a device that does not wake up is dropped by the seat, but
\* lives on.
Open(ok) ==
  /\ state = "none"
  /\ held' = ok /\ retry' = ~ok
  /\ state' = IF ok THEN "awake" ELSE "asleep"
  /\ Announce(ok)

WakeUp(ok) ==
  /\ held /\ state = "asleep"
  /\ state' = IF ok THEN "awake" ELSE "asleep"
  /\ retry' = (retry \/ ~ok)
  /\ Announce(ok)
  /\ UNCHANGED held

Sleep ==
  /\ held /\ state = "awake"
  /\ state' = "asleep" /\ retry' = FALSE
  /\ UNCHANGED <<held, shown>>

\* A connector changed.
Poll(ok) ==
  /\ held /\ state = "awake"
  /\ retry' = (retry \/ ~ok)
  /\ Announce(ok)
  /\ UNCHANGED <<held, state>>

Retry(ok) ==
  /\ retry
  /\ state' = "awake" /\ retry' = ~ok
  /\ Announce(ok)
  /\ UNCHANGED held

Close ==
  /\ held
  /\ held' = FALSE /\ state' = "none" /\ retry' = FALSE /\ shown' = {}

Next == \E ok \in BOOLEAN : \/ Open(ok) \/ WakeUp(ok) \/ Poll(ok) \/ Retry(ok)
                            \/ Sleep \/ Close

Spec == Init /\ [][Next]_vars
=============================================================================
