-------------------------------- MODULE Seat --------------------------------
(***************************************************************************)
(* The seat of the console (src/src/seat.c): the sessions the user can     *)
(* switch between, the video devices and displays they are shown on, the   *)
(* VT that says whether the console may use them, and screen blanking.     *)
(*                                                                         *)
(* The process has one thread.  The event loop runs one callback at a time *)
(* and a callback runs to completion, calling from one layer into the next *)
(* (VT -> seat -> video -> seat -> terminal).  An action is one callback   *)
(* with everything it calls; interleaving is the order of the callbacks.   *)
(***************************************************************************)
EXTENDS Integers, Sequences, FiniteSets, SequencesExt

CONSTANTS
  Session,       \* session objects (struct kmscon_session with its terminal)
  NoSession,     \* a NULL session pointer
  Video,         \* video device objects (struct video)
  Display,       \* display objects (struct display)
  VideoOf,       \* the device each display belongs to
  VtKind,        \* the VT backend: "real", "libseat" or "fake"
  SessionControl,\* conf->session_control, forced off on a numbered VT
  SessionMax,    \* conf->session_max
  DpmsTimeout,   \* conf->dpms_timeout # 0
  Background,    \* programs use the setBackground and setForeground sequences
  Faults         \* devices may fail to open, to wake up or to set a mode

ASSUME SeatAssumption ==
  /\ NoSession \notin Session
  /\ VideoOf \in [Display -> Video]
  /\ VtKind \in {"real", "libseat", "fake"}
  /\ SessionControl \in BOOLEAN
  /\ SessionMax \in Nat
  /\ DpmsTimeout \in BOOLEAN
  /\ Background \in BOOLEAN
  /\ Faults \in BOOLEAN

VARIABLES
  running,       \* FALSE once kmscon_seat_free has run
  vtActive,      \* uterm_vt.active
  vtDelayed,     \* uterm_vt_real.real_delayed
  inputAwake,    \* input.awake, a count of wake-ups not yet undone
  awake,         \* seat.awake
  foreground,    \* seat.foreground
  sessions,      \* seat.sessions, in list order
  current,       \* seat.current_sess
  sessFg,        \* session.foreground
  termAwake,     \* the sessions whose terminal has awake set
  opened,        \* the sessions whose terminal has a PTY open
  screens,       \* the displays each terminal has a screen on
  listed,        \* the devices in seat.videos
  video,         \* "none", "deferred" (no struct video yet), "asleep", "awake"
  retry,         \* the devices whose vt_timer is armed
  displays,      \* seat.displays
  activated,     \* the displays whose kmscon_display.activated is set
  dpmsOff,       \* the displays switched off by DPMS
  blanked,       \* seat.dpms_blanked
  dpmsArmed      \* dpms_timer is running

vtVars    == <<vtActive, vtDelayed, inputAwake>>
seatVars  == <<awake, foreground>>
sessVars  == <<sessions, current, sessFg>>
videoVars == <<listed, video, retry, displays, activated>>
termVars  == <<termAwake, opened, screens>>
dpmsVars  == <<dpmsOff, blanked, dpmsArmed>>
vars == <<running, vtVars, seatVars, sessVars, videoVars, termVars, dpmsVars>>

VideoState == {"none", "deferred", "asleep", "awake"}

TypeOK ==
  /\ running \in BOOLEAN
  /\ vtActive \in BOOLEAN /\ vtDelayed \in BOOLEAN
  /\ inputAwake \in Nat
  /\ awake \in BOOLEAN /\ foreground \in BOOLEAN
  /\ sessions \in Seq(Session)
  /\ current \in Session \cup {NoSession}
  /\ sessFg \in [Session -> BOOLEAN]
  /\ termAwake \subseteq Session /\ opened \subseteq Session
  /\ screens \in [Session -> SUBSET Display]
  /\ listed \subseteq Video /\ retry \subseteq Video
  /\ video \in [Video -> VideoState]
  /\ displays \subseteq Display /\ activated \subseteq Display
  /\ dpmsOff \subseteq Display
  /\ blanked \in BOOLEAN /\ dpmsArmed \in BOOLEAN

Bit(b) == IF b THEN 1 ELSE 0

-----------------------------------------------------------------------------
(***************************************************************************)
(* What the calls nested in a handler do to the terminals and to blanking. *)
(* A handler threads the record "p" through the calls it makes, in their   *)
(* order, and stores the result with Present.                              *)
(***************************************************************************)
Now == [term |-> termAwake, scr |-> screens, off |-> dpmsOff,
        blank |-> blanked, armed |-> dpmsArmed]

\* terminal_activate returns early while the terminal has no screen.
TermActivate(p, t) ==
  IF t \in Session /\ p.scr[t] # {}
  THEN [p EXCEPT !.term = @ \cup {t}]
  ELSE p

\* Mutation: the terminal stays awake.
TermDeactivateForgotten(p, t) == p

TermDeactivate(p, t) == [p EXCEPT !.term = @ \ {t}]

\* display_set_dpms works only on a display whose device is awake.
Reachable(D, vid) == {d \in D : vid[VideoOf[d]] = "awake"}

\* Mutation: a blanked screen is left alone.
DpmsResetTimerOnly(p, act, vid) ==
  IF DpmsTimeout THEN [p EXCEPT !.armed = TRUE] ELSE p

\* seat_dpms_reset_timer; "act" is the set of activated displays.
DpmsReset(p, act, vid) ==
  IF ~DpmsTimeout THEN p
  ELSE IF p.blank
       THEN [TermActivate(p, current) EXCEPT !.off = @ \ Reachable(act, vid),
                                             !.blank = FALSE, !.armed = TRUE]
       ELSE [p EXCEPT !.armed = TRUE]

\* Mutation: only the current session gets a screen on a new display.
ActivateDisplaysCurrent(p, A, act, vid, live) ==
  IF A = {} THEN p
  ELSE [p EXCEPT !.off = @ \ A,
                 !.scr = [s \in Session |-> IF s = current THEN @[s] \cup A ELSE @[s]]]

\* activate_display for every display of A: the terminals of the sessions in
\* "live" get a screen on it.  The first of them resets the DPMS
\* timer: "act" are the displays activated by then, "vid" the devices awake by
\* then.  seat.current_sess is still the old session when seat_switch gets here.
ActivateDisplays(p, A, act, vid, live) ==
  IF A = {} THEN p
  ELSE LET on  == [p EXCEPT !.off = @ \ A]
           rst == DpmsReset(on, act, vid)
           add == [rst EXCEPT !.scr = [s \in Session |->
                       IF s \in live THEN @[s] \cup A ELSE @[s]]]
       IN  TermActivate(add, current)

\* _seat_remove_display for every display of R: the terminals are told only
\* about displays that were activated.
RemoveDisplays(p, R, act) ==
  [p EXCEPT !.off = @ \ R,
            !.scr = [s \in Session |-> @[s] \ (R \cap act)]]

\* Store p; a terminal that is gone has no screens and is not awake.
Present(p, live) ==
  /\ termAwake' = p.term \cap live
  /\ opened' = (opened \cup p.term) \cap live
  /\ screens' = [s \in Session |-> IF s \in live THEN p.scr[s] ELSE {}]
  /\ dpmsOff' = p.off
  /\ blanked' = p.blank
  /\ dpmsArmed' = p.armed

\* A display object that nothing refers to any more, so a new one may be it.
Fresh == {d \in Display : d \notin displays /\ \A s \in Session : d \notin screens[s]}

On(V) == {d \in Display : VideoOf[d] \in V}

-----------------------------------------------------------------------------
(***************************************************************************)
(* seat_go_foreground on an awake seat that is in the background: open the *)
(* deferred devices, wake up the others, then activate the displays, and   *)
(* the terminal of "then".  "good" are the devices that wake up, "gone"    *)
(* and "new" the displays unplugged and plugged since the device was last  *)
(* looked at, "leak" the devices that opened but did not wake up: the seat *)
(* drops them from its list and keeps no pointer to the struct video.      *)
(* A new display is activated while its device wakes up, and the first one *)
(* resets the DPMS timer when only the devices of "early" are awake.       *)
(***************************************************************************)
Sleeping == {v \in listed : video[v] # "awake"}
Deferred == {v \in listed : video[v] = "deferred"}

Early(good, new) ==
  IF new = {} THEN {good}
  ELSE {E \in SUBSET good :
          /\ Cardinality({v \in E : On({v}) \cap new # {}}) = 1
          /\ E \subseteq Deferred \/ Deferred \cap good \subseteq E}

\* What becomes of the devices and of the displays.
WakeVideos(good, leak, gone, new) ==
  /\ listed' = listed \ (Deferred \ good)
  /\ video' = [v \in Video |->
       IF v \in good THEN "awake"
       ELSE IF v \in leak THEN "asleep"
       ELSE IF v \in Deferred THEN "none" ELSE video[v]]
  /\ retry' = retry \cup leak \cup ((Sleeping \ Deferred) \ good)
  /\ displays' = (displays \ gone) \cup new

\* The displays that are activated then.
Lit == {d \in displays' : d \notin activated /\ video'[VideoOf[d]] = "awake"}

GoForegroundWith(p, then, live, key, gone, early) ==
  LET vidThen == [v \in Video |-> IF v \in Sleeping \ early THEN "asleep" ELSE video'[v]]
      shown == ActivateDisplays(RemoveDisplays(p, gone, activated),
                                Lit, activated \ gone, vidThen, live)
      done == TermActivate(shown, then)
  IN  /\ activated' = (activated \ gone) \cup Lit
      /\ Present(IF key THEN DpmsReset(done, activated', video') ELSE done, live)

GoForeground(p, then, live, key) ==
  /\ foreground' = TRUE
  /\ \E good \in SUBSET Sleeping, leak \in SUBSET Deferred,
        gone \in SUBSET (displays \cap On(Sleeping)),
        new \in SUBSET (Fresh \cap On(Sleeping)) :
       /\ ~Faults => good = Sleeping
       /\ good \cap leak = {}
       /\ new \subseteq On(good)
       /\ WakeVideos(good, leak, gone, new)
       /\ \E early \in Early(good, new) :
            GoForegroundWith(p, then, live, key, gone, early)

\* Mutation: the devices stay awake.
GoBackgroundAwake == foreground' = FALSE /\ UNCHANGED videoVars

\* seat_go_background on an awake seat in the foreground: video_sleep on every
\* listed device; a device that is not awake returns early, its timer running.
GoBackground ==
  /\ foreground' = FALSE
  /\ video' = [v \in Video |->
       IF v \in listed /\ video[v] = "awake" THEN "asleep" ELSE video[v]]
  /\ retry' = retry \ {v \in listed : video[v] = "awake"}
  /\ UNCHANGED <<listed, displays, activated>>

\* seat_switch to "new"; the seat is awake whenever a handler calls it.
SeatSwitch(p, new, live) ==
  LET q == IF current \in Session THEN TermDeactivate(p, current) ELSE p
  IN
  /\ current' = new
  /\ \/ /\ sessFg'[new] /\ ~foreground
        /\ GoForeground(q, new, live, FALSE)
     \/ /\ ~sessFg'[new] /\ foreground
        /\ GoBackground
        /\ Present(TermActivate(q, new), live)
     \/ /\ sessFg'[new] <=> foreground
        /\ UNCHANGED <<foreground, videoVars>>
        /\ Present(TermActivate(q, new), live)

-----------------------------------------------------------------------------
(***************************************************************************)
(* The VT.  vt_cb_activate and vt_cb_deactivate (vt.c) call the seat only  *)
(* when uterm_vt.active changes; seat_vt_activate wakes the seat and takes *)
(* it to the foreground, seat_vt_deactivate undoes both.  The wake-up      *)
(* callback of main.c refuses only once the event loop has ended.          *)
(***************************************************************************)
SeatVtActivate(key) ==
  /\ vtActive' = TRUE
  /\ awake' = TRUE
  /\ IF foreground
     THEN /\ UNCHANGED <<foreground, videoVars>>
          /\ Present(TermActivate(Now, current), ToSet(sessions))
     ELSE GoForeground(Now, current, ToSet(sessions), key)

SeatVtDeactivate ==
  /\ vtActive' = FALSE
  /\ awake' = FALSE
  /\ \/ foreground /\ GoBackground
     \/ ~foreground /\ UNCHANGED <<foreground, videoVars>>

\* Mutation: the input devices are woken up again after a delayed start.
VtEnterTwice ==
  /\ running /\ ~vtActive /\ VtKind # "fake"
  /\ SeatVtActivate(FALSE)
  /\ vtDelayed' = FALSE
  /\ inputAwake' = inputAwake + Bit(~awake) + Bit(VtKind = "real")
  /\ UNCHANGED <<running, sessVars>>

\* real_sig_enter and real_delayed; vt_libseat_enable.  The real backend takes
\* its own wake-up of the input devices, except when it took one at start-up
\* (real_delayed).
VtEnter ==
  /\ running /\ ~vtActive /\ VtKind # "fake"
  /\ SeatVtActivate(FALSE)
  /\ vtDelayed' = FALSE
  /\ inputAwake' = inputAwake + Bit(~awake) + Bit(VtKind = "real" /\ ~vtDelayed)
  /\ UNCHANGED <<running, sessVars>>

\* fake_input on its hotkey; seat_input_event then gets the same key and
\* resets the DPMS timer.
VtEnterKey ==
  /\ running /\ ~vtActive /\ VtKind = "fake"
  /\ inputAwake > 0
  /\ SeatVtActivate(TRUE)
  /\ inputAwake' = inputAwake + Bit(~awake)
  /\ UNCHANGED <<running, vtDelayed, sessVars>>

\* real_sig_leave, vt_libseat_disable.
VtLeave ==
  /\ running /\ vtActive /\ VtKind # "fake"
  /\ SeatVtDeactivate
  /\ Present(TermDeactivate(Now, current), ToSet(sessions))
  /\ inputAwake' = inputAwake - Bit(awake) - Bit(VtKind = "real")
  /\ UNCHANGED <<running, vtDelayed, sessVars>>

\* real_sig_leave before the idle callback of a start on the active VT ran.
VtLeaveDelayed ==
  /\ running /\ vtDelayed /\ ~vtActive
  /\ vtDelayed' = FALSE
  /\ inputAwake' = inputAwake - 1
  /\ UNCHANGED <<running, vtActive, seatVars, sessVars, videoVars, termVars, dpmsVars>>

\* The switch hotkey of vt_libseat_input and fake_input: the backend's key
\* callback was registered first, so the seat is already asleep when
\* seat_input_event gets the same key and resets the DPMS timer.
VtSwitchKey ==
  /\ running /\ vtActive /\ VtKind \in {"libseat", "fake"}
  /\ inputAwake > 0
  /\ SeatVtDeactivate
  /\ Present(DpmsReset(TermDeactivate(Now, current), activated, video'), ToSet(sessions))
  /\ inputAwake' = inputAwake - Bit(awake)
  /\ UNCHANGED <<running, vtDelayed, sessVars>>

-----------------------------------------------------------------------------
(***************************************************************************)
(* Input: every key event resets the DPMS timer before anything else; the  *)
(* session grabs work only on an awake seat.                               *)
(***************************************************************************)
Touched == DpmsReset(Now, activated, video)

Grab == running /\ inputAwake > 0 /\ awake /\ SessionControl

\* Any other key, and the pointer events of seat_pointer_event.
KeyPress ==
  /\ running /\ inputAwake > 0
  /\ Present(Touched, ToSet(sessions))
  /\ UNCHANGED <<running, vtVars, seatVars, sessVars, videoVars>>

Pos(s) == CHOOSE i \in 1..Len(sessions) : sessions[i] = s
NextOf(s) == sessions[IF Pos(s) = Len(sessions) THEN 1 ELSE Pos(s) + 1]
PrevOf(s) == sessions[IF Pos(s) = 1 THEN Len(sessions) ELSE Pos(s) - 1]

\* grab_session_next and grab_session_prev.
KeySwitch(new) ==
  /\ Grab /\ Len(sessions) >= 2
  /\ UNCHANGED sessFg
  /\ SeatSwitch(Touched, new, ToSet(sessions))
  /\ UNCHANGED <<running, vtVars, awake, sessions>>

KeyNext == Grab /\ Len(sessions) >= 2 /\ KeySwitch(NextOf(current))
KeyPrev == Grab /\ Len(sessions) >= 2 /\ KeySwitch(PrevOf(current))

\* grab_session_close: switch to the next session, then destroy this one.
KeyClose ==
  /\ Grab /\ Len(sessions) >= 2
  /\ sessions' = RemoveAt(sessions, Pos(current))
  /\ UNCHANGED sessFg
  /\ SeatSwitch(TermDeactivate(Touched, current), NextOf(current), ToSet(sessions'))
  /\ UNCHANGED <<running, vtVars, awake>>

\* The displays kmscon_seat_new_session gives a new terminal a screen on: also
\* those that are not activated.
NewScreens == displays

\* grab_terminal_new: a session next to the current one, and switch to it.
KeyNew(s) ==
  /\ Grab /\ s \notin ToSet(sessions)
  /\ SessionMax = 0 \/ Len(sessions) < SessionMax
  /\ sessions' = InsertAt(sessions, Pos(current) + 1, s)
  /\ sessFg' = [sessFg EXCEPT ![s] = TRUE]
  /\ SeatSwitch([Touched EXCEPT !.scr[s] = NewScreens], s, ToSet(sessions'))
  /\ UNCHANGED <<running, vtVars, awake>>

\* kmscon_session_set_background, on OSC setBackground from the session's own
\* terminal.
SetBackground(s) ==
  /\ Background /\ running /\ s \in opened /\ sessFg[s]
  /\ sessFg' = [sessFg EXCEPT ![s] = FALSE]
  /\ \/ current = s /\ foreground /\ GoBackground
     \/ ~(current = s /\ foreground) /\ UNCHANGED <<foreground, videoVars>>
  /\ UNCHANGED <<running, vtVars, awake, sessions, current, termVars, dpmsVars>>

\* kmscon_session_set_foreground: on a sleeping seat the current session gets
\* -EBUSY from seat_go_foreground and stays in the background.
SetForeground(s) ==
  /\ Background /\ running /\ s \in opened /\ ~sessFg[s]
  /\ \/ /\ current = s /\ ~foreground /\ awake
        /\ sessFg' = [sessFg EXCEPT ![s] = TRUE]
        /\ GoForeground(Now, NoSession, ToSet(sessions), FALSE)
     \/ /\ current = s /\ ~foreground /\ ~awake
        /\ UNCHANGED <<sessFg, foreground, videoVars, termVars, dpmsVars>>
     \/ /\ current # s \/ foreground
        /\ sessFg' = [sessFg EXCEPT ![s] = TRUE]
        /\ UNCHANGED <<foreground, videoVars, termVars, dpmsVars>>
  /\ UNCHANGED <<running, vtVars, awake, sessions, current>>

\* seat_dpms_timeout.  The timer is one-shot.
DpmsExpire ==
  /\ running /\ dpmsArmed
  /\ \/ /\ awake
        /\ Present([TermDeactivate(Now, current) EXCEPT
                      !.off = @ \cup Reachable(activated, video),
                      !.blank = TRUE, !.armed = FALSE], ToSet(sessions))
     \/ /\ ~awake
        /\ dpmsArmed' = FALSE
        /\ UNCHANGED <<termVars, dpmsOff, blanked>>
  /\ UNCHANGED <<running, vtVars, seatVars, sessVars, videoVars>>

-----------------------------------------------------------------------------
(***************************************************************************)
(* Devices.                                                                *)
(***************************************************************************)

\* The device v looks at its connectors: "gone" are unbound, and if a mode
\* could be set the new ones are announced with seat_new_display, which
\* activates them if the seat is shown.
RescanAnd(v, ok, shown) ==
  \E gone \in SUBSET (displays \cap On({v})), new \in SUBSET (Fresh \cap On({v})) :
    LET A == IF shown THEN new ELSE {}
    IN  /\ ~ok => new = {}
        /\ displays' = (displays \ gone) \cup new
        /\ activated' = (activated \ gone) \cup A
        /\ Present(ActivateDisplays(RemoveDisplays(Now, gone, activated), A,
                                    activated \ gone, video', ToSet(sessions)),
                   ToSet(sessions))

\* Mutation: seat_new_display forgets activate_display.
RescanInactive(v, ok) == RescanAnd(v, ok, FALSE)

Rescan(v, ok) == RescanAnd(v, ok, awake /\ foreground)

DeviceOnly == UNCHANGED <<running, vtVars, seatVars, sessVars>>

\* kmscon_seat_add_video on a sleeping seat: the device is opened later.
AddVideoAsleep(v) ==
  /\ running /\ ~awake /\ video[v] = "none"
  /\ listed' = listed \cup {v}
  /\ video' = [video EXCEPT ![v] = "deferred"]
  /\ UNCHANGED <<retry, displays, activated, termVars, dpmsVars>> /\ DeviceOnly

\* ... on an awake seat, in the foreground or not: it is opened and woken up.
AddVideoAwake(v) ==
  /\ running /\ awake /\ video[v] = "none"
  /\ listed' = listed \cup {v}
  /\ video' = [video EXCEPT ![v] = "awake"]
  /\ Rescan(v, TRUE)
  /\ UNCHANGED retry /\ DeviceOnly

\* ... and does not wake up: kmscon_video is freed, the struct video is not,
\* and its timer tries again.
AddVideoFails(v) ==
  /\ Faults /\ running /\ awake /\ video[v] = "none"
  /\ video' = [video EXCEPT ![v] = "asleep"]
  /\ retry' = retry \cup {v}
  /\ UNCHANGED <<listed, displays, activated, termVars, dpmsVars>> /\ DeviceOnly

\* kmscon_seat_remove_video.
RemoveVideo(v) ==
  /\ running /\ v \in listed
  /\ listed' = listed \ {v}
  /\ video' = [video EXCEPT ![v] = "none"]
  /\ retry' = retry \ {v}
  /\ displays' = displays \ On({v})
  /\ activated' = activated \ On({v})
  /\ Present(RemoveDisplays(Now, displays \cap On({v}), activated), ToSet(sessions))
  /\ DeviceOnly

\* kmscon_seat_poll_video on a hotplug event; if no mode can be set the
\* device's timer is armed.
Hotplug(v, ok) ==
  /\ running /\ v \in listed /\ video[v] = "awake"
  /\ Faults \/ ok
  /\ UNCHANGED <<listed, video>>
  /\ retry' = IF ok THEN retry ELSE retry \cup {v}
  /\ Rescan(v, ok)
  /\ DeviceOnly

\* vt_timeout (drm_shared.c) wakes the device up again, whatever the seat
\* thinks.  A failure after drmSetMaster leaves VIDEO_AWAKE set.
RetryTimer(v, ok) ==
  /\ running /\ v \in retry
  /\ Faults \/ ok
  /\ video' = [video EXCEPT ![v] = "awake"]
  /\ retry' = IF ok THEN retry \ {v} ELSE retry
  /\ Rescan(v, ok)
  /\ UNCHANGED listed /\ DeviceOnly

-----------------------------------------------------------------------------
\* The calls of input_sleep in real_close and fake_destroy.
VtDestroySleeps ==
  Bit(VtKind = "real" /\ (vtDelayed \/ vtActive)) + Bit(VtKind = "fake")

(***************************************************************************)
(* kmscon_seat_free: leave the foreground, put the seat to sleep, destroy  *)
(* the sessions, the devices and then the VT.  The VT backend gives up the *)
(* input wake-up it holds; its callback finds the seat asleep already.     *)
(***************************************************************************)
SeatFree ==
  /\ running
  /\ running' = FALSE
  /\ current' = NoSession /\ sessions' = <<>>
  /\ foreground' = FALSE /\ awake' = FALSE
  /\ inputAwake' = inputAwake - Bit(awake) - VtDestroySleeps
  /\ vtActive' = (vtActive /\ VtKind = "libseat")
  /\ vtDelayed' = FALSE
  /\ video' = [v \in Video |-> IF v \in listed THEN "none" ELSE video[v]]
  /\ retry' = retry \ listed
  /\ listed' = {}
  /\ displays' = displays \ On(listed)
  /\ activated' = activated \ On(listed)
  /\ Present(RemoveDisplays(Now, displays \cap On(listed), activated), {})
  /\ UNCHANGED sessFg

-----------------------------------------------------------------------------
\* kmscon_seat_new and kmscon_seat_startup, up to the first device.  A real VT
\* that is already the active one takes an input wake-up and an idle callback
\* (real_open); the fake VT holds a wake-up all its life and is activated by
\* kmscon_seat_startup.
Init ==
  /\ running = TRUE
  /\ vtActive = (VtKind = "fake")
  /\ vtDelayed \in IF VtKind = "real" THEN BOOLEAN ELSE {FALSE}
  /\ inputAwake = Bit(vtDelayed) + 2 * Bit(VtKind = "fake")
  /\ awake = vtActive /\ foreground = vtActive
  /\ \E s \in Session : current = s /\ sessions = <<s>>
  /\ sessFg = [s \in Session |-> TRUE]
  /\ termAwake = {} /\ opened = {}
  /\ screens = [s \in Session |-> {}]
  /\ listed = {} /\ retry = {}
  /\ video = [v \in Video |-> "none"]
  /\ displays = {} /\ activated = {}
  /\ dpmsOff = {} /\ blanked = FALSE
  /\ dpmsArmed = DpmsTimeout

Next ==
  \/ VtEnter \/ VtEnterKey \/ VtLeave \/ VtLeaveDelayed \/ VtSwitchKey
  \/ KeyPress \/ KeyNext \/ KeyPrev \/ KeyClose
  \/ \E s \in Session : KeyNew(s) \/ SetBackground(s) \/ SetForeground(s)
  \/ DpmsExpire
  \/ \E v \in Video : \/ AddVideoAsleep(v) \/ AddVideoAwake(v) \/ AddVideoFails(v)
                      \/ RemoveVideo(v)
  \/ \E v \in Video, ok \in BOOLEAN : Hotplug(v, ok) \/ RetryTimer(v, ok)
  \/ SeatFree

Spec == Init /\ [][Next]_vars

\* The DPMS timer is a timerfd of the event loop: once armed it expires.
FairSpec == Spec /\ WF_vars(DpmsExpire)

-----------------------------------------------------------------------------
(***************************************************************************)
(* What makes the seat correct.                                            *)
(***************************************************************************)

\* The seat shows something only while it is awake.  seat_go_background would
\* otherwise return -EBUSY to vt_cb_deactivate, which has already cleared
\* uterm_vt.active: the kernel would be refused the VT, and every later
\* request would find the VT inactive and grant it with the devices still on.
ForegroundAwake == foreground => awake

\* The seat is awake exactly while its VT is active, whichever of the VT
\* signals, libseat events and hotkeys brought it there.
VtAgrees == running => (awake <=> vtActive)

\* The input devices are a counter that the VT backend and the seat both
\* count up and down in input_wake_up and input_sleep: no sequence of entering
\* and leaving leaves the keyboard grabbed or an awake console deaf, and a
\* freed seat holds none.
InputBalance ==
  inputAwake = Bit(awake) + Bit(VtKind = "real" /\ (vtActive \/ vtDelayed))
                          + Bit(VtKind = "fake" /\ running)

\* seat.current_sess points at a session of the list, and a session is in the
\* list once: kmscon_session_unregister and seat_next never leave the pointer
\* at a session that was freed.
CurrentLive ==
  /\ running => current \in ToSet(sessions)
  /\ IsInjective(sessions)

\* Every session can draw on every display the seat has activated, whether the
\* session or the display came first: switching sessions leaves no display with
\* the picture of the old one.
SessionScreens == \A s \in ToSet(sessions) : activated \subseteq screens[s]

\* With devices that work, every display the seat knows of is activated while
\* the seat is in the foreground, also one that was plugged in meanwhile.
EveryDisplayShown == foreground => displays \subseteq activated

\* A device holds DRM master while it is awake and has a display
\* (drm_video_hotplug drops it when the last display is gone).
HoldsMaster(v) == video[v] = "awake" /\ displays \cap On({v}) # {}

\* A seat in the background has given up DRM master on every device, so that
\* the program that takes over the screen can have it.
MasterReleased == running /\ ~foreground => \A v \in Video : ~HoldsMaster(v)

\* At most one terminal draws and takes keys, that of the current session.
OneAwake == running => termAwake \subseteq {current}

\* After a key or a pointer event every display that is shown is on.
InputUnblanks ==
  [][KeyPress /\ awake /\ foreground => dpmsOff' \cap activated' = {}]_vars

\* A console that is left alone blanks its screen: the seat does not stay awake
\* for ever, with a display that is on.
IdleBlanks ==
  (awake /\ activated # {}) ~> (blanked \/ ~awake \/ activated = {})
=============================================================================
