-------------------------------- MODULE Flip --------------------------------
(***************************************************************************)
(* Redrawing and page flips: the screens of the terminals (terminal.c), the *)
(* displays of one DRM device (drm_shared.c, drm2d_video.c, drm3d_video.c,  *)
(* video.c) and the kernel that flips them.                                *)
(*                                                                         *)
(* A terminal has a screen on every display.  It hands a frame over with   *)
(* display_swap and then waits for the display's page-flip callback before *)
(* it draws the next one.  The kernel finishes a flip some time later and  *)
(* queues an event on the DRM fd, which the event loop reads; the handlers *)
(* that must not go on with a flip outstanding wait for it and leave the   *)
(* callbacks to an idle source.                                            *)
(*                                                                         *)
(* With drm3d a frame is drawn into any buffer of the display's GBM surface *)
(* that is not locked.  The pointers current and next of a display are its *)
(* locks: what the kernel shows, or shows next, is the buffer of one of    *)
(* them, or was released too early.                                        *)
(*                                                                         *)
(* The seat's part is what it does to a terminal and to the device when    *)
(* the VT or the session is switched or the screen blanked (Seat).         *)
(***************************************************************************)
EXTENDS Naturals, FiniteSets

CONSTANTS
  Terminal,      \* the terminals of the sessions
  Display,       \* connectors, each with its CRTC
  Uses,          \* the ways <<dpms, vt, plugging, gl>> the console is used
  MaxEvents      \* bound on the events queued for one display

ASSUME FlipAssumption ==
  /\ Uses \subseteq BOOLEAN \X BOOLEAN \X BOOLEAN \X BOOLEAN
  /\ MaxEvents \in Nat \ {0}

VARIABLES
  current,       \* the terminal of seat.current_sess
  termAwake,     \* the terminals with awake set
  swapping,      \* the screens <<t, d>> with swapping set
  pending,       \* the screens <<t, d>> with pending set
  stale,         \* the screens whose contents the display was not given yet
  plugged,       \* video.displays
  dpmsOn,        \* the displays whose dpms is DPMS_ON
  vsync,         \* the displays with DISPLAY_VSYNC
  pflip,         \* the displays with DISPLAY_PFLIP
  busy,          \* the CRTCs on which the kernel has a flip to finish
  scan,          \* whose buffer each CRTC shows
  queued,        \* whose buffer it shows when its flip is done
  next,          \* the displays with a buffer in drm3d_display.next
  events,        \* the flip events queued on the DRM fd, per CRTC
  idle,          \* do_pflips is registered
  shown,         \* the device is awake (VIDEO_AWAKE)
  blanked,       \* seat.dpms_blanked
  dpms,          \* the screen is blanked when idle
  vt,            \* the user switches VTs
  plugging,      \* displays are plugged and unplugged
  gl             \* the device is driven by drm3d

\* How the console is used does not change.
useVars    == <<dpms, vt, plugging, gl>>
screenVars == <<swapping, pending, stale>>
drmVars    == <<plugged, dpmsOn, vsync, pflip, idle>>
kernelVars == <<busy, events>>
bufferVars == <<scan, queued, next>>
seatVars   == <<current, termAwake, shown, blanked>>
vars == <<screenVars, drmVars, kernelVars, bufferVars, seatVars, useVars>>

Screen == Terminal \X Display

\* A buffer is the display's current or next one, or anyone's.
Holder == {"current", "next", "free"}

TypeOK ==
  /\ current \in Terminal /\ termAwake \subseteq Terminal
  /\ swapping \subseteq Screen /\ pending \subseteq Screen /\ stale \subseteq Screen
  /\ plugged \subseteq Display /\ dpmsOn \subseteq plugged
  /\ vsync \subseteq plugged /\ pflip \subseteq vsync
  /\ busy \subseteq Display
  /\ events \in [Display -> 0..MaxEvents]
  /\ idle \in BOOLEAN /\ shown \in BOOLEAN /\ blanked \in BOOLEAN
  /\ scan \in [Display -> Holder] /\ queued \in [Display -> Holder] /\ next \subseteq Display
  /\ gl \in BOOLEAN /\ dpms \in BOOLEAN /\ vt \in BOOLEAN /\ plugging \in BOOLEAN

-----------------------------------------------------------------------------
(***************************************************************************)
(* A handler threads the record "r" through the calls it makes and stores  *)
(* it with Store.                                                          *)
(***************************************************************************)
Now == [awake |-> termAwake, swapping |-> swapping, pending |-> pending,
        stale |-> stale, plugged |-> plugged, on |-> dpmsOn, vsync |-> vsync,
        pflip |-> pflip, busy |-> busy, events |-> events, idle |-> idle,
        scan |-> scan, queued |-> queued, next |-> next]

Store(new) == \E r \in {new} :
  /\ termAwake' = r.awake
  /\ swapping' = r.swapping /\ pending' = r.pending /\ stale' = r.stale
  /\ plugged' = r.plugged /\ dpmsOn' = r.on
  /\ vsync' = r.vsync /\ pflip' = r.pflip /\ idle' = r.idle
  /\ busy' = r.busy /\ events' = r.events
  /\ scan' = r.scan /\ queued' = r.queued /\ next' = r.next
  /\ UNCHANGED useVars

-----------------------------------------------------------------------------
(***************************************************************************)
(* The buffers of the displays with drm3d.                                 *)
(***************************************************************************)
\* The holders of the buffers of the displays D, renamed by "new".
Rename(holders, D, new) == [d \in Display |-> IF d \in D THEN new[holders[d]] ELSE holders[d]]

\* release_rb on "next", which then is the buffer handed to the kernel.
Replaced == [current |-> "current", next |-> "free", free |-> "free"]
Promoted == [current |-> "free", next |-> "current", free |-> "free"]

\* Mutation: the buffer that was shown is released as soon as a new one is
\* handed over.
SwapBuffersEarly(r, D) ==
  IF ~gl THEN r
  ELSE [r EXCEPT !.scan = [d \in Display |-> IF d \in D THEN "free" ELSE @[d]],
                 !.queued = [d \in Display |-> IF d \in D THEN "next" ELSE @[d]],
                 !.next = @ \cup D]

\* drm3d_display_swap, when drm_display_swap has accepted the frames on D.
SwapBuffers(r, D) ==
  IF ~gl THEN r
  ELSE [r EXCEPT !.scan = Rename(@, D, Replaced),
                 !.queued = [d \in Display |-> IF d \in D THEN "next" ELSE @[d]],
                 !.next = @ \cup D]

\* display_prepare_modeset and display_done_modeset on the displays D, around
\* the commit that waits for the mode.
ModesetBuffers(r, D) ==
  IF ~gl THEN r
  ELSE [r EXCEPT !.scan = [d \in Display |-> IF d \in D THEN "next" ELSE @[d]],
                 !.next = @ \cup D]

\* page_flip_handler of the displays D.
FlipBuffers(r, D) ==
  [r EXCEPT !.scan = Rename(@, D \cap r.next, Promoted),
            !.queued = Rename(@, D \cap r.next, Promoted),
            !.next = @ \ D]

\* The kernel finishes the flips on D.
FinishFlips(r, D) ==
  [r EXCEPT !.busy = @ \ D,
            !.scan = [d \in Display |-> IF gl /\ d \in D THEN r.queued[d] ELSE @[d]],
            !.events = [d \in Display |-> IF d \in D THEN @[d] + 1 ELSE @[d]]]

\* A display that is bound has its first buffer, of display_allocfb.
FreshBuffers(r, d) ==
  [r EXCEPT !.scan[d] = "current", !.queued[d] = "current", !.next = @ \ {d}]

-----------------------------------------------------------------------------
\* do_redraw_screen on the screens of the awake terminal t on the displays D.
\* drm_display_swap refuses a display that is off or has DISPLAY_VSYNC, and the
\* kernel one that it has not finished flipping; display_swap drops the error,
\* so that the screen is marked as swapping in every case.
DoRedraw(r, t, D) ==
  LET flips == {d \in D : d \in r.on /\ d \notin r.vsync /\ d \notin r.busy}
  IN  IF t \notin r.awake THEN r
      ELSE SwapBuffers([r EXCEPT !.pending = @ \ ({t} \X D),
                                 !.swapping = @ \cup ({t} \X D),
                                 !.stale = @ \ ({t} \X flips),
                                 !.vsync = @ \cup flips,
                                 !.busy = @ \cup flips], flips)

\* Mutation: a screen that waits for a flip does not remember to draw again.
RedrawAllForgets(r, t) ==
  IF t \notin r.awake THEN r
  ELSE DoRedraw(r, t, {d \in r.plugged : <<t, d>> \notin r.swapping})

\* redraw_all: a screen that waits for a flip is drawn when it arrives.
RedrawAll(r, t) ==
  LET wait == {d \in r.plugged : <<t, d>> \in r.swapping}
  IN  IF t \notin r.awake THEN r
      ELSE DoRedraw([r EXCEPT !.pending = @ \cup ({t} \X wait)], t, r.plugged \ wait)

\* redraw_all_text.
RedrawAllText(r, t) ==
  IF t \notin r.awake THEN r
  ELSE RedrawAll([r EXCEPT !.swapping = @ \cup ({t} \X (r.plugged \cap r.vsync))], t)

\* terminal_activate on an open terminal; its contents must be shown again.
Activate(r, t) ==
  IF r.plugged = {} THEN r
  ELSE RedrawAllText([r EXCEPT !.awake = @ \cup {t},
                               !.stale = @ \cup ({t} \X r.plugged)], t)

Deactivate(r, t) == [r EXCEPT !.awake = @ \ {t}]

\* Mutation: only the terminal in front is told of the flip.
PflipCurrent(r, F, t) ==
  LET due == {d \in F : <<t, d>> \in r.pending}
  IN  DoRedraw([FlipBuffers(r, F) EXCEPT !.vsync = @ \ F, !.pflip = @ \ F,
                                         !.swapping = @ \ ({t} \X F)], t, due)

\* drm_display_pflip and the callbacks display_pageflip of the screens on each
\* display of F; at most the terminal "t" is awake.
Pflip(r, F, t) ==
  LET due == {d \in F : <<t, d>> \in r.pending}
  IN  DoRedraw([FlipBuffers(r, F) EXCEPT !.vsync = @ \ F, !.pflip = @ \ F,
                                         !.swapping = @ \ (Terminal \X F)], t, due)

\* drm_video_read_events: display_event for every event that is queued.
ReadEvents(r) ==
  [r EXCEPT !.pflip = @ \cup {d \in r.plugged : r.events[d] > 0 /\ d \in r.vsync},
            !.events = [d \in Display |-> 0]]

\* drm_display_wait_pflip on every display of D, in drm_video_wait_pflip.
WaitPflip(r, D) ==
  LET wait == (D \cap r.vsync) \ r.pflip
      done == {d \in wait : d \in r.busy}
  IN  IF wait = {} THEN r
      ELSE [ReadEvents(FinishFlips(r, done)) EXCEPT !.idle = TRUE]

\* Mutation: the commit does not ask for flip events.
ModesetSilent(r) ==
  LET w == WaitPflip(r, r.plugged)
  IN  [w EXCEPT !.busy = @ \ w.plugged, !.vsync = w.plugged]

\* perform_modeset: the commit blocks until the CRTCs have finished what they
\* were doing, and queues a flip event for each of them.
Modeset(r) ==
  LET w == WaitPflip(r, r.plugged)
      f == FinishFlips(w, w.plugged \cap w.busy)
  IN  ModesetBuffers(
        [f EXCEPT !.events = [d \in Display |-> IF d \in f.plugged THEN @[d] + 1 ELSE @[d]],
                  !.vsync = f.plugged], f.plugged)

\* show_displays of drm2d waits for the flips of the displays that are on; that
\* of drm3d hands a black frame to those that have no flip outstanding.
ShowDisplays(r) ==
  LET flips == {d \in r.on : d \notin r.vsync /\ d \notin r.busy}
  IN  IF gl THEN SwapBuffers([r EXCEPT !.vsync = @ \cup flips, !.busy = @ \cup flips], flips)
      ELSE WaitPflip(r, r.on)

\* seat_dpms_reset_timer.
Unblank(r) ==
  IF blanked THEN Activate([r EXCEPT !.on = r.plugged], current) ELSE r

-----------------------------------------------------------------------------
\* pty_input: the program in t writes something.
Output(t) ==
  /\ Store(RedrawAll([Now EXCEPT !.stale = @ \cup ({t} \X plugged)], t))
  /\ UNCHANGED <<current, shown, blanked>>

\* The kernel finishes a flip.
KernelFlip(d) ==
  /\ d \in busy /\ events[d] < MaxEvents
  /\ Store(FinishFlips(Now, {d}))
  /\ UNCHANGED <<current, shown, blanked>>

\* io_event: the DRM fd is readable.
IoEvent ==
  /\ \E d \in Display : events[d] > 0
  /\ LET r == ReadEvents(Now) IN Store(Pflip(r, r.pflip, current))
  /\ UNCHANGED <<current, shown, blanked>>

\* do_pflips, a one-shot idle source.
DoPflips ==
  /\ idle
  /\ Store([Pflip(Now, pflip, current) EXCEPT !.idle = FALSE])
  /\ UNCHANGED <<current, shown, blanked>>

\* seat_dpms_timeout.
Blank ==
  /\ dpms /\ shown /\ ~blanked
  /\ Store(Deactivate([Now EXCEPT !.on = {}], current))
  /\ blanked' = TRUE
  /\ UNCHANGED <<current, shown>>

\* A key or a pointer event.
Key ==
  /\ shown /\ blanked
  /\ Store(Unblank(Now))
  /\ blanked' = FALSE
  /\ UNCHANGED <<current, shown>>

\* A session grab: the key unblanks the screen, then seat_switch.
Switch(t) ==
  /\ shown /\ t # current
  /\ Store(Activate(Deactivate(Unblank(Now), current), t))
  /\ current' = t
  /\ blanked' = FALSE
  /\ UNCHANGED shown

\* seat_vt_deactivate: drm_video_sleep waits for the flips before it drops
\* master.  (show_displays does nothing on a device that is no longer awake.)
Leave ==
  /\ vt /\ shown
  /\ Store(WaitPflip(Deactivate(Now, current), plugged))
  /\ shown' = FALSE
  /\ UNCHANGED <<current, blanked>>

\* seat_vt_activate: the device's wake-up sets the modes again and shows the
\* displays.  The event loop has run do_pflips by the time the
\* signal arrives: Leave registered it before the VT was given up.
Enter ==
  /\ ~shown /\ ~idle
  /\ Store(Activate(ShowDisplays(Modeset(Now)), current))
  /\ shown' = TRUE
  /\ UNCHANGED <<current, blanked>>

\* A hotplug event: drm_video_hotplug binds the display, sets the modes of all
\* of them and announces it.  activate_display turns it on, resets the DPMS
\* timer and gives every terminal a screen, which terminal_add_display draws.
Plug(d) ==
  /\ plugging /\ shown /\ d \notin plugged
  /\ \A e \in plugged \cup {d} : events[e] + 2 < MaxEvents
  /\ LET fresh == [Now EXCEPT !.swapping = @ \ (Terminal \X {d}),
                              !.pending = @ \ (Terminal \X {d}),
                              !.plugged = @ \cup {d}]
         on    == FreshBuffers([Modeset(fresh) EXCEPT !.on = @ \cup {d}], d)
         lit   == Unblank(on)
     IN  Store(Activate(DoRedraw(lit, current, {d}), current))
  /\ blanked' = FALSE
  /\ UNCHANGED <<current, shown>>

\* A hotplug event for a display that is gone: display_unbind.  The terminals
\* free their screens and, if their size changes, draw the others again.
Unplug(d, resized) ==
  /\ plugging /\ shown /\ d \in plugged
  /\ LET rest == plugged \ {d}
         r == [Now EXCEPT !.plugged = rest, !.on = @ \ {d},
                          !.vsync = @ \ {d}, !.pflip = @ \ {d},
                          !.swapping = @ \ (Terminal \X {d}),
                          !.pending = @ \ (Terminal \X {d}),
                          !.stale = @ \ (Terminal \X {d})]
     IN  IF resized
         THEN Store(RedrawAll([r EXCEPT !.stale = @ \cup ({current} \X rest)], current))
         ELSE Store(r)
  /\ UNCHANGED <<current, shown, blanked>>

-----------------------------------------------------------------------------
\* The console when seat_go_foreground has first shown it: the modes are set and
\* the current terminal waits for the flip.  drm2d has read the events of the
\* mode set and draws when do_pflips runs.
Init ==
  /\ current \in Terminal /\ termAwake = {current}
  /\ plugged = Display /\ dpmsOn = Display
  /\ swapping = {current} \X Display
  /\ pending = {current} \X Display
  /\ stale = {current} \X Display
  /\ \E u \in Uses : dpms = u[1] /\ vt = u[2] /\ plugging = u[3] /\ gl = u[4]
  /\ vsync = Display /\ pflip = (IF gl THEN {} ELSE Display) /\ busy = {}
  /\ events = [d \in Display |-> IF gl THEN 1 ELSE 0]
  /\ scan = [d \in Display |-> "current"] /\ queued = scan /\ next = {}
  /\ idle = ~gl /\ shown = TRUE /\ blanked = FALSE

Next ==
  \/ \E t \in Terminal : Output(t) \/ Switch(t)
  \/ \E d \in Display : KernelFlip(d) \/ Plug(d)
  \/ \E d \in Display, resized \in BOOLEAN : Unplug(d, resized)
  \/ IoEvent \/ DoPflips
  \/ Blank \/ Key \/ Leave \/ Enter

Spec == Init /\ [][Next]_vars

\* The kernel finishes a flip it has accepted, and the event loop serves a
\* readable fd and an idle source.
Fairness ==
  /\ \A d \in Display : WF_vars(KernelFlip(d))
  /\ WF_vars(IoEvent) /\ WF_vars(DoPflips)

FairSpec == Spec /\ Fairness

-----------------------------------------------------------------------------
\* A display that waits for the end of a flip has one outstanding, or its event
\* queued: drm_display_wait_pflip never waits in vain, and DISPLAY_VSYNC is
\* never set for good.
VsyncBacked == \A d \in vsync \ pflip : d \in busy \/ events[d] > 0

\* Displays that are not unplugged, and no VT switches on a screen that blanks.
\* In the other uses a swap may be refused for a display whose flip nobody told
\* the screen of.
Steady == ~plugging /\ ~(dpms /\ vt)

\* A screen of an awake terminal that waits for the page-flip callback of a
\* display that is on gets it: the display has a flip outstanding.  Otherwise
\* every redraw only sets "pending" and the screen is frozen.
FlipExpected ==
  Steady => \A t \in termAwake, d \in plugged \cap dpmsOn : <<t, d>> \in swapping => d \in vsync

\* Nothing is drawn into a buffer that a display shows or is about to show:
\* current and next keep it locked (drm3d_display_swap, page_flip_handler,
\* display_done_modeset).
ScannedHeld ==
  Steady => \A d \in plugged : scan[d] # "free" /\ (d \in busy => queued[d] # "free")

\* What a program writes to the terminal in front of the user gets to every
\* display.
Shown ==
  \A t \in Terminal, d \in Display :
    (Steady /\ t \in termAwake /\ <<t, d>> \in stale)
      ~> (<<t, d>> \notin stale \/ t \notin termAwake)
=============================================================================
