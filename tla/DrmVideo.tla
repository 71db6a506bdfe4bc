------------------------------ MODULE DrmVideo ------------------------------
(***************************************************************************)
(* One DRM device (drm_shared.c, drm2d_video.c, video.c): its displays with *)
(* their CRTCs, framebuffers and references, DRM master, and the timer that *)
(* tries again when waking up or setting a mode failed.                    *)
(*                                                                         *)
(* The seat opens the device, wakes it up and puts it to sleep with the VT. *)
(* The kernel (external) tells of connectors that change and of flips that *)
(* are finished, accepts or refuses modes, and gives DRM master to one      *)
(* program at a time.  VIDEO_HOTPLUG is set by both callers of              *)
(* drm_video_hotplug and is not modelled.                                   *)
(***************************************************************************)
EXTENDS Integers, FiniteSets, Functions

CONSTANTS
  Connector,     \* connectors, each with at most one display in the list
  Crtc,
  NoCrtc,
  Works,         \* the modes the monitors accept, of "wanted" and "default"
  Faults,        \* the kernel may refuse a mode now and accept it later
  MaxEvents,     \* bound on the flip events queued for one CRTC
  MaxLeaked      \* bound on the references leaked for one CRTC

Mode == {"wanted", "default"}

ASSUME DrmAssumption ==
  /\ NoCrtc \notin Crtc
  /\ Works \subseteq Mode
  /\ Faults \in BOOLEAN
  /\ MaxEvents \in Nat /\ MaxLeaked \in Nat

VARIABLES
  opened,        \* the struct video exists
  kept,          \* the seat has a pointer to it
  wanted,        \* the seat is in the foreground and wants the device awake
  awake,         \* VIDEO_AWAKE
  armed,         \* vt_timer is running
  legacy,        \* the device has no atomic modesetting
  listed,        \* video.displays
  crtc,          \* the CRTC of each display of the list
  mode,          \* current_mode
  blob,          \* the mode in mode_blob_id
  online,        \* the displays with DISPLAY_ONLINE
  inuse,         \* the displays with DISPLAY_INUSE: announced to the seat
  buffers,       \* the displays whose framebuffers are allocated
  refs,          \* display.ref without the references of the seat and its terminals
  leaked,        \* references for flips of a CRTC that displays off the list still hold
  vsync,         \* the displays with DISPLAY_VSYNC
  pflip,         \* the displays with DISPLAY_PFLIP; do_pflips is registered
  plugged,       \* the connectors with a monitor
  uevent,        \* the device has a hotplug event in the udev queue
  route,         \* the CRTC that drives each connector
  busy,          \* the CRTCs on which the kernel has a flip to finish
  events,        \* the flip events queued on the DRM fd, per CRTC
  holder         \* who is DRM master: "us", "other" or "none"

seatVars   == <<opened, kept, wanted>>
videoVars  == <<awake, armed, legacy>>
dispVars   == <<listed, crtc, mode, blob, online, inuse, buffers, refs, leaked, vsync, pflip>>
flipVars   == <<busy, events>>
kernelVars == <<plugged, uevent, route, flipVars, holder>>
vars == <<seatVars, videoVars, dispVars, kernelVars>>

Bit(b) == IF b THEN 1 ELSE 0

TypeOK ==
  /\ opened \in BOOLEAN /\ kept \in BOOLEAN /\ wanted \in BOOLEAN
  /\ awake \in BOOLEAN /\ armed \in BOOLEAN /\ legacy \in BOOLEAN
  /\ listed \subseteq Connector
  /\ crtc \in [Connector -> Crtc \cup {NoCrtc}]
  /\ mode \in [Connector -> Mode] /\ blob \in [Connector -> Mode]
  /\ online \subseteq listed /\ inuse \subseteq listed /\ buffers \subseteq listed
  /\ refs \in [Connector -> Int] /\ leaked \in [Crtc -> Nat]
  /\ vsync \subseteq listed /\ pflip \subseteq vsync
  /\ plugged \subseteq Connector /\ uevent \in BOOLEAN
  /\ route \in [Connector -> Crtc \cup {NoCrtc}]
  /\ busy \subseteq Crtc /\ events \in [Crtc -> Nat]
  /\ holder \in {"us", "other", "none"}

-----------------------------------------------------------------------------
(***************************************************************************)
(* The displays and their flips as a record that the functions of          *)
(* drm_shared.c turn into another one.                                     *)
(***************************************************************************)
Now == [listed |-> listed, crtc |-> crtc, mode |-> mode, blob |-> blob,
        online |-> online, inuse |-> inuse, buffers |-> buffers, refs |-> refs,
        leaked |-> leaked, vsync |-> vsync, pflip |-> pflip, route |-> route,
        busy |-> busy, events |-> events]

Store(r) ==
  /\ listed' = r.listed /\ crtc' = r.crtc /\ mode' = r.mode /\ blob' = r.blob
  /\ online' = r.online /\ inuse' = r.inuse /\ buffers' = r.buffers
  /\ refs' = r.refs /\ leaked' = r.leaked /\ vsync' = r.vsync /\ pflip' = r.pflip
  /\ route' = r.route /\ busy' = r.busy /\ events' = r.events

\* Mutation: display_event leaves the reference of the flip.
ReadEventsKeepsRef(r) ==
  [r EXCEPT !.pflip = @ \cup {c \in r.vsync : r.events[r.crtc[c]] > 0},
            !.events = [k \in Crtc |-> 0]]

\* drm_video_read_events: display_event looks for the display of each event in
\* the list, marks it if it waits, and drops the reference of the flip, be the
\* flip of this display or of the one that had the CRTC before.
ReadEvents(r) ==
  [r EXCEPT !.pflip = @ \cup {c \in r.vsync : r.events[r.crtc[c]] > 0},
            !.refs = [c \in Connector |->
               IF c \in r.listed THEN @[c] - r.events[r.crtc[c]] ELSE @[c]],
            !.events = [k \in Crtc |-> 0]]

\* drm_display_wait_pflip on every display; the kernel finishes a flip within
\* the second it waits.
WaitPflip(r) ==
  LET done == {r.crtc[c] : c \in r.vsync \ r.pflip} \cap r.busy
  IN  IF r.vsync \subseteq r.pflip THEN r
      ELSE ReadEvents([r EXCEPT !.busy = @ \ done,
                                !.events = [k \in Crtc |-> @[k] + Bit(k \in done)]])

\* drm_display_pflip on every display that is marked.
Pflips(r) == [r EXCEPT !.vsync = @ \ r.pflip, !.pflip = {}]

CrtcsOf(r, D) == {r.crtc[c] : c \in D}

\* The CRTCs of the displays D drive their connectors and no other.
Routed(r, D) ==
  [c \in Connector |->
     IF c \in D THEN r.crtc[c]
     ELSE IF r.route[c] \in CrtcsOf(r, D) THEN NoCrtc ELSE r.route[c]]

\* A commit that went well: it blocks until the CRTCs have finished what they
\* were doing and queues a flip event for each, for which every display got a
\* reference; display_done_modeset.
Committed(r) ==
  [r EXCEPT !.refs = [c \in Connector |-> @[c] + Bit(c \in r.listed)],
            !.vsync = r.listed,
            !.events = [k \in Crtc |->
               IF k \in CrtcsOf(r, r.listed) THEN @[k] + 1 + Bit(k \in r.busy) ELSE @[k]],
            !.busy = @ \ CrtcsOf(r, r.listed),
            !.route = Routed(r, r.listed),
            !.online = r.listed, !.buffers = r.listed]

\* display_done_modeset after a failure: displays that show nothing give their
\* framebuffers back.
Undone(r) == [r EXCEPT !.buffers = @ \cap r.online]

\* perform_modeset, as the set of its results.  Without DRM master, or with a
\* mode the monitors do not accept, the test-only commit fails.
PerformModeset(r, master) ==
  LET w     == WaitPflip(r)
      again == [ret |-> "again", r |-> Undone(w)]
      good  == [ret |-> "ok", r |-> Committed(w)]
  IN  IF ~master \/ \E c \in r.listed : r.blob[c] \notin Works THEN {again}
      ELSE IF Faults THEN {good, again, [ret |-> "failed", r |-> Undone(w)]}
      ELSE {good}

\* legacy_modeset returns 0 whatever happened to the displays one by one.
LegacyModeset(r, master) ==
  LET may == IF master THEN {c \in r.listed : r.mode[c] \in Works} ELSE {}
  IN  {[ret |-> "ok",
        r |-> [Undone(WaitPflip(r)) EXCEPT !.online = @ \cup S, !.buffers = @ \cup S,
                                !.route = Routed(r, S)]] :
         S \in IF Faults THEN SUBSET may ELSE {may}}

\* try_modeset: if the test failed, again with the default mode of every
\* display as current_mode.  The mode blob stays what bind_display made it.
TryModeset(r, master) ==
  LET DefaultMode(q) == [q EXCEPT !.mode = [c \in Connector |->
                           IF c \in q.listed THEN "default" ELSE @[c]]]
      Second(q) == {IF a.ret = "ok" THEN a ELSE [a EXCEPT !.r.mode = q.mode] :
                      a \in PerformModeset(DefaultMode(q), master)}
  IN  IF legacy THEN LegacyModeset(r, master)
      ELSE UNION {IF a.ret = "again" THEN Second(a.r) ELSE {a} :
                    a \in PerformModeset(r, master)}

-----------------------------------------------------------------------------
(***************************************************************************)
(* drm_video_hotplug.                                                      *)
(***************************************************************************)
Gone == listed \ plugged
Used == {crtc[c] : c \in listed}
Outstanding(k) == Bit(k \in busy) + events[k]

\* modeset_find_crtc for the new displays B, in any order: the CRTC that drives
\* the connector unless a display of the list has it, or any other free one.
\* Displays that are gone are still in the list.
FindCrtc(B) ==
  {f \in [B -> Crtc] :
     /\ IsInjective(f)
     /\ \A c \in B : f[c] \notin Used
     /\ \A c \in B : f[c] # route[c] =>
          route[c] \in Used \cup {NoCrtc} \cup {f[e] : e \in B \ {c}}}

\* What display_unbind leaves of the references of the displays that are gone:
\* it drops the one of the list, and the others wait for a display_event that
\* will not find the display any more.
Leaked(k) ==
  LET held == {c \in Gone : crtc[c] = k /\ refs[c] > 1}
  IN  leaked[k] + (IF held = {} THEN 0 ELSE refs[CHOOSE c \in held : TRUE] - 1)

\* bind_display for new monitors, as long as there are CRTCs, and then
\* display_unbind for those that are gone.
Bind(f, m) ==
  LET B == DOMAIN f
      L == (listed \ Gone) \cup B
  IN  [Now EXCEPT !.listed = L,
                  !.crtc = [c \in Connector |-> IF c \in B THEN f[c] ELSE
                                                IF c \in L THEN @[c] ELSE NoCrtc],
                  !.mode = [c \in Connector |-> IF c \in B THEN m[c] ELSE
                                                IF c \in L THEN @[c] ELSE "default"],
                  !.blob = [c \in Connector |-> IF c \in B THEN m[c] ELSE
                                                IF c \in L THEN @[c] ELSE "default"],
                  !.refs = [c \in Connector |-> IF c \in B THEN 1 ELSE
                                                IF c \in L THEN @[c] ELSE 0],
                  !.leaked = [k \in Crtc |-> Leaked(k)],
                  !.online = @ \ Gone, !.inuse = @ \ Gone, !.buffers = @ \ Gone,
                  !.vsync = @ \ Gone, !.pflip = @ \ Gone]

Binds ==
  LET new == plugged \ listed
  IN  {Bind(f, m) : f \in UNION {FindCrtc(B) : B \in
          {X \in SUBSET new : Cardinality(X) =
             (IF Cardinality(new) < Cardinality(Crtc \ Used)
              THEN Cardinality(new) ELSE Cardinality(Crtc \ Used))}},
        m \in [Connector -> Mode]}

NeedsModeset(force) == force \/ plugged \ listed # {} \/ ~(listed \cap plugged \subseteq online)

\* display_ready on every display.
Ready(r) == [r EXCEPT !.inuse = r.listed]

\* Mutation: the displays are announced whether or not their mode was set.
HotplugAnyway(force, master) ==
  UNION {IF r.listed = {} THEN {[ok |-> TRUE, r |-> r]}
         ELSE IF NeedsModeset(force)
              THEN {[ok |-> a.ret = "ok", r |-> Ready(a.r)] : a \in TryModeset(r, master)}
              ELSE {[ok |-> TRUE, r |-> Ready(r)]} :
           r \in Binds}

\* The displays are announced once their modes are set.
Hotplug(force, master) ==
  UNION {IF r.listed = {} THEN {[ok |-> TRUE, r |-> r]}
         ELSE IF NeedsModeset(force)
              THEN {[ok |-> a.ret = "ok", r |-> IF a.ret = "ok" THEN Ready(a.r) ELSE a.r] :
                      a \in TryModeset(r, master)}
              ELSE {[ok |-> TRUE, r |-> Ready(r)]} :
           r \in Binds}

\* drm_video_wake_up: take DRM master, and look at the connectors.  Master is
\* given back if that fails, and by drm_video_hotplug if no display is left.
DrmWakeUp ==
  IF holder = "other" THEN {[ok |-> FALSE, awake |-> awake, r |-> Now, holder |-> holder]}
  ELSE {[ok |-> h.ok, awake |-> TRUE, r |-> h.r,
         holder |-> IF h.ok /\ h.r.listed # {} THEN "us" ELSE "none"] :
          h \in Hotplug(TRUE, TRUE)}

-----------------------------------------------------------------------------
(***************************************************************************)
(* The seat's calls.                                                       *)
(***************************************************************************)
\* Room for the events of a modeset and for the references that leak.
Timely(r) == \A k \in Crtc : events[k] + 2 <= MaxEvents /\ r.leaked[k] <= MaxLeaked

\* drm2d_video_wake_up and video_wake_up: show_displays waits for the flips of
\* the modeset.  A failure arms the timer and leaves the device asleep.
BackendWakeUp(w) ==
  /\ Timely(w.r)
  /\ Store(IF w.ok THEN WaitPflip(w.r) ELSE w.r)
  /\ awake' = w.ok
  /\ holder' = w.holder
  /\ uevent' = FALSE

\* seat_video_init: the seat forgets a device that does not wake up.
Open ==
  /\ ~opened
  /\ opened' = TRUE /\ wanted' = TRUE
  /\ \E w \in DrmWakeUp : /\ kept' = w.ok /\ armed' = ~w.ok
                          /\ BackendWakeUp(w)
  /\ UNCHANGED <<legacy, plugged>>

\* video_wake_up.
WakeUp ==
  /\ kept /\ ~wanted
  /\ wanted' = TRUE
  /\ \/ awake /\ UNCHANGED <<videoVars, dispVars, kernelVars>>
     \/ /\ ~awake
        /\ \E w \in DrmWakeUp : /\ BackendWakeUp(w)
                                /\ armed' = (armed \/ ~w.ok)
        /\ UNCHANGED <<legacy, plugged>>
  /\ UNCHANGED <<opened, kept>>

\* Mutation: drm_video_sleep leaves the device with DRM master.
SleepKeepsMaster ==
  /\ kept /\ wanted /\ awake
  /\ wanted' = FALSE /\ awake' = FALSE /\ armed' = FALSE
  /\ Store(IF holder = "us" /\ ~legacy THEN WaitPflip(Now) ELSE Now)
  /\ UNCHANGED <<opened, kept, legacy, plugged, uevent, holder>>

\* video_sleep and drm_video_sleep.  A device that is not awake is left alone,
\* with its timer.
Sleep ==
  /\ kept /\ wanted
  /\ wanted' = FALSE
  /\ \/ ~awake /\ UNCHANGED <<videoVars, dispVars, kernelVars>>
     \/ /\ awake
        /\ awake' = FALSE /\ armed' = FALSE
        /\ holder' = IF holder = "us" THEN "none" ELSE holder
        /\ Store(IF holder = "us" /\ ~legacy THEN WaitPflip(Now) ELSE Now)
        /\ UNCHANGED <<legacy, plugged, uevent>>
  /\ UNCHANGED <<opened, kept>>

\* Mutation: the timer is not armed when no mode could be set.
PollOnce ==
  /\ kept /\ uevent /\ awake
  /\ uevent' = FALSE
  /\ \E h \in Hotplug(FALSE, holder = "us") :
       /\ Timely(h.r)
       /\ Store(h.r)
       /\ holder' = IF h.ok /\ h.r.listed = {} THEN "none" ELSE holder
  /\ UNCHANGED <<seatVars, awake, armed, legacy, plugged>>

\* drm_video_poll, on a hotplug event.
Poll ==
  /\ kept /\ uevent
  /\ uevent' = FALSE
  /\ \/ ~awake /\ UNCHANGED <<armed, dispVars, route, flipVars, holder>>
     \/ /\ awake
        /\ \E h \in Hotplug(FALSE, holder = "us") :
             /\ Timely(h.r)
             /\ Store(h.r)
             /\ armed' = (armed \/ ~h.ok)
             /\ holder' = IF h.ok /\ h.r.listed = {} THEN "none" ELSE holder
  /\ UNCHANGED <<seatVars, awake, legacy, plugged>>

\* vt_timeout: the device wakes up, whatever the seat wants by now.
VtTimeout(ok) ==
  /\ armed
  /\ \E w \in DrmWakeUp :
       /\ w.ok = ok
       /\ Timely(w.r)
       /\ Store(w.r)
       /\ awake' = w.awake /\ armed' = ~ok
       /\ holder' = w.holder
  /\ UNCHANGED <<seatVars, legacy, plugged, uevent>>

\* video_unref: the displays go, and the kernel drops what belongs to the fd.
\* The references that leaked stay so; the next device does not see them.
Close ==
  /\ kept
  /\ opened' = FALSE /\ kept' = FALSE /\ wanted' = FALSE
  /\ awake' = FALSE /\ armed' = FALSE
  /\ holder' = IF holder = "us" THEN "none" ELSE holder
  /\ Store([Now EXCEPT !.listed = {}, !.online = {}, !.inuse = {}, !.buffers = {},
                       !.crtc = [c \in Connector |-> NoCrtc],
                       !.mode = [c \in Connector |-> "default"],
                       !.blob = [c \in Connector |-> "default"],
                       !.refs = [c \in Connector |-> 0], !.leaked = [k \in Crtc |-> 0],
                       !.vsync = {}, !.pflip = {}, !.busy = {},
                       !.events = [k \in Crtc |-> 0]])
  /\ UNCHANGED <<legacy, plugged, uevent>>

\* drm_display_swap, by a terminal: a reference for the flip.
Swap(c) ==
  /\ awake /\ c \in (inuse \cap online) \ vsync
  /\ crtc[c] \notin busy /\ holder = "us"
  /\ refs' = [refs EXCEPT ![c] = @ + 1]
  /\ vsync' = vsync \cup {c}
  /\ busy' = busy \cup {crtc[c]}
  /\ UNCHANGED <<seatVars, videoVars, listed, crtc, mode, blob, online, inuse, buffers,
                 leaked, pflip, plugged, uevent, route, events, holder>>

-----------------------------------------------------------------------------
\* io_event: the DRM fd is readable.
IoEvent ==
  /\ \E k \in Crtc : events[k] > 0
  /\ Store(Pflips(ReadEvents(Now)))
  /\ UNCHANGED <<seatVars, videoVars, plugged, uevent, holder>>

\* do_pflips, an idle source.
DoPflips ==
  /\ pflip # {}
  /\ Store(Pflips(Now))
  /\ UNCHANGED <<seatVars, videoVars, plugged, uevent, holder>>

KernelFlip(k) ==
  /\ k \in busy /\ events[k] < MaxEvents
  /\ busy' = busy \ {k}
  /\ events' = [events EXCEPT ![k] = @ + 1]
  /\ UNCHANGED <<seatVars, videoVars, dispVars, plugged, uevent, route, holder>>

\* A monitor is plugged in or unplugged.
Cable(c) ==
  /\ plugged' = IF c \in plugged THEN plugged \ {c} ELSE plugged \cup {c}
  /\ uevent' = TRUE
  /\ UNCHANGED <<seatVars, videoVars, dispVars, route, flipVars, holder>>

\* The program on another VT, only while the seat is in the background; it
\* gives master up when it sees that it lost the VT.
OtherTakes ==
  /\ ~wanted /\ holder = "none"
  /\ holder' = "other"
  /\ UNCHANGED <<seatVars, videoVars, dispVars, plugged, uevent, route, flipVars>>

OtherDrops ==
  /\ holder = "other"
  /\ holder' = "none"
  /\ UNCHANGED <<seatVars, videoVars, dispVars, plugged, uevent, route, flipVars>>

-----------------------------------------------------------------------------
Init ==
  /\ opened = FALSE /\ kept = FALSE /\ wanted = FALSE
  /\ awake = FALSE /\ armed = FALSE /\ legacy \in BOOLEAN
  /\ listed = {} /\ online = {} /\ inuse = {} /\ buffers = {}
  /\ crtc = [c \in Connector |-> NoCrtc]
  /\ mode = [c \in Connector |-> "default"] /\ blob = mode
  /\ refs = [c \in Connector |-> 0] /\ leaked = [k \in Crtc |-> 0]
  /\ vsync = {} /\ pflip = {}
  /\ plugged \in SUBSET Connector /\ uevent = FALSE
  /\ route = [c \in Connector |-> NoCrtc]
  /\ busy = {} /\ events = [k \in Crtc |-> 0]
  /\ holder \in {"none", "other"}

Next ==
  \/ Open \/ WakeUp \/ Sleep \/ Poll \/ Close
  \/ \E ok \in BOOLEAN : VtTimeout(ok)
  \/ \E c \in Connector : Swap(c) \/ Cable(c)
  \/ \E k \in Crtc : KernelFlip(k)
  \/ IoEvent \/ DoPflips
  \/ OtherTakes \/ OtherDrops

Spec == Init /\ [][Next]_vars

\* The event loop serves the fds, the idle source and the timer; the kernel
\* finishes flips and does not refuse a mode for ever; a program that lost the
\* VT gives DRM master up.  Poll is strongly fair because the bounds (Timely)
\* disable it for a while, which nothing does in the code.
Fairness ==
  /\ SF_vars(Poll) /\ WF_vars(IoEvent) /\ WF_vars(DoPflips)
  /\ WF_vars(VtTimeout(FALSE)) /\ SF_vars(VtTimeout(TRUE))
  /\ \A k \in Crtc : WF_vars(KernelFlip(k))
  /\ WF_vars(OtherDrops)

FairSpec == Spec /\ Fairness

-----------------------------------------------------------------------------
\* A display is freed neither while it is in the list or its flip is outstanding,
\* nor kept after them.  It holds one reference for the list and one for each
\* flip (drm_display_swap, perform_modeset), as long as the CRTC's flips are its
\* own.  Unplugging a display with a flip on its way breaks this in two ways:
\* display_event drops the reference of the display that now has the CRTC, or of
\* none.  What is missing is then always held by displays that left the list, so
\* it takes a leak for a display to be short of references, and none is ever
\* long of them.
RefsOwed ==
  /\ \A c \in listed : /\ refs[c] <= 1 + Outstanding(crtc[c])
                       /\ 1 + Outstanding(crtc[c]) <= refs[c] + leaked[crtc[c]]
  /\ \A k \in Crtc \ Used : Outstanding(k) <= leaked[k]

\* A device that is asleep is not DRM master, whichever of the wake-up, the
\* hotplug and the timer failed on the way: another program can have it.
MasterAwake == holder = "us" => awake

\* A monitor that is plugged in and not shown, while the seat is in the
\* foreground, is not forgotten: a hotplug event is on its way or the timer is
\* armed.  (Atomic modesetting, and a CRTC for every connector.)
Retried ==
  kept /\ wanted /\ ~legacy /\ ~(plugged \subseteq inuse \cap online) => uevent \/ armed

\* A monitor that is plugged in comes up while the seat is in the foreground,
\* whoever is slow to give DRM master up and whatever the kernel refuses now
\* and then: vt_timer tries again.  (Atomic modesetting, a CRTC for everyone.)
ComesUp ==
  \A c \in Connector :
    (kept /\ wanted /\ ~legacy /\ c \in plugged)
      ~> (c \in inuse \cap online \/ c \notin plugged \/ ~wanted \/ ~kept)

\* The device is what video.h promises the seat.
Dev == INSTANCE Device WITH
  Display <- Connector,
  held <- kept,
  state <- IF ~opened THEN "none" ELSE IF awake THEN "awake" ELSE "asleep",
  retry <- armed,
  shown <- inuse

DeviceKept == Dev!Spec
=============================================================================
