# Verification of faceplate (kmscon)

TLA+ models of the console in `src/src`: a single-threaded C program that runs
terminal sessions on Linux DRM devices, shares the machine with other VTs, and
turns kernel signals, udev events, keys, timers and PTY output into callbacks
of one event loop. Around it are small processes: the helper that runs logins
outside of the console's sandbox, the collector of the system's status, and the
programs that publish it. Each module is a translation of the C code it names;
`PROJECT.json` maps every definition to its source lines.

Because a callback runs to completion, an action is one callback with
everything it calls. What is hard is the order of the callbacks: VT signals,
hotplug, blanking, flips, session switches and device failures meet in every
combination, and several layers keep their own idea of "awake" and "active".

## Inventory

| Component | State | Operations | Talks to | Module |
|---|---|---|---|---|
| Seat (`seat.c`) | awake, foreground, sessions and the current one, devices, displays with `activated`, DPMS timer and `dpms_blanked` | VT enter/leave, session next/prev/close/new, set background/foreground, add/remove/poll device, display new/gone, blank, key | VT layer, terminals, video, input, monitor | Seat |
| VT layer (`uterm/vt*.c`) | `active`, `real_delayed`, the kernel's VT mode | enter and leave signals, hotkeys, restore, open, close | kernel, libseat; calls the seat and input | VtReal, Seat |
| Terminal (`terminal.c`) | awake, opened, screens with `swapping`/`pending`, sizes, font, pointer, PTY, console mode | activate, deactivate, add/remove display, redraw, page-flip callback, zoom, rotate, PTY input and exit, OSC, keys | seat, display, renderer, PTY, event loop | Seat, Flip, Frame, Pty |
| Renderers (`render/*.c`) | cache of drawn cells, redraw count, damage, quads | prepare, draw, render, set | terminal, display | Frame |
| Video (`video/*.c`) | awake, displays with `VSYNC`/`PFLIP`, CRTCs, buffers, references, DPMS state, retry timer, DRM master | open, wake up, sleep, hotplug, poll, swap, DPMS, modeset | kernel DRM fd; calls terminal and seat | DrmVideo, Flip, Frame; Device is its interface |
| Input (`input/*.c`) | wake-up counter, devices, key state and repeat, pointer | wake up, sleep, device add/remove, key and pointer events | seat, VT layer, terminal hooks | Devices, Seat |
| Monitor (`uterm/monitor.c`) | seats and devices known from udev | scan, add, change, remove | seat | Devices |
| Event loop (`shl/eloop.c`, `shl/hook.h`) | sources, idle list, signals, exit flags | dispatch, register, unregister | everything | Eloop |
| PTY (`misc/pty.c`) | child, fd, write ring, retries | open, read, write, close, exit | terminal, event loop | Pty |
| Console status (`faceplate_sources.c`, `_status.c`, `_events.c`, `_collector.c`) | manifests, context, snapshot files | refresh, publish, collect | terminal, publishers | Sources; the lock's effect is in Pty |
| Host session (`misc/host_session.c`, `faceplate_host_login.c`) | connections, login, status | request, serve, reply | child of a PTY, helper process | HostLogin |
| Configuration (`misc/conf.c`, `config.c`) | options with their locks, contexts | arguments, files, afterchecks, seat context | main, seat | Conf |
| Recording player, banner, D-Bus, fbdev, fonts, containers, log | local | | | not modelled |

What makes each of them correct:

* Seat: in step with its VT; input wake-ups balanced; the current session
  alive; one terminal awake; every session able to draw on every display; DRM
  master released when not shown; a blanked screen comes back with the next
  key, and an idle one blanks.
* VT layer: every request for the VT is answered, the seat is told of every
  change, at most one console is active.
* Terminal and video: a screen that waits for a flip gets one; output reaches
  the screen, and is what the console holds; no buffer is drawn into while it
  is shown; a display has one CRTC, references balance, failures are retried.
* Input, monitor: closed while another VT is in front, open and complete
  otherwise; no key without its release.
* Event loop, PTY: no callback after unregistering, no byte lost or reordered,
  no exit unnoticed, no login on a locked console.
* Status: what is shown is what the publishers say; the lock is obeyed.
* Host session: a child that waits is known to the helper; a request is answered;
  the login of a closed terminal ends.
* Configuration: the command line wins; a seat that starts is complete.

The hazards, each at its source line and with the properties aimed at it, are
listed in `PROJECT.json`.

## Modules

`MC<module>` gives the constants of `<module>` their small values.

**Seat.** All of `seat.c` with what the terminals, the devices and the VT
backend (`VtKind`: real, libseat, fake) do when it calls them. Nested calls
that change terminals and blanking thread a record (`Now` ... `Present`) in the
order of the code, because `seat_dpms_reset_timer` depends on which devices are
awake and which session is current *at that moment*; `Early` keeps the devices
that were awake when the first new display reset the timer. A device is `none`,
`deferred` (in the list, no `struct video` yet), `asleep` or `awake`; `retry`
is its `vt_timer`. `Faults` lets devices fail to open, wake up or set a mode,
including the `struct video` that `seat_video_init` keeps no pointer to when
wake-up fails. A display object is reused only when nothing refers to it.

**VtReal.** The consoles on several VTs and the kernel between them (external:
`RelDisp`, `SetMode`, `AskRelease`, `Activate`). SIGUSR1 and SIGUSR2 have a
signalfd each, so pending signals are two sets and are served in any order.
`rush` allows a switch to be asked for before the last SIGUSR1 was served;
`handover` allows sessions to go to the background and come back, which calls
`real_restore`. Both are chosen in `Init`. A hang-up frees the seat at once, so
it is `Close`.

**Device, DrmVideo.** Device is the interface of `video.h`: what the seat
relies on. DrmVideo is one DRM device with atomic KMS behind it: connectors,
CRTCs and their choice, framebuffers, modes that are refused (`Works` are those
the monitors accept, `Faults` refuses others now and then), DRM master that
other programs take, flips and their events, `vt_timer`, references. A handler
threads a record; `Routed`, `Committed` and `Undone` are the three stages of a
modeset. `DeviceKept` is the refinement: DrmVideo implements Device, with the
displays announced as the connectors that are in use. `refs` leaves out the
references that the seat and the terminals hold; `leaked` are those for flips
of displays that are off the list: `display_unbind` drops only the list's one,
and `display_event` looks for a CRTC's display in the list, so it finds none, or
the one that was bound to the CRTC meanwhile. `refs` may therefore become zero,
or less, while the display is still in the list.

**Flip.** The screens of several terminals on the displays of one device, the
kernel's flips and their events, and the buffers of drm3d. `Uses` is the set of
ways the console is used: `dpms`, `vt`, `plugging` and `gl` (drm3d rather than
drm2d) are variables that keep their initial value. A buffer of a GBM surface
is known by the pointer that locks it (`current`, `next`, or none): `scan` is
the one the CRTC shows, `queued` the one it will show. Clone mode, terminals
already open. `Enter` waits for the idle source because `Leave` registered it
before the VT was given up and the loop runs idle sources before it polls.
`Leave` shows no black frame: `video_sleep` has cleared VIDEO_AWAKE when the
backend calls `show_displays` (video.c:550-557, drm3d_video.c:449), so a screen
that waits is left waiting, and nothing of the buffers changes.

**Frame.** What is drawn: the cells of a screen (one row stands for the
console), fonts, rotation and sizes, `bbulk` with its cache of cells, `redraw`
count and damage, the two buffers of drm2d and what the kernel copies of them,
`gltex` with its atlas of quads, wide glyphs, and the pointer as a drawn or a
hardware cursor. A finished flip and its callback are one step here; their
interleaving is Flip's matter. Sleeping waits for the flips and clears the
cursor; the displays keep their last frame. `use` is the set of features a behaviour has;
a property says for which uses it holds, because some combinations do go wrong
(below).

**Pty.** The logins: `misc/pty.c`, the part of `terminal.c` that opens, closes
and restarts them, the console lock, and SIGCHLD in `shl/eloop.c`. Each PTY has
an event loop of its own inside the main loop, so `sigchld` is one bit that the
loop of any open PTY may take (`SigChild`), and that loop reaps all of
`zombie`. What the master does is a record per session, `io`, and the functions
of `pty.c` are functions of that record, because a query in the output is
answered with a write from within the read. Bytes are numbered modulo `Stamps`,
which is more than can be under way. `ready` is an event epoll has to deliver:
edge-triggered, it comes from a change on the slave or from `ev_fd_update`.
`published` is what the events source says; a terminal knows it only since its
last `StatusEvent` (`seen`).

**Eloop.** The event loop with the callback lists of `shl/hook.h`. The other
modules take for granted that a registered callback is called and a removed one
is not; this one shows it. Every operation is an action of the program,
possible before `ev_eloop_run`, between the start and the return of any
callback, and, for those that take things down, after it. Objects are addresses
from small pools, so an address comes back after `free`. The entries of a
list of callbacks have addresses too (`Node`), and `cur` is one of them, or
`ListHead`: only `HookRm` and `HookRmAll` keep it from being that of an entry
that was freed, or handed out again. A one-shot entry keeps its address until
its callback is back. The program is one
that respects the interface: it removes only sources it has and drops only its
own references.

**Devices.** Input devices from udev to the key handlers: the queue of udev
events, the monitor's entries with their pointer to an input device, the list
of input devices with their descriptors (`rfds`), wake-up counting, and what a
keyboard remembers (`mods`, `repeating`). An input device is an address from a
pool; with `Reuse` malloc may hand one out again that an entry of the monitor
still has. Its specification is `DevicesSpec`.

**Sources.** A refresh reads the files of the declared sources one after the
other (`at`), while their publishers replace them by rename and the collector
writes, renames and crashes. Time is counted in ages up to `MaxAge`, from which
on everything is stale. `quiet` says that nothing was replaced during the
refresh. Its specifications are `SourcesSpec` and, with fairness,
`SourcesFairSpec`.

**HostLogin.** The children of PTYs, the socket, the helper and its logins.
`Close` closes the console's copy of a master, and what matters is who has
another one: children never exec, so each keeps, besides the terminal it hands
over, the masters of the other terminals that were open when it was forked
(`Inherited`; its own is closed by `setup_child`). A PTY is hung up when no
one has its master (`Hung`), only then does `isatty` fail and the login get
SIGHUP. The check, the fork and the claim of the terminal by the login are
steps of their own (`RunLogin`, `ClaimTerminal`). `Wedged` is the state this
can end in: the helper waits for the login of a closed terminal that the child
of another one keeps open, which waits for the helper. The helper may crash
anywhere.

**Conf.** The program reads its input word by word; each action is one word of
the command line or one line of a file, accepted or refused by its option's
parser, or the end of an input. `asked` keeps what the command line asked for,
to compare the seat's context with. `Restart` starts the program again, with
other input.

## Runs

| Run | Properties | Instance |
|---|---|---|
| seat_real | MasterReleased, InputBalance, OneAwake, EveryDisplayShown, InputUnblanks | real VT, three sessions, one device with three displays, blanking |
| seat_sessions | SessionScreens | fake VT with its hotkey, two sessions with background, two devices that may fail, a display each |
| flip | VsyncBacked, ScannedHeld, FlipExpected, Shown | two terminals, two displays; blanking or VT switches with drm2d and drm3d, and everything with plugging |
| vt | InputHeld, ActiveOwnsVt, EnterTold | three consoles and a text VT, with and without rush and handover |
| pty | InOrder, FeedLogin, LoginKept, ExitNoticed | one session, three pids, one failing fork, locking, input and output |
| eloop | BatchLive, WatchExact, CursorLive, IdleRuns | one address for files and signalfds, two for list entries, a timer, a signal with two hooks, two callbacks, two objects at a time, one epoll failure |
| drm | RefsOwed, MasterAwake, Retried, DeviceKept | two connectors, two CRTCs, faults, another program that takes master, one leaked reference per CRTC |
| devices | ClosedAsleep, Settled, HandleBack, NothingSticks | a keyboard, a mouse, three addresses, three udev events waiting, two keys, one of which loses its keysyms with the modifier |
| sources | FirstVisible, LockFollows, CollectorRecovers | every pair of six manifests, one user known late, faults |
| host_login | WaitsForHelper, ClosedLoginEnds, LoginComes | two terminals, three jobs, faults |
| frame | Exact, RowsFit, NoTear | two terminals, a wide and a narrow display, two fonts, both orientations, twelve sets of features |
| conf | CommandLineWins, SeatComplete | a colour and another option, two texts, two options per input |

Every property has a mutant of the code in `PROJECT.json` that violates it.

Bounds. Three sessions, two devices and two or three displays are enough for
every interaction in the code: it treats the current session and the others,
the first device and the later ones differently, and nothing else by number;
the third session and the third console show that "others" is not the same as
"the other". `MaxEvents` bounds the flip events queued on one CRTC: one of a
swap and one of each modeset. `MaxLeaked` bounds the references that are leaked
on one CRTC: the events of an unplugged display and of its successor meet with
one. In `pty` a buffer of one byte, one read per event
and two bytes or chunks under way already make every write short and every read
partial; three pids are the login, its successor and one left behind. In
`eloop` two live objects are the callback that runs and the one it removes or
replaces; a registration waits while both addresses of entries are in use, and
an address that was freed is soon handed out again; `Events = 1` fills
`cur_fds` with the first event and doubles it. In
`devices` three addresses are two devices and one that was freed. In `sources`
two is the number at which "the first that shows something" matters. In
`host_login` the third job is a terminal's second login, and with two terminals
a child inherits a master from the other one. In `frame` the wide
display has two cells with the small font and one otherwise, so that cells
disappear and come back, and the narrow one limits it or not. In `conf` the
second option of an input is one after a refused or a locking one.

Deadlock is not checked where the system really stops: a freed seat, a kmscon
that gave up, a closed device, all jobs done, a loop with no source.

Runs with symmetry check no liveness. `flip`, `vt`, `pty`, `eloop`, `sources`
and `host_login` run under their `FairSpec` (`SourcesFairSpec`, `HostLoginFairSpec`).

### Fairness

Only what the event loop and the kernel guarantee: an armed timerfd expires
(`DpmsExpire`, `VtTimeout`), a readable signalfd, DRM fd or hotplug event and
an idle source are served (`Delayed`, `SigEnter`/`SigLeave`, `IoEvent`,
`DoPflips`, `SigChild`, `Poll`), the status timer comes again (`StatusEvent`,
`Refresh`), callbacks return and the loop goes on (`Dispatch`), the kernel
finishes a flip it accepted (`KernelFlip`) and lets those that wait to connect
in one after the other (`Connect`), processes run (`Accept`, `RunLogin`,
`ClaimTerminal`, `Reply`, `Reap`, the collector's steps), and a login that was
hung up ends. `host_login` also assumes that users log out some time (`LogOut`)
of a terminal that is open; without it see below. On a closed terminal that is
not hung up nobody is there to log out. No fairness on the user, on programs, on hotplug or on other
consoles.

### Where the code does something else

TLC finds these when a property or the constants of a run are changed. The
configurations in brackets are kept beside the others; the other ones are a
line of a configuration away.

Documented otherwise:

* [PtyTwo.cfg] `ExitNoticed` with two sessions. Each PTY registers SIGCHLD in
  a loop of its own. The loop that is served first reaps every child with
  `waitpid(-1)` (eloop.c:323), so the login of the other session is never
  restarted (pty.c:542, man page kmscon.1.xml.in:897).
* [DrmMode.cfg] `ComesUp` with a monitor that refuses the wanted mode.
  `try_modeset` falls back to the default mode (drm_shared.c:989), but
  `mode_blob_id` still holds the wanted one, so the commit fails again; the man
  page (603-606) says that the default is used.
* [FrameSwitch.cfg] `ExactAfterSwitch`. bbulk keeps a cache of drawn cells per
  terminal and redraws all of them if "we switch from a dirty screen"
  (bbulk.c:1042-1047), but a session switch does not call
  `display_set_need_redraw`: cells that are the same in the new terminal as
  when it was last shown keep the old terminal's text.
* `InputUnblanks` with `VtKind = "libseat"` and `SessionControl = FALSE`: the
  key that switches the VT on a blanked screen clears `dpms_blanked` after the
  devices were put to sleep; back on the VT no input turns the display on (man
  page 412). The same with two devices on a real VT: a display that is new on
  the first one clears it before the second one is awake.
* `SourceServed` in Eloop with `File = {f1}`, no timers and signals,
  `MaxLive = 3` and `MaxFaults = 0`: entries added while a list is called are
  called in the same round, so two one-shot idle sources that register
  themselves again keep `shl_hook_call` going for ever, also after
  `ev_eloop_exit`, which "will always interrupt this function".
* `GivesUpOnQuickExits` in PtyOne.cfg: the limit on retries is tested before
  the time, so after MAX_RETRY_COUNT quick exits the logout of a long session
  ends kmscon; and `last_spawn_time` is not set after a login that lasted, so
  quick exits after one are never counted.
* `LoginComes` with `LogOut = FALSE`: the helper serves one
  connection at a time, so a second terminal has no login until the user of the
  first logs out (docs/CONSOLE.md:22).

Not documented either way:

* `RingArmed` in PtyOne.cfg: `kmscon_pty_close` keeps the ring. If a login
  restarts with bytes in it, `kmscon_pty_write` only appends to it, nothing
  asks for EV_WRITEABLE, and no input reaches the new login.
* `IdleBlanks` in Seat under its `FairSpec`, with blanking on a real VT: the
  blank timer expires on another VT and is never armed again.
* `OneAwake` and `MasterReleased` with `Background = TRUE`, and
  `MasterReleased` with `Faults = TRUE`: a device that appears while the
  session is in the background is woken up and takes DRM master.
* `EnterTold` without `~handover`: VT_SETMODE in `real_restore` makes the
  kernel forget a waiting switch; the leave handler deactivates the seat
  without noticing that VT_RELDISP failed. `ActiveOwnsVt` without `~rush`:
  VT_ACKACQ completes a switch that was asked for meanwhile.
* `FlipExpected` and `ScannedHeld` without `Steady`: on the return
  to a VT with a blanked screen the swap on a display that is off is refused,
  but the screen is marked as swapping, and after the key that turns the
  display on every redraw only sets `pending`. A display
  unplugged with a flip in flight and plugged again has its next flip refused;
  and drm3d's modeset on hotplug releases the buffer that is still shown.
* [FrameClose.cfg] `CursorOutlivesClose`: closing a session destroys the
  hardware cursor of its displays for the other sessions. Zooming and rotating
  hide it until the next motion, and after a session switch its shape, offset
  and visibility are those of the other terminal.
* `Exact` with `rail`: the atlas of gltex has room for
  `max_cols * (max_rows + 2) + 1` quads; the idle screen's chrome draws more,
  and the pointer and the end of the last row are dropped. With `turn` and
  `wide`: rotation does not reset `min_cols` as `font_set` does, and the flags
  of a wide glyph's neighbour cell are stale.
* `LoginComes` and `ClosedLoginEnds` without `\/ Wedged`: a terminal is closed
  after the child of another one was forked (pty.c:259, 570), so it is not hung
  up. Its login starts or goes on, nobody can end it, and the helper serves no
  one else: the other child, too, waits for ever, and what it keeps open stays
  open. Closing the second terminal does not help, for its child still waits.
* `\A c \in listed : refs[c] > 0` in Drm.cfg: a display that is unplugged with a
  flip outstanding keeps the flip's reference and is never freed
  (video.c:158-166); if another one is bound to its CRTC before the event is
  read, the event takes the new display's reference. `display_unref` frees a
  display at zero, while it is in the list if nobody else holds it.
* `HandleBack` and `Settled` with `Reuse = TRUE`: an entry of the monitor keeps
  the address of an input device that was freed when its read failed, and may
  remove another device that malloc put there.
* `HelpExits`: `--help` followed by a refused word, with kmscon.conf missing,
  does not exit.

Read but not checked: an error in kmscon.conf skips the afterchecks and the
rule for `mode`, and main goes on; the seat file's `mode` does not clear
`use_original_mode`; the man page names `{seatname}.kmscon.conf`, the code
`%s.seat.conf`; a status file replaced between open and fstat has no link and
counts as hidden, for events as unlocked, until the next refresh; stale system
data is dropped, not shown as `Unknown` (docs/SOURCES.md); with one CRTC a
cable moved to another connector within one hotplug event shows nothing and is
not retried; releasing one of two pointer buttons clears `pressed_button`; a
session created while the console is locked shows a login until its first
status event; `setForeground` on a sleeping seat is refused and not repeated.

## Proofs

For every value of the constants, by TLAPS. Each module states an invariant
that is inductive and derives its theorems from it.

* `SeatProofs`: TypeOK, ForegroundAwake, VtAgrees, InputBalance, CurrentLive
  and SessionScreens, for any sessions, devices and displays, every VT backend
  and with faults. `ForegroundAwake` and `VtAgrees` carry each other;
  `InputBalance` needs both, and that only a real VT is ever delayed and that a
  freed seat sleeps (`VtInv`). The input count is a natural number only because
  of the balance, so typing follows from `InputBalance`. `CurrentLive` needs
  what `RemoveAt` and `InsertAt` do to a list without duplicates.
  `SessionScreens` is not inductive alone: a session created later gets screens
  on `displays`, so `activated` must be within `displays` (`ScreenInv`).
  OneAwake holds where `Background` is FALSE: `activate_display` wakes the
  terminal of the session that `seat_switch` is about to leave, and a switch
  goes to the foreground only from the background, so `OneInv` adds that an
  awake seat and every session are in the foreground. Where `Faults` is FALSE
  too, `ShownInv` gives EveryDisplayShown and MasterReleased: the list names
  every struct video there is, no `vt_timer` runs, and the devices are all
  awake in the foreground and all asleep elsewhere. With one device,
  `BlankInv` adds that while a shown display is off `dpms_blanked` is set, and
  that no display is off while the seat waits for its VT; so the next key
  lights it (InputUnblanks). With two devices, or libseat's own VT key, this is
  false (above).
* `InputProofs`, VtReal: TypeOK and InputHeld with no assumption, ActiveOwnsVt.
  Its strengthening says that a switch waits only for a console that has
  noticed its VT. EnterPending is the safety part of EnterTold: without rush
  and handover a console whose VT is shown is active, or its signal or its idle
  callback is pending. It needs `Asked`: a request to release the VT is always
  about a switch that still waits, so no console gives up a VT that it keeps.
* `InputProofs`, Devices: ClosedAsleep and NothingSticks for any nodes,
  addresses and keys, with `Reuse` and faults. `KeyInv` says of each device
  that is open what its state, the events it has not read and the keys that
  are down have to do with each other; an event that is waiting is what
  excuses a difference. OwnEntry, with `Reuse` and faults: a device of the
  list has the entry of its node, and the entry has its address. HandleBack,
  which also speaks of entries whose device is gone, is only model-checked,
  with `Reuse` FALSE; Settled is proved there, and TLC shows that neither holds
  otherwise (above). `ListInv` says the same of
  the udev queue: a node that is listed and should not be has an event that removes
  it, and one that should be listed has an event that adds it with none that
  removes it behind (`QueueGood`).
* `LoginProofs`, Pty: FeedLogin and LoginKept for any number of sessions and
  processes, and ExitPending, the safety part of ExitNoticed, for one session.
  The invariant is small (`LoginInv`: a pid is not both running and a zombie,
  plus FeedLogin); the work is in what opening and closing one terminal leaves
  of the others (`Touches`). ExitPending needs one session exactly at SIGCHLD,
  where PtyTwo.cfg shows how it fails. InOrder holds for any sizes of the
  buffers, of a read and of a paste: what is in the kernel, followed by the
  ring, are consecutive bytes up to the one typed last (`Ordered`), and a read
  that answers queries by writing keeps this with every chunk.
* `EloopProofs`: WatchExact, BatchLive, RefsExact, and that the loop outlives
  its sources, for any number of sources. They need each other: a collected
  event is good because what epoll watches is bound, and a source is freed only
  when it is not bound because references are exact. `SrcInv` adds that the
  sources of shared signals are files that are bound. The lemmas say what
  binding and unbinding one source does to the rest; the loop's count is a
  cardinality, hence the assumption that the pools are finite. Of the callback
  lists, CursorLive, that a list is alive while it is called, and that its
  count is right (`HookInv`, which adds that no two entries share an address,
  and that the address of a one-shot entry that runs is not used again): the list of a signal whose last entry a callback removes
  is freed when its call is over.
* `FlipProofs`: VsyncBacked for every use; FlipExpected and ScannedHeld in the
  steady ones. `Backed` says what a display that waits may wait for, `Sound`
  what the kernel, the flags and the buffers of one display have to do with
  each other. Each handler is shown to keep both (`Keeps`, `Draws`), whatever
  else it does; a mode set does so only when no flip is outstanding, and
  `SteadyAt` says why none is when the VT is entered: the console waited for
  them when it left, and the idle source has run since.
* `FrameProofs`: RowsFit, and NoTear as an action property, in every use of any
  number of sessions, displays, fonts and cells. The invariant (`Core`) is about
  the whole seat: the terminal in front alone is awake, it takes part in the
  flip that is outstanding, so a redraw waits for it, the screens of the open
  sessions are as large as their terminals, and the cursor plane is given up
  with the VT. A handler threads a record through the calls it makes; each call
  has a lemma that says which fields it changes (`Changes`) and what of them
  it establishes, and the calls for all terminals are folds, for which
  `FoldPasses` is the induction: what a call passes on, from the terminals
  called so far to one more, holds after the last.
  Exact, for rows of any length, needs what is between the frames (`Faithful`):
  what bbulk remembers of a cell is on the display and in the buffer that the
  display shows, and in the other buffer too unless the cell is damaged, so a
  cell may be skipped (`Remembers`); a frame that was handed over shows the
  console (`Seen`); the cursor that is noted for the display follows the pointer of
  the terminal in front, and what was committed is what was noted (`Aim`). It
  holds of a terminal that is awake and not about to draw from scratch; a mode set, new
  colours and a new size force two such frames, and the first of them shows
  everything because the damage is dropped with it. A display that comes or
  goes is the hard case: `Followed` says what holds when some of the terminals have
  taken on the new size, the one in front possibly not yet.
* `DrmProofs`: MasterAwake and `Good` (every display of the list has a CRTC of
  its own, and framebuffers if it is shown) with every failure; RefsOwed with no
  assumption, through plugging and unplugging: reading events, modesets and swaps
  move the references of a display and what its CRTC owes together
  (`OwedMoves`), and unbinding adds to `leaked` what it leaves (`BindsOwed`); and DeviceKept, that DrmVideo implements Device: the
  initial states are mapped to initial states and each action to one of Device
  or a stutter. Retried, with a CRTC for every connector (`EnoughCrtcs`; with
  fewer a cable that is moved is lost, see above) and atomic modesetting: every
  failure leaves `vt_timer`, a hotplug event or a poll behind that comes back
  to the connector (`RetryInv`).
* `FileProofs`, Conf: CommandLineWins and SeatComplete for any options and
  inputs of any length. The invariant says of each phase how far the two
  contexts agree with what the command line asked for.
* `FileProofs`, Sources: FirstVisible for any manifests, users, faults and
  lengths of a refresh. `SourcesInv` says it of the sources the refresh has
  been through (`SoFar`), and that the file that is open is the one at its
  path. Files grow older during a refresh; it stays true because what is shown
  depends on the age less the time the refresh has taken (`AgesTogether`).
* `LoginProofs`, HostLogin: WaitsForHelper, and KeptOneWay: of two terminals at
  most one is kept open by the child of the other, for any number of terminals,
  with crashes. The invariant (`HostInv`) is that the queue and the connection
  that is served are exactly the children that wait, each once.

The assumptions are those named in the modules (`SeatAssumption` and so on):
typing, and that the null values are no elements.

What recursive functions compute is proved by taking the least argument at
which the claim fails (`ReadChunks` in Pty).

Only model-checked: all liveness, because the prover has no fairness (Shown,
EnterTold, ExitNoticed, IdleRuns, LockFollows, CollectorRecovers, LoginComes,
ClosedLoginEnds); and HandleBack.

## Not modelled

* Selection in the terminal and what libtsm does with the text; the
  "largest" multi-monitor mode.
* Legacy modesetting beyond its result, overlays, gamma.
* The seatd protocol and D-Bus: request and reply in libraries. What libseat's
  callbacks do is in Seat.
* The fbdev backend: one display, with a timer instead of flips.
* Compose sequences, touchpad gestures, cursor arithmetic.
* `misc/asciinema.c`, the player of a recorded session, and `/etc/issue`.
* Pixels, glyphs, fonts, shaders, logging, module loading, allocation failures,
  hash tables and other containers.
* In Eloop counters, pre- and post-dispatch callbacks (unused), a loop as a
  source of another one, the timeout of `ev_eloop_run`.

## Plan

1. The safety parts of LoginComes, LockFollows, CollectorRecovers and IdleRuns,
   as ExitPending and EnterPending are those of ExitNoticed and EnterTold.
2. Seat's devices as instances of Device, so that the composition of Seat and
   DrmVideo follows from `DeviceKept`.
3. Several sessions in Frame with the cache corrected, selection, and the
   recording player's timer.
