------------------------------- MODULE VtReal -------------------------------
(***************************************************************************)
(* The real VT backend (src/src/uterm/vt_real.c) of the consoles that run  *)
(* on one machine, one per VT, and the kernel that switches between them.  *)
(*                                                                         *)
(* The kernel asks a console for its VT with SIGUSR2 and gives it back     *)
(* with SIGUSR1.  Each signal has a signalfd of its own, so the event loop *)
(* may serve them in either order, and late: what the kernel has done      *)
(* since is found out with VT_GETSTATE.  Every VT_RELDISP but a refusal    *)
(* completes a switch that is waiting, whichever signal it answers.        *)
(*                                                                         *)
(* Of the seat this module keeps what decides whether the VT is set up     *)
(* again when a session returns to the foreground (uterm_vt_restore).      *)
(***************************************************************************)
EXTENDS Naturals

CONSTANTS
  Vt,            \* the VTs of the machine
  NoVt,          \* no VT
  Console        \* the VTs a console runs on; the others are text VTs

ASSUME VtRealAssumption == NoVt \notin Vt /\ Console \subseteq Vt

VARIABLES
  shown,         \* kernel: the active VT (vt_stat.v_active)
  newvt,         \* kernel: the VT a switch waits to go to, until VT_RELDISP
  acqsig,        \* the consoles with a SIGUSR1 pending
  relsig,        \* the consoles with a SIGUSR2 pending
  open,          \* the consoles that are running, their VT in VT_PROCESS mode
  active,        \* uterm_vt.active
  delayed,       \* real_delayed: the idle callback is registered
  input,         \* the wake-ups of the input devices the backend holds
  opened,        \* the terminal of the session has been shown once
  seatFg,        \* seat.foreground
  sessFg,        \* current_sess.foreground
  rush,          \* a switch may be asked for before SIGUSR1 is served
  handover       \* sessions go to the background and return

\* How the machine is used does not change.
useVars    == <<rush, handover>>
kernelVars == <<shown, newvt>>
sigVars    == <<acqsig, relsig>>
vtVars     == <<open, active, delayed, input>>
seatVars   == <<opened, seatFg, sessFg>>
vars == <<kernelVars, sigVars, vtVars, seatVars, useVars>>

TypeOK ==
  /\ shown \in Vt /\ newvt \in Vt \cup {NoVt}
  /\ open \subseteq Console
  /\ acqsig \subseteq open /\ relsig \subseteq open
  /\ active \subseteq open /\ delayed \subseteq open
  /\ input \in [Console -> Nat]
  /\ opened \subseteq open /\ seatFg \subseteq open /\ sessFg \subseteq open
  /\ rush \in BOOLEAN /\ handover \in BOOLEAN

Bit(b) == IF b THEN 1 ELSE 0

-----------------------------------------------------------------------------
(***************************************************************************)
(* The kernel.                                                             *)
(***************************************************************************)

\* The VT v becomes the active one; its console, if any, is told.
ShowVt(v) == shown' = v /\ newvt' = NoVt

\* VT_RELDISP, not a refusal, by the console of the active VT.
RelDisp == IF newvt = NoVt THEN UNCHANGED kernelVars ELSE ShowVt(newvt)

\* The consoles with a SIGUSR1 pending after RelDisp, "rest" being those before.
Acquired(rest) == rest \cup ({newvt} \cap open)

\* VT_SETMODE by the console c forgets a switch that is waiting.
SetMode(c) == newvt' = (IF shown = c THEN NoVt ELSE newvt) /\ UNCHANGED shown

\* VT_ACTIVATE of v: the console of the active VT is asked for it.
AskRelease(v) ==
  /\ newvt' = v
  /\ relsig' = relsig \cup {shown}
  /\ UNCHANGED <<shown, acqsig>>

\* Some program, or a key on a text VT, asks for the VT v.
Activate(v) ==
  /\ v # shown
  /\ ~rush => shown \notin acqsig
  /\ \/ shown \in open /\ AskRelease(v)
     \/ /\ shown \notin open
        /\ ShowVt(v)
        /\ acqsig' = acqsig \cup ({v} \cap open)
        /\ UNCHANGED relsig
  /\ UNCHANGED <<vtVars, seatVars, useVars>>

-----------------------------------------------------------------------------
(***************************************************************************)
(* vt_cb_activate and vt_cb_deactivate (vt.c) with the seat's callbacks.   *)
(* seat_vt_deactivate never refuses (ForegroundAwake of module Seat).      *)
(***************************************************************************)
CbActivate(c) ==
  /\ active' = active \cup {c}
  /\ seatFg' = IF c \in active THEN seatFg ELSE seatFg \cup {c}
  /\ opened' = opened \cup {c}

CbDeactivate(c) ==
  /\ active' = active \ {c}
  /\ seatFg' = IF c \in active THEN seatFg \ {c} ELSE seatFg
  /\ UNCHANGED opened

\* real_delayed.
Delayed(c) ==
  /\ c \in delayed
  /\ delayed' = delayed \ {c}
  /\ CbActivate(c)
  /\ UNCHANGED <<kernelVars, sigVars, open, input, sessFg, useVars>>

\* Mutation: the switch is acknowledged and the seat not told.
SigEnterUntold(c) ==
  /\ c \in acqsig /\ shown = c
  /\ RelDisp
  /\ acqsig' = Acquired(acqsig \ {c})
  /\ UNCHANGED <<relsig, vtVars, seatVars, useVars>>

\* real_sig_enter on the active VT.
SigEnter(c) ==
  /\ c \in acqsig /\ shown = c
  /\ CbActivate(c)
  /\ delayed' = delayed \ {c}
  /\ input' = [input EXCEPT ![c] = @ + Bit(c \notin delayed \cup active)]
  /\ RelDisp
  /\ acqsig' = Acquired(acqsig \ {c})
  /\ UNCHANGED <<relsig, open, sessFg, useVars>>

\* real_sig_enter, too late: another VT is active.
SigEnterLate(c) ==
  /\ c \in acqsig /\ shown # c
  /\ acqsig' = acqsig \ {c}
  /\ UNCHANGED <<kernelVars, relsig, vtVars, seatVars, useVars>>

\* Mutations: the VT is released and the seat not told; the input devices of a
\* start on the active VT stay awake; a console that has not yet noticed that
\* it has the VT keeps it.
SigLeaveUntold(c) ==
  /\ c \in relsig /\ shown = c
  /\ RelDisp
  /\ acqsig' = Acquired(acqsig) /\ relsig' = relsig \ {c}
  /\ UNCHANGED <<vtVars, seatVars, useVars>>

SigLeaveActive(c) ==
  /\ c \in relsig /\ shown = c
  /\ CbDeactivate(c)
  /\ delayed' = delayed \ {c}
  /\ input' = [input EXCEPT ![c] = @ - Bit(c \in active)]
  /\ RelDisp
  /\ acqsig' = Acquired(acqsig) /\ relsig' = relsig \ {c}
  /\ UNCHANGED <<open, sessFg, useVars>>

\* real_sig_leave on the active VT.
SigLeave(c) ==
  /\ c \in relsig /\ shown = c
  /\ CbDeactivate(c)
  /\ delayed' = delayed \ {c}
  /\ input' = [input EXCEPT ![c] = @ - Bit(c \in delayed \cup active)]
  /\ RelDisp
  /\ acqsig' = Acquired(acqsig) /\ relsig' = relsig \ {c}
  /\ UNCHANGED <<open, sessFg, useVars>>

\* real_sig_leave, too late.
SigLeaveLate(c) ==
  /\ c \in relsig /\ shown # c
  /\ relsig' = relsig \ {c}
  /\ UNCHANGED <<kernelVars, acqsig, vtVars, seatVars, useVars>>

\* real_input: a key that switches to the VT v.
RealInput(c, v) ==
  /\ c \in active /\ shown = c /\ v # c
  /\ input[c] > 0
  /\ ~rush => c \notin acqsig
  /\ AskRelease(v)
  /\ UNCHANGED <<vtVars, seatVars, useVars>>

\* kmscon_session_set_background.
SetBackground(c) ==
  /\ handover /\ c \in opened \cap sessFg
  /\ sessFg' = sessFg \ {c} /\ seatFg' = seatFg \ {c}
  /\ UNCHANGED <<kernelVars, sigVars, vtVars, opened, useVars>>

\* real_restore sets the VT up again.
RealRestore(c) == SetMode(c)

\* kmscon_session_set_foreground: the VT is restored if the seat is in the
\* background; a sleeping seat stays there.
SetForeground(c) ==
  /\ handover /\ c \in opened \ sessFg
  /\ \/ /\ c \notin seatFg
        /\ RealRestore(c)
        /\ seatFg' = seatFg \cup ({c} \cap active)
        /\ sessFg' = sessFg \cup ({c} \cap active)
     \/ /\ c \in seatFg
        /\ sessFg' = sessFg \cup {c}
        /\ UNCHANGED <<kernelVars, seatFg>>
  /\ UNCHANGED <<sigVars, vtVars, opened, useVars>>

\* real_destroy, from kmscon_seat_free: when the program ends, and at once when
\* real_vt_input sees the terminal hang up.
Close(c) ==
  /\ c \in open
  /\ open' = open \ {c} /\ active' = active \ {c} /\ delayed' = delayed \ {c}
  /\ input' = [input EXCEPT ![c] = @ - Bit(c \in delayed \cup active)]
  /\ SetMode(c)
  /\ acqsig' = acqsig \ {c} /\ relsig' = relsig \ {c}
  /\ opened' = opened \ {c} /\ seatFg' = seatFg \ {c} /\ sessFg' = sessFg \ {c}
  /\ UNCHANGED useVars

\* uterm_vt_real_new and real_open: the program is started again on its VT,
\* which may be the active one.
Open(c) ==
  /\ c \notin open
  /\ open' = open \cup {c}
  /\ delayed' = delayed \cup ({c} \cap {shown})
  /\ input' = [input EXCEPT ![c] = Bit(shown = c)]
  /\ sessFg' = sessFg \cup {c}
  /\ UNCHANGED <<kernelVars, sigVars, active, opened, seatFg, useVars>>

\* The machine before a console is started.
Init ==
  /\ shown \in Vt /\ newvt = NoVt
  /\ acqsig = {} /\ relsig = {}
  /\ open = {} /\ active = {} /\ delayed = {}
  /\ input = [c \in Console |-> 0]
  /\ opened = {} /\ seatFg = {} /\ sessFg = {}
  /\ rush \in BOOLEAN /\ handover \in BOOLEAN

Next ==
  \/ \E v \in Vt : Activate(v)
  \/ \E c \in Console, v \in Vt : RealInput(c, v)
  \/ \E c \in Console :
       \/ Open(c) \/ Close(c) \/ Delayed(c)
       \/ SigEnter(c) \/ SigEnterLate(c) \/ SigLeave(c) \/ SigLeaveLate(c)
       \/ SetBackground(c) \/ SetForeground(c)

Spec == Init /\ [][Next]_vars

\* The event loop of every console serves a readable signalfd and an idle source.
Fairness ==
  \A c \in Console :
    /\ WF_vars(Delayed(c))
    /\ WF_vars(SigEnter(c) \/ SigEnterLate(c))
    /\ WF_vars(SigLeave(c) \/ SigLeaveLate(c))

FairSpec == Spec /\ Fairness

-----------------------------------------------------------------------------
\* The backend holds one wake-up of the input devices while the VT is active or
\* about to be activated, and none otherwise: signals that come late or in the
\* wrong order neither leave the keyboard to a console that gave up its VT nor
\* make an active one deaf (real_sig_enter, real_sig_leave, real_close).
InputHeld == \A c \in Console : input[c] = Bit(c \in active \cup delayed)

\* A seat is told that its VT is active only while it is, unless a switch was
\* asked for before the last one was noticed.  So at most one console at a time
\* draws and reads the keyboard, however often the consoles are switched,
\* started and ended.
ActiveOwnsVt == ~rush => \A c \in active \cup delayed : shown = c

\* The console of the VT the user looks at becomes active: no VT stays dark, if
\* switches come one at a time and the VT is not set up again meanwhile.
EnterTold ==
  \A c \in Console :
    (~rush /\ ~handover /\ shown = c /\ c \in open) ~> (c \in active \/ shown # c \/ c \notin open)
=============================================================================
