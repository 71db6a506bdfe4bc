----------------------------- MODULE InputProofs -----------------------------
(***************************************************************************)
(* Theorems about who may read the keyboard: the consoles of the VTs, each *)
(* of which wakes the input devices up and puts them to sleep (VtReal), and *)
(* the devices themselves (Devices).  The two models share no state: for   *)
(* Devices the wake-ups come in any order.  The theorems of the first part *)
(* are about any number of VTs and consoles, those of the second about any *)
(* number of devices, keys and waiting events.                             *)
(***************************************************************************)
EXTENDS VtReal, Devices, TLAPS

-----------------------------------------------------------------------------
(***************************************************************************)
(* VtReal.                                                                 *)
(***************************************************************************)
HeldInv == TypeOK /\ InputHeld

(***************************************************************************)
(* Types and the wake-ups of the input devices go together: a wake-up is   *)
(* given back only by a console that holds one, so the count stays a       *)
(* natural number.                                                         *)
(***************************************************************************)
LEMMA HeldInit == Init => HeldInv
  BY VtRealAssumption DEF Init, HeldInv, TypeOK, InputHeld, Bit

LEMMA HeldNext == HeldInv /\ [Next]_vars => HeldInv'
  <1> SUFFICES ASSUME HeldInv, [Next]_vars PROVE HeldInv'
    OBVIOUS
  <1> USE VtRealAssumption DEF HeldInv, TypeOK, InputHeld, Bit, useVars
  <1>1. ASSUME NEW v \in Vt, Activate(v) PROVE HeldInv'
    BY <1>1 DEF Activate, AskRelease, ShowVt, vtVars, seatVars
  <1>2. ASSUME NEW c \in Console, NEW v \in Vt, RealInput(c, v) PROVE HeldInv'
    BY <1>2 DEF RealInput, AskRelease, vtVars, seatVars
  <1>3. ASSUME NEW c \in Console, Open(c) PROVE HeldInv'
    BY <1>3 DEF Open, kernelVars, sigVars
  <1>4. ASSUME NEW c \in Console, Close(c) PROVE HeldInv'
    BY <1>4 DEF Close, SetMode
  <1>5. ASSUME NEW c \in Console, Delayed(c) PROVE HeldInv'
    BY <1>5 DEF Delayed, CbActivate, kernelVars, sigVars
  <1>6. ASSUME NEW c \in Console, SigEnter(c) PROVE HeldInv'
    BY <1>6 DEF SigEnter, CbActivate, RelDisp, ShowVt, Acquired, kernelVars
  <1>7. ASSUME NEW c \in Console, SigEnterLate(c) PROVE HeldInv'
    BY <1>7 DEF SigEnterLate, kernelVars, vtVars, seatVars
  <1>8. ASSUME NEW c \in Console, SigLeave(c) PROVE HeldInv'
    BY <1>8 DEF SigLeave, CbDeactivate, RelDisp, ShowVt, Acquired, kernelVars
  <1>9. ASSUME NEW c \in Console, SigLeaveLate(c) PROVE HeldInv'
    BY <1>9 DEF SigLeaveLate, kernelVars, vtVars, seatVars
  <1>10. ASSUME NEW c \in Console, SetBackground(c) PROVE HeldInv'
    BY <1>10 DEF SetBackground, kernelVars, sigVars, vtVars
  <1>11. ASSUME NEW c \in Console, SetForeground(c) PROVE HeldInv'
    BY <1>11 DEF SetForeground, RealRestore, SetMode, kernelVars, sigVars, vtVars
  <1>12. CASE UNCHANGED vars
    BY <1>12 DEF vars, kernelVars, sigVars, vtVars, seatVars
  <1> QED
    BY <1>1, <1>2, <1>3, <1>4, <1>5, <1>6, <1>7, <1>8, <1>9, <1>10, <1>11, <1>12
       DEF Next

\* The state of the VT backend and of the kernel keeps its type, with no bound
\* on the wake-ups of the input devices in the guards.
THEOREM TypeCorrect == Spec => []TypeOK
  <1>1. HeldInv => TypeOK
    BY DEF HeldInv
  <1> QED
    BY <1>1, HeldInit, HeldNext, PTL DEF Spec

\* The backend holds exactly one wake-up of the input devices while its VT is
\* active or about to be, in whatever order its signals arrive and however late.
THEOREM InputHeldCorrect == Spec => []InputHeld
  <1>1. HeldInv => InputHeld
    BY DEF HeldInv
  <1> QED
    BY <1>1, HeldInit, HeldNext, PTL DEF Spec

-----------------------------------------------------------------------------
(***************************************************************************)
(* ActiveOwnsVt is not inductive: real_sig_enter answers with VT_RELDISP,  *)
(* which gives the VT away if a switch is waiting.  It is kept by the fact *)
(* that a switch waits only for a console that has noticed that its VT is  *)
(* the active one; this is where a rush of switches would break it.        *)
(***************************************************************************)
OwnsInv ==
  /\ HeldInv
  /\ ActiveOwnsVt
  /\ ~rush /\ newvt # NoVt => shown \in open \ acqsig

LEMMA OwnsInit == Init => OwnsInv
  BY HeldInit DEF Init, OwnsInv, ActiveOwnsVt

LEMMA OwnsNext == OwnsInv /\ [Next]_vars => OwnsInv'
  <1> SUFFICES ASSUME OwnsInv, [Next]_vars PROVE OwnsInv'
    OBVIOUS
  <1>0. HeldInv'
    BY HeldNext DEF OwnsInv
  <1> USE VtRealAssumption, <1>0 DEF OwnsInv, HeldInv, ActiveOwnsVt, TypeOK, useVars
  <1>1. ASSUME NEW v \in Vt, Activate(v) PROVE OwnsInv'
    BY <1>1 DEF Activate, AskRelease, ShowVt, vtVars, seatVars
  <1>2. ASSUME NEW c \in Console, NEW v \in Vt, RealInput(c, v) PROVE OwnsInv'
    BY <1>2 DEF RealInput, AskRelease, vtVars, seatVars
  <1>3. ASSUME NEW c \in Console, Open(c) PROVE OwnsInv'
    BY <1>3 DEF Open, kernelVars, sigVars
  <1>4. ASSUME NEW c \in Console, Close(c) PROVE OwnsInv'
    BY <1>4 DEF Close, SetMode
  <1>5. ASSUME NEW c \in Console, Delayed(c) PROVE OwnsInv'
    BY <1>5 DEF Delayed, CbActivate, kernelVars, sigVars
  <1>6. ASSUME NEW c \in Console, SigEnter(c) PROVE OwnsInv'
    BY <1>6 DEF SigEnter, CbActivate, RelDisp, ShowVt, Acquired, kernelVars
  <1>7. ASSUME NEW c \in Console, SigEnterLate(c) PROVE OwnsInv'
    BY <1>7 DEF SigEnterLate, kernelVars, vtVars, seatVars
  <1>8. ASSUME NEW c \in Console, SigLeave(c) PROVE OwnsInv'
    BY <1>8 DEF SigLeave, CbDeactivate, RelDisp, ShowVt, Acquired, kernelVars
  <1>9. ASSUME NEW c \in Console, SigLeaveLate(c) PROVE OwnsInv'
    BY <1>9 DEF SigLeaveLate, kernelVars, vtVars, seatVars
  <1>10. ASSUME NEW c \in Console, SetBackground(c) PROVE OwnsInv'
    BY <1>10 DEF SetBackground, kernelVars, sigVars, vtVars
  <1>11. ASSUME NEW c \in Console, SetForeground(c) PROVE OwnsInv'
    BY <1>11 DEF SetForeground, RealRestore, SetMode, kernelVars, sigVars, vtVars
  <1>12. CASE UNCHANGED vars
    BY <1>12 DEF vars, kernelVars, sigVars, vtVars, seatVars
  <1> QED
    BY <1>1, <1>2, <1>3, <1>4, <1>5, <1>6, <1>7, <1>8, <1>9, <1>10, <1>11, <1>12
       DEF Next

\* If nobody asks for another VT before the console has served the signal that
\* gave it this one, a console is active only on the VT that is shown, and so at
\* most one console is.
THEOREM ActiveOwnsVtCorrect == Spec => []ActiveOwnsVt
  <1>1. OwnsInv => ActiveOwnsVt
    BY DEF OwnsInv
  <1>2. OwnsInv /\ [Next]_vars => OwnsInv'
    BY OwnsNext
  <1> QED
    BY <1>1, <1>2, OwnsInit, PTL DEF Spec
-----------------------------------------------------------------------------
(***************************************************************************)
(* What EnterTold rests on: a console whose VT is shown is active, or its  *)
(* event loop has something to serve that makes it so.  Where switches come *)
(* one at a time and the VT is not set up again meanwhile, a request to     *)
(* release the VT is always about a switch that still waits, so that no     *)
(* console gives up a VT that it keeps.                                     *)
(***************************************************************************)
EnterPending ==
  \A c \in open : shown = c => c \in active \cup delayed \cup acqsig

Asked == \A c \in relsig : shown = c /\ newvt # NoVt

AskedInv ==
  /\ OwnsInv
  /\ ~rush => newvt # shown
  /\ ~rush /\ ~handover => Asked /\ EnterPending

LEMMA AskedInit == Init => AskedInv
  BY OwnsInit, VtRealAssumption DEF Init, AskedInv, Asked, EnterPending

LEMMA AskedNext == AskedInv /\ [Next]_vars => AskedInv'
  <1> SUFFICES ASSUME AskedInv, [Next]_vars PROVE AskedInv'
    OBVIOUS
  <1>0. OwnsInv'
    BY OwnsNext DEF AskedInv
  <1> USE VtRealAssumption, <1>0
      DEF AskedInv, Asked, EnterPending, OwnsInv, HeldInv, TypeOK, useVars
  <1>1. ASSUME NEW v \in Vt, Activate(v) PROVE AskedInv'
    BY <1>1 DEF Activate, AskRelease, ShowVt, vtVars, seatVars
  <1>2. ASSUME NEW c \in Console, NEW v \in Vt, RealInput(c, v) PROVE AskedInv'
    BY <1>2 DEF RealInput, AskRelease, vtVars, seatVars
  <1>3. ASSUME NEW c \in Console, Open(c) PROVE AskedInv'
    BY <1>3 DEF Open, kernelVars, sigVars
  <1>4. ASSUME NEW c \in Console, Close(c) PROVE AskedInv'
    BY <1>4 DEF Close, SetMode
  <1>5. ASSUME NEW c \in Console, Delayed(c) PROVE AskedInv'
    BY <1>5 DEF Delayed, CbActivate, kernelVars, sigVars
  <1>6. ASSUME NEW c \in Console, SigEnter(c) PROVE AskedInv'
    BY <1>6 DEF SigEnter, CbActivate, RelDisp, ShowVt, Acquired, kernelVars
  <1>7. ASSUME NEW c \in Console, SigEnterLate(c) PROVE AskedInv'
    BY <1>7 DEF SigEnterLate, kernelVars, vtVars, seatVars
  <1>8. ASSUME NEW c \in Console, SigLeave(c) PROVE AskedInv'
    BY <1>8 DEF SigLeave, CbDeactivate, RelDisp, ShowVt, Acquired, kernelVars
  <1>9. ASSUME NEW c \in Console, SigLeaveLate(c) PROVE AskedInv'
    BY <1>9 DEF SigLeaveLate, kernelVars, vtVars, seatVars
  <1>10. ASSUME NEW c \in Console, SetBackground(c) PROVE AskedInv'
    BY <1>10 DEF SetBackground, kernelVars, sigVars, vtVars
  <1>11. ASSUME NEW c \in Console, SetForeground(c) PROVE AskedInv'
    BY <1>11 DEF SetForeground, RealRestore, SetMode, kernelVars, sigVars, vtVars
  <1>12. CASE UNCHANGED vars
    BY <1>12 DEF vars, kernelVars, sigVars, vtVars, seatVars
  <1> QED
    BY <1>1, <1>2, <1>3, <1>4, <1>5, <1>6, <1>7, <1>8, <1>9, <1>10, <1>11, <1>12
       DEF Next

\* The console of the VT that is shown is active, or its signal or its idle
\* callback is pending: no VT stays dark for want of somebody to notice
\* (real_sig_enter, real_sig_leave, real_open).
THEOREM EnterPendingCorrect == Spec => [](~rush /\ ~handover => EnterPending)
  <1>1. AskedInv => (~rush /\ ~handover => EnterPending)
    BY DEF AskedInv
  <1> QED
    BY <1>1, AskedInit, AskedNext, PTL DEF Spec

-----------------------------------------------------------------------------
(***************************************************************************)
(* Devices.                                                                *)
(***************************************************************************)
(***************************************************************************)
(* The devices as the functions of input.c see them, in a record, and what *)
(* each function makes of it.                                              *)
(***************************************************************************)
Event == {NoEvent} \cup (Keys \X BOOLEAN)

DevState ==
  [mon : SUBSET Node, handle : [Node -> Dev \cup {NoDev}], listed : SUBSET Dev,
   node : [Dev -> Node], initialized : SUBSET Dev, rfds : SUBSET Dev, stale : SUBSET Dev,
   fifo : [Dev -> Event], mods : SUBSET Dev, repeating : [Dev -> Key \cup {NoKey}],
   lost : SUBSET Node]

LEMMA StoreNow ==
  ASSUME NEW r \in DevState, Store(r)
  PROVE  Now' = r
  BY DEF Store, Now, DevState

LEMMA NowState ==
  ASSUME DevicesTypeOK
  PROVE  Now \in DevState
  BY DEF DevicesTypeOK, Now, DevState, Event

SameEntries(s, r) == s.mon = r.mon /\ s.handle = r.handle /\ s.node = r.node
SameKeys(s, r) == s.fifo = r.fifo /\ s.mods = r.mods /\ s.repeating = r.repeating

SleptTo(s, r, D) ==
  /\ s \in DevState /\ SameEntries(s, r) /\ s.listed = r.listed
  /\ s.initialized = r.initialized /\ s.rfds = r.rfds \ D /\ s.stale = r.stale \ D
  /\ s.fifo = [d \in Dev |-> IF d \in D THEN NoEvent ELSE r.fifo[d]]
  /\ s.mods = r.mods
  /\ s.repeating = [d \in Dev |-> IF d \in D THEN NoKey ELSE r.repeating[d]]
  /\ s.lost = r.lost

FreedTo(s, r, D) ==
  /\ s \in DevState /\ SameEntries(s, r) /\ s.listed = r.listed \ D
  /\ s.initialized = r.initialized \ D /\ s.rfds = r.rfds \ D /\ s.stale = r.stale \ D
  /\ s.fifo = [d \in Dev |-> IF d \in D THEN NoEvent ELSE r.fifo[d]]
  /\ s.mods = r.mods \ D
  /\ s.repeating = [d \in Dev |-> IF d \in D THEN NoKey ELSE r.repeating[d]]
  /\ s.lost = r.lost

LEMMA Slept ==
  ASSUME NEW r \in DevState, NEW D \in SUBSET Dev
  PROVE  SleptTo(SleepDevs(r, D), r, D)
  BY DEF SleptTo, SleepDevs, DevState, SameEntries, Event

LEMMA Freed ==
  ASSUME NEW r \in DevState, NEW D \in SUBSET Dev
  PROVE  FreedTo(FreeDevs(r, D), r, D)
  <1> DEFINE q == SleepDevs(r, D)
             s == FreeDevs(r, D)
  <1>1. s = [q EXCEPT !.listed = @ \ D, !.initialized = @ \ D, !.mods = @ \ D]
    BY DEF FreeDevs
  <1>2. SleptTo(q, r, D)
    BY Slept
  <1> HIDE DEF q, s
  <1>3. q \in DevState
    BY <1>2 DEF SleptTo
  <1>4. q = [mon |-> q.mon, handle |-> q.handle, listed |-> q.listed, node |-> q.node,
             initialized |-> q.initialized, rfds |-> q.rfds, stale |-> q.stale,
             fifo |-> q.fifo, mods |-> q.mods, repeating |-> q.repeating, lost |-> q.lost]
    BY <1>3 DEF DevState
  <1>5. s = [mon |-> q.mon, handle |-> q.handle, listed |-> q.listed \ D, node |-> q.node,
             initialized |-> q.initialized \ D, rfds |-> q.rfds, stale |-> q.stale,
             fifo |-> q.fifo, mods |-> q.mods \ D, repeating |-> q.repeating, lost |-> q.lost]
    BY <1>1, <1>4
  <1>6. s \in DevState
    BY <1>3, <1>5 DEF DevState
  <1>7. FreedTo(s, r, D)
    BY <1>2, <1>5, <1>6 DEF SleptTo, FreedTo, SameEntries
  <1> QED
    BY <1>7 DEF s

\* The nodes of the devices D that are there.
Missed(r, D) == {n \in NodesOf(r, D) : n \in present}

OpenedTo(s, r, S, D) ==
  /\ s \in DevState /\ SameEntries(s, r) /\ SameKeys(s, r) /\ s.listed = r.listed
  /\ s.initialized = r.initialized /\ s.rfds = r.rfds \cup S /\ s.stale = r.stale
  /\ s.lost = r.lost \cup Missed(r, D \ S)

\* Opening the devices S out of D changes no list and no key.
LEMMA OpenedFields ==
  ASSUME NEW r \in DevState, NEW S \in SUBSET Dev, NEW D \in SUBSET Dev
  PROVE  OpenedTo(Opened(r, S, D), r, S, D)
  <1> DEFINE L == Missed(r, D \ S)
             s == Opened(r, S, D)
  <1>1. L \in SUBSET Node
    BY DEF NodesOf, DevState, Missed
  <1>2. s = [r EXCEPT !.rfds = @ \cup S, !.lost = @ \cup L]
    BY DEF Opened, Missed
  <1> HIDE DEF L, s
  <1>3. s \in DevState
    BY <1>1, <1>2 DEF DevState
  <1>4. /\ SameEntries(s, r) /\ SameKeys(s, r) /\ s.listed = r.listed
        /\ s.initialized = r.initialized /\ s.rfds = r.rfds \cup S /\ s.stale = r.stale
        /\ s.lost = r.lost \cup L
    BY <1>2 DEF DevState, SameEntries, SameKeys
  <1> USE DEF L, s
  <1> QED
    BY <1>3, <1>4 DEF OpenedTo

LEMMA OpenableType ==
  ASSUME NEW r, NEW D, NEW S \in Openable(r, D)
  PROVE  S \subseteq D /\ \A d \in S : r.node[d] \in present
  BY DEF Openable

WokenTo(s, r, S, D) ==
  /\ s \in DevState /\ SameEntries(s, r) /\ s.listed = r.listed
  /\ s.initialized = r.initialized \cup S
  /\ s.rfds = r.rfds \cup S /\ s.stale = r.stale
  /\ s.fifo = r.fifo /\ s.mods = r.mods \ S /\ s.repeating = r.repeating
  /\ s.lost = r.lost \cup Missed(r, D \ S)
  /\ \A d \in S : r.node[d] \in present

LEMMA Woken ==
  ASSUME NEW r \in DevState, NEW D \in SUBSET Dev, NEW s \in WakeDevs(r, D)
  PROVE  \E S \in SUBSET D : WokenTo(s, r, S, D)
  <1>1. PICK S \in Openable(r, D) :
          s = [Opened(r, S, D) EXCEPT !.initialized = @ \cup S, !.mods = @ \ S]
    BY DEF WakeDevs
  <1>2. S \in SUBSET D /\ \A d \in S : r.node[d] \in present
    BY OpenableType
  <1> DEFINE q == Opened(r, S, D)
  <1>3. OpenedTo(q, r, S, D)
    <2>1. S \in SUBSET Dev
      BY <1>2
    <2> QED
      BY <2>1, OpenedFields
  <1>4. s = [q EXCEPT !.initialized = @ \cup S, !.mods = @ \ S]
    BY <1>1
  <1> HIDE DEF q
  <1>5. WokenTo(s, r, S, D)
    BY <1>2, <1>3, <1>4 DEF DevState, SameEntries, SameKeys, OpenedTo, WokenTo
  <1> QED
    BY <1>2, <1>5
(***************************************************************************)
(* The three results of input_add_dev: the device waits, is opened, or is  *)
(* forgotten.                                                              *)
(***************************************************************************)
SameDevs(s, r) ==
  /\ s.initialized = r.initialized /\ s.rfds = r.rfds /\ s.stale = r.stale
  /\ SameKeys(s, r)

Entered(s, r, n, d) ==
  /\ s.mon = r.mon /\ s.listed = r.listed \cup {d} /\ s.stale = r.stale /\ SameKeys(s, r)
  /\ s.handle = [r.handle EXCEPT ![n] = d] /\ s.node = [r.node EXCEPT ![d] = n]
  /\ s.lost = r.lost

Waits(s, r, n, d) ==
  s \in DevState /\ awake = 0 /\ Entered(s, r, n, d) /\ SameDevs(s, r)

Listens(s, r, n, d) ==
  /\ s \in DevState /\ awake # 0 /\ n \in present /\ n \in Useful /\ Entered(s, r, n, d)
  /\ s.rfds = r.rfds \cup {d} /\ s.initialized = r.initialized \cup {d}

Forgotten(s, r, n) ==
  /\ s \in DevState /\ awake # 0
  /\ s.mon = r.mon /\ s.listed = r.listed /\ s.node = r.node /\ SameDevs(s, r)
  /\ s.handle = [r.handle EXCEPT ![n] = NoDev]
  /\ r.lost \subseteq s.lost /\ s.lost \subseteq r.lost \cup {n}
  /\ n \in present /\ n \in Useful => n \in s.lost

\* The results of input_add_dev at the address d.
AddedAt(r, n, d) ==
  LET q == [r EXCEPT !.node[d] = n, !.handle[n] = d]
  IN  IF awake = 0 THEN {[q EXCEPT !.listed = @ \cup {d}]}
      ELSE {IF S = {} \/ n \notin Useful
            THEN [Opened(r, {}, {}) EXCEPT !.handle[n] = NoDev,
                    !.lost = IF S = {} THEN @ \cup ({n} \cap present) ELSE @]
            ELSE [Opened(q, S, {d}) EXCEPT !.listed = @ \cup S, !.initialized = @ \cup S] :
              S \in Openable(q, {d})}

LEMMA InputAdded ==
  ASSUME NEW r \in DevState, NEW n \in Node, NEW s \in InputAdd(r, n)
  PROVE  Forgotten(s, r, n) \/ \E d \in Free(r) : Waits(s, r, n, d) \/ Listens(s, r, n, d)
  <1> DEFINE q(d) == [r EXCEPT !.node[d] = n, !.handle[n] = d]
  <1>1. PICK d \in Free(r) :
          \/ awake = 0 /\ s = [q(d) EXCEPT !.listed = @ \cup {d}]
          \/ /\ awake # 0
             /\ \E S \in Openable(q(d), {d}) :
                  IF S = {} \/ n \notin Useful
                  THEN s = [Opened(r, {}, {}) EXCEPT !.handle[n] = NoDev,
                              !.lost = IF S = {} THEN @ \cup ({n} \cap present) ELSE @]
                  ELSE s = [Opened(q(d), S, {d}) EXCEPT !.listed = @ \cup S,
                                                        !.initialized = @ \cup S]
    <2>1. InputAdd(r, n) = UNION {AddedAt(r, n, d) : d \in Free(r)}
      BY DEF InputAdd, AddedAt
    <2>2. PICK d \in Free(r) : s \in AddedAt(r, n, d)
      BY <2>1
    <2>3. CASE awake = 0
      BY <2>2, <2>3 DEF AddedAt
    <2>4. CASE awake # 0
      BY <2>2, <2>4 DEF AddedAt
    <2> QED
      BY <2>3, <2>4
  <1>2. d \in Dev
    BY DEF Free
  <1> DEFINE p == q(d)
  <1>3. /\ p \in DevState
        /\ p.node = [r.node EXCEPT ![d] = n] /\ p.handle = [r.handle EXCEPT ![n] = d]
        /\ p.mon = r.mon /\ p.listed = r.listed /\ p.lost = r.lost
        /\ SameDevs(p, r)
    BY <1>2 DEF DevState, SameDevs, SameKeys
  <1>4. CASE awake = 0
    <2>1. s = [p EXCEPT !.listed = @ \cup {d}]
      BY <1>1, <1>4
    <2> HIDE DEF p
    <2>2. Waits(s, r, n, d)
      BY <1>2, <1>3, <1>4, <2>1 DEF DevState, Waits, Entered, SameDevs, SameKeys
    <2> QED
      BY <2>2
  <1>5. CASE awake # 0
    <2>1. PICK S \in Openable(p, {d}) :
            IF S = {} \/ n \notin Useful
            THEN s = [Opened(r, {}, {}) EXCEPT !.handle[n] = NoDev,
                        !.lost = IF S = {} THEN @ \cup ({n} \cap present) ELSE @]
            ELSE s = [Opened(p, S, {d}) EXCEPT !.listed = @ \cup S, !.initialized = @ \cup S]
      BY <1>1, <1>5
    <2>2. S \subseteq {d} /\ \A e \in S : p.node[e] \in present
      BY OpenableType
    <2> HIDE DEF p
    <2>3. p.node[d] = n
      BY <1>2, <1>3 DEF DevState
    <2>4. CASE S = {} \/ n \notin Useful
      <3> DEFINE o == Opened(r, {}, {})
      <3>1. OpenedTo(o, r, {}, {})
        BY OpenedFields
      <3>2. s = [o EXCEPT !.handle[n] = NoDev,
                          !.lost = IF S = {} THEN @ \cup ({n} \cap present) ELSE @]
        BY <2>1, <2>4
      <3> HIDE DEF o
      <3>3. Missed(r, {} \ {}) = {}
        BY DEF Missed, NodesOf
      <3>4. /\ o \in DevState /\ o.mon = r.mon /\ o.listed = r.listed /\ o.node = r.node
            /\ o.handle = r.handle /\ SameDevs(o, r) /\ o.lost = r.lost
        BY <3>1, <3>3 DEF OpenedTo, SameEntries, SameDevs
      <3>5. s \in DevState
        BY <3>2, <3>4 DEF DevState
      <3>6. /\ s.mon = o.mon /\ s.listed = o.listed /\ s.node = o.node /\ SameDevs(s, o)
            /\ s.handle = [o.handle EXCEPT ![n] = NoDev]
            /\ s.lost = IF S = {} THEN o.lost \cup ({n} \cap present) ELSE o.lost
        BY <3>2, <3>4 DEF DevState, SameDevs, SameKeys
      <3>7. Forgotten(s, r, n)
        BY <1>5, <2>4, <3>4, <3>5, <3>6 DEF Forgotten, SameDevs, SameKeys
      <3> QED
        BY <3>7
    <2>5. CASE S # {} /\ n \in Useful
      <3>1. S = {d} /\ n \in present
        BY <2>2, <2>3, <2>5
      <3> DEFINE o == Opened(p, {d}, {d})
      <3>2. OpenedTo(o, p, {d}, {d})
        BY <1>2, <1>3, OpenedFields
      <3>3. s = [o EXCEPT !.listed = @ \cup {d}, !.initialized = @ \cup {d}]
        BY <2>1, <2>5, <3>1
      <3> HIDE DEF o
      <3>4. Missed(p, {d} \ {d}) = {}
        BY DEF Missed, NodesOf
      <3>5. o \in DevState
        BY <3>2 DEF OpenedTo
      <3>6. s \in DevState /\ SameEntries(s, o) /\ SameKeys(s, o) /\ s.listed = o.listed \cup {d}
            /\ s.initialized = o.initialized \cup {d} /\ s.rfds = o.rfds /\ s.stale = o.stale
            /\ s.lost = o.lost
        BY <1>2, <3>3, <3>5 DEF DevState, SameEntries, SameKeys
      <3>7. Listens(s, r, n, d)
        BY <1>3, <1>5, <2>5, <3>1, <3>2, <3>4, <3>6
           DEF Listens, Entered, OpenedTo, SameEntries, SameKeys, SameDevs
      <3> QED
        BY <3>7
    <2> QED
      BY <2>4, <2>5
  <1> QED
    BY <1>4, <1>5

(***************************************************************************)
(* mon_free_dev: the entry goes, and with it the device it has.            *)
(***************************************************************************)
EntryFreed(s, r, n) ==
  LET D == {r.handle[n]} \cap r.listed
  IN  /\ s \in DevState
      /\ s.mon = r.mon \ {n} /\ s.handle = [r.handle EXCEPT ![n] = NoDev] /\ s.node = r.node
      /\ s.listed = r.listed \ D
      /\ s.initialized = r.initialized \ D /\ s.rfds = r.rfds \ D /\ s.stale = r.stale \ D
      /\ s.fifo = [d \in Dev |-> IF d \in D THEN NoEvent ELSE r.fifo[d]]
      /\ s.mods = r.mods \ D
      /\ s.repeating = [d \in Dev |-> IF d \in D THEN NoKey ELSE r.repeating[d]]
      /\ s.lost = r.lost \ {n}

LEMMA MonFreed ==
  ASSUME NEW r \in DevState, NEW n \in Node
  PROVE  EntryFreed(MonFree(r, n), r, n)
  <1> DEFINE D == {r.handle[n]} \cap r.listed
             q == InputRemove(r, r.handle[n])
             s == MonFree(r, n)
  <1>0. D \in SUBSET Dev
    BY DEF DevState
  <1>1. FreedTo(q, r, D)
    <2>1. CASE r.handle[n] \in r.listed
      <3>1. q = FreeDevs(r, D)
        <4>1. D = {r.handle[n]}
          BY <2>1
        <4> QED
          BY <2>1, <4>1 DEF InputRemove
      <3> QED
        BY <1>0, <3>1, Freed
    <2>2. CASE r.handle[n] \notin r.listed
      <3>1. q = r /\ D = {}
        BY <2>2 DEF InputRemove
      <3> HIDE DEF D, q
      <3> QED
        BY <3>1 DEF FreedTo, SameEntries, DevState
    <2> QED
      BY <2>1, <2>2
  <1>2. s = [q EXCEPT !.mon = @ \ {n}, !.handle[n] = NoDev, !.lost = @ \ {n}]
    BY DEF MonFree
  <1> HIDE DEF D, q, s
  <1>3. q \in DevState
    BY <1>1 DEF FreedTo
  <1>4. s \in DevState
    BY <1>2, <1>3 DEF DevState
  <1>5. /\ s.mon = q.mon \ {n} /\ s.handle = [q.handle EXCEPT ![n] = NoDev]
        /\ s.lost = q.lost \ {n} /\ s.node = q.node /\ s.listed = q.listed
        /\ SameDevs(s, q)
    BY <1>2, <1>3 DEF DevState, SameDevs, SameKeys
  <1>6. EntryFreed(s, r, n)
    BY <1>1, <1>4, <1>5 DEF EntryFreed, FreedTo, SameEntries, SameDevs, SameKeys, D
  <1> QED
    BY <1>6 DEF s
(***************************************************************************)
(* Keys.  An event that was not read yet explains a modifier or a repeat   *)
(* whose key is up already; a device that is not open has neither.         *)
(***************************************************************************)
Unread(r, d, k) == r.fifo[d] # NoEvent /\ r.fifo[d][1] = k

HeldDown(r, d, K) ==
  /\ r.fifo[d] # NoEvent => (r.fifo[d][2] <=> r.fifo[d][1] \in K)
  /\ d \in r.mods => Modifier \in K \/ Unread(r, d, Modifier)
  /\ r.repeating[d] \in K \cup Silent \cup {NoKey} \/ Unread(r, d, r.repeating[d])

KeyGood(r, a, keys) ==
  /\ r \in DevState
  /\ r.stale \subseteq r.rfds /\ r.rfds \subseteq r.initialized
  /\ r.initialized \subseteq r.listed /\ r.mods \subseteq r.listed
  /\ a = 0 => r.rfds = {}
  /\ \A d \in Dev \ r.rfds : r.repeating[d] = NoKey /\ r.fifo[d] = NoEvent
  /\ \A d \in r.rfds \ r.stale : HeldDown(r, d, keys[r.node[d]])

LEMMA KeySleep ==
  ASSUME NEW r, NEW a, NEW keys, KeyGood(r, a, keys), NEW D \in SUBSET Dev
  PROVE  LET s == SleepDevs(r, D) IN KeyGood(s, a, keys) /\ SleptTo(s, r, D)
  <1> DEFINE s == SleepDevs(r, D)
  <1>1. SleptTo(s, r, D)
    BY Slept DEF KeyGood
  <1> HIDE DEF s
  <1>2. KeyGood(s, a, keys)
    BY <1>1 DEF SleptTo, KeyGood, SameEntries, HeldDown, Unread, DevState
  <1> QED
    BY <1>1, <1>2 DEF s

LEMMA KeyFree ==
  ASSUME NEW r, NEW a, NEW keys, KeyGood(r, a, keys), NEW D \in SUBSET Dev
  PROVE  LET s == FreeDevs(r, D) IN KeyGood(s, a, keys) /\ FreedTo(s, r, D)
  <1> DEFINE s == FreeDevs(r, D)
  <1>1. FreedTo(s, r, D)
    BY Freed DEF KeyGood
  <1> HIDE DEF s
  <1>2. KeyGood(s, a, keys)
    BY <1>1 DEF FreedTo, KeyGood, SameEntries, HeldDown, Unread, DevState
  <1> QED
    BY <1>1, <1>2 DEF s

LEMMA KeyMonFree ==
  ASSUME NEW r, NEW a, NEW keys, KeyGood(r, a, keys), NEW n \in Node
  PROVE  LET s == MonFree(r, n) IN KeyGood(s, a, keys) /\ EntryFreed(s, r, n)
  <1> DEFINE s == MonFree(r, n)
             D == {r.handle[n]} \cap r.listed
  <1>1. EntryFreed(s, r, n)
    BY MonFreed DEF KeyGood
  <1> HIDE DEF s
  <1>2. /\ s \in DevState /\ s.node = r.node
        /\ s.listed = r.listed \ D
        /\ s.initialized = r.initialized \ D /\ s.rfds = r.rfds \ D /\ s.stale = r.stale \ D
        /\ s.fifo = [d \in Dev |-> IF d \in D THEN NoEvent ELSE r.fifo[d]]
        /\ s.mods = r.mods \ D
        /\ s.repeating = [d \in Dev |-> IF d \in D THEN NoKey ELSE r.repeating[d]]
    BY <1>1 DEF EntryFreed
  <1> HIDE DEF D
  <1>3. KeyGood(s, a, keys)
    BY <1>2 DEF KeyGood, HeldDown, Unread, DevState
  <1> QED
    BY <1>1, <1>3 DEF s

\* A device that is opened starts without keys.
LEMMA KeyWake ==
  ASSUME NEW r, NEW a, NEW keys, KeyGood(r, a, keys), NEW b, b # 0,
         NEW S \in SUBSET r.listed, S \cap r.rfds = {},
         NEW D, NEW s, WokenTo(s, r, S, D)
  PROVE  KeyGood(s, b, keys)
  BY DEF KeyGood, WokenTo, SameEntries, HeldDown, Unread, DevState

LEMMA KeyAdd ==
  ASSUME NEW r, NEW keys, KeyGood(r, awake, keys), NEW n \in Node, NEW s \in InputAdd(r, n)
  PROVE  /\ KeyGood(s, awake, keys)
         /\ Forgotten(s, r, n) \/ \E d \in Free(r) : Waits(s, r, n, d) \/ Listens(s, r, n, d)
  <1>1. r \in DevState
    BY DEF KeyGood
  <1>2. Forgotten(s, r, n) \/ \E d \in Free(r) : Waits(s, r, n, d) \/ Listens(s, r, n, d)
    BY <1>1, InputAdded
  <1>3. CASE Forgotten(s, r, n)
    BY <1>3 DEF KeyGood, Forgotten, SameDevs, SameKeys, HeldDown, Unread, DevState
  <1>4. ASSUME NEW d \in Free(r), Waits(s, r, n, d) PROVE KeyGood(s, awake, keys)
    BY <1>4 DEF KeyGood, Waits, Entered, SameDevs, SameKeys, HeldDown, Unread, DevState, Free
  <1>5. ASSUME NEW d \in Free(r), Listens(s, r, n, d) PROVE KeyGood(s, awake, keys)
    <2>1. d \in Dev \ r.listed
      BY DEF Free
    <2>2. d \notin r.rfds /\ d \notin r.mods /\ d \notin r.stale
      BY <2>1 DEF KeyGood
    <2>3. HeldDown(s, d, keys[s.node[d]])
      BY <1>5, <2>1, <2>2 DEF KeyGood, Listens, Entered, SameKeys, HeldDown
    <2>4. \A e \in r.rfds \ r.stale : HeldDown(s, e, keys[s.node[e]])
      BY <1>5, <2>1, <2>2 DEF KeyGood, Listens, Entered, SameKeys, HeldDown, Unread, DevState
    <2> QED
      BY <1>5, <2>1, <2>2, <2>3, <2>4 DEF KeyGood, Listens, Entered, SameKeys, DevState
  <1> QED
    BY <1>2, <1>3, <1>4, <1>5
(***************************************************************************)
(* What an event of udev makes of the devices.                             *)
(***************************************************************************)
Appears(r, n) == [r EXCEPT !.mon = @ \cup {n}]

\* monitor_udev_add refuses the node n.
Ignored(r, n) == n \in r.mon \/ n \notin present \/ Outdated(n) \/ n \notin ours

LEMMA KeyAppears ==
  ASSUME NEW r, NEW a, NEW keys, KeyGood(r, a, keys), NEW n \in Node
  PROVE  LET s == Appears(r, n)
         IN  /\ KeyGood(s, a, keys) /\ s.mon = r.mon \cup {n} /\ s.handle = r.handle
             /\ s.node = r.node /\ s.listed = r.listed /\ s.lost = r.lost /\ SameDevs(s, r)
  <1> DEFINE s == Appears(r, n)
  <1>1. r \in DevState
    BY DEF KeyGood
  <1>2. s = [r EXCEPT !.mon = @ \cup {n}]
    BY DEF Appears
  <1> HIDE DEF s
  <1>3. /\ s \in DevState /\ s.mon = r.mon \cup {n} /\ s.handle = r.handle /\ s.node = r.node
        /\ s.listed = r.listed /\ s.lost = r.lost /\ SameDevs(s, r)
    BY <1>1, <1>2 DEF DevState, SameDevs, SameKeys
  <1>4. KeyGood(s, a, keys)
    BY <1>3 DEF KeyGood, SameDevs, SameKeys, HeldDown, Unread
  <1> QED
    BY <1>3, <1>4 DEF s

LEMMA KeyUdevAdd ==
  ASSUME NEW r, NEW keys, KeyGood(r, awake, keys), NEW n \in Node, NEW s \in UdevAdd(r, n)
  PROVE  /\ KeyGood(s, awake, keys)
         /\ \/ Ignored(r, n) /\ s = r
            \/ ~Ignored(r, n) /\ s \in InputAdd(Appears(r, n), n)
  <1>1. CASE Ignored(r, n)
    BY <1>1 DEF UdevAdd, Ignored
  <1>2. CASE ~Ignored(r, n)
    <2>1. s \in InputAdd(Appears(r, n), n)
      BY <1>2 DEF UdevAdd, Ignored, Appears
    <2>2. KeyGood(Appears(r, n), awake, keys)
      BY KeyAppears
    <2> QED
      BY <1>2, <2>1, <2>2, KeyAdd
  <1> QED
    BY <1>1, <1>2

LEMMA KeyUdevRemove ==
  ASSUME NEW r, NEW a, NEW keys, KeyGood(r, a, keys), NEW n \in Node, NEW s \in UdevRemove(r, n)
  PROVE  /\ KeyGood(s, a, keys)
         /\ \/ n \notin r.mon /\ s = r
            \/ n \in r.mon /\ EntryFreed(s, r, n)
  BY KeyMonFree DEF UdevRemove

LEMMA KeyUdevChange ==
  ASSUME NEW r, NEW keys, KeyGood(r, awake, keys), NEW n \in Node, NEW here \in BOOLEAN,
         NEW s \in UdevChange(r, n, here)
  PROVE  /\ KeyGood(s, awake, keys)
         /\ \/ n \in r.mon /\ here /\ s = r
            \/ n \notin r.mon /\ s \in UdevAdd(r, n)
            \/ n \in r.mon /\ ~here /\ s \in UdevAdd(MonFree(r, n), n)
  <1>1. CASE n \in r.mon /\ here
    BY <1>1 DEF UdevChange
  <1>2. CASE n \notin r.mon
    <2>1. s \in UdevAdd(r, n)
      BY <1>2 DEF UdevChange
    <2> QED
      BY <1>2, <2>1, KeyUdevAdd
  <1>3. CASE n \in r.mon /\ ~here
    <2>1. s \in UdevAdd(MonFree(r, n), n)
      BY <1>3 DEF UdevChange
    <2>2. KeyGood(MonFree(r, n), awake, keys)
      BY KeyMonFree
    <2> QED
      BY <1>3, <2>1, <2>2, KeyUdevAdd
  <1> QED
    BY <1>1, <1>2, <1>3

(***************************************************************************)
(* Every step keeps the types and what is known of the keys.               *)
(***************************************************************************)
Message == [act : {"add", "remove", "change"}, node : Node, ours : BOOLEAN]

SeatType(p, o, q, a, keys) ==
  /\ p \subseteq Node /\ o \subseteq Node /\ q \in Seq(Message)
  /\ a \in 0 .. MaxAwake /\ keys \in [Node -> SUBSET Keys]

KeyInv == SeatType(present, ours, queue, awake, down) /\ KeyGood(Now, awake, down)

LEMMA KeyInvType == KeyInv => DevicesTypeOK
  BY DEF KeyInv, SeatType, KeyGood, DevState, Now, Event, DevicesTypeOK, Message

\* A step that stores r keeps the invariant.
LEMMA KeyStore ==
  ASSUME NEW r, NEW a, NEW keys, KeyGood(r, a, keys), Store(r), awake' = a, down' = keys,
         SeatType(present', ours', queue', awake', down')
  PROVE  KeyInv' /\ Now' = r
  <1>1. r \in DevState
    BY DEF KeyGood
  <1>2. Now' = r
    BY <1>1, StoreNow
  <1> QED
    BY <1>2 DEF KeyInv

LEMMA TailType ==
  ASSUME NEW q \in Seq(Message), q # <<>>
  PROVE  Head(q) \in Message /\ Tail(q) \in Seq(Message)
  OBVIOUS

LEMMA KeyUdevEvent == KeyInv /\ UdevEvent => KeyInv'
  <1> SUFFICES ASSUME KeyInv, UdevEvent PROVE KeyInv'
    OBVIOUS
  <1> DEFINE e == Head(queue)
  <1>1. e \in Message /\ Tail(queue) \in Seq(Message)
    BY TailType DEF KeyInv, SeatType, UdevEvent
  <1>2. e.node \in Node /\ e.ours \in BOOLEAN /\ e.act \in {"add", "remove", "change"}
    BY <1>1 DEF Message
  <1>3. PICK r : /\ \/ e.act = "add" /\ r \in UdevAdd(Now, e.node)
                    \/ e.act = "remove" /\ r \in UdevRemove(Now, e.node)
                    \/ e.act = "change" /\ r \in UdevChange(Now, e.node, e.ours)
                 /\ Store(r)
    BY <1>2 DEF UdevEvent
  <1> HIDE DEF e
  <1>4. KeyGood(r, awake, down)
    BY <1>2, <1>3, KeyUdevAdd, KeyUdevRemove, KeyUdevChange DEF KeyInv
  <1>5. awake' = awake /\ down' = down /\ present' = present /\ ours' = ours
        /\ queue' = Tail(queue)
    BY DEF UdevEvent
  <1> QED
    BY <1>1, <1>3, <1>4, <1>5, KeyStore DEF KeyInv, SeatType
\* A step that changes none of the devices.
LEMMA KeySame ==
  ASSUME KeyInv, UNCHANGED <<monVars, devVars, keyVars, lost>>, NEW a, NEW keys,
         KeyGood(Now, a, keys), awake' = a, down' = keys,
         SeatType(present', ours', queue', awake', down')
  PROVE  KeyInv' /\ Now' = Now
  BY DEF KeyInv, Now, monVars, devVars, keyVars

LEMMA KeyWakeUp == KeyInv /\ WakeUp => KeyInv'
  <1> SUFFICES ASSUME KeyInv, WakeUp PROVE KeyInv'
    OBVIOUS
  <1> DEFINE usable == {d \in listed : node[d] \in Useful}
  <1>1. KeyGood(Now, awake, down) /\ SeatType(present, ours, queue, awake, down)
    BY DEF KeyInv
  <1>2. SeatType(present', ours', queue', awake', down') /\ awake' = awake + 1 /\ awake' # 0
        /\ down' = down
    BY <1>1, DevicesAssumption DEF WakeUp, SeatType, hwVars
  <1>3. CASE awake > 0
    <2>1. UNCHANGED <<monVars, devVars, keyVars, lost>>
      BY <1>3, <1>1 DEF WakeUp, SeatType
    <2>2. KeyGood(Now, awake + 1, down)
      BY <1>1, <1>2 DEF KeyGood
    <2> QED
      BY <1>2, <2>1, <2>2, KeySame
  <1>4. CASE awake = 0
    <2>1. PICK r \in WakeDevs(Now, usable) : Store(FreeDevs(r, listed \ r.rfds))
      BY <1>4 DEF WakeUp
    <2>2. Now \in DevState /\ Now.listed = listed /\ Now.rfds = {}
      BY <1>1, <1>4 DEF KeyGood, Now
    <2>3. usable \in SUBSET Dev /\ usable \subseteq Now.listed
      BY <2>2 DEF DevState
    <2> HIDE DEF usable
    <2>4. PICK S \in SUBSET usable : WokenTo(r, Now, S, usable)
      BY <2>1, <2>2, <2>3, Woken
    <2>5. KeyGood(r, awake', down)
      BY <1>1, <1>2, <2>2, <2>3, <2>4, KeyWake
    <2>6. KeyGood(FreeDevs(r, listed \ r.rfds), awake', down)
      BY <2>2, <2>5, KeyFree DEF DevState
    <2> QED
      BY <1>2, <2>1, <2>6, KeyStore
  <1> QED
    BY <1>1, <1>3, <1>4 DEF SeatType

LEMMA KeySleeps == KeyInv /\ Sleep => KeyInv'
  <1> SUFFICES ASSUME KeyInv, Sleep PROVE KeyInv'
    OBVIOUS
  <1> DEFINE r == IF awake = 1 THEN SleepDevs(Now, rfds) ELSE Now
  <1>1. KeyGood(Now, awake, down) /\ SeatType(present, ours, queue, awake, down)
    BY DEF KeyInv
  <1>2. SeatType(present', ours', queue', awake', down') /\ awake' = awake - 1 /\ awake # 0
        /\ down' = down
    BY <1>1, DevicesAssumption DEF Sleep, SeatType, hwVars
  <1>3. KeyGood(r, awake', down)
    <2>1. CASE awake = 1
      <3>1. rfds \in SUBSET Dev /\ Now.rfds = rfds
        BY <1>1 DEF KeyGood, DevState, Now
      <3>2. KeyGood(r, awake, down) /\ SleptTo(r, Now, rfds)
        BY <1>1, <2>1, <3>1, KeySleep
      <3>3. r.rfds = {}
        BY <3>1, <3>2 DEF SleptTo
      <3> QED
        BY <3>2, <3>3 DEF KeyGood
    <2>2. CASE awake # 1
      BY <1>1, <1>2, <2>2 DEF KeyGood, SeatType
    <2> QED
      BY <2>1, <2>2
  <1>4. Store(r)
    BY DEF Sleep
  <1> HIDE DEF r
  <1> QED
    BY <1>2, <1>3, <1>4, KeyStore

\* input_update_keymap up to the opening: the keyboards are closed, without keys.
ClosedKeyboards == [SleepDevs(Now, Typing) EXCEPT !.mods = @ \ Typing]

LEMMA KeyClosed ==
  ASSUME KeyInv
  PROVE  LET s == ClosedKeyboards
         IN  /\ KeyGood(s, awake, down) /\ SameEntries(s, Now) /\ s.listed = listed
             /\ s.initialized = initialized /\ s.rfds = rfds \ Typing
             /\ s.stale = stale \ Typing /\ s.lost = lost
             /\ Typing \in SUBSET Dev /\ Typing \in SUBSET listed
  <1> DEFINE q == SleepDevs(Now, Typing)
             s == ClosedKeyboards
  <1>1. KeyGood(Now, awake, down)
    BY DEF KeyInv
  <1>2. Typing \in SUBSET Dev /\ Typing \in SUBSET listed
    BY <1>1 DEF KeyGood, DevState, Now, Typing
  <1>3. KeyGood(q, awake, down) /\ SleptTo(q, Now, Typing)
    BY <1>1, <1>2, KeySleep
  <1>4. s = [q EXCEPT !.mods = @ \ Typing]
    BY DEF ClosedKeyboards
  <1> HIDE DEF q, s
  <1>5. q \in DevState
    BY <1>3 DEF KeyGood
  <1>6. /\ s \in DevState /\ SameEntries(s, q) /\ s.listed = q.listed
        /\ s.initialized = q.initialized /\ s.rfds = q.rfds /\ s.stale = q.stale
        /\ s.fifo = q.fifo /\ s.mods = q.mods \ Typing /\ s.repeating = q.repeating
        /\ s.lost = q.lost
    BY <1>4, <1>5 DEF DevState, SameEntries
  <1>7. KeyGood(s, awake, down)
    BY <1>3, <1>6 DEF KeyGood, SameEntries, HeldDown, Unread
  <1>8. /\ SameEntries(s, Now) /\ s.listed = listed /\ s.initialized = initialized
        /\ s.rfds = rfds \ Typing /\ s.stale = stale \ Typing /\ s.lost = lost
    BY <1>3, <1>6 DEF SleptTo, SameEntries, Now
  <1> QED
    BY <1>2, <1>7, <1>8 DEF s

LEMMA KeyUpdateKeymap == KeyInv /\ UpdateKeymap => KeyInv'
  <1> SUFFICES ASSUME KeyInv, UpdateKeymap PROVE KeyInv'
    OBVIOUS
  <1> DEFINE f == ClosedKeyboards
  <1>1. /\ KeyGood(f, awake, down) /\ f.rfds = rfds \ Typing /\ f.listed = listed
        /\ Typing \in SUBSET Dev /\ Typing \in SUBSET listed
    BY KeyClosed
  <1>2. /\ SeatType(present', ours', queue', awake', down')
        /\ awake' = awake /\ down' = down
    BY DEF UpdateKeymap, SeatType, hwVars, KeyInv
  <1>3. PICK r \in (IF awake = 0 THEN {f} ELSE WakeDevs(f, Typing)) : Store(r)
    BY DEF UpdateKeymap, ClosedKeyboards
  <1> HIDE DEF f
  <1>4. KeyGood(r, awake, down)
    <2>1. CASE awake = 0
      BY <1>1, <1>3, <2>1
    <2>2. CASE awake # 0
      <3>1. r \in WakeDevs(f, Typing) /\ f \in DevState
        BY <1>1, <1>3, <2>2 DEF KeyGood
      <3>2. PICK S \in SUBSET Typing : WokenTo(r, f, S, Typing)
        BY <1>1, <3>1, Woken
      <3>3. S \cap f.rfds = {} /\ S \in SUBSET f.listed
        BY <1>1
      <3> QED
        BY <1>1, <2>2, <3>2, <3>3, KeyWake
    <2> QED
      BY <2>1, <2>2
  <1> QED
    BY <1>2, <1>3, <1>4, KeyStore
LEMMA KeyHangup ==
  ASSUME KeyInv, NEW d \in Dev, Hangup(d)
  PROVE  KeyInv'
  <1>1. KeyGood(FreeDevs(Now, {d}), awake, down)
    BY KeyFree DEF KeyInv
  <1>2. /\ SeatType(present', ours', queue', awake', down')
        /\ awake' = awake /\ down' = down
    BY DEF Hangup, SeatType, hwVars, KeyInv
  <1> QED
    BY <1>1, <1>2, KeyStore DEF Hangup

\* The event that is read explains what it changes.
LEMMA KeyReadKey ==
  ASSUME KeyInv, NEW d \in Dev, ReadKey(d)
  PROVE  KeyInv'
  <1> DEFINE k == fifo[d][1]
             pressed == fifo[d][2]
             K == down[node[d]]
  <1>1. KeyGood(Now, awake, down) /\ SeatType(present, ours, queue, awake, down)
    BY DEF KeyInv
  <1>2. /\ mods \subseteq Dev /\ rfds \subseteq Dev /\ node \in [Dev -> Node]
        /\ fifo \in [Dev -> Event] /\ repeating \in [Dev -> Key \cup {NoKey}]
        /\ mods \subseteq listed /\ rfds \subseteq initialized /\ initialized \subseteq listed
    BY <1>1 DEF KeyGood, DevState, Now
  <1>3. d \in rfds \ stale /\ fifo[d] # NoEvent /\ k \in Keys /\ pressed \in BOOLEAN
    BY <1>2 DEF ReadKey, Event
  <1>4. /\ pressed <=> k \in K
        /\ d \in mods => Modifier \in K \/ k = Modifier
        /\ repeating[d] \in K \cup Silent \cup {NoKey} \/ k = repeating[d]
    BY <1>1, <1>3 DEF KeyGood, HeldDown, Unread, Now
  <1>5. mods' = IF k # Modifier THEN mods ELSE IF pressed THEN mods \cup {d} ELSE mods \ {d}
    BY DEF ReadKey
  <1>6. PICK composing \in {FALSE, pressed} :
          repeating' = [repeating EXCEPT ![d] =
                IF composing \/ (k \in Silent /\ d \in mods) THEN @
                ELSE Repeats(d, k, pressed)]
    BY DEF ReadKey
  <1>7. fifo' = [fifo EXCEPT ![d] = NoEvent]
        /\ UNCHANGED <<hwVars, monVars, devVars, awake, down, lost>>
    BY DEF ReadKey
  <1> HIDE DEF k, pressed, K
  <1>8. d \in mods' => Modifier \in K
    BY <1>3, <1>4, <1>5
  <1>9. /\ repeating' \in [Dev -> Key \cup {NoKey}]
        /\ repeating'[d] \in K \cup Silent \cup {NoKey}
        /\ \A e \in Dev \ {d} : repeating'[e] = repeating[e]
    <2>1. repeating[d] \in Key \cup {NoKey}
      BY <1>2
    <2> DEFINE v == IF composing \/ (k \in Silent /\ d \in mods) THEN repeating[d]
                    ELSE Repeats(d, k, pressed)
    <2>2. repeating' = [repeating EXCEPT ![d] = v]
      BY <1>6
    <2>3. v \in Key \cup {NoKey} /\ v \in K \cup Silent \cup {NoKey}
      <3>1. Modifier # NoKey /\ Modifier \notin Key
        BY <2>1, <1>3, DevicesAssumption DEF Modifier, NoKey
      <3>2. CASE composing \/ (k \in Silent /\ d \in mods)
        <4>1. v = repeating[d]
          BY <3>2
        <4>2. CASE composing
          BY <1>3, <1>4, <1>6, <2>1, <4>1, <4>2
        <4>3. CASE k \in Silent
          BY <1>4, <2>1, <4>1, <4>3
        <4> QED
          BY <2>1, <3>2, <4>1, <4>2, <4>3
      <3>3. CASE ~(composing \/ (k \in Silent /\ d \in mods))
        <4>1. v = Repeats(d, k, pressed)
          BY <3>3
        <4> HIDE DEF v
        <4> QED
          BY <1>3, <1>4, <2>1, <3>1, <4>1 DEF Repeats, Keys
      <3> QED
        BY <3>2, <3>3
    <2> HIDE DEF v
    <2> QED
      BY <1>2, <1>3, <2>2, <2>3
  <1>10. /\ Now'.fifo = fifo' /\ Now'.mods = mods' /\ Now'.repeating = repeating'
         /\ Now'.rfds = rfds /\ Now'.stale = stale /\ Now'.listed = listed
         /\ Now'.initialized = initialized /\ Now'.node = node
    BY <1>7 DEF Now, monVars, devVars
  <1>11. Now' \in DevState
    <2>1. fifo' \in [Dev -> Event] /\ mods' \in SUBSET Dev
      BY <1>2, <1>5, <1>7 DEF Event
    <2> QED
      BY <1>1, <1>7, <1>9, <2>1 DEF KeyGood, DevState, Now, monVars, devVars
  <1>12. HeldDown(Now', d, K)
    BY <1>3, <1>2, <1>7, <1>8, <1>9, <1>10 DEF HeldDown, Unread
  <1>13. ASSUME NEW e \in rfds \ stale, e # d PROVE HeldDown(Now', e, down[node[e]])
    <2>1. HeldDown(Now, e, down[node[e]])
      BY <1>1 DEF KeyGood, Now
    <2>2. fifo'[e] = fifo[e] /\ repeating'[e] = repeating[e] /\ (e \in mods' <=> e \in mods)
      BY <1>2, <1>3, <1>5, <1>7, <1>9, <1>13
    <2> QED
      BY <1>10, <2>1, <2>2 DEF HeldDown, Unread, Now
  <1>14. KeyGood(Now', awake, down)
    <2>1. mods' \subseteq listed
      BY <1>2, <1>3, <1>5
    <2>2. \A e \in Dev \ rfds : repeating'[e] = NoKey /\ fifo'[e] = NoEvent
      BY <1>1, <1>2, <1>3, <1>7, <1>9 DEF KeyGood, Now
    <2>3. \A e \in rfds \ stale : HeldDown(Now', e, down[node[e]])
      BY <1>12, <1>13 DEF K
    <2>4. stale \subseteq rfds /\ (awake = 0 => rfds = {})
      BY <1>1 DEF KeyGood, Now
    <2> QED
      BY <1>2, <1>10, <1>11, <2>1, <2>2, <2>3, <2>4 DEF KeyGood
  <1> QED
    BY <1>1, <1>7, <1>14 DEF KeyInv, hwVars

LEMMA AppendType ==
  ASSUME NEW q \in Seq(Message), NEW m \in Message
  PROVE  Append(q, m) \in Seq(Message)
  OBVIOUS

LEMMA KeyPlug ==
  ASSUME KeyInv, NEW n \in Node, Plug(n)
  PROVE  KeyInv'
  <1>1. SeatType(present', ours', queue', awake', down')
    BY AppendType DEF Plug, Sent, KeyInv, SeatType, Message
  <1> QED
    BY <1>1, KeySame DEF Plug, KeyInv, keyVars

LEMMA KeyAttach ==
  ASSUME KeyInv, NEW n \in Node, Attach(n)
  PROVE  KeyInv'
  <1>1. SeatType(present', ours', queue', awake', down')
    BY AppendType DEF Attach, Sent, KeyInv, SeatType, Message
  <1> QED
    BY <1>1, KeySame DEF Attach, KeyInv, keyVars

LEMMA KeyUnplug ==
  ASSUME KeyInv, NEW n \in Node, Unplug(n)
  PROVE  KeyInv'
  <1> DEFINE gone == {d \in rfds : node[d] = n}
  <1>1. KeyGood(Now, awake, down) /\ SeatType(present, ours, queue, awake, down)
    BY DEF KeyInv
  <1>2. SeatType(present', ours', queue', awake', down')
    BY <1>1, AppendType DEF Unplug, Sent, SeatType, Message
  <1>3. /\ stale' = stale \cup gone
        /\ fifo' = [d \in Dev |-> IF d \in gone THEN NoEvent ELSE fifo[d]]
        /\ down' = [down EXCEPT ![n] = {}]
        /\ UNCHANGED <<monVars, listed, node, initialized, rfds, awake, mods, repeating, lost>>
    BY DEF Unplug
  <1>4. gone \subseteq rfds /\ \A d \in rfds \ gone : node[d] # n
    OBVIOUS
  <1> HIDE DEF gone
  <1>5. /\ Now'.stale = stale' /\ Now'.fifo = fifo' /\ Now'.mods = mods
        /\ Now'.repeating = repeating /\ Now'.rfds = rfds /\ Now'.listed = listed
        /\ Now'.initialized = initialized /\ Now'.node = node
    BY <1>3 DEF Now, monVars
  <1>6. Now' \in DevState
    <2>1. stale' \in SUBSET Dev /\ fifo' \in [Dev -> Event]
      BY <1>1, <1>3, <1>4 DEF KeyGood, DevState, Now, Event
    <2> QED
      BY <1>1, <1>3, <2>1 DEF KeyGood, DevState, Now, monVars
  <1>7. ASSUME NEW d \in rfds \ stale' PROVE HeldDown(Now', d, down'[node[d]])
    <2>1. d \in rfds \ stale /\ d \notin gone /\ d \in Dev
      BY <1>1, <1>3 DEF KeyGood, Now, DevState
    <2>2. HeldDown(Now, d, down[node[d]]) /\ node[d] # n /\ node[d] \in Node
      BY <1>1, <1>4, <2>1 DEF KeyGood, Now, DevState
    <2>3. down'[node[d]] = down[node[d]] /\ fifo'[d] = fifo[d]
      BY <1>1, <1>3, <2>1, <2>2 DEF SeatType
    <2> QED
      BY <1>5, <2>2, <2>3 DEF HeldDown, Unread, Now
  <1>8. KeyGood(Now', awake, down')
    BY <1>1, <1>3, <1>4, <1>5, <1>6, <1>7 DEF KeyGood, Now
  <1> QED
    BY <1>2, <1>3, <1>8 DEF KeyInv

LEMMA KeyType ==
  ASSUME KeyInv, NEW n \in Node, NEW k \in Keys, Type(n, k)
  PROVE  KeyInv'
  <1> DEFINE readers == {d \in rfds \ stale : node[d] = n}
             e == <<k, k \notin down[n]>>
  <1>1. KeyGood(Now, awake, down) /\ SeatType(present, ours, queue, awake, down)
    BY DEF KeyInv
  <1>2. /\ \A d \in readers : fifo[d] = NoEvent
        /\ fifo' = [d \in Dev |-> IF d \in readers THEN e ELSE fifo[d]]
        /\ down' = [down EXCEPT ![n] = IF k \in @ THEN @ \ {k} ELSE @ \cup {k}]
        /\ UNCHANGED <<hwVars, monVars, devVars, awake, mods, repeating, lost>>
    BY DEF Type
  <1>3. e \in Keys \X BOOLEAN /\ e[1] = k /\ e[2] = (k \notin down[n]) /\ e # NoEvent
    <2>1. e \in Keys \X BOOLEAN /\ e[1] = k /\ e[2] = (k \notin down[n])
      OBVIOUS
    <2>2. Len(e) = 2 /\ Len(<<>>) = 0
      OBVIOUS
    <2>3. e # NoEvent
      BY <2>2 DEF NoEvent
    <2> QED
      BY <2>1, <2>3
  <1>4. readers \subseteq rfds \ stale /\ \A d \in rfds \ stale : d \in readers <=> node[d] = n
    OBVIOUS
  <1> HIDE DEF readers, e
  <1>5. down' \in [Node -> SUBSET Keys] /\ down[n] \in SUBSET Keys
    BY <1>1, <1>2 DEF SeatType
  <1>6. SeatType(present', ours', queue', awake', down')
    BY <1>1, <1>2, <1>5 DEF SeatType, hwVars
  <1>7. /\ Now'.stale = stale /\ Now'.fifo = fifo' /\ Now'.mods = mods
        /\ Now'.repeating = repeating /\ Now'.rfds = rfds /\ Now'.listed = listed
        /\ Now'.initialized = initialized /\ Now'.node = node
    BY <1>2 DEF Now, monVars, devVars
  <1>8. Now' \in DevState
    <2>1. fifo' \in [Dev -> Event]
      BY <1>1, <1>2, <1>3 DEF KeyGood, DevState, Now, Event
    <2> QED
      BY <1>1, <1>2, <2>1 DEF KeyGood, DevState, Now, monVars, devVars
  <1>9. ASSUME NEW d \in rfds \ stale PROVE HeldDown(Now', d, down'[node[d]])
    <2>1. d \in Dev /\ node[d] \in Node /\ HeldDown(Now, d, down[node[d]])
      BY <1>1 DEF KeyGood, Now, DevState
    <2>2. CASE node[d] = n
      <3>1. fifo[d] = NoEvent /\ fifo'[d] = e
        BY <1>2, <1>4, <2>1, <2>2
      <3>2. down'[n] = IF k \in down[n] THEN down[n] \ {k} ELSE down[n] \cup {k}
        BY <1>1, <1>2 DEF SeatType
      <3>3. d \in mods => Modifier \in down'[n] \/ k = Modifier
        BY <2>1, <2>2, <3>1, <3>2 DEF HeldDown, Unread, Now
      <3>4. repeating[d] \in down'[n] \cup Silent \cup {NoKey} \/ k = repeating[d]
        BY <2>1, <2>2, <3>1, <3>2 DEF HeldDown, Unread, Now
      <3>5. e[2] <=> k \in down'[n]
        BY <1>3, <3>2
      <3> QED
        BY <1>3, <1>7, <2>2, <3>1, <3>3, <3>4, <3>5 DEF HeldDown, Unread
    <2>3. CASE node[d] # n
      <3>1. fifo'[d] = fifo[d] /\ down'[node[d]] = down[node[d]]
        BY <1>1, <1>2, <1>4, <2>1, <2>3 DEF SeatType
      <3> QED
        BY <1>7, <2>1, <3>1 DEF HeldDown, Unread, Now
    <2> QED
      BY <2>2, <2>3
  <1>10. KeyGood(Now', awake, down')
    <2>1. \A d \in Dev \ rfds : repeating[d] = NoKey /\ fifo'[d] = NoEvent
      BY <1>1, <1>2, <1>4 DEF KeyGood, Now
    <2> QED
      BY <1>1, <1>7, <1>8, <1>9, <2>1 DEF KeyGood, Now
  <1> QED
    BY <1>2, <1>6, <1>10 DEF KeyInv

LEMMA OneMessage == ASSUME NEW m \in Message PROVE <<m>> \in Seq(Message)
  OBVIOUS

LEMMA KeyInit == DevicesInit => KeyInv
  <1> SUFFICES ASSUME DevicesInit PROVE KeyInv
    OBVIOUS
  <1>1. SeatType(present, ours, queue, awake, down)
    <2>1. ASSUME NEW n \in present
          PROVE  <<[act |-> "add", node |-> n, ours |-> TRUE]>> \in Seq(Message)
      <3>1. [act |-> "add", node |-> n, ours |-> TRUE] \in Message
        BY DEF DevicesInit, Message
      <3> QED
        BY <3>1, OneMessage
    <2>2. queue \in Seq(Message)
      <3>1. <<>> \in Seq(Message)
        OBVIOUS
      <3>2. \/ queue = <<>>
            \/ \E n \in present : queue = <<[act |-> "add", node |-> n, ours |-> TRUE]>>
        BY DEF DevicesInit
      <3> QED
        BY <2>1, <3>1, <3>2
    <2> QED
      BY <2>2, DevicesAssumption DEF DevicesInit, SeatType
  <1>2. Now \in DevState
    BY DEF DevicesInit, Now, DevState, Event
  <1> QED
    BY <1>1, <1>2 DEF DevicesInit, KeyInv, KeyGood, Now

LEMMA KeyNext == KeyInv /\ [DevicesNext]_devicesVars => KeyInv'
  <1> SUFFICES ASSUME KeyInv, [DevicesNext]_devicesVars PROVE KeyInv'
    OBVIOUS
  <1>1. CASE UNCHANGED devicesVars
    BY <1>1 DEF devicesVars, hwVars, monVars, devVars, keyVars, KeyInv, Now
  <1> QED
    BY <1>1, KeyUdevEvent, KeyWakeUp, KeySleeps, KeyUpdateKeymap, KeyHangup, KeyReadKey,
       KeyPlug, KeyUnplug, KeyAttach, KeyType DEF DevicesNext

\* The lists of the devices keep their types: what is open was probed and is
\* listed, and only what is open can have lost its hardware.
THEOREM DevicesTypeCorrect == DevicesSpec => []DevicesTypeOK
  BY KeyInit, KeyNext, KeyInvType, PTL DEF DevicesSpec

\* While another VT is in front no device is open and no key repeats, for any
\* devices that come, move and get another keymap meanwhile, and with failures and
\* addresses that are used again (input_sleep, input_add_dev, input_update_keymap).
THEOREM ClosedAsleepCorrect == DevicesSpec => []ClosedAsleep
  <1>1. KeyInv => ClosedAsleep
    BY DEF KeyInv, KeyGood, Now, ClosedAsleep
  <1> QED
    BY <1>1, KeyInit, KeyNext, PTL DEF DevicesSpec

\* When everything was read, a modifier in effect and a key that repeats are held
\* down, whatever happened to the device before (uxkb_dev_process,
\* uxkb_dev_repeat, uxkb_dev_wake_up).
THEOREM NothingSticksCorrect == DevicesSpec => []NothingSticks
  <1>1. KeyInv => NothingSticks
    BY DEF KeyInv, KeyGood, Now, NothingSticks, HeldDown, Unread
  <1> QED
    BY <1>1, KeyInit, KeyNext, PTL DEF DevicesSpec
(***************************************************************************)
(* Every device is that of the entry of its own node, although an address  *)
(* that an entry still has may be used again.                              *)
(***************************************************************************)
OwnGood(r) == \A d \in r.listed : r.node[d] \in r.mon /\ r.handle[r.node[d]] = d

\* Devices only leave the list.
LEMMA OwnShrinks ==
  ASSUME NEW r, OwnGood(r), NEW s, SameEntries(s, r), s.listed \subseteq r.listed
  PROVE  OwnGood(s)
  BY DEF OwnGood, SameEntries

\* An entry takes a device along when it goes, its own if it has one.
LEMMA OwnFree ==
  ASSUME NEW r \in DevState, OwnGood(r), NEW n \in Node, NEW s, EntryFreed(s, r, n)
  PROVE  OwnGood(s) /\ n \notin s.mon
  <1>1. /\ s.mon = r.mon \ {n} /\ s.handle = [r.handle EXCEPT ![n] = NoDev] /\ s.node = r.node
        /\ s.listed = r.listed \ ({r.handle[n]} \cap r.listed)
    BY DEF EntryFreed
  <1>2. ASSUME NEW d \in s.listed PROVE s.node[d] \in s.mon /\ s.handle[s.node[d]] = d
    <2>1. d \in r.listed /\ d # r.handle[n] /\ r.node[d] \in r.mon /\ r.handle[r.node[d]] = d
      BY <1>1 DEF OwnGood
    <2> QED
      BY <1>1, <2>1 DEF DevState
  <1> QED
    BY <1>1, <1>2 DEF OwnGood

\* A new device is not in the list, and its node had no entry.
LEMMA OwnAdd ==
  ASSUME NEW r, NEW keys, KeyGood(r, awake, keys), OwnGood(r),
         NEW n \in Node, NEW s \in UdevAdd(r, n)
  PROVE  OwnGood(s)
  <1> DEFINE q == Appears(r, n)
  <1>1. CASE Ignored(r, n)
    BY <1>1, KeyUdevAdd
  <1>2. CASE ~Ignored(r, n)
    <2>1. s \in InputAdd(q, n) /\ n \notin r.mon
      BY <1>2, KeyUdevAdd DEF Ignored
    <2>2. /\ KeyGood(q, awake, keys) /\ q.mon = r.mon \cup {n} /\ q.handle = r.handle
          /\ q.node = r.node /\ q.listed = r.listed
      BY KeyAppears
    <2> HIDE DEF q
    <2>3. Forgotten(s, q, n) \/ \E d \in Free(q) : Waits(s, q, n, d) \/ Listens(s, q, n, d)
      BY <2>1, <2>2, KeyAdd
    <2>4. /\ r.listed \subseteq Dev /\ r.handle \in [Node -> Dev \cup {NoDev}]
          /\ r.node \in [Dev -> Node] /\ r.mon \subseteq Node
      BY DEF KeyGood, DevState
    <2>5. \A e \in r.listed : r.node[e] \in r.mon /\ r.node[e] # n /\ r.handle[r.node[e]] = e
      BY <2>1 DEF OwnGood
    <2>6. CASE Forgotten(s, q, n)
      <3>1. /\ s.mon = r.mon \cup {n} /\ s.listed = r.listed /\ s.node = r.node
            /\ s.handle = [r.handle EXCEPT ![n] = NoDev]
        BY <2>2, <2>6 DEF Forgotten
      <3> QED
        BY <2>4, <2>5, <3>1 DEF OwnGood
    <2>7. ASSUME NEW d \in Free(q), Waits(s, q, n, d) \/ Listens(s, q, n, d)
          PROVE  OwnGood(s)
      <3>1. d \in Dev \ r.listed
        BY <2>2 DEF Free
      <3>2. /\ s.mon = r.mon \cup {n} /\ s.listed = r.listed \cup {d}
            /\ s.handle = [r.handle EXCEPT ![n] = d] /\ s.node = [r.node EXCEPT ![d] = n]
        BY <2>2, <2>7 DEF Waits, Listens, Entered
      <3>3. s.node[d] = n /\ s.handle[n] = d /\ \A e \in r.listed : s.node[e] = r.node[e]
        BY <2>4, <3>1, <3>2
      <3> QED
        BY <2>4, <2>5, <3>2, <3>3 DEF OwnGood
    <2> QED
      BY <2>3, <2>6, <2>7
  <1> QED
    BY <1>1, <1>2

OwnInv == KeyInv /\ OwnGood(Now)

LEMMA OwnUdevEvent ==
  ASSUME OwnInv, UdevEvent
  PROVE  OwnGood(Now')
  <1> DEFINE e == Head(queue)
             n == e.node
  <1>1. n \in Node /\ e.ours \in BOOLEAN /\ e.act \in {"add", "remove", "change"}
    BY TailType DEF OwnInv, KeyInv, SeatType, UdevEvent, Message
  <1>2. PICK r : /\ \/ e.act = "add" /\ r \in UdevAdd(Now, n)
                    \/ e.act = "remove" /\ r \in UdevRemove(Now, n)
                    \/ e.act = "change" /\ r \in UdevChange(Now, n, e.ours)
                 /\ Store(r)
    BY <1>1 DEF UdevEvent
  <1> HIDE DEF e, n
  <1>3. KeyGood(Now, awake, down) /\ OwnGood(Now) /\ Now \in DevState
    BY DEF OwnInv, KeyInv, KeyGood
  <1>4. KeyGood(r, awake, down)
    BY <1>1, <1>2, <1>3, KeyUdevAdd, KeyUdevRemove, KeyUdevChange
  <1>5. ASSUME r \in UdevAdd(Now, n) PROVE OwnGood(r)
    BY <1>1, <1>3, <1>5, OwnAdd
  <1>6. ASSUME r \in UdevRemove(Now, n) PROVE OwnGood(r)
    BY <1>1, <1>3, <1>6, KeyUdevRemove, OwnFree
  <1>7. ASSUME r \in UdevChange(Now, n, e.ours) PROVE OwnGood(r)
    <2> DEFINE f == MonFree(Now, n)
    <2>1. KeyGood(f, awake, down) /\ EntryFreed(f, Now, n)
      BY <1>1, <1>3, KeyMonFree
    <2>2. OwnGood(f)
      BY <1>1, <1>3, <2>1, OwnFree
    <2>3. r = Now \/ r \in UdevAdd(Now, n) \/ r \in UdevAdd(f, n)
      BY <1>1, <1>3, <1>7, KeyUdevChange
    <2> HIDE DEF f
    <2> QED
      BY <1>1, <1>3, <2>1, <2>2, <2>3, OwnAdd
  <1>8. OwnGood(r)
    BY <1>2, <1>5, <1>6, <1>7
  <1>9. Now' = r
    BY <1>2, <1>4, StoreNow DEF KeyGood
  <1> QED
    BY <1>8, <1>9

\* Every other step leaves the entries alone, and adds no device.
LEMMA OwnOthers ==
  ASSUME KeyInv, [DevicesNext]_devicesVars, ~UdevEvent
  PROVE  UNCHANGED <<monVars, node>> /\ listed' \subseteq listed
  <1>0. /\ KeyGood(Now, awake, down) /\ Now \in DevState /\ Now.listed = listed
        /\ listed \in SUBSET Dev /\ rfds \in SUBSET Dev /\ awake \in Nat
        /\ Now.mon = mon /\ Now.handle = handle /\ Now.node = node
    BY DevicesAssumption DEF KeyInv, SeatType, KeyGood, DevState, Now
  <1>1. ASSUME NEW s, Store(s), SameEntries(s, Now), s.listed \subseteq listed
        PROVE  UNCHANGED <<monVars, node>> /\ listed' \subseteq listed
    BY <1>0, <1>1 DEF Store, SameEntries, monVars
  <1>2. CASE WakeUp /\ awake = 0
    <2> DEFINE usable == {d \in listed : node[d] \in Useful}
    <2>1. PICK r \in WakeDevs(Now, usable) : Store(FreeDevs(r, listed \ r.rfds))
      BY <1>2 DEF WakeUp
    <2>2. usable \in SUBSET Dev
      BY <1>0
    <2> HIDE DEF usable
    <2>3. PICK S \in SUBSET usable : WokenTo(r, Now, S, usable)
      BY <1>0, <2>1, <2>2, Woken
    <2>4. FreedTo(FreeDevs(r, listed \ r.rfds), r, listed \ r.rfds)
      BY <1>0, <2>3, Freed DEF WokenTo
    <2> QED
      BY <1>0, <1>1, <2>1, <2>3, <2>4 DEF WokenTo, FreedTo, SameEntries
  <1>3. CASE WakeUp /\ awake # 0
    BY <1>0, <1>3 DEF WakeUp, devVars
  <1>4. CASE Sleep
    <2>1. SleptTo(SleepDevs(Now, rfds), Now, rfds)
      BY <1>0, Slept
    <2>2. CASE awake = 1
      BY <1>0, <1>1, <1>4, <2>1, <2>2 DEF Sleep, SleptTo
    <2>3. CASE awake # 1
      BY <1>0, <1>1, <1>4, <2>3 DEF Sleep, SameEntries
    <2> QED
      BY <2>2, <2>3
  <1>5. CASE UpdateKeymap
    <2> DEFINE f == ClosedKeyboards
    <2>1. /\ KeyGood(f, awake, down) /\ SameEntries(f, Now) /\ f.listed = listed
          /\ Typing \in SUBSET Dev
      BY KeyClosed
    <2>2. PICK r \in (IF awake = 0 THEN {f} ELSE WakeDevs(f, Typing)) : Store(r)
      BY <1>5 DEF UpdateKeymap, ClosedKeyboards
    <2> HIDE DEF f
    <2>3. r = f \/ \E S \in SUBSET Typing : WokenTo(r, f, S, Typing)
      BY <2>1, <2>2, Woken DEF KeyGood
    <2> QED
      BY <1>1, <2>1, <2>2, <2>3 DEF WokenTo, SameEntries
  <1>6. ASSUME NEW d \in Dev, Hangup(d) PROVE UNCHANGED <<monVars, node>> /\ listed' \subseteq listed
    <2>1. FreedTo(FreeDevs(Now, {d}), Now, {d})
      BY <1>0, Freed
    <2> QED
      BY <1>0, <1>1, <1>6, <2>1 DEF Hangup, FreedTo
  <1>7. ASSUME NEW d \in Dev, ReadKey(d) PROVE UNCHANGED <<monVars, node>> /\ listed' \subseteq listed
    BY <1>7 DEF ReadKey, devVars
  <1>8. ASSUME NEW n \in Node, Plug(n) \/ Unplug(n) \/ Attach(n) \/ \E k \in Keys : Type(n, k)
        PROVE  UNCHANGED <<monVars, node>> /\ listed' \subseteq listed
    BY <1>8 DEF Plug, Unplug, Attach, Type, devVars
  <1>9. CASE UNCHANGED devicesVars
    BY <1>9 DEF devicesVars, devVars
  <1> QED
    BY <1>2, <1>3, <1>4, <1>5, <1>6, <1>7, <1>8, <1>9 DEF DevicesNext

\* Each device of the list has the entry of its node, and the entry has its
\* address, so that it is freed with the entry at the latest and no node has two,
\* for any number of devices and although malloc uses addresses again that
\* entries still have (mon_free_dev, input_add_dev, input_remove_dev).
THEOREM OwnEntryCorrect ==
  DevicesSpec => [](\A d \in listed : node[d] \in mon /\ handle[node[d]] = d)
  <1> DEFINE Own == \A d \in listed : node[d] \in mon /\ handle[node[d]] = d
  <1>1. OwnGood(Now) <=> Own
    BY DEF OwnGood, Now
  <1>2. DevicesInit => KeyInv /\ Own
    BY KeyInit DEF DevicesInit
  <1>3. KeyInv /\ Own /\ [DevicesNext]_devicesVars => KeyInv' /\ Own'
    <2> SUFFICES ASSUME KeyInv, Own, [DevicesNext]_devicesVars PROVE KeyInv' /\ Own'
      OBVIOUS
    <2>1. CASE UdevEvent
      <3>1. OwnGood(Now')
        BY <1>1, <2>1, OwnUdevEvent DEF OwnInv
      <3> QED
        BY <3>1, KeyNext DEF OwnGood, Now
    <2>2. CASE ~UdevEvent
      BY <2>2, OwnOthers, KeyNext DEF monVars
    <2> QED
      BY <2>1, <2>2
  <1> QED
    BY <1>2, <1>3, PTL DEF DevicesSpec
-----------------------------------------------------------------------------
(***************************************************************************)
(* The list and the entries of the monitor, where an address is not used   *)
(* again while an entry has it.                                            *)
(***************************************************************************)
EntryGood(r, d) ==
  /\ r.node[d] \in r.mon /\ r.handle[r.node[d]] = d
  /\ \A n \in r.mon : r.handle[n] = d => n = r.node[d]

\* The entries own the devices, and what is open is there, or gone, and of use.
DevGood(r, p) ==
  /\ \A d \in r.listed : EntryGood(r, d)
  /\ \A d \in r.rfds \ r.stale : r.node[d] \in p
  /\ \A d \in r.rfds : r.node[d] \in Useful

\* What the lists say of the node n is the same in s and in r.
Alike(s, r, n) ==
  /\ n \in s.mon <=> n \in r.mon
  /\ n \in s.lost <=> n \in r.lost
  /\ \A d \in Dev : /\ d \in s.listed /\ s.node[d] = n <=> d \in r.listed /\ r.node[d] = n
                    /\ d \in s.rfds /\ s.node[d] = n <=> d \in r.rfds /\ r.node[d] = n
                    /\ d \in s.stale /\ s.node[d] = n <=> d \in r.stale /\ r.node[d] = n

Elsewhere(s, r, n) == \A m \in Node \ {n} : Alike(s, r, m)

\* A device that was listened to when its entry was made is open.
Heard(r, n, a) ==
  n \in Useful \ r.lost =>
    \E d \in r.listed : r.node[d] = n /\ (a # 0 => d \in r.rfds)

\* The node n has no entry, and no device.
Gone(r, n) == n \notin r.mon /\ \A d \in r.listed : r.node[d] # n

LEMMA FreeEntry ==
  ASSUME NEW r, NEW a, NEW keys, KeyGood(r, a, keys), NEW p, DevGood(r, p),
         NEW n \in r.mon, NEW s, EntryFreed(s, r, n)
  PROVE  DevGood(s, p) /\ Elsewhere(s, r, n) /\ Gone(s, n)
  <1> DEFINE D == {r.handle[n]} \cap r.listed
  <1>1. /\ s.mon = r.mon \ {n} /\ s.handle = [r.handle EXCEPT ![n] = NoDev] /\ s.node = r.node
        /\ s.listed = r.listed \ D /\ s.rfds = r.rfds \ D /\ s.stale = r.stale \ D
        /\ s.lost = r.lost \ {n}
    BY DEF EntryFreed
  <1>2. \A d \in r.listed : d \in D <=> r.node[d] = n
    BY DEF DevGood, EntryGood
  <1>3. /\ r.handle \in [Node -> Dev \cup {NoDev}] /\ r.mon \subseteq Node
        /\ r.stale \subseteq r.rfds /\ r.rfds \subseteq r.listed
    BY DEF KeyGood, DevState
  <1> HIDE DEF D
  <1>4. Gone(s, n)
    BY <1>1, <1>2 DEF Gone
  <1>5. Elsewhere(s, r, n)
    BY <1>1, <1>2, <1>3 DEF Elsewhere, Alike
  <1>6. ASSUME NEW d \in s.listed PROVE EntryGood(s, d)
    <2>1. d \in r.listed /\ r.node[d] # n
      BY <1>1, <1>2
    <2>2. EntryGood(r, d)
      BY <2>1 DEF DevGood
    <2> QED
      BY <1>1, <1>3, <2>1, <2>2 DEF EntryGood
  <1>7. DevGood(s, p)
    BY <1>1, <1>6 DEF DevGood
  <1> QED
    BY <1>4, <1>5, <1>7

LEMMA AddEntry ==
  ASSUME NEW r, NEW keys, KeyGood(r, awake, keys), DevGood(r, present), ~Reuse,
         NEW n \in Node, n \notin r.mon, n \in present, NEW s \in InputAdd(Appears(r, n), n)
  PROVE  /\ DevGood(s, present) /\ Elsewhere(s, r, n)
         /\ n \in s.mon /\ Heard(s, n, awake) /\ \A d \in s.stale : s.node[d] # n
  <1> DEFINE q == Appears(r, n)
  <1>1. /\ KeyGood(q, awake, keys) /\ q.mon = r.mon \cup {n} /\ q.handle = r.handle
        /\ q.node = r.node /\ q.listed = r.listed /\ q.lost = r.lost /\ SameDevs(q, r)
    BY KeyAppears
  <1> HIDE DEF q
  <1>2. s \in InputAdd(q, n)
    BY DEF q
  <1>3. Forgotten(s, q, n) \/ \E d \in Free(q) : Waits(s, q, n, d) \/ Listens(s, q, n, d)
    BY <1>1, <1>2, KeyAdd
  <1>4. /\ r \in DevState /\ r.stale \subseteq r.rfds /\ r.rfds \subseteq r.listed
        /\ r.listed \subseteq Dev /\ r.node \in [Dev -> Node]
        /\ r.handle \in [Node -> Dev \cup {NoDev}] /\ r.mon \subseteq Node
    BY DEF KeyGood, DevState
  <1>5. \A d \in r.listed : r.node[d] # n
    BY DEF DevGood, EntryGood
  <1>6. CASE Forgotten(s, q, n)
    <2>1. /\ s.mon = r.mon \cup {n} /\ s.listed = r.listed /\ s.node = r.node
          /\ s.rfds = r.rfds /\ s.stale = r.stale
          /\ s.handle = [r.handle EXCEPT ![n] = NoDev]
          /\ \A m \in Node \ {n} : m \in s.lost <=> m \in r.lost
          /\ n \in Useful => n \in s.lost
      BY <1>1, <1>6 DEF Forgotten, SameDevs
    <2>2. ASSUME NEW d \in r.listed PROVE EntryGood(s, d)
      <3>1. EntryGood(r, d) /\ r.node[d] # n
        BY <1>5 DEF DevGood
      <3>2. NoDev # d
        BY <1>4, DevicesAssumption
      <3> QED
        BY <1>4, <2>1, <3>1, <3>2 DEF EntryGood
    <2>3. DevGood(s, present)
      BY <2>1, <2>2 DEF DevGood
    <2>4. Elsewhere(s, r, n)
      BY <1>4, <2>1 DEF Elsewhere, Alike
    <2> QED
      BY <1>4, <1>5, <2>1, <2>3, <2>4 DEF Heard
  <1>7. ASSUME NEW d \in Free(q), Waits(s, q, n, d) \/ Listens(s, q, n, d)
        PROVE  /\ DevGood(s, present) /\ Elsewhere(s, r, n)
               /\ n \in s.mon /\ Heard(s, n, awake) /\ \A e \in s.stale : s.node[e] # n
    <2>1. d \in Dev \ r.listed /\ \A m \in Node : r.handle[m] # d
      BY <1>1 DEF Free
    <2>2. /\ s.mon = r.mon \cup {n} /\ s.listed = r.listed \cup {d} /\ s.stale = r.stale
          /\ s.handle = [r.handle EXCEPT ![n] = d] /\ s.node = [r.node EXCEPT ![d] = n]
          /\ s.lost = r.lost
      BY <1>1, <1>7 DEF Waits, Listens, Entered, SameDevs
    <2>3. /\ r.rfds \subseteq s.rfds /\ s.rfds \subseteq r.rfds \cup {d}
          /\ awake # 0 => d \in s.rfds
          /\ d \in s.rfds => n \in Useful
      BY <1>1, <1>4, <1>7, <2>1 DEF Waits, Listens, SameDevs
    <2>4. s.node[d] = n /\ \A e \in Dev \ {d} : s.node[e] = r.node[e]
      BY <1>4, <2>1, <2>2
    <2>5. ASSUME NEW e \in s.listed PROVE EntryGood(s, e)
      <3>1. CASE e = d
        BY <1>4, <2>1, <2>2, <2>4, <3>1 DEF EntryGood
      <3>2. CASE e # d
        <4>1. EntryGood(r, e) /\ e \in r.listed /\ r.node[e] # n
          BY <1>5, <2>2, <3>2 DEF DevGood
        <4> QED
          BY <1>4, <2>1, <2>2, <2>4, <3>2, <4>1 DEF EntryGood
      <3> QED
        BY <3>1, <3>2
    <2>6. DevGood(s, present)
      BY <1>4, <2>1, <2>2, <2>3, <2>4, <2>5 DEF DevGood
    <2>7. Elsewhere(s, r, n)
      BY <1>4, <2>1, <2>2, <2>3, <2>4 DEF Elsewhere, Alike
    <2>8. \A e \in s.stale : s.node[e] # n
      BY <1>4, <1>5, <2>1, <2>2, <2>4
    <2>9. Heard(s, n, awake)
      BY <2>2, <2>3, <2>4 DEF Heard
    <2> QED
      BY <2>2, <2>6, <2>7, <2>8, <2>9
  <1> QED
    BY <1>3, <1>6, <1>7
(***************************************************************************)
(* What the events that wait say of a node.  The list of the monitor is    *)
(* behind the hardware, and the invariant says by what: each node that is  *)
(* listed and should not be has an event that removes it, and each node    *)
(* that should be listed has one that adds it and is not outdated.  That   *)
(* needs the last conjunct of QueueGood: a node that is there although an  *)
(* event that removes it waits was plugged in again, and the event that    *)
(* says so comes after.                                                    *)
(***************************************************************************)
Is(m, act, n) == m.act = act /\ m.node = n

Going(q, n) == \E i \in 1 .. Len(q) : Is(q[i], "remove", n)

Leaving(q, n) == \E i \in 1 .. Len(q) : Is(q[i], "change", n) /\ ~q[i].ours

\* An event that adds the node, and that no event that removes it follows.
Coming(q, n) ==
  \E i \in 1 .. Len(q) : /\ Is(q[i], "add", n) \/ Is(q[i], "change", n)
                         /\ \A j \in 1 .. Len(q) : j > i => ~Is(q[j], "remove", n)

\* The list of the monitor, once the events that wait were received, has the
\* nodes that are there and belong to this seat.
QueueGood(mn, p, o, q, n) ==
  /\ n \in mn \ o => Leaving(q, n)
  /\ n \in mn \ p => Going(q, n)
  /\ n \in (p \cap o) \ mn => Coming(q, n)
  /\ n \in p /\ Going(q, n) => Coming(q, n)

LEMMA TailFields ==
  ASSUME NEW q \in Seq(Message), q # <<>>
  PROVE  /\ Len(Tail(q)) = Len(q) - 1 /\ Len(q) \in Nat \ {0} /\ Head(q) = q[1]
         /\ \A i \in 1 .. Len(Tail(q)) : Tail(q)[i] = q[i + 1] /\ i + 1 \in 2 .. Len(q)
         /\ \A i \in 2 .. Len(q) : q[i] = Tail(q)[i - 1] /\ i - 1 \in 1 .. Len(Tail(q))
  OBVIOUS

LEMMA TailSays ==
  ASSUME NEW q \in Seq(Message), q # <<>>, NEW n
  PROVE  /\ Going(Tail(q), n) => Going(q, n)
         /\ ~Is(Head(q), "remove", n) => (Going(q, n) => Going(Tail(q), n))
         /\ ~(Is(Head(q), "change", n) /\ ~Head(q).ours)
              => (Leaving(q, n) => Leaving(Tail(q), n))
         /\ Coming(q, n) /\ (Going(Tail(q), n) \/ ~(Is(Head(q), "add", n) \/ Is(Head(q), "change", n)))
              => Coming(Tail(q), n)
  <1> DEFINE t == Tail(q)
  <1>1. /\ Len(t) = Len(q) - 1 /\ Len(q) \in Nat \ {0} /\ Head(q) = q[1]
        /\ \A i \in 1 .. Len(t) : t[i] = q[i + 1] /\ i + 1 \in 2 .. Len(q)
        /\ \A i \in 2 .. Len(q) : q[i] = t[i - 1] /\ i - 1 \in 1 .. Len(t)
    BY TailFields
  <1> HIDE DEF t
  <1>2. \A i \in 1 .. Len(q) : i = 1 \/ i \in 2 .. Len(q)
    BY <1>1
  <1>3. \A i \in 1 .. Len(t) : i + 1 \in 1 .. Len(q) /\ i + 1 > 1
    BY <1>1
  <1>4. Going(t, n) => Going(q, n)
    BY <1>1, <1>3 DEF Going
  <1>5. ~Is(Head(q), "remove", n) => (Going(q, n) => Going(t, n))
    BY <1>1, <1>2 DEF Going
  <1>6. ~(Is(Head(q), "change", n) /\ ~Head(q).ours) => (Leaving(q, n) => Leaving(t, n))
    BY <1>1, <1>2 DEF Leaving
  <1>7. ASSUME Coming(q, n),
               Going(t, n) \/ ~(Is(Head(q), "add", n) \/ Is(Head(q), "change", n))
        PROVE  Coming(t, n)
    <2>1. PICK i \in 1 .. Len(q) : /\ Is(q[i], "add", n) \/ Is(q[i], "change", n)
                                   /\ \A j \in 1 .. Len(q) : j > i => ~Is(q[j], "remove", n)
      BY <1>7 DEF Coming
    <2>2. i # 1
      <3> SUFFICES ASSUME i = 1 PROVE FALSE
        OBVIOUS
      <3>1. Going(t, n)
        BY <1>1, <1>7, <2>1
      <3>2. PICK k \in 1 .. Len(t) : Is(t[k], "remove", n)
        BY <3>1 DEF Going
      <3>3. Is(q[k + 1], "remove", n) /\ k + 1 \in 1 .. Len(q) /\ k + 1 > i
        BY <1>1, <1>3, <3>2
      <3> QED
        BY <2>1, <3>3
    <2>3. i \in 2 .. Len(q) /\ i - 1 \in 1 .. Len(t) /\ q[i] = t[i - 1]
      BY <1>1, <1>2, <2>2
    <2>4. \A j \in 1 .. Len(t) : j > i - 1 => ~Is(t[j], "remove", n)
      <3> SUFFICES ASSUME NEW j \in 1 .. Len(t), j > i - 1 PROVE ~Is(t[j], "remove", n)
        OBVIOUS
      <3>1. t[j] = q[j + 1] /\ j + 1 \in 1 .. Len(q) /\ j + 1 > i
        BY <1>1, <1>3
      <3> QED
        BY <2>1, <3>1
    <2> QED
      BY <2>1, <2>3, <2>4 DEF Coming
  <1> QED
    BY <1>4, <1>5, <1>6, <1>7 DEF t

LEMMA OutdatedGoing ==
  ASSUME queue \in Seq(Message), queue # <<>>, NEW n
  PROVE  Outdated(n) <=> Going(Tail(queue), n)
  <1>1. /\ Len(queue) \in Nat
        /\ \A i \in 1 .. Len(Tail(queue)) : Tail(queue)[i] = queue[i + 1] /\ i + 1 \in 2 .. Len(queue)
        /\ \A i \in 2 .. Len(queue) : queue[i] = Tail(queue)[i - 1] /\ i - 1 \in 1 .. Len(Tail(queue))
    BY TailFields
  <1> QED
    BY <1>1 DEF Outdated, Going, Is

LEMMA AppendFields ==
  ASSUME NEW q \in Seq(Message), NEW m \in Message
  PROVE  /\ Len(Append(q, m)) = Len(q) + 1 /\ Len(q) \in Nat
         /\ \A i \in 1 .. Len(q) : Append(q, m)[i] = q[i] /\ i \in 1 .. Len(q) + 1
         /\ Append(q, m)[Len(q) + 1] = m
  OBVIOUS

LEMMA AppendSays ==
  ASSUME NEW q \in Seq(Message), NEW m \in Message, NEW n
  PROVE  LET t == Append(q, m)
         IN  /\ Going(q, n) => Going(t, n)
             /\ Is(m, "remove", n) => Going(t, n)
             /\ ~Is(m, "remove", n) => (Going(t, n) => Going(q, n))
             /\ Leaving(q, n) => Leaving(t, n)
             /\ Is(m, "change", n) /\ ~m.ours => Leaving(t, n)
             /\ ~Is(m, "remove", n) => (Coming(q, n) => Coming(t, n))
             /\ Is(m, "add", n) \/ Is(m, "change", n) => Coming(t, n)
  <1> DEFINE t == Append(q, m)
             l == Len(q)
  <1>1. /\ Len(t) = l + 1 /\ l \in Nat /\ t[l + 1] = m
        /\ \A i \in 1 .. l : t[i] = q[i] /\ i \in 1 .. Len(t)
    BY AppendFields
  <1> HIDE DEF t
  <1>2. \A i \in 1 .. Len(t) : i \in 1 .. l \/ i = l + 1
    BY <1>1 DEF l
  <1>3. l + 1 \in 1 .. Len(t) /\ \A j \in 1 .. Len(t) : ~(j > l + 1)
    BY <1>1
  <1>4. Going(q, n) => Going(t, n)
    BY <1>1 DEF Going
  <1>5. Is(m, "remove", n) => Going(t, n)
    BY <1>1, <1>3 DEF Going
  <1>6. ~Is(m, "remove", n) => (Going(t, n) => Going(q, n))
    BY <1>1, <1>2 DEF Going
  <1>7. Leaving(q, n) => Leaving(t, n)
    BY <1>1 DEF Leaving
  <1>8. Is(m, "change", n) /\ ~m.ours => Leaving(t, n)
    BY <1>1, <1>3 DEF Leaving
  <1>9. ~Is(m, "remove", n) => (Coming(q, n) => Coming(t, n))
    BY <1>1, <1>2 DEF Coming
  <1>10. Is(m, "add", n) \/ Is(m, "change", n) => Coming(t, n)
    BY <1>1, <1>3 DEF Coming
  <1> QED
    BY <1>4, <1>5, <1>6, <1>7, <1>8, <1>9, <1>10 DEF t
\* The lists and the events agree about the node n: a device that lost its
\* hardware has an event that removes it, and an entry that is not about to be
\* removed has a device, which is open while input is awake.
NodeGood(r, n, p, o, a, q) ==
  /\ QueueGood(r.mon, p, o, q, n)
  /\ \A d \in r.stale : r.node[d] = n => Going(q, n)
  /\ n \in r.mon \cap p /\ ~Going(q, n) => Heard(r, n, a)

ListGood(r, p, o, a, q) == DevGood(r, p) /\ \A n \in Node : NodeGood(r, n, p, o, a, q)

ListInv == KeyInv /\ ListGood(Now, present, ours, awake, queue)

\* An event of one node says nothing new of another one.
LEMMA ElsewhereGood ==
  ASSUME NEW r \in DevState, NEW s \in DevState, NEW p, NEW o, NEW a,
         NEW q \in Seq(Message), q # <<>>, NEW n \in Node, n # Head(q).node,
         Alike(s, r, n), NodeGood(r, n, p, o, a, q)
  PROVE  NodeGood(s, n, p, o, a, Tail(q))
  <1> DEFINE t == Tail(q)
  <1>1. /\ Going(q, n) <=> Going(t, n)
        /\ Leaving(q, n) => Leaving(t, n)
        /\ Coming(q, n) => Coming(t, n)
    BY TailSays DEF Is
  <1> HIDE DEF t
  <1>2. /\ r.listed \subseteq Dev /\ s.listed \subseteq Dev /\ s.stale \subseteq Dev
    BY DEF DevState
  <1>3. QueueGood(s.mon, p, o, t, n)
    BY <1>1 DEF QueueGood, NodeGood, Alike
  <1>4. \A d \in s.stale : s.node[d] = n => Going(t, n)
    BY <1>1, <1>2 DEF NodeGood, Alike
  <1>5. n \in s.mon \cap p /\ ~Going(t, n) => Heard(s, n, a)
    <2>1. Heard(r, n, a) => Heard(s, n, a)
      BY <1>2 DEF Heard, Alike
    <2> QED
      BY <1>1, <2>1 DEF NodeGood, Alike
  <1> QED
    BY <1>3, <1>4, <1>5 DEF NodeGood, t

LEMMA GoneGood ==
  ASSUME NEW r, NEW a, NEW keys, KeyGood(r, a, keys), NEW p, DevGood(r, p),
         NEW n, n \notin r.mon
  PROVE  Gone(r, n) /\ \A d \in r.stale : r.node[d] # n
  BY DEF KeyGood, DevGood, EntryGood, Gone

\* What an event has done when it was received.
Received(s, n) ==
  /\ DevGood(s, present) /\ Elsewhere(s, Now, n)
  /\ NodeGood(s, n, present, ours, awake, Tail(queue))

\* The node n has no entry, or none any more, when its event is received.
LEMMA ReceivedAdd ==
  ASSUME ListInv, ~Reuse, queue # <<>>, NEW n \in Node,
         NEW r, KeyGood(r, awake, down), DevGood(r, present), Elsewhere(r, Now, n),
         n \notin r.mon, NEW s \in UdevAdd(r, n)
  PROVE  Received(s, n)
  <1> DEFINE t == Tail(queue)
  <1>1. queue \in Seq(Message) /\ NodeGood(Now, n, present, ours, awake, queue)
    BY DEF ListInv, KeyInv, SeatType, ListGood
  <1>2. n \in present /\ Going(t, n) => Coming(t, n)
    BY <1>1, TailSays DEF NodeGood, QueueGood
  <1>3. Outdated(n) <=> Going(t, n)
    BY <1>1, OutdatedGoing
  <1> HIDE DEF t
  <1>4. CASE Ignored(r, n)
    <2>1. s = r
      BY <1>4, KeyUdevAdd
    <2>2. n \in present \cap ours => Coming(t, n)
      BY <1>2, <1>3, <1>4 DEF Ignored
    <2>3. \A d \in r.stale : r.node[d] # n
      BY GoneGood
    <2>4. NodeGood(r, n, present, ours, awake, t)
      BY <1>2, <2>2, <2>3 DEF NodeGood, QueueGood
    <2> QED
      BY <2>1, <2>4 DEF Received, t
  <1>5. CASE ~Ignored(r, n)
    <2>1. s \in InputAdd(Appears(r, n), n)
      BY <1>5, KeyUdevAdd
    <2>2. n \in present \cap ours
      BY <1>5 DEF Ignored
    <2>3. /\ DevGood(s, present) /\ Elsewhere(s, r, n)
          /\ n \in s.mon /\ Heard(s, n, awake) /\ \A d \in s.stale : s.node[d] # n
      BY <2>1, <2>2, AddEntry
    <2>4. Elsewhere(s, Now, n)
      BY <2>3 DEF Elsewhere, Alike
    <2>5. NodeGood(s, n, present, ours, awake, t)
      BY <1>2, <2>2, <2>3 DEF NodeGood, QueueGood
    <2> QED
      BY <2>3, <2>4, <2>5 DEF Received, t
  <1> QED
    BY <1>4, <1>5

\* An event that leaves the entry of its node as it is.
LEMMA ReceivedKeep ==
  ASSUME ListInv, queue # <<>>, NEW n \in mon,
         ~Is(Head(queue), "remove", n), ~(Is(Head(queue), "change", n) /\ ~Head(queue).ours)
  PROVE  Received(Now, n)
  <1> DEFINE t == Tail(queue)
  <1>1. /\ queue \in Seq(Message) /\ Now.mon = mon /\ n \in Node /\ DevGood(Now, present)
        /\ NodeGood(Now, n, present, ours, awake, queue)
    BY DEF ListInv, KeyInv, SeatType, KeyGood, DevState, ListGood, Now
  <1>2. /\ Going(t, n) => Going(queue, n)
        /\ Going(queue, n) => Going(t, n)
        /\ Leaving(queue, n) => Leaving(t, n)
        /\ Coming(queue, n) /\ Going(t, n) => Coming(t, n)
    BY <1>1, TailSays
  <1> HIDE DEF t
  <1>3. NodeGood(Now, n, present, ours, awake, t)
    BY <1>1, <1>2 DEF NodeGood, QueueGood
  <1>4. Elsewhere(Now, Now, n)
    BY DEF Elsewhere, Alike
  <1> QED
    BY <1>1, <1>3, <1>4 DEF Received, t

LEMMA ReceivedRemove ==
  ASSUME ListInv, queue # <<>>, NEW n \in Node, Is(Head(queue), "remove", n),
         NEW s \in UdevRemove(Now, n)
  PROVE  Received(s, n)
  <1> DEFINE t == Tail(queue)
  <1>1. /\ queue \in Seq(Message) /\ DevGood(Now, present) /\ KeyGood(Now, awake, down)
        /\ NodeGood(Now, n, present, ours, awake, queue)
    BY DEF ListInv, KeyInv, SeatType, ListGood
  <1>2. Going(queue, n)
    BY <1>1, TailFields DEF Going
  <1>3. Coming(queue, n) => Coming(t, n)
    BY <1>1, TailSays DEF Is
  <1>4. n \in present => Coming(t, n)
    BY <1>1, <1>2, <1>3 DEF NodeGood, QueueGood
  <1> HIDE DEF t
  <1>5. /\ KeyGood(s, awake, down) /\ DevGood(s, present) /\ Elsewhere(s, Now, n)
        /\ n \notin s.mon
    <2>1. CASE n \notin Now.mon
      <3>1. s = Now
        BY <1>1, <2>1, KeyUdevRemove
      <3> QED
        BY <1>1, <2>1, <3>1 DEF Elsewhere, Alike
    <2>2. CASE n \in Now.mon
      <3>1. KeyGood(s, awake, down) /\ EntryFreed(s, Now, n)
        BY <1>1, <2>2, KeyUdevRemove
      <3> QED
        BY <1>1, <2>2, <3>1, FreeEntry DEF Gone
    <2> QED
      BY <2>1, <2>2
  <1>6. \A d \in s.stale : s.node[d] # n
    BY <1>5, GoneGood
  <1>7. NodeGood(s, n, present, ours, awake, t)
    BY <1>4, <1>5, <1>6 DEF NodeGood, QueueGood
  <1> QED
    BY <1>5, <1>7 DEF Received, t

LEMMA ListStore ==
  ASSUME KeyInv', NEW r, Now' = r, ListGood(r, present', ours', awake', queue')
  PROVE  ListInv'
  BY DEF ListInv

LEMMA ListUdevEvent == ListInv /\ ~Reuse /\ UdevEvent => ListInv'
  <1> SUFFICES ASSUME ListInv, ~Reuse, UdevEvent PROVE ListInv'
    OBVIOUS
  <1> DEFINE e == Head(queue)
             n == e.node
  <1>1. queue \in Seq(Message) /\ queue # <<>> /\ e \in Message /\ KeyGood(Now, awake, down)
        /\ DevGood(Now, present)
    BY TailType DEF ListInv, KeyInv, SeatType, ListGood, UdevEvent
  <1>2. n \in Node /\ e.ours \in BOOLEAN /\ e.act \in {"add", "remove", "change"}
    BY <1>1 DEF Message
  <1>3. PICK r : /\ \/ e.act = "add" /\ r \in UdevAdd(Now, n)
                    \/ e.act = "remove" /\ r \in UdevRemove(Now, n)
                    \/ e.act = "change" /\ r \in UdevChange(Now, n, e.ours)
                 /\ Store(r)
    BY <1>2 DEF UdevEvent
  <1>4. Now.mon = mon
    BY DEF Now
  <1>5. Elsewhere(Now, Now, n)
    BY DEF Elsewhere, Alike
  <1>6. Is(e, e.act, n)
    BY DEF Is
  <1> HIDE DEF e, n
  <1>7. KeyGood(r, awake, down)
    BY <1>1, <1>2, <1>3, KeyUdevAdd, KeyUdevRemove, KeyUdevChange
  <1>8. Received(r, n)
    <2>1. CASE e.act = "add" /\ r \in UdevAdd(Now, n)
      <3>1. CASE n \notin mon
        BY <1>1, <1>2, <1>4, <1>5, <2>1, <3>1, ReceivedAdd
      <3>2. CASE n \in mon
        <4>1. r = Now
          BY <1>4, <2>1, <3>2 DEF UdevAdd
        <4> QED
          BY <1>1, <2>1, <3>2, <4>1, ReceivedKeep DEF Is, e
      <3> QED
        BY <3>1, <3>2
    <2>2. CASE e.act = "remove" /\ r \in UdevRemove(Now, n)
      BY <1>1, <1>2, <1>6, <2>2, ReceivedRemove DEF e
    <2>3. CASE e.act = "change" /\ r \in UdevChange(Now, n, e.ours)
      <3>1. CASE n \in mon /\ e.ours /\ r = Now
        BY <1>1, <2>3, <3>1, ReceivedKeep DEF Is, e
      <3>2. CASE n \notin mon /\ r \in UdevAdd(Now, n)
        BY <1>1, <1>2, <1>4, <1>5, <3>2, ReceivedAdd
      <3>3. CASE n \in mon /\ ~e.ours /\ r \in UdevAdd(MonFree(Now, n), n)
        <4> DEFINE f == MonFree(Now, n)
        <4>1. KeyGood(f, awake, down) /\ EntryFreed(f, Now, n)
          BY <1>1, <1>2, KeyMonFree
        <4> HIDE DEF f
        <4>2. DevGood(f, present) /\ Elsewhere(f, Now, n) /\ n \notin f.mon
          BY <1>1, <1>4, <3>3, <4>1, FreeEntry DEF Gone
        <4>3. r \in UdevAdd(f, n)
          BY <3>3 DEF f
        <4> QED
          BY <1>1, <1>2, <4>1, <4>2, <4>3, ReceivedAdd
      <3> QED
        BY <1>1, <1>2, <1>4, <2>3, <3>1, <3>2, <3>3, KeyUdevChange
    <2> QED
      BY <1>3, <2>1, <2>2, <2>3
  <1>9. awake' = awake /\ present' = present /\ ours' = ours /\ queue' = Tail(queue)
    BY DEF UdevEvent
  <1>10. r \in DevState /\ Now \in DevState
    BY <1>1, <1>7 DEF KeyGood
  <1>11. ListGood(r, present, ours, awake, Tail(queue))
    <2>1. ASSUME NEW m \in Node PROVE NodeGood(r, m, present, ours, awake, Tail(queue))
      <3>1. CASE m = n
        BY <1>8, <3>1 DEF Received
      <3>2. CASE m # n
        <4>1. Alike(r, Now, m) /\ NodeGood(Now, m, present, ours, awake, queue)
          BY <1>8, <3>2 DEF Received, Elsewhere, ListInv, ListGood
        <4>2. m # Head(queue).node
          BY <3>2 DEF n, e
        <4> QED
          BY <1>1, <1>10, <4>1, <4>2, ElsewhereGood
      <3> QED
        BY <3>1, <3>2
    <2> QED
      BY <1>8, <2>1 DEF ListGood, Received
  <1>12. Now' = r /\ KeyInv'
    BY <1>3, <1>10, StoreNow, KeyUdevEvent DEF ListInv
  <1> QED
    BY <1>9, <1>11, <1>12, ListStore
(***************************************************************************)
(* The other steps.                                                        *)
(***************************************************************************)
\* A device that is there and cannot be opened is lost, and one that is not there
\* has an event that removes it; the others are open.
LEMMA ListWakeUp == ListInv /\ WakeUp => ListInv'
  <1> SUFFICES ASSUME ListInv, WakeUp PROVE ListInv'
    OBVIOUS
  <1> DEFINE usable == {d \in listed : node[d] \in Useful}
  <1>1. /\ KeyGood(Now, awake, down) /\ SeatType(present, ours, queue, awake, down)
        /\ DevGood(Now, present)
        /\ \A n \in Node : NodeGood(Now, n, present, ours, awake, queue)
    BY DEF ListInv, KeyInv, ListGood
  <1>2. KeyInv' /\ UNCHANGED <<present, ours, queue>> /\ awake' = awake + 1 /\ awake' # 0
    <2>1. KeyInv' /\ UNCHANGED <<present, ours, queue>> /\ awake' = awake + 1
      BY KeyWakeUp DEF WakeUp, hwVars, ListInv
    <2>2. awake \in Nat
      BY <1>1, DevicesAssumption DEF SeatType
    <2> QED
      BY <2>1, <2>2
  <1>3. CASE awake > 0
    <2>1. UNCHANGED <<monVars, devVars, keyVars, lost>>
      BY <1>3, <1>1 DEF WakeUp, SeatType
    <2>2. Now' = Now
      BY <2>1 DEF Now, monVars, devVars, keyVars
    <2>3. \A n \in Node : NodeGood(Now, n, present, ours, awake', queue)
      BY <1>1, <1>3 DEF NodeGood, Heard
    <2> QED
      BY <1>1, <1>2, <2>2, <2>3, ListStore DEF ListGood
  <1>4. CASE awake = 0
    <2>1. PICK r \in WakeDevs(Now, usable) : Store(FreeDevs(r, listed \ r.rfds))
      BY <1>4 DEF WakeUp
    <2>2. /\ Now \in DevState /\ Now.listed = listed /\ Now.rfds = {} /\ Now.stale = {}
          /\ Now.node = node /\ Now.lost = lost /\ Now.mon = mon /\ Now.handle = handle
      BY <1>1, <1>4 DEF KeyGood, Now
    <2>3. usable \in SUBSET Dev /\ \A d \in listed : d \in usable <=> node[d] \in Useful
      BY <2>2 DEF DevState
    <2>4. usable \subseteq listed
      OBVIOUS
    <2> HIDE DEF usable
    <2>5. PICK S \in SUBSET usable : WokenTo(r, Now, S, usable)
      BY <2>1, <2>2, <2>3, Woken
    <2> DEFINE s == FreeDevs(r, listed \ r.rfds)
    <2>6. FreedTo(s, r, listed \ r.rfds)
      <3>1. r \in DevState /\ listed \ r.rfds \in SUBSET Dev
        BY <2>2, <2>5 DEF WokenTo, DevState
      <3> QED
        BY <3>1, Freed
    <2>7. s \in DevState /\ Store(s)
      BY <2>1, <2>6 DEF FreedTo
    <2> HIDE DEF s
    <2>8. Now' = s
      BY <2>7, StoreNow
    <2>9. /\ s.mon = mon /\ s.handle = handle /\ s.node = node /\ s.listed = S
          /\ s.rfds = S /\ s.stale = {} /\ s.lost = lost \cup Missed(Now, usable \ S)
          /\ \A d \in S : node[d] \in present
      BY <2>2, <2>4, <2>5, <2>6 DEF FreedTo, WokenTo, SameEntries
    <2>10. DevGood(s, present)
      BY <1>1, <2>2, <2>3, <2>4, <2>9 DEF DevGood, EntryGood
    <2>11. ASSUME NEW n \in Node PROVE NodeGood(s, n, present, ours, awake', queue)
      <3>1. NodeGood(Now, n, present, ours, awake, queue)
        BY <1>1
      <3>2. n \in present /\ Heard(Now, n, awake) => Heard(s, n, awake')
        BY <2>2, <2>3, <2>4, <2>9 DEF Heard, Missed, NodesOf
      <3> QED
        BY <2>2, <2>9, <3>1, <3>2 DEF NodeGood
    <2> QED
      BY <1>2, <2>8, <2>10, <2>11, ListStore DEF ListGood
  <1> QED
    BY <1>1, <1>3, <1>4 DEF SeatType

LEMMA ListSleep == ListInv /\ Sleep => ListInv'
  <1> SUFFICES ASSUME ListInv, Sleep PROVE ListInv'
    OBVIOUS
  <1> DEFINE r == IF awake = 1 THEN SleepDevs(Now, rfds) ELSE Now
  <1>1. /\ KeyGood(Now, awake, down) /\ SeatType(present, ours, queue, awake, down)
        /\ DevGood(Now, present)
        /\ \A n \in Node : NodeGood(Now, n, present, ours, awake, queue)
    BY DEF ListInv, KeyInv, ListGood
  <1>2. KeyInv' /\ UNCHANGED <<present, ours, queue>> /\ awake' = awake - 1 /\ awake > 0
        /\ awake \in Nat
    BY <1>1, KeySleeps, DevicesAssumption DEF Sleep, SeatType, hwVars, ListInv
  <1>3. Now \in DevState /\ Now.rfds = rfds /\ rfds \in SUBSET Dev
        /\ Now.stale \subseteq rfds
    BY <1>1 DEF KeyGood, DevState, Now
  <1>4. Store(r)
    BY DEF Sleep
  <1>5. CASE awake = 1
    <2>1. SleptTo(r, Now, rfds)
      BY <1>3, <1>5, Slept
    <2> HIDE DEF r
    <2>2. Now' = r
      BY <1>4, <2>1, StoreNow DEF SleptTo
    <2>3. r.rfds = {} /\ r.stale = {} /\ r.lost = Now.lost /\ r.listed = Now.listed
          /\ SameEntries(r, Now) /\ awake' = 0
      BY <1>2, <1>3, <1>5, <2>1 DEF SleptTo
    <2>4. DevGood(r, present)
      BY <1>1, <2>3 DEF DevGood, EntryGood, SameEntries
    <2>5. \A n \in Node : NodeGood(r, n, present, ours, awake', queue)
      BY <1>1, <2>3 DEF NodeGood, Heard, SameEntries
    <2> QED
      BY <1>2, <2>2, <2>4, <2>5, ListStore DEF ListGood
  <1>6. CASE awake # 1
    <2>1. Now' = Now
      BY <1>3, <1>4, <1>6, StoreNow
    <2>2. \A n \in Node : NodeGood(Now, n, present, ours, awake', queue)
      BY <1>1, <1>2, <1>6 DEF NodeGood, Heard
    <2> QED
      BY <1>1, <1>2, <2>1, <2>2, ListStore DEF ListGood
  <1> QED
    BY <1>5, <1>6

LEMMA ListUpdateKeymap == ListInv /\ UpdateKeymap => ListInv'
  <1> SUFFICES ASSUME ListInv, UpdateKeymap PROVE ListInv'
    OBVIOUS
  <1> DEFINE f == ClosedKeyboards
  <1>1. /\ KeyGood(f, awake, down) /\ SameEntries(f, Now) /\ f.listed = listed
        /\ f.rfds = rfds \ Typing /\ f.stale = stale \ Typing /\ f.lost = lost
        /\ Typing \in SUBSET Dev /\ Typing \in SUBSET listed
    BY KeyClosed DEF ListInv
  <1>2. /\ DevGood(Now, present)
        /\ \A n \in Node : NodeGood(Now, n, present, ours, awake, queue)
        /\ Now.listed = listed /\ Now.rfds = rfds /\ Now.stale = stale
        /\ Now.lost = lost /\ Now.node = node /\ Now.mon = mon /\ Now.handle = handle
    BY DEF ListInv, ListGood, Now
  <1>3. KeyInv' /\ UNCHANGED <<present, ours, queue, awake>>
    BY KeyUpdateKeymap DEF UpdateKeymap, hwVars, ListInv
  <1>4. PICK r \in (IF awake = 0 THEN {f} ELSE WakeDevs(f, Typing)) : Store(r)
    BY DEF UpdateKeymap, ClosedKeyboards
  <1>5. \A d \in Typing : node[d] \in Useful
    BY DevicesAssumption DEF Typing
  <1> HIDE DEF f
  <1>6. f \in DevState
    BY <1>1 DEF KeyGood
  <1>7. PICK S \in SUBSET Typing :
          /\ r \in DevState /\ SameEntries(r, f) /\ r.listed = f.listed
          /\ r.rfds = f.rfds \cup S /\ r.stale = f.stale
          /\ \A d \in S : f.node[d] \in present
          /\ \/ awake = 0 /\ r.lost = f.lost
             \/ awake # 0 /\ r.lost = f.lost \cup Missed(f, Typing \ S)
    <2>1. CASE awake = 0
      <3>1. r = f /\ {} \in SUBSET Typing
        BY <1>4, <2>1
      <3> QED
        BY <1>6, <2>1, <3>1 DEF SameEntries
    <2>2. CASE awake # 0
      <3>1. r \in WakeDevs(f, Typing)
        BY <1>4, <2>2
      <3>2. PICK S \in SUBSET Typing : WokenTo(r, f, S, Typing)
        BY <1>1, <1>6, <3>1, Woken
      <3> QED
        BY <2>2, <3>2 DEF WokenTo
    <2> QED
      BY <2>1, <2>2
  <1>8. Now' = r
    BY <1>4, <1>7, StoreNow
  <1>9. /\ r.mon = mon /\ r.handle = handle /\ r.node = node /\ r.listed = listed
        /\ r.rfds = (rfds \ Typing) \cup S /\ r.stale = stale \ Typing
        /\ \A d \in S : node[d] \in present
        /\ f.node = node
    BY <1>1, <1>2, <1>7 DEF SameEntries
  <1>10. DevGood(r, present)
    BY <1>2, <1>5, <1>9 DEF DevGood, EntryGood
  <1>11. ASSUME NEW n \in Node PROVE NodeGood(r, n, present, ours, awake, queue)
    <2>1. NodeGood(Now, n, present, ours, awake, queue)
      BY <1>2
    <2>2. n \in present /\ Heard(Now, n, awake) => Heard(r, n, awake)
      BY <1>1, <1>2, <1>7, <1>9 DEF Heard, Missed, NodesOf
    <2> QED
      BY <1>2, <1>9, <2>1, <2>2 DEF NodeGood
  <1> QED
    BY <1>3, <1>8, <1>10, <1>11, ListStore DEF ListGood

LEMMA ListHangup ==
  ASSUME ListInv, NEW d \in Dev, Hangup(d)
  PROVE  ListInv'
  <1> DEFINE s == FreeDevs(Now, {d})
  <1>1. /\ KeyGood(Now, awake, down) /\ DevGood(Now, present)
        /\ \A n \in Node : NodeGood(Now, n, present, ours, awake, queue)
        /\ d \in Now.stale
    BY DEF ListInv, KeyInv, ListGood, Hangup, Now
  <1>2. KeyInv' /\ UNCHANGED <<present, ours, queue, awake>> /\ Store(s)
    BY KeyHangup DEF Hangup, hwVars, ListInv
  <1>3. FreedTo(s, Now, {d})
    BY <1>1, KeyFree
  <1> HIDE DEF s
  <1>4. Now' = s
    BY <1>2, <1>3, StoreNow DEF FreedTo
  <1>5. /\ SameEntries(s, Now) /\ s.listed = Now.listed \ {d} /\ s.rfds = Now.rfds \ {d}
        /\ s.stale = Now.stale \ {d} /\ s.lost = Now.lost
    BY <1>3 DEF FreedTo
  <1>6. DevGood(s, present)
    BY <1>1, <1>5 DEF DevGood, EntryGood, SameEntries
  <1>7. ASSUME NEW n \in Node PROVE NodeGood(s, n, present, ours, awake, queue)
    <2>1. NodeGood(Now, n, present, ours, awake, queue)
      BY <1>1
    <2>2. Now.node[d] # n => (Heard(Now, n, awake) => Heard(s, n, awake))
      BY <1>5 DEF Heard, SameEntries
    <2>3. Now.node[d] = n => Going(queue, n)
      BY <1>1, <2>1 DEF NodeGood
    <2> QED
      BY <1>5, <2>1, <2>2, <2>3 DEF NodeGood, SameEntries
  <1> QED
    BY <1>2, <1>4, <1>6, <1>7, ListStore DEF ListGood

\* A step that changes no list, and sends no event.
LEMMA ListSame ==
  ASSUME ListInv, KeyInv', UNCHANGED <<hwVars, monVars, devVars, awake, lost>>
  PROVE  ListInv'
  <1>1. /\ Now'.mon = Now.mon /\ Now'.handle = Now.handle /\ Now'.listed = Now.listed
        /\ Now'.node = Now.node /\ Now'.rfds = Now.rfds /\ Now'.stale = Now.stale
        /\ Now'.lost = Now.lost
    BY DEF Now, monVars, devVars
  <1>2. ListGood(Now, present, ours, awake, queue) /\ UNCHANGED <<present, ours, awake, queue>>
    BY DEF ListInv, hwVars
  <1>3. ListGood(Now', present, ours, awake, queue)
    BY <1>1, <1>2 DEF ListGood, DevGood, EntryGood, NodeGood, Heard
  <1> QED
    BY <1>2, <1>3 DEF ListInv
LEMMA ListPlug ==
  ASSUME ListInv, NEW n \in Node, Plug(n)
  PROVE  ListInv'
  <1> DEFINE e == [act |-> "add", node |-> n, ours |-> n \in ours]
  <1>1. /\ queue \in Seq(Message) /\ e \in Message /\ queue' = Append(queue, e)
        /\ present' = present \cup {n} /\ n \notin present /\ ours' = ours /\ awake' = awake
        /\ KeyInv' /\ Now' = Now
    BY KeyPlug DEF ListInv, KeyInv, SeatType, Message, Plug, Sent, Now, monVars, devVars, keyVars
  <1>2. \A m : /\ ~Is(e, "remove", m) /\ ~Is(e, "change", m) /\ (Is(e, "add", m) <=> m = n)
    BY DEF Is
  <1> HIDE DEF e
  <1>3. DevGood(Now, present')
    BY <1>1 DEF ListInv, ListGood, DevGood
  <1>4. ASSUME NEW m \in Node PROVE NodeGood(Now, m, present', ours, awake, queue')
    <2>1. NodeGood(Now, m, present, ours, awake, queue)
      BY DEF ListInv, ListGood
    <2>2. /\ Going(queue, m) <=> Going(queue', m)
          /\ Leaving(queue, m) => Leaving(queue', m)
          /\ Coming(queue, m) => Coming(queue', m)
          /\ m = n => Coming(queue', m)
      BY <1>1, <1>2, AppendSays
    <2> QED
      BY <1>1, <2>1, <2>2 DEF NodeGood, QueueGood
  <1> QED
    BY <1>1, <1>3, <1>4, ListStore DEF ListGood

LEMMA ListAttach ==
  ASSUME ListInv, NEW n \in Node, Attach(n)
  PROVE  ListInv'
  <1> DEFINE e == [act |-> "change", node |-> n, ours |-> n \notin ours]
  <1>1. /\ queue \in Seq(Message) /\ e \in Message /\ queue' = Append(queue, e)
        /\ ours' = (IF n \in ours THEN ours \ {n} ELSE ours \cup {n})
        /\ present' = present /\ awake' = awake /\ KeyInv' /\ Now' = Now
    BY KeyAttach
       DEF ListInv, KeyInv, SeatType, Message, Attach, Sent, Now, monVars, devVars, keyVars
  <1>2. /\ \A m : ~Is(e, "remove", m) /\ (Is(e, "change", m) <=> m = n)
        /\ e.ours = (n \notin ours)
    BY DEF Is
  <1> HIDE DEF e
  <1>3. ASSUME NEW m \in Node PROVE NodeGood(Now, m, present, ours', awake, queue')
    <2>1. NodeGood(Now, m, present, ours, awake, queue)
      BY DEF ListInv, ListGood
    <2>2. /\ Going(queue, m) <=> Going(queue', m)
          /\ Leaving(queue, m) => Leaving(queue', m)
          /\ m = n /\ n \in ours => Leaving(queue', m)
          /\ Coming(queue, m) => Coming(queue', m)
          /\ m = n => Coming(queue', m)
      BY <1>1, <1>2, AppendSays
    <2> QED
      BY <1>1, <2>1, <2>2 DEF NodeGood, QueueGood
  <1> QED
    BY <1>1, <1>3, ListStore DEF ListInv, ListGood

LEMMA ListUnplug ==
  ASSUME ListInv, NEW n \in Node, Unplug(n)
  PROVE  ListInv'
  <1> DEFINE e == [act |-> "remove", node |-> n, ours |-> n \in ours]
             gone == {d \in rfds : node[d] = n}
  <1>1. /\ queue \in Seq(Message) /\ e \in Message /\ queue' = Append(queue, e)
        /\ present' = present \ {n} /\ ours' = ours /\ awake' = awake
        /\ KeyInv' /\ stale' = stale \cup gone
    <2>1. KeyInv' /\ queue \in Seq(Message)
      BY KeyUnplug DEF ListInv, KeyInv, SeatType
    <2>4. e \in Message
      BY DEF Message
    <2>2. queue' = Append(queue, e)
      BY DEF Unplug, Sent
    <2>3. present' = present \ {n} /\ ours' = ours /\ awake' = awake /\ stale' = stale \cup gone
      BY DEF Unplug
    <2> QED
      BY <2>1, <2>4, <2>2, <2>3
  <1>2. \A m : /\ Is(e, "remove", m) <=> m = n
               /\ ~Is(e, "change", m) /\ ~Is(e, "add", m)
    BY DEF Is
  <1>3. gone \subseteq rfds /\ \A d \in rfds : d \in gone <=> node[d] = n
    OBVIOUS
  <1> HIDE DEF e, gone
  <1>4. /\ Now'.mon = Now.mon /\ Now'.handle = Now.handle /\ Now'.listed = Now.listed
        /\ Now'.node = Now.node /\ Now'.rfds = Now.rfds /\ Now'.stale = Now.stale \cup gone
        /\ Now'.lost = Now.lost /\ Now.node = node /\ Now.rfds = rfds
    BY <1>1 DEF Unplug, Now, monVars
  <1>5. DevGood(Now', present')
    BY <1>1, <1>3, <1>4 DEF ListInv, ListGood, DevGood, EntryGood
  <1>6. ASSUME NEW m \in Node PROVE NodeGood(Now', m, present', ours, awake, queue')
    <2>1. NodeGood(Now, m, present, ours, awake, queue)
      BY DEF ListInv, ListGood
    <2>2. /\ Going(queue, m) => Going(queue', m)
          /\ m = n => Going(queue', m)
          /\ m # n => (Going(queue', m) => Going(queue, m))
          /\ Leaving(queue, m) => Leaving(queue', m)
          /\ m # n => (Coming(queue, m) => Coming(queue', m))
      BY <1>1, <1>2, AppendSays
    <2>3. Heard(Now, m, awake) => Heard(Now', m, awake)
      BY <1>4 DEF Heard
    <2> QED
      BY <1>1, <1>3, <1>4, <2>1, <2>2, <2>3 DEF NodeGood, QueueGood
  <1> QED
    BY <1>1, <1>5, <1>6 DEF ListInv, ListGood

LEMMA ListInit == DevicesInit => ListInv
  <1> SUFFICES ASSUME DevicesInit PROVE ListInv
    OBVIOUS
  <1>1. KeyInv
    BY KeyInit
  <1>2. PICK f \in [Node -> Dev] :
          /\ \A n, m \in Node : f[n] = f[m] => n = m
          /\ handle = [n \in Node |-> IF n \in mon THEN f[n] ELSE NoDev]
          /\ \A n \in Node : node[f[n]] = n
    BY DEF DevicesInit
  <1>3. /\ mon = present /\ mon \subseteq Node /\ ours = Node /\ rfds = {} /\ stale = {}
        /\ awake = 0 /\ listed = {handle[n] : n \in mon}
    BY DEF DevicesInit
  <1>4. \A n \in mon : handle[n] = f[n] /\ f[n] \in listed
    BY <1>2, <1>3
  <1>5. \A d \in listed : \E n \in mon : d = f[n]
    BY <1>2, <1>3
  <1>6. DevGood(Now, present)
    BY <1>2, <1>3, <1>4, <1>5 DEF DevGood, EntryGood, Now
  <1>7. \A n \in Node : ~Going(queue, n)
    BY DEF DevicesInit, Going, Is
  <1>8. ASSUME NEW n \in Node PROVE NodeGood(Now, n, present, ours, awake, queue)
    BY <1>2, <1>3, <1>4, <1>7 DEF NodeGood, QueueGood, Heard, Now
  <1> QED
    BY <1>1, <1>6, <1>8 DEF ListInv, ListGood

LEMMA ListNext == ListInv /\ ~Reuse /\ [DevicesNext]_devicesVars => ListInv'
  <1> SUFFICES ASSUME ListInv, ~Reuse, [DevicesNext]_devicesVars PROVE ListInv'
    OBVIOUS
  <1>1. KeyInv'
    BY KeyNext DEF ListInv
  <1>2. CASE UNCHANGED devicesVars
    BY <1>1, <1>2, ListSame DEF devicesVars
  <1>3. ASSUME NEW d \in Dev, ReadKey(d) PROVE ListInv'
    BY <1>1, <1>3, ListSame DEF ReadKey
  <1>4. ASSUME NEW n \in Node, NEW k \in Keys, Type(n, k) PROVE ListInv'
    BY <1>1, <1>4, ListSame DEF Type
  <1> QED
    BY <1>2, <1>3, <1>4, ListUdevEvent, ListWakeUp, ListSleep, ListUpdateKeymap, ListHangup,
       ListPlug, ListUnplug, ListAttach DEF DevicesNext

LEMMA ListSettled == ListInv => Settled
  <1> SUFFICES ASSUME ListInv, queue = <<>>, awake > 0
               PROVE  {n \in Node : \E d \in rfds \ stale : node[d] = n} \ lost
                        = (present \cap ours \cap Useful) \ lost
    BY DEF Settled
  <1>1. /\ Now.listed = listed /\ Now.rfds = rfds /\ Now.stale = stale
        /\ Now.lost = lost /\ Now.node = node /\ Now.mon = mon
    BY DEF Now
  <1>2. /\ rfds \subseteq listed /\ listed \subseteq Dev /\ node \in [Dev -> Node]
        /\ stale \subseteq rfds /\ present \subseteq Node /\ awake # 0
    BY <1>1, DevicesAssumption DEF ListInv, KeyInv, KeyGood, DevState, SeatType
  <1>3. \A n \in Node : ~Going(queue, n) /\ ~Leaving(queue, n) /\ ~Coming(queue, n)
    BY DEF Going, Leaving, Coming
  <1>4. \A n \in Node : NodeGood(Now, n, present, ours, awake, queue)
    BY DEF ListInv, ListGood
  <1>5. \A n \in Node : n \in mon <=> n \in present \cap ours
    BY <1>1, <1>3, <1>4 DEF NodeGood, QueueGood
  <1>6. ASSUME NEW d \in rfds \ stale PROVE node[d] \in present \cap ours \cap Useful
    BY <1>1, <1>2, <1>5 DEF ListInv, ListGood, DevGood, EntryGood
  <1>7. ASSUME NEW n \in (present \cap ours \cap Useful) \ lost
        PROVE  \E d \in rfds \ stale : node[d] = n
    <2>1. n \in Node /\ n \in mon /\ Heard(Now, n, awake)
      BY <1>1, <1>2, <1>3, <1>4, <1>5 DEF NodeGood
    <2>2. PICK d \in rfds : node[d] = n
      BY <1>1, <1>2, <2>1 DEF Heard
    <2>3. d \notin stale
      BY <1>1, <1>3, <1>4, <2>1, <2>2 DEF NodeGood
    <2> QED
      BY <2>2, <2>3
  <1> QED
    BY <1>2, <1>6, <1>7

\* Where an address is not used again while an entry of the monitor has it (then
\* removing that entry would free another one's device), once the events of udev
\* are received the awake console listens to the devices of its seat that are
\* there and of use, and to no others, for any number of devices and of events
\* that wait (monitor_udev_event, input_add_dev, input_wake_up).
THEOREM SettledCorrect ==
  ASSUME ~Reuse
  PROVE  DevicesSpec => []Settled
  <1>1. ListInv /\ [DevicesNext]_devicesVars => ListInv'
    BY ListNext
  <1> QED
    BY <1>1, ListSettled, ListInit, PTL DEF DevicesSpec
=============================================================================
