----------------------------- MODULE SeatProofs -----------------------------
(***************************************************************************)
(* Theorems about Seat, for any sets of sessions, devices and displays.    *)
(***************************************************************************)
EXTENDS Seat, FiniteSetTheorems, TLAPS

(***************************************************************************)
(* The VT, the seat and the input devices.  InputBalance is not inductive: *)
(* what the VT backend gives back depends on what the seat's own state     *)
(* says, so it needs VtAgrees, and real_delayed must be a state of a VT    *)
(* that is not active.                                                     *)
(***************************************************************************)
VtTypes ==
  /\ running \in BOOLEAN /\ vtActive \in BOOLEAN /\ vtDelayed \in BOOLEAN
  /\ awake \in BOOLEAN /\ foreground \in BOOLEAN
DelayedReal == vtDelayed => VtKind = "real" /\ ~vtActive
FreedAsleep == ~running => ~awake
VtInv ==
  /\ VtTypes /\ DelayedReal /\ FreedAsleep
  /\ ForegroundAwake /\ VtAgrees /\ InputBalance

\* Going to the foreground and to the background end there.
LEMMA GoForegroundShown ==
  ASSUME NEW p, NEW then, NEW live, NEW key, GoForeground(p, then, live, key)
  PROVE  foreground' = TRUE
  BY DEF GoForeground

LEMMA SeatVtActivateShown ==
  ASSUME NEW key, foreground \in BOOLEAN, SeatVtActivate(key)
  PROVE  vtActive' = TRUE /\ awake' = TRUE /\ foreground' = TRUE
  BY GoForegroundShown DEF SeatVtActivate

LEMMA SeatVtDeactivateHidden ==
  ASSUME foreground \in BOOLEAN, SeatVtDeactivate
  PROVE  vtActive' = FALSE /\ awake' = FALSE /\ foreground' = FALSE
  BY DEF SeatVtDeactivate, GoBackground

LEMMA SeatSwitchVt ==
  ASSUME NEW p, NEW new, NEW live, foreground \in BOOLEAN, SeatSwitch(p, new, live)
  PROVE  foreground' \in BOOLEAN
  <1> DEFINE q == IF current \in Session THEN TermDeactivate(p, current) ELSE p
  <1> HIDE DEF q
  <1>1. ASSUME GoForeground(q, new, live, FALSE) PROVE foreground' \in BOOLEAN
    BY <1>1, GoForegroundShown
  <1> QED
    BY <1>1 DEF SeatSwitch, GoBackground, q

\* A step that leaves the VT and the wakefulness of the seat alone.
LEMMA VtQuiet ==
  ASSUME VtInv, UNCHANGED <<running, vtVars, awake>>,
         foreground' \in BOOLEAN, foreground' => awake
  PROVE  VtInv'
  <1>1. /\ running' = running /\ awake' = awake /\ vtActive' = vtActive
        /\ vtDelayed' = vtDelayed /\ inputAwake' = inputAwake
    BY DEF vtVars
  <1>2. VtTypes' /\ DelayedReal' /\ FreedAsleep'
    BY <1>1 DEF VtInv, VtTypes, DelayedReal, FreedAsleep
  <1>3. ForegroundAwake' /\ VtAgrees' /\ InputBalance'
    BY <1>1 DEF VtInv, ForegroundAwake, VtAgrees, InputBalance
  <1> QED
    BY <1>2, <1>3 DEF VtInv

LEMMA VtInit == Init => VtInv
  <1> SUFFICES ASSUME Init PROVE VtInv
    OBVIOUS
  <1> USE SeatAssumption DEF Init
  <1>1. VtTypes /\ DelayedReal /\ FreedAsleep
    BY DEF VtTypes, DelayedReal, FreedAsleep
  <1>2. ForegroundAwake /\ VtAgrees
    BY DEF ForegroundAwake, VtAgrees
  <1>3. InputBalance
    <2>1. CASE VtKind = "fake"
      <3>1. vtActive = TRUE
        BY <2>1
      <3>2. awake = TRUE /\ running = TRUE
        BY <3>1
      <3>3. vtDelayed = FALSE
        BY <2>1
      <3>4. inputAwake = Bit(FALSE) + 2 * Bit(TRUE)
        BY <2>1, <3>3
      <3> QED
        BY <2>1, <3>2, <3>4 DEF InputBalance, Bit
    <2>2. CASE VtKind # "fake"
      <3>1. vtActive = FALSE
        BY <2>2
      <3>2. awake = FALSE
        BY <3>1
      <3>3. vtDelayed \in BOOLEAN /\ (VtKind # "real" => vtDelayed = FALSE)
        OBVIOUS
      <3>4. inputAwake = Bit(vtDelayed) + 2 * Bit(FALSE)
        BY <2>2
      <3> QED
        BY <2>2, <3>1, <3>2, <3>3, <3>4 DEF InputBalance, Bit
    <2> QED
      BY <2>1, <2>2
  <1> QED
    BY <1>1, <1>2, <1>3 DEF VtInv

LEMMA VtNext == VtInv /\ [Next]_vars => VtInv'
  <1> SUFFICES ASSUME VtInv, [Next]_vars PROVE VtInv'
    OBVIOUS
  <1> USE SeatAssumption DEF VtInv
  <1>0. foreground \in BOOLEAN
    BY DEF VtTypes
  <1>1. CASE VtEnter \/ VtEnterKey
    <2>1. /\ vtActive' = TRUE /\ awake' = TRUE /\ foreground' = TRUE
          /\ vtDelayed' = FALSE /\ running = TRUE /\ running' = TRUE
          /\ vtActive = FALSE
      BY <1>0, <1>1, SeatVtActivateShown
         DEF VtEnter, VtEnterKey, VtTypes, DelayedReal
    <2>2. awake = FALSE
      BY <2>1 DEF VtTypes, VtAgrees
    <2>3. inputAwake' = inputAwake + 1 + Bit(VtKind = "real" /\ ~vtDelayed)
      <3>1. inputAwake \in Int
        BY DEF InputBalance, Bit
      <3>2. CASE VtEnter
        BY <2>2, <3>1, <3>2 DEF VtEnter, Bit
      <3>3. CASE VtEnterKey
        BY <2>2, <3>1, <3>3 DEF VtEnterKey, Bit
      <3> QED
        BY <1>1, <3>2, <3>3
    <2>4. InputBalance'
      BY <2>1, <2>2, <2>3 DEF InputBalance, Bit, VtTypes
    <2>5. VtTypes' /\ DelayedReal' /\ FreedAsleep' /\ ForegroundAwake' /\ VtAgrees'
      BY <2>1 DEF VtTypes, DelayedReal, FreedAsleep, ForegroundAwake, VtAgrees
    <2> QED
      BY <2>4, <2>5
  <1>2. CASE VtLeave \/ VtSwitchKey
    <2>1. /\ vtActive' = FALSE /\ awake' = FALSE /\ foreground' = FALSE
          /\ vtDelayed' = vtDelayed /\ running = TRUE /\ running' = TRUE
          /\ vtActive = TRUE
      BY <1>0, <1>2, SeatVtDeactivateHidden DEF VtLeave, VtSwitchKey, VtTypes
    <2>2. awake = TRUE /\ vtDelayed = FALSE
      BY <2>1 DEF VtTypes, VtAgrees, DelayedReal
    <2>3. inputAwake' = inputAwake - 1 - Bit(VtKind = "real")
      BY <1>2, <2>2 DEF VtLeave, VtSwitchKey, Bit, InputBalance
    <2>4. InputBalance'
      BY <2>1, <2>2, <2>3 DEF InputBalance, Bit
    <2>5. VtTypes' /\ DelayedReal' /\ FreedAsleep' /\ ForegroundAwake' /\ VtAgrees'
      BY <2>1, <2>2 DEF VtTypes, DelayedReal, FreedAsleep, ForegroundAwake, VtAgrees
    <2> QED
      BY <2>4, <2>5
  <1>3. CASE VtLeaveDelayed
    <2>1. /\ running' = running /\ vtActive' = vtActive /\ awake' = awake
          /\ foreground' = foreground /\ vtDelayed' = FALSE
          /\ inputAwake' = inputAwake - 1 /\ vtDelayed /\ ~vtActive
      BY <1>3 DEF VtLeaveDelayed, seatVars
    <2>2. InputBalance'
      BY <2>1 DEF InputBalance, Bit, VtTypes, DelayedReal
    <2>3. VtTypes' /\ DelayedReal' /\ FreedAsleep'
      BY <2>1 DEF VtTypes, DelayedReal, FreedAsleep
    <2>4. ForegroundAwake' /\ VtAgrees'
      BY <2>1 DEF ForegroundAwake, VtAgrees
    <2> QED
      BY <2>2, <2>3, <2>4
  <1>4. CASE KeyPress \/ DpmsExpire
    BY <1>0, <1>4, VtQuiet DEF KeyPress, DpmsExpire, seatVars, ForegroundAwake
  <1>5. CASE KeyNext \/ KeyPrev \/ KeyClose
    <2>1. awake /\ UNCHANGED <<running, vtVars, awake>>
      BY <1>5 DEF KeyNext, KeyPrev, KeyClose, KeySwitch, Grab
    <2>2. foreground' \in BOOLEAN
      BY <1>0, <1>5, SeatSwitchVt DEF KeyNext, KeyPrev, KeyClose, KeySwitch
    <2> QED
      BY <2>1, <2>2, VtQuiet
  <1>6. ASSUME NEW s \in Session, KeyNew(s) PROVE VtInv'
    <2>1. awake /\ UNCHANGED <<running, vtVars, awake>>
      BY <1>6 DEF KeyNew, Grab
    <2>2. foreground' \in BOOLEAN
      BY <1>0, <1>6, SeatSwitchVt DEF KeyNew
    <2> QED
      BY <2>1, <2>2, VtQuiet
  <1>7. ASSUME NEW s \in Session, SetBackground(s) PROVE VtInv'
    <2>1. foreground' \in BOOLEAN /\ (foreground' => foreground)
      <3>1. CASE GoBackground
        BY <3>1 DEF GoBackground
      <3>2. CASE UNCHANGED foreground
        BY <1>0, <3>2
      <3> QED
        BY <1>7, <3>1, <3>2 DEF SetBackground
    <2> QED
      BY <1>7, <2>1, VtQuiet DEF SetBackground, ForegroundAwake
  <1>8. ASSUME NEW s \in Session, SetForeground(s) PROVE VtInv'
    <2>1. foreground' \in BOOLEAN /\ (foreground' => foreground \/ awake)
      <3>1. CASE awake /\ GoForeground(Now, NoSession, ToSet(sessions), FALSE)
        BY <3>1, GoForegroundShown
      <3>2. CASE UNCHANGED foreground
        BY <1>0, <3>2
      <3> QED
        BY <1>8, <3>1, <3>2 DEF SetForeground
    <2> QED
      BY <1>8, <2>1, VtQuiet DEF SetForeground, ForegroundAwake
  <1>9. ASSUME NEW v \in Video, NEW ok \in BOOLEAN,
               \/ AddVideoAsleep(v) \/ AddVideoAwake(v) \/ AddVideoFails(v)
               \/ RemoveVideo(v) \/ Hotplug(v, ok) \/ RetryTimer(v, ok)
        PROVE  VtInv'
    <2>1. DeviceOnly
      BY <1>9 DEF AddVideoAsleep, AddVideoAwake, AddVideoFails, RemoveVideo,
                  Hotplug, RetryTimer
    <2> QED
      BY <1>0, <2>1, VtQuiet DEF DeviceOnly, seatVars, ForegroundAwake
  <1>10. CASE SeatFree
    <2>1. /\ running' = FALSE /\ awake' = FALSE /\ foreground' = FALSE
          /\ vtDelayed' = FALSE /\ vtActive' \in BOOLEAN
          /\ VtKind = "real" => ~vtActive'
          /\ running /\ inputAwake' = inputAwake - Bit(awake) - VtDestroySleeps
      BY <1>10 DEF SeatFree
    <2>2. InputBalance'
      <3>1. inputAwake = Bit(awake) + VtDestroySleeps
        BY <2>1 DEF InputBalance, VtDestroySleeps, Bit
      <3>2. Bit(awake) \in Int /\ VtDestroySleeps \in Int
        BY DEF Bit, VtDestroySleeps
      <3>3. inputAwake' = 0
        BY <2>1, <3>1, <3>2
      <3> QED
        BY <2>1, <3>3 DEF InputBalance, Bit
    <2>3. VtTypes' /\ DelayedReal' /\ FreedAsleep' /\ ForegroundAwake' /\ VtAgrees'
      BY <2>1 DEF VtTypes, DelayedReal, FreedAsleep, ForegroundAwake, VtAgrees
    <2> QED
      BY <2>2, <2>3
  <1>11. CASE UNCHANGED vars
    BY <1>0, <1>11, VtQuiet DEF vars, seatVars, ForegroundAwake
  <1> QED
    BY <1>1, <1>2, <1>3, <1>4, <1>5, <1>6, <1>7, <1>8, <1>9, <1>10, <1>11 DEF Next

LEMMA VtInvariant == Spec => []VtInv
  BY VtInit, VtNext, PTL DEF Spec

\* seat_go_background never meets a seat that is asleep, so seat_vt_deactivate
\* never refuses the VT after vt_cb_deactivate has given it up.
THEOREM ForegroundAwakeCorrect == Spec => []ForegroundAwake
  <1>1. VtInv => ForegroundAwake
    BY DEF VtInv
  <1> QED
    BY <1>1, VtInvariant, PTL

\* The seat is awake exactly while its VT is active.
THEOREM VtAgreesCorrect == Spec => []VtAgrees
  <1>1. VtInv => VtAgrees
    BY DEF VtInv
  <1> QED
    BY <1>1, VtInvariant, PTL

\* The wake-ups of the input devices are those of an awake seat and of its VT
\* backend, for each backend and every order of its callbacks.
THEOREM InputBalanceCorrect == Spec => []InputBalance
  <1>1. VtInv => InputBalance
    BY DEF VtInv
  <1> QED
    BY <1>1, VtInvariant, PTL

-----------------------------------------------------------------------------
(***************************************************************************)
(* The record that a handler threads through the calls it makes.           *)
(***************************************************************************)
Presentation ==
  [term : SUBSET Session, scr : [Session -> SUBSET Display],
   off : SUBSET Display, blank : BOOLEAN, armed : BOOLEAN]

LEMMA TermActivateScreens ==
  ASSUME NEW p \in Presentation, NEW t
  PROVE  TermActivate(p, t) \in Presentation /\ TermActivate(p, t).scr = p.scr
  BY DEF TermActivate, Presentation

LEMMA TermDeactivateScreens ==
  ASSUME NEW p \in Presentation, NEW t
  PROVE  TermDeactivate(p, t) \in Presentation /\ TermDeactivate(p, t).scr = p.scr
  BY DEF TermDeactivate, Presentation

LEMMA DpmsResetScreens ==
  ASSUME NEW p \in Presentation, NEW act, NEW vid
  PROVE  DpmsReset(p, act, vid) \in Presentation /\ DpmsReset(p, act, vid).scr = p.scr
  <1> DEFINE q == TermActivate(p, current)
  <1>1. q \in Presentation /\ q.scr = p.scr
    BY TermActivateScreens
  <1> HIDE DEF q
  <1>2. /\ [q EXCEPT !.off = @ \ Reachable(act, vid), !.blank = FALSE, !.armed = TRUE]
             \in Presentation
        /\ [q EXCEPT !.off = @ \ Reachable(act, vid), !.blank = FALSE, !.armed = TRUE].scr
             = p.scr
    BY <1>1 DEF Presentation
  <1>3. /\ [p EXCEPT !.armed = TRUE] \in Presentation
        /\ [p EXCEPT !.armed = TRUE].scr = p.scr
    BY DEF Presentation
  <1> QED
    BY <1>2, <1>3 DEF DpmsReset, q

\* activate_display gives the live sessions a screen on each display of A.
LEMMA ActivateDisplaysScreens ==
  ASSUME NEW p \in Presentation, NEW A \in SUBSET Display, NEW act, NEW vid, NEW live
  PROVE  /\ ActivateDisplays(p, A, act, vid, live) \in Presentation
         /\ \A s \in Session \cap live :
              ActivateDisplays(p, A, act, vid, live).scr[s] = p.scr[s] \cup A
  <1>1. CASE A = {}
    BY <1>1 DEF ActivateDisplays, Presentation
  <1>2. CASE A # {}
    <2> DEFINE on  == [p EXCEPT !.off = @ \ A]
               rst == DpmsReset(on, act, vid)
               add == [rst EXCEPT !.scr = [s \in Session |->
                          IF s \in live THEN @[s] \cup A ELSE @[s]]]
    <2>1. on \in Presentation /\ on.scr = p.scr
      BY DEF Presentation
    <2>2. rst \in Presentation /\ rst.scr = p.scr
      BY <2>1, DpmsResetScreens
    <2>3. add \in Presentation
      <3> HIDE DEF rst
      <3> QED
        BY <2>2 DEF Presentation
    <2>4. \A s \in Session \cap live : add.scr[s] = p.scr[s] \cup A
      <3> HIDE DEF rst
      <3> QED
        BY <2>2 DEF Presentation
    <2>5. ActivateDisplays(p, A, act, vid, live) = TermActivate(add, current)
      BY <1>2 DEF ActivateDisplays
    <2> HIDE DEF add
    <2> QED
      BY <2>3, <2>4, <2>5, TermActivateScreens
  <1> QED
    BY <1>1, <1>2

LEMMA RemoveDisplaysScreens ==
  ASSUME NEW p \in Presentation, NEW R, NEW act
  PROVE  /\ RemoveDisplays(p, R, act) \in Presentation
         /\ \A s \in Session :
              RemoveDisplays(p, R, act).scr[s] = p.scr[s] \ (R \cap act)
  BY DEF RemoveDisplays, Presentation

-----------------------------------------------------------------------------
(***************************************************************************)
(* The list of sessions.                                                   *)
(***************************************************************************)
LEMMA RemoveAtElements ==
  ASSUME NEW S, NEW q \in Seq(S), NEW i \in 1..Len(q)
  PROVE  /\ RemoveAt(q, i) \in Seq(S)
         /\ Len(RemoveAt(q, i)) = Len(q) - 1
         /\ \A j \in 1..(Len(q) - 1) :
              RemoveAt(q, i)[j] = IF j < i THEN q[j] ELSE q[j + 1]
  <1> DEFINE a == SubSeq(q, 1, i - 1)
             b == SubSeq(q, i + 1, Len(q))
  <1>1. a \in Seq(S) /\ Len(a) = i - 1 /\ \A j \in 1..(i - 1) : a[j] = q[j]
    OBVIOUS
  <1>2. b \in Seq(S) /\ Len(b) = Len(q) - i /\ \A j \in 1..(Len(q) - i) : b[j] = q[j + i]
    OBVIOUS
  <1> HIDE DEF a, b
  <1>3. /\ a \o b \in Seq(S) /\ Len(a \o b) = Len(q) - 1
        /\ \A j \in 1..(Len(q) - 1) :
             (a \o b)[j] = IF j <= Len(a) THEN a[j] ELSE b[j - Len(a)]
    <2>1. a \o b \in Seq(S) /\ Len(a \o b) = Len(a) + Len(b)
      <3>1. a \in Seq(S) /\ b \in Seq(S)
        BY <1>1, <1>2
      <3> QED
        BY <3>1
    <2>2. Len(a) + Len(b) = Len(q) - 1
      BY <1>1, <1>2
    <2>3. \A j \in 1..(Len(a) + Len(b)) :
            (a \o b)[j] = IF j <= Len(a) THEN a[j] ELSE b[j - Len(a)]
      BY <1>1, <1>2
    <2> QED
      BY <2>1, <2>2, <2>3
  <1>4. \A j \in 1..(Len(q) - 1) : (a \o b)[j] = IF j < i THEN q[j] ELSE q[j + 1]
    BY <1>1, <1>2, <1>3
  <1> QED
    BY <1>3, <1>4 DEF RemoveAt, a, b

LEMMA InsertAtElements ==
  ASSUME NEW S, NEW q \in Seq(S), NEW i \in 1..(Len(q) + 1), NEW e \in S
  PROVE  /\ InsertAt(q, i, e) \in Seq(S)
         /\ Len(InsertAt(q, i, e)) = Len(q) + 1
         /\ \A j \in 1..(Len(q) + 1) :
              InsertAt(q, i, e)[j] = IF j < i THEN q[j]
                                     ELSE IF j = i THEN e ELSE q[j - 1]
  <1> DEFINE a == SubSeq(q, 1, i - 1)
             b == SubSeq(q, i, Len(q))
             c == a \o <<e>>
  <1>1. a \in Seq(S) /\ Len(a) = i - 1 /\ \A j \in 1..(i - 1) : a[j] = q[j]
    OBVIOUS
  <1>2. /\ b \in Seq(S) /\ Len(b) = Len(q) - i + 1
        /\ \A j \in 1..(Len(q) - i + 1) : b[j] = q[j + i - 1]
    OBVIOUS
  <1> HIDE DEF a, b
  <1>3. /\ c \in Seq(S) /\ Len(c) = i
        /\ \A j \in 1..i : c[j] = IF j < i THEN q[j] ELSE e
    BY <1>1
  <1> HIDE DEF c
  <1>4. /\ c \o b \in Seq(S) /\ Len(c \o b) = Len(q) + 1
        /\ \A j \in 1..(Len(q) + 1) :
             (c \o b)[j] = IF j <= i THEN c[j] ELSE b[j - i]
    BY <1>2, <1>3
  <1>5. \A j \in 1..(Len(q) + 1) :
          (c \o b)[j] = IF j < i THEN q[j] ELSE IF j = i THEN e ELSE q[j - 1]
    BY <1>2, <1>3, <1>4
  <1> QED
    BY <1>4, <1>5 DEF InsertAt, a, b, c

-----------------------------------------------------------------------------
(***************************************************************************)
(* The sessions and their screens.  SessionScreens is not inductive: a new *)
(* session gets a screen on every display of the seat, so it needs that an *)
(* activated display is one of them; and every handler must leave list and *)
(* pointer such that the next one finds the current session in the list.   *)
(***************************************************************************)
ListInv ==
  /\ sessions \in Seq(Session)
  /\ current \in Session \cup {NoSession}
  /\ sessFg \in [Session -> BOOLEAN]
  /\ CurrentLive

TermTypes ==
  /\ termAwake \subseteq Session /\ opened \subseteq Session
  /\ screens \in [Session -> SUBSET Display]
  /\ dpmsOff \subseteq Display
  /\ blanked \in BOOLEAN /\ dpmsArmed \in BOOLEAN

VideoTypes ==
  /\ listed \subseteq Video /\ retry \subseteq Video
  /\ video \in [Video -> VideoState]
  /\ displays \subseteq Display /\ activated \subseteq Display

ScreenInv ==
  /\ TermTypes /\ VideoTypes
  /\ activated \subseteq displays
  /\ SessionScreens

\* The presentation p has a screen on every activated display for each session
\* of "live".
Covers(p, live) == \A s \in live : activated \subseteq p.scr[s]

LEMMA NowPresentation ==
  ASSUME TermTypes PROVE Now \in Presentation /\ Now.scr = screens
  BY DEF Now, Presentation, TermTypes

LEMMA PresentStores ==
  ASSUME NEW p \in Presentation, NEW live \in SUBSET Session,
         opened \subseteq Session, Present(p, live)
  PROVE  TermTypes' /\ \A s \in live : screens'[s] = p.scr[s]
  BY DEF Present, Presentation, TermTypes

LEMMA ToSetSubset == ASSUME NEW S, NEW q \in Seq(S) PROVE ToSet(q) \in SUBSET S
  BY DEF ToSet

\* A handler that leaves the displays alone.
LEMMA PresentKeeps ==
  ASSUME ScreenInv, NEW p \in Presentation, NEW live \in SUBSET Session,
         VideoTypes', UNCHANGED <<displays, activated>>,
         Present(p, live), Covers(p, live), live = ToSet(sessions')
  PROVE  ScreenInv'
  <1>1. TermTypes' /\ \A s \in live : screens'[s] = p.scr[s]
    BY PresentStores DEF ScreenInv, TermTypes
  <1>2. SessionScreens'
    BY <1>1 DEF SessionScreens, Covers
  <1> QED
    BY <1>1, <1>2 DEF ScreenInv

\* The displays "gone" are removed and those of A activated: the step keeps the
\* screens on what is activated afterwards.
LEMMA ReplugKeeps ==
  ASSUME ScreenInv, NEW p \in Presentation, NEW live \in SUBSET Session,
         Covers(p, live),
         NEW gone, NEW A \in SUBSET Display, NEW act, NEW vid
  PROVE  LET q == ActivateDisplays(RemoveDisplays(p, gone, activated), A, act, vid, live)
         IN  /\ q \in Presentation
             /\ \A s \in live : ((activated \ gone) \cup A) \subseteq q.scr[s]
  <1> DEFINE r == RemoveDisplays(p, gone, activated)
             q == ActivateDisplays(r, A, act, vid, live)
  <1>1. r \in Presentation /\ \A s \in Session : r.scr[s] = p.scr[s] \ (gone \cap activated)
    BY RemoveDisplaysScreens
  <1> HIDE DEF r
  <1>2. q \in Presentation /\ \A s \in Session \cap live : q.scr[s] = r.scr[s] \cup A
    BY <1>1, ActivateDisplaysScreens
  <1> HIDE DEF q
  <1>3. \A s \in live : ((activated \ gone) \cup A) \subseteq q.scr[s]
    BY <1>1, <1>2 DEF Covers
  <1> QED
    BY <1>2, <1>3 DEF q, r

LEMMA GoForegroundKeeps ==
  ASSUME ScreenInv, NEW p \in Presentation, NEW then, NEW live \in SUBSET Session,
         NEW key, Covers(p, live), live = ToSet(sessions'),
         GoForeground(p, then, live, key)
  PROVE  ScreenInv'
  <1> PICK good \in SUBSET Sleeping, leak \in SUBSET Deferred,
           gone \in SUBSET (displays \cap On(Sleeping)),
           new \in SUBSET (Fresh \cap On(Sleeping)) :
        /\ WakeVideos(good, leak, gone, new)
        /\ \E early \in Early(good, new) :
             GoForegroundWith(p, then, live, key, gone, early)
    BY DEF GoForeground
  <1> PICK early \in Early(good, new) : GoForegroundWith(p, then, live, key, gone, early)
    OBVIOUS
  <1> DEFINE vidThen == [v \in Video |->
                           IF v \in Sleeping \ early THEN "asleep" ELSE video'[v]]
             shown == ActivateDisplays(RemoveDisplays(p, gone, activated),
                                       Lit, activated \ gone, vidThen, live)
             done == TermActivate(shown, then)
             last == IF key THEN DpmsReset(done, activated', video') ELSE done
  <1>0. activated' = (activated \ gone) \cup Lit /\ Present(last, live)
    BY DEF GoForegroundWith
  <1>1. VideoTypes'
    <2>1. displays' \subseteq Display
      BY DEF WakeVideos, Fresh, ScreenInv, VideoTypes
    <2>2. activated' \subseteq Display
      BY <1>0, <2>1 DEF Lit, ScreenInv, VideoTypes
    <2>3. listed' \subseteq Video /\ retry' \subseteq Video
      BY DEF WakeVideos, Sleeping, Deferred, ScreenInv, VideoTypes
    <2>4. video' \in [Video -> VideoState]
      BY DEF WakeVideos, ScreenInv, VideoTypes, VideoState
    <2> QED
      BY <2>1, <2>2, <2>3, <2>4 DEF VideoTypes
  <1>2. activated' \subseteq displays'
    BY <1>0 DEF WakeVideos, Lit, ScreenInv
  <1>3. Lit \in SUBSET Display
    BY <1>1 DEF Lit, VideoTypes
  <1> HIDE DEF vidThen
  <1>4. shown \in Presentation /\ \A s \in live : activated' \subseteq shown.scr[s]
    BY <1>0, <1>3, ReplugKeeps
  <1> HIDE DEF shown
  <1>5. done \in Presentation /\ done.scr = shown.scr
    BY <1>4, TermActivateScreens
  <1> HIDE DEF done
  <1>6. last \in Presentation /\ last.scr = shown.scr
    BY <1>5, DpmsResetScreens
  <1> HIDE DEF last
  <1>7. TermTypes' /\ \A s \in live : screens'[s] = last.scr[s]
    BY <1>0, <1>6, PresentStores DEF ScreenInv, TermTypes
  <1>8. SessionScreens'
    BY <1>4, <1>6, <1>7 DEF SessionScreens
  <1> QED
    BY <1>1, <1>2, <1>7, <1>8 DEF ScreenInv

LEMMA GoBackgroundVideo ==
  ASSUME ScreenInv, GoBackground PROVE VideoTypes' /\ UNCHANGED <<displays, activated>>
  BY DEF GoBackground, ScreenInv, VideoTypes, VideoState

LEMMA SeatSwitchKeeps ==
  ASSUME ScreenInv, NEW p \in Presentation, NEW new, NEW live \in SUBSET Session,
         Covers(p, live), live = ToSet(sessions'), SeatSwitch(p, new, live)
  PROVE  ScreenInv'
  <1> DEFINE q == IF current \in Session THEN TermDeactivate(p, current) ELSE p
             r == TermActivate(q, new)
  <1>1. q \in Presentation /\ q.scr = p.scr
    BY TermDeactivateScreens
  <1>2. \/ GoForeground(q, new, live, FALSE)
        \/ GoBackground /\ Present(r, live)
        \/ UNCHANGED videoVars /\ Present(r, live)
    BY DEF SeatSwitch
  <1> HIDE DEF q
  <1>3. r \in Presentation /\ r.scr = p.scr
    BY <1>1, TermActivateScreens
  <1> HIDE DEF r
  <1>4. Covers(q, live) /\ Covers(r, live)
    BY <1>1, <1>3 DEF Covers
  <1>5. CASE GoForeground(q, new, live, FALSE)
    BY <1>1, <1>4, <1>5, GoForegroundKeeps
  <1>6. CASE GoBackground /\ Present(r, live)
    BY <1>3, <1>4, <1>6, GoBackgroundVideo, PresentKeeps
  <1>7. CASE UNCHANGED videoVars /\ Present(r, live)
    <2>1. VideoTypes' /\ UNCHANGED <<displays, activated>>
      BY <1>7 DEF videoVars, VideoTypes, ScreenInv
    <2> QED
      BY <1>3, <1>4, <1>7, <2>1, PresentKeeps
  <1> QED
    BY <1>2, <1>5, <1>6, <1>7

\* A device looks at its connectors.
LEMMA RescanKeeps ==
  ASSUME ScreenInv, sessions \in Seq(Session), UNCHANGED sessions,
         listed' \subseteq Video, retry' \subseteq Video,
         video' \in [Video -> VideoState],
         NEW v, NEW ok, Rescan(v, ok)
  PROVE  ScreenInv'
  <1> PICK gone \in SUBSET (displays \cap On({v})), new \in SUBSET (Fresh \cap On({v})) :
        LET A == IF awake /\ foreground THEN new ELSE {}
        IN  /\ displays' = (displays \ gone) \cup new
            /\ activated' = (activated \ gone) \cup A
            /\ Present(ActivateDisplays(RemoveDisplays(Now, gone, activated), A,
                                        activated \ gone, video', ToSet(sessions)),
                       ToSet(sessions))
    BY DEF Rescan, RescanAnd
  <1> DEFINE A == IF awake /\ foreground THEN new ELSE {}
             live == ToSet(sessions)
             q == ActivateDisplays(RemoveDisplays(Now, gone, activated), A,
                                   activated \ gone, video', live)
  <1>1. displays' = (displays \ gone) \cup new /\ activated' = (activated \ gone) \cup A
    OBVIOUS
  <1>2. Present(q, live)
    OBVIOUS
  <1>3. A \in SUBSET Display /\ A \subseteq new
    BY DEF Fresh
  <1> HIDE DEF A
  <1>4. VideoTypes' /\ activated' \subseteq displays'
    BY <1>1, <1>3 DEF ScreenInv, VideoTypes, Fresh
  <1>5. live \in SUBSET Session
    BY ToSetSubset
  <1>6. Now \in Presentation /\ Covers(Now, live)
    BY NowPresentation DEF ScreenInv, SessionScreens, Covers
  <1>7. q \in Presentation /\ \A s \in live : activated' \subseteq q.scr[s]
    BY <1>1, <1>3, <1>5, <1>6, ReplugKeeps
  <1> HIDE DEF q
  <1>8. TermTypes' /\ \A s \in live : screens'[s] = q.scr[s]
    BY <1>2, <1>5, <1>7, PresentStores DEF ScreenInv, TermTypes
  <1>9. SessionScreens'
    BY <1>7, <1>8 DEF SessionScreens
  <1> QED
    BY <1>4, <1>8, <1>9 DEF ScreenInv

\* A step that leaves the terminals and the displays alone.
LEMMA TermQuiet ==
  ASSUME ScreenInv, VideoTypes',
         UNCHANGED <<displays, activated, sessions, termVars, dpmsVars>>
  PROVE  ScreenInv'
  <1>1. /\ termAwake' = termAwake /\ opened' = opened /\ screens' = screens
        /\ dpmsOff' = dpmsOff /\ blanked' = blanked /\ dpmsArmed' = dpmsArmed
        /\ displays' = displays /\ activated' = activated /\ sessions' = sessions
    BY DEF termVars, dpmsVars
  <1>2. TermTypes'
    BY <1>1 DEF ScreenInv, TermTypes
  <1>3. SessionScreens'
    BY <1>1 DEF ScreenInv, SessionScreens
  <1> QED
    BY <1>1, <1>2, <1>3 DEF ScreenInv

-----------------------------------------------------------------------------
(***************************************************************************)
(* The neighbours of a session in the list, and the list without or with a *)
(* session.                                                                *)
(***************************************************************************)
LEMMA PosIn ==
  ASSUME sessions \in Seq(Session), NEW s \in ToSet(sessions)
  PROVE  Pos(s) \in 1..Len(sessions) /\ sessions[Pos(s)] = s
  <1>1. \E i \in 1..Len(sessions) : sessions[i] = s
    BY DEF ToSet
  <1> QED
    BY <1>1 DEF Pos

LEMMA NeighboursIn ==
  ASSUME sessions \in Seq(Session), NEW s \in ToSet(sessions)
  PROVE  NextOf(s) \in ToSet(sessions) /\ PrevOf(s) \in ToSet(sessions)
  <1> DEFINE n == IF Pos(s) = Len(sessions) THEN 1 ELSE Pos(s) + 1
             m == IF Pos(s) = 1 THEN Len(sessions) ELSE Pos(s) - 1
  <1>1. Pos(s) \in 1..Len(sessions)
    BY PosIn
  <1>2. n \in DOMAIN sessions /\ m \in DOMAIN sessions
    BY <1>1
  <1>3. NextOf(s) = sessions[n] /\ PrevOf(s) = sessions[m]
    BY DEF NextOf, PrevOf
  <1> HIDE DEF n, m
  <1> QED
    BY <1>2, <1>3 DEF ToSet

\* kmscon_session_unregister of the current session: the next one stays.
LEMMA CloseList ==
  ASSUME sessions \in Seq(Session), IsInjective(sessions), Len(sessions) >= 2,
         NEW s \in ToSet(sessions)
  PROVE  LET q == RemoveAt(sessions, Pos(s))
         IN  /\ q \in Seq(Session) /\ IsInjective(q)
             /\ ToSet(q) \subseteq ToSet(sessions)
             /\ NextOf(s) \in ToSet(q)
  <1> DEFINE i == Pos(s)
             q == RemoveAt(sessions, i)
             n == IF i = Len(sessions) THEN 1 ELSE i + 1
  <1>1. i \in 1..Len(sessions) /\ Len(sessions) \in Nat
    BY PosIn
  <1> HIDE DEF i
  <1>2. /\ q \in Seq(Session) /\ Len(q) = Len(sessions) - 1
        /\ \A j \in 1..(Len(sessions) - 1) :
             q[j] = IF j < i THEN sessions[j] ELSE sessions[j + 1]
    BY <1>1, RemoveAtElements
  <1> HIDE DEF q
  <1>3. DOMAIN q = 1..(Len(sessions) - 1) /\ DOMAIN sessions = 1..Len(sessions)
    BY <1>2
  <1>4. IsInjective(q)
    <2> SUFFICES ASSUME NEW a \in DOMAIN q, NEW b \in DOMAIN q, q[a] = q[b] PROVE a = b
      BY DEF IsInjective
    <2> DEFINE up(j) == IF j < i THEN j ELSE j + 1
    <2>1. up(a) \in DOMAIN sessions /\ up(b) \in DOMAIN sessions
      BY <1>1, <1>3
    <2>2. q[a] = sessions[up(a)] /\ q[b] = sessions[up(b)]
      BY <1>2, <1>3
    <2>3. up(a) = up(b)
      BY <2>1, <2>2 DEF IsInjective
    <2> QED
      BY <1>1, <1>3, <2>3
  <1>5. ToSet(q) \subseteq ToSet(sessions)
    <2> SUFFICES ASSUME NEW j \in DOMAIN q PROVE q[j] \in ToSet(sessions)
      BY DEF ToSet
    <2>1. j \in DOMAIN sessions /\ j + 1 \in DOMAIN sessions
      BY <1>1, <1>3
    <2> QED
      BY <1>2, <1>3, <2>1 DEF ToSet
  <1>6. sessions[n] \in ToSet(q)
    <2>1. CASE i = Len(sessions)
      <3>1. 1 \in DOMAIN q /\ q[1] = sessions[1] /\ n = 1
        BY <1>1, <1>2, <1>3, <2>1
      <3> QED
        BY <3>1 DEF ToSet
    <2>2. CASE i # Len(sessions)
      <3>1. i \in DOMAIN q /\ q[i] = sessions[i + 1] /\ n = i + 1
        BY <1>1, <1>2, <1>3, <2>2
      <3> QED
        BY <3>1 DEF ToSet
    <2> QED
      BY <2>1, <2>2
  <1>7. NextOf(s) = sessions[n]
    BY DEF NextOf, i
  <1> QED
    BY <1>2, <1>4, <1>5, <1>6, <1>7 DEF q, i

\* kmscon_seat_new_session: the new session is linked behind the current one.
LEMMA NewList ==
  ASSUME sessions \in Seq(Session), IsInjective(sessions),
         NEW c \in ToSet(sessions), NEW s \in Session, s \notin ToSet(sessions)
  PROVE  LET q == InsertAt(sessions, Pos(c) + 1, s)
         IN  /\ q \in Seq(Session) /\ IsInjective(q)
             /\ ToSet(q) \subseteq ToSet(sessions) \cup {s}
             /\ s \in ToSet(q)
  <1> DEFINE i == Pos(c) + 1
             q == InsertAt(sessions, i, s)
  <1>1. i \in 1..(Len(sessions) + 1) /\ Len(sessions) \in Nat
    BY PosIn
  <1> HIDE DEF i
  <1>2. /\ q \in Seq(Session) /\ Len(q) = Len(sessions) + 1
        /\ \A j \in 1..(Len(sessions) + 1) :
             q[j] = IF j < i THEN sessions[j] ELSE IF j = i THEN s ELSE sessions[j - 1]
    BY <1>1, InsertAtElements
  <1> HIDE DEF q
  <1>3. DOMAIN q = 1..(Len(sessions) + 1) /\ DOMAIN sessions = 1..Len(sessions)
    BY <1>2
  <1>4. q[i] = s /\ i \in DOMAIN q
    BY <1>1, <1>2, <1>3
  <1> DEFINE down(j) == IF j < i THEN j ELSE j - 1
  <1>5. \A j \in DOMAIN q : j # i => down(j) \in DOMAIN sessions /\ q[j] = sessions[down(j)]
    BY <1>1, <1>2, <1>3
  <1>6. \A j \in DOMAIN q : j # i => q[j] \in ToSet(sessions)
    BY <1>5 DEF ToSet
  <1>7. IsInjective(q)
    <2> SUFFICES ASSUME NEW a \in DOMAIN q, NEW b \in DOMAIN q, q[a] = q[b] PROVE a = b
      BY DEF IsInjective
    <2>1. CASE a = i \/ b = i
      BY <1>4, <1>6, <2>1
    <2>2. CASE a # i /\ b # i
      <3>1. down(a) = down(b)
        BY <1>5, <2>2 DEF IsInjective
      <3> QED
        BY <1>1, <1>3, <2>2, <3>1
    <2> QED
      BY <2>1, <2>2
  <1>8. ToSet(q) \subseteq ToSet(sessions) \cup {s} /\ s \in ToSet(q)
    BY <1>4, <1>6 DEF ToSet
  <1> QED
    BY <1>2, <1>7, <1>8 DEF q, i

-----------------------------------------------------------------------------
SeatInv == ListInv /\ ScreenInv

LEMMA SeatInit == Init => SeatInv
  <1> SUFFICES ASSUME Init PROVE SeatInv
    OBVIOUS
  <1> PICK s \in Session : current = s /\ sessions = <<s>>
    BY DEF Init
  <1>1. sessions \in Seq(Session) /\ DOMAIN sessions = {1} /\ sessions[1] = s
    OBVIOUS
  <1>2. CurrentLive
    BY <1>1 DEF CurrentLive, ToSet, IsInjective
  <1>3. ListInv
    BY <1>1, <1>2 DEF ListInv, Init
  <1>4. TermTypes
    BY SeatAssumption DEF Init, TermTypes
  <1>5. VideoTypes /\ activated \subseteq displays /\ SessionScreens
    BY DEF Init, VideoTypes, VideoState, SessionScreens
  <1> QED
    BY <1>3, <1>4, <1>5 DEF SeatInv, ScreenInv

\* The list and the pointer into it are left alone.
LEMMA ListQuiet ==
  ASSUME ListInv, UNCHANGED <<sessions, current>>, running' => running,
         sessFg' \in [Session -> BOOLEAN]
  PROVE  ListInv'
  BY DEF ListInv, CurrentLive

\* The current session and the presentation after a key event.
LEMMA KeyState ==
  ASSUME SeatInv
  PROVE  /\ running => current \in ToSet(sessions)
         /\ ToSet(sessions) \in SUBSET Session
         /\ Touched \in Presentation /\ Touched.scr = screens
         /\ Now \in Presentation /\ Now.scr = screens
         /\ \A p : p.scr = screens => Covers(p, ToSet(sessions))
  <1>1. ToSet(sessions) \in SUBSET Session
    BY ToSetSubset DEF SeatInv, ListInv
  <1>2. Now \in Presentation /\ Now.scr = screens
    BY NowPresentation DEF SeatInv, ScreenInv
  <1>3. Touched \in Presentation /\ Touched.scr = screens
    BY <1>2, DpmsResetScreens DEF Touched
  <1>4. \A p : p.scr = screens => Covers(p, ToSet(sessions))
    BY DEF Covers, SeatInv, ScreenInv, SessionScreens
  <1>5. running => current \in ToSet(sessions)
    BY DEF SeatInv, ListInv, CurrentLive
  <1> QED
    BY <1>1, <1>2, <1>3, <1>4, <1>5

\* A handler that shows p and leaves list, devices and displays alone.
LEMMA ShowOnly ==
  ASSUME SeatInv, UNCHANGED <<running, sessVars, videoVars>>,
         NEW p \in Presentation, p.scr = screens, Present(p, ToSet(sessions))
  PROVE  SeatInv'
  <1>1. UNCHANGED <<sessions, current, sessFg, displays, activated>> /\ VideoTypes'
    BY DEF sessVars, videoVars, SeatInv, ScreenInv, VideoTypes
  <1>2. ListInv'
    BY <1>1, ListQuiet DEF SeatInv, ListInv
  <1>3. ScreenInv'
    BY <1>1, KeyState, PresentKeeps DEF SeatInv
  <1> QED
    BY <1>2, <1>3 DEF SeatInv

LEMMA SeatNext == SeatInv /\ [Next]_vars => SeatInv'
  <1> SUFFICES ASSUME SeatInv, [Next]_vars PROVE SeatInv'
    OBVIOUS
  <1> DEFINE live == ToSet(sessions)
  <1>0. /\ ListInv /\ ScreenInv /\ live \in SUBSET Session
        /\ Touched \in Presentation /\ Touched.scr = screens
        /\ Now \in Presentation /\ Now.scr = screens
        /\ \A p : p.scr = screens => Covers(p, live)
    BY KeyState DEF SeatInv
  <1>1. CASE VtEnter \/ VtEnterKey
    <2>1. PICK key \in BOOLEAN : SeatVtActivate(key)
      BY <1>1 DEF VtEnter, VtEnterKey
    <2>2. UNCHANGED <<running, sessVars>>
      BY <1>1 DEF VtEnter, VtEnterKey
    <2>3. CASE foreground
      <3>1. /\ TermActivate(Now, current) \in Presentation
            /\ TermActivate(Now, current).scr = screens
        BY <1>0, TermActivateScreens
      <3> QED
        BY <2>1, <2>2, <2>3, <3>1, ShowOnly DEF SeatVtActivate
    <2>4. CASE ~foreground
      <3>1. ScreenInv'
        BY <1>0, <2>1, <2>2, <2>4, GoForegroundKeeps DEF SeatVtActivate, sessVars
      <3>2. ListInv'
        BY <1>0, <2>2, ListQuiet DEF sessVars, ListInv
      <3> QED
        BY <3>1, <3>2 DEF SeatInv
    <2> QED
      BY <2>3, <2>4
  <1>2. CASE VtLeave \/ VtSwitchKey
    <2> DEFINE q == TermDeactivate(Now, current)
               r == DpmsReset(q, activated, video')
    <2>1. q \in Presentation /\ q.scr = screens
      BY <1>0, TermDeactivateScreens
    <2>2. Present(q, live) \/ Present(r, live)
      BY <1>2 DEF VtLeave, VtSwitchKey
    <2> HIDE DEF q
    <2>3. r \in Presentation /\ r.scr = screens
      BY <2>1, DpmsResetScreens
    <2> HIDE DEF r
    <2>4. SeatVtDeactivate /\ UNCHANGED <<running, sessVars>>
      BY <1>2 DEF VtLeave, VtSwitchKey
    <2>5. VideoTypes' /\ UNCHANGED <<displays, activated>>
      <3>1. CASE GoBackground
        BY <1>0, <3>1, GoBackgroundVideo
      <3>2. CASE UNCHANGED videoVars
        BY <1>0, <3>2 DEF videoVars, ScreenInv, VideoTypes
      <3> QED
        BY <2>4, <3>1, <3>2 DEF SeatVtDeactivate
    <2>6. ScreenInv'
      BY <1>0, <2>1, <2>2, <2>3, <2>4, <2>5, PresentKeeps DEF sessVars
    <2>7. ListInv'
      BY <1>0, <2>4, ListQuiet DEF sessVars, ListInv
    <2> QED
      BY <2>6, <2>7 DEF SeatInv
  <1>3. CASE VtLeaveDelayed
    <2>1. VideoTypes'
      BY <1>0, <1>3 DEF VtLeaveDelayed, videoVars, ScreenInv, VideoTypes
    <2>2. ScreenInv'
      BY <1>0, <1>3, <2>1, TermQuiet DEF VtLeaveDelayed, videoVars, sessVars
    <2>3. ListInv'
      BY <1>0, <1>3, ListQuiet DEF VtLeaveDelayed, sessVars, ListInv
    <2> QED
      BY <2>2, <2>3 DEF SeatInv
  <1>4. CASE KeyPress
    BY <1>0, <1>4, ShowOnly DEF KeyPress
  <1>5. ASSUME NEW new \in live, KeySwitch(new) PROVE SeatInv'
    <2>1. ScreenInv'
      BY <1>0, <1>5, SeatSwitchKeeps DEF KeySwitch
    <2>2. current' = new /\ UNCHANGED <<running, sessions, sessFg>>
      BY <1>5 DEF KeySwitch, SeatSwitch
    <2>3. ListInv'
      BY <1>0, <2>2 DEF ListInv, CurrentLive
    <2> QED
      BY <2>1, <2>3 DEF SeatInv
  <1>6. CASE KeyNext \/ KeyPrev
    <2>1. current \in live
      BY <1>6, KeyState DEF KeyNext, KeyPrev, Grab
    <2>2. NextOf(current) \in live /\ PrevOf(current) \in live
      BY <1>0, <2>1, NeighboursIn DEF ListInv
    <2> QED
      BY <1>5, <1>6, <2>2 DEF KeyNext, KeyPrev
  <1>7. CASE KeyClose
    <2> DEFINE p == TermDeactivate(Touched, current)
    <2>1. current \in live /\ running
      BY <1>7, KeyState DEF KeyClose, Grab
    <2>2. /\ sessions' \in Seq(Session) /\ IsInjective(sessions')
          /\ ToSet(sessions') \subseteq live
          /\ NextOf(current) \in ToSet(sessions')
      BY <1>0, <1>7, <2>1, CloseList DEF KeyClose, ListInv, CurrentLive
    <2>3. p \in Presentation /\ p.scr = screens
      BY <1>0, TermDeactivateScreens
    <2>4. Covers(p, ToSet(sessions'))
      BY <1>0, <2>2, <2>3 DEF Covers
    <2>5. SeatSwitch(p, NextOf(current), ToSet(sessions'))
      BY <1>7 DEF KeyClose
    <2> HIDE DEF p
    <2>6. ScreenInv'
      BY <1>0, <2>2, <2>3, <2>4, <2>5, SeatSwitchKeeps
    <2>7. current' = NextOf(current) /\ sessFg' = sessFg
      BY <1>7 DEF KeyClose, SeatSwitch
    <2>8. ListInv'
      BY <1>0, <2>2, <2>7 DEF ListInv, CurrentLive
    <2> QED
      BY <2>6, <2>8 DEF SeatInv
  <1>8. ASSUME NEW s \in Session, KeyNew(s) PROVE SeatInv'
    <2> DEFINE p == [Touched EXCEPT !.scr[s] = NewScreens]
    <2>1. current \in live /\ s \notin live
      BY <1>8, KeyState DEF KeyNew, Grab
    <2>2. /\ sessions' \in Seq(Session) /\ IsInjective(sessions')
          /\ ToSet(sessions') \subseteq live \cup {s}
          /\ s \in ToSet(sessions')
      BY <1>0, <1>8, <2>1, NewList DEF KeyNew, ListInv, CurrentLive
    <2>3. p \in Presentation /\ p.scr = [screens EXCEPT ![s] = displays]
      BY <1>0 DEF Presentation, NewScreens, ScreenInv, VideoTypes
    <2>4. Covers(p, ToSet(sessions'))
      BY <1>0, <2>2, <2>3 DEF Covers, ScreenInv, SessionScreens, TermTypes
    <2>5. SeatSwitch(p, s, ToSet(sessions'))
      BY <1>8 DEF KeyNew
    <2> HIDE DEF p
    <2>6. ScreenInv'
      BY <1>0, <2>2, <2>3, <2>4, <2>5, SeatSwitchKeeps
    <2>7. current' = s /\ sessFg' = [sessFg EXCEPT ![s] = TRUE]
      BY <1>8 DEF KeyNew, SeatSwitch
    <2>8. ListInv'
      BY <1>0, <2>2, <2>7 DEF ListInv, CurrentLive
    <2> QED
      BY <2>6, <2>8 DEF SeatInv
  <1>9. ASSUME NEW s \in Session, SetBackground(s) PROVE SeatInv'
    <2>1. VideoTypes' /\ UNCHANGED <<displays, activated>>
      <3>1. CASE GoBackground
        BY <1>0, <3>1, GoBackgroundVideo
      <3>2. CASE UNCHANGED videoVars
        BY <1>0, <3>2 DEF videoVars, ScreenInv, VideoTypes
      <3> QED
        BY <1>9, <3>1, <3>2 DEF SetBackground
    <2>2. ScreenInv'
      BY <1>0, <1>9, <2>1, TermQuiet DEF SetBackground
    <2>3. ListInv'
      BY <1>0, <1>9, ListQuiet DEF SetBackground, ListInv
    <2> QED
      BY <2>2, <2>3 DEF SeatInv
  <1>10. ASSUME NEW s \in Session, SetForeground(s) PROVE SeatInv'
    <2>1. UNCHANGED <<running, sessions, current>>
      BY <1>10 DEF SetForeground
    <2>2. ScreenInv'
      <3>1. CASE GoForeground(Now, NoSession, live, FALSE)
        BY <1>0, <2>1, <3>1, GoForegroundKeeps
      <3>2. CASE UNCHANGED <<videoVars, termVars, dpmsVars>>
        <4>1. VideoTypes'
          BY <1>0, <3>2 DEF videoVars, ScreenInv, VideoTypes
        <4> QED
          BY <1>0, <2>1, <3>2, <4>1, TermQuiet DEF videoVars
      <3> QED
        BY <1>10, <3>1, <3>2 DEF SetForeground
    <2>3. sessFg' \in [Session -> BOOLEAN]
      BY <1>0, <1>10 DEF SetForeground, ListInv
    <2>4. ListInv'
      BY <1>0, <2>1, <2>3, ListQuiet
    <2> QED
      BY <2>2, <2>4 DEF SeatInv
  <1>11. CASE DpmsExpire
    <2> DEFINE q == TermDeactivate(Now, current)
               r == [q EXCEPT !.off = @ \cup Reachable(activated, video),
                              !.blank = TRUE, !.armed = FALSE]
    <2>1. q \in Presentation /\ q.scr = screens
      BY <1>0, TermDeactivateScreens
    <2>2. CASE awake
      <3>1. Present(r, live) /\ UNCHANGED <<running, sessVars, videoVars>>
        BY <1>11, <2>2 DEF DpmsExpire
      <3> HIDE DEF q
      <3>2. r \in Presentation /\ r.scr = screens
        BY <1>0, <2>1 DEF Presentation, Reachable, ScreenInv, VideoTypes
      <3> HIDE DEF r
      <3> QED
        BY <3>1, <3>2, ShowOnly
    <2>3. CASE ~awake
      <3>1. /\ UNCHANGED <<running, sessVars, videoVars, termVars, dpmsOff, blanked>>
            /\ dpmsArmed' = FALSE
        BY <1>11, <2>3 DEF DpmsExpire
      <3>2. ListInv'
        BY <1>0, <3>1, ListQuiet DEF sessVars, ListInv
      <3>3. TermTypes' /\ VideoTypes' /\ activated' \subseteq displays' /\ SessionScreens'
        BY <1>0, <3>1 DEF sessVars, termVars, videoVars, ScreenInv, TermTypes, VideoTypes,
                          SessionScreens
      <3> QED
        BY <3>2, <3>3 DEF SeatInv, ScreenInv
    <2> QED
      BY <2>2, <2>3
  <1>12. ASSUME NEW v \in Video, AddVideoAsleep(v) \/ AddVideoFails(v) PROVE SeatInv'
    <2>1. UNCHANGED <<running, sessVars, displays, activated, termVars, dpmsVars>>
      BY <1>12 DEF AddVideoAsleep, AddVideoFails, DeviceOnly
    <2>2. VideoTypes'
      BY <1>0, <1>12 DEF AddVideoAsleep, AddVideoFails, ScreenInv, VideoTypes, VideoState
    <2>3. ScreenInv'
      BY <1>0, <2>1, <2>2, TermQuiet DEF sessVars
    <2>4. ListInv'
      BY <1>0, <2>1, ListQuiet DEF sessVars, ListInv
    <2> QED
      BY <2>3, <2>4 DEF SeatInv
  <1>13. ASSUME NEW v \in Video, NEW ok \in BOOLEAN,
                AddVideoAwake(v) \/ Hotplug(v, ok) \/ RetryTimer(v, ok)
         PROVE  SeatInv'
    <2>1. DeviceOnly /\ (Rescan(v, ok) \/ Rescan(v, TRUE))
      BY <1>13 DEF AddVideoAwake, Hotplug, RetryTimer
    <2>2. listed' \subseteq Video /\ retry' \subseteq Video
      BY <1>0, <1>13 DEF AddVideoAwake, Hotplug, RetryTimer, ScreenInv, VideoTypes
    <2>3. video' \in [Video -> VideoState]
      BY <1>0, <1>13 DEF AddVideoAwake, Hotplug, RetryTimer, ScreenInv, VideoTypes,
                         VideoState
    <2>4. ScreenInv'
      BY <1>0, <2>1, <2>2, <2>3, RescanKeeps DEF DeviceOnly, sessVars, ListInv
    <2>5. ListInv'
      BY <1>0, <2>1, ListQuiet DEF DeviceOnly, sessVars, ListInv
    <2> QED
      BY <2>4, <2>5 DEF SeatInv
  <1>14. ASSUME NEW v \in Video, RemoveVideo(v) PROVE SeatInv'
    <2> DEFINE R == displays \cap On({v})
               q == RemoveDisplays(Now, R, activated)
    <2>1. q \in Presentation /\ \A s \in Session : q.scr[s] = screens[s] \ (R \cap activated)
      <3> HIDE DEF R
      <3>1. Now \in Presentation /\ Now.scr = screens
        BY <1>0
      <3>2. q \in Presentation /\ \A s \in Session : q.scr[s] = Now.scr[s] \ (R \cap activated)
        BY <3>1, RemoveDisplaysScreens
      <3> QED
        BY <3>1, <3>2
    <2>2. Present(q, live) /\ DeviceOnly
      BY <1>14 DEF RemoveVideo
    <2>3. VideoTypes' /\ activated' \subseteq displays'
      BY <1>0, <1>14 DEF RemoveVideo, ScreenInv, VideoTypes, VideoState
    <2> HIDE DEF q
    <2>4. TermTypes' /\ \A s \in live : screens'[s] = q.scr[s]
      BY <1>0, <2>1, <2>2, PresentStores DEF ScreenInv, TermTypes
    <2>5. SessionScreens'
      BY <1>0, <1>14, <2>1, <2>2, <2>4
         DEF RemoveVideo, DeviceOnly, sessVars, SessionScreens, ScreenInv
    <2>6. ListInv'
      BY <1>0, <2>2, ListQuiet DEF DeviceOnly, sessVars, ListInv
    <2> QED
      BY <2>3, <2>4, <2>5, <2>6 DEF SeatInv, ScreenInv
  <1>15. CASE SeatFree
    <2> DEFINE q == RemoveDisplays(Now, displays \cap On(listed), activated)
    <2>1. q \in Presentation
      BY <1>0, RemoveDisplaysScreens
    <2>2. Present(q, {}) /\ sessions' = <<>> /\ current' = NoSession /\ sessFg' = sessFg
          /\ running' = FALSE
      BY <1>15 DEF SeatFree
    <2> HIDE DEF q
    <2>3. TermTypes'
      BY <1>0, <2>1, <2>2, PresentStores DEF ScreenInv, TermTypes
    <2>4. VideoTypes' /\ activated' \subseteq displays'
      BY <1>0, <1>15 DEF SeatFree, ScreenInv, VideoTypes, VideoState
    <2>5. SessionScreens' /\ ListInv'
      BY <1>0, <2>2 DEF SessionScreens, ListInv, CurrentLive, ToSet, IsInjective
    <2> QED
      BY <2>3, <2>4, <2>5 DEF SeatInv, ScreenInv
  <1>16. CASE UNCHANGED vars
    <2>1. UNCHANGED <<running, sessVars, videoVars, termVars, dpmsVars>>
      BY <1>16 DEF vars
    <2>2. VideoTypes'
      BY <1>0, <2>1 DEF videoVars, ScreenInv, VideoTypes
    <2>3. ScreenInv'
      BY <1>0, <2>1, <2>2, TermQuiet DEF sessVars, videoVars
    <2>4. ListInv'
      BY <1>0, <2>1, ListQuiet DEF sessVars, ListInv
    <2> QED
      BY <2>3, <2>4 DEF SeatInv
  <1> QED
    BY <1>1, <1>2, <1>3, <1>4, <1>6, <1>7, <1>8, <1>9, <1>10, <1>11, <1>12, <1>13,
       <1>14, <1>15, <1>16 DEF Next

LEMMA SeatInvariant == Spec => []SeatInv
  BY SeatInit, SeatNext, PTL DEF Spec

\* The state keeps its type; the wake-ups of the input devices are never
\* negative, because they are balanced.
THEOREM TypeCorrect == Spec => []TypeOK
  <1>1. VtInv => inputAwake \in Nat
    BY DEF VtInv, InputBalance, Bit
  <1>2. VtInv /\ SeatInv => TypeOK
    BY <1>1 DEF VtInv, VtTypes, SeatInv, ListInv, ScreenInv, TermTypes, VideoTypes, TypeOK
  <1> QED
    BY <1>2, VtInvariant, SeatInvariant, PTL

\* seat.current_sess always points at a session of the list, and no session is
\* in the list twice, however sessions are opened, closed and switched.
THEOREM CurrentLiveCorrect == Spec => []CurrentLive
  <1>1. SeatInv => CurrentLive
    BY DEF SeatInv, ListInv
  <1> QED
    BY <1>1, SeatInvariant, PTL

\* Every session has a screen on every display the seat has activated, in
\* whatever order sessions and displays come, go, fail and are retried.
THEOREM SessionScreensCorrect == Spec => []SessionScreens
  <1>1. SeatInv => SessionScreens
    BY DEF SeatInv, ScreenInv
  <1> QED
    BY <1>1, SeatInvariant, PTL

-----------------------------------------------------------------------------
(***************************************************************************)
(* Whose terminal draws, in a console whose programs do not use the        *)
(* setBackground and setForeground sequences.  OneAwake is not inductive:  *)
(* activate_display wakes the terminal of seat.current_sess, which is      *)
(* still the old session when seat_switch goes to the foreground.  So it   *)
(* needs that a switch never does: an awake seat is in the foreground      *)
(* already, and so is every session.                                       *)
(***************************************************************************)
OneInv ==
  /\ sessFg = [s \in Session |-> TRUE]
  /\ awake => foreground
  /\ OneAwake

LEMMA TermActivateTerm ==
  ASSUME NEW p \in Presentation, NEW t
  PROVE  TermActivate(p, t).term \subseteq p.term \cup {t}
  BY DEF TermActivate, Presentation

LEMMA TermDeactivateTerm ==
  ASSUME NEW p \in Presentation, NEW t
  PROVE  TermDeactivate(p, t).term = p.term \ {t}
  BY DEF TermDeactivate, Presentation

LEMMA DpmsResetTerm ==
  ASSUME NEW p \in Presentation, NEW act, NEW vid
  PROVE  DpmsReset(p, act, vid).term \subseteq p.term \cup {current}
  <1> DEFINE q == TermActivate(p, current)
             r == [q EXCEPT !.off = @ \ Reachable(act, vid), !.blank = FALSE, !.armed = TRUE]
  <1>1. q \in Presentation /\ q.term \subseteq p.term \cup {current}
    BY TermActivateScreens, TermActivateTerm
  <1>2. DpmsReset(p, act, vid) \in {p, r, [p EXCEPT !.armed = TRUE]}
    BY DEF DpmsReset
  <1> HIDE DEF q
  <1>3. r.term = q.term /\ [p EXCEPT !.armed = TRUE].term = p.term
    BY <1>1 DEF Presentation
  <1> HIDE DEF r
  <1> QED
    BY <1>1, <1>2, <1>3

LEMMA ActivateDisplaysTerm ==
  ASSUME NEW p \in Presentation, NEW A \in SUBSET Display, NEW act, NEW vid, NEW live
  PROVE  ActivateDisplays(p, A, act, vid, live).term \subseteq p.term \cup {current}
  <1>1. CASE A = {}
    BY <1>1 DEF ActivateDisplays
  <1>2. CASE A # {}
    <2> DEFINE on  == [p EXCEPT !.off = @ \ A]
               rst == DpmsReset(on, act, vid)
               add == [rst EXCEPT !.scr = [s \in Session |->
                          IF s \in live THEN @[s] \cup A ELSE @[s]]]
    <2>1. on \in Presentation /\ on.term = p.term
      BY DEF Presentation
    <2>2. rst \in Presentation /\ rst.term \subseteq p.term \cup {current}
      BY <2>1, DpmsResetScreens, DpmsResetTerm
    <2>3. add \in Presentation /\ add.term = rst.term
      <3> HIDE DEF rst
      <3> QED
        BY <2>2 DEF Presentation
    <2>4. ActivateDisplays(p, A, act, vid, live) = TermActivate(add, current)
      BY <1>2 DEF ActivateDisplays
    <2> HIDE DEF add, rst
    <2>5. TermActivate(add, current).term \subseteq add.term \cup {current}
      BY <2>3, TermActivateTerm
    <2> QED
      BY <2>2, <2>3, <2>4, <2>5
  <1> QED
    BY <1>1, <1>2

LEMMA RemoveDisplaysTerm ==
  ASSUME NEW p \in Presentation, NEW R, NEW act
  PROVE  RemoveDisplays(p, R, act).term = p.term
  BY DEF RemoveDisplays, Presentation

LEMMA PresentTerm ==
  ASSUME NEW p, NEW live, Present(p, live)
  PROVE  termAwake' \subseteq p.term
  BY DEF Present

\* Displays that come and go wake no terminal but the current one.
LEMMA ReplugTerm ==
  ASSUME NEW p \in Presentation, p.term \subseteq {current},
         NEW gone, NEW A \in SUBSET Display, NEW act, NEW vid, NEW live
  PROVE  LET q == ActivateDisplays(RemoveDisplays(p, gone, activated), A, act, vid, live)
         IN  q \in Presentation /\ q.term \subseteq {current}
  <1> DEFINE r == RemoveDisplays(p, gone, activated)
  <1>1. r \in Presentation /\ r.term = p.term
    BY RemoveDisplaysScreens, RemoveDisplaysTerm
  <1> HIDE DEF r
  <1>2. /\ ActivateDisplays(r, A, act, vid, live) \in Presentation
        /\ ActivateDisplays(r, A, act, vid, live).term \subseteq r.term \cup {current}
    BY <1>1, ActivateDisplaysScreens, ActivateDisplaysTerm
  <1> QED
    BY <1>1, <1>2 DEF r

LEMMA GoForegroundTerm ==
  ASSUME ScreenInv, ScreenInv', NEW p \in Presentation, p.term \subseteq {current},
         NEW live, NEW key, GoForeground(p, current, live, key)
  PROVE  termAwake' \subseteq {current}
  <1> PICK gone \in SUBSET displays :
             \E early : GoForegroundWith(p, current, live, key, gone, early)
    BY DEF GoForeground
  <1> PICK early : GoForegroundWith(p, current, live, key, gone, early)
    OBVIOUS
  <1> DEFINE vidThen == [v \in Video |->
                           IF v \in Sleeping \ early THEN "asleep" ELSE video'[v]]
             shown == ActivateDisplays(RemoveDisplays(p, gone, activated),
                                       Lit, activated \ gone, vidThen, live)
             done == TermActivate(shown, current)
             last == IF key THEN DpmsReset(done, activated', video') ELSE done
  <1>1. Present(last, live)
    BY DEF GoForegroundWith
  <1>2. Lit \in SUBSET Display
    BY DEF Lit, ScreenInv, VideoTypes
  <1> HIDE DEF vidThen
  <1>3. shown \in Presentation /\ shown.term \subseteq {current}
    BY <1>2, ReplugTerm
  <1> HIDE DEF shown
  <1>4. done \in Presentation /\ done.term \subseteq {current}
    BY <1>3, TermActivateScreens, TermActivateTerm
  <1> HIDE DEF done
  <1>5. last.term \subseteq {current}
    BY <1>4, DpmsResetTerm
  <1> HIDE DEF last
  <1> QED
    BY <1>1, <1>5, PresentTerm

LEMMA RescanTerm ==
  ASSUME ScreenInv, termAwake \subseteq {current}, NEW v, NEW ok, Rescan(v, ok)
  PROVE  termAwake' \subseteq {current}
  <1> PICK gone \in SUBSET displays, new \in SUBSET Fresh :
        LET A == IF awake /\ foreground THEN new ELSE {}
        IN  Present(ActivateDisplays(RemoveDisplays(Now, gone, activated), A,
                                     activated \ gone, video', ToSet(sessions)),
                    ToSet(sessions))
    BY DEF Rescan, RescanAnd
  <1> DEFINE A == IF awake /\ foreground THEN new ELSE {}
             q == ActivateDisplays(RemoveDisplays(Now, gone, activated), A,
                                   activated \ gone, video', ToSet(sessions))
  <1>1. Present(q, ToSet(sessions))
    OBVIOUS
  <1>2. A \in SUBSET Display
    BY DEF Fresh
  <1> HIDE DEF A
  <1>3. Now \in Presentation /\ Now.term \subseteq {current}
    BY NowPresentation DEF ScreenInv, Now
  <1>4. q.term \subseteq {current}
    BY <1>2, <1>3, ReplugTerm
  <1> HIDE DEF q
  <1> QED
    BY <1>1, <1>4, PresentTerm

\* seat_switch on a seat whose sessions are all shown: the old terminal goes to
\* sleep before the new one wakes up.
LEMMA SeatSwitchTerm ==
  ASSUME NEW p \in Presentation, current \in Session, p.term \subseteq {current},
         NEW new, NEW live, foreground = TRUE, sessFg'[new] = TRUE,
         SeatSwitch(p, new, live)
  PROVE  foreground' = TRUE /\ termAwake' \subseteq {current'}
  <1> DEFINE q == TermDeactivate(p, current)
             r == TermActivate(q, new)
  <1>1. q \in Presentation /\ q.term = {}
    BY TermDeactivateScreens, TermDeactivateTerm
  <1>2. current' = new /\ foreground' = TRUE /\ Present(r, live)
    BY DEF SeatSwitch
  <1> HIDE DEF q
  <1>3. r.term \subseteq {new}
    BY <1>1, TermActivateTerm
  <1> HIDE DEF r
  <1> QED
    BY <1>2, <1>3, PresentTerm

\* A step that leaves the terminals and the sessions alone.
LEMMA OneQuiet ==
  ASSUME OneInv, UNCHANGED <<sessFg, current, termAwake>>, running' => running,
         awake' => foreground'
  PROVE  OneInv'
  BY DEF OneInv, OneAwake

LEMMA OneInit == Init => OneInv
  BY SeatAssumption DEF Init, OneInv, OneAwake

LEMMA OneNext ==
  ASSUME ~Background, VtInv, SeatInv, SeatInv', OneInv, [Next]_vars
  PROVE  OneInv'
  <1> DEFINE live == ToSet(sessions)
  <1>0. /\ Touched \in Presentation /\ Now \in Presentation /\ ScreenInv /\ ScreenInv'
        /\ running => current \in Session /\ Now.term \subseteq {current}
                      /\ Touched.term \subseteq {current}
    <2>1. Touched \in Presentation /\ Now \in Presentation
      BY KeyState
    <2>2. running => current \in Session
      BY ToSetSubset, KeyState DEF SeatInv
    <2>3. running => Now.term \subseteq {current}
      BY DEF Now, OneInv, OneAwake
    <2>4. Touched.term \subseteq Now.term \cup {current}
      BY <2>1, DpmsResetTerm DEF Touched
    <2> QED
      BY <2>1, <2>2, <2>3, <2>4 DEF SeatInv
  <1>1. CASE VtEnter \/ VtEnterKey
    <2>1. PICK key \in BOOLEAN : SeatVtActivate(key)
      BY <1>1 DEF VtEnter, VtEnterKey
    <2>2. UNCHANGED <<running, sessVars>> /\ running
      BY <1>1 DEF VtEnter, VtEnterKey
    <2>3. foreground' = TRUE
      BY <2>1, SeatVtActivateShown DEF VtInv, VtTypes
    <2>4. termAwake' \subseteq {current}
      <3>1. CASE foreground
        <4>1. Present(TermActivate(Now, current), live)
          BY <2>1, <3>1 DEF SeatVtActivate
        <4>2. TermActivate(Now, current).term \subseteq {current}
          BY <1>0, <2>2, TermActivateTerm
        <4> QED
          BY <4>1, <4>2, PresentTerm
      <3>2. CASE ~foreground
        BY <1>0, <2>1, <2>2, <3>2, GoForegroundTerm DEF SeatVtActivate
      <3> QED
        BY <3>1, <3>2
    <2> QED
      BY <2>2, <2>3, <2>4 DEF OneInv, OneAwake, sessVars
  <1>2. CASE VtLeave \/ VtSwitchKey
    <2> DEFINE q == TermDeactivate(Now, current)
               r == DpmsReset(q, activated, video')
    <2>1. UNCHANGED <<running, sessVars>> /\ running /\ awake' = FALSE
      BY <1>2 DEF VtLeave, VtSwitchKey, SeatVtDeactivate
    <2>2. Present(q, live) \/ Present(r, live)
      BY <1>2 DEF VtLeave, VtSwitchKey
    <2>3. q \in Presentation /\ q.term \subseteq {current}
      BY <1>0, <2>1, TermDeactivateScreens, TermDeactivateTerm
    <2> HIDE DEF q
    <2>4. r.term \subseteq {current}
      BY <2>3, DpmsResetTerm
    <2> HIDE DEF r
    <2>5. termAwake' \subseteq {current}
      BY <2>2, <2>3, <2>4, PresentTerm
    <2> QED
      BY <2>1, <2>5 DEF OneInv, OneAwake, sessVars
  <1>3. CASE VtLeaveDelayed
    BY <1>3, OneQuiet DEF VtLeaveDelayed, seatVars, sessVars, termVars, OneInv
  <1>4. CASE KeyPress
    <2>1. UNCHANGED <<running, awake, foreground, current, sessFg>> /\ running
      BY <1>4 DEF KeyPress, seatVars, sessVars
    <2>2. termAwake' \subseteq {current}
      BY <1>0, <1>4, <2>1, PresentTerm DEF KeyPress
    <2> QED
      BY <2>1, <2>2 DEF OneInv, OneAwake
  <1>5. ASSUME NEW p \in Presentation, NEW new \in Session, NEW list,
               running, awake, UNCHANGED <<running, awake>>, p.term \subseteq {current},
               sessFg' = [s \in Session |-> TRUE], SeatSwitch(p, new, list)
        PROVE  OneInv'
    <2>1. foreground = TRUE /\ sessFg'[new] = TRUE
      BY <1>5 DEF OneInv, VtInv, VtTypes
    <2> QED
      BY <1>0, <1>5, <2>1, SeatSwitchTerm DEF OneInv, OneAwake
  <1>6. ASSUME NEW new \in Session, KeySwitch(new) PROVE OneInv'
    BY <1>0, <1>5, <1>6 DEF KeySwitch, Grab, OneInv
  <1>7. CASE KeyNext \/ KeyPrev \/ KeyClose
    <2>1. current \in live /\ running
      BY <1>7, KeyState DEF KeyNext, KeyPrev, KeyClose, Grab
    <2>2. NextOf(current) \in Session /\ PrevOf(current) \in Session
      BY <2>1, NeighboursIn, ToSetSubset DEF SeatInv, ListInv
    <2>3. CASE KeyNext \/ KeyPrev
      BY <1>6, <2>2, <2>3 DEF KeyNext, KeyPrev
    <2>4. CASE KeyClose
      <3> DEFINE p == TermDeactivate(Touched, current)
      <3>1. p \in Presentation /\ p.term \subseteq {current}
        BY <1>0, <2>1, TermDeactivateScreens, TermDeactivateTerm
      <3>2. SeatSwitch(p, NextOf(current), ToSet(sessions'))
        BY <2>4 DEF KeyClose
      <3> HIDE DEF p
      <3> QED
        BY <1>5, <2>2, <2>4, <3>1, <3>2 DEF KeyClose, Grab, OneInv
    <2> QED
      BY <1>7, <2>3, <2>4
  <1>8. ASSUME NEW s \in Session, KeyNew(s) PROVE OneInv'
    <2> DEFINE p == [Touched EXCEPT !.scr[s] = NewScreens]
    <2>1. p \in Presentation /\ p.term = Touched.term
      BY <1>0 DEF Presentation, NewScreens, ScreenInv, VideoTypes
    <2>2. SeatSwitch(p, s, ToSet(sessions'))
      BY <1>8 DEF KeyNew
    <2> HIDE DEF p
    <2>3. sessFg' = [t \in Session |-> TRUE]
      BY <1>8 DEF KeyNew, OneInv
    <2> QED
      BY <1>0, <1>5, <1>8, <2>1, <2>2, <2>3 DEF KeyNew, Grab
  <1>9. ASSUME NEW s \in Session, SetBackground(s) \/ SetForeground(s) PROVE FALSE
    BY <1>9 DEF SetBackground, SetForeground
  <1>10. CASE DpmsExpire
    <2> DEFINE q == TermDeactivate(Now, current)
               r == [q EXCEPT !.off = @ \cup Reachable(activated, video),
                              !.blank = TRUE, !.armed = FALSE]
    <2>1. UNCHANGED <<running, awake, foreground, current, sessFg>> /\ running
      BY <1>10 DEF DpmsExpire, seatVars, sessVars
    <2>2. q \in Presentation /\ q.term \subseteq {current}
      BY <1>0, <2>1, TermDeactivateScreens, TermDeactivateTerm
    <2>3. Present(r, live) \/ termAwake' = termAwake
      BY <1>10 DEF DpmsExpire, termVars
    <2> HIDE DEF q
    <2>4. r.term \subseteq {current}
      BY <2>2 DEF Presentation
    <2> HIDE DEF r
    <2>5. termAwake' \subseteq {current}
      BY <2>1, <2>3, <2>4, PresentTerm DEF OneInv, OneAwake
    <2> QED
      BY <2>1, <2>5 DEF OneInv, OneAwake
  <1>11. ASSUME NEW v \in Video, AddVideoAsleep(v) \/ AddVideoFails(v) PROVE OneInv'
    BY <1>11, OneQuiet DEF AddVideoAsleep, AddVideoFails, DeviceOnly, seatVars, sessVars,
                           termVars, OneInv
  <1>12. ASSUME NEW v \in Video, NEW ok \in BOOLEAN,
                AddVideoAwake(v) \/ Hotplug(v, ok) \/ RetryTimer(v, ok)
         PROVE  OneInv'
    <2>1. DeviceOnly /\ running /\ (Rescan(v, ok) \/ Rescan(v, TRUE))
      BY <1>12 DEF AddVideoAwake, Hotplug, RetryTimer
    <2>2. termAwake' \subseteq {current}
      BY <1>0, <2>1, RescanTerm DEF OneInv, OneAwake
    <2> QED
      BY <2>1, <2>2 DEF DeviceOnly, seatVars, sessVars, OneInv, OneAwake
  <1>13. ASSUME NEW v \in Video, RemoveVideo(v) PROVE OneInv'
    <2> DEFINE q == RemoveDisplays(Now, displays \cap On({v}), activated)
    <2>1. DeviceOnly /\ running /\ Present(q, live)
      BY <1>13 DEF RemoveVideo
    <2>2. q.term = Now.term
      BY <1>0, RemoveDisplaysTerm
    <2> HIDE DEF q
    <2>3. termAwake' \subseteq {current}
      BY <1>0, <2>1, <2>2, PresentTerm
    <2> QED
      BY <2>1, <2>3 DEF DeviceOnly, seatVars, sessVars, OneInv, OneAwake
  <1>14. CASE SeatFree
    BY <1>14 DEF SeatFree, OneInv, OneAwake
  <1>15. CASE UNCHANGED vars
    BY <1>15, OneQuiet DEF vars, seatVars, sessVars, termVars, OneInv
  <1> QED
    BY <1>1, <1>2, <1>3, <1>4, <1>7, <1>8, <1>9, <1>10, <1>11, <1>12, <1>13, <1>14,
       <1>15 DEF Next

LEMMA OneInvariant == ASSUME ~Background PROVE Spec => []OneInv
  <1>1. VtInv /\ SeatInv /\ SeatInv' /\ OneInv /\ [Next]_vars => OneInv'
    BY OneNext
  <1> QED
    BY <1>1, OneInit, VtInvariant, SeatInvariant, PTL DEF Spec

\* At most the current session's terminal draws and takes keys, in whatever
\* order sessions are opened, closed and switched, displays and devices come
\* and go, and the screen blanks, when no program asks for the background.
THEOREM OneAwakeCorrect == ASSUME ~Background PROVE Spec => []OneAwake
  <1>1. OneInv => OneAwake
    BY DEF OneInv
  <1> QED
    BY <1>1, OneInvariant, PTL

-----------------------------------------------------------------------------
(***************************************************************************)
(* What is shown, when devices work and no program asks for the            *)
(* background.  The two properties are about displays; they follow from    *)
(* what the seat knows of the devices: the ones in its list are all the    *)
(* struct videos there are, no timer is left to wake one up behind its     *)
(* back, and all of them are awake in the foreground and none elsewhere.   *)
(***************************************************************************)
ShownInv ==
  /\ retry = {}
  /\ \A v \in Video : v \in listed <=> video[v] # "none"
  /\ displays \subseteq On(listed)
  /\ foreground => (\A v \in listed : video[v] = "awake") /\ displays \subseteq activated
  /\ ~foreground => \A v \in Video : video[v] # "awake"

LEMMA ShownInit == Init /\ OneInv => ShownInv
  BY DEF Init, ShownInv, On

\* seat_go_foreground wakes every device and activates every display.
LEMMA GoForegroundShows ==
  ASSUME ~Faults, ScreenInv, ShownInv, NEW p, NEW then, NEW live, NEW key,
         GoForeground(p, then, live, key)
  PROVE  ShownInv'
  <1> PICK good \in SUBSET Sleeping, leak \in SUBSET Deferred,
           gone \in SUBSET (displays \cap On(Sleeping)),
           new \in SUBSET (Fresh \cap On(Sleeping)) :
        /\ good = Sleeping /\ good \cap leak = {}
        /\ WakeVideos(good, leak, gone, new)
        /\ \E early \in Early(good, new) :
             GoForegroundWith(p, then, live, key, gone, early)
    BY DEF GoForeground
  <1>1. activated' = (activated \ gone) \cup Lit
    BY DEF GoForegroundWith
  <1>2. Deferred \subseteq good /\ leak = {}
    BY DEF Sleeping, Deferred
  <1>3. retry' = {} /\ listed' = listed
    BY <1>2 DEF WakeVideos, ShownInv
  <1>4. video' = [v \in Video |-> IF v \in Sleeping THEN "awake" ELSE video[v]]
    BY <1>2 DEF WakeVideos
  <1>5. \A v \in listed : video'[v] = "awake"
    BY <1>4 DEF Sleeping, ScreenInv, VideoTypes
  <1>6. \A v \in Video : v \in listed' <=> video'[v] # "none"
    BY <1>3, <1>4, <1>5 DEF Sleeping, ShownInv
  <1>7. displays' = (displays \ gone) \cup new
    BY DEF WakeVideos
  <1>8. displays' \subseteq On(listed)
    BY <1>7 DEF On, Sleeping, ShownInv
  <1>9. displays' \subseteq activated'
    <2> SUFFICES ASSUME NEW d \in displays', d \notin activated PROVE d \in Lit
      BY <1>1, <1>7 DEF Fresh, ScreenInv
    <2>1. VideoOf[d] \in listed
      BY <1>8 DEF On
    <2> QED
      BY <1>5, <2>1 DEF Lit
  <1>10. foreground' = TRUE
    BY GoForegroundShown
  <1> QED
    BY <1>3, <1>5, <1>6, <1>8, <1>9, <1>10 DEF ShownInv

\* seat_go_background puts every device to sleep.
LEMMA GoBackgroundHides ==
  ASSUME ScreenInv, ShownInv, GoBackground PROVE ShownInv'
  <1>1. \A v \in Video : video'[v] = IF v \in listed /\ video[v] = "awake"
                                     THEN "asleep" ELSE video[v]
    BY DEF GoBackground
  <1>2. UNCHANGED <<listed, displays, activated>> /\ retry' = {} /\ foreground' = FALSE
    BY DEF GoBackground, ShownInv
  <1> QED
    BY <1>1, <1>2 DEF ShownInv, On

LEMMA ShownQuiet ==
  ASSUME ShownInv, UNCHANGED <<videoVars, foreground>> PROVE ShownInv'
  BY DEF ShownInv, videoVars, On

LEMMA SwitchStays ==
  ASSUME NEW p, NEW new, NEW live, foreground = TRUE, sessFg'[new] = TRUE,
         SeatSwitch(p, new, live)
  PROVE  UNCHANGED <<videoVars, foreground>>
  BY DEF SeatSwitch

LEMMA ShownNext ==
  ASSUME ~Background, ~Faults, VtInv, SeatInv, OneInv, OneInv', ShownInv, [Next]_vars
  PROVE  ShownInv'
  <1>0. ScreenInv /\ foreground \in BOOLEAN /\ awake \in BOOLEAN /\ (awake <=> foreground)
    BY DEF SeatInv, VtInv, VtTypes, ForegroundAwake, OneInv
  <1>1. CASE VtEnter \/ VtEnterKey
    <2>1. PICK key \in BOOLEAN : SeatVtActivate(key)
      BY <1>1 DEF VtEnter, VtEnterKey
    <2> QED
      BY <1>0, <2>1, GoForegroundShows, ShownQuiet DEF SeatVtActivate
  <1>2. CASE VtLeave \/ VtSwitchKey
    BY <1>0, <1>2, GoBackgroundHides, ShownQuiet DEF VtLeave, VtSwitchKey, SeatVtDeactivate
  <1>3. CASE VtLeaveDelayed \/ KeyPress \/ DpmsExpire
    BY <1>3, ShownQuiet DEF VtLeaveDelayed, KeyPress, DpmsExpire, seatVars
  <1>4. ASSUME NEW p, NEW new \in Session, NEW live, awake, SeatSwitch(p, new, live)
        PROVE  ShownInv'
    <2>1. sessFg'[new] = TRUE
      BY DEF OneInv
    <2> QED
      BY <1>0, <1>4, <2>1, SwitchStays, ShownQuiet
  <1>5. CASE KeyNext \/ KeyPrev \/ KeyClose
    <2>1. current \in ToSet(sessions) /\ sessions \in Seq(Session) /\ awake
      BY <1>5, KeyState DEF KeyNext, KeyPrev, KeyClose, Grab, SeatInv, ListInv
    <2>2. NextOf(current) \in Session /\ PrevOf(current) \in Session
      BY <2>1, NeighboursIn, ToSetSubset
    <2> QED
      BY <1>4, <1>5, <2>1, <2>2 DEF KeyNext, KeyPrev, KeyClose, KeySwitch
  <1>6. ASSUME NEW s \in Session, KeyNew(s) PROVE ShownInv'
    BY <1>4, <1>6 DEF KeyNew, Grab
  <1>7. ASSUME NEW s \in Session, SetBackground(s) \/ SetForeground(s) PROVE FALSE
    BY <1>7 DEF SetBackground, SetForeground
  <1>8. ASSUME NEW v \in Video, AddVideoAsleep(v) PROVE ShownInv'
    <2>1. ~foreground /\ foreground' = foreground /\ listed' = listed \cup {v}
      BY <1>0, <1>8 DEF AddVideoAsleep, DeviceOnly, seatVars
    <2>2. UNCHANGED <<retry, displays, activated>>
          /\ video' = [video EXCEPT ![v] = "deferred"]
      BY <1>8 DEF AddVideoAsleep
    <2>3. \A w \in Video : video'[w] = IF w = v THEN "deferred" ELSE video[w]
      BY <2>2 DEF SeatInv, ScreenInv, VideoTypes
    <2> HIDE <1>8
    <2> QED
      BY <2>1, <2>2, <2>3 DEF ShownInv, On
  <1>9. ASSUME NEW v \in Video, NEW ok \in BOOLEAN,
               AddVideoAwake(v) \/ Hotplug(v, ok) \/ RetryTimer(v, ok)
        PROVE  ShownInv'
    <2>1. foreground /\ foreground' = foreground /\ retry' = {}
      BY <1>0, <1>9 DEF AddVideoAwake, Hotplug, RetryTimer, DeviceOnly, seatVars, ShownInv
    <2>2. /\ listed' = listed \cup {v}
          /\ \A w \in Video : video'[w] = IF w = v THEN "awake" ELSE video[w]
      BY <1>0, <1>9 DEF AddVideoAwake, Hotplug, RetryTimer, ScreenInv, VideoTypes, ShownInv
    <2>3. Rescan(v, ok) \/ Rescan(v, TRUE)
      BY <1>9 DEF AddVideoAwake, Hotplug, RetryTimer
    <2>4. PICK gone \in SUBSET displays, new \in SUBSET On({v}) :
            /\ displays' = (displays \ gone) \cup new
            /\ activated' = (activated \ gone) \cup new
      BY <1>0, <2>1, <2>3 DEF Rescan, RescanAnd
    <2>5. displays' \subseteq On(listed')
      BY <2>2, <2>4 DEF ShownInv, On
    <2>6. displays' \subseteq activated'
      BY <2>1, <2>4 DEF ShownInv
    <2>7. listed \subseteq Video
      BY <1>0 DEF ScreenInv, VideoTypes
    <2> QED
      BY <2>1, <2>2, <2>5, <2>6, <2>7 DEF ShownInv
  <1>10. ASSUME NEW v \in Video, AddVideoFails(v) PROVE FALSE
    BY <1>10 DEF AddVideoFails
  <1>11. ASSUME NEW v \in Video, RemoveVideo(v) PROVE ShownInv'
    <2>1. /\ UNCHANGED foreground /\ listed' = listed \ {v} /\ retry' = {}
          /\ displays' = displays \ On({v}) /\ activated' = activated \ On({v})
          /\ video' = [video EXCEPT ![v] = "none"]
      BY <1>11 DEF RemoveVideo, DeviceOnly, seatVars, ShownInv
    <2>2. \A w \in Video : video'[w] = IF w = v THEN "none" ELSE video[w]
      BY <1>0, <2>1 DEF ScreenInv, VideoTypes
    <2>3. listed \subseteq Video
      BY <1>0 DEF ScreenInv, VideoTypes
    <2> HIDE <1>11
    <2> QED
      BY <2>1, <2>2, <2>3 DEF ShownInv, On
  <1>12. CASE SeatFree
    <2>1. /\ foreground' = FALSE /\ listed' = {} /\ retry' = {}
          /\ displays' = displays \ On(listed)
          /\ video' = [v \in Video |-> IF v \in listed THEN "none" ELSE video[v]]
      BY <1>12 DEF SeatFree, ShownInv
    <2> HIDE <1>12
    <2> QED
      BY <2>1 DEF ShownInv
  <1>13. CASE UNCHANGED vars
    BY <1>13, ShownQuiet DEF vars, seatVars
  <1> QED
    BY <1>1, <1>2, <1>3, <1>5, <1>6, <1>7, <1>8, <1>9, <1>10, <1>11, <1>12, <1>13 DEF Next

LEMMA ShownInvariant == ASSUME ~Background, ~Faults PROVE Spec => []ShownInv
  <1>1. VtInv /\ SeatInv /\ OneInv /\ OneInv' /\ ShownInv /\ [Next]_vars => ShownInv'
    BY ShownNext
  <1>2. Init => ShownInv
    BY OneInit, ShownInit
  <1> QED
    BY <1>1, <1>2, VtInvariant, SeatInvariant, OneInvariant, PTL DEF Spec

\* With devices that work, a seat in the foreground shows the console on every
\* display it knows of, whenever the display was plugged in.
THEOREM EveryDisplayShownCorrect ==
  ASSUME ~Background, ~Faults PROVE Spec => []EveryDisplayShown
  <1>1. ShownInv => EveryDisplayShown
    BY DEF ShownInv, EveryDisplayShown
  <1> QED
    BY <1>1, ShownInvariant, PTL

\* With devices that work, a seat that is not in the foreground has given up DRM
\* master on every device, for the program that takes over the screen.
THEOREM MasterReleasedCorrect ==
  ASSUME ~Background, ~Faults PROVE Spec => []MasterReleased
  <1>1. ShownInv => MasterReleased
    BY DEF ShownInv, MasterReleased, HoldsMaster
  <1> QED
    BY <1>1, ShownInvariant, PTL
-----------------------------------------------------------------------------
(***************************************************************************)
(* Blanking, on a real VT with one device that works, when no program asks *)
(* for the background.  A display that was switched off is switched on     *)
(* with the flag dpms_blanked only: so no step may clear the flag and      *)
(* leave an activated display off, and the steps that clear it find every  *)
(* activated display's device awake.                                       *)
(***************************************************************************)

\* A display of act that p leaves off is off because the screen is blanked.
Told(p, act) ==
  /\ p.off \cap act # {} => p.blank
  /\ ~DpmsTimeout => ~p.armed /\ ~p.blank

\* The inductive invariant: and nothing is off before the first activation.
BlankInv ==
  /\ Told(Now, activated)
  /\ vtDelayed => ~awake /\ dpmsOff = {}

\* What a call does to the displays that are off and to the flag.
LEMMA TermActivateTold ==
  ASSUME NEW p \in Presentation, NEW t
  PROVE  /\ TermActivate(p, t).off = p.off /\ TermActivate(p, t).blank = p.blank
         /\ TermActivate(p, t).armed = p.armed
  BY DEF TermActivate, Presentation

LEMMA TermDeactivateTold ==
  ASSUME NEW p \in Presentation, NEW t
  PROVE  /\ TermDeactivate(p, t).off = p.off /\ TermDeactivate(p, t).blank = p.blank
         /\ TermDeactivate(p, t).armed = p.armed
  BY DEF TermDeactivate, Presentation

\* seat_dpms_reset_timer switches every display of act on that it can reach.
LEMMA DpmsResetTold ==
  ASSUME NEW p \in Presentation, NEW act, NEW vid
  PROVE  LET r == DpmsReset(p, act, vid)
         IN  /\ r.off = (IF DpmsTimeout /\ p.blank THEN p.off \ Reachable(act, vid)
                         ELSE p.off)
             /\ r.blank = (p.blank /\ ~DpmsTimeout)
             /\ r.armed = (p.armed \/ DpmsTimeout)
  <1> DEFINE q == TermActivate(p, current)
  <1>1. q \in Presentation /\ q.off = p.off /\ p.blank \in BOOLEAN /\ p.armed \in BOOLEAN
    BY TermActivateScreens, TermActivateTold DEF Presentation
  <1> HIDE DEF q
  <1>2. CASE ~DpmsTimeout
    BY <1>1, <1>2 DEF DpmsReset
  <1>3. CASE DpmsTimeout /\ p.blank
    <2>1. DpmsReset(p, act, vid)
            = [q EXCEPT !.off = @ \ Reachable(act, vid), !.blank = FALSE, !.armed = TRUE]
      BY <1>3 DEF DpmsReset, q
    <2> QED
      BY <1>1, <1>3, <2>1 DEF Presentation
  <1>4. CASE DpmsTimeout /\ ~p.blank
    <2>1. DpmsReset(p, act, vid) = [p EXCEPT !.armed = TRUE]
      BY <1>4 DEF DpmsReset
    <2> QED
      BY <1>1, <1>4, <2>1 DEF Presentation
  <1> QED
    BY <1>2, <1>3, <1>4, SeatAssumption

\* With every device of act awake, all of act is on afterwards.
LEMMA ResetLights ==
  ASSUME NEW p \in Presentation, NEW act \in SUBSET Display, NEW vid, Told(p, act),
         \A d \in act : vid[VideoOf[d]] = "awake"
  PROVE  LET r == DpmsReset(p, act, vid)
         IN  Told(r, act) /\ r.off \cap act = {} /\ r.off \subseteq p.off
  <1>1. Reachable(act, vid) = act
    BY DEF Reachable
  <1> DEFINE r == DpmsReset(p, act, vid)
  <1>2. /\ r.off = (IF DpmsTimeout /\ p.blank THEN p.off \ act ELSE p.off)
        /\ r.blank = (p.blank /\ ~DpmsTimeout)
        /\ r.armed = (p.armed \/ DpmsTimeout)
    BY <1>1, DpmsResetTold
  <1> SUFFICES Told(r, act) /\ r.off \cap act = {} /\ r.off \subseteq p.off
    OBVIOUS
  <1> HIDE DEF r
  <1>3. CASE DpmsTimeout /\ p.blank
    <2>1. r.off = p.off \ act
      BY <1>2, <1>3
    <2> QED
      BY <1>3, <2>1 DEF Told
  <1>4. CASE DpmsTimeout /\ ~p.blank
    <2>1. r.off = p.off /\ p.off \cap act = {}
      BY <1>2, <1>4 DEF Told
    <2> QED
      BY <1>4, <2>1 DEF Told
  <1>5. CASE ~DpmsTimeout
    <2>1. ~p.blank /\ ~p.armed /\ p.off \cap act = {}
      BY <1>5 DEF Told
    <2>2. r.off = p.off /\ ~r.blank /\ ~r.armed
      <3>1. r.off = p.off
        BY <1>2, <1>5
      <3>2. ~r.blank
        BY <1>2, <2>1, Zenon
      <3>3. ~r.armed
        BY <1>2, <1>5, <2>1, Zenon
      <3> QED
        BY <3>1, <3>2, <3>3
    <2> QED
      BY <2>1, <2>2 DEF Told
  <1> QED
    BY <1>3, <1>4, <1>5

LEMMA ActivateTold ==
  ASSUME NEW p \in Presentation, NEW A \in SUBSET Display, NEW act \in SUBSET Display,
         NEW vid, NEW live, Told(p, act), \A d \in act : vid[VideoOf[d]] = "awake"
  PROVE  Told(ActivateDisplays(p, A, act, vid, live), act \cup A)
  <1>1. CASE A = {}
    BY <1>1 DEF ActivateDisplays
  <1>2. CASE A # {}
    <2> DEFINE on  == [p EXCEPT !.off = @ \ A]
               rst == DpmsReset(on, act, vid)
               add == [rst EXCEPT !.scr = [s \in Session |->
                          IF s \in live THEN @[s] \cup A ELSE @[s]]]
    <2>1. /\ on \in Presentation /\ on.off = p.off \ A
          /\ on.blank = p.blank /\ on.armed = p.armed
      BY DEF Presentation
    <2> HIDE DEF on
    <2>2. Told(on, act)
      BY <2>1 DEF Told
    <2>3. /\ Told(rst, act) /\ rst.off \cap act = {} /\ rst.off \subseteq on.off
          /\ rst \in Presentation
      BY <2>1, <2>2, ResetLights, DpmsResetScreens
    <2> HIDE DEF rst
    <2>4. /\ add \in Presentation /\ add.off = rst.off /\ add.blank = rst.blank
          /\ add.armed = rst.armed
      BY <2>3 DEF Presentation
    <2> HIDE DEF add
    <2>5. ActivateDisplays(p, A, act, vid, live) = TermActivate(add, current)
      BY <1>2 DEF ActivateDisplays, add, rst, on
    <2>6. rst.off \cap (act \cup A) = {}
      BY <2>1, <2>3
    <2> QED
      BY <2>3, <2>4, <2>5, <2>6, TermActivateTold DEF Told
  <1> QED
    BY <1>1, <1>2

LEMMA RemoveOff ==
  ASSUME NEW p \in Presentation, NEW R, NEW a
  PROVE  /\ RemoveDisplays(p, R, a).off = p.off \ R
         /\ RemoveDisplays(p, R, a).blank = p.blank
         /\ RemoveDisplays(p, R, a).armed = p.armed
  BY DEF RemoveDisplays, Presentation

LEMMA RemoveTold ==
  ASSUME NEW p \in Presentation, NEW R, NEW a, NEW act, Told(p, act)
  PROVE  Told(RemoveDisplays(p, R, a), act \ R)
  BY RemoveOff DEF Told

LEMMA PresentTold ==
  ASSUME NEW p, NEW live, Present(p, live), Told(p, activated')
  PROVE  Told(Now, activated)' /\ dpmsOff' = p.off
  BY DEF Present, Told, Now

\* Displays that come and go on a seat whose devices are all awake.
LEMMA ReplugTold ==
  ASSUME NEW p \in Presentation, Told(p, activated), NEW gone, NEW A \in SUBSET Display,
         NEW vid, NEW live, activated \in SUBSET Display,
         \A d \in activated \ gone : vid[VideoOf[d]] = "awake"
  PROVE  Told(ActivateDisplays(RemoveDisplays(p, gone, activated), A,
                               activated \ gone, vid, live),
              (activated \ gone) \cup A)
  <1> DEFINE r == RemoveDisplays(p, gone, activated)
  <1>1. r \in Presentation /\ Told(r, activated \ gone)
    BY RemoveDisplaysScreens, RemoveTold
  <1> HIDE DEF r
  <1>2. Told(ActivateDisplays(r, A, activated \ gone, vid, live), (activated \ gone) \cup A)
    BY <1>1, ActivateTold
  <1> QED
    BY <1>2 DEF r
\* seat_go_foreground with one device: the timer is reset once it is awake.
LEMMA GoForegroundTold ==
  ASSUME ~Faults, NEW v, Video = {v}, ScreenInv, ShownInv, NEW p \in Presentation,
         Told(p, activated), NEW then, NEW live, GoForeground(p, then, live, FALSE)
  PROVE  Told(Now, activated)'
  <1> PICK good \in SUBSET Sleeping, leak \in SUBSET Deferred,
           gone \in SUBSET (displays \cap On(Sleeping)),
           new \in SUBSET (Fresh \cap On(Sleeping)) :
        /\ good = Sleeping /\ good \cap leak = {}
        /\ WakeVideos(good, leak, gone, new)
        /\ \E early \in Early(good, new) :
             GoForegroundWith(p, then, live, FALSE, gone, early)
    BY DEF GoForeground
  <1> PICK early \in Early(good, new) :
        GoForegroundWith(p, then, live, FALSE, gone, early)
    OBVIOUS
  <1> DEFINE vidThen == [w \in Video |->
                           IF w \in Sleeping \ early THEN "asleep" ELSE video'[w]]
             shown == ActivateDisplays(RemoveDisplays(p, gone, activated),
                                       Lit, activated \ gone, vidThen, live)
             done == TermActivate(shown, then)
  <1>1. activated' = (activated \ gone) \cup Lit /\ Present(done, live)
    BY DEF GoForegroundWith
  <1>2. Sleeping \subseteq early
    <2>1. CASE new = {}
      BY <2>1 DEF Early
    <2>2. CASE new # {}
      <3>1. /\ early \in SUBSET Sleeping /\ Sleeping \subseteq Video
            /\ Cardinality({w \in early : On({w}) \cap new # {}}) = 1
        BY <2>2 DEF Early, Sleeping, ScreenInv, VideoTypes
      <3>2. early # {}
        <4> SUFFICES ASSUME early = {} PROVE FALSE
          OBVIOUS
        <4>1. {w \in early : On({w}) \cap new # {}} = {}
          OBVIOUS
        <4> QED
          BY <3>1, <4>1, FS_EmptySet
      <3> QED
        BY <3>1, <3>2
    <2> QED
      BY <2>1, <2>2
  <1>3. \A w \in listed : video'[w] = "awake"
    BY GoForegroundShows, GoForegroundShown DEF ShownInv, WakeVideos, Sleeping, Deferred,
       ScreenInv, VideoTypes
  <1>4. \A d \in activated : VideoOf[d] \in listed /\ d \in Display
    BY DEF ScreenInv, ShownInv, On
  <1>5. \A d \in activated \ gone : vidThen[VideoOf[d]] = "awake"
    BY <1>2, <1>3, <1>4 DEF ScreenInv, VideoTypes
  <1>6. Lit \in SUBSET Display /\ activated \in SUBSET Display
    BY DEF Lit, ScreenInv, VideoTypes, WakeVideos, Fresh
  <1> HIDE DEF vidThen
  <1>7. /\ Told(shown, (activated \ gone) \cup Lit)
        /\ shown \in Presentation
    <2>1. RemoveDisplays(p, gone, activated) \in Presentation
      BY RemoveDisplaysScreens
    <2> QED
      BY <1>5, <1>6, <2>1, ReplugTold, ActivateDisplaysScreens
  <1> HIDE DEF shown
  <1>8. Told(done, activated')
    BY <1>1, <1>7, TermActivateTold DEF Told
  <1> HIDE DEF done
  <1> QED
    BY <1>1, <1>8, PresentTold

\* The device looks at its connectors: on an awake seat every listed device is
\* awake.
LEMMA RescanTold ==
  ASSUME ScreenInv, ScreenInv', ShownInv', foreground', Told(Now, activated),
         NEW v, NEW ok, Rescan(v, ok), listed \subseteq listed', ShownInv
  PROVE  Told(Now, activated)'
  <1> PICK gone \in SUBSET displays, new \in SUBSET Fresh :
        LET A == IF awake /\ foreground THEN new ELSE {}
        IN  /\ activated' = (activated \ gone) \cup A
            /\ Present(ActivateDisplays(RemoveDisplays(Now, gone, activated), A,
                                        activated \ gone, video', ToSet(sessions)),
                       ToSet(sessions))
    BY DEF Rescan, RescanAnd
  <1> DEFINE A == IF awake /\ foreground THEN new ELSE {}
             q == ActivateDisplays(RemoveDisplays(Now, gone, activated), A,
                                   activated \ gone, video', ToSet(sessions))
  <1>1. Present(q, ToSet(sessions)) /\ activated' = (activated \ gone) \cup A
    OBVIOUS
  <1>2. A \in SUBSET Display /\ activated \in SUBSET Display
    BY DEF Fresh, ScreenInv, VideoTypes
  <1> HIDE DEF A
  <1>3. Now \in Presentation
    BY NowPresentation DEF ScreenInv
  <1>4. \A d \in activated : video'[VideoOf[d]] = "awake"
    BY DEF ScreenInv, ShownInv, On
  <1>5. Told(q, activated')
    BY <1>1, <1>2, <1>3, <1>4, ReplugTold
  <1> HIDE DEF q
  <1> QED
    BY <1>1, <1>5, PresentTold

\* A switch on a seat that is shown.
LEMMA SwitchTold ==
  ASSUME NEW p \in Presentation, Told(p, activated), NEW new, NEW live,
         foreground = TRUE, sessFg'[new] = TRUE, SeatSwitch(p, new, live)
  PROVE  Told(Now, activated)'
  <1> DEFINE q == IF current \in Session THEN TermDeactivate(p, current) ELSE p
             r == TermActivate(q, new)
  <1>1. UNCHANGED activated /\ Present(r, live)
    BY DEF SeatSwitch, videoVars
  <1>2. q \in Presentation /\ Told(q, activated)
    BY TermDeactivateScreens, TermDeactivateTold DEF Told
  <1> HIDE DEF q
  <1>3. Told(r, activated)
    BY <1>2, TermActivateTold DEF Told
  <1> HIDE DEF r
  <1> QED
    BY <1>1, <1>3, PresentTold

LEMMA BlankQuiet ==
  ASSUME BlankInv, UNCHANGED <<activated, dpmsVars, awake>>, vtDelayed' => vtDelayed
  PROVE  BlankInv'
  BY DEF BlankInv, Told, Now, dpmsVars

LEMMA BlankInit == Init => BlankInv
  <1> SUFFICES ASSUME Init PROVE BlankInv
    OBVIOUS
  <1>1. dpmsOff = {} /\ blanked = FALSE /\ (dpmsArmed <=> DpmsTimeout)
        /\ (vtDelayed => ~awake)
    BY SeatAssumption DEF Init
  <1>2. Now.off = {} /\ Now.blank = FALSE /\ Now.armed = dpmsArmed
    BY <1>1 DEF Now
  <1> QED
    BY <1>1, <1>2 DEF BlankInv, Told
LEMMA BlankNext ==
  ASSUME ~Background, ~Faults, VtKind = "real", NEW v, Video = {v},
         VtInv, SeatInv, OneInv, OneInv', ShownInv, SeatInv', ShownInv', VtInv',
         BlankInv, [Next]_vars
  PROVE  BlankInv'
  <1> DEFINE live == ToSet(sessions)
  <1>0. /\ ScreenInv /\ ScreenInv' /\ Now \in Presentation /\ Touched \in Presentation
        /\ foreground \in BOOLEAN /\ awake \in BOOLEAN /\ (awake <=> foreground)
        /\ Told(Now, activated) /\ dpmsOff = Now.off
    BY KeyState DEF SeatInv, VtInv, VtTypes, ForegroundAwake, OneInv, BlankInv, Now
  <1>a. \A d \in activated : d \in Display /\ VideoOf[d] \in listed
    BY <1>0 DEF ScreenInv, VideoTypes, ShownInv, On
  <1>b. awake => \A d \in activated : video[VideoOf[d]] = "awake"
    BY <1>0, <1>a DEF ShownInv
  <1>c. running /\ ~awake /\ inputAwake > 0 => vtDelayed /\ dpmsOff = {}
    BY <1>0 DEF BlankInv, VtInv, InputBalance, VtAgrees, VtTypes, FreedAsleep, Bit
  \* A key or a pointer event.
  <1>d. running /\ inputAwake > 0 =>
          /\ Told(Touched, activated) /\ Touched.off \subseteq dpmsOff
          /\ awake => Touched.off \cap activated = {}
    <2> SUFFICES ASSUME running, inputAwake > 0
                 PROVE  /\ Told(Touched, activated) /\ Touched.off \subseteq dpmsOff
                        /\ awake => Touched.off \cap activated = {}
      OBVIOUS
    <2>1. CASE awake
      BY <1>0, <1>a, <1>b, <2>1, ResetLights DEF Touched
    <2>2. CASE ~awake
      <3>1. Now.off = {}
        BY <1>0, <1>c, <2>2
      <3>2. /\ Touched.off = (IF DpmsTimeout /\ Now.blank
                              THEN Now.off \ Reachable(activated, video) ELSE Now.off)
            /\ Touched.blank = (Now.blank /\ ~DpmsTimeout)
            /\ Touched.armed = (Now.armed \/ DpmsTimeout)
        BY <1>0, DpmsResetTold DEF Touched
      <3>3. Touched.off = {}
        BY <3>1, <3>2
      <3>4. ~DpmsTimeout => ~Touched.blank /\ ~Touched.armed
        <4>1. ~DpmsTimeout => ~Now.blank /\ ~Now.armed
          BY <1>0 DEF Told
        <4> HIDE DEF Now, Touched
        <4> QED
          BY <3>2, <4>1, Zenon
      <3> QED
        BY <2>2, <3>3, <3>4 DEF Told
    <2> QED
      BY <1>0, <2>1, <2>2
  <1>1. CASE VtEnter
    <2>1. SeatVtActivate(FALSE) /\ vtDelayed' = FALSE
      BY <1>1 DEF VtEnter
    <2>2. Told(Now, activated)'
      <3>1. CASE foreground
        <4>1. UNCHANGED activated /\ Present(TermActivate(Now, current), live)
          BY <2>1, <3>1 DEF SeatVtActivate, videoVars
        <4>2. Told(TermActivate(Now, current), activated)
          BY <1>0, TermActivateTold DEF Told
        <4> QED
          BY <4>1, <4>2, PresentTold
      <3>2. CASE ~foreground
        <4>1. GoForeground(Now, current, live, FALSE)
          BY <2>1, <3>2 DEF SeatVtActivate
        <4> QED
          BY <1>0, <4>1, GoForegroundTold
      <3> QED
        BY <3>1, <3>2
    <2> QED
      BY <2>1, <2>2 DEF BlankInv
  <1>2. CASE VtEnterKey \/ VtSwitchKey
    BY <1>2 DEF VtEnterKey, VtSwitchKey
  <1>3. CASE VtLeave
    <2>1. /\ SeatVtDeactivate /\ Present(TermDeactivate(Now, current), live)
          /\ vtActive /\ UNCHANGED vtDelayed
      BY <1>3 DEF VtLeave
    <2>2. UNCHANGED activated /\ ~vtDelayed
      BY <2>1 DEF SeatVtDeactivate, GoBackground, videoVars, VtInv, DelayedReal
    <2>3. Told(TermDeactivate(Now, current), activated)
      BY <1>0, TermDeactivateTold DEF Told
    <2>4. Told(Now, activated)'
      BY <2>1, <2>2, <2>3, PresentTold
    <2> QED
      BY <2>1, <2>2, <2>4 DEF BlankInv
  <1>4. CASE VtLeaveDelayed
    BY <1>4, BlankQuiet DEF VtLeaveDelayed, seatVars, videoVars
  <1>5. CASE KeyPress
    <2>1. /\ Present(Touched, live) /\ running /\ inputAwake > 0
          /\ UNCHANGED <<activated, awake, vtDelayed>>
      BY <1>5 DEF KeyPress, seatVars, videoVars, vtVars
    <2>2. Told(Now, activated)' /\ dpmsOff' \subseteq dpmsOff
      BY <1>d, <2>1, PresentTold
    <2> QED
      BY <2>1, <2>2 DEF BlankInv
  \* The steps that switch sessions.
  <1>6. ASSUME NEW p \in Presentation, Told(p, activated), NEW new \in Session, NEW list,
               awake, sessFg'[new] = TRUE, SeatSwitch(p, new, list),
               UNCHANGED <<awake, vtDelayed>>
        PROVE  BlankInv'
    <2>1. foreground = TRUE /\ ~vtDelayed
      BY <1>0, <1>6 DEF BlankInv
    <2>2. Told(Now, activated)'
      BY <1>6, <2>1, SwitchTold
    <2> QED
      BY <1>6, <2>1, <2>2 DEF BlankInv
  <1>7. CASE KeyNext \/ KeyPrev \/ KeyClose
    <2>1. /\ current \in live /\ sessions \in Seq(Session) /\ awake /\ running
          /\ inputAwake > 0
      BY <1>7, KeyState DEF KeyNext, KeyPrev, KeyClose, Grab, SeatInv, ListInv
    <2>2. NextOf(current) \in Session /\ PrevOf(current) \in Session
      BY <2>1, NeighboursIn, ToSetSubset
    <2>3. Told(Touched, activated) /\ \A s \in Session : sessFg'[s] = TRUE
      BY <1>d, <2>1 DEF OneInv
    <2>4. UNCHANGED <<awake, vtDelayed>>
      BY <1>7 DEF KeyNext, KeyPrev, KeyClose, KeySwitch, vtVars
    <2>5. CASE KeyNext \/ KeyPrev
      BY <1>0, <1>6, <2>1, <2>2, <2>3, <2>4, <2>5 DEF KeyNext, KeyPrev, KeySwitch
    <2>6. CASE KeyClose
      <3> DEFINE p == TermDeactivate(Touched, current)
      <3>1. p \in Presentation /\ Told(p, activated)
        BY <1>0, <2>3, TermDeactivateScreens, TermDeactivateTold DEF Told
      <3>2. SeatSwitch(p, NextOf(current), ToSet(sessions'))
        BY <2>6 DEF KeyClose
      <3> HIDE DEF p
      <3> QED
        BY <1>6, <2>1, <2>2, <2>3, <2>4, <3>1, <3>2
    <2> QED
      BY <1>7, <2>5, <2>6
  <1>8. ASSUME NEW s \in Session, KeyNew(s) PROVE BlankInv'
    <2> DEFINE p == [Touched EXCEPT !.scr[s] = NewScreens]
    <2>1. /\ p \in Presentation /\ p.off = Touched.off /\ p.blank = Touched.blank
          /\ p.armed = Touched.armed
      BY <1>0 DEF Presentation, NewScreens, ScreenInv, VideoTypes
    <2>2. /\ SeatSwitch(p, s, ToSet(sessions')) /\ awake /\ running /\ inputAwake > 0
          /\ UNCHANGED <<awake, vtDelayed>>
      BY <1>8 DEF KeyNew, Grab, vtVars
    <2> HIDE DEF p
    <2>3. sessFg'[s] = TRUE
      BY <1>8 DEF KeyNew, OneInv
    <2>4. Told(p, activated)
      BY <1>d, <2>1, <2>2 DEF Told
    <2> QED
      BY <1>6, <2>1, <2>2, <2>3, <2>4
  <1>9. ASSUME NEW s \in Session, SetBackground(s) \/ SetForeground(s) PROVE FALSE
    BY <1>9 DEF SetBackground, SetForeground
  <1>10. CASE DpmsExpire
    <2>0. UNCHANGED <<activated, awake, vtDelayed>> /\ dpmsArmed
      BY <1>10 DEF DpmsExpire, videoVars, seatVars, vtVars
    <2>1. CASE awake
      <3> DEFINE q == TermDeactivate(Now, current)
                 r == [q EXCEPT !.off = @ \cup Reachable(activated, video),
                                !.blank = TRUE, !.armed = FALSE]
      <3>1. Present(r, live) /\ ~vtDelayed
        BY <1>10, <2>1 DEF DpmsExpire, BlankInv
      <3>2. q \in Presentation
        BY <1>0, TermDeactivateScreens
      <3> HIDE DEF q
      <3>3. r.blank = TRUE /\ DpmsTimeout
        BY <1>0, <2>0, <3>2 DEF Presentation, Told, Now
      <3> HIDE DEF r
      <3>4. Told(r, activated')
        BY <3>3 DEF Told
      <3>5. Told(Now, activated)'
        BY <3>1, <3>4, PresentTold
      <3> QED
        BY <2>0, <3>1, <3>5 DEF BlankInv
    <2>2. CASE ~awake
      <3>1. dpmsArmed' = FALSE /\ UNCHANGED <<dpmsOff, blanked>>
        BY <1>10, <2>2 DEF DpmsExpire
      <3> QED
        BY <2>0, <3>1 DEF BlankInv, Told, Now
    <2> QED
      BY <1>0, <2>1, <2>2
  <1>11. ASSUME NEW w \in Video, AddVideoAsleep(w) PROVE BlankInv'
    BY <1>11, BlankQuiet DEF AddVideoAsleep, DeviceOnly, seatVars, vtVars
  <1>12. ASSUME NEW w \in Video, AddVideoFails(w) PROVE FALSE
    BY <1>12 DEF AddVideoFails
  <1>13. ASSUME NEW w \in Video, NEW ok \in BOOLEAN,
                AddVideoAwake(w) \/ Hotplug(w, ok) \/ RetryTimer(w, ok)
         PROVE  BlankInv'
    <2>1. /\ Rescan(w, ok) \/ Rescan(w, TRUE)
          /\ UNCHANGED <<awake, foreground, vtDelayed>> /\ listed \subseteq listed'
      BY <1>13 DEF AddVideoAwake, Hotplug, RetryTimer, DeviceOnly, seatVars, vtVars
    <2>2. foreground
      BY <1>0, <1>13 DEF AddVideoAwake, Hotplug, RetryTimer, ShownInv
    <2>3. Told(Now, activated)'
      BY <1>0, <2>1, <2>2, RescanTold
    <2> QED
      BY <1>0, <2>1, <2>2, <2>3 DEF BlankInv
  <1>14. ASSUME NEW R, Present(RemoveDisplays(Now, R, activated), live) \/
                       Present(RemoveDisplays(Now, R, activated), {}),
                activated' \cap R = {}, activated' \subseteq activated,
                awake' => awake, vtDelayed' => vtDelayed
         PROVE  BlankInv'
    <2> DEFINE q == RemoveDisplays(Now, R, activated)
    <2>1. /\ q.off = dpmsOff \ R /\ q.blank = Now.blank /\ q.armed = Now.armed
      BY <1>0, RemoveOff
    <2> HIDE DEF q
    <2>2. Told(q, activated')
      BY <1>0, <1>14, <2>1 DEF Told
    <2>3. Told(Now, activated)' /\ dpmsOff' \subseteq dpmsOff
      BY <1>14, <2>1, <2>2, PresentTold DEF q
    <2> QED
      BY <1>14, <2>3 DEF BlankInv
  <1>15. ASSUME NEW w \in Video, RemoveVideo(w) PROVE BlankInv'
    <2>1. /\ activated' = activated \ On({w})
          /\ Present(RemoveDisplays(Now, displays \cap On({w}), activated), live)
          /\ UNCHANGED <<awake, vtDelayed>>
      BY <1>15 DEF RemoveVideo, DeviceOnly, seatVars, vtVars
    <2> QED
      BY <1>14, <2>1
  <1>16. CASE SeatFree
    <2>1. /\ activated' = activated \ On(listed) /\ ~awake' /\ ~vtDelayed'
          /\ Present(RemoveDisplays(Now, displays \cap On(listed), activated), {})
      BY <1>16 DEF SeatFree
    <2> QED
      BY <1>14, <2>1
  <1>17. CASE UNCHANGED vars
    BY <1>17, BlankQuiet DEF vars, seatVars, videoVars, vtVars
  <1> QED
    BY <1>1, <1>2, <1>3, <1>4, <1>5, <1>7, <1>8, <1>9, <1>10, <1>11, <1>12, <1>13,
       <1>15, <1>16, <1>17 DEF Next
LEMMA BlankInvariant ==
  ASSUME ~Background, ~Faults, VtKind = "real", NEW v, Video = {v}
  PROVE  Spec => [](BlankInv /\ ShownInv /\ SeatInv /\ VtInv)
  <1>1. /\ VtInv /\ SeatInv /\ OneInv /\ ShownInv /\ BlankInv /\ [Next]_vars
        /\ VtInv' /\ SeatInv' /\ OneInv' /\ ShownInv'
        => BlankInv'
    BY BlankNext
  <1> QED
    BY <1>1, BlankInit, VtInvariant, SeatInvariant, OneInvariant, ShownInvariant,
       PTL DEF Spec

\* Any key, and any movement of the pointer, ends with every display of a shown
\* console switched on (seat_dpms_reset_timer), whatever blanked the screen,
\* left the VT, plugged displays in and came back before.  For a real VT with
\* one device that works: with a second one it is false, see the README.
THEOREM InputUnblanksCorrect ==
  ASSUME ~Background, ~Faults, VtKind = "real", NEW v, Video = {v}
  PROVE  Spec => InputUnblanks
  <1>1. BlankInv /\ ShownInv /\ SeatInv /\ VtInv /\ [Next]_vars
        => [KeyPress /\ awake /\ foreground => dpmsOff' \cap activated' = {}]_vars
    <2> SUFFICES ASSUME BlankInv, ShownInv, SeatInv, KeyPress, awake, foreground
                 PROVE  dpmsOff' \cap activated' = {}
      BY Zenon
    <2>1. Now \in Presentation /\ Touched \in Presentation /\ Told(Now, activated)
      BY KeyState DEF BlankInv
    <2>2. \A d \in activated : d \in Display /\ video[VideoOf[d]] = "awake"
      BY DEF SeatInv, ScreenInv, VideoTypes, ShownInv, On
    <2>3. Touched.off \cap activated = {}
      BY <2>1, <2>2, ResetLights DEF Touched
    <2>4. dpmsOff' = Touched.off /\ activated' = activated
      BY DEF KeyPress, Present, videoVars
    <2> QED
      BY <2>3, <2>4
  <1> QED
    BY <1>1, BlankInvariant, PTL DEF Spec, InputUnblanks
=============================================================================
