---------------------------- MODULE LoginProofs ----------------------------
(***************************************************************************)
(* Theorems about logins: the terminals that start them (Pty), for any     *)
(* number of sessions and processes and all limits, and the helper outside *)
(* of the sandbox that runs them (HostLogin), for any number of terminals. *)
(***************************************************************************)
EXTENDS Pty, HostLogin, Integers, SequenceTheorems, WellFoundedInduction, TLAPS

-----------------------------------------------------------------------------
(***************************************************************************)
(*               The logins and their processes (Pty)                      *)
(***************************************************************************)

\* What the proofs know of processes: a pid belongs to one process at a time.
ProcInv ==
  /\ opened \subseteq Session
  /\ child \in [Session -> Pid \cup {NoPid}]
  /\ running \subseteq Pid /\ zombie \subseteq Pid
  /\ running \cap zombie = {}

LoginInv == ProcInv /\ FeedLogin

\* A login of an open PTY runs, or has exited with nobody told of it yet.
ExitPending ==
  \A s \in opened :
    child[s] \in running \/ (child[s] \in zombie /\ sigchld)

\* There is one session, and so one event loop that waits for SIGCHLD.
OneSession == \A s, t \in Session : s = t

(***************************************************************************)
(* What opening and closing the terminal s does to every session: only s   *)
(* is touched, and an open PTY has a child that runs.                      *)
(***************************************************************************)
Touches(s) ==
  /\ opened' \subseteq Session
  /\ child' \in [Session -> Pid \cup {NoPid}]
  /\ \A t \in Session \ {s} : child'[t] = child[t] /\ (t \in opened' <=> t \in opened)
  /\ running \subseteq running' /\ running' \subseteq Pid
  /\ running' \cap zombie = {}

LEMMA OpenTouches ==
  ASSUME ProcInv, NEW s \in Session, TerminalOpen(s)
  PROVE  Touches(s) /\ (s \in opened' => child'[s] \in running')
  <1>1. ASSUME NEW p \in FreePid, PtySpawn(s, p)
        PROVE  Touches(s) /\ (s \in opened' => child'[s] \in running')
    <2>1. p \in Pid /\ p \notin zombie
      BY DEF FreePid
    <2> QED
      BY <1>1, <2>1 DEF PtySpawn, ProcInv, Touches
  <1>2. CASE opened' = opened \ {s} /\ UNCHANGED <<child, running>>
    BY <1>2 DEF ProcInv, Touches
  <1> QED
    BY <1>1, <1>2 DEF TerminalOpen, PtyOpen

LEMMA CloseTouches ==
  ASSUME ProcInv, NEW s \in Session, TerminalClose(s)
  PROVE  Touches(s) /\ s \notin opened' /\ child' = child /\ running' = running
  BY DEF ProcInv, Touches, TerminalClose

LEMMA KeepTouches ==
  ASSUME ProcInv, NEW s \in Session, TermUnchanged
  PROVE  Touches(s) /\ opened' = opened /\ child' = child /\ running' = running
  BY DEF ProcInv, Touches, TermUnchanged

(***************************************************************************)
(* One lemma for each of the actions that start or stop a login.           *)
(***************************************************************************)

\* A login is replaced or closed by its own exit only, and a new one is
\* started only in a terminal that allows it.
LEMMA SigChildStep ==
  ASSUME ProcInv, NEW s \in Session, SigChild(s)
  PROVE  /\ Touches(s) /\ s \in opened
         /\ s \in opened' => \/ child[s] \notin zombie /\ child'[s] = child[s]
                             \/ child[s] \in zombie /\ child'[s] \in running'
         /\ child[s] \in zombie /\ s \in opened' => s \notin seen
         /\ sigchld' = FALSE /\ zombie' = {} /\ UNCHANGED termVars
  <1>1. CASE IsChild(s)
    <2>1. ChildExited(s)
      BY <1>1 DEF SigChild
    <2>2. \/ TerminalOpen(s) /\ LoginAllowed(s)
          \/ TerminalClose(s)
      BY <2>1 DEF ChildExited, PtyExit
    <2> QED
      BY <1>1, <2>2, OpenTouches, CloseTouches DEF SigChild, IsChild, LoginAllowed
  <1>2. CASE ~IsChild(s)
    <2>1. TermUnchanged
      BY <1>2 DEF SigChild
    <2> QED
      BY <1>2, <2>1, KeepTouches DEF SigChild, IsChild
  <1> QED
    BY <1>1, <1>2

LEMMA ActivateStep ==
  ASSUME ProcInv, NEW s \in Session, TerminalActivate(s)
  PROVE  /\ Touches(s) /\ UNCHANGED <<seen, feed, zombie, sigchld>>
         /\ \/ opened' = opened /\ child' = child /\ running' = running
            \/ /\ s \notin opened /\ s \notin seen
               /\ s \in opened' => child'[s] \in running'
  <1>1. CASE s \notin opened /\ LoginAllowed(s)
    BY <1>1, OpenTouches DEF TerminalActivate, LoginAllowed
  <1>2. CASE ~(s \notin opened /\ LoginAllowed(s))
    BY <1>2, KeepTouches DEF TerminalActivate
  <1> QED
    BY <1>1, <1>2

LEMMA StatusStep ==
  ASSUME ProcInv, NEW s \in Session, StatusEvent(s)
  PROVE  /\ Touches(s) /\ UNCHANGED <<zombie, sigchld>>
         /\ s \in opened /\ s \in opened' => child' = child /\ running' = running
         /\ s \notin opened /\ s \in opened' => child'[s] \in running'
         /\ \/ s \notin opened' /\ seen' = seen \cup {s} /\ feed' = feed \cup {s}
            \/ seen' = seen \ {s} /\ feed' = feed \ {s}
  <1>1. CASE EventsLocked
    <2>1. IF s \in opened THEN TerminalClose(s) ELSE TermUnchanged
      BY <1>1 DEF StatusEvent, ReconcileConsoleMode
    <2>2. Touches(s) /\ s \notin opened' 
      BY <2>1, CloseTouches, KeepTouches
    <2> QED
      BY <1>1, <2>2 DEF StatusEvent, ReconcileConsoleMode
  <1>2. CASE ~EventsLocked
    <2>1. \/ s \notin opened /\ TerminalOpen(s)
          \/ TermUnchanged
      BY <1>2 DEF StatusEvent, ReconcileConsoleMode
    <2>2. /\ Touches(s)
          /\ s \in opened /\ s \in opened' => child' = child /\ running' = running
          /\ s \notin opened /\ s \in opened' => child'[s] \in running'
      BY <2>1, OpenTouches, KeepTouches
    <2> QED
      BY <1>2, <2>2 DEF StatusEvent, ReconcileConsoleMode
  <1> QED
    BY <1>1, <1>2

LEMMA DestroyStep ==
  ASSUME ProcInv, NEW s \in Session, TerminalDestroy(s)
  PROVE  /\ Touches(s) /\ s \notin opened' /\ child' = child /\ running' = running
         /\ seen' = seen \ {s} /\ feed' = feed \ {s} /\ UNCHANGED <<zombie, sigchld>>
  BY CloseTouches DEF TerminalDestroy

LEMMA ProcExitStep ==
  ASSUME ProcInv, NEW p \in Pid, ProcExit(p)
  PROVE  /\ ProcInv' /\ UNCHANGED <<opened, child, seen, feed>>
         /\ running' = running \ {p} /\ zombie' = zombie \cup {p} /\ sigchld'
  BY DEF ProcExit, ProcInv, ptyVars, termVars

\* The steps that leave logins, processes and the lock alone.
Quiet == UNCHANGED <<opened, child, seen, feed, running, zombie, sigchld>>

\* Every step is one of those above.
LEMMA StepCases ==
  ASSUME [Next]_vars
  PROVE  \/ \E s \in Session : \/ SigChild(s) \/ TerminalActivate(s) \/ StatusEvent(s)
                               \/ TerminalDestroy(s)
         \/ \E p \in Pid : ProcExit(p)
         \/ Quiet
  <1> USE DEF termVars, ptyVars, procVars
  <1>1. ASSUME NEW s \in Session,
               \/ IoEvent(s) \/ TerminalNew(s) \/ TerminalDeactivate(s)
               \/ SlaveRead(s) \/ Hangup(s)
               \/ \E n \in 1..2 : Type(s, n)
               \/ \E c \in Chunk : SlaveWrite(s, c)
        PROVE  Quiet
    BY <1>1 DEF IoEvent, TerminalNew, TerminalDeactivate, SlaveRead, Hangup, Type,
                SlaveWrite, Quiet
  <1>2. ASSUME NEW v, Publish(v) PROVE Quiet
    BY <1>2 DEF Publish, Quiet
  <1>3. CASE Tick
    BY <1>3 DEF Tick, Quiet
  <1>4. CASE UNCHANGED vars
    BY <1>4 DEF vars, Quiet
  <1> QED
    BY <1>1, <1>2, <1>3, <1>4 DEF Next

-----------------------------------------------------------------------------
LEMMA LoginInit == Init => LoginInv
  BY DEF Init, LoginInv, ProcInv, FeedLogin

LEMMA LoginNext == LoginInv /\ [Next]_vars => LoginInv'
  <1> SUFFICES ASSUME LoginInv, [Next]_vars PROVE LoginInv'
    OBVIOUS
  <1> ProcInv /\ FeedLogin
    BY DEF LoginInv
  <1>1. ASSUME NEW s \in Session, SigChild(s) PROVE LoginInv'
    BY <1>1, SigChildStep DEF LoginInv, ProcInv, FeedLogin, Touches, termVars
  <1>2. ASSUME NEW s \in Session, TerminalActivate(s) PROVE LoginInv'
    BY <1>2, ActivateStep DEF LoginInv, ProcInv, FeedLogin, Touches
  <1>3. ASSUME NEW s \in Session, StatusEvent(s) PROVE LoginInv'
    BY <1>3, StatusStep DEF LoginInv, ProcInv, FeedLogin, Touches
  <1>4. ASSUME NEW s \in Session, TerminalDestroy(s) PROVE LoginInv'
    BY <1>4, DestroyStep DEF LoginInv, ProcInv, FeedLogin, Touches
  <1>5. ASSUME NEW p \in Pid, ProcExit(p) PROVE LoginInv'
    BY <1>5, ProcExitStep DEF LoginInv, FeedLogin
  <1>6. CASE Quiet
    BY <1>6 DEF Quiet, LoginInv, ProcInv, FeedLogin
  <1> QED
    BY <1>1, <1>2, <1>3, <1>4, <1>5, <1>6, StepCases

\* The event feed and a login never share a screen, and no login runs in a
\* terminal that knows the console as locked, for any number of sessions.
THEOREM FeedLoginCorrect == Spec => []FeedLogin
  <1>1. LoginInv => FeedLogin
    BY DEF LoginInv
  <1> QED
    BY <1>1, LoginInit, LoginNext, PTL DEF Spec

\* A login that still runs is never replaced: sig_child recognises its own
\* child, and no other path opens a PTY that is open.
THEOREM LoginKeptCorrect == Spec => LoginKept
  <1> DEFINE Kept == \A s \in Session :
               s \in opened /\ s \in opened' /\ child'[s] # child[s] => child[s] \notin running
  <1>1. LoginInv /\ [Next]_vars => Kept
    <2> SUFFICES ASSUME LoginInv, [Next]_vars, NEW t \in Session,
                        t \in opened, t \in opened', child'[t] # child[t]
                 PROVE  child[t] \notin running
      OBVIOUS
    <2> ProcInv
      BY DEF LoginInv
    <2>1. ASSUME NEW s \in Session, SigChild(s) PROVE child[t] \notin running
      BY <2>1, SigChildStep DEF Touches, ProcInv
    <2>2. ASSUME NEW s \in Session, TerminalActivate(s) PROVE child[t] \notin running
      BY <2>2, ActivateStep DEF Touches
    <2>3. ASSUME NEW s \in Session, StatusEvent(s) PROVE child[t] \notin running
      BY <2>3, StatusStep DEF Touches
    <2>4. ASSUME NEW s \in Session, TerminalDestroy(s) PROVE child[t] \notin running
      BY <2>4, DestroyStep
    <2>5. ASSUME NEW p \in Pid, ProcExit(p) PROVE child[t] \notin running
      BY <2>5, ProcExitStep
    <2>6. CASE Quiet
      BY <2>6 DEF Quiet
    <2> QED
      BY <2>1, <2>2, <2>3, <2>4, <2>5, <2>6, StepCases
  <1>2. Kept => [Kept]_vars
    OBVIOUS
  <1> QED
    BY <1>1, <1>2, LoginInit, LoginNext, PTL DEF Spec, LoginKept

\* With one session no exit is lost: the login of an open PTY runs, or waits
\* to be reaped with SIGCHLD pending in the only loop that takes it.
THEOREM ExitPendingCorrect == OneSession => (Spec => []ExitPending)
  <1> SUFFICES ASSUME OneSession PROVE Spec => []ExitPending
    OBVIOUS
  <1>1. Init => ExitPending
    BY DEF Init, ExitPending
  <1>2. LoginInv /\ ExitPending /\ [Next]_vars => ExitPending'
    <2> SUFFICES ASSUME LoginInv, ExitPending, [Next]_vars, NEW t \in opened'
                 PROVE  (child[t] \in running \/ (child[t] \in zombie /\ sigchld))'
      BY DEF ExitPending
    <2> ProcInv
      BY DEF LoginInv
    <2>1. ASSUME NEW s \in Session, SigChild(s)
          PROVE  (child[t] \in running \/ (child[t] \in zombie /\ sigchld))'
      BY <2>1, SigChildStep DEF OneSession, ExitPending, Touches
    <2>2. ASSUME NEW s \in Session, TerminalActivate(s)
          PROVE  (child[t] \in running \/ (child[t] \in zombie /\ sigchld))'
      BY <2>2, ActivateStep DEF ExitPending, Touches
    <2>3. ASSUME NEW s \in Session, StatusEvent(s)
          PROVE  (child[t] \in running \/ (child[t] \in zombie /\ sigchld))'
      BY <2>3, StatusStep DEF ExitPending, Touches
    <2>4. ASSUME NEW s \in Session, TerminalDestroy(s)
          PROVE  (child[t] \in running \/ (child[t] \in zombie /\ sigchld))'
      BY <2>4, DestroyStep DEF ExitPending, Touches
    <2>5. ASSUME NEW p \in Pid, ProcExit(p)
          PROVE  (child[t] \in running \/ (child[t] \in zombie /\ sigchld))'
      BY <2>5, ProcExitStep DEF ExitPending
    <2>6. CASE Quiet
      BY <2>6 DEF Quiet, ExitPending
    <2> QED
      BY <2>1, <2>2, <2>3, <2>4, <2>5, <2>6, StepCases
  <1> QED
    BY <1>1, <1>2, LoginInit, LoginNext, PTL DEF Spec
-----------------------------------------------------------------------------
(***************************************************************************)
(* The order of the bytes.  What follows is about the record io[s] and the *)
(* functions of pty.c on it.                                               *)
(***************************************************************************)
LEMMA ModDefinition ==
  ASSUME NEW m \in Nat \ {0}, NEW a \in Int
  PROVE  a % m \in 0..(m-1) /\ a \div m \in Int /\ a = m * (a \div m) + (a % m)
  OBVIOUS

LEMMA ModUnique ==
  ASSUME NEW m \in Nat \ {0}, NEW t \in Int, NEW u \in 0..(m-1)
  PROVE  (m * t + u) % m = u
  OBVIOUS

LEMMA ModAdd ==
  ASSUME NEW m \in Nat \ {0}, NEW a \in Int, NEW n \in Int
  PROVE  ((a % m) + n) % m = (a + n) % m
  <1>1. PICK t \in Int, u \in 0..(m-1) : a = m * t + u /\ a % m = u
    BY ModDefinition
  <1> DEFINE s == u + n
  <1>2. s \in Int
    OBVIOUS
  <1> HIDE DEF s
  <1>3. PICK v \in Int, w \in 0..(m-1) : s = m * v + w /\ s % m = w
    BY <1>2, ModDefinition
  <1>4. a + n = m * (t + v) + w
    BY <1>1, <1>3 DEF s
  <1>5. (m * (t + v) + w) % m = w
    BY ModUnique
  <1> QED
    BY <1>1, <1>3, <1>4, <1>5 DEF s

\* The numbers of bytes.
Stamp == 0..(Stamps - 1)

\* q is a run of consecutive bytes that ends just before the byte next.
Run(q, next) == \A i \in 1..Len(q) : (q[i] + Len(q) - i + 1) % Stamps = next

\* A master whose bytes are in order, and fit into the kernel's buffer.
Ordered(r) ==
  /\ r \in IoType
  /\ Len(r.kbuf) <= Cap
  /\ Run(r.kbuf \o r.ring, r.next)

LEMMA Stamps0 == Stamps \in Nat \ {0} /\ Cap \in Nat \ {0} /\ Steps \in Nat \ {0}
  BY PtyAssumption

LEMMA ModStamp ==
  ASSUME NEW a \in Int
  PROVE  a % Stamps \in Stamp
  BY Stamps0, ModDefinition DEF Stamp

LEMMA RunSuffix ==
  ASSUME NEW a \in Seq(Stamp), NEW b \in Seq(Stamp), NEW next \in Stamp, Run(a \o b, next)
  PROVE  Run(b, next)
  <1> SUFFICES ASSUME NEW i \in 1..Len(b)
               PROVE  (b[i] + Len(b) - i + 1) % Stamps = next
    BY DEF Run
  <1> DEFINE q == a \o b
             k == Len(a) + i
  <1>1. /\ Len(q) = Len(a) + Len(b) /\ Len(a) \in Nat /\ Len(b) \in Nat
        /\ k \in 1..Len(q) /\ q[k] = b[i] /\ b[i] \in Int
    BY ConcatProperties, Stamps0 DEF Stamp
  <1>2. (q[k] + Len(q) - k + 1) % Stamps = next
    BY <1>1 DEF Run
  <1>3. q[k] + Len(q) - k + 1 = b[i] + Len(b) - i + 1
    BY <1>1
  <1> QED
    BY <1>2, <1>3

LEMMA BytesType ==
  ASSUME NEW r \in IoType, NEW n \in Nat
  PROVE  /\ Bytes(r, n) \in Seq(Stamp) /\ Len(Bytes(r, n)) = n
         /\ \A i \in 1..n : Bytes(r, n)[i] = (r.next + i - 1) % Stamps
         /\ (r.next + n) % Stamps \in Stamp
  <1>1. r.next \in Nat
    BY Stamps0 DEF IoType
  <1>2. ASSUME NEW i \in 1..n PROVE (r.next + i - 1) % Stamps \in Stamp
    <2>1. r.next + i - 1 \in Int
      BY <1>1
    <2> QED
      BY <2>1, ModStamp
  <1>3. (r.next + n) % Stamps \in Stamp
    BY <1>1, ModStamp
  <1> QED
    BY <1>2, <1>3 DEF Bytes

LEMMA RunAppend ==
  ASSUME NEW r \in IoType, NEW n \in Nat, NEW q \in Seq(Stamp), Run(q, r.next)
  PROVE  Run(q \o Bytes(r, n), (r.next + n) % Stamps)
  <1> DEFINE b == Bytes(r, n)
             p == q \o b
  <1> SUFFICES ASSUME NEW i \in 1..Len(p)
               PROVE  (p[i] + Len(p) - i + 1) % Stamps = (r.next + n) % Stamps
    BY DEF Run
  <1>1. /\ b \in Seq(Stamp) /\ Len(b) = n
        /\ \A j \in 1..n : b[j] = (r.next + j - 1) % Stamps
    BY BytesType
  <1> HIDE DEF b
  <1>2. /\ Len(p) = Len(q) + n /\ Len(q) \in Nat
        /\ p[i] = IF i <= Len(q) THEN q[i] ELSE b[i - Len(q)]
    <2>1. /\ Len(q \o b) = Len(q) + Len(b)
          /\ \A k \in 1..(Len(q) + Len(b)) :
               (q \o b)[k] = IF k <= Len(q) THEN q[k] ELSE b[k - Len(q)]
      BY <1>1, ConcatProperties
    <2> QED
      BY <1>1, <2>1
  <1> HIDE DEF p
  <1>3. r.next \in Int
    BY Stamps0 DEF IoType
  <1>4. CASE i <= Len(q)
    <2> DEFINE a == q[i] + Len(q) - i + 1
    <2>1. q[i] \in Int
      BY <1>2, <1>4, Stamps0 DEF Stamp
    <2>2. a \in Int /\ p[i] + Len(p) - i + 1 = a + n
      BY <1>2, <1>4, <2>1
    <2>3. a % Stamps = r.next
      BY <1>2, <1>4 DEF Run
    <2> HIDE DEF a
    <2>4. ((a % Stamps) + n) % Stamps = (a + n) % Stamps
      <3>1. a \in Int /\ n \in Int /\ Stamps \in Nat \ {0}
        BY <2>2, Stamps0
      <3> QED
        BY <3>1, ModAdd, Zenon
    <2> QED
      BY <2>2, <2>3, <2>4
  <1>5. CASE i > Len(q)
    <2> DEFINE j == i - Len(q)
               a == r.next + j - 1
               d == n - j + 1
    <2>1. j \in 1..n /\ p[i] = a % Stamps
      BY <1>1, <1>2, <1>5
    <2>2. a \in Int /\ d \in Int /\ a + d = r.next + n /\ Len(p) - i + 1 = d
      BY <1>2, <1>3, <2>1
    <2>3. a % Stamps \in Int
      BY <2>2, Stamps0, ModDefinition
    <2> HIDE DEF a, d, j
    <2>4. p[i] + Len(p) - i + 1 = (a % Stamps) + d
      BY <1>2, <2>1, <2>2, <2>3
    <2> QED
      BY <2>2, <2>4, Stamps0, ModAdd
  <1> QED
    BY <1>2, <1>4, <1>5

LEMMA MinTwo ==
  ASSUME NEW a \in Nat, NEW b \in Nat
  PROVE  Min({a, b}) = IF a <= b THEN a ELSE b
  BY DEF Min

\* write(2): a first part of the bytes follows the kernel's buffer, all of
\* them or as many as there is room for.
LEMMA WrittenBytes ==
  ASSUME NEW r \in IoType, Len(r.kbuf) <= Cap, NEW b \in Seq(Stamp)
  PROVE  \E m \in 0..Len(b) :
           /\ m = IF Len(b) <= Space(r) THEN Len(b) ELSE Space(r)
           /\ SubSeq(b, 1, m) \in Seq(Stamp) /\ SubSeq(b, m + 1, Len(b)) \in Seq(Stamp)
           /\ SubSeq(b, 1, m) \o SubSeq(b, m + 1, Len(b)) = b
           /\ Written(r, b) = [r EXCEPT !.kbuf = r.kbuf \o SubSeq(b, 1, m)]
           /\ Written(r, b) \in IoType
           /\ Len(Written(r, b).kbuf) <= Cap
  <1> DEFINE m == IF Len(b) <= Space(r) THEN Len(b) ELSE Space(r)
             w == Written(r, b)
  <1>1. r.kbuf \in Seq(Stamp) /\ Len(r.kbuf) \in Nat /\ Len(b) \in Nat
    BY DEF IoType, Stamp
  <1>2. Space(r) \in Nat /\ Len(r.kbuf) + Space(r) = Cap
    BY <1>1, Stamps0 DEF Space
  <1>3. m \in 0..Len(b) /\ m <= Space(r) /\ m = Min({Len(b), Space(r)})
    BY <1>1, <1>2, MinTwo
  <1>4. w = [r EXCEPT !.kbuf = r.kbuf \o SubSeq(b, 1, m)]
    BY <1>3 DEF Written, IoType
  <1> HIDE DEF m, w
  <1>5. /\ SubSeq(b, 1, m) \in Seq(Stamp) /\ SubSeq(b, m + 1, Len(b)) \in Seq(Stamp)
        /\ Len(SubSeq(b, 1, m)) = m
    <2>1. m \in Nat /\ m <= Len(b) /\ Len(b) \in Nat
      BY <1>1, <1>3
    <2>2. \A i \in 1..Len(b) : b[i] \in Stamp
      BY ElementOfSeq
    <2>3. \A i \in 1..m : b[i] \in Stamp
      BY <2>1, <2>2
    <2>4. \A i \in (m + 1)..Len(b) : b[i] \in Stamp
      BY <2>1, <2>2
    <2>5. SubSeq(b, 1, m) \in Seq(Stamp) /\ Len(SubSeq(b, 1, m)) = m
      BY <2>1, <2>3, SubSeqProperties
    <2>6. SubSeq(b, m + 1, Len(b)) \in Seq(Stamp)
      BY <2>1, <2>4, SubSeqProperties
    <2> QED
      BY <2>5, <2>6
  <1>6. SubSeq(b, 1, m) \o SubSeq(b, m + 1, Len(b)) = b
    <2>1. SubSeq(b, 1, m) \o SubSeq(b, m + 1, Len(b)) = SubSeq(b, 1, Len(b))
      <3>1. 1 \in 1..(Len(b) + 1) /\ m \in (1 - 1)..Len(b) /\ Len(b) \in m..Len(b)
        BY <1>1, <1>3
      <3> QED
        BY <3>1, ConcatAdjacentSubSeq
    <2> QED
      BY <2>1, SubSeqFull
  <1>7. /\ r.kbuf \o SubSeq(b, 1, m) \in Seq(Stamp)
        /\ Len(r.kbuf \o SubSeq(b, 1, m)) = Len(r.kbuf) + m
    BY <1>1, <1>5, ConcatProperties
  <1>8. w \in IoType /\ w.kbuf = r.kbuf \o SubSeq(b, 1, m)
    BY <1>4, <1>7 DEF IoType, Stamp
  <1>9. Len(w.kbuf) <= Cap
    BY <1>1, <1>2, <1>3, <1>7, <1>8, Stamps0
  <1> QED
    BY <1>3, <1>4, <1>5, <1>6, <1>8, <1>9 DEF m, w

LEMMA Concat3 == \A s, t, u \in Seq(Stamp) : (s \o t) \o u = s \o (t \o u)
  BY ConcatAssociative

LEMMA UpdateFields ==
  ASSUME NEW r \in IoType, NEW armed \in BOOLEAN
  PROVE  /\ Update(r, armed) \in IoType
         /\ Update(r, armed).kbuf = r.kbuf /\ Update(r, armed).ring = r.ring
         /\ Update(r, armed).next = r.next /\ Update(r, armed).out = r.out
  BY DEF Update, IoType

LEMMA SameBytes ==
  ASSUME NEW r, Ordered(r), NEW u \in IoType,
         u.kbuf = r.kbuf, u.ring = r.ring, u.next = r.next
  PROVE  Ordered(u)
  BY DEF Ordered

LEMMA UpdateOrdered ==
  ASSUME NEW r, Ordered(r), NEW armed \in BOOLEAN
  PROVE  Ordered(Update(r, armed)) /\ Update(r, armed).out = r.out
  BY UpdateFields, SameBytes DEF Ordered

\* kmscon_pty_write: what the kernel does not take goes to the ring, and so
\* does everything while the ring is not empty.
LEMMA PtyWriteOrdered ==
  ASSUME NEW r, Ordered(r), NEW n \in Nat
  PROVE  Ordered(PtyWrite(r, n)) /\ PtyWrite(r, n).out = r.out
  <1> DEFINE b == Bytes(r, n)
             next == (r.next + n) % Stamps
             q == r.kbuf \o r.ring
  <1>1. /\ r \in IoType /\ Len(r.kbuf) <= Cap /\ r.kbuf \in Seq(Stamp) /\ r.ring \in Seq(Stamp)
        /\ r.next \in Stamp
    BY DEF Ordered, IoType, Stamp
  <1>2. b \in Seq(Stamp) /\ Len(b) = n /\ next \in Stamp
    BY <1>1, BytesType
  <1>3. Run(q \o b, next)
    BY <1>1, ConcatProperties, RunAppend DEF Ordered
  <1>4. q \o b = r.kbuf \o (r.ring \o b)
    BY <1>1, <1>2, Concat3, Zenon
  <1> HIDE DEF b, next, q
  <1>5. CASE r.ring # <<>>
    <2> DEFINE w == [r EXCEPT !.ring = @ \o b, !.next = next]
    <2>1. r.ring \o b \in Seq(Stamp)
      BY <1>1, <1>2, ConcatProperties
    <2>2. /\ w \in IoType /\ w.kbuf = r.kbuf /\ w.ring = r.ring \o b
          /\ w.next = next /\ w.out = r.out
      BY <1>1, <1>2, <2>1 DEF IoType, Stamp
    <2>3. PtyWrite(r, n) = w
      BY <1>1, <1>5 DEF PtyWrite, b, next, IoType
    <2> HIDE DEF w
    <2> QED
      BY <1>1, <1>3, <1>4, <2>2, <2>3 DEF Ordered
  <1>6. CASE r.ring = <<>>
    <2>1. PICK m \in 0..Len(b) :
            /\ m = IF Len(b) <= Space(r) THEN Len(b) ELSE Space(r)
            /\ SubSeq(b, 1, m) \in Seq(Stamp) /\ SubSeq(b, m + 1, Len(b)) \in Seq(Stamp)
            /\ SubSeq(b, 1, m) \o SubSeq(b, m + 1, Len(b)) = b
            /\ Written(r, b) = [r EXCEPT !.kbuf = r.kbuf \o SubSeq(b, 1, m)]
            /\ Written(r, b) \in IoType
            /\ Len(Written(r, b).kbuf) <= Cap
      BY <1>1, <1>2, WrittenBytes
    <2> DEFINE w == [Written(r, b) EXCEPT !.next = next]
               x == SubSeq(b, 1, m)
               y == SubSeq(b, m + 1, Len(b))
    <2>2. /\ w \in IoType /\ w.kbuf = r.kbuf \o x /\ w.ring = <<>> /\ w.next = next
          /\ w.out = r.out /\ Len(w.kbuf) <= Cap
      BY <1>1, <1>2, <1>6, <2>1 DEF IoType, Stamp
    <2>3. q \o b = (r.kbuf \o x) \o y
      <3>1. q = r.kbuf
        BY <1>1, <1>6, ConcatEmptySeq DEF q
      <3>2. r.kbuf \o (x \o y) = (r.kbuf \o x) \o y
        <4>1. x \in Seq(Stamp) /\ y \in Seq(Stamp)
          BY <2>1
        <4> HIDE DEF x, y
        <4> QED
          BY <1>1, <4>1, Concat3
      <3> QED
        BY <2>1, <3>1, <3>2
    <2>4. r.kbuf \o x \in Seq(Stamp)
      BY <1>1, <2>1, ConcatProperties
    <2>5. PtyWrite(r, n) = PtyWriteDirect(r, n)
      BY <1>6 DEF PtyWrite
    <2>6. CASE n <= Space(r)
      <3>1. PtyWriteDirect(r, n) = w
        BY <1>1, <2>1, <2>6 DEF PtyWriteDirect, b, next, IoType
      <3>2. y = <<>>
        BY <1>2, <2>1, <2>6, SubSeqEmpty
      <3> HIDE DEF w, x, y
      <3>3. Run(w.kbuf \o w.ring, w.next)
        BY <1>3, <2>2, <2>3, <3>2
      <3> QED
        BY <2>2, <2>5, <3>1, <3>3 DEF Ordered
    <2>7. CASE ~(n <= Space(r))
      <3> DEFINE u == Update(w, TRUE)
                 v == [u EXCEPT !.ring = @ \o y]
      <3>1. m = Space(r)
        BY <1>2, <2>1, <2>7
      <3>2. PtyWriteDirect(r, n) = v
        <4>1. y = SubSeq(b, Space(r) + 1, n)
          BY <1>2, <3>1
        <4>2. ~(n <= Space(r)) => PtyWriteDirect(r, n) =
                [Update([Written(r, b) EXCEPT !.next = (@ + n) % Stamps], TRUE)
                   EXCEPT !.ring = @ \o SubSeq(b, Space(r) + 1, n)]
          BY DEF PtyWriteDirect, b
        <4>3. [Written(r, b) EXCEPT !.next = (@ + n) % Stamps] = w
          BY <1>1, <2>1 DEF next, IoType
        <4> HIDE DEF y, w
        <4> QED
          BY <2>7, <4>1, <4>2, <4>3
      <3>3. /\ u \in IoType /\ u.kbuf = w.kbuf /\ u.ring = <<>> /\ u.next = w.next
            /\ u.out = w.out
        BY <2>2, UpdateFields
      <3> HIDE DEF w, u
      <3>4. <<>> \o y = y /\ y \in Seq(Stamp)
        BY <2>1, ConcatEmptySeq
      <3> HIDE DEF x, y
      <3>5. /\ v \in IoType /\ v.kbuf = w.kbuf /\ v.ring = y /\ v.next = w.next /\ v.out = w.out
        BY <3>3, <3>4 DEF IoType, Stamp
      <3> HIDE DEF v
      <3>6. Run(v.kbuf \o v.ring, v.next)
        BY <1>3, <2>2, <2>3, <3>5
      <3> QED
        BY <2>2, <2>5, <3>2, <3>5, <3>6 DEF Ordered
    <2> QED
      BY <2>6, <2>7
  <1> QED
    BY <1>5, <1>6

\* send_buf moves a first part of the ring to the kernel.
LEMMA SendBufOrdered ==
  ASSUME NEW r, Ordered(r)
  PROVE  Ordered(SendBuf(r)) /\ SendBuf(r).out = r.out
  <1> DEFINE b == r.ring
             w == [Written(r, b) EXCEPT !.ring = SubSeq(@, Space(r) + 1, Len(@))]
  <1>1. /\ r \in IoType /\ Len(r.kbuf) <= Cap /\ r.kbuf \in Seq(Stamp) /\ b \in Seq(Stamp)
        /\ r.next \in Stamp
    BY DEF Ordered, IoType, Stamp
  <1>2. PICK m \in 0..Len(b) :
          /\ m = IF Len(b) <= Space(r) THEN Len(b) ELSE Space(r)
          /\ SubSeq(b, 1, m) \in Seq(Stamp) /\ SubSeq(b, m + 1, Len(b)) \in Seq(Stamp)
          /\ SubSeq(b, 1, m) \o SubSeq(b, m + 1, Len(b)) = b
          /\ Written(r, b) = [r EXCEPT !.kbuf = r.kbuf \o SubSeq(b, 1, m)]
          /\ Written(r, b) \in IoType
          /\ Len(Written(r, b).kbuf) <= Cap
    BY <1>1, WrittenBytes
  <1> DEFINE x == SubSeq(b, 1, m)
             y == SubSeq(b, m + 1, Len(b))
  <1>3. SubSeq(b, Space(r) + 1, Len(b)) = y
    <2>1. CASE Len(b) <= Space(r)
      <3>1. Len(b) \in Int /\ Space(r) \in Int /\ m = Len(b)
        BY <1>1, <1>2, <2>1, Stamps0 DEF Space
      <3>2. y = <<>> /\ SubSeq(b, Space(r) + 1, Len(b)) = <<>>
        BY <2>1, <3>1, SubSeqEmpty
      <3> QED
        BY <3>2
    <2>2. CASE ~(Len(b) <= Space(r))
      BY <1>2, <2>2
    <2> QED
      BY <2>1, <2>2
  <1>4. Written(r, b).ring = b
    BY <1>1, <1>2 DEF IoType
  <1>5. w = [Written(r, b) EXCEPT !.ring = y]
    BY <1>2, <1>3, <1>4 DEF IoType
  <1>6. /\ w \in IoType /\ w.kbuf = r.kbuf \o x /\ w.ring = y /\ w.next = r.next
        /\ w.out = r.out /\ Len(w.kbuf) <= Cap
    BY <1>1, <1>2, <1>5 DEF IoType, Stamp
  <1>7. (r.kbuf \o x) \o y = r.kbuf \o r.ring
    <2>1. (r.kbuf \o x) \o y = r.kbuf \o (x \o y)
      <3>1. x \in Seq(Stamp) /\ y \in Seq(Stamp)
        BY <1>2
      <3> HIDE DEF x, y
      <3> QED
        BY <1>1, <3>1, Concat3
    <2> QED
      BY <1>2, <2>1
  <1>8. SendBuf(r) = IF w.ring = <<>> THEN Update(w, FALSE) ELSE w
    BY DEF SendBuf
  <1> HIDE DEF w, x, y, b
  <1>9. Ordered(w)
    BY <1>6, <1>7 DEF Ordered
  <1> QED
    BY <1>6, <1>8, <1>9, UpdateOrdered
\* input_cb may write the answer to a query at once.
LEMMA InputCbOrdered ==
  ASSUME NEW r, Ordered(r), r.out # <<>>, NEW chunk
  PROVE  Ordered(InputCb(r, chunk)) /\ Len(InputCb(r, chunk).out) = Len(r.out) - 1
  <1> DEFINE left == [r EXCEPT !.out = Tail(@)]
  <1>1. r \in IoType /\ r.out \in Seq(Chunk)
    BY DEF Ordered, IoType
  <1>2. Tail(r.out) \in Seq(Chunk) /\ Len(Tail(r.out)) = Len(r.out) - 1
    BY <1>1, HeadTailProperties
  <1>3. /\ left \in IoType /\ left.kbuf = r.kbuf /\ left.ring = r.ring
        /\ left.next = r.next /\ left.out = Tail(r.out)
    BY <1>1, <1>2 DEF IoType
  <1>4. InputCb(r, chunk) = IF chunk = "query" THEN PtyWrite(left, 1) ELSE left
    BY DEF InputCb
  <1> HIDE DEF left
  <1>5. Ordered(left)
    BY <1>3, SameBytes
  <1> QED
    BY <1>2, <1>3, <1>4, <1>5, PtyWriteOrdered

LEMMA Least ==
  ASSUME NEW S \in SUBSET Nat, S # {}
  PROVE  \E n \in S : \A m \in S : n <= m
  <1>1. PICK n \in S : \A m \in S : ~(<<m, n>> \in OpToRel(<, Nat))
    BY NatLessThanWellFounded, WFMin
  <1>2. \A m \in S : ~(m < n)
    BY <1>1 DEF OpToRel
  <1> QED
    BY <1>2

\* The loop of read_buf: whatever the slave wrote and in however many
\* portions it is read, each callback leaves the bytes in order.
LEMMA ReadChunksOrdered ==
  ASSUME NEW r, Ordered(r)
  PROVE  Ordered(ReadChunks(r))
  <1> DEFINE n == Min({Len(r.out), Steps})
             Loop(k, f) == f = [i \in 0..k |-> IF i = 0 THEN r ELSE InputCb(f[i - 1], r.out[i])]
             after == CHOOSE f : Loop(n, f)
  <1>1. n \in Nat /\ n <= Len(r.out) /\ Len(r.out) \in Nat
    <2>1. Len(r.out) \in Nat /\ Steps \in Nat
      BY Stamps0 DEF Ordered, IoType
    <2> QED
      BY <2>1, MinTwo
  <1>2. ReadChunks(r) = after[n]
    BY DEF ReadChunks
  <1> HIDE DEF n
  <1>3. \E f : Loop(n, f)
    <2> DEFINE T == {k \in Nat : ~ \E f : Loop(k, f)}
    <2> SUFFICES ASSUME T # {} PROVE FALSE
      BY <1>1
    <2>1. PICK k \in T : \A j \in T : k <= j
      BY Least
    <2>2. Loop(0, [i \in 0..0 |-> r])
      OBVIOUS
    <2>3. k # 0
      BY <2>2
    <2>4. PICK f : Loop(k - 1, f)
      <3>1. k - 1 \in Nat /\ ~(k <= k - 1)
        BY <2>3
      <3>2. k - 1 \notin T
        BY <2>1, <3>1
      <3> QED
        BY <3>1, <3>2
    <2> DEFINE g == [i \in 0..k |-> IF i = k THEN InputCb(f[k - 1], r.out[k]) ELSE f[i]]
    <2>5. Loop(k, g)
      <3>1. k \in Nat \ {0}
        BY <2>3
      <3>2. \A i \in 0..(k - 1) : f[i] = IF i = 0 THEN r ELSE InputCb(f[i - 1], r.out[i])
        BY <2>4
      <3>3. \A i \in 0..k : g[i] = IF i = 0 THEN r ELSE InputCb(g[i - 1], r.out[i])
        BY <3>1, <3>2
      <3> QED
        BY <3>3
    <2> QED
      BY <2>5
  <1>4. Loop(n, after)
    BY <1>3
  <1> HIDE DEF after
  <1>5. \A k \in 0..n : after[k] = IF k = 0 THEN r ELSE InputCb(after[k - 1], r.out[k])
    BY <1>4
  <1> DEFINE Good(k) == Ordered(after[k]) /\ Len(after[k].out) = Len(r.out) - k
  <1>6. \A k \in 0..n : Good(k)
    <2> DEFINE T == {k \in 0..n : ~Good(k)}
    <2> SUFFICES ASSUME T # {} PROVE FALSE
      OBVIOUS
    <2>1. PICK k \in T : \A j \in T : k <= j
      <3>1. T \in SUBSET Nat
        BY <1>1
      <3> HIDE DEF T
      <3> QED
        BY <3>1, Least
    <2>2. Good(0)
      BY <1>1, <1>5
    <2>3. k # 0
      BY <2>2
    <2>4. k - 1 \in 0..n /\ ~(k <= k - 1) /\ k \in 1..n
      BY <1>1, <2>3
    <2>5. Good(k - 1)
      BY <2>1, <2>4
    <2>6. after[k] = InputCb(after[k - 1], r.out[k])
      BY <1>5, <2>3
    <2>7. after[k - 1].out # <<>>
      BY <1>1, <2>4, <2>5
    <2>8. /\ Ordered(after[k])
          /\ Len(after[k].out) = Len(after[k - 1].out) - 1
      BY <2>5, <2>6, <2>7, InputCbOrdered
    <2>9. Good(k)
      BY <1>1, <2>4, <2>5, <2>8
    <2> QED
      BY <2>9
  <1> QED
    BY <1>1, <1>2, <1>6

LEMMA PtyInputOrdered ==
  ASSUME NEW r, Ordered(r)
  PROVE  Ordered(PtyInput(r))
  <1> DEFINE taken == [r EXCEPT !.ready = FALSE]
             sent  == IF r.armed /\ Space(r) > 0 THEN SendBuf(taken) ELSE taken
  <1>1. /\ taken \in IoType /\ taken.kbuf = r.kbuf /\ taken.ring = r.ring
        /\ taken.next = r.next
    BY DEF Ordered, IoType
  <1>2. PtyInput(r) = IF r.out # <<>> THEN ReadBuf(sent) ELSE sent
    BY DEF PtyInput
  <1> HIDE DEF taken
  <1>3. Ordered(taken)
    BY <1>1, SameBytes
  <1>4. Ordered(sent)
    BY <1>3, SendBufOrdered
  <1> HIDE DEF sent
  <1> DEFINE d == ReadChunks(sent)
  <1>5. Ordered(d)
    BY <1>4, ReadChunksOrdered
  <1>6. ReadBuf(sent) = d \/ ReadBuf(sent) = Update(d, d.ring # <<>>)
    BY DEF ReadBuf
  <1> HIDE DEF d
  <1>7. Ordered(Update(d, d.ring # <<>>))
    BY <1>5, UpdateOrdered
  <1> QED
    BY <1>2, <1>4, <1>5, <1>6, <1>7

\* The state of all masters.
AllOrdered == io \in [Session -> IoType] /\ \A s \in Session : Ordered(io[s])

LEMMA OneOrdered ==
  ASSUME AllOrdered, NEW s \in Session, NEW u, Ordered(u), io' = [io EXCEPT ![s] = u]
  PROVE  AllOrdered'
  <1>1. u \in IoType
    BY DEF Ordered
  <1>2. \A t \in Session : io'[t] = IF t = s THEN u ELSE io[t]
    BY DEF AllOrdered
  <1> QED
    BY <1>1, <1>2 DEF AllOrdered

LEMMA SameOrdered == AllOrdered /\ UNCHANGED io => AllOrdered'
  BY DEF AllOrdered

\* A master that is closed or opened keeps the ring, a suffix of the bytes.
LEMMA FreshOrdered ==
  ASSUME AllOrdered, NEW s \in Session, FreshIo(s)
  PROVE  AllOrdered'
  <1> DEFINE r == io[s]
             u == [r EXCEPT !.kbuf = <<>>, !.out = <<>>, !.armed = FALSE, !.ready = FALSE]
  <1>1. /\ r \in IoType /\ r.kbuf \in Seq(Stamp) /\ r.ring \in Seq(Stamp) /\ r.next \in Stamp
        /\ Run(r.kbuf \o r.ring, r.next)
    BY DEF AllOrdered, Ordered, IoType, Stamp
  <1>2. /\ u \in IoType /\ u.kbuf = <<>> /\ u.ring = r.ring /\ u.next = r.next
    <2>1. <<>> \in Seq(0..(Stamps - 1)) /\ <<>> \in Seq(Chunk)
      BY EmptySeq
    <2> QED
      BY <1>1, <2>1 DEF IoType
  <1>3. Run(<<>> \o r.ring, r.next)
    BY <1>1, RunSuffix, ConcatEmptySeq
  <1>4. io' = [io EXCEPT ![s] = u]
    BY DEF FreshIo
  <1> HIDE DEF u
  <1>5. Ordered(u)
    BY <1>2, <1>3, Stamps0 DEF Ordered
  <1> QED
    BY <1>4, <1>5, OneOrdered

LEMMA SigChildOrdered ==
  ASSUME AllOrdered, NEW s \in Session, SigChild(s)
  PROVE  AllOrdered'
  <1>1. FreshIo(s) \/ UNCHANGED io
    BY DEF SigChild, ChildExited, PtyExit, TerminalOpen, TerminalClose, PtyOpen, TermUnchanged
  <1> QED
    BY <1>1, FreshOrdered, SameOrdered

LEMMA TerminalOrdered ==
  ASSUME AllOrdered, NEW s \in Session,
         TerminalActivate(s) \/ TerminalDestroy(s) \/ StatusEvent(s)
  PROVE  AllOrdered'
  <1>1. FreshIo(s) \/ UNCHANGED io
    BY DEF TerminalActivate, TerminalDestroy, StatusEvent, ReconcileConsoleMode,
           TerminalOpen, TerminalClose, PtyOpen, TermUnchanged
  <1> QED
    BY <1>1, FreshOrdered, SameOrdered

\* The programs on the slave read the oldest byte.
LEMMA SlaveReadOrdered ==
  ASSUME AllOrdered, NEW s \in Session, SlaveRead(s)
  PROVE  AllOrdered'
  <1> DEFINE r == io[s]
             u == [r EXCEPT !.kbuf = Tail(@), !.ready = @ \/ r.armed]
             a == SubSeq(r.kbuf, 1, 1)
  <1>1. /\ r \in IoType /\ r.kbuf \in Seq(Stamp) /\ r.ring \in Seq(Stamp) /\ r.next \in Stamp
        /\ Run(r.kbuf \o r.ring, r.next) /\ r.kbuf # <<>> /\ Len(r.kbuf) <= Cap
    BY DEF AllOrdered, Ordered, IoType, Stamp, SlaveRead
  <1>2. /\ Tail(r.kbuf) \in Seq(Stamp) /\ Len(Tail(r.kbuf)) = Len(r.kbuf) - 1
        /\ Tail(r.kbuf) = SubSeq(r.kbuf, 2, Len(r.kbuf)) /\ Len(r.kbuf) \in Nat \ {0}
    BY <1>1, HeadTailProperties, TailIsSubSeq, EmptySeq
  <1>3. a \in Seq(Stamp) /\ a \o Tail(r.kbuf) = r.kbuf
    <2>1. /\ 1 \in 1..(Len(r.kbuf) + 1) /\ 1 \in (1 - 1)..Len(r.kbuf)
          /\ Len(r.kbuf) \in 1..Len(r.kbuf)
      BY <1>2
    <2>2. SubSeq(r.kbuf, 1, 1) \o SubSeq(r.kbuf, 1 + 1, Len(r.kbuf)) = SubSeq(r.kbuf, 1, Len(r.kbuf))
      BY <1>1, <2>1, ConcatAdjacentSubSeq
    <2>3. SubSeq(r.kbuf, 1, Len(r.kbuf)) = r.kbuf
      BY <1>1, SubSeqFull
    <2>4. \A i \in 1..1 : r.kbuf[i] \in Stamp
      BY <1>1, <1>2, ElementOfSeq
    <2>5. a \in Seq(Stamp)
      BY <2>4, SubSeqProperties
    <2> QED
      BY <1>2, <2>2, <2>3, <2>5
  <1>4. Run(Tail(r.kbuf) \o r.ring, r.next)
    <2> DEFINE b == Tail(r.kbuf)
    <2>1. b \in Seq(Stamp) /\ a \o b = r.kbuf /\ a \in Seq(Stamp)
      BY <1>2, <1>3
    <2> HIDE DEF a, b
    <2>2. Run(a \o (b \o r.ring), r.next)
      <3>1. (a \o b) \o r.ring = a \o (b \o r.ring)
        BY <1>1, <2>1, Concat3
      <3> QED
        BY <1>1, <2>1, <3>1
    <2>3. b \o r.ring \in Seq(Stamp)
      BY <1>1, <2>1, ConcatProperties
    <2>4. Run(b \o r.ring, r.next)
      BY <1>1, <2>1, <2>2, <2>3, RunSuffix
    <2> QED
      BY <2>4 DEF b
  <1>5. /\ u \in IoType /\ u.kbuf = Tail(r.kbuf) /\ u.ring = r.ring /\ u.next = r.next
    BY <1>1, <1>2 DEF IoType, Stamp
  <1>6. io' = [io EXCEPT ![s] = u]
    BY <1>1 DEF SlaveRead, AllOrdered, IoType
  <1> HIDE DEF u
  <1>7. Len(u.kbuf) <= Cap
    BY <1>1, <1>2, <1>5, Stamps0
  <1>8. Ordered(u)
    BY <1>4, <1>5, <1>7 DEF Ordered
  <1> QED
    BY <1>6, <1>8, OneOrdered

LEMMA OrderedNext == AllOrdered /\ [Next]_vars => AllOrdered'
  <1> SUFFICES ASSUME AllOrdered, [Next]_vars PROVE AllOrdered'
    OBVIOUS
  <1>1. ASSUME NEW s \in Session, IoEvent(s) PROVE AllOrdered'
    <2>1. Ordered(PtyInput(io[s])) /\ io' = [io EXCEPT ![s] = PtyInput(io[s])]
      BY <1>1, PtyInputOrdered DEF IoEvent, AllOrdered
    <2> QED
      BY <2>1, OneOrdered
  <1>2. ASSUME NEW s \in Session, NEW n \in 1..2, Type(s, n) PROVE AllOrdered'
    <2>1. Ordered(PtyWrite(io[s], n)) /\ io' = [io EXCEPT ![s] = PtyWrite(io[s], n)]
      BY <1>2, PtyWriteOrdered DEF Type, AllOrdered
    <2> QED
      BY <2>1, OneOrdered
  <1>3. ASSUME NEW s \in Session, NEW c \in Chunk, SlaveWrite(s, c) PROVE AllOrdered'
    <2> DEFINE r == io[s]
               u == [r EXCEPT !.out = Append(@, c), !.ready = TRUE]
    <2>1. Ordered(r) /\ r \in IoType
      BY DEF AllOrdered
    <2>2. u \in IoType /\ u.kbuf = r.kbuf /\ u.ring = r.ring /\ u.next = r.next
      <3>1. Append(r.out, c) \in Seq(Chunk)
        BY <2>1 DEF IoType
      <3> QED
        BY <2>1, <3>1 DEF IoType
    <2>3. io' = [io EXCEPT ![s] = u]
      BY <1>3, <2>1 DEF SlaveWrite, AllOrdered, IoType
    <2> HIDE DEF u
    <2> QED
      BY <2>1, <2>2, <2>3, SameBytes, OneOrdered
  <1>4. ASSUME NEW s \in Session, Hangup(s) PROVE AllOrdered'
    <2> DEFINE r == io[s]
               u == [r EXCEPT !.ready = TRUE]
    <2>1. Ordered(r) /\ r \in IoType
      BY DEF AllOrdered
    <2>2. u \in IoType /\ u.kbuf = r.kbuf /\ u.ring = r.ring /\ u.next = r.next
      BY <2>1 DEF IoType
    <2>3. io' = [io EXCEPT ![s] = u]
      BY <1>4, <2>1 DEF Hangup, AllOrdered
    <2> HIDE DEF u
    <2> QED
      BY <2>1, <2>2, <2>3, SameBytes, OneOrdered
  <1>5. ASSUME NEW s \in Session, TerminalNew(s) PROVE AllOrdered'
    <2>1. Ordered(NewIo)
      BY Stamps0 DEF Ordered, NewIo, IoType, Run
    <2>2. io' = [io EXCEPT ![s] = NewIo]
      BY <1>5 DEF TerminalNew
    <2> QED
      BY <2>1, <2>2, OneOrdered
  <1>6. ASSUME NEW s \in Session, TerminalDeactivate(s) PROVE UNCHANGED io
    BY <1>6 DEF TerminalDeactivate
  <1>7. ASSUME NEW p \in Pid, ProcExit(p) PROVE UNCHANGED io
    BY <1>7 DEF ProcExit
  <1>8. ASSUME NEW v, Publish(v) PROVE UNCHANGED io
    BY <1>8 DEF Publish
  <1>9. CASE Tick \/ UNCHANGED vars
    BY <1>9, SameOrdered DEF Tick, vars
  <1> QED
    BY <1>1, <1>2, <1>3, <1>4, <1>5, <1>6, <1>7, <1>8, <1>9, SigChildOrdered,
       TerminalOrdered, SlaveReadOrdered, SameOrdered DEF Next

\* Bytes reach the login in the order they were typed and none is left out,
\* for any number of sessions, a kernel buffer and ring of any size, and
\* whatever short writes, answers from within a read, portions of output and
\* restarts do to them (kmscon_pty_write, send_buf, read_buf, pty_input).
THEOREM InOrderCorrect == Spec => []InOrder
  <1>1. Init => AllOrdered
    <2>1. Ordered(NewIo) /\ NewIo \in IoType
      BY Stamps0 DEF Ordered, NewIo, IoType, Run
    <2> QED
      BY <2>1 DEF Init, AllOrdered
  <1>2. AllOrdered => InOrder
    BY DEF AllOrdered, Ordered, Run, InOrder
  <1> QED
    BY <1>1, <1>2, OrderedNext, PTL DEF Spec

-----------------------------------------------------------------------------
(***************************************************************************)
(*               The host session and its helper (HostLogin)               *)
(***************************************************************************)

(***************************************************************************)
(* Facts about the queue of connections.                                   *)
(***************************************************************************)
Distinct(q) == \A a, b \in DOMAIN q : q[a] = q[b] => a = b

LEMMA RangeAppend ==
  ASSUME NEW q \in Seq(Job), NEW j \in Job
  PROVE  /\ Append(q, j) \in Seq(Job) /\ Range(Append(q, j)) = Range(q) \cup {j}
         /\ Distinct(q) /\ j \notin Range(q) => Distinct(Append(q, j))
  <1>1. /\ Append(q, j) \in Seq(Job) /\ Len(Append(q, j)) = Len(q) + 1
        /\ \A a \in 1..Len(q) : Append(q, j)[a] = q[a]
        /\ Append(q, j)[Len(q) + 1] = j
    OBVIOUS
  <1>2. DOMAIN q = 1..Len(q) /\ DOMAIN Append(q, j) = 1..(Len(q) + 1) /\ Len(q) \in Nat
    BY <1>1
  <1> QED
    BY <1>1, <1>2 DEF Range, Distinct

LEMMA RangeTail ==
  ASSUME NEW q \in Seq(Job), q # << >>
  PROVE  /\ Head(q) \in Job /\ Tail(q) \in Seq(Job)
         /\ Range(q) = {Head(q)} \cup Range(Tail(q))
         /\ Distinct(q) => Distinct(Tail(q)) /\ Head(q) \notin Range(Tail(q))
  <1>1. /\ Head(q) = q[1] /\ Tail(q) \in Seq(Job) /\ Len(Tail(q)) = Len(q) - 1
        /\ \A a \in 1..(Len(q) - 1) : Tail(q)[a] = q[a + 1]
        /\ Len(q) \in Nat \ {0} /\ Head(q) \in Job
    OBVIOUS
  <1>2. DOMAIN q = 1..Len(q) /\ DOMAIN Tail(q) = 1..(Len(q) - 1)
    BY <1>1
  <1>3. \A a \in 2..Len(q) : a - 1 \in 1..(Len(q) - 1) /\ Tail(q)[a - 1] = q[a]
    BY <1>1
  <1>4. Range(q) = {Head(q)} \cup Range(Tail(q))
    <2>1. ASSUME NEW x \in Range(q) PROVE x \in {Head(q)} \cup Range(Tail(q))
      <3>1. PICK a \in 1..Len(q) : x = q[a]
        BY <1>2, <2>1 DEF Range
      <3>2. CASE a = 1
        BY <1>1, <3>1, <3>2
      <3>3. CASE a # 1
        <4>1. a \in 2..Len(q)
          BY <1>1, <3>1, <3>3
        <4> QED
          BY <1>2, <1>3, <3>1, <4>1 DEF Range
      <3> QED
        BY <3>2, <3>3
    <2>2. ASSUME NEW x \in Range(Tail(q)) PROVE x \in Range(q)
      <3>1. PICK a \in 1..(Len(q) - 1) : x = q[a + 1]
        BY <1>1, <1>2, <2>2 DEF Range
      <3>2. a + 1 \in 1..Len(q)
        BY <1>1
      <3> QED
        BY <1>2, <3>1, <3>2 DEF Range
    <2>3. Head(q) \in Range(q)
      BY <1>1, <1>2 DEF Range
    <2> QED
      BY <2>1, <2>2, <2>3
  <1>5. ASSUME Distinct(q) PROVE Distinct(Tail(q)) /\ Head(q) \notin Range(Tail(q))
    <2>1. \A a \in 1..(Len(q) - 1) : a + 1 \in 1..Len(q) /\ a + 1 # 1 /\ 1 \in 1..Len(q)
      BY <1>1
    <2>2. Head(q) \notin Range(Tail(q))
      BY <1>1, <1>2, <1>5, <2>1 DEF Range, Distinct
    <2>3. Distinct(Tail(q))
      <3> SUFFICES ASSUME NEW a \in 1..(Len(q) - 1), NEW b \in 1..(Len(q) - 1),
                          Tail(q)[a] = Tail(q)[b]
                   PROVE  a = b
        BY <1>2 DEF Distinct
      <3>1. q[a + 1] = q[b + 1] /\ a + 1 \in 1..Len(q) /\ b + 1 \in 1..Len(q)
        BY <1>1, <2>1
      <3>2. a + 1 = b + 1
        BY <1>2, <1>5, <3>1 DEF Distinct
      <3> QED
        BY <1>1, <3>2
    <2> QED
      BY <2>2, <2>3
  <1> QED
    BY <1>1, <1>4, <1>5

-----------------------------------------------------------------------------
(***************************************************************************)
(* The invariant: the helper knows of exactly the children that wait, and  *)
(* of each of them once.                                                   *)
(***************************************************************************)
HostInv ==
  /\ HostLoginTypeOK
  /\ Distinct(queue) /\ serving \notin Queued
  /\ \A j \in Job : client[j] = "waits" <=> j \in Queued \cup {serving}

LEMMA EmptyQueue == << >> \in Seq(Job) /\ Distinct(<< >>) /\ Range(<< >>) = {} /\ Len(<< >>) = 0
  BY DEF Distinct, Range

LEMMA HostInit == HostLoginInit => HostInv
  BY HostLoginAssumption, EmptyQueue
     DEF HostLoginInit, HostInv, HostLoginTypeOK, Queued

LEMMA QueuedJobs == HostInv => NoJob \notin Queued
  <1> SUFFICES ASSUME HostInv, NEW a \in DOMAIN queue PROVE queue[a] # NoJob
    BY DEF Queued, Range
  <1>1. queue[a] \in Job
    BY DEF HostInv, HostLoginTypeOK
  <1> QED
    BY <1>1, HostLoginAssumption

LEMMA HostNext == HostInv /\ [HostLoginNext]_hostLoginVars => HostInv'
  <1> SUFFICES ASSUME HostInv, [HostLoginNext]_hostLoginVars PROVE HostInv'
    OBVIOUS
  <1>0. NoJob \notin Queued
    BY QueuedJobs
  <1> USE HostLoginAssumption DEF HostInv, HostLoginTypeOK
  <1>1. ASSUME NEW t \in Terminal, Open(t) PROVE HostInv'
    BY <1>1 DEF Open, Unused, Opened, Inherited, helperVars, Queued
  <1>2. ASSUME NEW t \in Terminal, Close(t) PROVE HostInv'
    BY <1>2 DEF Close, clientVars, helperVars, Queued
  <1>3. ASSUME NEW j \in Job, Connect(j) PROVE HostInv'
    <2>1. CASE /\ listening /\ Len(queue) <= Backlog
               /\ queue' = Append(queue, j)
               /\ client' = [client EXCEPT ![j] = "waits"]
               /\ UNCHANGED masters
      <3>1. j \notin Queued /\ serving # j
        BY <1>3 DEF Connect
      <3>2. queue' \in Seq(Job) /\ Queued' = Queued \cup {j} /\ Distinct(queue)'
        BY <2>1, <3>1, RangeAppend DEF Queued, Distinct
      <3>3. Len(queue') <= Backlog + 1
        BY <2>1
      <3> QED
        BY <1>3, <2>1, <3>1, <3>2, <3>3 DEF Connect
    <2>2. CASE ~listening /\ Exit({j}) /\ UNCHANGED queue
      BY <1>3, <2>2 DEF Connect, Exit, Queued
    <2> QED
      BY <1>3, <2>1, <2>2 DEF Connect
  <1>4. ASSUME NEW j \in Job, Reap(j) PROVE HostInv'
    BY <1>4 DEF Reap, helperVars, Queued
  <1>5. ASSUME NEW j \in Job, serving = j, Answer(j) PROVE HostInv'
    BY <1>0, <1>5 DEF Answer, Exit, Queued, Distinct
  <1>6. ASSUME NEW j \in Job, Refuse(j) \/ Reply(j) PROVE HostInv'
    BY <1>5, <1>6 DEF Refuse, Serve, Reply
  <1>7. ASSUME NEW j \in Job, RunLogin(j) \/ ClaimTerminal(j) \/ LoginEnds(j) PROVE HostInv'
    BY <1>7 DEF RunLogin, ClaimTerminal, LoginEnds, Serve, clientVars, helperVars, Queued
  <1>8. CASE Accept
    <2>1. /\ serving = NoJob /\ queue # << >> /\ serving' = Head(queue) /\ queue' = Tail(queue)
      BY <1>8 DEF Accept
    <2>2. /\ serving' \in Job /\ queue' \in Seq(Job) /\ Queued = {serving'} \cup Queued'
          /\ Distinct(queue)' /\ serving' \notin Queued'
      BY <2>1, RangeTail DEF Queued, Distinct
    <2>3. Len(queue') <= Backlog + 1
      BY <2>1
    <2> QED
      BY <1>8, <2>1, <2>2, <2>3 DEF Accept, clientVars
  <1>9. CASE Crash
    <2>1. CASE SocketActivated
      BY <1>0, <1>9, <2>1 DEF Crash, Exit, Queued, Distinct
    <2>2. CASE ~SocketActivated
      <3>1. queue' = << >> /\ Queued' = {} /\ Distinct(queue)' /\ queue' \in Seq(Job)
            /\ Len(queue') <= Backlog + 1
        BY <1>9, <2>2, EmptyQueue DEF Crash, Queued, Distinct
      <3> QED
        BY <1>9, <2>2, <3>1 DEF Crash, Exit
    <2> QED
      BY <2>1, <2>2
  <1>10. CASE HelperStarts
    BY <1>10 DEF HelperStarts, clientVars, Queued
  <1>11. CASE UNCHANGED hostLoginVars
    BY <1>11 DEF hostLoginVars, clientVars, helperVars, Queued, Distinct
  <1> QED
    BY <1>1, <1>2, <1>3, <1>4, <1>6, <1>7, <1>8, <1>9, <1>10, <1>11 DEF HostLoginNext

\* Every child that waits is in the queue or being served, so that nothing waits
\* for a helper that does not know of it (the connections a helper loses are
\* closed).
THEOREM WaitsForHelperCorrect == HostLoginSpec => []WaitsForHelper
  <1>1. HostInv => WaitsForHelper
    BY DEF HostInv, WaitsForHelper
  <1> QED
    BY <1>1, HostInit, HostNext, PTL DEF HostLoginSpec

-----------------------------------------------------------------------------
(***************************************************************************)
(* Who keeps whose master.  Only a fork makes a child keep one, and it     *)
(* does not keep its own, which no one has kept before.                    *)
(***************************************************************************)
LEMMA FewerKeepers ==
  ASSUME KeptOneWay, \A j \in Job : Keepers(j)' \subseteq Keepers(j)
  PROVE  KeptOneWay'
  BY DEF KeptOneWay

LEMMA OpenKeepers ==
  ASSUME HostLoginTypeOK, KeptOneWay, NEW t \in Terminal, Open(t)
  PROVE  KeptOneWay'
  <1>1. PICK j \in Job : /\ Unused(j)
                         /\ client' = [client EXCEPT ![j] = "starts"]
                         /\ masters' = [masters EXCEPT ![j] = Inherited(j)]
    BY DEF Open
  <1>2. Keepers(j) = {} /\ client[j] = "none"
    BY <1>1 DEF Unused, Hung
  <1>3. Keepers(j)' = {}
    BY <1>1, <1>2 DEF Keepers, Inherited, HostLoginTypeOK
  <1>4. \A k \in Job : Keepers(k)' \subseteq Keepers(k) \cup {j}
    BY <1>1 DEF Keepers, HostLoginTypeOK
  <1> QED
    BY <1>3, <1>4 DEF KeptOneWay

LEMMA KeepersNext ==
  HostLoginTypeOK /\ KeptOneWay /\ [HostLoginNext]_hostLoginVars => KeptOneWay'
  <1> SUFFICES ASSUME HostLoginTypeOK, KeptOneWay, [HostLoginNext]_hostLoginVars
               PROVE  KeptOneWay'
    OBVIOUS
  <1>1. ASSUME client' = client, masters' = masters PROVE KeptOneWay'
    BY <1>1, FewerKeepers DEF Keepers
  <1>2. ASSUME NEW js, Exit(js) PROVE KeptOneWay'
    BY <1>2, FewerKeepers DEF Keepers, Exit
  <1>3. ASSUME NEW j \in Job, Connect(j) PROVE KeptOneWay'
    <2>1. CASE client' = [client EXCEPT ![j] = "waits"] /\ UNCHANGED masters
      BY <1>3, <2>1, FewerKeepers DEF Connect, Keepers, HostLoginTypeOK
    <2> QED
      BY <1>2, <1>3, <2>1 DEF Connect
  <1>4. ASSUME NEW j \in Job, Reap(j) PROVE KeptOneWay'
    BY <1>4, FewerKeepers DEF Reap, Keepers, HostLoginTypeOK
  <1>5. ASSUME NEW j \in Job, Refuse(j) \/ Reply(j) PROVE KeptOneWay'
    BY <1>2, <1>5 DEF Refuse, Reply, Answer
  <1>6. ASSUME NEW j \in Job, RunLogin(j) \/ ClaimTerminal(j) \/ LoginEnds(j) PROVE KeptOneWay'
    BY <1>1, <1>6 DEF RunLogin, ClaimTerminal, LoginEnds, clientVars
  <1>7. CASE Crash
    BY <1>2, <1>7 DEF Crash
  <1>8. CASE Accept \/ HelperStarts \/ \E t \in Terminal : Close(t)
    BY <1>1, <1>8 DEF Accept, HelperStarts, Close, clientVars
  <1>9. CASE UNCHANGED hostLoginVars
    BY <1>1, <1>9 DEF hostLoginVars, clientVars
  <1> QED
    BY <1>3, <1>4, <1>5, <1>6, <1>7, <1>8, <1>9, OpenKeepers DEF HostLoginNext

\* No child keeps its own terminal open, and no two keep each other's, whatever
\* terminals were open at each fork (setup_child).
THEOREM KeptOneWayCorrect == HostLoginSpec => []KeptOneWay
  <1>1. HostLoginInit => KeptOneWay
    BY DEF HostLoginInit, KeptOneWay, Keepers
  <1>2. HostInv => HostLoginTypeOK
    BY DEF HostInv
  <1> QED
    BY <1>1, <1>2, HostInit, HostNext, KeepersNext, PTL DEF HostLoginSpec
===============================================================================
