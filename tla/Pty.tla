-------------------------------- MODULE Pty --------------------------------
(***************************************************************************)
(* The logins of the terminals: the PTY of each session (misc/pty.c), the  *)
(* part of terminal.c that opens and closes it, the console lock, and the  *)
(* event loops' way to learn that a child has exited (shl/eloop.c).        *)
(*                                                                         *)
(* Every PTY has an event loop of its own, with a signalfd for SIGCHLD     *)
(* while the PTY is open.  There is one pending SIGCHLD per process, so    *)
(* whichever loop is served first takes it, and reaps every child that has *)
(* exited.  The master of the PTY is watched edge-triggered: an event that *)
(* was delivered comes again only if something changes or the mask is set  *)
(* anew.                                                                   *)
(*                                                                         *)
(* External: processes, the kernel's PTY buffer and epoll, and the agent   *)
(* that publishes the lock.                                                *)
(***************************************************************************)
EXTENDS Naturals, Sequences, FiniteSets, FiniteSetsExt

CONSTANTS
  Session,        \* the sessions, each with a terminal and its PTY
  Pid, NoPid,     \* process ids
  Oneshot,        \* conf: oneshot
  MaxRetryTime,   \* MAX_RETRY_TIME
  MaxRetryCount,  \* MAX_RETRY_COUNT
  Steps,          \* the reads of read_buf before it gives way
  Cap,            \* bytes the kernel holds for the slave
  Stamps,         \* bytes are numbered modulo Stamps, to see their order
  MaxBacklog,     \* bound: bytes in the ring and output not read yet
  MaxFaults       \* bound: how often fork may fail

ASSUME PtyAssumption ==
  /\ NoPid \notin Pid
  /\ Oneshot \in BOOLEAN
  /\ MaxRetryTime \in Nat /\ MaxRetryCount \in Nat
  /\ Steps \in Nat \ {0} /\ Cap \in Nat \ {0}
  /\ MaxBacklog \in Nat /\ MaxFaults \in Nat
  /\ Stamps \in Nat /\ Stamps > Cap + MaxBacklog

VARIABLES
  sess,           \* the sessions whose terminal exists
  awake,          \* kmscon_terminal.awake
  opened,         \* kmscon_terminal.opened, which is also pty_is_open
  seen,           \* the terminals that know the console as locked
  feed,           \* kmscon_terminal.events_feed_active
  child,          \* kmscon_pty.child
  retry,          \* kmscon_pty.retry_count
  age,            \* seconds since last_spawn_time, at most MaxRetryTime
  io,             \* the master: see IoType
  published,      \* what the events source says of the console
  running,        \* processes that run
  zombie,         \* processes that have exited and are not reaped
  sigchld,        \* SIGCHLD is pending
  exiting,        \* ev_eloop_exit of the main loop
  faults          \* forks that failed

termVars == <<sess, awake, seen, feed>>
ptyVars  == <<opened, child>>
timeVars == <<retry, age>>
procVars == <<running, zombie, sigchld>>
envVars  == <<published, exiting, faults>>
vars == <<termVars, ptyVars, timeVars, io, procVars, envVars>>

\* A chunk of output is text, or a query that the terminal answers.
Chunk == {"text", "query"}

(***************************************************************************)
(* kbuf: the bytes the kernel holds for the slave; ring: kmscon_pty.msgbuf;*)
(* next: the number of the next byte; armed: EV_WRITEABLE is in the mask;  *)
(* ready: epoll has an event to deliver; out: output not read yet.         *)
(***************************************************************************)
IoType == [kbuf : Seq(0..(Stamps - 1)), ring : Seq(0..(Stamps - 1)),
           next : 0..(Stamps - 1), armed : BOOLEAN, ready : BOOLEAN,
           out : Seq(Chunk)]

NewIo == [kbuf |-> <<>>, ring |-> <<>>, next |-> 0,
          armed |-> FALSE, ready |-> FALSE, out |-> <<>>]

TypeOK ==
  /\ awake \subseteq sess /\ opened \subseteq sess
  /\ seen \subseteq sess /\ feed \subseteq sess /\ sess \subseteq Session
  /\ child \in [Session -> Pid \cup {NoPid}]
  /\ \A s \in opened : child[s] # NoPid
  /\ retry \in [Session -> 0..MaxRetryCount]
  /\ age \in [Session -> 0..MaxRetryTime]
  /\ io \in [Session -> IoType]
  /\ \A s \in Session : Len(io[s].kbuf) <= Cap
  /\ published \in {"locked", "unlocked", "hidden"}
  /\ running \subseteq Pid /\ zombie \subseteq Pid /\ running \cap zombie = {}
  /\ sigchld \in BOOLEAN /\ exiting \in BOOLEAN /\ faults \in 0..MaxFaults

-----------------------------------------------------------------------------
(***************************************************************************)
(* Reading and writing the master: functions of the record io[s].          *)
(***************************************************************************)

Space(r) == Cap - Len(r.kbuf)

\* ev_fd_update: EPOLL_CTL_MOD looks at the fd again.
Update(r, armed) ==
  [r EXCEPT !.armed = armed,
            !.ready = @ \/ r.out # <<>> \/ (armed /\ Space(r) > 0)]

\* The numbers of the next n bytes.
Bytes(r, n) == [i \in 1..n |-> (r.next + i - 1) % Stamps]

\* write(2): as many of the bytes as there is room for.
Written(r, bytes) ==
  [r EXCEPT !.kbuf = @ \o SubSeq(bytes, 1, Min({Len(bytes), Space(r)}))]

\* kmscon_pty_write that does not look at the ring.
PtyWriteDirect(r, n) ==
  LET bytes == Bytes(r, n)
      w     == [Written(r, bytes) EXCEPT !.next = (@ + n) % Stamps]
  IN  IF n <= Space(r) THEN w
      ELSE [Update(w, TRUE) EXCEPT
              !.ring = @ \o SubSeq(bytes, Space(r) + 1, n)]

PtyWrite(r, n) ==
  IF r.ring # <<>>
    THEN [r EXCEPT !.ring = @ \o Bytes(r, n), !.next = (@ + n) % Stamps]
    ELSE PtyWriteDirect(r, n)

SendBuf(r) ==
  LET w == [Written(r, r.ring) EXCEPT
              !.ring = SubSeq(@, Space(r) + 1, Len(@))]
  IN  IF w.ring = <<>> THEN Update(w, FALSE) ELSE w

\* input_cb for one chunk, after it was read: the answer to a query is
\* written at once.
InputCb(r, chunk) ==
  LET left == [r EXCEPT !.out = Tail(@)]
  IN  IF chunk = "query" THEN PtyWrite(left, 1) ELSE left

ReadChunks(r) ==
  LET n == Min({Len(r.out), Steps})
      after[k \in 0..n] == IF k = 0 THEN r ELSE InputCb(after[k - 1], r.out[k])
  IN  after[n]

ReadBuf(r) ==
  IF Len(r.out) < Steps THEN ReadChunks(r)
  ELSE LET d == ReadChunks(r) IN Update(d, d.ring # <<>>)

\* pty_input, called with the events that hold now.
PtyInput(r) ==
  LET taken == [r EXCEPT !.ready = FALSE]
      sent  == IF r.armed /\ Space(r) > 0 THEN SendBuf(taken) ELSE taken
  IN  IF r.out # <<>> THEN ReadBuf(sent) ELSE sent

-----------------------------------------------------------------------------
(***************************************************************************)
(* Opening and closing.                                                    *)
(***************************************************************************)

LoginAllowed(s) == s \notin seen

\* A master that is not open, or was just opened; the ring stays.
FreshIo(s) ==
  io' = [io EXCEPT ![s] = [@ EXCEPT !.kbuf = <<>>, !.out = <<>>,
                                    !.armed = FALSE, !.ready = FALSE]]

FreePid == Pid \ (running \cup zombie)

\* fork, with the new process in p.
PtySpawn(s, p) ==
  /\ opened' = opened \cup {s}
  /\ child' = [child EXCEPT ![s] = p]
  /\ running' = running \cup {p}

\* kmscon_pty_open, and what it leaves if fork fails.
PtyOpen(s) ==
  /\ FreshIo(s)
  /\ \/ \E p \in FreePid : PtySpawn(s, p) /\ UNCHANGED faults
     \/ /\ faults < MaxFaults
        /\ faults' = faults + 1
        /\ opened' = opened \ {s}
        /\ UNCHANGED <<child, running>>

\* terminal_open of a terminal that is closed and may have a login.
TerminalOpen(s) == PtyOpen(s)

TerminalClose(s) ==
  /\ FreshIo(s)
  /\ opened' = opened \ {s}
  /\ UNCHANGED <<child, running, faults>>

TermUnchanged == UNCHANGED <<opened, child, io, running, faults>>

\* pty_exit
PtyExit(s, restart) ==
  /\ IF restart /\ LoginAllowed(s) THEN TerminalOpen(s) ELSE TerminalClose(s)
  /\ exiting' = ~restart

\* sig_child of pty.c, after it recognised its child.
ChildExited(s) ==
  IF retry[s] = MaxRetryCount \/ Oneshot
    THEN PtyExit(s, FALSE) /\ UNCHANGED timeVars
    ELSE /\ IF age[s] < MaxRetryTime
              THEN /\ retry' = [retry EXCEPT ![s] = @ + 1]
                   /\ age' = [age EXCEPT ![s] = 0]
              ELSE /\ retry' = [retry EXCEPT ![s] = 0]
                   /\ UNCHANGED age
         /\ PtyExit(s, TRUE)

\* IsChild that takes any child for its own.
IsAnyChild(s) == zombie # {}

\* sig_child of pty.c compares the reaped pid with its own.
IsChild(s) == child[s] \in zombie

\* SigChild that calls waitpid once.
SigChildOnce(s) ==
  /\ s \in opened /\ sigchld /\ sigchld' = FALSE
  /\ \/ zombie = {} /\ UNCHANGED zombie /\ TermUnchanged /\ UNCHANGED <<timeVars, exiting>>
     \/ \E p \in zombie :
          /\ zombie' = zombie \ {p}
          /\ IF child[s] = p THEN ChildExited(s)
             ELSE TermUnchanged /\ UNCHANGED <<timeVars, exiting>>
  /\ UNCHANGED <<termVars, published>>

(***************************************************************************)
(* The loop of the session s reads SIGCHLD, and reaps every child.  One    *)
(* that exits while this runs raises SIGCHLD again.                        *)
(***************************************************************************)
SigChild(s) ==
  /\ s \in opened /\ sigchld
  /\ sigchld' = FALSE /\ zombie' = {}
  /\ IF IsChild(s) THEN ChildExited(s)
     ELSE TermUnchanged /\ UNCHANGED <<timeVars, exiting>>
  /\ UNCHANGED <<termVars, published>>

\* The PTY's master has an event.
IoEvent(s) ==
  /\ s \in opened /\ io[s].ready
  /\ io' = [io EXCEPT ![s] = PtyInput(@)]
  /\ UNCHANGED <<termVars, ptyVars, timeVars, procVars, envVars>>

\* A key, or a paste: n bytes for the login.
Type(s, n) ==
  /\ s \in opened
  /\ Len(io[s].ring) + Len(io[s].out) + n <= MaxBacklog
  /\ io' = [io EXCEPT ![s] = PtyWrite(@, n)]
  /\ UNCHANGED <<termVars, ptyVars, timeVars, procVars, envVars>>

-----------------------------------------------------------------------------
(***************************************************************************)
(* Terminals and the console lock.                                         *)
(***************************************************************************)

\* refresh_events: a source that cannot be read leaves the context without
\* events, and the console counts as unlocked.
EventsLocked == published = "locked"

\* The children of closed PTYs.  Bound: no login is left behind while there
\* is another one, so that fork finds a free pid.
Orphan == (running \cup zombie) \ {child[s] : s \in opened}

TerminalNew(s) ==
  /\ s \notin sess
  /\ EventsLocked => Orphan = {}
  /\ sess' = sess \cup {s}
  /\ retry' = [retry EXCEPT ![s] = 0] /\ age' = [age EXCEPT ![s] = 0]
  /\ io' = [io EXCEPT ![s] = NewIo]
  /\ UNCHANGED <<awake, seen, feed, ptyVars, procVars, envVars>>

TerminalActivate(s) ==
  /\ s \in sess
  /\ awake' = awake \cup {s}
  /\ IF s \notin opened /\ LoginAllowed(s) THEN TerminalOpen(s) ELSE TermUnchanged
  /\ UNCHANGED <<sess, seen, feed, timeVars, zombie, sigchld, published, exiting>>

TerminalDeactivate(s) ==
  /\ s \in awake
  /\ awake' = awake \ {s}
  /\ UNCHANGED <<sess, seen, feed, ptyVars, timeVars, io, procVars, envVars>>

TerminalDestroy(s) ==
  /\ s \in sess
  /\ s \in opened => Orphan = {} /\ ~EventsLocked
  /\ sess' = sess \ {s} /\ awake' = awake \ {s}
  /\ seen' = seen \ {s} /\ feed' = feed \ {s}
  /\ TerminalClose(s)
  /\ UNCHANGED <<timeVars, zombie, sigchld, published, exiting>>

\* ReconcileConsoleMode that leaves the login running.
ReconcileFeedOnly(s, locked) ==
  IF locked
    THEN feed' = feed \cup {s} /\ TermUnchanged
    ELSE /\ feed' = feed \ {s}
         /\ IF s \in awake /\ s \notin opened THEN TerminalOpen(s) ELSE TermUnchanged

\* reconcile_console_mode, the terminal knowing whether the console is locked.
ReconcileConsoleMode(s, locked) ==
  IF locked
    THEN /\ feed' = feed \cup {s}
         /\ IF s \in opened THEN TerminalClose(s) ELSE TermUnchanged
    ELSE /\ feed' = feed \ {s}
         /\ IF s \in awake /\ s \notin opened THEN TerminalOpen(s) ELSE TermUnchanged

StatusEvent(s) ==
  /\ s \in sess
  /\ seen' = (IF EventsLocked THEN seen \cup {s} ELSE seen \ {s})
  /\ ReconcileConsoleMode(s, EventsLocked)
  /\ UNCHANGED <<sess, awake, timeVars, zombie, sigchld, published, exiting>>

-----------------------------------------------------------------------------
(***************************************************************************)
(* Everything outside the program.                                         *)
(***************************************************************************)

\* A process ends: SIGCHLD, which may be pending already.
ProcExit(p) ==
  /\ p \in running
  /\ running' = running \ {p} /\ zombie' = zombie \cup {p} /\ sigchld' = TRUE
  /\ UNCHANGED <<termVars, ptyVars, timeVars, io, envVars>>

\* The programs on the slave read a byte.
SlaveRead(s) ==
  /\ s \in opened /\ io[s].kbuf # <<>>
  /\ io' = [io EXCEPT ![s].kbuf = Tail(@), ![s].ready = @ \/ io[s].armed]
  /\ UNCHANGED <<termVars, ptyVars, timeVars, procVars, envVars>>

\* The programs on the slave write.
SlaveWrite(s, c) ==
  /\ s \in opened
  /\ Len(io[s].ring) + Len(io[s].out) < MaxBacklog
  /\ io' = [io EXCEPT ![s].out = Append(@, c), ![s].ready = TRUE]
  /\ UNCHANGED <<termVars, ptyVars, timeVars, procVars, envVars>>

\* vhangup, or the last program closes the slave: an event without data.
Hangup(s) ==
  /\ s \in opened
  /\ io' = [io EXCEPT ![s].ready = TRUE]
  /\ UNCHANGED <<termVars, ptyVars, timeVars, procVars, envVars>>

\* The agent writes, or loses, its snapshot.
Publish(v) ==
  /\ published # v
  /\ v = "locked" => Orphan = {}
  /\ published' = v
  /\ UNCHANGED <<termVars, ptyVars, timeVars, io, procVars, exiting, faults>>

\* A second passes.
Tick ==
  /\ age' = [s \in Session |-> IF age[s] < MaxRetryTime THEN age[s] + 1 ELSE age[s]]
  /\ UNCHANGED <<termVars, ptyVars, retry, io, procVars, envVars>>

-----------------------------------------------------------------------------
Init ==
  /\ sess = {} /\ awake = {} /\ opened = {} /\ seen = {} /\ feed = {}
  /\ child = [s \in Session |-> NoPid]
  /\ retry = [s \in Session |-> 0] /\ age = [s \in Session |-> 0]
  /\ io = [s \in Session |-> NewIo]
  /\ published \in {"locked", "unlocked", "hidden"}
  /\ running = {} /\ zombie = {} /\ sigchld = FALSE
  /\ exiting = FALSE /\ faults = 0

Next ==
  /\ ~exiting
  /\ \/ \E s \in Session :
          \/ SigChild(s) \/ IoEvent(s) \/ StatusEvent(s)
          \/ TerminalNew(s) \/ TerminalActivate(s) \/ TerminalDeactivate(s)
          \/ TerminalDestroy(s)
          \/ SlaveRead(s) \/ Hangup(s)
          \/ \E n \in 1..2 : Type(s, n)
          \/ \E c \in Chunk : SlaveWrite(s, c)
     \/ \E p \in Pid : ProcExit(p)
     \/ \E v \in {"locked", "unlocked", "hidden"} : Publish(v)
     \/ Tick

Spec == Init /\ [][Next]_vars

\* A readable signalfd and the status timer are served.
Fairness ==
  \A s \in Session : WF_vars(~exiting /\ SigChild(s)) /\ WF_vars(~exiting /\ StatusEvent(s))

FairSpec == Spec /\ Fairness

-----------------------------------------------------------------------------
(***************************************************************************)
(* Properties.                                                             *)
(***************************************************************************)

\* Bytes reach the login in the order they were typed, and none is left out:
\* the kernel's buffer followed by the ring is a run of consecutive bytes
\* that ends with the last one written (kmscon_pty_write, send_buf).
InOrder ==
  \A s \in Session :
    LET q == io[s].kbuf \o io[s].ring
    IN  \A i \in 1..Len(q) : (q[i] + Len(q) - i + 1) % Stamps = io[s].next

\* Bytes in the ring of an open PTY are waited for, so that typed input
\* always goes on to the login (the comment on missing events in pty_input).
RingArmed ==
  \A s \in opened : io[s].ring # <<>> => io[s].armed

\* The event feed and a login never share a screen, and no login runs in a
\* terminal that knows the console as locked (reconcile_console_mode).
FeedLogin == feed \subseteq seen /\ seen \cap opened = {}

\* A login that still runs is never replaced by another one (sig_child of
\* pty.c): not when an earlier login of the same terminal exits, either.
LoginKept ==
  [][\A s \in Session :
       s \in opened /\ s \in opened' /\ child'[s] # child[s] => child[s] \notin running]_vars

\* When its login has exited, a session is closed or gets another login, or
\* the program ends (sig_child of eloop.c and pty.c, pty_exit).
ExitNoticed ==
  \A s \in Session :
    s \in opened /\ child[s] \notin running
      ~> s \notin opened \/ child[s] \in running \/ exiting

\* kmscon gives up only on a login that exits within MAX_RETRY_TIME (the
\* message of sig_child: so many retries in so many seconds).
GivesUpOnQuickExits ==
  [][exiting' /\ ~exiting /\ ~Oneshot => \E s \in opened : age[s] < MaxRetryTime]_vars
=============================================================================
