------------------------------ MODULE HostLogin ------------------------------
(***************************************************************************)
(* How a login comes to run outside of the console's sandbox: the child of *)
(* a PTY (exec_child in misc/pty.c) hands its terminal to the helper       *)
(* (misc/host_session.c, faceplate_host_login.c) and waits for the status  *)
(* of the login that the helper runs on it.                                *)
(*                                                                         *)
(* The helper accepts one connection at a time and serves it to the end.   *)
(* Terminals close their PTY while any of this is under way (the console   *)
(* lock, or the end of the session) and open another one.  A PTY is hung   *)
(* up when the last copy of its master is closed, and the console's need   *)
(* not be the last: children never exec, so each keeps the masters of the  *)
(* other terminals that were open when it was forked.  The helper may      *)
(* crash; whether its socket outlives it depends on who listens on it.     *)
(***************************************************************************)
EXTENDS Naturals, Sequences, Functions

CONSTANTS
  Terminal,
  Job, NoJob,        \* a job is a PTY with the child that asks for its login
  Backlog,           \* connections that wait to be accepted
  SocketActivated,   \* LISTEN_FDS: the listening socket belongs to systemd
  Faults,            \* the helper may crash or be missing, forks may fail
  LogOut             \* users are assumed to log out some time

ASSUME HostLoginAssumption ==
  /\ NoJob \notin Job
  /\ Backlog \in Nat
  /\ SocketActivated \in BOOLEAN /\ Faults \in BOOLEAN /\ LogOut \in BOOLEAN

VARIABLES
  pty,           \* the job whose PTY each terminal has open
  client,        \* the child: "none", "starts", "waits" or "exited"
  masters,       \* the PTYs whose master the child has inherited
  listening,     \* someone listens on the socket
  queue,         \* connections not accepted yet
  serving,       \* the connection of faceplate_host_session_serve_one
  login          \* the login: "none", "forked", "runs" or "ended"

clientVars == <<client, masters>>
helperVars == <<listening, queue, serving>>
hostLoginVars == <<pty, clientVars, helperVars, login>>

Queued == Range(queue)

HostLoginTypeOK ==
  /\ pty \in [Terminal -> Job \cup {NoJob}]
  /\ client \in [Job -> {"none", "starts", "waits", "exited"}]
  /\ masters \in [Job -> SUBSET Job]
  /\ listening \in BOOLEAN
  /\ queue \in Seq(Job) /\ Len(queue) <= Backlog + 1
  /\ serving \in Job \cup {NoJob}
  /\ login \in [Job -> {"none", "forked", "runs", "ended"}]

-----------------------------------------------------------------------------
(***************************************************************************)
(* The terminal and the child.                                             *)
(***************************************************************************)
Opened == {pty[t] : t \in Terminal} \ {NoJob}

\* The children that keep the master of j open.
Keepers(j) == {c \in Job : client[c] \in {"starts", "waits"} /\ j \in masters[c]}

\* No one has the master of j: its slave is hung up, for good.
Hung(j) == j \notin Opened /\ Keepers(j) = {}

Unused(j) ==
  client[j] = "none" /\ login[j] \notin {"forked", "runs"} /\ Hung(j)

\* Mutation: setup_child does not close its own master.
InheritedAll(j) == Opened \cup {j}

\* The masters that stay open in the child of j, which never executes another
\* program: what the console has open when it forks, but for its own.
Inherited(j) == Opened \ {j}

\* kmscon_pty_open: setup_child makes the slave the child's stdin, without
\* claiming it as controlling terminal.
Open(t) ==
  /\ pty[t] = NoJob
  /\ \E j \in Job : /\ Unused(j)
                    /\ pty' = [pty EXCEPT ![t] = j]
                    /\ client' = [client EXCEPT ![j] = "starts"]
                    /\ masters' = [masters EXCEPT ![j] = Inherited(j)]
                    /\ login' = [login EXCEPT ![j] = "none"]
  /\ UNCHANGED helperVars

\* kmscon_pty_close: the console's copy of the master.  When it was the last,
\* who has the terminal as controlling terminal gets SIGHUP; the child does not
\* have it.
Close(t) ==
  /\ pty[t] # NoJob
  /\ pty' = [pty EXCEPT ![t] = NoJob]
  /\ UNCHANGED <<clientVars, helperVars, login>>

\* A child exits, and what it has open is closed.
Exit(js) ==
  /\ client' = [j \in Job |-> IF j \in js THEN "exited" ELSE client[j]]
  /\ masters' = [j \in Job |-> IF j \in js THEN {} ELSE masters[j]]

\* exec_child: connect to the helper, and send it the terminal.  Without a
\* helper there is no login.
Connect(j) ==
  /\ client[j] = "starts"
  /\ \/ /\ listening /\ Len(queue) <= Backlog
        /\ queue' = Append(queue, j)
        /\ client' = [client EXCEPT ![j] = "waits"]
        /\ UNCHANGED masters
     \/ /\ ~listening
        /\ Exit({j})
        /\ UNCHANGED queue
  /\ UNCHANGED <<pty, listening, serving, login>>

\* sig_child: the terminal that waits for this child closes its PTY.
Reap(j) ==
  /\ client[j] = "exited"
  /\ client' = [client EXCEPT ![j] = "none"]
  /\ pty' = [t \in Terminal |-> IF pty[t] = j THEN NoJob ELSE pty[t]]
  /\ UNCHANGED <<masters, helperVars, login>>

-----------------------------------------------------------------------------
(***************************************************************************)
(* The helper.                                                             *)
(***************************************************************************)
Accept ==
  /\ serving = NoJob /\ queue # <<>>
  /\ serving' = Head(queue) /\ queue' = Tail(queue)
  /\ UNCHANGED <<pty, clientVars, listening, login>>

\* serve_one has read the request.
Serve(j) == serving = j /\ login[j] = "none"

\* The answer is written, and the child that reads it exits.
Answer(j) ==
  /\ Exit({j})
  /\ serving' = NoJob
  /\ UNCHANGED <<pty, listening, queue, login>>

\* peer_is_allowed, unpack_job or fork fail, or the fd is not a terminal any
\* more: isatty fails on a slave that is hung up.
Refuse(j) ==
  /\ Serve(j)
  /\ Faults \/ Hung(j)
  /\ Answer(j)

\* fd_is_pty_slave, and fork.  The terminal may be hung up before the login has
\* claimed it.
RunLogin(j) ==
  /\ Serve(j)
  /\ ~Hung(j)
  /\ login' = [login EXCEPT ![j] = "forked"]
  /\ UNCHANGED <<pty, clientVars, helperVars>>

\* run_login: setsid, TIOCSCTTY and execve.  TIOCSCTTY fails on a slave that is
\* hung up; from then on the login gets SIGHUP.
ClaimTerminal(j) ==
  /\ login[j] = "forked"
  /\ login' = [login EXCEPT ![j] = IF Hung(j) THEN "ended" ELSE "runs"]
  /\ UNCHANGED <<pty, clientVars, helperVars>>

\* waitpid returns, and the child exits with the status of the login.
Reply(j) ==
  /\ serving = j /\ login[j] = "ended"
  /\ Answer(j)

\* The login ends: the user logs out, or it was hung up, or gives up by itself.
LoginEnds(j) ==
  /\ login[j] = "runs"
  /\ login' = [login EXCEPT ![j] = "ended"]
  /\ UNCHANGED <<pty, clientVars, helperVars>>

\* Mutation: connections that nobody will serve are not closed.
CrashSilently ==
  /\ Faults /\ listening
  /\ serving' = NoJob /\ listening' = SocketActivated
  /\ UNCHANGED <<pty, clientVars, queue, login>>

\* The helper dies, and the connections that only it had are closed: their
\* children read nothing and exit.  A login it forked is left to itself.
Crash ==
  /\ Faults /\ listening
  /\ Exit(({serving} \ {NoJob}) \cup (IF SocketActivated THEN {} ELSE Queued))
  /\ serving' = NoJob
  /\ listening' = SocketActivated
  /\ queue' = IF SocketActivated THEN queue ELSE <<>>
  /\ UNCHANGED <<pty, login>>

\* main: LISTEN_FDS or bind_listen.
HelperStarts ==
  /\ ~listening
  /\ listening' = TRUE
  /\ UNCHANGED <<pty, clientVars, queue, serving, login>>

-----------------------------------------------------------------------------
HostLoginInit ==
  /\ pty = [t \in Terminal |-> NoJob]
  /\ client = [j \in Job |-> "none"] /\ masters = [j \in Job |-> {}]
  /\ listening = ~Faults /\ queue = <<>> /\ serving = NoJob
  /\ login = [j \in Job |-> "none"]

HostLoginNext ==
  \/ \E t \in Terminal : Open(t) \/ Close(t)
  \/ \E j \in Job : \/ Connect(j) \/ Reap(j) \/ Refuse(j) \/ RunLogin(j)
                    \/ ClaimTerminal(j) \/ Reply(j) \/ LoginEnds(j)
  \/ Accept \/ Crash \/ HelperStarts

HostLoginSpec == HostLoginInit /\ [][HostLoginNext]_hostLoginVars

\* Processes run; the kernel lets those that wait to connect in one after the
\* other; a login ends when it is hung up, and, given LogOut, when the terminal
\* is open: on a closed one that is not hung up there is nobody to log out.
HostLoginFairness ==
  /\ WF_hostLoginVars(Accept) /\ WF_hostLoginVars(HelperStarts)
  /\ \A j \in Job : /\ SF_hostLoginVars(Connect(j)) /\ WF_hostLoginVars(Reap(j))
                    /\ WF_hostLoginVars(Refuse(j) \/ RunLogin(j))
                    /\ WF_hostLoginVars(ClaimTerminal(j)) /\ WF_hostLoginVars(Reply(j))
                    /\ WF_hostLoginVars(/\ Hung(j) \/ (LogOut /\ j \in Opened)
                                        /\ LoginEnds(j))

HostLoginFairSpec == HostLoginSpec /\ HostLoginFairness

-----------------------------------------------------------------------------
\* Nothing waits for a helper that does not know of it: every child that waits
\* is in the queue or being served, whatever was lost in a crash (bind_listen,
\* serve_one).
WaitsForHelper == \A j \in Job : client[j] = "waits" => j \in Queued \cup {serving}

\* Of two terminals at most one is kept open by the child of the other, and none
\* by its own (setup_child): a terminal whose neighbours are all older is hung
\* up when it is closed.
KeptOneWay == \A j, k \in Job : ~(k \in Keepers(j) /\ j \in Keepers(k))

\* The helper waits for a login on a terminal that was closed, and the child of
\* another terminal, which was opened while that one was open, keeps it from
\* being hung up while it waits for the helper in turn.
Wedged ==
  /\ serving # NoJob /\ login[serving] = "runs" /\ serving \notin Opened
  /\ Keepers(serving) \ {serving} # {}

\* A login goes on after its terminal was closed only while the helper is wedged
\* (kmscon_pty_close, setup_child).
ClosedLoginEnds ==
  \A j \in Job : login[j] = "runs" /\ j \notin Opened ~> login[j] # "runs" \/ Wedged

\* A terminal that asked for a login gets one, or learns that there is none,
\* unless the helper is wedged: though the helper may be busy with the login of
\* another terminal, open or closed, and may crash.
LoginComes ==
  \A t \in Terminal, j \in Job :
    pty[t] = j /\ client[j] \in {"starts", "waits"}
      ~> pty[t] # j \/ login[j] = "runs" \/ Wedged
=============================================================================
