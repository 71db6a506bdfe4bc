------------------------------- MODULE Eloop -------------------------------
(***************************************************************************)
(* The event loop (shl/eloop.c) and the callback lists it is built on      *)
(* (shl/hook.h): file descriptor, timer, shared signal and idle sources,   *)
(* and the dispatcher that calls them.                                     *)
(*                                                                         *)
(* A callback may call any operation of the loop, also on its own source   *)
(* and on sources whose events were collected and not handled yet.  Every  *)
(* call is an action; it can be made before ev_eloop_run, by a callback,   *)
(* and after ev_eloop_run has returned.                                    *)
(*                                                                         *)
(* An object is its address.  The addresses come from small pools, so an   *)
(* address is used again after free, as malloc does; which free one malloc *)
(* returns does not matter, and is fixed.  The entries of the callback     *)
(* lists have addresses too: shl_hook_call keeps one while callbacks run.  *)
(*                                                                         *)
(* External: epoll, timerfd, signalfd and eventfd, and what the callbacks  *)
(* do.  Sources here are level-triggered (Pty has the edge-triggered one). *)
(***************************************************************************)
EXTENDS Naturals, Sequences, FiniteSets, SequencesExt

CONSTANTS
  File,           \* addresses of struct ev_fd, apart from the timers'
  Timer,          \* addresses of struct ev_timer, and of the ev_fd of each
  Signal,         \* signal numbers
  Callback,       \* pairs of a function and its data
  SigHook,        \* addresses of struct shl_hook, for the shared signals
  Idlers,         \* ev_eloop.idlers, a hook as well
  Node,           \* addresses of struct shl_hook_entry
  ListHead,       \* the head of a list of them, hook->entries
  Loop,           \* the loop as data.ptr of an epoll event: the idle_fd
  None,           \* NULL
  Events,         \* cur_fds_size of a new loop
  MaxLive,        \* bound: sources and hook entries at a time
  MaxFaults       \* bound: how often epoll_ctl may fail

Fd   == File \cup Timer
Hook == SigHook \cup {Idlers}

ASSUME EloopAssumption ==
  /\ IsFiniteSet(File) /\ IsFiniteSet(Timer) /\ File \cap Timer = {}
  /\ Idlers \notin SigHook
  /\ Loop \notin Fd /\ None \notin Fd \cup {Loop} \cup Hook \cup Callback
  /\ ListHead # None /\ ListHead \notin Node /\ None \notin Node
  /\ Events \in Nat \ {0} /\ MaxLive \in Nat /\ MaxFaults \in Nat

VARIABLES
  fds,            \* struct ev_fd: see FdType
  tref,           \* ev_timer.ref
  own,            \* the timers whose creator holds a reference
  kset,           \* the sources in the loop's epoll set
  readable,       \* files with input, and timers that have expired
  armed,          \* timerfds that run
  sig,            \* ev_eloop.sig_list: see SigType
  pending,        \* signals that are pending
  hooks,          \* struct shl_hook: see HookType
  idle_fd,        \* the counter of the eventfd is not zero
  lref,           \* ev_eloop.ref
  held,           \* the program holds its reference of the loop
  exit,           \* ev_eloop.exit
  pc,             \* where the program is: see Pc
  todo,           \* cur_fds from the next one on
  size,           \* ev_eloop.cur_fds_size
  call,           \* the call that is being made: see CallType
  faults          \* how often epoll_ctl has failed

srcVars  == <<fds, kset>>
timeVars == <<tref, own, armed>>
sigVars  == <<sig, pending>>
loopVars == <<lref, held>>
runVars  == <<pc, size, call>>
vars == <<srcVars, timeVars, readable, sigVars, hooks, idle_fd, loopVars,
          exit, runVars, todo, faults>>

(***************************************************************************)
(* pc: "setup" before ev_eloop_run, "top" of its loop, "batch" between two *)
(* events of cur_fds, "hook" between two entries of shl_hook_call, "user"  *)
(* in a callback of the program, "done" after ev_eloop_run.                *)
(***************************************************************************)
Pc == {"setup", "top", "batch", "hook", "user", "done"}

FdType == [ref : 0..2, bound : BOOLEAN, enabled : BOOLEAN]
NoFd   == [ref |-> 0, bound |-> FALSE, enabled |-> FALSE]

\* cur is the entry that shl_hook_call comes to next, or the head.
Entry    == [at : Node, cb : Callback, oneshot : BOOLEAN]
HookType == [alive : BOOLEAN, list : Seq(Entry),
             cur : Node \cup {ListHead, None}, num : Nat, dead : BOOLEAN]
NewHook  == [alive |-> TRUE, list |-> <<>>, cur |-> None, num |-> 0,
             dead |-> FALSE]
NoHook   == [NewHook EXCEPT !.alive = FALSE]

NoSig   == [fd |-> None, hook |-> None]
SigType == [fd : File, hook : SigHook] \cup {NoSig}

\* The source that was called, the hook that is being called, and the entry
\* of it whose callback runs: shl_hook_call comes back to it only to free it,
\* so the address is that of a one-shot entry or None.
NoEntry  == [at |-> None, cb |-> None, oneshot |-> FALSE]
NoCall   == [fd |-> None, hook |-> None, entry |-> NoEntry]
CallType == [fd : Fd \cup {Loop, None}, hook : Hook \cup {None},
             entry : [at : Node \cup {None}, cb : Callback \cup {None},
                      oneshot : BOOLEAN]]

Bound    == {f \in Fd : fds[f].bound}
Enabled  == {f \in Fd : fds[f].enabled}
SigFd    == {f \in File : \E s \in Signal : sig[s].fd = f}
SigOf(f) == CHOOSE s \in Signal : sig[s].fd = f

TypeOK ==
  /\ fds \in [Fd -> FdType] /\ kset \subseteq Fd
  /\ tref \in [Timer -> 0..2] /\ own \subseteq Timer /\ armed \subseteq Timer
  /\ readable \subseteq Fd
  /\ sig \in [Signal -> SigType] /\ pending \subseteq Signal
  /\ hooks \in [Hook -> HookType] /\ idle_fd \in BOOLEAN
  /\ lref \in Nat /\ held \in BOOLEAN /\ exit \in BOOLEAN
  /\ pc \in Pc /\ todo \in Seq(Fd \cup {Loop, None}) /\ size \in Nat \ {0}
  /\ call \in CallType /\ faults \in 0..MaxFaults

----------------------------------------------------------------------------
(* Hooks (shl/hook.h)                                                      *)

\* The entries of all hooks.  A one-shot entry that has left its list is
\* freed after its callback.
Entries == MapThenSumSet(LAMBDA k : Len(hooks[k].list), Hook)

\* One of the free addresses, if there is any.
Malloc(S) == {x \in S : x = CHOOSE y \in S : TRUE}

\* There is room for one more object; a shared signal counts by its entries.
Room ==
  Cardinality({f \in Fd \ SigFd : fds[f].ref > 0}) + Entries < MaxLive

\* The entries of the list h.
At(h) == {h.list[i].at : i \in DOMAIN h.list}

IndexOf(h, a) == CHOOSE i \in DOMAIN h.list : h.list[i].at = a

\* list.next of the entry i.
After(h, i) == IF i = Len(h.list) THEN ListHead ELSE h.list[i + 1].at

\* The memory of entries that is in use: those on a list, and a one-shot one
\* whose callback runs.
InUse == UNION {At(hooks[k]) : k \in Hook} \cup {call.entry.at}

\* A new entry at address a; the cursor is left alone.
HookAdd(h, a, c, oneshot) ==
  [h EXCEPT !.list = Append(@, [at |-> a, cb |-> c, oneshot |-> oneshot]),
            !.num  = @ + 1]

Has(h, c) == \E i \in DOMAIN h.list : h.list[i].cb = c

HookAddSingle(h, a, c, oneshot) ==
  IF Has(h, c) THEN h ELSE HookAdd(h, a, c, oneshot)

Matching(h, c) == {i \in DOMAIN h.list : h.list[i].cb = c}

\* HookRm that frees an entry the cursor may be at.
HookRmLeavesCursor(h, c) ==
  IF ~Has(h, c) THEN h
  ELSE [h EXCEPT !.list = RemoveAt(@, Max(Matching(h, c))), !.num = @ - 1]

\* The last entry of c goes; a cursor that is there goes on to the next one.
HookRm(h, c) ==
  LET i == Max(Matching(h, c))
  IN  IF ~Has(h, c) THEN h
      ELSE [h EXCEPT !.list = RemoveAt(@, i), !.num = @ - 1,
                     !.cur = IF @ = h.list[i].at THEN After(h, i) ELSE @]

\* The j-th smallest number of S.
Nth(S, j) == CHOOSE i \in S : Cardinality({k \in S : k <= i}) = j

\* Every entry of c goes, from the last to the first, and the cursor goes on
\* to the next one that stays.
HookRmAll(h, c) ==
  LET stay == DOMAIN h.list \ Matching(h, c)
      next == {i \in stay : IndexOf(h, h.cur) <= i}
  IN  [h EXCEPT !.list = [j \in 1..Cardinality(stay) |-> h.list[Nth(stay, j)]],
                !.num  = @ - Cardinality(Matching(h, c)),
                !.cur  = IF @ \notin At(h) THEN @
                         ELSE IF next = {} THEN ListHead
                         ELSE h.list[Min(next)].at]

\* shl_hook_free leaves the hook to shl_hook_call if that is under way.
HookFree(h) == IF h.cur # None THEN [h EXCEPT !.dead = TRUE] ELSE NoHook

\* The head of shl_hook_call.
HookStart(h) ==
  [h EXCEPT !.cur = IF h.list = <<>> THEN ListHead ELSE h.list[1].at]

\* The cursor goes on before the callback is called, and a one-shot entry
\* leaves the list.
HookStep(h) ==
  LET i == IndexOf(h, h.cur)
  IN  [h EXCEPT !.cur  = After(h, i),
                !.list = IF h.list[i].oneshot THEN RemoveAt(@, i) ELSE @]

\* What shl_hook_call keeps of the entry e for after its callback.
Kept(e) == IF e.oneshot THEN e ELSE [e EXCEPT !.at = None]

\* shl_hook_call is back at the head of the list.
AtHead(h) == h.cur = ListHead

\* The end of shl_hook_call.
HookStop(h) == IF h.dead THEN NoHook ELSE [h EXCEPT !.cur = None]

----------------------------------------------------------------------------
(* File descriptor sources                                                 *)

\* The program runs its own code: it may call the loop's operations.  After
\* ev_eloop_run it only takes down what there is.
Calling == pc \in {"setup", "user", "done"} /\ lref > 0
Building == Calling /\ pc # "done"

\* epoll_ctl may fail; EPOLL_CTL_ADD does so if the descriptor is there.
EpollAdd(f, ok) ==
  /\ ok => f \notin kset
  /\ ~ok /\ f \notin kset => faults < MaxFaults
  /\ kset' = IF ok THEN kset \cup {f} ELSE kset
  /\ faults' = IF ok \/ f \in kset THEN faults ELSE faults + 1

\* ev_eloop_unref: the last reference frees the loop with its hooks.
LoopDrop(hs) == IF lref = 1 THEN [hs EXCEPT ![Idlers] = NoHook] ELSE hs

FdUnref(fd) == IF fd.ref = 1 THEN NoFd ELSE [fd EXCEPT !.ref = @ - 1]

\* The events of f in cur_fds are set to NULL.
Cleared(f) == [i \in DOMAIN todo |-> IF todo[i] = f THEN None ELSE todo[i]]

\* RemoveFd that clears cur_fds only for a source in the epoll set.
RemoveFdEnabled(f, hs) ==
  /\ kset' = IF fds[f].enabled THEN kset \ {f} ELSE kset
  /\ todo' = IF fds[f].enabled THEN Cleared(f) ELSE todo
  /\ lref' = lref - 1
  /\ hooks' = LoopDrop(hs)

\* ev_eloop_rm_fd on a bound source, with the hooks as the caller leaves them;
\* Released is what remains of the source.
RemoveFd(f, hs) ==
  /\ kset' = IF fds[f].enabled THEN kset \ {f} ELSE kset
  /\ todo' = Cleared(f)
  /\ lref' = lref - 1
  /\ hooks' = LoopDrop(hs)

Released(f) == FdUnref([fds[f] EXCEPT !.bound = FALSE])

\* ev_eloop_new_fd; a source that cannot be added is freed again.
NewFd(f, ok) ==
  /\ Building /\ fds[f].ref = 0 /\ Room
  /\ EpollAdd(f, ok)
  /\ fds' = IF ok THEN [fds EXCEPT ![f] = [ref |-> 1, bound |-> TRUE,
                                           enabled |-> TRUE]]
            ELSE fds
  /\ lref' = IF ok THEN lref + 1 ELSE lref
  /\ UNCHANGED <<timeVars, readable, sigVars, hooks, idle_fd, held, exit,
                 runVars, todo>>

\* ev_eloop_rm_fd, and the program closes the descriptor.
RmFd(f) ==
  /\ Calling /\ f \in Bound \ SigFd
  /\ RemoveFd(f, hooks)
  /\ fds' = [fds EXCEPT ![f] = Released(f)]
  /\ readable' = readable \ {f}
  /\ UNCHANGED <<timeVars, sigVars, idle_fd, held, exit, runVars, faults>>

\* EnableFd that sets the flag before the call that may fail.
EnableFdFirst(f, ok) ==
  /\ Building /\ fds[f].ref > 0 /\ f \notin Enabled
  /\ IF f \in Bound THEN EpollAdd(f, ok)
     ELSE ok /\ UNCHANGED <<kset, faults>>
  /\ fds' = [fds EXCEPT ![f].enabled = TRUE]
  /\ UNCHANGED <<timeVars, readable, sigVars, hooks, idle_fd, loopVars, exit,
                 runVars, todo>>

\* ev_fd_enable and ev_timer_enable.
EnableFd(f, ok) ==
  /\ Building /\ fds[f].ref > 0 /\ f \notin Enabled
  /\ IF f \in Bound THEN EpollAdd(f, ok)
     ELSE ok /\ UNCHANGED <<kset, faults>>
  /\ fds' = [fds EXCEPT ![f].enabled = ok]
  /\ UNCHANGED <<timeVars, readable, sigVars, hooks, idle_fd, loopVars, exit,
                 runVars, todo>>

\* ev_fd_disable and ev_timer_disable.
DisableFd(f) ==
  /\ Building /\ f \in Enabled \ SigFd
  /\ fds' = [fds EXCEPT ![f].enabled = FALSE]
  /\ kset' = IF f \in Bound THEN kset \ {f} ELSE kset
  /\ UNCHANGED <<timeVars, readable, sigVars, hooks, idle_fd, loopVars, exit,
                 runVars, todo, faults>>

----------------------------------------------------------------------------
(* Timer sources                                                           *)

\* timerfd_settime forgets the expirations that were not read.
SetTime(t, arm) ==
  /\ armed' = IF arm THEN armed \cup {t} ELSE armed \ {t}
  /\ readable' = readable \ {t}

\* ev_timer_new.
TimerNew(t, arm) ==
  /\ Building /\ tref[t] = 0 /\ Room
  /\ tref' = [tref EXCEPT ![t] = 1] /\ own' = own \cup {t}
  /\ fds' = [fds EXCEPT ![t] = [ref |-> 1, bound |-> FALSE, enabled |-> TRUE]]
  /\ SetTime(t, arm)
  /\ UNCHANGED <<kset, sigVars, hooks, idle_fd, loopVars, exit, runVars, todo,
                 faults>>

\* ev_eloop_add_timer.
AddTimer(t, ok) ==
  /\ Building /\ t \in own /\ t \notin Bound
  /\ IF t \in Enabled THEN EpollAdd(t, ok)
     ELSE ok /\ UNCHANGED <<kset, faults>>
  /\ IF ok THEN /\ fds' = [fds EXCEPT ![t].bound = TRUE, ![t].ref = @ + 1]
                /\ tref' = [tref EXCEPT ![t] = @ + 1]
                /\ lref' = lref + 1
     ELSE UNCHANGED <<fds, tref, lref>>
  /\ UNCHANGED <<own, armed, readable, sigVars, hooks, idle_fd, held, exit,
                 runVars, todo>>

\* ev_eloop_new_timer: ev_timer_new, ev_eloop_add_timer, ev_timer_unref.
NewTimer(t, arm, ok) ==
  /\ Building /\ tref[t] = 0 /\ Room
  /\ EpollAdd(t, ok)
  /\ IF ok THEN /\ fds' = [fds EXCEPT ![t] = [ref |-> 2, bound |-> TRUE,
                                              enabled |-> TRUE]]
                /\ tref' = [tref EXCEPT ![t] = 1]
                /\ lref' = lref + 1
                /\ SetTime(t, arm)
     ELSE UNCHANGED <<fds, tref, lref, armed, readable>>
  /\ UNCHANGED <<own, sigVars, hooks, idle_fd, held, exit, runVars, todo>>

\* ev_eloop_rm_timer; the last reference of the timer frees its ev_fd too and
\* closes the timerfd.
RmTimer(t) ==
  /\ Calling /\ t \in Bound
  /\ RemoveFd(t, hooks)
  /\ tref' = [tref EXCEPT ![t] = @ - 1]
  /\ IF tref[t] = 1
     THEN fds' = [fds EXCEPT ![t] = FdUnref(Released(t))] /\ SetTime(t, FALSE)
     ELSE fds' = [fds EXCEPT ![t] = Released(t)] /\ UNCHANGED <<armed, readable>>
  /\ UNCHANGED <<own, sigVars, idle_fd, held, exit, runVars, faults>>

\* ev_timer_unref by the creator.
TimerUnref(t) ==
  /\ Calling /\ t \in own
  /\ own' = own \ {t} /\ tref' = [tref EXCEPT ![t] = @ - 1]
  /\ IF tref[t] = 1
     THEN fds' = [fds EXCEPT ![t] = FdUnref(@)] /\ SetTime(t, FALSE)
     ELSE UNCHANGED <<fds, armed, readable>>
  /\ UNCHANGED <<kset, sigVars, hooks, idle_fd, loopVars, exit, runVars, todo,
                 faults>>

\* ev_timer_update.
TimerUpdate(t, arm) ==
  /\ Building /\ tref[t] > 0
  /\ SetTime(t, arm)
  /\ UNCHANGED <<srcVars, tref, own, sigVars, hooks, idle_fd, loopVars, exit,
                 runVars, todo, faults>>

\* ev_timer_drain.
TimerDrain(t) ==
  /\ Building /\ t \in readable /\ tref[t] > 0
  /\ readable' = readable \ {t}
  /\ UNCHANGED <<srcVars, timeVars, sigVars, hooks, idle_fd, loopVars, exit,
                 runVars, todo, faults>>

----------------------------------------------------------------------------
(* Shared signals                                                          *)

\* ev_eloop_register_signal_cb, for a signal that has callbacks already, and
\* for a new one (signal_new).
RegisterSignal(s, c) ==
  /\ Building /\ sig[s] # NoSig /\ Room
  /\ \E a \in Malloc(Node \ InUse) :
       hooks' = [hooks EXCEPT ![sig[s].hook] = HookAdd(@, a, c, FALSE)]
  /\ UNCHANGED <<srcVars, timeVars, readable, sigVars, idle_fd, loopVars, exit,
                 runVars, todo, faults>>

SignalNew(s, c, ok) ==
  /\ Building /\ sig[s] = NoSig /\ Room
  /\ \E f \in Malloc({x \in File : fds[x].ref = 0}),
        k \in Malloc({x \in SigHook : ~hooks[x].alive}),
        a \in Malloc(Node \ InUse) :
       /\ EpollAdd(f, ok)
       /\ IF ok THEN /\ fds' = [fds EXCEPT ![f] = [ref |-> 1, bound |-> TRUE,
                                                   enabled |-> TRUE]]
                     /\ hooks' = [hooks EXCEPT
                                    ![k] = HookAdd(NewHook, a, c, FALSE)]
                     /\ sig' = [sig EXCEPT ![s] = [fd |-> f, hook |-> k]]
                     /\ lref' = lref + 1
          ELSE UNCHANGED <<fds, hooks, sig, lref>>
  /\ UNCHANGED <<timeVars, readable, pending, idle_fd, held, exit, runVars,
                 todo>>

\* ev_eloop_unregister_signal_cb; the last callback takes the shared signal
\* with it (signal_free).
UnregisterSignal(s, c) ==
  /\ Calling /\ sig[s] # NoSig
  /\ LET k == sig[s].hook
         f == sig[s].fd
         h == HookRm(hooks[k], c)
     IN  IF h.num = 0
         THEN /\ RemoveFd(f, [hooks EXCEPT ![k] = HookFree(h)])
              /\ fds' = [fds EXCEPT ![f] = Released(f)]
              /\ sig' = [sig EXCEPT ![s] = NoSig]
         ELSE /\ hooks' = [hooks EXCEPT ![k] = h]
              /\ UNCHANGED <<fds, kset, todo, lref, sig>>
  /\ UNCHANGED <<timeVars, readable, pending, idle_fd, held, exit, runVars,
                 faults>>

----------------------------------------------------------------------------
(* Idle sources                                                            *)

\* ev_eloop_register_idle_cb with the flags EV_ONESHOT and EV_SINGLE.
RegisterIdle(c, oneshot, single) ==
  /\ Building /\ Room
  /\ \E a \in Malloc(Node \ InUse) :
       hooks' = [hooks EXCEPT ![Idlers] =
                   IF single THEN HookAddSingle(@, a, c, oneshot)
                   ELSE HookAdd(@, a, c, oneshot)]
  /\ idle_fd' = TRUE
  /\ UNCHANGED <<srcVars, timeVars, readable, sigVars, loopVars, exit, runVars,
                 todo, faults>>

\* ev_eloop_unregister_idle_cb.
UnregisterIdle(c, single) ==
  /\ Calling
  /\ hooks' = [hooks EXCEPT ![Idlers] =
                 IF single THEN HookRmAll(@, c) ELSE HookRm(@, c)]
  /\ UNCHANGED <<srcVars, timeVars, readable, sigVars, idle_fd, loopVars, exit,
                 runVars, todo, faults>>

----------------------------------------------------------------------------
(* The loop                                                                *)

\* ev_eloop_new, and nothing registered.
Init ==
  /\ fds = [f \in Fd |-> NoFd] /\ kset = {}
  /\ tref = [t \in Timer |-> 0] /\ own = {} /\ armed = {}
  /\ readable = {} /\ sig = [s \in Signal |-> NoSig] /\ pending = {}
  /\ hooks = [k \in Hook |-> IF k = Idlers THEN NewHook ELSE NoHook]
  /\ idle_fd = FALSE /\ lref = 1 /\ held = TRUE /\ exit = FALSE
  /\ pc = "setup" /\ todo = <<>> /\ size = Events /\ call = NoCall
  /\ faults = 0

\* The head of ev_eloop_run.
Run ==
  /\ pc = "setup"
  /\ pc' = "top" /\ exit' = FALSE
  /\ UNCHANGED <<srcVars, timeVars, readable, sigVars, hooks, idle_fd,
                 loopVars, size, call, todo, faults>>

\* ev_eloop_exit.
Exit ==
  /\ Building /\ ~exit
  /\ exit' = TRUE
  /\ UNCHANGED <<srcVars, timeVars, readable, sigVars, hooks, idle_fd,
                 loopVars, runVars, todo, faults>>

\* ev_eloop_run sees the exit flag and returns.
Leave ==
  /\ pc = "top" /\ exit
  /\ pc' = "done"
  /\ UNCHANGED <<srcVars, timeVars, readable, sigVars, hooks, idle_fd,
                 loopVars, exit, size, call, todo, faults>>

Ready ==
  {f \in kset : IF f \in SigFd THEN SigOf(f) \in pending ELSE f \in readable}
  \cup (IF idle_fd THEN {Loop} ELSE {})

\* The orders in which epoll_wait may report the sources of S.
Orders(S) ==
  {q \in [1..Cardinality(S) -> S] : \A i, j \in DOMAIN q : q[i] = q[j] => i = j}

\* Wait with an array that never grows.
WaitFixed ==
  /\ pc = "top" /\ ~exit /\ Ready # {}
  /\ \E S \in SUBSET Ready :
       /\ Cardinality(S) = Min({size, Cardinality(Ready)})
       /\ todo' \in Orders(S)
  /\ pc' = "batch"
  /\ UNCHANGED <<srcVars, timeVars, readable, sigVars, hooks, idle_fd,
                 loopVars, exit, size, call, faults>>

\* ev_eloop_dispatch collects events, at most cur_fds_size.  If they fill the
\* array it is doubled at the end of the round; no one reads the size before.
Wait ==
  /\ pc = "top" /\ ~exit /\ Ready # {}
  /\ \E S \in SUBSET Ready :
       /\ Cardinality(S) = Min({size, Cardinality(Ready)})
       /\ todo' \in Orders(S)
       /\ size' = IF Cardinality(S) = size THEN 2 * size ELSE size
  /\ pc' = "batch"
  /\ UNCHANGED <<srcVars, timeVars, readable, sigVars, hooks, idle_fd,
                 loopVars, exit, call, faults>>

\* The end of a round.
RoundEnd ==
  /\ pc = "batch" /\ todo = <<>>
  /\ pc' = "top"
  /\ UNCHANGED <<srcVars, timeVars, readable, sigVars, hooks, idle_fd,
                 loopVars, exit, size, call, todo, faults>>

Calls(f, k) == [NoCall EXCEPT !.fd = f, !.hook = k]

\* Is there anything to call for event e?  One that was cleared and one of a
\* source that was disabled since are passed over, timer_cb finds that the
\* timer was set anew or drained, and the signalfd and the eventfd may be
\* empty.
Due(e) ==
  \/ e = Loop /\ idle_fd
  \/ e \in Enabled \ SigFd /\ (e \in Timer => e \in readable)
  \/ e \in SigFd /\ SigOf(e) \in pending

Skip ==
  /\ pc = "batch" /\ todo # <<>> /\ ~Due(todo[1])
  /\ todo' = Tail(todo)
  /\ UNCHANGED <<srcVars, timeVars, readable, sigVars, hooks, idle_fd,
                 loopVars, exit, runVars, faults>>

\* The callback of a file, which may read all the input or leave some, and of
\* a timer, after timer_drain.
CallFd ==
  /\ pc = "batch" /\ todo # <<>> /\ todo[1] \in Fd \ SigFd /\ Due(todo[1])
  /\ todo' = Tail(todo)
  /\ readable' \in {readable \ {todo[1]}}
                   \cup (IF todo[1] \in File THEN {readable} ELSE {})
  /\ pc' = "user" /\ call' = Calls(todo[1], None)
  /\ UNCHANGED <<srcVars, timeVars, sigVars, hooks, idle_fd, loopVars, exit,
                 size, faults>>

\* shared_signal_cb.
CallSignal ==
  /\ pc = "batch" /\ todo # <<>> /\ todo[1] \in SigFd /\ Due(todo[1])
  /\ LET s == SigOf(todo[1])
         k == sig[s].hook
     IN  /\ pending' = pending \ {s}
         /\ hooks' = [hooks EXCEPT ![k] = HookStart(@)]
         /\ call' = Calls(todo[1], k)
  /\ todo' = Tail(todo) /\ pc' = "hook"
  /\ UNCHANGED <<srcVars, timeVars, readable, sig, idle_fd, loopVars, exit,
                 size, faults>>

\* eloop_idle_event.
CallIdle ==
  /\ pc = "batch" /\ todo # <<>> /\ todo[1] = Loop /\ Due(Loop)
  /\ idle_fd' = FALSE
  /\ hooks' = [hooks EXCEPT ![Idlers] = HookStart(@)]
  /\ call' = Calls(Loop, Idlers)
  /\ todo' = Tail(todo) /\ pc' = "hook"
  /\ UNCHANGED <<srcVars, timeVars, readable, sigVars, loopVars, exit, size,
                 faults>>

\* shl_hook_call calls the entry at its cursor,
HookNext ==
  /\ pc = "hook" /\ ~AtHead(hooks[call.hook])
  /\ LET h == hooks[call.hook]
     IN  /\ hooks' = [hooks EXCEPT ![call.hook] = HookStep(@)]
         /\ call' = [call EXCEPT !.entry = Kept(h.list[IndexOf(h, h.cur)])]
  /\ pc' = "user"
  /\ UNCHANGED <<srcVars, timeVars, readable, sigVars, idle_fd, loopVars, exit,
                 size, todo, faults>>

\* until it is back at the head; eloop_idle_event then sees to the next round.
HookEnd ==
  /\ pc = "hook" /\ AtHead(hooks[call.hook])
  /\ hooks' = [hooks EXCEPT ![call.hook] = HookStop(@)]
  /\ idle_fd' = (idle_fd \/ (call.hook = Idlers /\ hooks[Idlers].num > 0))
  /\ pc' = "batch" /\ call' = NoCall
  /\ UNCHANGED <<srcVars, timeVars, readable, sigVars, loopVars, exit, size,
                 todo, faults>>

\* A callback of the program returns.
Return ==
  /\ pc = "user"
  /\ pc' = IF call.hook = None THEN "batch" ELSE "hook"
  /\ call' = IF call.hook = None THEN NoCall ELSE [call EXCEPT !.entry = NoEntry]
  /\ hooks' = IF call.entry.oneshot
              THEN [hooks EXCEPT ![call.hook].num = @ - 1] ELSE hooks
  /\ UNCHANGED <<srcVars, timeVars, readable, sigVars, idle_fd, loopVars, exit,
                 size, todo, faults>>

\* ev_eloop_unref by the program.
LoopUnref ==
  /\ pc = "done" /\ held
  /\ held' = FALSE /\ lref' = lref - 1 /\ hooks' = LoopDrop(hooks)
  /\ UNCHANGED <<srcVars, timeVars, readable, sigVars, idle_fd, exit, runVars,
                 todo, faults>>

----------------------------------------------------------------------------
(* The kernel                                                              *)

Input(f) ==
  /\ f \in (Bound \cap File) \ (SigFd \cup readable)
  /\ readable' = readable \cup {f}
  /\ UNCHANGED <<srcVars, timeVars, sigVars, hooks, idle_fd, loopVars, exit,
                 runVars, todo, faults>>

\* The timer was set for once, or to repeat.
Expire(t, again) ==
  /\ t \in armed /\ ~(again /\ t \in readable)
  /\ readable' = readable \cup {t}
  /\ armed' = IF again THEN armed ELSE armed \ {t}
  /\ UNCHANGED <<srcVars, tref, own, sigVars, hooks, idle_fd, loopVars, exit,
                 runVars, todo, faults>>

Raise(s) ==
  /\ sig[s] # NoSig /\ s \notin pending
  /\ pending' = pending \cup {s}
  /\ UNCHANGED <<srcVars, timeVars, readable, sig, hooks, idle_fd, loopVars,
                 exit, runVars, todo, faults>>

----------------------------------------------------------------------------
User ==
  \/ \E f \in File : RmFd(f) \/ \E ok \in BOOLEAN : NewFd(f, ok)
  \/ \E f \in Fd : DisableFd(f) \/ \E ok \in BOOLEAN : EnableFd(f, ok)
  \/ \E t \in Timer, arm, ok \in BOOLEAN :
       TimerNew(t, arm) \/ AddTimer(t, ok) \/ NewTimer(t, arm, ok)
       \/ TimerUpdate(t, arm)
  \/ \E t \in Timer : RmTimer(t) \/ TimerUnref(t) \/ TimerDrain(t)
  \/ \E s \in Signal, c \in Callback :
       RegisterSignal(s, c) \/ UnregisterSignal(s, c)
       \/ \E ok \in BOOLEAN : SignalNew(s, c, ok)
  \/ \E c \in Callback, oneshot, single \in BOOLEAN :
       RegisterIdle(c, oneshot, single) \/ UnregisterIdle(c, single)
  \/ Exit
  \/ LoopUnref

Kernel ==
  \/ \E f \in File : Input(f)
  \/ \E t \in Timer, again \in BOOLEAN : Expire(t, again)
  \/ \E s \in Signal : Raise(s)

Dispatch ==
  Run \/ Leave \/ Wait \/ RoundEnd \/ Skip \/ CallFd \/ CallSignal \/ CallIdle
  \/ HookNext \/ HookEnd \/ Return

Next == User \/ Kernel \/ Dispatch

Spec == Init /\ [][Next]_vars

\* The loop runs in the program's only thread, and callbacks return.
FairSpec == Spec /\ WF_vars(Dispatch)

----------------------------------------------------------------------------
(* Properties                                                              *)

\* The events that were collected and not handled yet are of sources that
\* are still bound, whatever the callbacks before them removed and whatever
\* malloc made of the memory: "this makes sure that the current dispatcher
\* will not get confused or read invalid memory" (ev_eloop_rm_fd).
BatchLive == \A i \in DOMAIN todo : todo[i] \in Bound \cup {Loop, None}

\* The kernel watches the sources that are bound and enabled, and no other:
\* an event never carries a pointer to freed memory, and no source that
\* should be called is deaf, through any order of enabling, adding, failing
\* and removing.
WatchExact == kset = Bound \cap Enabled

Count(b) == IF b THEN 1 ELSE 0

\* Every reference has an owner: the loop's are the program's and one for
\* each bound source, a timer's are its creator's and the loop's, and the
\* timer holds one of its ev_fd.  Nothing is freed early, nothing is kept.
RefsExact ==
  /\ lref = Count(held) + Cardinality(Bound)
  /\ \A t \in Timer : tref[t] = Count(t \in own) + Count(t \in Bound)
  /\ \A f \in Fd : fds[f].ref =
       Count(f \in Bound) + Count(f \in Timer /\ tref[f] > 0)

\* While a list is called, and only then, its cursor is the address of an
\* entry that is on it now or the head: shl_hook_call goes on from there after
\* each callback, and callbacks remove entries of any kind, the one at the
\* cursor and their own included, and malloc gives their addresses out again.
\* "if *_call() is running we must not disturb it" (hook.h).
CursorLive ==
  \A k \in Hook :
    /\ hooks[k].cur # None <=> call.hook = k
    /\ hooks[k].cur \in At(hooks[k]) \cup {ListHead, None}

CalledIdle(c) == call.hook = Idlers /\ call.entry.cb = c

\* An idle source that stays registered is called again and again, whatever
\* other sources have to say, and whatever callbacks register and remove.
IdleRuns ==
  \A c \in Callback :
    <>[](Has(hooks[Idlers], c) /\ pc # "done") => []<>CalledIdle(c)

\* A source with input that stays bound and enabled is called in the end.
SourceServed ==
  \A f \in File :
    <>[](f \in Bound \cap Enabled \cap readable /\ pc # "done")
      => []<>(call.fd = f)
=============================================================================
