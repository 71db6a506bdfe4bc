------------------------------ MODULE Devices ------------------------------
(***************************************************************************)
(* The input devices of a seat: the udev monitor that adds, removes and    *)
(* moves them (uterm/monitor.c, the callbacks in seat.c), the list of       *)
(* devices with their file descriptors (input/input.c), and what the        *)
(* keyboards remember between two events (input/input_uxkb.c): modifiers    *)
(* and the key that repeats.                                                *)
(*                                                                         *)
(* Two lists describe the same devices.  An entry of the monitor keeps a    *)
(* pointer to the input device; the input device is freed by either side,   *)
(* and memory is used again.  External: the kernel and udev, the users who  *)
(* plug devices and press keys, the loginctl that moves a device to another *)
(* seat, and the VT and the seat that wake input up and put it to sleep.    *)
(***************************************************************************)
EXTENDS Naturals, Sequences, FiniteSets

CONSTANTS
  Node,          \* device nodes
  Keyboard,      \* the nodes with keys
  Useful,        \* the nodes input_can_use accepts
  Dev, NoDev,    \* addresses of struct input_dev
  Key,           \* keys that repeat; there is one modifier besides
  Silent,        \* of these, the keys without keysyms while the modifier is down
  Faults,        \* a node that is there may fail to open
  Reuse,         \* an address may be used again while an entry still has it
  MaxQueue,      \* bound on the udev events that wait
  MaxAwake       \* bound on the wake-up count

Modifier == "modifier"
NoKey == "no key"

ASSUME DevicesAssumption ==
  /\ Keyboard \subseteq Useful /\ Useful \subseteq Node
  /\ NoDev \notin Dev
  /\ Modifier \notin Key /\ NoKey \notin Key /\ Silent \subseteq Key
  /\ Faults \in BOOLEAN /\ Reuse \in BOOLEAN
  /\ MaxQueue \in Nat /\ MaxAwake \in Nat \ {0}

VARIABLES
  present,       \* the nodes that exist
  ours,          \* the nodes whose ID_SEAT names this seat
  queue,         \* udev events that the monitor has not received
  mon,           \* the nodes in monitor.devices
  handle,        \* the data of each entry: an address, which may be dangling
  listed,        \* input.devices
  node,          \* the node of each device
  initialized,   \* the devices that were probed
  rfds,        \* the devices with rfd >= 0
  stale,         \* of these, the ones whose hardware is gone (EV_HUP)
  awake,         \* input.awake
  down,          \* the keys held down on each node
  fifo,          \* key events a device has not read: at most one
  mods,          \* the devices whose xkb state has the modifier down
  repeating,     \* the key for which repeat_timer runs
  lost           \* history: entries whose node was there and failed to open

hwVars   == <<present, ours, queue>>
monVars  == <<mon, handle>>
devVars  == <<listed, node, initialized, rfds, stale>>
keyVars  == <<fifo, mods, repeating>>
devicesVars == <<hwVars, monVars, devVars, awake, down, keyVars, lost>>

Keys == Key \cup {Modifier}
NoEvent == <<>>

DevicesTypeOK ==
  /\ present \subseteq Node /\ ours \subseteq Node /\ mon \subseteq Node
  /\ queue \in Seq([act : {"add", "remove", "change"}, node : Node, ours : BOOLEAN])
  /\ handle \in [Node -> Dev \cup {NoDev}]
  /\ listed \subseteq Dev /\ node \in [Dev -> Node]
  /\ initialized \subseteq listed /\ rfds \subseteq initialized
  /\ stale \subseteq rfds
  /\ awake \in 0 .. MaxAwake
  /\ down \in [Node -> SUBSET Keys]
  /\ fifo \in [Dev -> {NoEvent} \cup (Keys \X BOOLEAN)]
  /\ mods \subseteq listed
  /\ repeating \in [Dev -> Key \cup {NoKey}]
  /\ lost \subseteq Node

-----------------------------------------------------------------------------
(***************************************************************************)
(* The list of devices as a record that the functions of input.c turn into *)
(* another one.                                                            *)
(***************************************************************************)
Now == [mon |-> mon, handle |-> handle, listed |-> listed, node |-> node,
        initialized |-> initialized, rfds |-> rfds, stale |-> stale,
        fifo |-> fifo, mods |-> mods, repeating |-> repeating, lost |-> lost]

Store(r) ==
  /\ mon' = r.mon /\ handle' = r.handle /\ listed' = r.listed /\ node' = r.node
  /\ initialized' = r.initialized /\ rfds' = r.rfds /\ stale' = r.stale
  /\ fifo' = r.fifo /\ mods' = r.mods /\ repeating' = r.repeating /\ lost' = r.lost

\* input_sleep_dev for the devices D: the repeat timer is stopped, and what was
\* not read is gone with the fd.
SleepDevs(r, D) ==
  [r EXCEPT !.rfds = @ \ D, !.stale = @ \ D,
            !.fifo = [d \in Dev |-> IF d \in D THEN NoEvent ELSE @[d]],
            !.repeating = [d \in Dev |-> IF d \in D THEN NoKey ELSE @[d]]]

\* input_free_dev.
FreeDevs(r, D) ==
  [SleepDevs(r, D) EXCEPT !.listed = @ \ D, !.initialized = @ \ D, !.mods = @ \ D]

NodesOf(r, D) == {r.node[d] : d \in D}

\* The sets of devices of D that input_open_dev opens.
Openable(r, D) ==
  LET may == {d \in D : r.node[d] \in present}
  IN  IF Faults THEN SUBSET may ELSE {may}

\* The devices D are opened, out of those that should have been.
Opened(r, D, should) ==
  [r EXCEPT !.rfds = @ \cup D,
            !.lost = @ \cup {n \in NodesOf(r, should \ D) : n \in present}]

\* The addresses malloc may return.
Free(r) == {d \in Dev \ r.listed : Reuse \/ \A n \in Node : r.handle[n] # d}

\* input_add_dev, as the set of its results: while input is awake the device is
\* opened and probed (input_init_dev), otherwise it waits in the list.  A
\* device of no use is forgotten, and the entry has no data.
InputAdd(r, n) ==
  UNION {LET q == [r EXCEPT !.node[d] = n, !.handle[n] = d]
         IN  IF awake = 0 THEN {[q EXCEPT !.listed = @ \cup {d}]}
             ELSE {IF S = {} \/ n \notin Useful
                   THEN [Opened(r, {}, {}) EXCEPT !.handle[n] = NoDev,
                         !.lost = IF S = {} THEN @ \cup ({n} \cap present) ELSE @]
                   ELSE [Opened(q, S, {d}) EXCEPT !.listed = @ \cup S,
                                                  !.initialized = @ \cup S] :
                     S \in Openable(q, {d})} : d \in Free(r)}

\* input_remove_dev: the device is looked for by its address.
InputRemove(r, d) == IF d \in r.listed THEN FreeDevs(r, {d}) ELSE r

-----------------------------------------------------------------------------
(***************************************************************************)
(* The monitor.                                                            *)
(***************************************************************************)
\* mon_free_dev.
MonFree(r, n) ==
  [InputRemove(r, r.handle[n]) EXCEPT !.mon = @ \ {n}, !.handle[n] = NoDev,
                                      !.lost = @ \ {n}]

\* The hardware an event is about is gone by now, with its parent in sysfs.
Outdated(n) == \E i \in 2 .. Len(queue) : queue[i].node = n /\ queue[i].act = "remove"

\* Mutation: monitor_udev_add does not look for the node in its list.
UdevAddAgain(r, n) ==
  IF n \notin present \/ Outdated(n) \/ n \notin ours THEN {r}
  ELSE InputAdd([r EXCEPT !.mon = @ \cup {n}], n)

\* monitor_udev_add and mon_new_dev.  The seat is the one of the parent device,
\* as it is now, not as it was when the event was sent.
UdevAdd(r, n) ==
  IF n \in r.mon \/ n \notin present \/ Outdated(n) \/ n \notin ours THEN {r}
  ELSE InputAdd([r EXCEPT !.mon = @ \cup {n}], n)

UdevRemove(r, n) == IF n \in r.mon THEN {MonFree(r, n)} ELSE {r}

\* monitor_udev_change: a device that switched seats is removed and added
\* again; an unknown one may have switched to this seat.
UdevChange(r, n, here) ==
  IF n \in r.mon /\ here THEN {r}
  ELSE UdevAdd(IF n \in r.mon THEN MonFree(r, n) ELSE r, n)

\* monitor_udev_event.
UdevEvent ==
  /\ queue # <<>>
  /\ queue' = Tail(queue)
  /\ LET e == Head(queue)
     IN  \E r \in CASE e.act = "add"    -> UdevAdd(Now, e.node)
                    [] e.act = "remove" -> UdevRemove(Now, e.node)
                    [] e.act = "change" -> UdevChange(Now, e.node, e.ours) : Store(r)
  /\ UNCHANGED <<present, ours, awake, down>>

-----------------------------------------------------------------------------
(***************************************************************************)
(* Waking up and going to sleep.                                           *)
(***************************************************************************)
\* input_init_dev for devices that were never probed, and input_wake_up_dev:
\* uxkb_dev_wake_up starts from a new xkb state without the keys that are held.
WakeDevs(r, D) ==
  {[Opened(r, S, D) EXCEPT !.initialized = @ \cup S, !.mods = @ \ S] :
     S \in Openable(r, D)}

\* Mutation: only the devices that were probed before are woken up.
WakeUpProbed ==
  /\ awake < MaxAwake
  /\ awake' = awake + 1
  /\ \/ awake > 0 /\ UNCHANGED <<monVars, devVars, keyVars, lost>>
     \/ awake = 0 /\ \E r \in WakeDevs(Now, initialized) :
                        Store(FreeDevs(r, initialized \ r.rfds))
  /\ UNCHANGED <<hwVars, down>>

\* input_wake_up: what cannot be opened, or is of no use, is freed.
WakeUp ==
  /\ awake < MaxAwake
  /\ awake' = awake + 1
  /\ \/ awake > 0 /\ UNCHANGED <<monVars, devVars, keyVars, lost>>
     \/ /\ awake = 0
        /\ LET usable == {d \in listed : node[d] \in Useful}
           IN  \E r \in WakeDevs(Now, usable) : Store(FreeDevs(r, listed \ r.rfds))
  /\ UNCHANGED <<hwVars, down>>

\* input_sleep.
Sleep ==
  /\ awake > 0
  /\ awake' = awake - 1
  /\ Store(IF awake = 1 THEN SleepDevs(Now, rfds) ELSE Now)
  /\ UNCHANGED <<hwVars, down>>

Typing == {d \in initialized : node[d] \in Keyboard}

\* Mutation: the keyboards are opened again, asleep or not.
UpdateKeymapOpens ==
  /\ LET fresh == [SleepDevs(Now, Typing) EXCEPT !.mods = @ \ Typing]
     IN  \E r \in WakeDevs(fresh, Typing) : Store(r)
  /\ UNCHANGED <<hwVars, awake, down>>

\* input_update_keymap: every keyboard is closed and gets a new xkb state, and
\* is opened again if input is awake.  One that fails to open stays in the list.
UpdateKeymap ==
  /\ LET fresh == [SleepDevs(Now, Typing) EXCEPT !.mods = @ \ Typing]
     IN  \E r \in (IF awake = 0 THEN {fresh} ELSE WakeDevs(fresh, Typing)) : Store(r)
  /\ UNCHANGED <<hwVars, awake, down>>

-----------------------------------------------------------------------------
(***************************************************************************)
(* input_data_dev.                                                         *)
(***************************************************************************)
\* EV_HUP: the device is freed, the monitor's entry keeps its address.
Hangup(d) ==
  /\ d \in stale
  /\ Store(FreeDevs(Now, {d}))
  /\ UNCHANGED <<hwVars, awake, down>>

\* Mutation: the release of a key does not stop its repeat.
RepeatsOn(d, k, pressed) == IF k # Modifier /\ pressed THEN k ELSE repeating[d]

\* uxkb_dev_repeat: another key takes over; the release of the key that
\* repeats stops it; modifiers only change what it repeats as.
Repeats(d, k, pressed) ==
  IF k = Modifier THEN repeating[d]
  ELSE IF pressed THEN k
  ELSE IF k = repeating[d] THEN NoKey ELSE repeating[d]

\* uxkb_dev_process: the xkb state follows the key; a key without keysyms at
\* the current level, and a press that is part of a compose sequence, go no
\* further.
ReadKey(d) ==
  /\ d \in rfds \ stale /\ fifo[d] # NoEvent
  /\ LET k == fifo[d][1]
         pressed == fifo[d][2]
     IN  /\ mods' = IF k # Modifier THEN mods
                    ELSE IF pressed THEN mods \cup {d} ELSE mods \ {d}
         /\ \E composing \in {FALSE, pressed} :
              repeating' = [repeating EXCEPT ![d] =
                IF composing \/ (k \in Silent /\ d \in mods) THEN @
                ELSE Repeats(d, k, pressed)]
  /\ fifo' = [fifo EXCEPT ![d] = NoEvent]
  /\ UNCHANGED <<hwVars, monVars, devVars, awake, down, lost>>

-----------------------------------------------------------------------------
(***************************************************************************)
(* The kernel, udev and the users.                                         *)
(***************************************************************************)
Sent(act, n, here) ==
  /\ Len(queue) < MaxQueue
  /\ queue' = Append(queue, [act |-> act, node |-> n, ours |-> here])

Plug(n) ==
  /\ n \notin present
  /\ present' = present \cup {n}
  /\ Sent("add", n, n \in ours)
  /\ UNCHANGED <<ours, monVars, devVars, awake, down, keyVars, lost>>

Unplug(n) ==
  /\ n \in present
  /\ present' = present \ {n}
  /\ Sent("remove", n, n \in ours)
  /\ LET gone == {d \in rfds : node[d] = n}
     IN  stale' = stale \cup gone /\ fifo' = [d \in Dev |-> IF d \in gone THEN NoEvent ELSE fifo[d]]
  /\ down' = [down EXCEPT ![n] = {}]
  /\ UNCHANGED <<ours, monVars, listed, node, initialized, rfds, awake, mods, repeating, lost>>

\* The administrator attaches the device to another seat, or to this one.
Attach(n) ==
  /\ n \in present
  /\ ours' = IF n \in ours THEN ours \ {n} ELSE ours \cup {n}
  /\ Sent("change", n, n \notin ours)
  /\ UNCHANGED <<present, monVars, devVars, awake, down, keyVars, lost>>

\* A key is pressed or released: whoever has the node open can read it.
Type(n, k) ==
  /\ n \in present \cap Keyboard
  /\ LET readers == {d \in rfds \ stale : node[d] = n}
     IN  /\ \A d \in readers : fifo[d] = NoEvent
         /\ fifo' = [d \in Dev |-> IF d \in readers THEN <<k, k \notin down[n]>> ELSE fifo[d]]
  /\ down' = [down EXCEPT ![n] = IF k \in @ THEN @ \ {k} ELSE @ \cup {k}]
  /\ UNCHANGED <<hwVars, monVars, devVars, awake, mods, repeating, lost>>

-----------------------------------------------------------------------------
\* uterm_monitor_scan has found the devices that are there; the event of one that
\* was plugged in since uterm_monitor_new is still to be received.  The input
\* object is not awake yet, so that none of them was opened.
DevicesInit ==
  /\ present \in SUBSET Node /\ ours = Node
  /\ queue \in {<<>>} \cup {<<[act |-> "add", node |-> n, ours |-> TRUE]>> : n \in present}
  /\ mon = present
  /\ \E f \in [Node -> Dev] :
       /\ \A n, m \in Node : f[n] = f[m] => n = m
       /\ handle = [n \in Node |-> IF n \in mon THEN f[n] ELSE NoDev]
       /\ node \in [Dev -> Node] /\ \A n \in Node : node[f[n]] = n
  /\ listed = {handle[n] : n \in mon}
  /\ initialized = {} /\ rfds = {} /\ stale = {}
  /\ awake = 0
  /\ down = [n \in Node |-> {}]
  /\ fifo = [d \in Dev |-> NoEvent] /\ mods = {}
  /\ repeating = [d \in Dev |-> NoKey]
  /\ lost = {}

DevicesNext ==
  \/ UdevEvent \/ WakeUp \/ Sleep \/ UpdateKeymap
  \/ \E d \in Dev : Hangup(d) \/ ReadKey(d)
  \/ \E n \in Node : Plug(n) \/ Unplug(n) \/ Attach(n) \/ \E k \in Keys : Type(n, k)

DevicesSpec == DevicesInit /\ [][DevicesNext]_devicesVars

-----------------------------------------------------------------------------
\* While another VT is in front no device is open and no key repeats, whatever
\* was plugged in, moved, or given another keymap in the meantime: what is typed
\* there is not read here (input_sleep, input_add_dev, input_update_keymap).
ClosedAsleep == awake = 0 => rfds = {} /\ \A d \in Dev : repeating[d] = NoKey

\* Once the udev events are read, the awake console listens to the devices of
\* this seat that are plugged in and useful, and to no others, whichever order
\* they came, went and changed seats in, and whether their fd said so first.
Settled ==
  (queue = <<>> /\ awake > 0) =>
    {n \in Node : \E d \in rfds \ stale : node[d] = n} \ lost
      = (present \cap ours \cap Useful) \ lost

\* Every input device belongs to the entry of the monitor that has its address,
\* so that removing an entry frees its own device and no other
\* (input_remove_dev).
HandleBack ==
  \A d \in listed : /\ node[d] \in mon /\ handle[node[d]] = d
                    /\ \A n \in mon : handle[n] = d => n = node[d]

\* When everything was read, a modifier in effect and a key that repeats are
\* held down, also after VT switches and keymap changes with keys held (the
\* comment in uxkb_dev_wake_up).  Keys that lose their keysyms with the
\* modifier are left out: their release may stop nothing.
NothingSticks ==
  \A d \in rfds \ stale :
    fifo[d] = NoEvent =>
      /\ d \in mods => Modifier \in down[node[d]]
      /\ repeating[d] \in down[node[d]] \cup Silent \cup {NoKey}
=============================================================================
