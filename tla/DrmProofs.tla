------------------------------ MODULE DrmProofs ------------------------------
(***************************************************************************)
(* Theorems about DrmVideo, for any number of connectors and CRTCs.        *)
(***************************************************************************)
EXTENDS DrmVideo, FiniteSetTheorems, TLAPS

(***************************************************************************)
(* The functions of drm_shared.c are operators on a record of displays.    *)
(* Good says that it is one the list can hold: every display has a CRTC of *)
(* its own, and framebuffers while it is shown.  Owed says that it has the *)
(* references it owes to the kernel.                                       *)
(***************************************************************************)
Record ==
  [listed : SUBSET Connector, crtc : [Connector -> Crtc \cup {NoCrtc}],
   mode : [Connector -> Mode], blob : [Connector -> Mode],
   online : SUBSET Connector, inuse : SUBSET Connector, buffers : SUBSET Connector,
   refs : [Connector -> Int], leaked : [Crtc -> Nat], vsync : SUBSET Connector, pflip : SUBSET Connector,
   route : [Connector -> Crtc \cup {NoCrtc}], busy : SUBSET Crtc, events : [Crtc -> Nat]]

Good(r) ==
  /\ r \in Record
  /\ r.online \subseteq r.buffers /\ r.inuse \subseteq r.listed /\ r.buffers \subseteq r.listed
  /\ r.vsync \subseteq r.listed /\ r.pflip \subseteq r.vsync
  /\ \A c \in r.listed : r.crtc[c] \in Crtc
  /\ \A c, e \in r.listed : r.crtc[c] = r.crtc[e] => c = e

Due(r, k) == Bit(k \in r.busy) + r.events[k]

Owed(r) ==
  /\ \A c \in r.listed : /\ r.refs[c] <= 1 + Due(r, r.crtc[c])
                         /\ 1 + Due(r, r.crtc[c]) <= r.refs[c] + r.leaked[r.crtc[c]]
  /\ \A k \in Crtc \ {r.crtc[c] : c \in r.listed} : Due(r, k) <= r.leaked[k]

\* A step of drm_shared.c on displays that stay in the list.
Keeps(r, q) ==
  /\ Good(q)
  /\ q.listed = r.listed /\ q.crtc = r.crtc /\ q.inuse = r.inuse
  /\ Owed(r) => Owed(q)

LEMMA KeepsTransitive ==
  ASSUME NEW r, NEW q, NEW s, Keeps(r, q), Keeps(q, s)
  PROVE  Keeps(r, s)
  BY DEF Keeps

LEMMA DueType ==
  ASSUME NEW r, Good(r), NEW k \in Crtc
  PROVE  Due(r, k) \in Nat /\ r.leaked[k] \in Nat
  BY DEF Due, Bit, Good, Record

\* A display takes a reference for every flip it asks for, and gives one back
\* with every event; the flips of CRTCs without a display only get fewer.
LEMMA OwedMoves ==
  ASSUME NEW r, Good(r), NEW q, Good(q),
         q.listed = r.listed, q.crtc = r.crtc, q.leaked = r.leaked,
         \A c \in r.listed : q.refs[c] = r.refs[c] + Due(q, r.crtc[c]) - Due(r, r.crtc[c]),
         \A k \in Crtc \ {r.crtc[c] : c \in r.listed} : Due(q, k) <= Due(r, k),
         Owed(r)
  PROVE  Owed(q)
  <1>1. ASSUME NEW c \in q.listed
        PROVE  /\ q.refs[c] <= 1 + Due(q, q.crtc[c])
               /\ 1 + Due(q, q.crtc[c]) <= q.refs[c] + q.leaked[q.crtc[c]]
    <2>1. r.crtc[c] \in Crtc /\ r.refs[c] \in Int
      BY DEF Good, Record
    <2>2. /\ r.refs[c] <= 1 + Due(r, r.crtc[c])
          /\ 1 + Due(r, r.crtc[c]) <= r.refs[c] + r.leaked[r.crtc[c]]
      BY DEF Owed
    <2> QED
      BY <2>1, <2>2, DueType
  <1>2. ASSUME NEW k \in Crtc \ {q.crtc[c] : c \in q.listed} PROVE Due(q, k) <= q.leaked[k]
    <2>1. Due(q, k) <= Due(r, k) /\ Due(r, k) <= r.leaked[k]
      BY DEF Owed
    <2> QED
      BY <2>1, DueType
  <1> QED
    BY <1>1, <1>2 DEF Owed

\* Owed and Good do not look at the rest.
LEMMA OwedSame ==
  ASSUME NEW r, NEW q, Owed(r),
         q.listed = r.listed, q.crtc = r.crtc, q.leaked = r.leaked, q.refs = r.refs,
         q.busy = r.busy, q.events = r.events
  PROVE  Owed(q)
  BY DEF Owed, Due

LEMMA ReadEventsKeeps ==
  ASSUME NEW r, Good(r)
  PROVE  Keeps(r, ReadEvents(r))
  <1> DEFINE q == ReadEvents(r)
  <1>1. /\ q.listed = r.listed /\ q.crtc = r.crtc /\ q.inuse = r.inuse
        /\ q.busy = r.busy /\ q.events = [k \in Crtc |-> 0]
        /\ q.leaked = r.leaked
        /\ q.refs = [c \in Connector |->
             IF c \in r.listed THEN r.refs[c] - r.events[r.crtc[c]] ELSE r.refs[c]]
        /\ q.pflip = r.pflip \cup {c \in r.vsync : r.events[r.crtc[c]] > 0}
        /\ q.vsync = r.vsync /\ q.online = r.online /\ q.buffers = r.buffers
    BY DEF ReadEvents, Good, Record
  <1>2. q.refs \in [Connector -> Int]
    BY <1>1 DEF Good, Record
  <1>3. q \in Record
    BY <1>1, <1>2 DEF ReadEvents, Good, Record
  <1>4. Good(q)
    BY <1>1, <1>3 DEF Good, Record
  <1>5. ASSUME Owed(r) PROVE Owed(q)
    <2>1. \A k \in Crtc : Due(q, k) = Bit(k \in r.busy) /\ Due(q, k) = Due(r, k) - r.events[k]
                          /\ r.events[k] \in Nat
      BY <1>1 DEF Due, Bit, Good, Record
    <2>2. \A c \in r.listed : /\ r.crtc[c] \in Crtc /\ r.refs[c] \in Int
                              /\ q.refs[c] = r.refs[c] - r.events[r.crtc[c]]
      BY <1>1 DEF Good, Record
    <2> HIDE DEF q
    <2>3. \A k \in Crtc : Due(r, k) \in Nat
      BY DueType
    <2>4. \A c \in r.listed : q.refs[c] = r.refs[c] + Due(q, r.crtc[c]) - Due(r, r.crtc[c])
      BY <2>1, <2>2, <2>3
    <2>5. \A k \in Crtc : Due(q, k) <= Due(r, k)
      BY <2>1, <2>3
    <2> QED
      BY <1>1, <1>4, <1>5, <2>4, <2>5, OwedMoves
  <1> QED
    BY <1>1, <1>4, <1>5 DEF Keeps

LEMMA WaitPflipKeeps ==
  ASSUME NEW r, Good(r)
  PROVE  Keeps(r, WaitPflip(r)) /\ WaitPflip(r).blob = r.blob
  <1> DEFINE done == {r.crtc[c] : c \in r.vsync \ r.pflip} \cap r.busy
             q == [r EXCEPT !.busy = @ \ done,
                            !.events = [k \in Crtc |-> @[k] + Bit(k \in done)]]
  <1>1. CASE r.vsync \subseteq r.pflip
    BY <1>1 DEF WaitPflip, Keeps
  <1>2. CASE ~(r.vsync \subseteq r.pflip)
    <2>1. /\ q.listed = r.listed /\ q.crtc = r.crtc /\ q.inuse = r.inuse
          /\ q.refs = r.refs /\ q.leaked = r.leaked /\ q.busy = r.busy \ done
          /\ q.events = [k \in Crtc |-> r.events[k] + Bit(k \in done)]
          /\ q.blob = r.blob
          /\ q.pflip = r.pflip /\ q.vsync = r.vsync
          /\ q.online = r.online /\ q.buffers = r.buffers
      BY DEF Good, Record
    <2> HIDE DEF done
    <2>2. q \in Record
      <3>1. q.events \in [Crtc -> Nat] /\ q.busy \subseteq Crtc
        BY <2>1 DEF Good, Record, Bit
      <3> QED
        BY <3>1, <2>1 DEF Good, Record
    <2> HIDE DEF q
    <2>3. Good(q)
      BY <2>1, <2>2 DEF Good
    <2>4. ASSUME Owed(r) PROVE Owed(q)
      <3>1. done \subseteq r.busy
        BY DEF done
      <3>2. \A k \in Crtc : Due(q, k) = Due(r, k)
        BY <2>1, <3>1 DEF Due, Bit, Good, Record
      <3>3. \A c \in r.listed : r.crtc[c] \in Crtc /\ r.refs[c] \in Int
        BY DEF Good, Record
      <3>4. \A k \in Crtc : Due(r, k) \in Nat
        BY DueType
      <3>5. \A c \in r.listed : q.refs[c] = r.refs[c] + Due(q, r.crtc[c]) - Due(r, r.crtc[c])
        BY <2>1, <3>2, <3>3, <3>4
      <3>6. \A k \in Crtc : Due(q, k) <= Due(r, k)
        BY <3>2, <3>4
      <3> QED
        BY <2>1, <2>3, <2>4, <3>5, <3>6, OwedMoves
    <2>5. Keeps(r, q)
      BY <2>1, <2>3, <2>4 DEF Keeps
    <2>6. WaitPflip(r) = ReadEvents(q)
      BY <1>2 DEF WaitPflip, q, done
    <2>7. ReadEvents(q).blob = q.blob
      BY <2>2 DEF ReadEvents, Record
    <2> QED
      BY <2>1, <2>3, <2>5, <2>6, <2>7, ReadEventsKeeps, KeepsTransitive
  <1> QED
    BY <1>1, <1>2

LEMMA PflipsKeeps ==
  ASSUME NEW r, Good(r)
  PROVE  Keeps(r, Pflips(r))
  BY OwedSame DEF Pflips, Keeps, Good, Record

LEMMA UndoneKeeps ==
  ASSUME NEW r, Good(r)
  PROVE  Keeps(r, Undone(r))
  BY OwedSame DEF Undone, Keeps, Good, Record

LEMMA RoutedType ==
  ASSUME NEW r, Good(r), NEW S \in SUBSET r.listed
  PROVE  Routed(r, S) \in [Connector -> Crtc \cup {NoCrtc}]
  BY DEF Routed, CrtcsOf, Good, Record

\* The commit takes a reference for the event it queues, and the flip that was
\* outstanding on a CRTC becomes an event.
LEMMA CommittedKeeps ==
  ASSUME NEW r, Good(r)
  PROVE  Keeps(r, Committed(r))
  <1> DEFINE q == Committed(r)
             used == CrtcsOf(r, r.listed)
  <1>1. /\ q.listed = r.listed /\ q.crtc = r.crtc /\ q.inuse = r.inuse
        /\ q.refs = [c \in Connector |-> r.refs[c] + Bit(c \in r.listed)]
        /\ q.leaked = r.leaked /\ q.busy = r.busy \ used
        /\ q.events = [k \in Crtc |-> IF k \in used THEN r.events[k] + 1 + Bit(k \in r.busy)
                                      ELSE r.events[k]]
        /\ q.vsync = r.listed /\ q.pflip = r.pflip
        /\ q.online = r.listed /\ q.buffers = r.listed
        /\ q.route = Routed(r, r.listed) /\ q.mode = r.mode /\ q.blob = r.blob
    BY DEF Committed, Good, Record
  <1>2. /\ q.refs \in [Connector -> Int] /\ q.events \in [Crtc -> Nat]
        /\ q.route \in [Connector -> Crtc \cup {NoCrtc}]
    BY <1>1, RoutedType DEF Good, Record, Bit
  <1>3. q \in Record
    <2>1. q = [r EXCEPT !.refs = q.refs, !.vsync = q.vsync, !.events = q.events,
                        !.busy = q.busy, !.route = q.route,
                        !.online = q.online, !.buffers = q.buffers]
      BY DEF Committed, Good, Record
    <2> HIDE DEF q
    <2> QED
      BY <1>1, <1>2, <2>1 DEF Good, Record
  <1>4. Good(q)
    <2> HIDE DEF q, used
    <2> QED
      BY <1>1, <1>3 DEF Good
  <1>5. ASSUME Owed(r) PROVE Owed(q)
    <2>1. \A c \in r.listed : r.crtc[c] \in used /\ r.crtc[c] \in Crtc /\ r.refs[c] \in Int
                             /\ q.refs[c] = r.refs[c] + 1
      BY <1>1 DEF CrtcsOf, Good, Record, Bit
    <2>2. used = {r.crtc[c] : c \in r.listed}
      BY DEF CrtcsOf
    <2> HIDE DEF q, used
    <2>3. \A k \in Crtc : Due(q, k) = IF k \in used THEN Due(r, k) + 1 ELSE Due(r, k)
      BY <1>1 DEF Due, Bit, Good, Record
    <2>4. \A k \in Crtc : Due(r, k) \in Nat
      BY DueType
    <2>5. \A c \in r.listed : q.refs[c] = r.refs[c] + Due(q, r.crtc[c]) - Due(r, r.crtc[c])
      BY <2>1, <2>3, <2>4
    <2>6. \A k \in Crtc \ {r.crtc[c] : c \in r.listed} : Due(q, k) <= Due(r, k)
      BY <2>2, <2>3, <2>4
    <2> QED
      BY <1>1, <1>4, <1>5, <2>5, <2>6, OwedMoves
  <1> QED
    BY <1>1, <1>4, <1>5 DEF Keeps

LEMMA PerformModesetKeeps ==
  ASSUME NEW r, Good(r), NEW master, NEW a \in PerformModeset(r, master)
  PROVE  Keeps(r, a.r)
  <1> DEFINE w == WaitPflip(r)
  <1>1. Keeps(r, w) /\ Good(w)
    BY WaitPflipKeeps DEF Keeps
  <1>2. a.r = Undone(w) \/ a.r = Committed(w)
    BY DEF PerformModeset
  <1>3. Keeps(w, Undone(w)) /\ Keeps(w, Committed(w))
    BY <1>1, UndoneKeeps, CommittedKeeps
  <1> HIDE DEF w
  <1> QED
    BY <1>1, <1>2, <1>3, KeepsTransitive

LEMMA LegacyModesetKeeps ==
  ASSUME NEW r, Good(r), NEW master, NEW a \in LegacyModeset(r, master)
  PROVE  Keeps(r, a.r) /\ a.ret = "ok"
  <1> DEFINE u == Undone(WaitPflip(r))
  <1>1. Keeps(r, u) /\ Good(u)
    BY WaitPflipKeeps, UndoneKeeps, KeepsTransitive DEF Keeps
  <1>2. PICK S \in SUBSET r.listed :
          a = [ret |-> "ok",
               r |-> [u EXCEPT !.online = @ \cup S, !.buffers = @ \cup S,
                               !.route = Routed(r, S)]]
    BY DEF LegacyModeset
  <1>3. Routed(r, S) \in [Connector -> Crtc \cup {NoCrtc}]
    BY RoutedType
  <1> HIDE DEF u
  <1>4. u.listed = r.listed
    BY <1>1 DEF Keeps
  <1> DEFINE v == [u EXCEPT !.online = @ \cup S, !.buffers = @ \cup S, !.route = Routed(r, S)]
  <1>5. v \in Record
    BY <1>1, <1>3, <1>4 DEF Good, Record
  <1>6. /\ v.listed = u.listed /\ v.crtc = u.crtc /\ v.inuse = u.inuse
        /\ v.online = u.online \cup S /\ v.buffers = u.buffers \cup S
        /\ v.vsync = u.vsync /\ v.pflip = u.pflip
        /\ v.refs = u.refs /\ v.leaked = u.leaked /\ v.busy = u.busy /\ v.events = u.events
    BY <1>1 DEF Good, Record
  <1>7. a.r = v /\ a.ret = "ok"
    BY <1>2
  <1> HIDE DEF v
  <1>8. Keeps(u, v)
    BY <1>1, <1>4, <1>5, <1>6, OwedSame DEF Keeps, Good
  <1> QED
    BY <1>1, <1>7, <1>8, KeepsTransitive

\* The second attempt starts from the modes of the first one, and goes back to
\* them if it fails.
LEMMA TryModesetKeeps ==
  ASSUME NEW r, Good(r), NEW master, NEW a \in TryModeset(r, master)
  PROVE  Keeps(r, a.r)
  <1> DEFINE DefaultMode(q) == [q EXCEPT !.mode = [c \in Connector |->
                                  IF c \in q.listed THEN "default" ELSE @[c]]]
  <1>1. CASE legacy
    BY <1>1, LegacyModesetKeeps DEF TryModeset
  <1>2. ASSUME ~legacy, a \in PerformModeset(r, master) PROVE Keeps(r, a.r)
    BY <1>2, PerformModesetKeeps
  <1>3. ASSUME NEW b \in PerformModeset(r, master),
               NEW d \in PerformModeset(DefaultMode(b.r), master),
               a = IF d.ret = "ok" THEN d ELSE [d EXCEPT !.r.mode = b.r.mode]
        PROVE  Keeps(r, a.r)
    <2> DEFINE q == b.r
    <2>1. Keeps(r, q) /\ Good(q)
      BY PerformModesetKeeps DEF Keeps
    <2> HIDE DEF q
    <2>2. Keeps(q, DefaultMode(q)) /\ Good(DefaultMode(q))
      BY <2>1, OwedSame DEF Keeps, Good, Record, Mode
    <2> DEFINE e == DefaultMode(q)
    <2>3. Keeps(e, d.r)
      BY <2>2, PerformModesetKeeps DEF q
    <2> HIDE DEF e
    <2>4. Keeps(r, d.r) /\ Good(d.r)
      BY <2>1, <2>2, <2>3, KeepsTransitive DEF Keeps, e
    <2>5. CASE d.ret = "ok"
      BY <1>3, <2>4, <2>5
    <2>6. CASE d.ret # "ok"
      <3>1. DOMAIN d = {"ret", "r"}
        BY DEF PerformModeset
      <3>2. a.r = [d.r EXCEPT !.mode = q.mode]
        BY <1>3, <2>6, <3>1 DEF q
      <3>3. Keeps(d.r, a.r)
        BY <2>1, <2>4, <3>2, OwedSame DEF Keeps, Good, Record
      <3> QED
        BY <2>4, <3>3, KeepsTransitive
    <2> QED
      BY <2>5, <2>6
  <1> QED
    BY <1>1, <1>2, <1>3 DEF TryModeset

(***************************************************************************)
(* The list of displays and the calls that change it.                      *)
(***************************************************************************)
LEMMA NowOwed == Owed(Now) <=> RefsOwed
  <1>1. \A k : Due(Now, k) = Outstanding(k)
    BY DEF Due, Outstanding, Now
  <1> QED
    BY <1>1 DEF Now, RefsOwed, Owed, Used

LEMMA NowOwedNext == Owed(Now') <=> RefsOwed'
  <1>1. \A k : Due(Now', k) = Outstanding(k)'
    BY DEF Due, Outstanding, Now
  <1> QED
    BY <1>1 DEF Now, RefsOwed, Owed, Used

LEMMA StoreNow ==
  ASSUME NEW r, Good(r), Store(r)
  PROVE  Now' = r
  BY DEF Store, Now, Good, Record

\* A CRTC has at most one display, so what it leaks is what that one held.
LEMMA LeakedType ==
  ASSUME Good(Now), NEW k \in Crtc
  PROVE  /\ Leaked(k) \in Nat /\ leaked[k] \in Nat /\ leaked[k] <= Leaked(k)
         /\ k \notin {crtc[c] : c \in Gone} => Leaked(k) = leaked[k]
         /\ \A c \in Gone : crtc[c] = k => leaked[k] + refs[c] - 1 <= Leaked(k)
  <1> DEFINE held == {c \in Gone : crtc[c] = k /\ refs[c] > 1}
  <1>1. /\ leaked[k] \in Nat /\ \A c \in Gone : c \in listed /\ refs[c] \in Int
        /\ \A c, e \in Gone : crtc[c] = crtc[e] => c = e
    BY DEF Good, Record, Now, Gone
  <1>2. Leaked(k) = leaked[k] + (IF held = {} THEN 0 ELSE refs[CHOOSE c \in held : TRUE] - 1)
    BY DEF Leaked
  <1>3. CASE held = {}
    <2>1. \A c \in Gone : crtc[c] = k => refs[c] <= 1
      BY <1>1, <1>3
    <2>2. Leaked(k) = leaked[k]
      BY <1>1, <1>2, <1>3
    <2> HIDE DEF held
    <2> QED
      BY <1>1, <2>1, <2>2
  <1>4. CASE held # {}
    <2> DEFINE d == CHOOSE c \in held : TRUE
    <2>1. d \in held
      BY <1>4
    <2>2. Leaked(k) = leaked[k] + (refs[d] - 1)
      BY <1>2, <1>4
    <2> HIDE DEF d
    <2>3. d \in Gone /\ crtc[d] = k /\ refs[d] > 1
      BY <2>1
    <2>4. \A c \in Gone : crtc[c] = k => c = d
      BY <1>1, <2>3
    <2> HIDE DEF held
    <2> QED
      BY <1>1, <2>2, <2>3, <2>4
  <1> QED
    BY <1>3, <1>4

\* bind_display gives every new display a CRTC that none of the list has, and
\* display_unbind forgets the others.
LEMMA BindsGood ==
  ASSUME Good(Now), plugged \subseteq Connector, NEW b \in Binds
  PROVE  /\ Good(b) /\ b.inuse \subseteq inuse
         /\ \A c \in b.listed \ listed : b.refs[c] = 1 /\ b.crtc[c] \notin Used
         /\ \A c \in b.listed \cap listed : b.refs[c] = refs[c] /\ b.crtc[c] = crtc[c]
         /\ listed \ b.listed = Gone
         /\ b.busy = busy /\ b.events = events /\ b.leaked = [k \in Crtc |-> Leaked(k)]
  <1>0. PICK B \in SUBSET (plugged \ listed) :
          \E f \in FindCrtc(B), m \in [Connector -> Mode] : b = Bind(f, m)
    BY DEF Binds
  <1>1. PICK f \in FindCrtc(B), m \in [Connector -> Mode] : b = Bind(f, m)
    BY <1>0
  <1>2. /\ f \in [B -> Crtc] /\ DOMAIN f = B
        /\ \A c, e \in B : f[c] = f[e] => c = e
        /\ \A c \in B : f[c] \notin Used
    BY DEF FindCrtc, IsInjective
  <1> DEFINE L == (listed \ Gone) \cup B
  <1>3. /\ b.listed = L
        /\ b.crtc = [c \in Connector |-> IF c \in B THEN f[c] ELSE
                                         IF c \in L THEN crtc[c] ELSE NoCrtc]
        /\ b.mode = [c \in Connector |-> IF c \in B THEN m[c] ELSE
                                         IF c \in L THEN mode[c] ELSE "default"]
        /\ b.blob = [c \in Connector |-> IF c \in B THEN m[c] ELSE
                                         IF c \in L THEN blob[c] ELSE "default"]
        /\ b.refs = [c \in Connector |-> IF c \in B THEN 1 ELSE
                                         IF c \in L THEN refs[c] ELSE 0]
        /\ b.online = online \ Gone /\ b.inuse = inuse \ Gone /\ b.buffers = buffers \ Gone
        /\ b.vsync = vsync \ Gone /\ b.pflip = pflip \ Gone
        /\ b.route = route /\ b.busy = busy /\ b.events = events
        /\ b.leaked = [k \in Crtc |-> Leaked(k)]
    BY <1>1, <1>2 DEF Bind, Now
  <1>4. /\ listed \subseteq Connector /\ online \subseteq buffers /\ inuse \subseteq listed
        /\ buffers \subseteq listed /\ vsync \subseteq listed /\ pflip \subseteq vsync
        /\ crtc \in [Connector -> Crtc \cup {NoCrtc}]
        /\ mode \in [Connector -> Mode] /\ blob \in [Connector -> Mode]
        /\ refs \in [Connector -> Int] /\ leaked \in [Crtc -> Nat] /\ route \in [Connector -> Crtc \cup {NoCrtc}]
        /\ busy \subseteq Crtc /\ events \in [Crtc -> Nat]
        /\ \A c \in listed : crtc[c] \in Crtc
        /\ \A c, e \in listed : crtc[c] = crtc[e] => c = e
    BY DEF Good, Record, Now
  <1>5. L \subseteq Connector /\ B \cap listed = {} /\ B \subseteq Connector
    BY <1>4
  <1>6. /\ DOMAIN b = DOMAIN Now
        /\ b = [Now EXCEPT !.listed = b.listed, !.crtc = b.crtc, !.mode = b.mode,
                           !.blob = b.blob, !.refs = b.refs, !.leaked = b.leaked, !.online = b.online,
                           !.inuse = b.inuse, !.buffers = b.buffers,
                           !.vsync = b.vsync, !.pflip = b.pflip]
    BY <1>1, <1>2 DEF Bind, Now
  <1>7. /\ b.crtc \in [Connector -> Crtc \cup {NoCrtc}]
        /\ b.mode \in [Connector -> Mode] /\ b.blob \in [Connector -> Mode]
        /\ b.refs \in [Connector -> Int] /\ b.leaked \in [Crtc -> Nat]
    BY <1>2, <1>3, <1>4, LeakedType DEF Mode
  <1>8. b \in Record
    BY <1>3, <1>4, <1>5, <1>6, <1>7 DEF Record, Now
  <1>9. \A c \in b.listed : b.crtc[c] = IF c \in B THEN f[c] ELSE crtc[c]
    BY <1>3, <1>5
  <1>10. \A c \in listed : crtc[c] \in Used
    BY DEF Used
  <1>11. \A c, e \in b.listed : b.crtc[c] = b.crtc[e] => c = e
    BY <1>2, <1>3, <1>4, <1>9, <1>10
  <1>12. \A c \in b.listed : b.crtc[c] \in Crtc
    BY <1>2, <1>3, <1>4, <1>9
  <1>13. Good(b)
    BY <1>3, <1>4, <1>8, <1>11, <1>12 DEF Good, Gone
  <1>14. \A c \in b.listed \ listed : b.refs[c] = 1 /\ b.crtc[c] \notin Used
    BY <1>2, <1>3, <1>5, <1>9
  <1>15. \A c \in b.listed \cap listed : b.refs[c] = refs[c] /\ b.crtc[c] = crtc[c]
    BY <1>3, <1>5
  <1>16. listed \ b.listed = Gone
    BY <1>3 DEF Gone
  <1> QED
    BY <1>3, <1>13, <1>14, <1>15, <1>16

\* What Hotplug does to the displays it has bound.
LEMMA HotplugKeeps ==
  ASSUME Good(Now), plugged \subseteq Connector,
         NEW force, NEW master, NEW h \in Hotplug(force, master)
  PROVE  \E b \in Binds :
           /\ Good(h.r) /\ h.ok \in BOOLEAN
           /\ h.r.listed = b.listed /\ h.r.crtc = b.crtc
           /\ Owed(b) => Owed(h.r)
           /\ ~h.ok => h.r.inuse = b.inuse
  <1>1. PICK b \in Binds :
          \/ h = [ok |-> TRUE, r |-> b]
          \/ \E a \in TryModeset(b, master) :
               h = [ok |-> a.ret = "ok", r |-> IF a.ret = "ok" THEN Ready(a.r) ELSE a.r]
          \/ h = [ok |-> TRUE, r |-> Ready(b)]
    BY DEF Hotplug
  <1>2. Good(b)
    BY BindsGood
  <1>3. ASSUME NEW r, Good(r)
        PROVE  /\ Good(Ready(r)) /\ Ready(r).listed = r.listed /\ Ready(r).crtc = r.crtc
               /\ Owed(r) => Owed(Ready(r))
    BY <1>3, OwedSame DEF Ready, Good, Record
  <1>4. CASE h = [ok |-> TRUE, r |-> b]
    BY <1>2, <1>4
  <1>5. ASSUME NEW a \in TryModeset(b, master),
               h = [ok |-> a.ret = "ok", r |-> IF a.ret = "ok" THEN Ready(a.r) ELSE a.r]
        PROVE  /\ Good(h.r) /\ h.ok \in BOOLEAN
               /\ h.r.listed = b.listed /\ h.r.crtc = b.crtc
               /\ Owed(b) => Owed(h.r)
               /\ ~h.ok => h.r.inuse = b.inuse
    <2>1. Keeps(b, a.r)
      BY <1>2, TryModesetKeeps
    <2>2. h.ok = (a.ret = "ok") /\ h.r = IF a.ret = "ok" THEN Ready(a.r) ELSE a.r
      BY <1>5
    <2>3. CASE a.ret = "ok"
      BY <1>3, <2>1, <2>2, <2>3 DEF Keeps
    <2>4. CASE a.ret # "ok"
      BY <2>1, <2>2, <2>4 DEF Keeps
    <2> QED
      BY <2>3, <2>4
  <1>6. CASE h = [ok |-> TRUE, r |-> Ready(b)]
    BY <1>2, <1>3, <1>6
  <1> QED
    BY <1>1, <1>4, <1>5, <1>6

LEMMA WaitPflipRecord ==
  ASSUME NEW r, Good(r)
  PROVE  Good(WaitPflip(r)) /\ WaitPflip(r).listed = r.listed
         /\ WaitPflip(r).crtc = r.crtc /\ WaitPflip(r).inuse = r.inuse
         /\ (Owed(r) => Owed(WaitPflip(r)))
  BY WaitPflipKeeps DEF Keeps

\* What drm_video_wake_up hands to its callers.
LEMMA DrmWakeUpKeeps ==
  ASSUME Good(Now), plugged \subseteq Connector, awake \in BOOLEAN,
         NEW w \in DrmWakeUp
  PROVE  /\ Good(w.r) /\ w.ok \in BOOLEAN /\ w.awake \in BOOLEAN
         /\ w.holder \in {"us", "other", "none"}
         /\ w.holder = "us" => w.ok /\ w.awake
         /\ holder # "other" => w.awake = TRUE
         /\ holder = "other" => w.awake = awake /\ w.r = Now /\ ~w.ok
         /\ ~w.ok => w.r.inuse \subseteq inuse
         /\ \/ w.r = Now
            \/ \E b \in Binds : /\ w.r.listed = b.listed /\ w.r.crtc = b.crtc
                                /\ Owed(b) => Owed(w.r)
  <1>1. CASE holder = "other"
    <2>1. w = [ok |-> FALSE, awake |-> awake, r |-> Now, holder |-> holder]
      BY <1>1 DEF DrmWakeUp
    <2> QED
      BY <1>1, <2>1 DEF Now
  <1>2. CASE holder # "other"
    <2>1. PICK h \in Hotplug(TRUE, TRUE) :
            w = [ok |-> h.ok, awake |-> TRUE, r |-> h.r,
                 holder |-> IF h.ok /\ h.r.listed # {} THEN "us" ELSE "none"]
      BY <1>2 DEF DrmWakeUp
    <2>2. PICK b \in Binds :
            /\ Good(h.r) /\ h.ok \in BOOLEAN
            /\ h.r.listed = b.listed /\ h.r.crtc = b.crtc
            /\ Owed(b) => Owed(h.r)
            /\ ~h.ok => h.r.inuse = b.inuse
      BY HotplugKeeps
    <2>3. b.inuse \subseteq inuse
      BY BindsGood
    <2>4. /\ w.ok = h.ok /\ w.awake = TRUE /\ w.r = h.r
          /\ w.holder = IF h.ok /\ h.r.listed # {} THEN "us" ELSE "none"
      BY <2>1
    <2> QED
      BY <1>2, <2>2, <2>3, <2>4
  <1> QED
    BY <1>1, <1>2

\* The references of the displays that were just bound, and of those that are
\* gone: the flips of a CRTC that was free are owed by displays that left the
\* list before, and those of a CRTC that is free now by the one that just left.
LEMMA BindsOwed ==
  ASSUME Good(Now), plugged \subseteq Connector, RefsOwed, NEW b \in Binds
  PROVE  Owed(b)
  <1>0. Good(b) /\ b.busy = busy /\ b.events = events /\ b.leaked = [k \in Crtc |-> Leaked(k)]
        /\ listed \ b.listed = Gone
    BY BindsGood
  <1>1. \A k \in Crtc : Due(b, k) = Outstanding(k) /\ Due(b, k) \in Nat /\ b.leaked[k] = Leaked(k)
    BY <1>0, DueType DEF Due, Outstanding
  <1>2. ASSUME NEW c \in b.listed
        PROVE  /\ b.refs[c] <= 1 + Due(b, b.crtc[c])
               /\ 1 + Due(b, b.crtc[c]) <= b.refs[c] + b.leaked[b.crtc[c]]
    <2>1. b.crtc[c] \in Crtc
      BY <1>0 DEF Good
    <2>2. CASE c \in listed
      <3>1. b.refs[c] = refs[c] /\ b.crtc[c] = crtc[c] /\ refs[c] \in Int
        BY <2>2, BindsGood DEF Good, Record, Now
      <3>2. refs[c] <= 1 + Outstanding(crtc[c]) /\ 1 + Outstanding(crtc[c]) <= refs[c] + leaked[crtc[c]]
        BY <2>2 DEF RefsOwed
      <3> QED
        BY <1>1, <2>1, <3>1, <3>2, LeakedType
    <2>3. CASE c \notin listed
      <3>1. b.refs[c] = 1 /\ b.crtc[c] \notin Used
        BY <2>3, BindsGood
      <3>2. Outstanding(b.crtc[c]) <= leaked[b.crtc[c]]
        BY <2>1, <3>1 DEF RefsOwed
      <3> QED
        BY <1>1, <2>1, <3>1, <3>2, LeakedType
    <2> QED
      BY <2>2, <2>3
  <1>3. ASSUME NEW k \in Crtc, k \notin {b.crtc[c] : c \in b.listed}
        PROVE  Due(b, k) <= b.leaked[k]
    <2>1. CASE k \notin Used
      <3>1. Outstanding(k) <= leaked[k]
        BY <2>1 DEF RefsOwed
      <3> QED
        BY <1>1, <3>1, LeakedType
    <2>2. CASE k \in Used
      <3>1. PICK c \in listed : crtc[c] = k
        BY <2>2 DEF Used
      <3>2. c \notin b.listed
        BY <1>3, <3>1, BindsGood
      <3>3. c \in Gone
        BY <1>0, <3>2
      <3>4. 1 + Outstanding(k) <= refs[c] + leaked[k] /\ refs[c] \in Int
        BY <3>1 DEF RefsOwed, Good, Record, Now
      <3>5. leaked[k] + refs[c] - 1 <= Leaked(k) /\ Leaked(k) \in Nat /\ leaked[k] \in Nat
        BY <3>1, <3>3, LeakedType
      <3> QED
        BY <1>1, <3>4, <3>5
    <2> QED
      BY <2>1, <2>2
  <1> QED
    BY <1>2, <1>3 DEF Owed

(***************************************************************************)
(* The invariant: the list is good, DRM master is only kept awake, and the *)
(* seat's device exists.                                                   *)
(***************************************************************************)
DrmInv ==
  /\ Good(Now)
  /\ plugged \subseteq Connector
  /\ opened \in BOOLEAN /\ kept \in BOOLEAN /\ awake \in BOOLEAN /\ armed \in BOOLEAN
  /\ holder \in {"us", "other", "none"}
  /\ holder = "us" => awake
  /\ kept \/ awake \/ armed => opened

\* What a step does to the list: it stores displays that are good, and that
\* have the references they owe if they had them before.
Stores(r) ==
  /\ Store(r) /\ Good(r)
  /\ RefsOwed => Owed(r)

LEMMA StoresNow ==
  ASSUME NEW r, Stores(r)
  PROVE  Good(Now)' /\ (RefsOwed => RefsOwed')
  <1>1. Now' = r
    BY StoreNow DEF Stores
  <1>2. Good(Now') /\ (RefsOwed => Owed(Now'))
    BY <1>1 DEF Stores
  <1>3. Owed(Now') <=> RefsOwed'
    BY NowOwedNext
  <1> QED
    BY <1>2, <1>3 DEF Good, Owed

\* A step that only moves flips and their references.
LEMMA MovesNow ==
  ASSUME Good(Now), Good(Now)', UNCHANGED <<listed, crtc, leaked>>,
         \A c \in listed : refs'[c] = refs[c] + Outstanding(crtc[c])' - Outstanding(crtc[c]),
         \A k \in Crtc \ Used : Outstanding(k)' <= Outstanding(k),
         RefsOwed
  PROVE  RefsOwed'
  <1> DEFINE r == Now
             q == Now'
  <1>1. Good(r) /\ Good(q) /\ Owed(r)
    BY NowOwed DEF Good
  <1>2. /\ q.listed = r.listed /\ q.crtc = r.crtc /\ q.leaked = r.leaked
        /\ r.listed = listed /\ r.crtc = crtc /\ r.refs = refs /\ q.refs = refs'
    BY DEF Now
  <1>3. \A k : Due(r, k) = Outstanding(k) /\ Due(q, k) = Bit(k \in busy') + events'[k]
    BY DEF Due, Outstanding, Now
  <1>4. \A c \in listed : Outstanding(crtc[c])' = Bit(crtc[c] \in busy') + events'[crtc[c]]
    BY DEF Outstanding
  <1>5. \A k \in Crtc \ Used : Outstanding(k)' = Bit(k \in busy') + events'[k]
    BY DEF Outstanding
  <1> HIDE DEF r, q
  <1>6. Owed(q)
    BY <1>1, <1>2, <1>3, <1>4, <1>5, OwedMoves DEF Used
  <1> QED
    BY <1>6, NowOwedNext DEF q

LEMMA SameNow ==
  ASSUME Good(Now), UNCHANGED <<dispVars, route, flipVars>>
  PROVE  Good(Now)' /\ (RefsOwed => RefsOwed')
  <1>1. Now' = Now
    BY DEF Now, dispVars, flipVars
  <1>2. RefsOwed => RefsOwed'
    BY DEF RefsOwed, Used, Outstanding, dispVars, flipVars
  <1> QED
    BY <1>1, <1>2 DEF Good

LEMMA DrmInit == Init => DrmInv /\ RefsOwed
  <1> SUFFICES ASSUME Init PROVE DrmInv /\ RefsOwed
    OBVIOUS
  <1>1. Good(Now)
    BY DEF Init, Now, Good, Record, Mode
  <1>2. RefsOwed
    BY DEF Init, RefsOwed, Outstanding, Bit
  <1> QED
    BY <1>1, <1>2 DEF Init, DrmInv

\* What a wake-up by the seat or by the timer leaves.
LEMMA WokenStores ==
  ASSUME DrmInv, NEW w \in DrmWakeUp
  PROVE  /\ Good(w.r) /\ (RefsOwed => Owed(w.r))
         /\ Good(WaitPflip(w.r)) /\ (RefsOwed => Owed(WaitPflip(w.r)))
  <1>1. Good(w.r)
    BY DrmWakeUpKeeps DEF DrmInv
  <1>2. ASSUME RefsOwed PROVE Owed(w.r)
    <2>1. CASE w.r = Now
      BY <1>2, <2>1, NowOwed DEF DrmInv
    <2>2. ASSUME NEW b \in Binds, w.r.listed = b.listed, w.r.crtc = b.crtc,
                 Owed(b) => Owed(w.r)
          PROVE  Owed(w.r)
      BY <1>2, <2>2, BindsOwed DEF DrmInv
    <2> QED
      BY <2>1, <2>2, DrmWakeUpKeeps DEF DrmInv
  <1> QED
    BY <1>1, <1>2, WaitPflipRecord

Step == DrmInv' /\ (RefsOwed => RefsOwed')

LEMMA OpenStep == DrmInv /\ Open => Step
  <1> SUFFICES ASSUME DrmInv, Open PROVE Step
    OBVIOUS
  <1>1. PICK w \in DrmWakeUp : kept' = w.ok /\ armed' = ~w.ok /\ BackendWakeUp(w)
    BY DEF Open
  <1>2. Stores(IF w.ok THEN WaitPflip(w.r) ELSE w.r)
    BY <1>1, WokenStores DEF BackendWakeUp, Stores
  <1>3. Good(Now)' /\ (RefsOwed => RefsOwed')
    BY <1>2, StoresNow
  <1> QED
    BY <1>1, <1>3, DrmWakeUpKeeps DEF DrmInv, Step, Open, BackendWakeUp

LEMMA WakeUpStep == DrmInv /\ WakeUp => Step
  <1> SUFFICES ASSUME DrmInv, WakeUp PROVE Step
    OBVIOUS
  <1>1. CASE awake /\ UNCHANGED <<videoVars, dispVars, kernelVars>>
    BY <1>1, SameNow DEF DrmInv, Step, WakeUp, videoVars, kernelVars, flipVars
  <1>2. ASSUME NEW w \in DrmWakeUp, BackendWakeUp(w), armed' = (armed \/ ~w.ok),
               UNCHANGED <<legacy, plugged>>
        PROVE  Step
    <2>1. Stores(IF w.ok THEN WaitPflip(w.r) ELSE w.r)
      BY <1>2, WokenStores DEF BackendWakeUp, Stores
    <2>2. Good(Now)' /\ (RefsOwed => RefsOwed')
      BY <2>1, StoresNow
    <2> QED
      BY <1>2, <2>2, DrmWakeUpKeeps DEF DrmInv, Step, WakeUp, BackendWakeUp
  <1> QED
    BY <1>1, <1>2 DEF WakeUp

LEMMA SleepStep == DrmInv /\ Sleep => Step
  <1> SUFFICES ASSUME DrmInv, Sleep PROVE Step
    OBVIOUS
  <1>1. CASE ~awake /\ UNCHANGED <<videoVars, dispVars, kernelVars>>
    BY <1>1, SameNow DEF DrmInv, Step, Sleep, videoVars, kernelVars, flipVars
  <1>2. CASE awake /\ Store(IF holder = "us" /\ ~legacy THEN WaitPflip(Now) ELSE Now)
             /\ awake' = FALSE /\ armed' = FALSE
             /\ holder' = (IF holder = "us" THEN "none" ELSE holder)
             /\ UNCHANGED <<legacy, plugged, uevent>>
    <2>1. Stores(IF holder = "us" /\ ~legacy THEN WaitPflip(Now) ELSE Now)
      BY <1>2, WaitPflipRecord, NowOwed DEF DrmInv, Stores
    <2>2. Good(Now)' /\ (RefsOwed => RefsOwed')
      BY <2>1, StoresNow
    <2> QED
      BY <1>2, <2>2 DEF DrmInv, Step, Sleep
  <1> QED
    BY <1>1, <1>2 DEF Sleep

LEMMA PollStep == DrmInv /\ Poll => Step
  <1> SUFFICES ASSUME DrmInv, Poll PROVE Step
    OBVIOUS
  <1>1. CASE ~awake /\ UNCHANGED <<armed, dispVars, route, flipVars, holder>>
    BY <1>1, SameNow DEF DrmInv, Step, Poll, seatVars
  <1>2. ASSUME NEW h \in Hotplug(FALSE, holder = "us"), Store(h.r), awake,
               armed' = (armed \/ ~h.ok),
               holder' = (IF h.ok /\ h.r.listed = {} THEN "none" ELSE holder)
        PROVE  Step
    <2>1. PICK b \in Binds :
            /\ Good(h.r) /\ h.ok \in BOOLEAN
            /\ h.r.listed = b.listed /\ h.r.crtc = b.crtc
            /\ Owed(b) => Owed(h.r)
      BY HotplugKeeps DEF DrmInv
    <2>2. RefsOwed => Owed(h.r)
      BY <1>2, <2>1, BindsOwed DEF DrmInv
    <2>3. Good(Now)' /\ (RefsOwed => RefsOwed')
      BY <1>2, <2>1, <2>2, StoresNow DEF Stores
    <2> QED
      BY <1>2, <2>1, <2>3 DEF DrmInv, Step, Poll, seatVars
  <1> QED
    BY <1>1, <1>2 DEF Poll

LEMMA VtTimeoutStep == \A ok \in BOOLEAN : DrmInv /\ VtTimeout(ok) => Step
  <1> SUFFICES ASSUME NEW ok \in BOOLEAN, DrmInv, VtTimeout(ok) PROVE Step
    OBVIOUS
  <1>1. PICK w \in DrmWakeUp : /\ Store(w.r)
                               /\ awake' = w.awake /\ armed' = ~ok
                               /\ holder' = w.holder
    BY DEF VtTimeout
  <1>2. Stores(w.r)
    BY <1>1, WokenStores DEF Stores
  <1>3. Good(Now)' /\ (RefsOwed => RefsOwed')
    BY <1>2, StoresNow
  <1> QED
    BY <1>1, <1>3, DrmWakeUpKeeps DEF DrmInv, Step, VtTimeout, seatVars

LEMMA CloseStep == DrmInv /\ Close => Step
  <1> SUFFICES ASSUME DrmInv, Close PROVE Step
    OBVIOUS
  <1> DEFINE r == [Now EXCEPT !.listed = {}, !.online = {}, !.inuse = {}, !.buffers = {},
                       !.crtc = [c \in Connector |-> NoCrtc],
                       !.mode = [c \in Connector |-> "default"],
                       !.blob = [c \in Connector |-> "default"],
                       !.refs = [c \in Connector |-> 0], !.leaked = [k \in Crtc |-> 0],
                       !.vsync = {}, !.pflip = {}, !.busy = {},
                       !.events = [k \in Crtc |-> 0]]
  <1>0. /\ r.listed = {} /\ r.online = {} /\ r.inuse = {} /\ r.buffers = {}
        /\ r.leaked = [k \in Crtc |-> 0] /\ r.events = [k \in Crtc |-> 0]
        /\ r.vsync = {} /\ r.pflip = {} /\ r.busy = {}
    BY DEF Now
  <1>1. Good(r)
    <2>1. r \in Record
      <3> DEFINE noCrtc == [c \in Connector |-> NoCrtc]
                 default == [c \in Connector |-> "default"]
                 noRefs == [c \in Connector |-> 0]
                 none == [k \in Crtc |-> 0]
      <3>1. /\ noCrtc \in [Connector -> Crtc \cup {NoCrtc}] /\ default \in [Connector -> Mode]
            /\ noRefs \in [Connector -> Int] /\ none \in [Crtc -> Nat]
        BY DEF Mode
      <3> HIDE DEF noCrtc, default, noRefs, none
      <3>2. r = [Now EXCEPT !.listed = {}, !.online = {}, !.inuse = {}, !.buffers = {},
                            !.crtc = noCrtc, !.mode = default, !.blob = default,
                            !.refs = noRefs, !.leaked = none,
                            !.vsync = {}, !.pflip = {}, !.busy = {}, !.events = none]
        BY DEF noCrtc, default, noRefs, none
      <3> HIDE DEF r
      <3> QED
        BY <3>1, <3>2 DEF DrmInv, Now, Good, Record
    <2> HIDE DEF r
    <2> QED
      BY <1>0, <2>1 DEF Good
  <1>2. Owed(r)
    BY <1>0 DEF Owed, Due, Bit
  <1>3. Store(r)
    BY DEF Close
  <1> HIDE DEF r
  <1>4. Good(Now)' /\ (RefsOwed => RefsOwed')
    BY <1>1, <1>2, <1>3, StoresNow DEF Stores
  <1> QED
    BY <1>4 DEF DrmInv, Step, Close

LEMMA SwapStep == \A c \in Connector : DrmInv /\ Swap(c) => Step
  <1> SUFFICES ASSUME NEW c \in Connector, DrmInv, Swap(c) PROVE Step
    OBVIOUS
  <1>1. Good(Now)'
    BY DEF DrmInv, Swap, Now, Good, Record
  <1>2. ASSUME RefsOwed PROVE RefsOwed'
    <2>1. /\ UNCHANGED <<listed, crtc, leaked, events>> /\ busy' = busy \cup {crtc[c]}
          /\ c \in listed /\ crtc[c] \notin busy /\ refs' = [refs EXCEPT ![c] = @ + 1]
      BY DEF Swap, DrmInv, Good, Now
    <2>2. /\ \A d \in listed : crtc[d] = crtc[c] => d = c
          /\ \A d \in listed : crtc[d] \in Crtc /\ d \in Connector
          /\ refs \in [Connector -> Int] /\ events \in [Crtc -> Nat]
      BY <2>1 DEF DrmInv, Good, Record, Now
    <2>3. ASSUME NEW k \in Crtc
          PROVE  /\ Outstanding(k) \in Nat
                 /\ Outstanding(k)' = IF k = crtc[c] THEN Outstanding(k) + 1 ELSE Outstanding(k)
      BY <2>1, <2>2 DEF Outstanding, Bit
    <2>4. ASSUME NEW d \in listed
          PROVE  refs'[d] = refs[d] + Outstanding(crtc[d])' - Outstanding(crtc[d])
      <3>1. Outstanding(crtc[d])' = IF crtc[d] = crtc[c] THEN Outstanding(crtc[d]) + 1
                                                         ELSE Outstanding(crtc[d])
        BY <2>1, <2>2 DEF Outstanding, Bit
      <3>2. refs'[d] = IF d = c THEN refs[d] + 1 ELSE refs[d]
        BY <2>1, <2>2
      <3> QED
        BY <2>2, <2>3, <3>1, <3>2
    <2>5. \A k \in Crtc \ Used : Outstanding(k)' <= Outstanding(k)
      BY <2>1, <2>3 DEF Used
    <2> QED
      BY <1>1, <1>2, <2>1, <2>4, <2>5, MovesNow DEF DrmInv
  <1> QED
    BY <1>1, <1>2 DEF DrmInv, Step, Swap, seatVars, videoVars

LEMMA KernelFlipStep == \A k \in Crtc : DrmInv /\ KernelFlip(k) => Step
  <1> SUFFICES ASSUME NEW k \in Crtc, DrmInv, KernelFlip(k) PROVE Step
    OBVIOUS
  <1>1. Good(Now)'
    BY DEF DrmInv, KernelFlip, Now, Good, Record, dispVars
  <1>2. ASSUME RefsOwed PROVE RefsOwed'
    <2>1. /\ UNCHANGED <<listed, crtc, leaked, refs>> /\ k \in busy
          /\ busy' = busy \ {k} /\ events' = [events EXCEPT ![k] = @ + 1]
      BY DEF KernelFlip, dispVars
    <2>2. /\ \A d \in listed : crtc[d] \in Crtc /\ d \in Connector
          /\ refs \in [Connector -> Int] /\ events \in [Crtc -> Nat]
      BY DEF DrmInv, Good, Record, Now
    <2>3. ASSUME NEW j \in Crtc
          PROVE  Outstanding(j) \in Nat /\ Outstanding(j)' = Outstanding(j)
      BY <2>1, <2>2 DEF Outstanding, Bit
    <2>4. ASSUME NEW d \in listed
          PROVE  refs'[d] = refs[d] + Outstanding(crtc[d])' - Outstanding(crtc[d])
      <3>1. Outstanding(crtc[d])' = Outstanding(crtc[d])
        BY <2>1, <2>2 DEF Outstanding, Bit
      <3> QED
        BY <2>1, <2>2, <2>3, <3>1
    <2>5. \A j \in Crtc \ Used : Outstanding(j)' <= Outstanding(j)
      BY <2>3
    <2> QED
      BY <1>1, <1>2, <2>1, <2>4, <2>5, MovesNow DEF DrmInv
  <1> QED
    BY <1>1, <1>2 DEF DrmInv, Step, KernelFlip, seatVars, videoVars

LEMMA PflipStep == DrmInv /\ (IoEvent \/ DoPflips) => Step
  <1> SUFFICES ASSUME DrmInv, IoEvent \/ DoPflips PROVE Step
    OBVIOUS
  <1>1. Keeps(Now, Pflips(Now)) /\ Keeps(Now, Pflips(ReadEvents(Now)))
    BY ReadEventsKeeps, PflipsKeeps, KeepsTransitive DEF DrmInv, Keeps
  <1>2. PICK r \in {Pflips(Now), Pflips(ReadEvents(Now))} : Store(r)
    BY DEF IoEvent, DoPflips
  <1>3. Stores(r)
    BY <1>1, <1>2, NowOwed DEF Stores, Keeps, DrmInv
  <1>4. Good(Now)' /\ (RefsOwed => RefsOwed')
    BY <1>3, StoresNow
  <1> QED
    BY <1>4 DEF DrmInv, Step, IoEvent, DoPflips, seatVars, videoVars

LEMMA DrmNext == DrmInv /\ [Next]_vars => Step
  <1> SUFFICES ASSUME DrmInv, [Next]_vars PROVE Step
    OBVIOUS
  <1>1. ASSUME NEW c \in Connector, Cable(c) PROVE Step
    BY <1>1, SameNow DEF DrmInv, Step, Cable, seatVars, videoVars
  <1>2. CASE OtherTakes \/ OtherDrops
    BY <1>2, SameNow DEF DrmInv, Step, OtherTakes, OtherDrops, seatVars, videoVars
  <1>3. CASE UNCHANGED vars
    BY <1>3, SameNow DEF DrmInv, Step, vars, kernelVars, seatVars, videoVars
  <1> QED
    BY <1>1, <1>2, <1>3, OpenStep, WakeUpStep, SleepStep, PollStep, CloseStep,
       VtTimeoutStep, SwapStep, KernelFlipStep, PflipStep DEF Next

\* A sleeping device is not DRM master, whichever of the wake-up, the hotplug
\* and the timer failed on the way (drm_video_wake_up, vt_timeout).
THEOREM MasterAwakeCorrect == Spec => []MasterAwake
  <1>1. DrmInv => MasterAwake
    BY DEF DrmInv, MasterAwake
  <1>2. DrmInv /\ [Next]_vars => DrmInv'
    BY DrmNext DEF Step
  <1> QED
    BY <1>1, <1>2, DrmInit, PTL DEF Spec

\* No CRTC is ever given to two displays, and every display of the list has one
\* (modeset_find_crtc); one that is shown has framebuffers, also after a modeset
\* that failed (display_done_modeset).
THEOREM ListGood == Spec => []Good(Now)
  <1>1. DrmInv => Good(Now)
    BY DEF DrmInv
  <1>2. DrmInv /\ [Next]_vars => DrmInv'
    BY DrmNext DEF Step
  <1> QED
    BY <1>1, <1>2, DrmInit, PTL DEF Spec

\* No display of the list is long of references, and if it is short of some,
\* displays that were unplugged with a flip outstanding hold them
\* (drm_display_swap, display_event, perform_modeset, display_unbind), for any
\* number of connectors and CRTCs, whatever is unplugged and plugged in again
\* before its events are read, and whatever modes are refused.
THEOREM RefsOwedCorrect == Spec => []RefsOwed
  <1>1. Init => DrmInv /\ RefsOwed
    BY DrmInit
  <1>2. (DrmInv /\ RefsOwed) /\ [Next]_vars => (DrmInv /\ RefsOwed)'
    BY DrmNext DEF Step
  <1> QED
    BY <1>1, <1>2, PTL DEF Spec

-----------------------------------------------------------------------------
(***************************************************************************)
(* The refinement: what the seat sees of the device is what Device allows. *)
(***************************************************************************)
LEMMA DevInit == Init => Dev!Init
  BY DEF Init, Dev!Init

LEMMA DevStep == DrmInv /\ [Next]_vars => [Dev!Next]_Dev!vars
  <1> SUFFICES ASSUME DrmInv, [Next]_vars PROVE [Dev!Next]_Dev!vars
    OBVIOUS
  <1> DEFINE State == IF ~opened THEN "none" ELSE IF awake THEN "awake" ELSE "asleep"
  <1>0. Good(Now)' /\ inuse \subseteq Connector /\ inuse' \subseteq Connector
    BY DrmNext DEF Step, DrmInv, Good, Record, Now
  <1>1. CASE Open
    <2>1. PICK w \in DrmWakeUp : kept' = w.ok /\ armed' = ~w.ok /\ BackendWakeUp(w)
      BY <1>1 DEF Open
    <2>2. inuse' = w.r.inuse
      BY <2>1, WaitPflipRecord, DrmWakeUpKeeps DEF DrmInv, BackendWakeUp, Store
    <2>3. w.ok \in BOOLEAN /\ (~w.ok => w.r.inuse \subseteq inuse)
      BY DrmWakeUpKeeps DEF DrmInv
    <2>4. Dev!Open(w.ok)
      BY <1>0, <1>1, <2>1, <2>2, <2>3 DEF Dev!Open, Dev!Announce, Open, BackendWakeUp
    <2> QED
      BY <2>3, <2>4 DEF Dev!Next
  <1>2. CASE WakeUp /\ ~awake
    <2>1. PICK w \in DrmWakeUp : BackendWakeUp(w) /\ armed' = (armed \/ ~w.ok)
      BY <1>2 DEF WakeUp
    <2>2. inuse' = w.r.inuse
      BY <2>1, WaitPflipRecord, DrmWakeUpKeeps DEF DrmInv, BackendWakeUp, Store
    <2>3. w.ok \in BOOLEAN /\ (~w.ok => w.r.inuse \subseteq inuse)
      BY DrmWakeUpKeeps DEF DrmInv
    <2>4. Dev!WakeUp(w.ok)
      BY <1>0, <1>2, <2>1, <2>2, <2>3
         DEF Dev!WakeUp, Dev!Announce, WakeUp, BackendWakeUp, DrmInv
    <2> QED
      BY <2>3, <2>4 DEF Dev!Next
  <1>3. CASE WakeUp /\ awake
    BY <1>3 DEF WakeUp, Dev!vars, videoVars, dispVars
  <1>4. CASE Sleep /\ awake
    <2>1. inuse' = inuse
      BY <1>4, WaitPflipRecord DEF Sleep, Store, DrmInv, Now
    <2>2. Dev!Sleep
      BY <1>4, <2>1 DEF Dev!Sleep, Sleep, DrmInv
    <2> QED
      BY <2>2 DEF Dev!Next
  <1>5. CASE Sleep /\ ~awake
    BY <1>5 DEF Sleep, Dev!vars, videoVars, dispVars
  <1>6. CASE Poll /\ awake
    <2>1. PICK h \in Hotplug(FALSE, holder = "us") :
            Store(h.r) /\ armed' = (armed \/ ~h.ok)
      BY <1>6 DEF Poll
    <2>2. h.ok \in BOOLEAN /\ (~h.ok => h.r.inuse \subseteq inuse)
      <3>0. Good(Now) /\ plugged \subseteq Connector
        BY DEF DrmInv
      <3>1. PICK b \in Binds :
              /\ Good(h.r) /\ h.ok \in BOOLEAN
              /\ h.r.listed = b.listed /\ h.r.crtc = b.crtc
              /\ Owed(b) => Owed(h.r)
              /\ ~h.ok => h.r.inuse = b.inuse
        BY <3>0, HotplugKeeps
      <3>2. b.inuse \subseteq inuse
        BY BindsGood DEF DrmInv
      <3> QED
        BY <3>1, <3>2
    <2>3. Dev!Poll(h.ok)
      BY <1>0, <1>6, <2>1, <2>2 DEF Dev!Poll, Dev!Announce, Poll, Store, DrmInv, seatVars
    <2> QED
      BY <2>2, <2>3 DEF Dev!Next
  <1>7. CASE Poll /\ ~awake
    BY <1>7 DEF Poll, Dev!vars, seatVars, dispVars
  <1>8. CASE Close
    BY <1>8 DEF Close, Store, Now, Dev!Close, Dev!Next
  <1>9. ASSUME NEW ok \in BOOLEAN, VtTimeout(ok) PROVE [Dev!Next]_Dev!vars
    <2>1. PICK w \in DrmWakeUp : w.ok = ok /\ Store(w.r) /\ awake' = w.awake
      BY <1>9 DEF VtTimeout
    <2>2. CASE holder = "other"
      <3>1. w.awake = awake /\ w.r = Now /\ ~ok
        BY <2>1, <2>2, DrmWakeUpKeeps DEF DrmInv
      <3>2. armed' = armed
        BY <1>9, <3>1 DEF VtTimeout, DrmInv
      <3>3. awake' = awake /\ inuse' = inuse
        BY <2>1, <3>1 DEF Store, Now
      <3>4. opened' = opened /\ kept' = kept
        BY <1>9 DEF VtTimeout, seatVars
      <3>5. UNCHANGED Dev!vars
        BY <3>2, <3>3, <3>4 DEF Dev!vars
      <3> QED
        BY <3>5
    <2>3. CASE holder # "other"
      <3>1. w.awake = TRUE /\ (~ok => w.r.inuse \subseteq inuse)
        BY <2>1, <2>3, DrmWakeUpKeeps DEF DrmInv
      <3>2. Dev!Retry(ok)
        BY <1>0, <1>9, <2>1, <3>1
           DEF VtTimeout, Store, Dev!Retry, Dev!Announce, seatVars, DrmInv
      <3> QED
        BY <3>2 DEF Dev!Next
    <2> QED
      BY <2>2, <2>3
  <1>10. CASE IoEvent \/ DoPflips
    <2>1. PICK r \in {Pflips(Now), Pflips(ReadEvents(Now))} : Store(r)
      BY <1>10 DEF IoEvent, DoPflips
    <2>2. Keeps(Now, r)
      BY <2>1, ReadEventsKeeps, PflipsKeeps, KeepsTransitive DEF DrmInv, Keeps
    <2>3. inuse' = inuse
      BY <2>1, <2>2 DEF Keeps, Store, Now
    <2> QED
      BY <1>10, <2>3 DEF IoEvent, DoPflips, Dev!vars, seatVars, videoVars
  <1>11. ASSUME NEW c \in Connector, Swap(c) \/ Cable(c) PROVE UNCHANGED Dev!vars
    BY <1>11 DEF Swap, Cable, Dev!vars, seatVars, videoVars, dispVars
  <1>12. ASSUME NEW k \in Crtc, KernelFlip(k) PROVE UNCHANGED Dev!vars
    BY <1>12 DEF KernelFlip, Dev!vars, seatVars, videoVars, dispVars
  <1>13. CASE OtherTakes \/ OtherDrops
    BY <1>13 DEF OtherTakes, OtherDrops, Dev!vars, seatVars, videoVars, dispVars
  <1>14. CASE UNCHANGED vars
    BY <1>14 DEF vars, Dev!vars, seatVars, videoVars, dispVars
  <1> QED
    BY <1>1, <1>2, <1>3, <1>4, <1>5, <1>6, <1>7, <1>8, <1>9, <1>10, <1>11, <1>12,
       <1>13, <1>14 DEF Next

\* The device is what video.h promises the seat: Device is implemented by the
\* DRM backend, for any number of connectors and CRTCs.
THEOREM DeviceKeptCorrect == Spec => DeviceKept
  <1>1. DrmInv /\ [Next]_vars => DrmInv'
    BY DrmNext DEF Step
  <1> QED
    BY <1>1, DrmInit, DevInit, DevStep, PTL DEF Spec, DeviceKept, Dev!Spec
-----------------------------------------------------------------------------
(***************************************************************************)
(* What is plugged in is shown, or something is on its way that looks at   *)
(* the connectors again.                                                   *)
(***************************************************************************)
ShownIn(r) == plugged \subseteq r.inuse \cap r.online

EnoughCrtcs ==
  /\ IsFiniteSet(Connector) /\ IsFiniteSet(Crtc)
  /\ Cardinality(Connector) <= Cardinality(Crtc)

LEMMA FlipsKeepOnline ==
  ASSUME NEW r, Good(r)
  PROVE  /\ ReadEvents(r).online = r.online /\ Pflips(r).online = r.online
         /\ WaitPflip(r).online = r.online
  <1>1. \A q \in Record : ReadEvents(q).online = q.online /\ Pflips(q).online = q.online
    BY DEF ReadEvents, Pflips, Record
  <1>2. WaitPflip(r).online = r.online
    <2> DEFINE done == {r.crtc[c] : c \in r.vsync \ r.pflip} \cap r.busy
               q == [r EXCEPT !.busy = @ \ done,
                              !.events = [k \in Crtc |-> @[k] + Bit(k \in done)]]
    <2>1. q \in Record /\ q.online = r.online
      <3>1. [k \in Crtc |-> r.events[k] + Bit(k \in done)] \in [Crtc -> Nat]
        BY DEF Good, Record, Bit
      <3> QED
        BY <3>1 DEF Good, Record
    <2>2. WaitPflip(r) = r \/ WaitPflip(r) = ReadEvents(q)
      BY DEF WaitPflip
    <2> HIDE DEF q
    <2> QED
      BY <1>1, <2>1, <2>2
  <1> QED
    BY <1>1, <1>2 DEF Good

\* A modeset that went well shows every display of the list, whichever of the
\* two attempts it was (try_modeset, display_done_modeset).
LEMMA AtomicShows ==
  ASSUME NEW r, Good(r), ~legacy, NEW master, NEW a \in TryModeset(r, master), a.ret = "ok"
  PROVE  a.r.online = r.listed /\ a.r.listed = r.listed
  <1>1. ASSUME NEW q, Good(q), NEW b \in PerformModeset(q, master), b.ret = "ok"
        PROVE  b.r.online = q.listed /\ b.r.listed = q.listed
    <2> DEFINE w == WaitPflip(q)
    <2>1. Good(w) /\ w.listed = q.listed
      BY <1>1, WaitPflipRecord
    <2>2. b.r = Committed(w)
      BY <1>1 DEF PerformModeset
    <2> HIDE DEF w
    <2>3. Committed(w).online = w.listed /\ Committed(w).listed = w.listed
      BY <2>1 DEF Committed, Good, Record
    <2> QED
      BY <2>1, <2>2, <2>3
  <1> DEFINE DefaultMode(q) == [q EXCEPT !.mode = [c \in Connector |->
                                  IF c \in q.listed THEN "default" ELSE @[c]]]
  <1>2. CASE a \in PerformModeset(r, master)
    BY <1>1, <1>2
  <1>3. ASSUME NEW b \in PerformModeset(r, master),
               NEW d \in PerformModeset(DefaultMode(b.r), master),
               a = IF d.ret = "ok" THEN d ELSE [d EXCEPT !.r.mode = b.r.mode]
        PROVE  a.r.online = r.listed /\ a.r.listed = r.listed
    <2> DEFINE q == b.r
    <2>1. Good(q) /\ q.listed = r.listed
      BY PerformModesetKeeps DEF Keeps
    <2> HIDE DEF q
    <2>2. Good(DefaultMode(q)) /\ DefaultMode(q).listed = q.listed
      BY <2>1 DEF Good, Record, Mode
    <2>3. d.ret = "ok" /\ a = d
      <3>1. DOMAIN d = {"ret", "r"}
        BY DEF PerformModeset
      <3>2. CASE d.ret # "ok"
        BY <1>3, <3>1, <3>2
      <3> QED
        BY <1>3, <3>2
    <2> QED
      BY <1>1, <2>1, <2>2, <2>3 DEF q
  <1> QED
    BY <1>2, <1>3 DEF TryModeset

LEMMA SplitCardinality ==
  ASSUME NEW S, IsFiniteSet(S), NEW T \in SUBSET S
  PROVE  /\ IsFiniteSet(T) /\ IsFiniteSet(S \ T)
         /\ Cardinality(T) \in Nat /\ Cardinality(S \ T) \in Nat
         /\ Cardinality(S) = Cardinality(T) + Cardinality(S \ T)
  <1>1. IsFiniteSet(T) /\ IsFiniteSet(S \ T)
    BY FS_Subset
  <1>2. Cardinality(T) \in Nat /\ Cardinality(S \ T) \in Nat
    BY <1>1, FS_CardinalityType
  <1> DEFINE U == S \ T
  <1>3. T \cup U = S /\ T \cap U = {}
    OBVIOUS
  <1> HIDE DEF U
  <1>4. IsFiniteSet(U) /\ Cardinality(U) \in Nat
    BY <1>1, <1>2 DEF U
  <1>5. Cardinality(T \cup U) = Cardinality(T) + Cardinality(U) - Cardinality(T \cap U)
    BY <1>1, <1>4, FS_Union
  <1>6. Cardinality(S) = Cardinality(T) + Cardinality(U)
    BY <1>2, <1>3, <1>4, <1>5, FS_EmptySet
  <1> QED
    BY <1>1, <1>2, <1>6 DEF U

\* With a CRTC for every connector each new monitor gets one, although the
\* displays that are gone still hold theirs (modeset_find_crtc).
LEMMA BindsAll ==
  ASSUME EnoughCrtcs, Good(Now), plugged \subseteq Connector, NEW b \in Binds
  PROVE  plugged \subseteq b.listed
  <1> DEFINE new == plugged \ listed
             free == Crtc \ Used
  <1>1. /\ listed \subseteq Connector /\ Used \subseteq Crtc
        /\ crtc \in [Connector -> Crtc \cup {NoCrtc}]
    BY DEF Good, Record, Now, Used
  <1>2. /\ IsFiniteSet(listed) /\ IsFiniteSet(Connector \ listed) /\ IsFiniteSet(new)
        /\ IsFiniteSet(Used) /\ IsFiniteSet(free)
    BY <1>1, FS_Subset DEF EnoughCrtcs
  <1>3. Cardinality(Used) <= Cardinality(listed)
    <2> DEFINE f == [c \in listed |-> crtc[c]]
    <2>1. f \in Surjection(listed, Used)
      BY DEF Surjection, Used
    <2> QED
      BY <1>2, <2>1, FS_Surjection
  <1>4. Cardinality(new) <= Cardinality(Connector \ listed)
    BY <1>2, FS_Subset
  <1>5. Cardinality(Connector) = Cardinality(listed) + Cardinality(Connector \ listed)
    BY <1>1, SplitCardinality DEF EnoughCrtcs
  <1>6. Cardinality(Crtc) = Cardinality(Used) + Cardinality(free)
    BY <1>1, SplitCardinality DEF EnoughCrtcs
  <1>7. Cardinality(new) <= Cardinality(free)
    <2>1. /\ Cardinality(new) \in Nat /\ Cardinality(free) \in Nat
          /\ Cardinality(Used) \in Nat /\ Cardinality(listed) \in Nat
          /\ Cardinality(Connector \ listed) \in Nat
      BY <1>2, FS_CardinalityType
    <2> HIDE DEF new, free
    <2> QED
      BY <1>3, <1>4, <1>5, <1>6, <2>1 DEF EnoughCrtcs
  <1>8. PICK B \in SUBSET new : /\ Cardinality(B) = (IF Cardinality(new) < Cardinality(free)
                                                     THEN Cardinality(new) ELSE Cardinality(free))
                                /\ \E f \in FindCrtc(B), m \in [Connector -> Mode] : b = Bind(f, m)
    BY DEF Binds
  <1>9. B = new
    <2>1. Cardinality(B) = Cardinality(new)
      <3>1. Cardinality(new) \in Nat /\ Cardinality(free) \in Nat
        BY <1>2, FS_CardinalityType
      <3> HIDE DEF new, free
      <3> QED
        BY <1>7, <1>8, <3>1
    <2> QED
      BY <1>2, <2>1, FS_Subset
  <1>10. PICK f \in FindCrtc(B), m \in [Connector -> Mode] : b = Bind(f, m)
    BY <1>8
  <1>11. b.listed = (listed \ Gone) \cup B
    BY <1>10 DEF Bind, Now, FindCrtc
  <1> QED
    BY <1>9, <1>11 DEF Gone

\* drm_video_hotplug: success means that every monitor is shown; where no mode
\* had to be set they were all shown before.
LEMMA HotplugShows ==
  ASSUME EnoughCrtcs, Good(Now), plugged \subseteq Connector, ~legacy,
         NEW force, NEW master, NEW h \in Hotplug(force, master), h.ok
  PROVE  ShownIn(h.r)
  <1>1. PICK b \in Binds :
          IF b.listed = {} THEN h = [ok |-> TRUE, r |-> b]
          ELSE IF NeedsModeset(force)
               THEN \E a \in TryModeset(b, master) :
                      h = [ok |-> a.ret = "ok", r |-> IF a.ret = "ok" THEN Ready(a.r) ELSE a.r]
               ELSE h = [ok |-> TRUE, r |-> Ready(b)]
    BY DEF Hotplug
  <1>2. Good(b) /\ plugged \subseteq b.listed
    BY BindsGood, BindsAll
  <1>3. CASE b.listed = {}
    BY <1>2, <1>3 DEF ShownIn
  <1>4. ASSUME NEW a \in TryModeset(b, master),
               h = [ok |-> a.ret = "ok", r |-> IF a.ret = "ok" THEN Ready(a.r) ELSE a.r]
        PROVE  ShownIn(h.r)
    <2>1. a.ret = "ok" /\ h.r = Ready(a.r)
      BY <1>4
    <2>2. a.r.online = b.listed /\ a.r.listed = b.listed /\ Good(a.r)
      BY <1>2, <2>1, AtomicShows, TryModesetKeeps DEF Keeps
    <2>3. Ready(a.r).inuse = a.r.listed /\ Ready(a.r).online = a.r.online
      BY <2>2 DEF Ready, Good, Record
    <2> QED
      BY <1>2, <2>1, <2>2, <2>3 DEF ShownIn
  <1>5. CASE ~NeedsModeset(force) /\ h = [ok |-> TRUE, r |-> Ready(b)]
    <2>1. h.r = Ready(b) /\ Ready(b).inuse = b.listed /\ Ready(b).online = b.online
      BY <1>2, <1>5 DEF Ready, Good, Record
    <2>2. b.online = online \ Gone
      <3>1. PICK B \in SUBSET (plugged \ listed) :
              \E f \in FindCrtc(B), m \in [Connector -> Mode] : b = Bind(f, m)
        BY DEF Binds
      <3>2. PICK f \in FindCrtc(B), m \in [Connector -> Mode] : b = Bind(f, m)
        BY <3>1
      <3> QED
        BY <3>2 DEF Bind, Now
    <2>3. plugged \subseteq online
      BY <1>5 DEF NeedsModeset
    <2> QED
      BY <1>2, <2>1, <2>2, <2>3 DEF ShownIn, Gone
  <1> QED
    BY <1>1, <1>3, <1>4, <1>5

LEMMA DrmWakeUpShows ==
  ASSUME EnoughCrtcs, DrmInv, ~legacy, NEW w \in DrmWakeUp, w.ok
  PROVE  /\ w.awake /\ ShownIn(w.r) /\ ShownIn(WaitPflip(w.r))
  <1>1. PICK h \in Hotplug(TRUE, TRUE) :
          w = [ok |-> h.ok, awake |-> TRUE, r |-> h.r,
               holder |-> IF h.ok /\ h.r.listed # {} THEN "us" ELSE "none"]
    <2>1. holder # "other"
      BY DrmWakeUpKeeps DEF DrmInv
    <2> QED
      BY <2>1 DEF DrmWakeUp
  <1>2. h.ok /\ w.r = h.r /\ w.awake = TRUE
    BY <1>1
  <1>3. ShownIn(w.r)
    BY <1>2, HotplugShows DEF DrmInv
  <1>4. Good(w.r)
    BY DrmWakeUpKeeps DEF DrmInv
  <1>5. WaitPflip(w.r).inuse = w.r.inuse /\ WaitPflip(w.r).online = w.r.online
    BY <1>4, WaitPflipRecord, FlipsKeepOnline
  <1> QED
    BY <1>2, <1>3, <1>5 DEF ShownIn

(***************************************************************************)
(* The invariant behind Retried.  Retried itself is not inductive: a device *)
(* that is asleep forgets a hotplug event, and one that is awake in the     *)
(* background is not looked at when the seat comes back.                   *)
(***************************************************************************)
RetryInv ==
  /\ kept /\ awake /\ ~legacy => ShownIn(Now) \/ uevent \/ armed
  /\ kept /\ wanted /\ ~awake => armed

LEMMA RetryStep ==
  ASSUME EnoughCrtcs, DrmInv, RetryInv, [Next]_vars
  PROVE  RetryInv'
  <1>0. ShownIn(Now) = (plugged \subseteq inuse \cap online)
    BY DEF ShownIn, Now
  <1>1. CASE Open
    <2>1. PICK w \in DrmWakeUp : kept' = w.ok /\ armed' = ~w.ok /\ BackendWakeUp(w)
      BY <1>1 DEF Open
    <2>2. ASSUME w.ok, ~legacy PROVE ShownIn(Now)'
      BY <1>1, <2>1, <2>2, DrmWakeUpShows DEF Open, BackendWakeUp, Store, ShownIn, Now
    <2> QED
      BY <1>1, <2>1, <2>2 DEF RetryInv, Open, BackendWakeUp
  <1>2. CASE WakeUp /\ awake
    BY <1>2 DEF RetryInv, WakeUp, ShownIn, Now, videoVars, dispVars, kernelVars, flipVars
  <1>3. CASE WakeUp /\ ~awake
    <2>1. PICK w \in DrmWakeUp : BackendWakeUp(w) /\ armed' = (armed \/ ~w.ok)
                                 /\ UNCHANGED <<legacy, plugged>>
      BY <1>3 DEF WakeUp
    <2>2. ASSUME w.ok, ~legacy PROVE ShownIn(Now)'
      BY <2>1, <2>2, DrmWakeUpShows DEF BackendWakeUp, Store, ShownIn, Now
    <2>3. w.ok \in BOOLEAN
      BY DrmWakeUpKeeps DEF DrmInv
    <2> QED
      BY <2>1, <2>2, <2>3 DEF RetryInv, BackendWakeUp
  <1>4. CASE Sleep
    BY <1>4 DEF RetryInv, Sleep, ShownIn, Now, videoVars, dispVars, kernelVars, flipVars
  <1>5. CASE Poll /\ ~awake
    <2>1. UNCHANGED <<kept, wanted, awake, armed>>
      BY <1>5 DEF Poll, seatVars
    <2> QED
      BY <1>5, <2>1 DEF RetryInv
  <1>6. CASE Poll /\ awake
    <2>1. PICK h \in Hotplug(FALSE, holder = "us") :
            Store(h.r) /\ armed' = (armed \/ ~h.ok)
      BY <1>6 DEF Poll
    <2>2. ASSUME h.ok, ~legacy PROVE ShownIn(Now)'
      <3>1. Good(Now) /\ plugged \subseteq Connector
        BY DEF DrmInv
      <3>2. ShownIn(h.r)
        BY <2>2, <3>1, HotplugShows
      <3>3. inuse' = h.r.inuse /\ online' = h.r.online /\ plugged' = plugged
        BY <1>6, <2>1 DEF Poll, Store
      <3> QED
        BY <3>2, <3>3 DEF ShownIn, Now
    <2> QED
      BY <1>6, <2>1, <2>2 DEF RetryInv, Poll, seatVars
  <1>7. CASE Close
    BY <1>7 DEF RetryInv, Close
  <1>8. ASSUME NEW ok \in BOOLEAN, VtTimeout(ok) PROVE RetryInv'
    <2>1. PICK w \in DrmWakeUp : /\ w.ok = ok /\ Store(w.r) /\ armed' = ~ok
                                 /\ awake' = w.awake
      BY <1>8 DEF VtTimeout
    <2>2. ASSUME ok, ~legacy PROVE ShownIn(Now)'
      BY <1>8, <2>1, <2>2, DrmWakeUpShows DEF VtTimeout, Store, ShownIn, Now
    <2>3. ASSUME ok PROVE awake'
      <3>1. holder # "other"
        BY <2>1, <2>3, DrmWakeUpKeeps DEF DrmInv
      <3> QED
        BY <2>1, <3>1, DrmWakeUpKeeps DEF DrmInv
    <2> QED
      BY <1>8, <2>1, <2>2, <2>3 DEF RetryInv, VtTimeout, seatVars
  <1>9. CASE IoEvent \/ DoPflips
    <2>1. PICK r \in {Pflips(Now), Pflips(ReadEvents(Now))} : Store(r)
      BY <1>9 DEF IoEvent, DoPflips
    <2>2. Keeps(Now, ReadEvents(Now)) /\ Keeps(Now, r)
      BY <2>1, ReadEventsKeeps, PflipsKeeps, KeepsTransitive DEF DrmInv, Keeps
    <2>3. r.inuse = inuse /\ r.online = online
      BY <2>1, <2>2, FlipsKeepOnline DEF Keeps, Now, DrmInv
    <2> QED
      BY <1>9, <2>1, <2>3 DEF RetryInv, IoEvent, DoPflips, Store, ShownIn, Now, seatVars, videoVars
  <1>10. ASSUME NEW c \in Connector, Swap(c) PROVE RetryInv'
    BY <1>10 DEF RetryInv, Swap, ShownIn, Now, seatVars, videoVars
  <1>11. ASSUME NEW c \in Connector, Cable(c) PROVE RetryInv'
    BY <1>11 DEF RetryInv, Cable, seatVars, videoVars
  <1>12. ASSUME NEW k \in Crtc, KernelFlip(k) PROVE RetryInv'
    BY <1>12 DEF RetryInv, KernelFlip, ShownIn, Now, seatVars, videoVars, dispVars
  <1>13. CASE OtherTakes \/ OtherDrops
    BY <1>13 DEF RetryInv, OtherTakes, OtherDrops, ShownIn, Now, seatVars, videoVars, dispVars
  <1>14. CASE UNCHANGED vars
    BY <1>14 DEF RetryInv, vars, ShownIn, Now, seatVars, videoVars, dispVars, kernelVars
  <1> QED
    BY <1>1, <1>2, <1>3, <1>4, <1>5, <1>6, <1>7, <1>8, <1>9, <1>10, <1>11, <1>12,
       <1>13, <1>14 DEF Next

\* A monitor that is plugged in and not shown, while the seat is in the
\* foreground, is not forgotten, for any number of connectors, every failure
\* of a modeset and every way to lose DRM master: the device has a hotplug
\* event to look at, or vt_timer tries again (drm_video_hotplug, video_wake_up,
\* vt_timeout).  A display has a CRTC of its own, so there must be enough.
THEOREM RetriedCorrect ==
  ASSUME EnoughCrtcs
  PROVE  Spec => []Retried
  <1>1. Init => RetryInv
    BY DEF Init, RetryInv
  <1>2. (DrmInv /\ RetryInv) /\ [Next]_vars => (DrmInv /\ RetryInv)'
    BY DrmNext, RetryStep DEF Step
  <1>3. RetryInv => Retried
    BY DEF RetryInv, Retried, ShownIn, Now
  <1> QED
    BY <1>1, <1>2, <1>3, DrmInit, PTL DEF Spec
=============================================================================
