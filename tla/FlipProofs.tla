------------------------------ MODULE FlipProofs ------------------------------
(***************************************************************************)
(* Theorems about Flip, for any number of terminals and displays.          *)
(***************************************************************************)
EXTENDS Flip, TLAPS

(***************************************************************************)
(* The handlers are operators on a record.  Backed says that every display *)
(* that waits for a flip has one outstanding or its event queued.          *)
(***************************************************************************)
Record ==
  [awake : SUBSET Terminal, swapping : SUBSET Screen, pending : SUBSET Screen,
   stale : SUBSET Screen, plugged : SUBSET Display, on : SUBSET Display,
   vsync : SUBSET Display, pflip : SUBSET Display, busy : SUBSET Display,
   events : [Display -> Nat], idle : BOOLEAN,
   scan : [Display -> Holder], queued : [Display -> Holder], next : SUBSET Display]

Backed(r) ==
  /\ r \in Record
  /\ r.on \subseteq r.plugged /\ r.vsync \subseteq r.plugged /\ r.pflip \subseteq r.vsync
  /\ \A d \in r.vsync \ r.pflip : d \in r.busy \/ r.events[d] > 0

(***************************************************************************)
(* Sound says what holds in the steady uses, of each display: one whose    *)
(* flip was noticed shows the buffer in current and nothing is outstanding;*)
(* one with a flip to finish still shows current and gets next; a screen   *)
(* waits only for displays that have a flip outstanding; and an awake      *)
(* terminal draws on displays that are on.                                 *)
(***************************************************************************)
Quiet(r, d) ==
  d \notin r.busy /\ r.events[d] = 0 /\ d \notin r.next /\ r.scan[d] = "current"

Flipping(r, d) ==
  /\ d \in r.vsync \ r.pflip /\ r.events[d] = 0 /\ r.scan[d] = "current"
  /\ gl => d \in r.next /\ r.queued[d] = "next"
  /\ ~gl => d \notin r.next /\ r.queued[d] = "current"

Flipped(r, d) ==
  /\ r.scan[d] = IF d \in r.next THEN "next" ELSE "current"
  /\ (d \in r.pflip) <=> (r.events[d] = 0)

SoundAt(r, d) ==
  /\ d \notin r.vsync => Quiet(r, d)
  /\ d \in r.busy => Flipping(r, d)
  /\ d \in r.vsync \ r.busy => Flipped(r, d)
  /\ ~gl => d \notin r.next /\ r.queued[d] = "current"
  /\ \A t \in Terminal : <<t, d>> \in r.swapping => d \in r.vsync

Sound(r) ==
  /\ r.plugged = Display
  /\ \A d \in Display : SoundAt(r, d)
  /\ r.awake # {} => r.on = Display

\* A step of a handler.
Keeps(r, q) ==
  /\ Backed(q) /\ q.plugged = r.plugged /\ q.on = r.on /\ q.awake = r.awake
  /\ Sound(r) => Sound(q)

LEMMA KeepsTransitive ==
  ASSUME NEW r, NEW q, NEW s, Keeps(r, q), Keeps(q, s)
  PROVE  Keeps(r, s)
  BY DEF Keeps

\* A step that draws notices no flip and waits for none.
Draws(r, q) == Keeps(r, q) /\ q.pflip = r.pflip /\ q.idle = r.idle

LEMMA DrawsTransitive ==
  ASSUME NEW r, NEW q, NEW s, Draws(r, q), Draws(q, s)
  PROVE  Draws(r, s)
  BY KeepsTransitive DEF Draws

\* Fields that neither Backed nor Sound looks at.
LEMMA KeepsAlike ==
  ASSUME NEW r, Backed(r), NEW q \in Record,
         q.plugged = r.plugged, q.on = r.on, q.awake = r.awake, q.vsync = r.vsync,
         q.pflip = r.pflip, q.busy = r.busy, q.events = r.events, q.scan = r.scan,
         q.queued = r.queued, q.next = r.next,
         \A t \in Terminal, d \in Display :
           <<t, d>> \in q.swapping => <<t, d>> \in r.swapping \/ d \in r.vsync
  PROVE  Keeps(r, q)
  <1>1. Backed(q)
    BY DEF Backed
  <1>2. ASSUME Sound(r), NEW d \in Display PROVE SoundAt(q, d)
    BY <1>2 DEF Sound, SoundAt, Quiet, Flipping, Flipped
  <1> QED
    BY <1>1, <1>2 DEF Keeps, Sound

LEMMA RenameType ==
  ASSUME NEW h \in [Display -> Holder], NEW D \in SUBSET Display,
         NEW new \in {Replaced, Promoted}
  PROVE  Rename(h, D, new) \in [Display -> Holder]
  BY DEF Rename, Replaced, Promoted, Holder

-----------------------------------------------------------------------------
(***************************************************************************)
(* The DRM device.                                                         *)
(***************************************************************************)
\* display_event and drm_video_read_events.
LEMMA ReadEventsKeeps ==
  ASSUME NEW r, Backed(r)
  PROVE  LET q == ReadEvents(r)
         IN  /\ Keeps(r, q) /\ q.vsync \ q.pflip \subseteq r.busy
             /\ q.vsync = r.vsync /\ q.idle = r.idle /\ q.busy = r.busy
             /\ q.swapping = r.swapping
  <1> DEFINE q == ReadEvents(r)
             p == {d \in r.plugged : r.events[d] > 0 /\ d \in r.vsync}
  <1>1. /\ q.pflip = r.pflip \cup p /\ q.events = [d \in Display |-> 0]
        /\ q.plugged = r.plugged /\ q.on = r.on /\ q.awake = r.awake
        /\ q.vsync = r.vsync /\ q.idle = r.idle /\ q.busy = r.busy
        /\ q.scan = r.scan /\ q.queued = r.queued /\ q.next = r.next
        /\ q.swapping = r.swapping
    BY DEF ReadEvents, Backed, Record
  <1>2. q \in Record
    BY <1>1 DEF ReadEvents, Backed, Record
  <1>3. Backed(q) /\ q.vsync \ q.pflip \subseteq r.busy
    BY <1>1, <1>2 DEF Backed
  <1> HIDE DEF q
  <1>4. ASSUME Sound(r), NEW d \in Display PROVE SoundAt(q, d)
    <2>1. SoundAt(r, d) /\ r.events[d] \in Nat /\ r.plugged = Display
      BY <1>4 DEF Sound, Backed, Record
    <2> QED
      BY <1>1, <2>1 DEF SoundAt, Quiet, Flipping, Flipped, Backed
  <1>5. Keeps(r, q)
    BY <1>1, <1>3, <1>4 DEF Keeps, Sound
  <1> QED
    BY <1>1, <1>3, <1>5 DEF q

\* The kernel finishes flips.
LEMMA FinishFlipsKeeps ==
  ASSUME NEW r, Backed(r), NEW D \in SUBSET r.busy
  PROVE  LET q == FinishFlips(r, D)
         IN  /\ Keeps(r, q) /\ q.vsync = r.vsync /\ q.pflip = r.pflip /\ q.idle = r.idle
             /\ q.busy = r.busy \ D /\ q.swapping = r.swapping
  <1> DEFINE q == FinishFlips(r, D)
  <1>1. /\ q.busy = r.busy \ D
        /\ q.scan = [d \in Display |-> IF gl /\ d \in D THEN r.queued[d] ELSE r.scan[d]]
        /\ q.events = [d \in Display |-> IF d \in D THEN r.events[d] + 1 ELSE r.events[d]]
        /\ q.pflip = r.pflip /\ q.plugged = r.plugged /\ q.on = r.on /\ q.awake = r.awake
        /\ q.vsync = r.vsync /\ q.idle = r.idle
        /\ q.queued = r.queued /\ q.next = r.next /\ q.swapping = r.swapping
    BY DEF FinishFlips, Backed, Record
  <1>2. q.scan \in [Display -> Holder] /\ q.events \in [Display -> Nat]
    BY <1>1 DEF Backed, Record
  <1>3. q \in Record
    BY <1>1, <1>2 DEF FinishFlips, Backed, Record
  <1> HIDE DEF q
  <1>4. Backed(q)
    BY <1>1, <1>3 DEF Backed, Record
  <1>5. ASSUME Sound(r), NEW d \in Display PROVE SoundAt(q, d)
    <2>1. SoundAt(r, d) /\ r.events[d] \in Nat
      BY <1>5 DEF Sound, Backed, Record
    <2> QED
      BY <1>1, <2>1 DEF SoundAt, Quiet, Flipping, Flipped
  <1>6. Keeps(r, q)
    BY <1>1, <1>4, <1>5 DEF Keeps, Sound
  <1> QED
    BY <1>1, <1>6 DEF q

\* drm_video_wait_pflip: no display waits when it returns.
LEMMA WaitPflipKeeps ==
  ASSUME NEW r, Backed(r), NEW D \in SUBSET Display
  PROVE  LET q == WaitPflip(r, D)
         IN  /\ Keeps(r, q) /\ q.vsync = r.vsync
             /\ D \cap q.vsync \subseteq q.pflip
             /\ q.idle \/ q = r
             /\ q.swapping = r.swapping
  <1> DEFINE wait == (D \cap r.vsync) \ r.pflip
             done == {d \in wait : d \in r.busy}
             f == FinishFlips(r, done)
             e == ReadEvents(f)
             q == WaitPflip(r, D)
  <1>1. CASE wait = {}
    <2>1. q = r
      BY <1>1 DEF WaitPflip
    <2> QED
      BY <1>1, <2>1 DEF Keeps
  <1>2. CASE wait # {}
    <2>9. done \in SUBSET r.busy
      OBVIOUS
    <2> HIDE DEF done
    <2>1. /\ Keeps(r, f) /\ f.vsync = r.vsync /\ f.pflip = r.pflip /\ f.busy = r.busy \ done
          /\ f.swapping = r.swapping
      BY <2>9, FinishFlipsKeeps
    <2> HIDE DEF f
    <2>2. /\ Keeps(f, e) /\ e.vsync \ e.pflip \subseteq f.busy /\ e.vsync = f.vsync
          /\ e.swapping = f.swapping
      BY <2>1, ReadEventsKeeps DEF Keeps
    <2>0. f.pflip \subseteq e.pflip
      BY <2>1 DEF Keeps, Backed, Record, ReadEvents
    <2>3. q = [e EXCEPT !.idle = TRUE]
      BY <1>2 DEF WaitPflip, f, done
    <2> HIDE DEF e, q
    <2>4. Keeps(r, e) /\ Backed(e)
      BY <2>1, <2>2, KeepsTransitive DEF Keeps
    <2>5. /\ q \in Record /\ q.idle
          /\ q.plugged = e.plugged /\ q.on = e.on /\ q.awake = e.awake /\ q.vsync = e.vsync
          /\ q.pflip = e.pflip /\ q.busy = e.busy /\ q.events = e.events /\ q.scan = e.scan
          /\ q.queued = e.queued /\ q.next = e.next /\ q.swapping = e.swapping
      BY <2>3, <2>4 DEF Backed, Record
    <2>6. Keeps(e, q)
      BY <2>4, <2>5, KeepsAlike
    <2>7. D \cap q.vsync \subseteq q.pflip
      BY <2>0, <2>1, <2>2, <2>5 DEF done
    <2>8. Keeps(r, q)
      BY <2>4, <2>6, KeepsTransitive
    <2> QED
      BY <2>1, <2>2, <2>5, <2>7, <2>8 DEF q
  <1> QED
    BY <1>1, <1>2

\* drm3d_display_swap takes a buffer and locks it as next.
LEMMA SwapBuffersType ==
  ASSUME NEW r \in Record, NEW D \in SUBSET Display
  PROVE  LET q == SwapBuffers(r, D)
         IN  /\ q \in Record
             /\ q.plugged = r.plugged /\ q.on = r.on /\ q.awake = r.awake
             /\ q.vsync = r.vsync /\ q.pflip = r.pflip /\ q.busy = r.busy
             /\ q.events = r.events /\ q.idle = r.idle /\ q.swapping = r.swapping
             /\ q.next = IF gl THEN r.next \cup D ELSE r.next
             /\ \A d \in Display \ D : q.scan[d] = r.scan[d] /\ q.queued[d] = r.queued[d]
             /\ \A d \in D : IF gl THEN q.queued[d] = "next"
                                        /\ (r.scan[d] = "current" => q.scan[d] = "current")
                             ELSE q.scan[d] = r.scan[d] /\ q.queued[d] = r.queued[d]
  <1> DEFINE q == SwapBuffers(r, D)
             sc == Rename(r.scan, D, Replaced)
             qu == [d \in Display |-> IF d \in D THEN "next" ELSE r.queued[d]]
  <1>1. CASE ~gl
    BY <1>1 DEF SwapBuffers
  <1>2. CASE gl
    <2>1. q = [r EXCEPT !.scan = sc, !.queued = qu, !.next = r.next \cup D]
      BY <1>2 DEF SwapBuffers, Record
    <2>2. sc \in [Display -> Holder]
      BY RenameType DEF Record
    <2>3. qu \in [Display -> Holder]
      BY DEF Record, Holder
    <2>4. /\ \A d \in Display \ D : sc[d] = r.scan[d] /\ qu[d] = r.queued[d]
          /\ \A d \in D : qu[d] = "next" /\ (r.scan[d] = "current" => sc[d] = "current")
      BY DEF Rename, Replaced
    <2> HIDE DEF sc, qu, q
    <2>5. /\ q \in Record
          /\ q.plugged = r.plugged /\ q.on = r.on /\ q.awake = r.awake
          /\ q.vsync = r.vsync /\ q.pflip = r.pflip /\ q.busy = r.busy
          /\ q.events = r.events /\ q.idle = r.idle /\ q.swapping = r.swapping
          /\ q.next = r.next \cup D /\ q.scan = sc /\ q.queued = qu
      BY <2>1, <2>2, <2>3 DEF Record
    <2> QED
      BY <1>2, <2>4, <2>5 DEF q
  <1> QED
    BY <1>1, <1>2

\* Frames handed over to displays that are on and that nothing is outstanding of.
LEMMA FlipsKeep ==
  ASSUME NEW r, Backed(r), NEW F \in SUBSET r.plugged,
         F \cap r.vsync = {}, F \cap r.busy = {},
         NEW q \in Record,
         q.plugged = r.plugged, q.on = r.on, q.awake = r.awake,
         q.pflip = r.pflip, q.events = r.events, q.idle = r.idle,
         q.vsync = r.vsync \cup F, q.busy = r.busy \cup F,
         q.scan = r.scan, q.queued = r.queued, q.next = r.next,
         \A t \in Terminal, d \in Display :
           <<t, d>> \in q.swapping =>
             \/ <<t, d>> \in r.swapping \/ d \in q.vsync \/ d \in r.busy
             \/ r.awake # {} /\ d \notin r.on
  PROVE  Draws(r, SwapBuffers(q, F))
  <1> DEFINE s == SwapBuffers(q, F)
  <1>0. F \in SUBSET Display
    BY DEF Backed, Record
  <1>1. /\ s \in Record
        /\ s.plugged = q.plugged /\ s.on = q.on /\ s.awake = q.awake
        /\ s.vsync = q.vsync /\ s.pflip = q.pflip /\ s.busy = q.busy
        /\ s.events = q.events /\ s.idle = q.idle /\ s.swapping = q.swapping
        /\ s.next = IF gl THEN q.next \cup F ELSE q.next
        /\ \A d \in Display \ F : s.scan[d] = q.scan[d] /\ s.queued[d] = q.queued[d]
        /\ \A d \in F : IF gl THEN s.queued[d] = "next"
                                   /\ (q.scan[d] = "current" => s.scan[d] = "current")
                        ELSE s.scan[d] = q.scan[d] /\ s.queued[d] = q.queued[d]
    BY <1>0, SwapBuffersType
  <1> HIDE DEF s
  <1>2. Backed(s)
    BY <1>1 DEF Backed
  <1>3. ASSUME Sound(r), NEW d \in Display PROVE SoundAt(s, d)
    <2>1. SoundAt(r, d) /\ r.plugged = Display
          /\ \A t \in Terminal :
               <<t, d>> \in q.swapping => <<t, d>> \in r.swapping \/ d \in q.vsync
      BY <1>3 DEF Sound, SoundAt, Flipping
    <2>2. CASE d \in F
      <3>1. d \notin r.vsync /\ Quiet(r, d) /\ d \notin r.busy
        BY <2>1, <2>2 DEF SoundAt
      <3>2. d \in s.vsync /\ d \in s.busy /\ d \notin s.pflip
        BY <1>1, <2>2, <3>1 DEF Backed
      <3>3. Flipping(s, d)
        BY <1>1, <2>1, <2>2, <3>1, <3>2 DEF Flipping, Quiet, SoundAt
      <3> QED
        BY <1>1, <2>1, <2>2, <3>2, <3>3 DEF SoundAt, Flipping
    <2>3. CASE d \notin F
      BY <1>1, <1>3, <2>1, <2>3 DEF SoundAt, Quiet, Flipping, Flipped
    <2> QED
      BY <2>2, <2>3
  <1>4. Sound(r) => Sound(s)
    BY <1>1, <1>3 DEF Sound
  <1> QED
    BY <1>1, <1>2, <1>4 DEF Draws, Keeps, s

-----------------------------------------------------------------------------
(***************************************************************************)
(* The terminals.                                                          *)
(***************************************************************************)
\* do_redraw_screen marks the screens it has tried to draw as swapping; those on
\* displays that are on have a flip outstanding then.
LEMMA DoRedrawKeeps ==
  ASSUME NEW r, Backed(r), NEW t \in Terminal, NEW D \in SUBSET r.plugged
  PROVE  Draws(r, DoRedraw(r, t, D))
  <1> DEFINE flips == {d \in D : d \in r.on /\ d \notin r.vsync /\ d \notin r.busy}
             q == [r EXCEPT !.pending = @ \ ({t} \X D),
                            !.swapping = @ \cup ({t} \X D),
                            !.stale = @ \ ({t} \X flips),
                            !.vsync = @ \cup flips,
                            !.busy = @ \cup flips]
  <1>1. CASE t \notin r.awake
    BY <1>1 DEF DoRedraw, Draws, Keeps
  <1>2. CASE t \in r.awake
    <2>1. DoRedraw(r, t, D) = SwapBuffers(q, flips)
      BY <1>2 DEF DoRedraw
    <2>2. /\ flips \in SUBSET r.plugged /\ flips \cap r.vsync = {} /\ flips \cap r.busy = {}
          /\ flips \subseteq Display
          /\ \A d \in D : d \in flips \/ d \in r.vsync \/ d \in r.busy \/ d \notin r.on
      BY DEF Backed, Record
    <2> HIDE DEF flips
    <2>3. /\ q.plugged = r.plugged /\ q.on = r.on /\ q.awake = r.awake
          /\ q.pflip = r.pflip /\ q.events = r.events /\ q.idle = r.idle
          /\ q.vsync = r.vsync \cup flips /\ q.busy = r.busy \cup flips
          /\ q.scan = r.scan /\ q.queued = r.queued /\ q.next = r.next
          /\ q.swapping = r.swapping \cup ({t} \X D)
          /\ q.pending = r.pending \ ({t} \X D) /\ q.stale = r.stale \ ({t} \X flips)
      BY DEF Backed, Record
    <2>4. {t} \X D \subseteq Screen
      BY DEF Screen, Backed, Record
    <2>5. q \in Record
      BY <2>2, <2>3, <2>4 DEF Backed, Record
    <2> HIDE DEF q
    <2>6. ASSUME NEW u \in Terminal, NEW d \in Display, <<u, d>> \in q.swapping
          PROVE  \/ <<u, d>> \in r.swapping \/ d \in q.vsync \/ d \in r.busy
                 \/ r.awake # {} /\ d \notin r.on
      BY <1>2, <2>2, <2>3, <2>6
    <2>7. Draws(r, SwapBuffers(q, flips))
      BY <2>2, <2>3, <2>5, <2>6, FlipsKeep
    <2> QED
      BY <2>1, <2>7
  <1> QED
    BY <1>1, <1>2

LEMMA RedrawAllKeeps ==
  ASSUME NEW r, Backed(r), NEW t \in Terminal
  PROVE  Draws(r, RedrawAll(r, t))
  <1> DEFINE wait == {d \in r.plugged : <<t, d>> \in r.swapping}
             q == [r EXCEPT !.pending = @ \cup ({t} \X wait)]
  <1>1. CASE t \notin r.awake
    BY <1>1 DEF RedrawAll, Draws, Keeps
  <1>2. CASE t \in r.awake
    <2>1. RedrawAll(r, t) = DoRedraw(q, t, r.plugged \ wait)
      BY <1>2 DEF RedrawAll
    <2>2. {t} \X wait \subseteq Screen
      BY DEF Screen, Backed, Record
    <2> HIDE DEF wait
    <2>3. /\ q \in Record /\ q.idle = r.idle
          /\ q.plugged = r.plugged /\ q.on = r.on /\ q.awake = r.awake /\ q.vsync = r.vsync
          /\ q.pflip = r.pflip /\ q.busy = r.busy /\ q.events = r.events /\ q.scan = r.scan
          /\ q.queued = r.queued /\ q.next = r.next /\ q.swapping = r.swapping
      BY <2>2 DEF Backed, Record
    <2> HIDE DEF q
    <2>4. Draws(r, q)
      BY <2>3, KeepsAlike DEF Draws
    <2>5. Backed(q) /\ r.plugged \ wait \in SUBSET q.plugged
      BY <2>3, <2>4 DEF Draws, Keeps
    <2>6. Draws(q, DoRedraw(q, t, r.plugged \ wait))
      BY <2>5, DoRedrawKeeps
    <2> QED
      BY <2>1, <2>4, <2>6, DrawsTransitive
  <1> QED
    BY <1>1, <1>2

LEMMA RedrawAllTextKeeps ==
  ASSUME NEW r, Backed(r), NEW t \in Terminal
  PROVE  Draws(r, RedrawAllText(r, t))
  <1> DEFINE q == [r EXCEPT !.swapping = @ \cup ({t} \X (r.plugged \cap r.vsync))]
  <1>1. CASE t \notin r.awake
    BY <1>1 DEF RedrawAllText, Draws, Keeps
  <1>2. CASE t \in r.awake
    <2>1. RedrawAllText(r, t) = RedrawAll(q, t)
      BY <1>2 DEF RedrawAllText
    <2>2. {t} \X (r.plugged \cap r.vsync) \subseteq Screen
      BY DEF Screen, Backed, Record
    <2>3. /\ q \in Record /\ q.idle = r.idle
          /\ q.plugged = r.plugged /\ q.on = r.on /\ q.awake = r.awake /\ q.vsync = r.vsync
          /\ q.pflip = r.pflip /\ q.busy = r.busy /\ q.events = r.events /\ q.scan = r.scan
          /\ q.queued = r.queued /\ q.next = r.next
          /\ q.swapping = r.swapping \cup ({t} \X (r.plugged \cap r.vsync))
      BY <2>2 DEF Backed, Record
    <2> HIDE DEF q
    <2>4. Draws(r, q)
      BY <2>3, KeepsAlike DEF Draws
    <2>5. Draws(q, RedrawAll(q, t))
      BY <2>4, RedrawAllKeeps DEF Draws, Keeps
    <2> QED
      BY <2>1, <2>4, <2>5, DrawsTransitive
  <1> QED
    BY <1>1, <1>2

\* A terminal is woken up only when the displays are on.
LEMMA ActivateKeeps ==
  ASSUME NEW r, Backed(r), NEW t \in Terminal
  PROVE  LET q == Activate(r, t)
         IN  /\ Backed(q) /\ q.plugged = r.plugged /\ q.on = r.on
             /\ q.awake \subseteq r.awake \cup {t}
             /\ q.pflip = r.pflip /\ q.idle = r.idle
             /\ Sound(r) /\ r.on = Display => Sound(q)
  <1> DEFINE w == [r EXCEPT !.awake = @ \cup {t}, !.stale = @ \cup ({t} \X r.plugged)]
             q == Activate(r, t)
  <1>1. CASE r.plugged = {}
    BY <1>1 DEF Activate
  <1>2. CASE r.plugged # {}
    <2>1. q = RedrawAllText(w, t)
      BY <1>2 DEF Activate
    <2>2. {t} \X r.plugged \subseteq Screen
      BY DEF Screen, Backed, Record
    <2>3. /\ w \in Record /\ w.idle = r.idle /\ w.awake = r.awake \cup {t}
          /\ w.plugged = r.plugged /\ w.on = r.on /\ w.vsync = r.vsync
          /\ w.pflip = r.pflip /\ w.busy = r.busy /\ w.events = r.events /\ w.scan = r.scan
          /\ w.queued = r.queued /\ w.next = r.next /\ w.swapping = r.swapping
      BY <2>2 DEF Backed, Record
    <2> HIDE DEF w, q
    <2>4. Backed(w)
      BY <2>3 DEF Backed
    <2>5. ASSUME Sound(r), r.on = Display PROVE Sound(w)
      <3>1. ASSUME NEW d \in Display PROVE SoundAt(w, d)
        BY <2>3, <2>5 DEF Sound, SoundAt, Quiet, Flipping, Flipped
      <3> QED
        BY <2>3, <2>5, <3>1 DEF Sound
    <2>6. Draws(w, q)
      BY <2>1, <2>4, RedrawAllTextKeeps
    <2> QED
      BY <2>3, <2>5, <2>6 DEF Draws, Keeps, q
  <1> QED
    BY <1>1, <1>2

\* terminal_deactivate.
LEMMA DeactivateKeeps ==
  ASSUME NEW r, Backed(r), NEW t \in Terminal
  PROVE  LET q == Deactivate(r, t)
         IN  /\ Backed(q) /\ q.plugged = r.plugged /\ q.on = r.on
             /\ q.awake = r.awake \ {t}
             /\ q.pflip = r.pflip /\ q.idle = r.idle /\ q.vsync = r.vsync
             /\ Sound(r) => Sound(q)
  <1> DEFINE q == Deactivate(r, t)
  <1>1. /\ q \in Record /\ q.idle = r.idle /\ q.awake = r.awake \ {t}
        /\ q.plugged = r.plugged /\ q.on = r.on /\ q.vsync = r.vsync
        /\ q.pflip = r.pflip /\ q.busy = r.busy /\ q.events = r.events /\ q.scan = r.scan
        /\ q.queued = r.queued /\ q.next = r.next /\ q.swapping = r.swapping
    BY DEF Deactivate, Backed, Record
  <1> HIDE DEF q
  <1>2. Backed(q)
    BY <1>1 DEF Backed
  <1>3. ASSUME Sound(r), NEW d \in Display PROVE SoundAt(q, d)
    BY <1>1, <1>3 DEF Sound, SoundAt, Quiet, Flipping, Flipped
  <1>4. Sound(r) => Sound(q)
    BY <1>1, <1>3 DEF Sound
  <1> QED
    BY <1>1, <1>2, <1>4 DEF q

-----------------------------------------------------------------------------
(***************************************************************************)
(* The callbacks of flips, and the commits of a device.                    *)
(***************************************************************************)
\* page_flip_handler releases the buffer that was shown and keeps the new one.
LEMMA FlipBuffersType ==
  ASSUME NEW r, Backed(r), NEW F \in SUBSET Display
  PROVE  LET q == FlipBuffers(r, F)
         IN  /\ q \in Record
             /\ q.plugged = r.plugged /\ q.on = r.on /\ q.awake = r.awake
             /\ q.vsync = r.vsync /\ q.pflip = r.pflip /\ q.busy = r.busy
             /\ q.events = r.events /\ q.idle = r.idle /\ q.swapping = r.swapping
             /\ q.pending = r.pending /\ q.stale = r.stale
             /\ q.next = r.next \ F
             /\ \A d \in Display \ (F \cap r.next) :
                  q.scan[d] = r.scan[d] /\ q.queued[d] = r.queued[d]
             /\ \A d \in F \cap r.next : r.scan[d] = "next" => q.scan[d] = "current"
  <1> DEFINE G == F \cap r.next
             sc == Rename(r.scan, G, Promoted)
             qu == Rename(r.queued, G, Promoted)
             q == FlipBuffers(r, F)
  <1>1. q = [r EXCEPT !.scan = sc, !.queued = qu, !.next = r.next \ F]
    BY DEF FlipBuffers, Backed, Record
  <1>2. sc \in [Display -> Holder] /\ qu \in [Display -> Holder]
    BY RenameType DEF Backed, Record
  <1>3. /\ \A d \in Display \ G : sc[d] = r.scan[d] /\ qu[d] = r.queued[d]
        /\ \A d \in G : r.scan[d] = "next" => sc[d] = "current"
    BY DEF Rename, Promoted
  <1> HIDE DEF sc, qu, q
  <1>4. /\ q \in Record
        /\ q.plugged = r.plugged /\ q.on = r.on /\ q.awake = r.awake
        /\ q.vsync = r.vsync /\ q.pflip = r.pflip /\ q.busy = r.busy
        /\ q.events = r.events /\ q.idle = r.idle /\ q.swapping = r.swapping
        /\ q.pending = r.pending /\ q.stale = r.stale
        /\ q.next = r.next \ F /\ q.scan = sc /\ q.queued = qu
    BY <1>1, <1>2 DEF Backed, Record
  <1> QED
    BY <1>3, <1>4 DEF q

\* The callbacks of all the flips that were noticed.
LEMMA PflipKeeps ==
  ASSUME NEW r, Backed(r), NEW t \in Terminal
  PROVE  LET q == Pflip(r, r.pflip, t)
         IN  /\ Keeps(r, q) /\ q.pflip = {} /\ q.idle = r.idle
             /\ r.awake = {} => q.vsync = r.vsync \ r.pflip
  <1> DEFINE F == r.pflip
             due == {d \in F : <<t, d>> \in r.pending}
             b == FlipBuffers(r, F)
             c == [b EXCEPT !.vsync = @ \ F, !.pflip = @ \ F, !.swapping = @ \ (Terminal \X F)]
             q == Pflip(r, F, t)
  <1>1. q = DoRedraw(c, t, due)
    BY DEF Pflip
  <1>2. F \in SUBSET Display
    BY DEF Backed, Record
  <1>3. /\ b \in Record
        /\ b.plugged = r.plugged /\ b.on = r.on /\ b.awake = r.awake
        /\ b.vsync = r.vsync /\ b.pflip = r.pflip /\ b.busy = r.busy
        /\ b.events = r.events /\ b.idle = r.idle /\ b.swapping = r.swapping
        /\ b.pending = r.pending /\ b.stale = r.stale
        /\ b.next = r.next \ F
        /\ \A d \in Display \ (F \cap r.next) :
             b.scan[d] = r.scan[d] /\ b.queued[d] = r.queued[d]
        /\ \A d \in F \cap r.next : r.scan[d] = "next" => b.scan[d] = "current"
    BY <1>2, FlipBuffersType
  <1> HIDE DEF b
  <1>4. /\ c \in Record
        /\ c.plugged = r.plugged /\ c.on = r.on /\ c.awake = r.awake
        /\ c.vsync = r.vsync \ F /\ c.pflip = {} /\ c.busy = r.busy
        /\ c.events = r.events /\ c.idle = r.idle
        /\ c.swapping = r.swapping \ (Terminal \X F)
        /\ c.next = b.next /\ c.scan = b.scan /\ c.queued = b.queued
    BY <1>3 DEF Record
  <1>5. Backed(c) /\ due \in SUBSET c.plugged
    BY <1>4 DEF Backed
  <1> HIDE DEF c, due, q
  <1>6. ASSUME Sound(r), NEW d \in Display PROVE SoundAt(c, d)
    <2>1. SoundAt(r, d)
      BY <1>6 DEF Sound
    <2>2. CASE d \in F
      <3>1. d \in r.vsync /\ d \notin r.busy /\ Flipped(r, d)
        BY <2>1, <2>2 DEF SoundAt, Flipping, Backed
      <3>2. Quiet(c, d) /\ d \notin c.vsync
        BY <1>3, <1>4, <2>2, <3>1 DEF Quiet, Flipped
      <3> QED
        BY <1>3, <1>4, <2>1, <2>2, <3>2 DEF SoundAt, Quiet
    <2>3. CASE d \notin F
      BY <1>3, <1>4, <2>1, <2>3 DEF SoundAt, Quiet, Flipping, Flipped
    <2> QED
      BY <2>2, <2>3
  <1>7. Keeps(r, c)
    BY <1>4, <1>5, <1>6 DEF Keeps, Sound
  <1>8. Draws(c, q)
    BY <1>1, <1>5, DoRedrawKeeps
  <1>9. r.awake = {} => q = c
    BY <1>1, <1>4 DEF DoRedraw
  <1> QED
    BY <1>4, <1>7, <1>8, <1>9, KeepsTransitive DEF Draws, q

\* show_displays.
LEMMA ShowDisplaysKeeps ==
  ASSUME NEW r, Backed(r)
  PROVE  LET q == ShowDisplays(r)
         IN  /\ Keeps(r, q)
             /\ q.idle \/ (q.pflip = r.pflip /\ ~r.idle)
  <1> DEFINE flips == {d \in r.on : d \notin r.vsync /\ d \notin r.busy}
             w == [r EXCEPT !.vsync = @ \cup flips, !.busy = @ \cup flips]
             q == ShowDisplays(r)
  <1>1. CASE ~gl
    <2>1. q = WaitPflip(r, r.on) /\ r.on \in SUBSET Display
      BY <1>1 DEF ShowDisplays, Backed, Record
    <2>2. Keeps(r, WaitPflip(r, r.on))
          /\ (WaitPflip(r, r.on).idle \/ WaitPflip(r, r.on) = r)
      BY <2>1, WaitPflipKeeps
    <2> HIDE DEF q
    <2> QED
      BY <2>1, <2>2 DEF q
  <1>2. CASE gl
    <2>1. q = SwapBuffers(w, flips)
      BY <1>2 DEF ShowDisplays
    <2>2. flips \in SUBSET r.plugged /\ flips \cap r.vsync = {} /\ flips \cap r.busy = {}
      BY DEF Backed
    <2> HIDE DEF flips
    <2>3. /\ w \in Record
          /\ w.plugged = r.plugged /\ w.on = r.on /\ w.awake = r.awake
          /\ w.pflip = r.pflip /\ w.events = r.events /\ w.idle = r.idle
          /\ w.vsync = r.vsync \cup flips /\ w.busy = r.busy \cup flips
          /\ w.scan = r.scan /\ w.queued = r.queued /\ w.next = r.next
          /\ w.swapping = r.swapping
      BY <2>2 DEF Backed, Record
    <2> HIDE DEF w, q
    <2>4. Draws(r, SwapBuffers(w, flips))
      BY <2>2, <2>3, FlipsKeep
    <2> QED
      BY <2>1, <2>4 DEF Draws, q
  <1> QED
    BY <1>1, <1>2

\* perform_modeset: every display has an event queued.  The commit is sound
\* when no flip is outstanding.
LEMMA ModesetKeeps ==
  ASSUME NEW r, Backed(r)
  PROVE  LET q == Modeset(r)
         IN  /\ Backed(q) /\ q.plugged = r.plugged /\ q.on = r.on /\ q.awake = r.awake
             /\ Sound(r) /\ r.vsync = {} =>
                  Sound(q) /\ q.pflip = r.pflip /\ q.idle = r.idle
  <1> DEFINE w == WaitPflip(r, r.plugged)
             f == FinishFlips(w, w.plugged \cap w.busy)
             ev == [d \in Display |-> IF d \in f.plugged THEN f.events[d] + 1 ELSE f.events[d]]
             m == [f EXCEPT !.events = ev, !.vsync = f.plugged]
             q == Modeset(r)
  <1>0. q = ModesetBuffers(m, f.plugged)
    <2>1. q = ModesetBuffers(
                [f EXCEPT !.events = [d \in Display |-> IF d \in f.plugged THEN @[d] + 1 ELSE @[d]],
                          !.vsync = f.plugged], f.plugged)
      BY DEF Modeset
    <2> QED
      BY <2>1
  <1>1. Keeps(r, w) /\ w.vsync = r.vsync
    BY WaitPflipKeeps DEF Backed, Record
  <1>2. r.vsync = {} => w = r
    BY DEF WaitPflip
  <1> HIDE DEF w
  <1>3. /\ Keeps(w, f) /\ f.pflip = w.pflip /\ f.idle = w.idle /\ f.vsync = w.vsync
        /\ f.busy = w.busy \ w.plugged
    <2>1. Backed(w) /\ w.plugged \cap w.busy \in SUBSET w.busy
      BY <1>1 DEF Keeps
    <2> HIDE DEF f
    <2>2. f = FinishFlips(w, w.plugged \cap w.busy)
      BY DEF f
    <2>3. /\ Keeps(w, f) /\ f.vsync = w.vsync /\ f.pflip = w.pflip /\ f.idle = w.idle
          /\ f.busy = w.busy \ (w.plugged \cap w.busy)
      BY <2>1, <2>2, FinishFlipsKeeps
    <2> QED
      BY <2>3
  <1> HIDE DEF f
  <1>4. Keeps(r, f) /\ Backed(f)
    BY <1>1, <1>3, KeepsTransitive DEF Keeps
  <1>5. /\ ev \in [Display -> Nat]
        /\ \A d \in f.plugged : ev[d] > 0
    BY <1>4 DEF Backed, Record
  <1> HIDE DEF ev
  <1>6. /\ m \in Record /\ m.events = ev /\ m.vsync = f.plugged
        /\ m.plugged = f.plugged /\ m.on = f.on /\ m.awake = f.awake
        /\ m.pflip = f.pflip /\ m.busy = f.busy /\ m.idle = f.idle
        /\ m.swapping = f.swapping /\ m.scan = f.scan /\ m.queued = f.queued
        /\ m.next = f.next
    BY <1>4, <1>5 DEF Backed, Record
  <1> HIDE DEF m, q
  <1>7. /\ q \in Record /\ q.events = ev /\ q.vsync = f.plugged
        /\ q.plugged = f.plugged /\ q.on = f.on /\ q.awake = f.awake
        /\ q.pflip = f.pflip /\ q.busy = f.busy /\ q.idle = f.idle
        /\ q.swapping = f.swapping /\ q.queued = f.queued
        /\ q.next = IF gl THEN f.next \cup f.plugged ELSE f.next
        /\ \A d \in Display : q.scan[d] = IF gl /\ d \in f.plugged THEN "next" ELSE f.scan[d]
    <2> DEFINE sc == [d \in Display |-> IF d \in f.plugged THEN "next" ELSE m.scan[d]]
    <2>1. sc \in [Display -> Holder]
      BY <1>6 DEF Record, Holder
    <2>2. q = IF ~gl THEN m ELSE [m EXCEPT !.scan = sc, !.next = m.next \cup f.plugged]
      BY <1>0, <1>6 DEF ModesetBuffers, Record
    <2>3. f.plugged \subseteq Display
      BY <1>4 DEF Backed, Record
    <2>4. \A d \in Display : sc[d] = IF d \in f.plugged THEN "next" ELSE f.scan[d]
      BY <1>6
    <2> HIDE DEF sc
    <2> QED
      BY <1>6, <2>1, <2>2, <2>3, <2>4 DEF Record
  <1>8. Backed(q)
    BY <1>4, <1>5, <1>7 DEF Backed
  <1>9. ASSUME Sound(r), r.vsync = {} PROVE Sound(q) /\ q.pflip = r.pflip /\ q.idle = r.idle
    <2>1. Sound(f) /\ f.plugged = Display /\ f.vsync = {} /\ f.pflip = {} /\ w = r
      BY <1>1, <1>2, <1>3, <1>4, <1>9 DEF Keeps, Sound, Backed
    <2>2. ASSUME NEW d \in Display PROVE SoundAt(q, d)
      <3>1. Quiet(f, d) /\ (~gl => d \notin f.next /\ f.queued[d] = "current")
        BY <2>1 DEF Sound, SoundAt
      <3> QED
        BY <1>5, <1>7, <2>1, <3>1 DEF SoundAt, Quiet, Flipping, Flipped
    <2>3. Sound(q)
      BY <1>7, <2>1, <2>2 DEF Sound
    <2> QED
      BY <1>3, <1>7, <2>1, <2>3
  <1> QED
    BY <1>1, <1>3, <1>7, <1>8, <1>9 DEF Keeps, q

\* seat_dpms_reset_timer: the displays are on when it returns.
LEMMA UnblankKeeps ==
  ASSUME NEW r, Backed(r), current \in Terminal
  PROVE  LET q == Unblank(r)
         IN  /\ Backed(q) /\ q.plugged = r.plugged
             /\ q.on = IF blanked THEN r.plugged ELSE r.on
             /\ q.awake \subseteq r.awake \cup {current}
             /\ q.pflip = r.pflip /\ q.idle = r.idle
             /\ Sound(r) => Sound(q)
  <1> DEFINE w == [r EXCEPT !.on = r.plugged]
             q == Unblank(r)
  <1>1. CASE ~blanked
    BY <1>1 DEF Unblank
  <1>2. CASE blanked
    <2>1. q = Activate(w, current)
      BY <1>2 DEF Unblank
    <2>2. /\ w \in Record /\ w.idle = r.idle /\ w.awake = r.awake
          /\ w.plugged = r.plugged /\ w.on = r.plugged /\ w.vsync = r.vsync
          /\ w.pflip = r.pflip /\ w.busy = r.busy /\ w.events = r.events /\ w.scan = r.scan
          /\ w.queued = r.queued /\ w.next = r.next /\ w.swapping = r.swapping
      BY DEF Backed, Record
    <2> HIDE DEF w, q
    <2>3. Backed(w)
      BY <2>2 DEF Backed
    <2>4. ASSUME Sound(r) PROVE Sound(w) /\ w.on = Display
      <3>1. ASSUME NEW d \in Display PROVE SoundAt(w, d)
        BY <2>2, <2>4 DEF Sound, SoundAt, Quiet, Flipping, Flipped
      <3> QED
        BY <2>2, <2>4, <3>1 DEF Sound
    <2>5. /\ Backed(q) /\ q.plugged = w.plugged /\ q.on = w.on
          /\ q.awake \subseteq w.awake \cup {current}
          /\ q.pflip = w.pflip /\ q.idle = w.idle
          /\ Sound(w) /\ w.on = Display => Sound(q)
      BY <2>1, <2>3, ActivateKeeps
    <2> QED
      BY <1>2, <2>2, <2>4, <2>5 DEF q
  <1> QED
    BY <1>1, <1>2

-----------------------------------------------------------------------------
(***************************************************************************)
(* The invariant.  In the steady uses at most the terminal of the current  *)
(* session is awake, the callbacks of flips that were noticed outside the  *)
(* handler of the DRM fd are due in an idle source, no flip is waited for  *)
(* while another VT is in front, and the displays are on unless the screen *)
(* is blanked.                                                             *)
(***************************************************************************)
SteadyAt(r, front, shows, dark) ==
  /\ Sound(r)
  /\ r.awake \subseteq {front}
  /\ r.pflip = {} \/ r.idle
  /\ shows \/ (vt /\ r.awake = {} /\ r.vsync \subseteq r.pflip)
  /\ IF dark THEN dpms /\ r.on = {} /\ r.awake = {} ELSE r.on = Display

FlipInv ==
  /\ current \in Terminal
  /\ Backed(Now)
  /\ Steady => SteadyAt(Now, current, shown, blanked)

LEMMA NowRecord ==
  ASSUME NEW q \in Record, Store(q)
  PROVE  Now' = q
  <1>1. q = [awake |-> q.awake, swapping |-> q.swapping, pending |-> q.pending,
             stale |-> q.stale, plugged |-> q.plugged, on |-> q.on, vsync |-> q.vsync,
             pflip |-> q.pflip, busy |-> q.busy, events |-> q.events, idle |-> q.idle,
             scan |-> q.scan, queued |-> q.queued, next |-> q.next]
    BY DEF Record
  <1> QED
    BY <1>1 DEF Store, Now

LEMMA StoreKeepsInv ==
  ASSUME NEW q, Backed(q), Store(q), current' \in Terminal,
         Steady => SteadyAt(q, current', shown', blanked')
  PROVE  FlipInv'
  <1>1. Now' = q
    BY NowRecord DEF Backed
  <1>2. gl' = gl /\ dpms' = dpms /\ vt' = vt /\ plugging' = plugging
    BY DEF Store, useVars
  <1>3. Steady' = Steady
    BY <1>2 DEF Steady
  <1>4. Backed(Now)'
    BY <1>1 DEF Backed, Record, Screen, Holder
  <1>5. Sound(q) => Sound(Now)'
    BY <1>1, <1>2 DEF Sound, SoundAt, Quiet, Flipping, Flipped
  <1>6. SteadyAt(q, current', shown', blanked') => SteadyAt(Now, current, shown, blanked)'
    BY <1>1, <1>2, <1>5 DEF SteadyAt
  <1> QED
    BY <1>3, <1>4, <1>6 DEF FlipInv

LEMMA NowFields ==
  /\ Now.awake = termAwake /\ Now.plugged = plugged /\ Now.on = dpmsOn
  /\ Now.vsync = vsync /\ Now.pflip = pflip /\ Now.idle = idle
  /\ Now.busy = busy /\ Now.events = events /\ Now.swapping = swapping
  /\ Now.pending = pending /\ Now.stale = stale
  /\ Now.scan = scan /\ Now.queued = queued /\ Now.next = next
  BY DEF Now

LEMMA InitInv == Init => FlipInv
  <1> SUFFICES ASSUME Init PROVE FlipInv
    OBVIOUS
  <1> USE NowFields
  <1>1. gl \in BOOLEAN /\ current \in Terminal
    BY FlipAssumption DEF Init
  <1>2. Now \in Record
    <2>1. termAwake \subseteq Terminal /\ {current} \X Display \subseteq Screen
      BY DEF Init, Screen
    <2>2. events \in [Display -> Nat] /\ scan \in [Display -> Holder]
      BY DEF Init, Holder
    <2>3. idle \in BOOLEAN
      BY <1>1 DEF Init
    <2>4. /\ swapping \subseteq Screen /\ pending \subseteq Screen /\ stale \subseteq Screen
          /\ plugged \subseteq Display /\ dpmsOn \subseteq Display /\ vsync \subseteq Display
          /\ pflip \subseteq Display /\ busy \subseteq Display /\ next \subseteq Display
          /\ queued \in [Display -> Holder]
      BY <2>1, <2>2 DEF Init
    <2> QED
      BY <2>1, <2>2, <2>3, <2>4 DEF Now, Record
  <1>3. \A d \in Display : scan[d] = "current" /\ queued[d] = "current"
                          /\ events[d] = IF gl THEN 1 ELSE 0
    BY DEF Init
  <1>4. Backed(Now)
    BY <1>2, <1>3 DEF Init, Backed
  <1>5. ASSUME NEW d \in Display PROVE SoundAt(Now, d)
    BY <1>3 DEF Init, SoundAt, Quiet, Flipping, Flipped
  <1>6. SteadyAt(Now, current, shown, blanked)
    BY <1>1, <1>5 DEF Init, SteadyAt, Sound
  <1> QED
    BY <1>1, <1>4, <1>6 DEF FlipInv

\* The handlers that keep the terminals and the displays as they are.
LEMMA DrawingInv ==
  ASSUME FlipInv,
         \/ \E t \in Terminal : Output(t)
         \/ \E d \in Display : KernelFlip(d)
         \/ IoEvent \/ DoPflips
  PROVE  FlipInv'
  <1> USE NowFields
  <1>0. current \in Terminal /\ Backed(Now)
    BY DEF FlipInv
  <1>1. ASSUME NEW t \in Terminal, Output(t) PROVE FlipInv'
    <2> DEFINE o == [Now EXCEPT !.stale = @ \cup ({t} \X plugged)]
               q == RedrawAll(o, t)
    <2>1. Store(q) /\ current' = current /\ shown' = shown /\ blanked' = blanked
      BY <1>1 DEF Output
    <2>2. {t} \X plugged \subseteq Screen
      BY <1>0 DEF Screen, Backed, Record
    <2>3. /\ o \in Record /\ o.idle = idle /\ o.awake = termAwake
          /\ o.plugged = plugged /\ o.on = dpmsOn /\ o.vsync = vsync
          /\ o.pflip = pflip /\ o.busy = busy /\ o.events = events /\ o.scan = scan
          /\ o.queued = queued /\ o.next = next /\ o.swapping = swapping
      BY <1>0, <2>2 DEF Backed, Record
    <2> HIDE DEF o
    <2>4. Draws(Now, o)
      BY <1>0, <2>3, KeepsAlike DEF Draws
    <2>5. Draws(o, q)
      BY <2>4, RedrawAllKeeps DEF Draws, Keeps
    <2>6. termAwake = {} => q.vsync = vsync
      BY <2>3 DEF RedrawAll
    <2> HIDE DEF q
    <2>7. Draws(Now, q)
      BY <2>4, <2>5, DrawsTransitive
    <2>8. Steady => SteadyAt(q, current, shown, blanked)
      BY <2>6, <2>7 DEF FlipInv, SteadyAt, Draws, Keeps
    <2> QED
      BY <1>0, <2>1, <2>7, <2>8, StoreKeepsInv DEF Draws, Keeps
  <1>2. ASSUME NEW d \in Display, KernelFlip(d) PROVE FlipInv'
    <2> DEFINE q == FinishFlips(Now, {d})
    <2>1. Store(q) /\ current' = current /\ shown' = shown /\ blanked' = blanked
      BY <1>2 DEF KernelFlip
    <2>2. {d} \in SUBSET Now.busy
      BY <1>2 DEF KernelFlip
    <2>3. Keeps(Now, q) /\ q.vsync = vsync /\ q.pflip = pflip /\ q.idle = idle
      BY <1>0, <2>2, FinishFlipsKeeps
    <2> HIDE DEF q
    <2>4. Steady => SteadyAt(q, current, shown, blanked)
      BY <2>3 DEF FlipInv, SteadyAt, Keeps
    <2> QED
      BY <1>0, <2>1, <2>3, <2>4, StoreKeepsInv DEF Keeps
  <1>3. ASSUME IoEvent PROVE FlipInv'
    <2> DEFINE e == ReadEvents(Now)
               q == Pflip(e, e.pflip, current)
    <2>1. Store(q) /\ current' = current /\ shown' = shown /\ blanked' = blanked
      BY <1>3 DEF IoEvent
    <2>2. Keeps(Now, e) /\ e.vsync = vsync
      BY <1>0, ReadEventsKeeps
    <2>3. pflip \subseteq e.pflip
      BY <1>0 DEF ReadEvents, Backed, Record
    <2> HIDE DEF e
    <2>4. Keeps(e, q) /\ q.pflip = {} /\ (e.awake = {} => q.vsync = e.vsync \ e.pflip)
      BY <1>0, <2>2, PflipKeeps DEF Keeps
    <2> HIDE DEF q
    <2>5. Keeps(Now, q)
      BY <2>2, <2>4, KeepsTransitive
    <2>6. Steady => SteadyAt(q, current, shown, blanked)
      BY <2>2, <2>3, <2>4, <2>5 DEF FlipInv, SteadyAt, Keeps
    <2> QED
      BY <1>0, <2>1, <2>5, <2>6, StoreKeepsInv DEF Keeps
  <1>4. ASSUME DoPflips PROVE FlipInv'
    <2> DEFINE p == Pflip(Now, Now.pflip, current)
               q == [p EXCEPT !.idle = FALSE]
    <2>1. Store(q) /\ current' = current /\ shown' = shown /\ blanked' = blanked
      BY <1>4 DEF DoPflips
    <2>2. Keeps(Now, p) /\ p.pflip = {} /\ (Now.awake = {} => p.vsync = Now.vsync \ Now.pflip)
      BY <1>0, PflipKeeps
    <2> HIDE DEF p
    <2>3. /\ q \in Record
          /\ q.plugged = p.plugged /\ q.on = p.on /\ q.awake = p.awake /\ q.vsync = p.vsync
          /\ q.pflip = p.pflip /\ q.busy = p.busy /\ q.events = p.events /\ q.scan = p.scan
          /\ q.queued = p.queued /\ q.next = p.next /\ q.swapping = p.swapping
      BY <2>2 DEF Keeps, Backed, Record
    <2> HIDE DEF q
    <2>4. Keeps(p, q)
      BY <2>2, <2>3, KeepsAlike DEF Keeps
    <2>5. Keeps(Now, q)
      BY <2>2, <2>4, KeepsTransitive
    <2>6. Steady => SteadyAt(q, current, shown, blanked)
      BY <2>2, <2>3, <2>5 DEF FlipInv, SteadyAt, Keeps
    <2> QED
      BY <1>0, <2>1, <2>5, <2>6, StoreKeepsInv DEF Keeps
  <1> QED
    BY <1>1, <1>2, <1>3, <1>4

\* The seat blanks the screen, switches the session, and leaves and enters the VT.
LEMMA SeatInv ==
  ASSUME FlipInv, Blank \/ Key \/ (\E t \in Terminal : Switch(t)) \/ Leave \/ Enter
  PROVE  FlipInv'
  <1> USE NowFields
  <1>0. current \in Terminal /\ Backed(Now)
    BY DEF FlipInv
  <1>1. ASSUME Blank PROVE FlipInv'
    <2> DEFINE o == [Now EXCEPT !.on = {}]
               q == Deactivate(o, current)
    <2>1. /\ Store(q) /\ current' = current /\ shown' = shown /\ blanked' = TRUE
          /\ dpms /\ shown /\ ~blanked
      BY <1>1 DEF Blank
    <2>2. /\ o \in Record /\ o.idle = idle /\ o.awake = termAwake
          /\ o.plugged = plugged /\ o.on = {} /\ o.vsync = vsync
          /\ o.pflip = pflip /\ o.busy = busy /\ o.events = events /\ o.scan = scan
          /\ o.queued = queued /\ o.next = next /\ o.swapping = swapping
      BY <1>0 DEF Backed, Record
    <2> HIDE DEF o
    <2>3. Backed(o)
      BY <1>0, <2>2 DEF Backed
    <2>4. /\ Backed(q) /\ q.on = {} /\ q.plugged = plugged
          /\ q.awake = termAwake \ {current}
          /\ q.pflip = pflip /\ q.idle = idle /\ q.vsync = vsync
          /\ q.busy = busy /\ q.events = events /\ q.scan = scan
          /\ q.queued = queued /\ q.next = next /\ q.swapping = swapping
      BY <1>0, <2>2, <2>3, DeactivateKeeps DEF Deactivate, Record
    <2> HIDE DEF q
    <2>5. ASSUME Steady PROVE SteadyAt(q, current, shown, TRUE)
      <3>1. SteadyAt(Now, current, shown, blanked) /\ q.awake = {}
        BY <2>4, <2>5 DEF FlipInv, SteadyAt
      <3>2. ASSUME NEW d \in Display PROVE SoundAt(q, d)
        BY <2>4, <3>1 DEF SteadyAt, Sound, SoundAt, Quiet, Flipping, Flipped
      <3>3. Sound(q)
        BY <2>4, <3>1, <3>2 DEF SteadyAt, Sound
      <3> QED
        BY <2>1, <2>4, <3>1, <3>3 DEF SteadyAt
    <2> QED
      BY <1>0, <2>1, <2>4, <2>5, StoreKeepsInv
  <1>2. ASSUME Key PROVE FlipInv'
    <2> DEFINE q == Unblank(Now)
    <2>1. /\ Store(q) /\ current' = current /\ shown' = shown /\ blanked' = FALSE
          /\ shown /\ blanked
      BY <1>2 DEF Key
    <2>2. /\ Backed(q) /\ q.plugged = plugged /\ q.on = (IF blanked THEN plugged ELSE dpmsOn)
          /\ q.awake \subseteq termAwake \cup {current}
          /\ q.pflip = pflip /\ q.idle = idle
          /\ Sound(Now) => Sound(q)
      BY <1>0, UnblankKeeps
    <2> HIDE DEF q
    <2>3. Steady => SteadyAt(q, current, shown, FALSE)
      BY <2>1, <2>2 DEF FlipInv, SteadyAt, Sound
    <2> QED
      BY <1>0, <2>1, <2>2, <2>3, StoreKeepsInv
  <1>3. ASSUME NEW t \in Terminal, Switch(t) PROVE FlipInv'
    <2> DEFINE u == Unblank(Now)
               f == Deactivate(u, current)
               q == Activate(f, t)
    <2>1. Store(q) /\ current' = t /\ shown' = shown /\ blanked' = FALSE /\ shown
      BY <1>3 DEF Switch
    <2>2. /\ Backed(u) /\ u.plugged = plugged /\ u.on = (IF blanked THEN plugged ELSE dpmsOn)
          /\ u.awake \subseteq termAwake \cup {current}
          /\ u.pflip = pflip /\ u.idle = idle
          /\ Sound(Now) => Sound(u)
      BY <1>0, UnblankKeeps
    <2> HIDE DEF u
    <2>3. /\ Backed(f) /\ f.plugged = u.plugged /\ f.on = u.on
          /\ f.awake = u.awake \ {current}
          /\ f.pflip = u.pflip /\ f.idle = u.idle
          /\ Sound(u) => Sound(f)
      BY <1>0, <2>2, DeactivateKeeps
    <2> HIDE DEF f
    <2>4. /\ Backed(q) /\ q.plugged = f.plugged /\ q.on = f.on
          /\ q.awake \subseteq f.awake \cup {t}
          /\ q.pflip = f.pflip /\ q.idle = f.idle
          /\ Sound(f) /\ f.on = Display => Sound(q)
      BY <2>3, ActivateKeeps
    <2> HIDE DEF q
    <2>5. Steady => SteadyAt(q, t, shown, FALSE)
      BY <2>1, <2>2, <2>3, <2>4 DEF FlipInv, SteadyAt, Sound
    <2> QED
      BY <2>1, <2>4, <2>5, StoreKeepsInv
  <1>4. ASSUME Leave PROVE FlipInv'
    <2> DEFINE f == Deactivate(Now, current)
               q == WaitPflip(f, plugged)
    <2>1. Store(q) /\ current' = current /\ shown' = FALSE /\ blanked' = blanked /\ vt
      BY <1>4 DEF Leave
    <2>2. /\ Backed(f) /\ f.plugged = plugged /\ f.on = dpmsOn
          /\ f.awake = termAwake \ {current}
          /\ f.pflip = pflip /\ f.idle = idle
          /\ Sound(Now) => Sound(f)
      BY <1>0, DeactivateKeeps
    <2> HIDE DEF f
    <2>3. plugged \in SUBSET Display
      BY <1>0 DEF Backed, Record
    <2>4. /\ Keeps(f, q) /\ plugged \cap q.vsync \subseteq q.pflip /\ (q.idle \/ q = f)
      BY <2>2, <2>3, WaitPflipKeeps
    <2> HIDE DEF q
    <2>5. q.plugged = plugged /\ (q.pflip = {} \/ q.idle \/ ~(pflip = {} \/ idle))
      BY <2>2, <2>4 DEF Keeps
    <2>6. q.vsync \subseteq q.pflip
      BY <2>4, <2>5 DEF Keeps, Backed
    <2>7. Steady => SteadyAt(q, current, FALSE, blanked)
      BY <2>1, <2>2, <2>4, <2>5, <2>6 DEF FlipInv, SteadyAt, Keeps
    <2> QED
      BY <1>0, <2>1, <2>4, <2>7, StoreKeepsInv DEF Keeps
  <1>5. ASSUME Enter PROVE FlipInv'
    <2> DEFINE m == Modeset(Now)
               s == ShowDisplays(m)
               q == Activate(s, current)
    <2>1. /\ Store(q) /\ current' = current /\ shown' = TRUE /\ blanked' = blanked
          /\ ~shown /\ ~idle
      BY <1>5 DEF Enter
    <2>2. /\ Backed(m) /\ m.plugged = plugged /\ m.on = dpmsOn /\ m.awake = termAwake
          /\ Sound(Now) /\ vsync = {} => Sound(m) /\ m.pflip = pflip /\ m.idle = idle
      BY <1>0, ModesetKeeps
    <2> HIDE DEF m
    <2>3. Keeps(m, s) /\ (s.idle \/ (s.pflip = m.pflip /\ ~m.idle))
      BY <2>2, ShowDisplaysKeeps
    <2> HIDE DEF s
    <2>4. /\ Backed(q) /\ q.plugged = s.plugged /\ q.on = s.on
          /\ q.awake \subseteq s.awake \cup {current}
          /\ q.pflip = s.pflip /\ q.idle = s.idle
          /\ Sound(s) /\ s.on = Display => Sound(q)
      BY <1>0, <2>3, ActivateKeeps DEF Keeps
    <2> HIDE DEF q
    <2>5. ASSUME Steady PROVE SteadyAt(q, current, TRUE, blanked)
      <3>1. SteadyAt(Now, current, shown, blanked) /\ vsync = {} /\ pflip = {}
        BY <2>1, <2>5 DEF FlipInv, SteadyAt
      <3>2. ~blanked /\ dpmsOn = Display
        BY <2>1, <2>5, <3>1 DEF SteadyAt, Steady
      <3> QED
        BY <2>2, <2>3, <2>4, <3>1, <3>2 DEF SteadyAt, Keeps
    <2> QED
      BY <1>0, <2>1, <2>4, <2>5, StoreKeepsInv
  <1> QED
    BY <1>1, <1>2, <1>3, <1>4, <1>5

\* Displays are plugged and unplugged, which no steady use does.
LEMMA PlugInv ==
  ASSUME FlipInv,
         \/ \E d \in Display : Plug(d)
         \/ \E d \in Display, resized \in BOOLEAN : Unplug(d, resized)
  PROVE  FlipInv'
  <1> USE NowFields
  <1>0. current \in Terminal /\ Backed(Now)
    BY DEF FlipInv
  <1>1. ASSUME NEW d \in Display, Plug(d) PROVE FlipInv'
    <2> DEFINE fresh == [Now EXCEPT !.swapping = @ \ (Terminal \X {d}),
                                    !.pending = @ \ (Terminal \X {d}),
                                    !.plugged = @ \cup {d}]
               m   == Modeset(fresh)
               lon == [m EXCEPT !.on = @ \cup {d}]
               on  == FreshBuffers(lon, d)
               lit == Unblank(on)
               drawn == DoRedraw(lit, current, {d})
               q   == Activate(drawn, current)
    <2>1. Store(q) /\ current' = current /\ ~Steady
      BY <1>1 DEF Plug, Steady
    <2>2. /\ fresh \in Record /\ fresh.plugged = plugged \cup {d}
          /\ fresh.on = dpmsOn /\ fresh.vsync = vsync /\ fresh.pflip = pflip
          /\ fresh.busy = busy /\ fresh.events = events
      BY <1>0 DEF Backed, Record
    <2> HIDE DEF fresh
    <2>3. Backed(fresh)
      BY <1>0, <2>2 DEF Backed
    <2>4. Backed(m) /\ m.plugged = plugged \cup {d}
      BY <2>2, <2>3, ModesetKeeps
    <2> HIDE DEF m
    <2>5. /\ lon \in Record /\ lon.plugged = m.plugged /\ lon.on = m.on \cup {d}
          /\ lon.vsync = m.vsync /\ lon.pflip = m.pflip
          /\ lon.busy = m.busy /\ lon.events = m.events
      BY <2>4 DEF Backed, Record
    <2> HIDE DEF lon
    <2>6. /\ on \in Record /\ on.plugged = lon.plugged /\ on.on = lon.on
          /\ on.vsync = lon.vsync /\ on.pflip = lon.pflip
          /\ on.busy = lon.busy /\ on.events = lon.events
      BY <2>5 DEF FreshBuffers, Record, Holder
    <2> HIDE DEF on
    <2>7. Backed(on) /\ d \in on.plugged
      BY <2>4, <2>5, <2>6 DEF Backed
    <2>8. Backed(lit) /\ lit.plugged = on.plugged
      BY <1>0, <2>7, UnblankKeeps
    <2> HIDE DEF lit
    <2>9. Backed(drawn)
      <3>1. {d} \in SUBSET lit.plugged
        BY <2>7, <2>8
      <3> QED
        BY <1>0, <2>8, <3>1, DoRedrawKeeps DEF Draws, Keeps
    <2> HIDE DEF drawn
    <2>10. Backed(q)
      BY <1>0, <2>9, ActivateKeeps
    <2> QED
      BY <1>0, <2>1, <2>10, StoreKeepsInv
  <1>2. ASSUME NEW d \in Display, NEW resized \in BOOLEAN, Unplug(d, resized) PROVE FlipInv'
    <2> DEFINE rest == plugged \ {d}
               r == [Now EXCEPT !.plugged = rest, !.on = @ \ {d},
                                !.vsync = @ \ {d}, !.pflip = @ \ {d},
                                !.swapping = @ \ (Terminal \X {d}),
                                !.pending = @ \ (Terminal \X {d}),
                                !.stale = @ \ (Terminal \X {d})]
               s == [r EXCEPT !.stale = @ \cup ({current} \X rest)]
               q == IF resized THEN RedrawAll(s, current) ELSE r
    <2>1. Store(q) /\ current' = current /\ ~Steady
      BY <1>2 DEF Unplug, Steady
    <2>2. /\ r \in Record /\ r.plugged = rest /\ r.on = dpmsOn \ {d}
          /\ r.vsync = vsync \ {d} /\ r.pflip = pflip \ {d}
          /\ r.busy = busy /\ r.events = events
      BY <1>0 DEF Backed, Record
    <2> HIDE DEF r
    <2>3. Backed(r)
      BY <1>0, <2>2 DEF Backed
    <2>4. {current} \X rest \subseteq Screen
      BY <1>0 DEF Screen, Backed, Record
    <2>5. /\ s \in Record /\ s.plugged = r.plugged /\ s.on = r.on /\ s.vsync = r.vsync
          /\ s.pflip = r.pflip /\ s.busy = r.busy /\ s.events = r.events
      BY <2>2, <2>4 DEF Record
    <2> HIDE DEF s
    <2>6. Backed(s)
      BY <2>3, <2>5 DEF Backed
    <2>7. Backed(RedrawAll(s, current))
      BY <1>0, <2>6, RedrawAllKeeps DEF Draws, Keeps
    <2>8. Backed(q)
      BY <2>3, <2>7
    <2> QED
      BY <1>0, <2>1, <2>8, StoreKeepsInv
  <1> QED
    BY <1>1, <1>2

LEMMA FlipInvCorrect == Spec => []FlipInv
  <1>1. Init => FlipInv
    BY InitInv
  <1>2. FlipInv /\ [Next]_vars => FlipInv'
    <2> SUFFICES ASSUME FlipInv, [Next]_vars PROVE FlipInv'
      OBVIOUS
    <2>1. CASE UNCHANGED vars
      <3>1. Now' = Now /\ current' = current /\ shown' = shown /\ blanked' = blanked
            /\ gl' = gl /\ vt' = vt /\ dpms' = dpms /\ plugging' = plugging
        BY <2>1 DEF vars, screenVars, drmVars, kernelVars, bufferVars, seatVars, useVars, Now
      <3>2. Sound(Now) => Sound(Now)'
        BY <3>1 DEF Sound, SoundAt, Quiet, Flipping, Flipped
      <3>3. Backed(Now)' /\ Steady' = Steady
        BY <3>1 DEF FlipInv, Backed, Record, Screen, Holder, Steady
      <3>4. Steady => SteadyAt(Now, current, shown, blanked)'
        BY <3>1, <3>2 DEF FlipInv, SteadyAt
      <3> QED
        BY <3>1, <3>3, <3>4 DEF FlipInv
    <2>2. CASE Next
      BY <2>2, DrawingInv, SeatInv, PlugInv DEF Next
    <2> QED
      BY <2>1, <2>2
  <1> QED
    BY <1>1, <1>2, PTL DEF Spec

-----------------------------------------------------------------------------
(***************************************************************************)
(* The theorems.                                                           *)
(***************************************************************************)
\* In every use, plugging included, drm_display_wait_pflip waits only for flips
\* that the kernel has to finish or has reported: DISPLAY_VSYNC is not set for
\* good.
THEOREM VsyncBackedCorrect == Spec => []VsyncBacked
  <1>1. FlipInv => VsyncBacked
    BY NowFields DEF FlipInv, Backed, VsyncBacked
  <1> QED
    BY <1>1, FlipInvCorrect, PTL

\* In the steady uses a screen that waits for the page-flip callback of a
\* display that is on gets it, so no screen is frozen.
THEOREM FlipExpectedCorrect == Spec => []FlipExpected
  <1>1. FlipInv => FlipExpected
    BY NowFields DEF FlipInv, SteadyAt, Sound, SoundAt, Backed, Record, FlipExpected
  <1> QED
    BY <1>1, FlipInvCorrect, PTL

\* In the steady uses drm3d never draws into a buffer that a display shows or
\* is about to show.
THEOREM ScannedHeldCorrect == Spec => []ScannedHeld
  <1>1. ASSUME FlipInv, Steady, NEW d \in plugged
        PROVE  scan[d] # "free" /\ (d \in busy => queued[d] # "free")
    <2>1. SoundAt(Now, d)
      BY <1>1, NowFields DEF FlipInv, SteadyAt, Sound
    <2> QED
      BY <2>1, NowFields DEF SoundAt, Quiet, Flipping, Flipped
  <1>2. FlipInv => ScannedHeld
    BY <1>1 DEF ScannedHeld
  <1> QED
    BY <1>2, FlipInvCorrect, PTL
===============================================================================
