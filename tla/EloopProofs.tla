---------------------------- MODULE EloopProofs ----------------------------
(***************************************************************************)
(* What Eloop guarantees of its sources for any number of them, any hooks  *)
(* and any callbacks: the epoll set, the collected events and the          *)
(* references.                                                             *)
(***************************************************************************)
EXTENDS Eloop, FiniteSetTheorems, SequenceTheorems, WellFoundedInduction, TLAPS

\* The part of the types the proofs need.
SrcType ==
  /\ fds \in [Fd -> FdType] /\ kset \subseteq Fd
  /\ tref \in [Timer -> 0..2] /\ own \subseteq Timer
  /\ todo \in Seq(Fd \cup {Loop, None})
  /\ lref \in Nat /\ held \in BOOLEAN

TimerRefs == \A t \in Timer : tref[t] = Count(t \in own) + Count(t \in Bound)

FdRefs ==
  \A f \in Fd :
    fds[f].ref = Count(f \in Bound) + Count(f \in Timer /\ tref[f] > 0)

LoopRefs == lref = Count(held) + Cardinality(Bound)

\* A shared signal has a source of its own, which is bound.
SigBound ==
  /\ sig \in [Signal -> SigType]
  /\ \A s \in Signal : sig[s] # NoSig => sig[s].fd \in Bound
  /\ \A r, s \in Signal :
       sig[r] # NoSig /\ sig[s] # NoSig /\ sig[r].fd = sig[s].fd => r = s

\* The inductive invariant.
SrcInv ==
  /\ SrcType /\ TimerRefs /\ FdRefs /\ LoopRefs /\ SigBound
  /\ WatchExact /\ BatchLive

LEMMA FdFinite == IsFiniteSet(Fd) /\ \A S \in SUBSET Fd : IsFiniteSet(S)
  BY EloopAssumption, FS_Union, FS_Subset DEF Fd

LEMMA BoundSubset == Bound \subseteq Fd
  BY DEF Bound

\* One more bound source, or one less, is one more reference of the loop or
\* one less.
LEMMA BoundMore ==
  ASSUME NEW S \in SUBSET Fd, NEW f \in Fd
  PROVE  /\ Cardinality(S) \in Nat
         /\ f \notin S => Cardinality(S \cup {f}) = Cardinality(S) + 1
         /\ f \in S => Cardinality(S) > 0 /\ Cardinality(S \ {f}) = Cardinality(S) - 1
  <1>1. IsFiniteSet(S) /\ IsFiniteSet(S \ {f})
    BY FdFinite
  <1>2. Cardinality(S) \in Nat /\ Cardinality(S \ {f}) \in Nat
    BY <1>1, FS_CardinalityType
  <1>3. f \notin S => Cardinality(S \cup {f}) = Cardinality(S) + 1
    BY <1>1, FS_AddElement
  <1>4. f \in S => Cardinality(S \ {f}) = Cardinality(S) - 1
    BY <1>1, FS_RemoveElement
  <1> QED
    BY <1>2, <1>3, <1>4

LEMMA InitSrc == Init => SrcInv
  <1> SUFFICES ASSUME Init PROVE SrcInv
    OBVIOUS
  <1>1. Bound = {} /\ Cardinality(Bound) = 0
    BY FS_EmptySet DEF Init, Bound, NoFd
  <1>2. SrcType
    BY DEF Init, SrcType, FdType, NoFd
  <1>3. TimerRefs /\ FdRefs /\ LoopRefs
    BY <1>1 DEF Init, TimerRefs, FdRefs, LoopRefs, Count, NoFd, Bound, Fd
  <1>4. SigBound
    BY DEF Init, SigBound, SigType
  <1>5. WatchExact /\ BatchLive
    BY <1>1 DEF Init, WatchExact, BatchLive
  <1> QED
    BY <1>2, <1>3, <1>4, <1>5 DEF SrcInv

----------------------------------------------------------------------------
(* Steps that leave the sources alone                                      *)

Same == UNCHANGED <<fds, kset, tref, own, sig, lref, held>>

\* Only the collected events change, to events that are as good.
LEMMA SameSrc ==
  ASSUME SrcInv, Same, todo' \in Seq(Fd \cup {Loop, None}),
         \A i \in DOMAIN todo' : todo'[i] \in Bound \cup {Loop, None}
  PROVE  SrcInv'
  <1>1. Bound' = Bound /\ Enabled' = Enabled
    BY DEF Same, Bound, Enabled
  <1>2. SrcType'
    BY DEF SrcInv, SrcType, Same
  <1>3. TimerRefs' /\ FdRefs' /\ LoopRefs'
    BY <1>1 DEF SrcInv, TimerRefs, FdRefs, LoopRefs, Same, Count
  <1>4. SigBound'
    BY <1>1 DEF SrcInv, SigBound, Same
  <1>5. WatchExact' /\ BatchLive'
    BY <1>1 DEF SrcInv, WatchExact, BatchLive, Same
  <1> QED
    BY <1>2, <1>3, <1>4, <1>5 DEF SrcInv

LEMMA Quiet == ASSUME SrcInv, Same, UNCHANGED todo PROVE SrcInv'
  BY SameSrc DEF SrcInv, SrcType, BatchLive

LEMMA Taken ==
  ASSUME SrcInv, Same, todo # <<>>, todo' = Tail(todo) PROVE SrcInv'
  <1>1. todo' \in Seq(Fd \cup {Loop, None})
    BY DEF SrcInv, SrcType
  <1>2. \A i \in DOMAIN todo' : todo'[i] = todo[i + 1] /\ i + 1 \in DOMAIN todo
    BY DEF SrcInv, SrcType
  <1> QED
    BY <1>1, <1>2, SameSrc DEF SrcInv, BatchLive

LEMMA WaitSrc == ASSUME SrcInv, Wait PROVE SrcInv'
  <1>1. PICK S \in SUBSET Ready : todo' \in Orders(S)
    BY DEF Wait
  <1>2. S \subseteq Bound \cup {Loop}
    BY DEF Ready, SrcInv, WatchExact
  <1>3. IsFiniteSet(S)
    <2>1. IsFiniteSet(Bound) /\ IsFiniteSet({Loop})
      BY FdFinite, BoundSubset, FS_Singleton
    <2> QED
      BY <2>1, <1>2, FS_Union, FS_Subset
  <1>4. Cardinality(S) \in Nat
    BY <1>3, FS_CardinalityType
  <1>5. todo' \in [1..Cardinality(S) -> S]
    BY <1>1 DEF Orders
  <1>6. todo' \in [1..Cardinality(S) -> Fd \cup {Loop, None}]
    BY <1>5, <1>2, BoundSubset
  <1>7. todo' \in Seq(Fd \cup {Loop, None})
    BY <1>6, <1>4
  <1>8. Same
    BY DEF Wait, Same, srcVars, timeVars, sigVars, loopVars
  <1> QED
    BY <1>2, <1>5, <1>7, <1>8, SameSrc

----------------------------------------------------------------------------
(* Steps that change one source                                            *)

LEMMA OneFd ==
  ASSUME SrcInv, NEW f \in Fd, NEW r \in FdType, fds' = [fds EXCEPT ![f] = r]
  PROVE  /\ Bound' = IF r.bound THEN Bound \cup {f} ELSE Bound \ {f}
         /\ Enabled' = IF r.enabled THEN Enabled \cup {f} ELSE Enabled \ {f}
         /\ fds' \in [Fd -> FdType] /\ fds'[f] = r
         /\ \A g \in Fd \ {f} : fds'[g] = fds[g]
  <1>1. fds \in [Fd -> FdType]
    BY DEF SrcInv, SrcType
  <1> QED
    BY <1>1 DEF Bound, Enabled, FdType

\* A source becomes bound.
Binds(f, r) ==
  /\ r.bound /\ fds' = [fds EXCEPT ![f] = r]
  /\ kset' = IF r.enabled THEN kset \cup {f} ELSE kset
  /\ lref' = lref + 1
  /\ UNCHANGED <<todo, held>>

LEMMA BindSrc ==
  ASSUME SrcInv, NEW f \in Fd, f \notin Bound, NEW r \in FdType, Binds(f, r)
  PROVE  /\ Bound' = Bound \cup {f}
         /\ fds' \in [Fd -> FdType] /\ fds'[f] = r
         /\ \A g \in Fd \ {f} : fds'[g] = fds[g]
         /\ WatchExact' /\ BatchLive' /\ LoopRefs'
  <1>1. /\ Bound' = Bound \cup {f}
        /\ Enabled' = IF r.enabled THEN Enabled \cup {f} ELSE Enabled \ {f}
        /\ fds' \in [Fd -> FdType] /\ fds'[f] = r
        /\ \A g \in Fd \ {f} : fds'[g] = fds[g]
    BY OneFd DEF Binds
  <1>2. WatchExact'
    BY <1>1 DEF Binds, SrcInv, WatchExact
  <1>3. BatchLive'
    BY <1>1 DEF Binds, SrcInv, BatchLive
  <1>4. LoopRefs'
    <2>1. Cardinality(Bound') = Cardinality(Bound) + 1 /\ Cardinality(Bound) \in Nat
      BY <1>1, BoundMore, BoundSubset
    <2>2. lref = Count(held) + Cardinality(Bound) /\ Count(held) \in Nat
      BY DEF SrcInv, LoopRefs, Count
    <2> QED
      BY <2>1, <2>2 DEF Binds, LoopRefs
  <1> QED
    BY <1>1, <1>2, <1>3, <1>4

\* A bound source is removed, and r is what remains of it.
Unbinds(f, r) ==
  /\ ~r.bound /\ fds' = [fds EXCEPT ![f] = r]
  /\ kset' = IF fds[f].enabled THEN kset \ {f} ELSE kset
  /\ todo' = Cleared(f) /\ lref' = lref - 1 /\ UNCHANGED held

LEMMA UnbindSrc ==
  ASSUME SrcInv, NEW f \in Bound, NEW r \in FdType, Unbinds(f, r)
  PROVE  /\ Bound' = Bound \ {f}
         /\ fds' \in [Fd -> FdType] /\ fds'[f] = r
         /\ \A g \in Fd \ {f} : fds'[g] = fds[g]
         /\ todo' \in Seq(Fd \cup {Loop, None}) /\ lref' \in Nat
         /\ WatchExact' /\ BatchLive' /\ LoopRefs'
  <1>0. f \in Fd
    BY BoundSubset
  <1>1. /\ Bound' = Bound \ {f}
        /\ Enabled' = IF r.enabled THEN Enabled \cup {f} ELSE Enabled \ {f}
        /\ fds' \in [Fd -> FdType] /\ fds'[f] = r
        /\ \A g \in Fd \ {f} : fds'[g] = fds[g]
    BY <1>0, OneFd DEF Unbinds
  <1>2. WatchExact'
    BY <1>1 DEF Unbinds, SrcInv, WatchExact, Enabled
  <1>3. todo' \in Seq(Fd \cup {Loop, None}) /\ DOMAIN todo' = DOMAIN todo
    BY DEF Unbinds, Cleared, SrcInv, SrcType
  <1>4. BatchLive'
    BY <1>1, <1>3 DEF Unbinds, Cleared, SrcInv, BatchLive
  <1>5. LoopRefs' /\ lref' \in Nat
    <2>1. /\ Cardinality(Bound') = Cardinality(Bound) - 1
          /\ Cardinality(Bound) \in Nat /\ Cardinality(Bound) > 0
      BY <1>0, <1>1, BoundMore, BoundSubset
    <2>2. lref = Count(held) + Cardinality(Bound) /\ Count(held) \in Nat
      BY DEF SrcInv, LoopRefs, Count
    <2> QED
      BY <2>1, <2>2 DEF Unbinds, LoopRefs
  <1> QED
    BY <1>1, <1>2, <1>3, <1>4, <1>5

\* The source of a file that is not bound is free.
LEMMA FileFree ==
  ASSUME SrcInv, NEW f \in File
  PROVE  /\ f \in Fd /\ f \notin Timer
         /\ fds[f].ref = Count(f \in Bound)
         /\ fds[f].ref = 0 <=> f \notin Bound
  <1>1. f \in Fd /\ f \notin Timer
    BY EloopAssumption DEF Fd
  <1> QED
    BY <1>1 DEF SrcInv, FdRefs, Count

NewRec == [ref |-> 1, bound |-> TRUE, enabled |-> TRUE]

\* A file becomes bound; the shared signals keep their sources.
LEMMA BindFile ==
  ASSUME SrcInv, NEW f \in File, f \notin Bound, Binds(f, NewRec),
         UNCHANGED <<tref, own>>
  PROVE  SrcType' /\ TimerRefs' /\ FdRefs' /\ LoopRefs' /\ WatchExact'
         /\ BatchLive' /\ Bound' = Bound \cup {f}
  <1>0. f \in Fd /\ f \notin Timer /\ NewRec \in FdType
    BY FileFree DEF NewRec, FdType
  <1>1. /\ Bound' = Bound \cup {f}
        /\ fds' \in [Fd -> FdType] /\ fds'[f] = NewRec
        /\ \A g \in Fd \ {f} : fds'[g] = fds[g]
        /\ WatchExact' /\ BatchLive' /\ LoopRefs'
    BY <1>0, BindSrc
  <1>2. SrcType'
    BY <1>0, <1>1 DEF SrcInv, SrcType, Binds
  <1>3. TimerRefs'
    BY <1>0, <1>1 DEF SrcInv, TimerRefs, Count
  <1>4. FdRefs'
    <2> SUFFICES ASSUME NEW g \in Fd
                 PROVE  fds'[g].ref = Count(g \in Bound')
                                      + Count(g \in Timer /\ tref'[g] > 0)
      BY DEF FdRefs
    <2>1. CASE g = f
      BY <1>0, <1>1, <2>1 DEF NewRec, Count
    <2>2. CASE g # f
      BY <1>1, <2>2 DEF SrcInv, FdRefs, Count
    <2> QED
      BY <2>1, <2>2
  <1> QED
    BY <1>1, <1>2, <1>3, <1>4

\* A file is removed.
LEMMA UnbindFile ==
  ASSUME SrcInv, NEW f \in File, f \in Bound, Unbinds(f, Released(f)),
         UNCHANGED <<tref, own>>
  PROVE  SrcType' /\ TimerRefs' /\ FdRefs' /\ LoopRefs' /\ WatchExact'
         /\ BatchLive' /\ Bound' = Bound \ {f}
  <1>0. f \in Fd /\ f \notin Timer /\ fds[f].ref = 1 /\ fds[f] \in FdType
    BY FileFree DEF Count, SrcInv, SrcType
  <1>r. Released(f) = NoFd /\ NoFd \in FdType
    BY <1>0 DEF Released, FdUnref, NoFd, FdType
  <1>1. /\ Bound' = Bound \ {f}
        /\ fds' \in [Fd -> FdType] /\ fds'[f] = NoFd
        /\ \A g \in Fd \ {f} : fds'[g] = fds[g]
        /\ todo' \in Seq(Fd \cup {Loop, None}) /\ lref' \in Nat
        /\ WatchExact' /\ BatchLive' /\ LoopRefs'
    BY <1>0, <1>r, UnbindSrc
  <1>2. SrcType'
    BY <1>0, <1>1 DEF SrcInv, SrcType, Unbinds
  <1>3. TimerRefs'
    BY <1>0, <1>1 DEF SrcInv, TimerRefs, Count
  <1>4. FdRefs'
    <2> SUFFICES ASSUME NEW g \in Fd
                 PROVE  fds'[g].ref = Count(g \in Bound')
                                      + Count(g \in Timer /\ tref'[g] > 0)
      BY DEF FdRefs
    <2>1. CASE g = f
      BY <1>0, <1>1, <2>1 DEF NoFd, Count
    <2>2. CASE g # f
      BY <1>1, <2>2 DEF SrcInv, FdRefs, Count
    <2> QED
      BY <2>1, <2>2
  <1> QED
    BY <1>1, <1>2, <1>3, <1>4

\* Bound sources of shared signals stay bound.
LEMMA SigKept ==
  ASSUME SrcInv, UNCHANGED sig,
         \A f \in Bound : f \in SigFd => f \in Bound'
  PROVE  SigBound'
  <1>1. \A s \in Signal : sig[s] # NoSig => sig[s].fd \in SigFd
    BY DEF SrcInv, SigBound, SigType, SigFd
  <1> QED
    BY <1>1 DEF SrcInv, SigBound

LEMMA NewFdSrc ==
  ASSUME SrcInv, NEW f \in File, NEW ok \in BOOLEAN, NewFd(f, ok)
  PROVE  SrcInv'
  <1>1. CASE ok
    <2>1. f \notin Bound /\ Binds(f, NewRec) /\ UNCHANGED <<tref, own, sig>>
      BY <1>1, FileFree DEF NewFd, EpollAdd, Binds, NewRec, timeVars, sigVars
    <2>2. SrcType' /\ TimerRefs' /\ FdRefs' /\ LoopRefs' /\ WatchExact'
          /\ BatchLive' /\ Bound' = Bound \cup {f}
      BY <2>1, BindFile
    <2> QED
      BY <2>1, <2>2, SigKept DEF SrcInv
  <1>2. CASE ~ok
    BY <1>2, Quiet DEF NewFd, EpollAdd, Same, timeVars, sigVars
  <1> QED
    BY <1>1, <1>2

LEMMA RmFdSrc ==
  ASSUME SrcInv, NEW f \in File, RmFd(f)
  PROVE  SrcInv'
  <1>1. fds[f] \in FdType /\ fds[f].ref = 1 /\ f \in Bound
    BY FileFree DEF RmFd, SrcInv, SrcType, Count
  <1>2. ~Released(f).bound
    BY <1>1 DEF Released, FdUnref, NoFd
  <1>3. Unbinds(f, Released(f)) /\ UNCHANGED <<tref, own, sig>>
    BY <1>2 DEF RmFd, RemoveFd, Unbinds, timeVars, sigVars
  <1>4. SrcType' /\ TimerRefs' /\ FdRefs' /\ LoopRefs' /\ WatchExact'
        /\ BatchLive' /\ Bound' = Bound \ {f}
    BY <1>1, <1>3, UnbindFile
  <1> QED
    BY <1>3, <1>4, SigKept DEF RmFd, SrcInv

\* Enabling and disabling leave the bindings and the references alone.
LEMMA FlagSrc ==
  ASSUME SrcInv, NEW f \in Fd, NEW b \in BOOLEAN,
         fds' = [fds EXCEPT ![f].enabled = b],
         kset' = IF f \notin Bound THEN kset
                 ELSE IF b THEN kset \cup {f} ELSE kset \ {f},
         UNCHANGED <<tref, own, sig, lref, held, todo>>
  PROVE  SrcInv'
  <1> DEFINE r == [fds[f] EXCEPT !.enabled = b]
  <1>1. r \in FdType /\ fds' = [fds EXCEPT ![f] = r]
        /\ r.bound = fds[f].bound /\ r.ref = fds[f].ref /\ r.enabled = b
    BY DEF SrcInv, SrcType, FdType
  <1> HIDE DEF r
  <1>2. f \in Bound <=> r.bound
    BY <1>1 DEF Bound
  <1>3. /\ Bound' = Bound
        /\ Enabled' = IF b THEN Enabled \cup {f} ELSE Enabled \ {f}
        /\ fds' \in [Fd -> FdType] /\ fds'[f] = r
        /\ \A g \in Fd \ {f} : fds'[g] = fds[g]
    <2>1. /\ Bound' = IF r.bound THEN Bound \cup {f} ELSE Bound \ {f}
          /\ Enabled' = IF r.enabled THEN Enabled \cup {f} ELSE Enabled \ {f}
          /\ fds' \in [Fd -> FdType] /\ fds'[f] = r
          /\ \A g \in Fd \ {f} : fds'[g] = fds[g]
      BY <1>1, OneFd
    <2>2. Bound' = Bound
      BY <1>2, <2>1
    <2> QED
      BY <1>1, <2>1, <2>2
  <1>4. \A g \in Fd : fds'[g].ref = fds[g].ref
    BY <1>1, <1>3
  <1>5. SrcType'
    BY <1>3 DEF SrcInv, SrcType
  <1>6. TimerRefs' /\ LoopRefs'
    BY <1>3 DEF SrcInv, TimerRefs, LoopRefs, Count
  <1>7. FdRefs'
    BY <1>3, <1>4 DEF SrcInv, FdRefs, Count
  <1>8. SigBound'
    BY <1>3, SigKept
  <1>9. WatchExact' /\ BatchLive'
    BY <1>3 DEF SrcInv, WatchExact, BatchLive
  <1> QED
    BY <1>5, <1>6, <1>7, <1>8, <1>9 DEF SrcInv

LEMMA EnableFdSrc ==
  ASSUME SrcInv, NEW f \in Fd, NEW ok \in BOOLEAN, EnableFd(f, ok)
  PROVE  SrcInv'
  <1>1. f \notin kset
    BY DEF EnableFd, SrcInv, WatchExact
  <1>2. kset' = IF f \notin Bound THEN kset
                ELSE IF ok THEN kset \cup {f} ELSE kset \ {f}
    BY <1>1 DEF EnableFd, EpollAdd
  <1> QED
    BY <1>2, FlagSrc DEF EnableFd, timeVars, sigVars, loopVars

LEMMA DisableFdSrc ==
  ASSUME SrcInv, NEW f \in Fd, DisableFd(f)
  PROVE  SrcInv'
  BY FlagSrc DEF DisableFd, timeVars, sigVars, loopVars

----------------------------------------------------------------------------
(* Timers                                                                  *)

\* The references of a timer and of its source.
LEMMA TimerFacts ==
  ASSUME SrcInv, NEW t \in Timer
  PROVE  /\ t \in Fd /\ t \notin File /\ t \notin SigFd
         /\ fds[t] \in FdType /\ tref[t] \in 0..2
         /\ tref[t] = Count(t \in own) + Count(t \in Bound)
         /\ fds[t].ref = Count(t \in Bound) + Count(tref[t] > 0)
         /\ t \in Bound <=> fds[t].bound
  <1>1. t \in Fd /\ t \notin File
    BY EloopAssumption DEF Fd
  <1>2. fds[t].ref = Count(t \in Bound) + Count(t \in Timer /\ tref[t] > 0)
    BY <1>1 DEF SrcInv, FdRefs
  <1>3. Count(t \in Timer /\ tref[t] > 0) = Count(tref[t] > 0)
    BY DEF Count
  <1> QED
    BY <1>1, <1>2, <1>3 DEF SrcInv, SrcType, TimerRefs, SigFd, Bound

\* A step on timer t that leaves its references right leaves all of them so.
LEMMA TimerStep ==
  ASSUME SrcInv, NEW t \in Timer,
         NEW r \in FdType, fds' = [fds EXCEPT ![t] = r],
         NEW n \in 0..2, tref' = [tref EXCEPT ![t] = n],
         own' \subseteq Timer, \A u \in Timer \ {t} : u \in own' <=> u \in own,
         n = Count(t \in own') + Count(r.bound),
         r.ref = Count(r.bound) + Count(n > 0),
         UNCHANGED sig
  PROVE  TimerRefs' /\ FdRefs' /\ SigBound' /\ tref' \in [Timer -> 0..2]
  <1>0. t \in Fd /\ t \notin SigFd
    BY TimerFacts
  <1>1. /\ Bound' = IF r.bound THEN Bound \cup {t} ELSE Bound \ {t}
        /\ fds' \in [Fd -> FdType] /\ fds'[t] = r
        /\ \A g \in Fd \ {t} : fds'[g] = fds[g]
    BY <1>0, OneFd
  <1>2. /\ tref' \in [Timer -> 0..2] /\ tref'[t] = n
        /\ \A u \in Timer \ {t} : tref'[u] = tref[u]
    BY DEF SrcInv, SrcType
  <1>3. r.bound \in BOOLEAN
    BY DEF FdType
  <1>4. TimerRefs'
    <2> SUFFICES ASSUME NEW u \in Timer
                 PROVE  tref'[u] = Count(u \in own') + Count(u \in Bound')
      BY DEF TimerRefs
    <2>1. CASE u = t
      BY <1>1, <1>2, <1>3, <2>1 DEF Count
    <2>2. CASE u # t
      BY <1>1, <1>2, <2>2 DEF SrcInv, TimerRefs, Count
    <2> QED
      BY <2>1, <2>2
  <1>5. FdRefs'
    <2> SUFFICES ASSUME NEW g \in Fd
                 PROVE  fds'[g].ref = Count(g \in Bound')
                                      + Count(g \in Timer /\ tref'[g] > 0)
      BY DEF FdRefs
    <2>1. CASE g = t
      BY <1>1, <1>2, <1>3, <2>1 DEF Count
    <2>2. CASE g # t
      <3>1. fds'[g].ref = fds[g].ref /\ (g \in Bound' <=> g \in Bound)
        BY <1>1, <2>2
      <3>2. g \in Timer => tref'[g] = tref[g]
        BY <1>2, <2>2
      <3> QED
        BY <3>1, <3>2 DEF SrcInv, FdRefs, Count
    <2> QED
      BY <2>1, <2>2
  <1>6. SigBound'
    BY <1>0, <1>1, SigKept
  <1> QED
    BY <1>2, <1>4, <1>5, <1>6

LEMMA TimerNewSrc ==
  ASSUME SrcInv, NEW t \in Timer, NEW arm \in BOOLEAN, TimerNew(t, arm)
  PROVE  SrcInv'
  <1> DEFINE r == [ref |-> 1, bound |-> FALSE, enabled |-> TRUE]
  <1>0. r \in FdType /\ ~r.bound /\ r.ref = 1
    BY DEF FdType
  <1>1. fds' = [fds EXCEPT ![t] = r] /\ tref' = [tref EXCEPT ![t] = 1]
        /\ own' = own \cup {t} /\ UNCHANGED <<kset, sig, lref, held, todo>>
    BY DEF TimerNew, sigVars, loopVars
  <1> HIDE DEF r
  <1>2. t \in Fd /\ t \notin Bound
    BY TimerFacts DEF TimerNew, Count
  <1>3. TimerRefs' /\ FdRefs' /\ SigBound' /\ tref' \in [Timer -> 0..2]
    <2> DEFINE n == 1
    <2>1. own' \subseteq Timer /\ t \in own' /\ n \in 0..2
          /\ \A u \in Timer \ {t} : u \in own' <=> u \in own
      BY <1>1 DEF SrcInv, SrcType
    <2>2. n = Count(t \in own') + Count(r.bound)
          /\ r.ref = Count(r.bound) + Count(n > 0)
      BY <1>0, <2>1 DEF Count
    <2>3. tref' = [tref EXCEPT ![t] = n]
      BY <1>1
    <2> HIDE DEF n
    <2> QED
      BY <1>0, <1>1, <2>1, <2>2, <2>3, TimerStep
  <1>4. /\ Bound' = Bound \ {t}
        /\ Enabled' = IF r.enabled THEN Enabled \cup {t} ELSE Enabled \ {t}
        /\ fds' \in [Fd -> FdType]
    BY <1>0, <1>1, <1>2, OneFd
  <1>5. Bound' = Bound /\ Bound' \cap Enabled' = Bound \cap Enabled
    BY <1>2, <1>4
  <1>6. SrcType'
    BY <1>1, <1>3, <1>4 DEF SrcInv, SrcType
  <1>7. LoopRefs' /\ WatchExact' /\ BatchLive'
    BY <1>1, <1>5 DEF SrcInv, LoopRefs, WatchExact, BatchLive
  <1> QED
    BY <1>3, <1>6, <1>7 DEF SrcInv

\* A timer is bound with the references of its creator and of the loop.
LEMMA BindTimer ==
  ASSUME SrcInv, NEW t \in Timer, t \notin Bound,
         NEW r \in FdType, Binds(t, r), r.ref = 2,
         tref' = [tref EXCEPT ![t] = Count(t \in own) + 1],
         UNCHANGED <<own, sig>>
  PROVE  SrcInv'
  <1> DEFINE n == Count(t \in own) + 1
  <1>0. n \in 1..2 /\ t \in Fd /\ r.bound
    BY TimerFacts DEF Count, Binds
  <1>1. n = Count(t \in own') + Count(r.bound)
        /\ r.ref = Count(r.bound) + Count(n > 0)
    BY <1>0 DEF Count
  <1>2. fds' = [fds EXCEPT ![t] = r] /\ tref' = [tref EXCEPT ![t] = n]
    BY DEF Binds
  <1>3. n \in 0..2 /\ own' \subseteq Timer
    BY <1>0 DEF SrcInv, SrcType
  <1> HIDE DEF n
  <1>4. TimerRefs' /\ FdRefs' /\ SigBound' /\ tref' \in [Timer -> 0..2]
    BY <1>1, <1>2, <1>3, TimerStep
  <1>5. fds' \in [Fd -> FdType] /\ WatchExact' /\ BatchLive' /\ LoopRefs'
    BY <1>0, BindSrc
  <1>6. SrcType'
    BY <1>0, <1>4, <1>5 DEF SrcInv, SrcType, Binds
  <1> QED
    BY <1>4, <1>5, <1>6 DEF SrcInv

LEMMA AddTimerSrc ==
  ASSUME SrcInv, NEW t \in Timer, NEW ok \in BOOLEAN, AddTimer(t, ok)
  PROVE  SrcInv'
  <1>1. CASE ok
    <2> DEFINE r == [ref |-> 2, bound |-> TRUE, enabled |-> fds[t].enabled]
    <2>1. /\ t \in Fd /\ t \in own /\ t \notin Bound /\ fds[t] \in FdType
          /\ tref[t] = 1 /\ fds[t].ref = 1
      BY TimerFacts DEF AddTimer, Count
    <2>2. r \in FdType /\ r.ref = 2 /\ r.bound /\ r.enabled = fds[t].enabled
      BY <2>1 DEF FdType
    <2>3. fds' = [fds EXCEPT ![t] = r]
      <3>1. fds' = [fds EXCEPT ![t].bound = TRUE, ![t].ref = @ + 1]
        BY <1>1 DEF AddTimer
      <3>2. fds[t] = [ref |-> 1, bound |-> fds[t].bound,
                      enabled |-> fds[t].enabled]
        BY <2>1 DEF FdType
      <3>3. fds \in [Fd -> FdType]
        BY DEF SrcInv, SrcType
      <3> QED
        BY <3>1, <3>2, <3>3, <2>1
    <2>4. t \in Enabled <=> r.enabled
      BY <2>1, <2>2 DEF Enabled
    <2>5. kset' = IF r.enabled THEN kset \cup {t} ELSE kset
      BY <1>1, <2>4 DEF AddTimer, EpollAdd
    <2>6. Binds(t, r)
      BY <1>1, <2>2, <2>3, <2>5 DEF AddTimer, Binds
    <2>7. tref' = [tref EXCEPT ![t] = Count(t \in own) + 1]
      BY <1>1, <2>1 DEF AddTimer, Count, SrcInv, SrcType
    <2> HIDE DEF r
    <2> QED
      BY <2>1, <2>2, <2>6, <2>7, BindTimer DEF AddTimer, sigVars
  <1>2. CASE ~ok
    BY <1>2, Quiet DEF AddTimer, EpollAdd, Same, sigVars
  <1> QED
    BY <1>1, <1>2

LEMMA NewTimerSrc ==
  ASSUME SrcInv, NEW t \in Timer, NEW arm \in BOOLEAN, NEW ok \in BOOLEAN,
         NewTimer(t, arm, ok)
  PROVE  SrcInv'
  <1>1. CASE ok
    <2> DEFINE r == [ref |-> 2, bound |-> TRUE, enabled |-> TRUE]
    <2>1. t \notin Bound /\ t \notin own /\ tref[t] = 0
      BY TimerFacts DEF NewTimer, Count
    <2>2. r \in FdType /\ r.ref = 2
      BY DEF FdType
    <2>3. Binds(t, r)
      BY <1>1 DEF NewTimer, EpollAdd, Binds
    <2>4. tref' = [tref EXCEPT ![t] = Count(t \in own) + 1]
      BY <1>1, <2>1 DEF NewTimer, Count
    <2> HIDE DEF r
    <2> QED
      BY <2>1, <2>2, <2>3, <2>4, BindTimer DEF NewTimer, sigVars
  <1>2. CASE ~ok
    BY <1>2, Quiet DEF NewTimer, EpollAdd, Same, sigVars
  <1> QED
    BY <1>1, <1>2

LEMMA RmTimerSrc ==
  ASSUME SrcInv, NEW t \in Timer, RmTimer(t)
  PROVE  SrcInv'
  <1> DEFINE r == IF tref[t] = 1 THEN FdUnref(Released(t)) ELSE Released(t)
             n == tref[t] - 1
  <1>0. /\ t \in Bound /\ t \in Fd /\ fds[t] \in FdType /\ fds[t].ref = 2
        /\ fds[t].bound
        /\ tref[t] = Count(t \in own) + 1 /\ tref[t] \in 1..2
    BY TimerFacts DEF RmTimer, Count
  <1>1. Released(t) \in FdType /\ Released(t).ref = 1 /\ ~Released(t).bound
    <2> DEFINE x == [fds[t] EXCEPT !.bound = FALSE]
    <2>1. x \in FdType /\ x.ref = 2 /\ ~x.bound
      BY <1>0 DEF FdType
    <2>2. Released(t) = [x EXCEPT !.ref = @ - 1]
      BY <2>1 DEF Released, FdUnref
    <2> HIDE DEF x
    <2> QED
      BY <2>1, <2>2 DEF FdType
  <1>2. r \in FdType /\ ~r.bound /\ r.ref = Count(n > 0) /\ n \in 0..2
    <2>1. CASE tref[t] = 1
      BY <1>1, <2>1 DEF FdUnref, FdType, NoFd, Count
    <2>2. CASE tref[t] = 2
      BY <1>1, <2>2 DEF Count
    <2> QED
      BY <1>0, <2>1, <2>2
  <1>3. fds' = [fds EXCEPT ![t] = r] /\ tref' = [tref EXCEPT ![t] = n]
        /\ UNCHANGED <<own, sig, held>>
    BY DEF RmTimer, sigVars
  <1>4. Unbinds(t, r)
    BY <1>2, <1>3 DEF RmTimer, RemoveFd, Unbinds
  <1>5. n = Count(t \in own') + Count(r.bound)
        /\ r.ref = Count(r.bound) + Count(n > 0) /\ own' \subseteq Timer
    BY <1>0, <1>2, <1>3 DEF Count, SrcInv, SrcType
  <1> HIDE DEF r, n
  <1>6. TimerRefs' /\ FdRefs' /\ SigBound' /\ tref' \in [Timer -> 0..2]
    BY <1>2, <1>3, <1>5, TimerStep
  <1>7. /\ fds' \in [Fd -> FdType] /\ WatchExact' /\ BatchLive' /\ LoopRefs'
        /\ todo' \in Seq(Fd \cup {Loop, None}) /\ lref' \in Nat
    BY <1>0, <1>2, <1>4, UnbindSrc
  <1>8. SrcType'
    BY <1>3, <1>4, <1>6, <1>7 DEF SrcInv, SrcType, Unbinds
  <1> QED
    BY <1>6, <1>7, <1>8 DEF SrcInv

LEMMA TimerUnrefSrc ==
  ASSUME SrcInv, NEW t \in Timer, TimerUnref(t)
  PROVE  SrcInv'
  <1> DEFINE r == IF tref[t] = 1 THEN FdUnref(fds[t]) ELSE fds[t]
             n == tref[t] - 1
  <1>0. /\ t \in own /\ t \in Fd /\ fds[t] \in FdType
        /\ tref[t] = 1 + Count(t \in Bound) /\ n = Count(t \in Bound)
        /\ fds[t].ref = Count(t \in Bound) + 1
        /\ fds[t].bound <=> t \in Bound
    BY TimerFacts DEF TimerUnref, Count
  <1>1. r \in FdType /\ (r.bound <=> t \in Bound) /\ r.ref = 2 * n
    BY <1>0 DEF FdUnref, FdType, NoFd, Count
  <1>2. fds' = [fds EXCEPT ![t] = r] /\ tref' = [tref EXCEPT ![t] = n]
        /\ own' = own \ {t} /\ UNCHANGED <<kset, sig, lref, held, todo>>
    <2>1. fds \in [Fd -> FdType]
      BY DEF SrcInv, SrcType
    <2> QED
      BY <1>0, <2>1 DEF TimerUnref, sigVars, loopVars
  <1>3. r.bound \in BOOLEAN
    BY <1>1 DEF FdType
  <1>4. /\ n = Count(t \in own') + Count(r.bound) /\ n \in 0..2
        /\ r.ref = Count(r.bound) + Count(n > 0) /\ own' \subseteq Timer
    BY <1>0, <1>1, <1>2, <1>3 DEF Count, SrcInv, SrcType
  <1>5. t \in Bound => r.enabled = fds[t].enabled
    BY <1>0 DEF Count
  <1> HIDE DEF r, n
  <1>6. TimerRefs' /\ FdRefs' /\ SigBound' /\ tref' \in [Timer -> 0..2]
    BY <1>1, <1>2, <1>4, TimerStep
  <1>7. /\ Bound' = IF r.bound THEN Bound \cup {t} ELSE Bound \ {t}
        /\ Enabled' = IF r.enabled THEN Enabled \cup {t} ELSE Enabled \ {t}
        /\ fds' \in [Fd -> FdType]
    BY <1>0, <1>1, <1>2, OneFd
  <1>8. Bound' = Bound
    BY <1>1, <1>7
  <1>9. Bound' \cap Enabled' = Bound \cap Enabled
    BY <1>0, <1>5, <1>7, <1>8 DEF Enabled
  <1>10. SrcType'
    BY <1>2, <1>6, <1>7 DEF SrcInv, SrcType
  <1>11. LoopRefs' /\ WatchExact' /\ BatchLive'
    BY <1>2, <1>8, <1>9 DEF SrcInv, LoopRefs, WatchExact, BatchLive
  <1> QED
    BY <1>6, <1>10, <1>11 DEF SrcInv

----------------------------------------------------------------------------
(* Shared signals                                                          *)

\* What malloc returns was free.
LEMMA MallocFree == ASSUME NEW S, NEW x \in Malloc(S) PROVE x \in S
  BY DEF Malloc

LEMMA SignalNewSrc ==
  ASSUME SrcInv, NEW s \in Signal, NEW c \in Callback, NEW ok \in BOOLEAN,
         SignalNew(s, c, ok)
  PROVE  SrcInv'
  <1>1. PICK f \in File, k \in SigHook :
          /\ fds[f].ref = 0 /\ EpollAdd(f, ok)
          /\ IF ok THEN /\ fds' = [fds EXCEPT ![f] = NewRec]
                        /\ sig' = [sig EXCEPT ![s] = [fd |-> f, hook |-> k]]
                        /\ lref' = lref + 1
             ELSE UNCHANGED <<fds, sig, lref>>
    <2>1. PICK f \in Malloc({x \in File : fds[x].ref = 0}),
               k \in Malloc({x \in SigHook : ~hooks[x].alive}) :
            /\ EpollAdd(f, ok)
            /\ IF ok THEN /\ fds' = [fds EXCEPT ![f] = NewRec]
                          /\ sig' = [sig EXCEPT ![s] = [fd |-> f, hook |-> k]]
                          /\ lref' = lref + 1
               ELSE UNCHANGED <<fds, sig, lref>>
      BY Zenon DEF SignalNew, NewRec
    <2>2. f \in File /\ fds[f].ref = 0 /\ k \in SigHook
      BY MallocFree
    <2> QED
      BY <2>1, <2>2
  <1>2. sig[s] = NoSig /\ UNCHANGED <<tref, own, held, todo>>
    BY DEF SignalNew, timeVars
  <1>3. CASE ok
    <2>1. f \notin Bound /\ Binds(f, NewRec)
      BY <1>1, <1>2, <1>3, FileFree DEF EpollAdd, Binds, NewRec
    <2>2. SrcType' /\ TimerRefs' /\ FdRefs' /\ LoopRefs' /\ WatchExact'
          /\ BatchLive' /\ Bound' = Bound \cup {f}
      BY <1>2, <2>1, BindFile
    <2>3. SigBound'
      <3> DEFINE new == [fd |-> f, hook |-> k]
      <3>1. new \in SigType /\ new.fd = f
        BY DEF SigType
      <3> HIDE DEF new
      <3>2. sig \in [Signal -> SigType] /\ sig' = [sig EXCEPT ![s] = new]
        BY <1>1, <1>3 DEF SrcInv, SigBound, new
      <3>3. \A r \in Signal \ {s} : sig[r] # NoSig => sig[r].fd \in Bound
        BY DEF SrcInv, SigBound
      <3> QED
        BY <2>1, <2>2, <3>1, <3>2, <3>3 DEF SrcInv, SigBound
    <2> QED
      BY <2>2, <2>3 DEF SrcInv
  <1>4. CASE ~ok
    BY <1>1, <1>2, <1>4, Quiet DEF EpollAdd, Same
  <1> QED
    BY <1>3, <1>4

LEMMA UnregisterSignalSrc ==
  ASSUME SrcInv, NEW s \in Signal, NEW c \in Callback, UnregisterSignal(s, c)
  PROVE  SrcInv'
  <1> DEFINE f == sig[s].fd
             h == HookRm(hooks[sig[s].hook], c)
  <1>1. sig[s] # NoSig /\ UNCHANGED <<tref, own, held>>
    BY DEF UnregisterSignal, timeVars
  <1>2. f \in File /\ f \in Bound
    BY <1>1 DEF SrcInv, SigBound, SigType
  <1>3. CASE h.num = 0
    <2>1. /\ RemoveFd(f, [hooks EXCEPT ![sig[s].hook] = HookFree(h)])
          /\ fds' = [fds EXCEPT ![f] = Released(f)]
          /\ sig' = [sig EXCEPT ![s] = NoSig]
      BY <1>3 DEF UnregisterSignal
    <2> HIDE DEF h
    <2>2. ~Released(f).bound
      <3>1. fds[f].ref = 1 /\ fds[f] \in FdType
        BY <1>2, FileFree DEF Count, SrcInv, SrcType
      <3> QED
        BY <3>1 DEF Released, FdUnref, NoFd
    <2>3. Unbinds(f, Released(f))
      BY <1>1, <2>1, <2>2 DEF RemoveFd, Unbinds
    <2>4. SrcType' /\ TimerRefs' /\ FdRefs' /\ LoopRefs' /\ WatchExact'
          /\ BatchLive' /\ Bound' = Bound \ {f}
      BY <1>1, <1>2, <2>3, UnbindFile
    <2>5. SigBound'
      <3>1. NoSig \in SigType /\ sig \in [Signal -> SigType]
        BY DEF SigType, SrcInv, SigBound
      <3>2. \A r \in Signal \ {s} : sig[r] # NoSig => sig[r].fd \in Bound \ {f}
        BY <1>1 DEF SrcInv, SigBound
      <3> QED
        BY <2>1, <2>4, <3>1, <3>2 DEF SrcInv, SigBound
    <2> QED
      BY <2>4, <2>5 DEF SrcInv
  <1>4. CASE h.num # 0
    BY <1>1, <1>4, Quiet DEF UnregisterSignal, Same
  <1> QED
    BY <1>3, <1>4

LEMMA LoopUnrefSrc == ASSUME SrcInv, LoopUnref PROVE SrcInv'
  <1>1. /\ held /\ ~held' /\ held' \in BOOLEAN /\ lref' = lref - 1
        /\ UNCHANGED <<fds, kset, tref, own, sig, todo>>
    BY DEF LoopUnref, srcVars, timeVars, sigVars
  <1>2. Bound' = Bound /\ Enabled' = Enabled
    BY <1>1 DEF Bound, Enabled
  <1>3. LoopRefs' /\ lref' \in Nat
    <2>1. Cardinality(Bound) \in Nat
      BY FdFinite, BoundSubset, FS_CardinalityType
    <2> QED
      BY <1>1, <1>2, <2>1 DEF SrcInv, LoopRefs, Count
  <1>4. SrcType'
    BY <1>1, <1>3 DEF SrcInv, SrcType
  <1>5. TimerRefs' /\ FdRefs'
    BY <1>1, <1>2 DEF SrcInv, TimerRefs, FdRefs, Count
  <1>6. SigBound' /\ WatchExact' /\ BatchLive'
    BY <1>1, <1>2 DEF SrcInv, SigBound, WatchExact, BatchLive
  <1> QED
    BY <1>3, <1>4, <1>5, <1>6 DEF SrcInv

----------------------------------------------------------------------------
(* The theorems                                                            *)

LEMMA UserSrc == ASSUME SrcInv, User PROVE SrcInv'
  <1>1. ASSUME NEW f \in File, RmFd(f) \/ \E ok \in BOOLEAN : NewFd(f, ok)
        PROVE  SrcInv'
    BY <1>1, RmFdSrc, NewFdSrc
  <1>2. ASSUME NEW f \in Fd, DisableFd(f) \/ \E ok \in BOOLEAN : EnableFd(f, ok)
        PROVE  SrcInv'
    BY <1>2, DisableFdSrc, EnableFdSrc
  <1>3. ASSUME NEW t \in Timer, NEW arm \in BOOLEAN, NEW ok \in BOOLEAN,
               \/ TimerNew(t, arm) \/ AddTimer(t, ok) \/ NewTimer(t, arm, ok)
               \/ TimerUpdate(t, arm)
        PROVE  SrcInv'
    <2>1. TimerUpdate(t, arm) => Same /\ UNCHANGED todo
      BY DEF TimerUpdate, Same, srcVars, sigVars, loopVars
    <2> QED
      BY <1>3, <2>1, TimerNewSrc, AddTimerSrc, NewTimerSrc, Quiet
  <1>4. ASSUME NEW t \in Timer, RmTimer(t) \/ TimerUnref(t) \/ TimerDrain(t)
        PROVE  SrcInv'
    <2>1. TimerDrain(t) => Same /\ UNCHANGED todo
      BY DEF TimerDrain, Same, srcVars, timeVars, sigVars, loopVars
    <2> QED
      BY <1>4, <2>1, RmTimerSrc, TimerUnrefSrc, Quiet
  <1>5. ASSUME NEW s \in Signal, NEW c \in Callback,
               \/ RegisterSignal(s, c) \/ UnregisterSignal(s, c)
               \/ \E ok \in BOOLEAN : SignalNew(s, c, ok)
        PROVE  SrcInv'
    <2>1. RegisterSignal(s, c) => Same /\ UNCHANGED todo
      BY DEF RegisterSignal, Same, srcVars, timeVars, sigVars, loopVars
    <2> QED
      BY <1>5, <2>1, UnregisterSignalSrc, SignalNewSrc, Quiet
  <1>6. ASSUME NEW c \in Callback, NEW oneshot \in BOOLEAN, NEW single \in BOOLEAN,
               RegisterIdle(c, oneshot, single) \/ UnregisterIdle(c, single)
        PROVE  SrcInv'
    BY <1>6, Quiet DEF RegisterIdle, UnregisterIdle, Same, srcVars, timeVars,
                       sigVars, loopVars
  <1>7. ASSUME Exit PROVE SrcInv'
    BY <1>7, Quiet DEF Exit, Same, srcVars, timeVars, sigVars, loopVars
  <1> QED
    BY <1>1, <1>2, <1>3, <1>4, <1>5, <1>6, <1>7, LoopUnrefSrc DEF User

LEMMA KernelSrc == ASSUME SrcInv, Kernel PROVE SrcInv'
  <1>1. Same /\ UNCHANGED todo
    BY DEF Kernel, Input, Expire, Raise, Same, srcVars, timeVars, sigVars,
           loopVars
  <1> QED
    BY <1>1, Quiet

LEMMA DispatchSrc == ASSUME SrcInv, Dispatch PROVE SrcInv'
  <1>1. ASSUME Run \/ Leave \/ RoundEnd \/ HookNext \/ HookEnd \/ Return
        PROVE  SrcInv'
    <2>1. Same /\ UNCHANGED todo
      BY <1>1 DEF Run, Leave, RoundEnd, HookNext, HookEnd, Return, Same,
                  srcVars, timeVars, sigVars, loopVars
    <2> QED
      BY <2>1, Quiet
  <1>2. ASSUME Skip \/ CallFd \/ CallSignal \/ CallIdle
        PROVE  SrcInv'
    <2>1. Same /\ todo # <<>> /\ todo' = Tail(todo)
      BY <1>2 DEF Skip, CallFd, CallSignal, CallIdle, Same, srcVars, timeVars,
                  sigVars, loopVars
    <2> QED
      BY <2>1, Taken
  <1> QED
    BY <1>1, <1>2, WaitSrc DEF Dispatch

LEMMA SrcCorrect == Spec => []SrcInv
  <1>1. SrcInv /\ [Next]_vars => SrcInv'
    <2> SUFFICES ASSUME SrcInv, [Next]_vars PROVE SrcInv'
      OBVIOUS
    <2>1. CASE UNCHANGED vars
      <3>1. Same /\ UNCHANGED todo
        BY <2>1 DEF vars, Same, srcVars, timeVars, sigVars, loopVars
      <3> QED
        BY <3>1, Quiet
    <2> QED
      BY <2>1, UserSrc, KernelSrc, DispatchSrc DEF Next
  <1> QED
    BY <1>1, InitSrc, PTL DEF Spec

\* The kernel watches exactly the sources that are bound and enabled
\* (fd_epoll_add and fd_epoll_remove), for any number of sources.
THEOREM WatchExactCorrect == Spec => []WatchExact
  BY SrcCorrect, PTL DEF SrcInv

\* No callback makes the dispatcher look at a source that was removed
\* (ev_eloop_rm_fd), for any number of sources and any callbacks.
THEOREM BatchLiveCorrect == Spec => []BatchLive
  BY SrcCorrect, PTL DEF SrcInv

\* Every reference of the loop, of a timer and of a source has an owner.
THEOREM RefsExactCorrect == Spec => []RefsExact
  <1>1. SrcInv => RefsExact
    BY DEF SrcInv, RefsExact, TimerRefs, FdRefs, LoopRefs
  <1> QED
    BY <1>1, SrcCorrect, PTL

\* A loop is not freed under a source: "this ref-count will never drop to
\* zero while there is an registered event source" (ev_eloop_unref).
THEOREM LoopOutlivesSources == Spec => [](Bound # {} => lref > 0)
  <1>1. SrcInv => (Bound # {} => lref > 0)
    <2> SUFFICES ASSUME SrcInv, NEW f \in Bound PROVE lref > 0
      OBVIOUS
    <2>1. Cardinality(Bound) \in Nat /\ Cardinality(Bound) > 0
      BY BoundMore, BoundSubset
    <2> QED
      BY <2>1 DEF SrcInv, LoopRefs, Count
  <1> QED
    BY <1>1, SrcCorrect, PTL

----------------------------------------------------------------------------
(***************************************************************************)
(* Lists of callbacks (shl/hook.h).  What an operation does to one hook is *)
(* stated with Sound(h, n): the counter of h is the length of its list and *)
(* n, for a one-shot entry that runs, no two entries are at one address,   *)
(* and the cursor is at an entry of the list, at the head or NULL.         *)
(***************************************************************************)
Distinct(q) == \A i, j \in DOMAIN q : q[i].at = q[j].at => i = j

Sound(h, n) ==
  /\ h \in HookType
  /\ h.num = Len(h.list) + n
  /\ Distinct(h.list)
  /\ h.cur \in At(h) \cup {ListHead, None}

\* The hook g is h after a change: called, dead and free as before.
AsBefore(g, h) ==
  g.alive = h.alive /\ g.dead = h.dead /\ (g.cur = None <=> h.cur = None)

\* A set of naturals has a least element.
LEMMA Least ==
  ASSUME NEW S \in SUBSET Nat, S # {}
  PROVE  \E n \in S : \A m \in S : n <= m
  <1>1. PICK n \in S : \A m \in S : ~(<<m, n>> \in OpToRel(<, Nat))
    BY NatLessThanWellFounded, WFMin
  <1>2. \A m \in S : ~(m < n)
    BY <1>1 DEF OpToRel
  <1> QED
    BY <1>2

\* The last of some indexes.
LEMMA LastIndex ==
  ASSUME NEW n \in Nat, NEW S \in SUBSET (1..n), S # {}
  PROVE  Max(S) \in S
  <1> DEFINE T == {k \in Nat : n - k \in S}
  <1>1. PICK s \in S : TRUE
    OBVIOUS
  <1>2. n - s \in Nat /\ n - (n - s) = s
    OBVIOUS
  <1>3. n - s \in T
    BY <1>2
  <1>4. PICK m \in T : \A k \in T : m <= k
    BY <1>3, Least
  <1>5. m \in Nat /\ n - m \in S
    OBVIOUS
  <1>6. ASSUME NEW j \in S PROVE n - m >= j
    <2>1. n - j \in Nat /\ n - (n - j) = j
      OBVIOUS
    <2>2. n - j \in T
      BY <2>1
    <2>3. m <= n - j
      BY <1>4, <2>2
    <2>4. m \in Int /\ j \in Int
      BY <1>5
    <2> HIDE DEF T
    <2> QED
      BY <2>3, <2>4
  <1> QED
    BY <1>5, <1>6 DEF Max

\* The first of some indexes.
LEMMA FirstIndex ==
  ASSUME NEW n \in Nat, NEW S \in SUBSET (1..n), S # {}
  PROVE  Min(S) \in S
  <1>1. S \in SUBSET Nat
    OBVIOUS
  <1>2. PICK k \in S : \A m \in S : k <= m
    BY <1>1, Least
  <1> QED
    BY <1>2 DEF Min

LEMMA Removed ==
  ASSUME NEW S, NEW q \in Seq(S), NEW i \in 1..Len(q)
  PROVE  /\ RemoveAt(q, i) \in Seq(S) /\ Len(RemoveAt(q, i)) = Len(q) - 1
         /\ DOMAIN RemoveAt(q, i) = 1..(Len(q) - 1)
         /\ \A j \in 1..(Len(q) - 1) :
              RemoveAt(q, i)[j] = IF j < i THEN q[j] ELSE q[j + 1]
  <1> DEFINE a == SubSeq(q, 1, i - 1)
             b == SubSeq(q, i + 1, Len(q))
  <1>1. a \in Seq(S) /\ Len(a) = i - 1 /\ \A j \in 1..(i - 1) : a[j] = q[j]
    OBVIOUS
  <1>2. b \in Seq(S) /\ Len(b) = Len(q) - i
        /\ \A j \in 1..(Len(q) - i) : b[j] = q[i + j]
    OBVIOUS
  <1>0. Len(q) \in Nat /\ i \in Nat /\ 1 <= i /\ i <= Len(q)
    OBVIOUS
  <1> HIDE DEF a, b
  <1>3. /\ a \o b \in Seq(S) /\ Len(a \o b) = Len(a) + Len(b)
        /\ \A j \in 1..(Len(a) + Len(b)) :
             (a \o b)[j] = IF j <= Len(a) THEN a[j] ELSE b[j - Len(a)]
    <2>1. a \in Seq(S) /\ b \in Seq(S)
      BY <1>1, <1>2
    <2> QED
      BY <2>1, ConcatProperties
  <1>4. Len(a) + Len(b) = Len(q) - 1
    BY <1>0, <1>1, <1>2
  <1>5. RemoveAt(q, i) = a \o b
    BY DEF RemoveAt, a, b
  <1>6. ASSUME NEW j \in 1..(Len(q) - 1)
        PROVE  (a \o b)[j] = IF j < i THEN q[j] ELSE q[j + 1]
    <2>1. (a \o b)[j] = IF j <= Len(a) THEN a[j] ELSE b[j - Len(a)]
      BY <1>3, <1>4
    <2>2. CASE j < i
      BY <1>0, <1>1, <2>1, <2>2
    <2>3. CASE ~(j < i)
      <3>1. j - Len(a) \in 1..(Len(q) - i) /\ i + (j - Len(a)) = j + 1
        BY <1>0, <1>1, <2>3
      <3>2. ~(j <= Len(a))
        BY <1>0, <1>1, <2>3
      <3> QED
        BY <1>2, <2>1, <2>3, <3>1, <3>2
    <2> QED
      BY <2>2, <2>3
  <1>7. DOMAIN (a \o b) = 1..Len(a \o b)
    BY <1>3
  <1> QED
    BY <1>3, <1>4, <1>5, <1>6, <1>7

\* Without one entry the addresses are still distinct, and the other entries
\* are there.
LEMMA RemovedAt ==
  ASSUME NEW q \in Seq(Entry), Distinct(q), NEW i \in 1..Len(q)
  PROVE  /\ Distinct(RemoveAt(q, i))
         /\ \A k \in 1..Len(q) :
              k # i => \E j \in DOMAIN RemoveAt(q, i) : RemoveAt(q, i)[j] = q[k]
  <1> DEFINE r == RemoveAt(q, i)
  <1>1. /\ DOMAIN r = 1..(Len(q) - 1) /\ Len(q) \in Nat /\ i \in Nat
        /\ DOMAIN q = 1..Len(q)
        /\ \A j \in 1..(Len(q) - 1) : r[j] = IF j < i THEN q[j] ELSE q[j + 1]
    BY Removed
  <1> HIDE DEF r
  <1>2. ASSUME NEW j \in DOMAIN r, NEW k \in DOMAIN r, r[j].at = r[k].at PROVE j = k
    <2> DEFINE u == IF j < i THEN j ELSE j + 1
               v == IF k < i THEN k ELSE k + 1
    <2>1. u \in DOMAIN q /\ v \in DOMAIN q /\ r[j] = q[u] /\ r[k] = q[v]
      BY <1>1
    <2>2. u = v
      BY <1>2, <2>1 DEF Distinct
    <2> QED
      BY <1>1, <2>2
  <1>3. ASSUME NEW k \in 1..Len(q), k # i PROVE \E j \in DOMAIN r : r[j] = q[k]
    <2>1. CASE k < i
      <3>1. k \in DOMAIN r /\ r[k] = q[k]
        BY <1>1, <2>1
      <3> QED
        BY <3>1
    <2>2. CASE ~(k < i)
      <3>1. k - 1 \in 1..(Len(q) - 1) /\ ~(k - 1 < i) /\ (k - 1) + 1 = k
        BY <1>1, <1>3, <2>2
      <3>2. k - 1 \in DOMAIN r /\ r[k - 1] = q[k]
        BY <1>1, <3>1
      <3> QED
        BY <3>2
    <2> QED
      BY <2>1, <2>2
  <1> QED
    BY <1>2, <1>3 DEF r, Distinct

HookParts(h) ==
  /\ h.list \in Seq(Entry) /\ Len(h.list) \in Nat /\ DOMAIN h.list = 1..Len(h.list)
  /\ \A i \in 1..Len(h.list) : h.list[i] \in Entry
  /\ h.num \in Nat /\ h.alive \in BOOLEAN /\ h.dead \in BOOLEAN
  /\ h.cur \in Node \cup {ListHead, None}
  /\ h \in HookType

LEMMA PartsOf == ASSUME NEW n, NEW h, Sound(h, n) PROVE HookParts(h)
  BY DEF HookParts, Sound, HookType

\* The hook h with another list, counter and cursor.
HookSet(h, q, m, u) == [h EXCEPT !.list = q, !.num = m, !.cur = u]

LEMMA SetSound ==
  ASSUME NEW n \in 0..1, NEW h, HookParts(h), NEW q \in Seq(Entry), Distinct(q),
         NEW m \in Nat, m = Len(q) + n, NEW u,
         u \in {q[j].at : j \in DOMAIN q} \cup {ListHead, None},
         u = None <=> h.cur = None
  PROVE  Sound(HookSet(h, q, m, u), n) /\ AsBefore(HookSet(h, q, m, u), h)
  <1> DEFINE g == HookSet(h, q, m, u)
  <1>1. g.alive = h.alive /\ g.list = q /\ g.num = m /\ g.cur = u /\ g.dead = h.dead
    BY DEF HookSet, HookParts, HookType
  <1>2. u \in Node \cup {ListHead, None}
    <2>1. \A j \in DOMAIN q : q[j] \in Entry
      OBVIOUS
    <2>2. \A j \in DOMAIN q : q[j].at \in Node
      BY <2>1 DEF Entry
    <2> QED
      BY <2>2
  <1>3. g \in HookType
    BY <1>2 DEF HookSet, HookParts, HookType
  <1>4. At(g) = {q[j].at : j \in DOMAIN q}
    BY <1>1 DEF At
  <1> HIDE DEF g
  <1>5. Sound(g, n) /\ AsBefore(g, h)
    BY <1>1, <1>3, <1>4 DEF Sound, AsBefore
  <1> QED
    BY <1>5 DEF g

\* shl_hook_add, with an entry that malloc found.
LEMMA HookAddSound ==
  ASSUME NEW n \in 0..1, NEW h, Sound(h, n), NEW a \in Node, a \notin At(h),
         NEW c \in Callback, NEW oneshot \in BOOLEAN
  PROVE  Sound(HookAdd(h, a, c, oneshot), n) /\ AsBefore(HookAdd(h, a, c, oneshot), h)
  <1> DEFINE e == [at |-> a, cb |-> c, oneshot |-> oneshot]
             q == Append(h.list, e)
             g == HookAdd(h, a, c, oneshot)
  <1>1. e \in Entry /\ e.at = a
    BY DEF Entry
  <1>2. /\ h.list \in Seq(Entry) /\ h.num \in Nat /\ h.alive \in BOOLEAN
        /\ h.dead \in BOOLEAN /\ h.cur \in Node \cup {ListHead, None}
        /\ h \in HookType /\ Len(h.list) \in Nat /\ DOMAIN h.list = 1..Len(h.list)
    BY DEF Sound, HookType
  <1> HIDE DEF e
  <1>3. /\ q \in Seq(Entry) /\ Len(q) = Len(h.list) + 1 /\ DOMAIN q = 1..(Len(h.list) + 1)
        /\ \A i \in 1..Len(h.list) : q[i] = h.list[i]
        /\ q[Len(h.list) + 1] = e
    BY <1>1, <1>2
  <1> HIDE DEF q
  <1>4. g = [h EXCEPT !.list = q, !.num = h.num + 1]
    BY <1>2 DEF HookAdd, HookType, e, q
  <1>5. /\ g.alive = h.alive /\ g.list = q /\ g.num = h.num + 1 /\ g.cur = h.cur
        /\ g.dead = h.dead
    BY <1>2, <1>4 DEF HookType
  <1>6. g \in HookType
    <2>1. h.num + 1 \in Nat
      BY <1>2
    <2> HIDE DEF g
    <2> QED
      BY <1>2, <1>3, <1>4, <2>1 DEF HookType
  <1> HIDE DEF g
  <1>7. g.num = Len(g.list) + n
    BY <1>2, <1>3, <1>5 DEF Sound
  <1>8. Distinct(q)
    <2>1. \A i \in 1..Len(h.list) : h.list[i].at # a
      BY <1>2 DEF At
    <2>2. \A i, j \in 1..Len(h.list) : h.list[i].at = h.list[j].at => i = j
      BY <1>2 DEF Sound, Distinct
    <2>3. ASSUME NEW i \in 1..(Len(h.list) + 1), NEW j \in 1..(Len(h.list) + 1),
                 q[i].at = q[j].at
          PROVE  i = j
      <3>1. i \in 1..Len(h.list) \/ i = Len(h.list) + 1
        BY <1>2
      <3>2. j \in 1..Len(h.list) \/ j = Len(h.list) + 1
        BY <1>2
      <3> QED
        BY <1>1, <1>3, <2>1, <2>2, <2>3, <3>1, <3>2
    <2> QED
      BY <1>3, <2>3 DEF Distinct
  <1>9. g.cur \in At(g) \cup {ListHead, None}
    <2>1. At(h) \subseteq At(g)
      <3>1. \A i \in DOMAIN h.list : i \in DOMAIN q /\ q[i] = h.list[i]
        BY <1>2, <1>3
      <3> QED
        BY <1>5, <3>1 DEF At
    <2> QED
      BY <1>5, <2>1 DEF Sound
  <1> QED
    BY <1>5, <1>6, <1>7, <1>8, <1>9 DEF Sound, AsBefore, g

LEMMA MatchingIn ==
  ASSUME NEW h \in HookType, NEW c
  PROVE  /\ Matching(h, c) \in SUBSET (1..Len(h.list))
         /\ Has(h, c) => Matching(h, c) # {}
  BY DEF HookType, Matching, Has

\* shl_hook_rm: a cursor at the entry that goes moves to the one after it.
LEMMA HookRmSound ==
  ASSUME NEW n \in 0..1, NEW h, Sound(h, n), NEW c
  PROVE  Sound(HookRm(h, c), n) /\ AsBefore(HookRm(h, c), h)
  <1>1. CASE ~Has(h, c)
    BY <1>1 DEF HookRm, AsBefore
  <1>2. CASE Has(h, c)
    <2> DEFINE i == Max(Matching(h, c))
               q == RemoveAt(h.list, i)
               u == IF h.cur = h.list[i].at THEN After(h, i) ELSE h.cur
               g == HookRm(h, c)
    <2>1. HookParts(h)
      BY PartsOf
    <2>2. i \in 1..Len(h.list)
      <3>1. Matching(h, c) \in SUBSET (1..Len(h.list)) /\ Matching(h, c) # {}
        BY <1>2, MatchingIn DEF Sound
      <3>2. Len(h.list) \in Nat
        BY <2>1 DEF HookParts
      <3>3. Max(Matching(h, c)) \in Matching(h, c)
        BY <3>1, <3>2, LastIndex
      <3> QED
        BY <3>1, <3>3
    <2>3. g = [h EXCEPT !.list = q, !.num = h.num - 1, !.cur = u]
      BY <1>2, <2>1 DEF HookRm, HookType, HookParts
    <2> HIDE DEF i
    <2>4. /\ q \in Seq(Entry) /\ Len(q) = Len(h.list) - 1
          /\ DOMAIN q = 1..(Len(h.list) - 1) /\ Distinct(q)
          /\ \A k \in 1..Len(h.list) :
               k # i => \E j \in DOMAIN q : q[j] = h.list[k]
      BY <2>1, <2>2, Removed, RemovedAt DEF Sound, HookParts
    <2> HIDE DEF q
    <2>5. h.num - 1 = Len(q) + n /\ h.num - 1 \in Nat
      BY <2>1, <2>2, <2>4 DEF Sound, HookParts
    <2>6. ASSUME NEW k \in 1..Len(h.list), k # i
          PROVE  h.list[k].at \in {q[j].at : j \in DOMAIN q}
      BY <2>4, <2>6
    <2>7. h.list[i].at \in Node /\ h.list[i].at # None /\ h.list[i].at # ListHead
      BY <2>1, <2>2, EloopAssumption DEF HookParts, Entry
    <2>8. u \in {q[j].at : j \in DOMAIN q} \cup {ListHead, None} /\ (u = None <=> h.cur = None)
      <3>1. CASE h.cur = h.list[i].at /\ i = Len(h.list)
        BY <2>7, <3>1, EloopAssumption DEF After
      <3>2. CASE h.cur = h.list[i].at /\ i # Len(h.list)
        <4>1. i + 1 \in 1..Len(h.list) /\ i + 1 # i
          BY <2>1, <2>2, <3>2 DEF HookParts
        <4>2. u = h.list[i + 1].at
          BY <3>2 DEF After
        <4>3. u # None
          BY <2>1, <4>1, <4>2, EloopAssumption DEF HookParts, Entry
        <4> QED
          BY <2>6, <2>7, <3>2, <4>1, <4>2, <4>3
      <3>3. CASE h.cur # h.list[i].at
        <4>1. CASE h.cur \in At(h)
          <5>1. PICK k \in 1..Len(h.list) : h.cur = h.list[k].at
            BY <2>1, <4>1 DEF At, HookParts
          <5> QED
            BY <2>6, <3>3, <5>1
        <4>2. CASE h.cur \in {ListHead, None}
          BY <3>3, <4>2
        <4> QED
          BY <4>1, <4>2 DEF Sound
      <3> QED
        BY <3>1, <3>2, <3>3
    <2> HIDE DEF u, g
    <2>9. HookSet(h, q, h.num - 1, u) = g
      BY <2>3 DEF HookSet
    <2> QED
      BY <2>1, <2>4, <2>5, <2>8, <2>9, SetSound DEF g
  <1> QED
    BY <1>1, <1>2

\* Each rank of a finite set of indexes is that of one of them.
LEMMA NthIn ==
  ASSUME NEW n \in Nat, NEW S \in SUBSET (1..n), NEW j \in 1..Cardinality(S)
  PROVE  Nth(S, j) \in S /\ Cardinality({k \in S : k <= Nth(S, j)}) = j
  <1> DEFINE Upto(i) == {k \in S : k <= i}
             T == {i \in 0..n : j <= Cardinality(Upto(i))}
  <1>0. \A k \in S : k \in Nat /\ 1 <= k /\ k <= n
    OBVIOUS
  <1>1. IsFiniteSet(S) /\ Cardinality(S) \in Nat
    <2>1. IsFiniteSet(1..n)
      BY FS_Interval
    <2> QED
      BY <2>1, FS_Subset, FS_CardinalityType
  <1>2. \A i \in 0..n : IsFiniteSet(Upto(i)) /\ Cardinality(Upto(i)) \in Nat
    BY <1>1, FS_Subset, FS_CardinalityType
  <1>3. Upto(n) = S /\ Upto(0) = {} /\ n \in 0..n /\ 0 \in 0..n
    <2>1. Upto(n) = S
      BY <1>0
    <2>2. Upto(0) = {}
      <3>1. \A k \in S : ~(k <= 0)
        BY <1>0
      <3> QED
        BY <3>1
    <2> QED
      BY <2>1, <2>2
  <1>4. n \in T /\ 0 \notin T
    BY <1>1, <1>3, FS_EmptySet
  <1> HIDE DEF Upto
  <1>5. PICK i \in T : \A k \in T : i <= k
    <2>1. T \in SUBSET Nat
      OBVIOUS
    <2> HIDE DEF T
    <2> QED
      BY <1>4, <2>1, Least
  <1>6. i \in 1..n /\ i - 1 \in 0..n /\ i - 1 \notin T
    BY <1>4, <1>5
  <1>7. Cardinality(Upto(i - 1)) < j /\ j <= Cardinality(Upto(i))
    BY <1>2, <1>5, <1>6
  <1>8. Upto(i) = IF i \in S THEN Upto(i - 1) \cup {i} ELSE Upto(i - 1)
    <2>1. \A k \in S : k <= i <=> k = i \/ k <= i - 1
      BY <1>0, <1>6
    <2> QED
      BY <2>1 DEF Upto
  <1>9. i \notin Upto(i - 1)
    BY <1>6 DEF Upto
  <1>10. i \in S
    BY <1>2, <1>6, <1>7, <1>8
  <1>11. Cardinality(Upto(i)) = Cardinality(Upto(i - 1)) + 1
    BY <1>2, <1>6, <1>8, <1>9, <1>10, FS_AddElement
  <1>12. Cardinality(Upto(i)) = j
    BY <1>2, <1>6, <1>7, <1>11
  <1> QED
    BY <1>10, <1>12 DEF Nth, Upto

\* Each index has a rank, and no other index has it.
LEMMA NthOf ==
  ASSUME NEW n \in Nat, NEW S \in SUBSET (1..n), NEW i \in S
  PROVE  \E j \in 1..Cardinality(S) : Nth(S, j) = i
  <1> DEFINE Upto(m) == {k \in S : k <= m}
             j == Cardinality(Upto(i))
  <1>0. \A k \in S : k \in Nat /\ 1 <= k /\ k <= n
    OBVIOUS
  <1>1. IsFiniteSet(S) /\ Cardinality(S) \in Nat
    <2>1. IsFiniteSet(1..n)
      BY FS_Interval
    <2> QED
      BY <2>1, FS_Subset, FS_CardinalityType
  <1>2. \A m : IsFiniteSet(Upto(m)) /\ Cardinality(Upto(m)) \in Nat
               /\ Cardinality(Upto(m)) <= Cardinality(S)
    <2>1. \A m : Upto(m) \subseteq S
      OBVIOUS
    <2> HIDE DEF Upto
    <2> QED
      BY <1>1, <2>1, FS_Subset, FS_CardinalityType
  <1>3. \A k, m \in S : k < m => Cardinality(Upto(k)) < Cardinality(Upto(m))
    <2> SUFFICES ASSUME NEW k \in S, NEW m \in S, k < m
                 PROVE  Cardinality(Upto(k)) < Cardinality(Upto(m))
      OBVIOUS
    <2>0. k \in Nat /\ m \in Nat /\ \A x \in S : x \in Nat
      BY <1>0
    <2>1. Upto(k) \subseteq Upto(m) /\ m \in Upto(m) /\ m \notin Upto(k)
      <3>1. \A x \in S : x <= k => x <= m
        BY <2>0
      <3>2. m <= m /\ ~(m <= k)
        BY <2>0
      <3> QED
        BY <3>1, <3>2
    <2> HIDE DEF Upto
    <2>2. Upto(k) # Upto(m)
      BY <2>1
    <2>3. Cardinality(Upto(k)) <= Cardinality(Upto(m))
          /\ (Cardinality(Upto(k)) = Cardinality(Upto(m)) => Upto(k) = Upto(m))
      BY <1>2, <2>1, FS_Subset
    <2> QED
      BY <1>2, <2>2, <2>3
  <1>4. j \in 1..Cardinality(S)
    <2>1. i \in Upto(i)
      BY <1>0
    <2> HIDE DEF Upto
    <2>2. Cardinality(Upto(i)) # 0
      BY <1>2, <2>1, FS_EmptySet
    <2> QED
      BY <1>1, <1>2, <2>2
  <1> HIDE DEF Upto
  <1>5. ASSUME NEW k \in S, NEW m \in S, Cardinality(Upto(k)) = Cardinality(Upto(m))
        PROVE  k = m
    <2>1. k < m \/ m < k \/ k = m
      BY <1>0
    <2> QED
      BY <1>2, <1>3, <1>5, <2>1
  <1>6. Nth(S, j) \in S /\ Cardinality(Upto(Nth(S, j))) = j
    BY <1>4, NthIn DEF Upto
  <1>7. Nth(S, j) = i
    BY <1>5, <1>6
  <1> QED
    BY <1>4, <1>7

\* shl_hook_rm_all: the entries that stay are at the addresses they had, and
\* the cursor is at one of them.
LEMMA HookRmAllSound ==
  ASSUME NEW n \in 0..1, NEW h, Sound(h, n), NEW c
  PROVE  Sound(HookRmAll(h, c), n) /\ AsBefore(HookRmAll(h, c), h)
  <1> DEFINE M == Matching(h, c)
             stay == DOMAIN h.list \ M
             next == {i \in stay : IndexOf(h, h.cur) <= i}
             q == [j \in 1..Cardinality(stay) |-> h.list[Nth(stay, j)]]
             u == IF h.cur \notin At(h) THEN h.cur
                  ELSE IF next = {} THEN ListHead ELSE h.list[Min(next)].at
  <1>1. HookParts(h)
    BY PartsOf
  <1>2. M \in SUBSET (1..Len(h.list)) /\ (1..Len(h.list)) \cap M = M
    BY MatchingIn DEF Sound
  <1>3. stay \in SUBSET (1..Len(h.list)) /\ next \subseteq stay
    BY <1>1 DEF HookParts
  <1>4. IsFiniteSet(1..Len(h.list)) /\ Cardinality(1..Len(h.list)) = Len(h.list)
    BY <1>1, FS_Interval DEF HookParts
  <1>5. HookRmAll(h, c) = HookSet(h, q, h.num - Cardinality(M), u)
    BY <1>1 DEF HookRmAll, HookSet, HookParts, HookType
  <1> HIDE DEF M
  <1>6. IsFiniteSet(M) /\ Cardinality(M) \in Nat
    BY <1>2, <1>4, FS_Subset, FS_CardinalityType
  <1>7. IsFiniteSet(stay) /\ Cardinality(stay) = Len(h.list) - Cardinality(M)
    <2>1. stay = (1..Len(h.list)) \ M
      BY <1>1 DEF HookParts
    <2>2. /\ IsFiniteSet((1..Len(h.list)) \ M)
          /\ Cardinality((1..Len(h.list)) \ M)
               = Cardinality(1..Len(h.list)) - Cardinality((1..Len(h.list)) \cap M)
      BY <1>4, FS_Difference
    <2> QED
      BY <1>2, <1>4, <2>1, <2>2
  <1>8. Cardinality(stay) \in Nat
    BY <1>7, FS_CardinalityType
  <1> HIDE DEF stay
  <1>9. \A j \in 1..Cardinality(stay) :
          Nth(stay, j) \in stay /\ Cardinality({k \in stay : k <= Nth(stay, j)}) = j
    BY <1>1, <1>3, NthIn DEF HookParts
  <1>10. /\ q \in Seq(Entry) /\ Len(q) = Cardinality(stay)
         /\ DOMAIN q = 1..Cardinality(stay)
         /\ \A j \in 1..Cardinality(stay) : q[j] = h.list[Nth(stay, j)]
    <2>1. \A j \in 1..Cardinality(stay) : h.list[Nth(stay, j)] \in Entry
      BY <1>1, <1>3, <1>9 DEF HookParts
    <2> QED
      BY <1>8, <2>1
  <1> HIDE DEF q
  <1>11. Distinct(q)
    <2> SUFFICES ASSUME NEW i \in 1..Cardinality(stay), NEW j \in 1..Cardinality(stay),
                        q[i].at = q[j].at
                 PROVE  i = j
      BY <1>10 DEF Distinct
    <2>1. Nth(stay, i) = Nth(stay, j)
      <3>1. /\ Nth(stay, i) \in DOMAIN h.list /\ Nth(stay, j) \in DOMAIN h.list
            /\ h.list[Nth(stay, i)].at = h.list[Nth(stay, j)].at
        BY <1>1, <1>3, <1>9, <1>10 DEF HookParts
      <3>2. Distinct(h.list)
        BY DEF Sound
      <3> QED
        BY <3>1, <3>2 DEF Distinct
    <2>2. Cardinality({k \in stay : k <= Nth(stay, i)}) = i
          /\ Cardinality({k \in stay : k <= Nth(stay, j)}) = j
      BY <1>9
    <2> QED
      BY <2>1, <2>2
  <1>12. ASSUME NEW i \in stay PROVE h.list[i].at \in {q[j].at : j \in DOMAIN q}
    <2>1. PICK j \in 1..Cardinality(stay) : Nth(stay, j) = i
      BY <1>1, <1>3, NthOf DEF HookParts
    <2> QED
      BY <1>10, <2>1
  <1>13. h.num - Cardinality(M) \in Nat /\ h.num - Cardinality(M) = Len(q) + n
    BY <1>1, <1>6, <1>7, <1>8, <1>10 DEF Sound, HookParts
  <1>14. u \in {q[j].at : j \in DOMAIN q} \cup {ListHead, None} /\ (u = None <=> h.cur = None)
    <2>1. CASE h.cur \notin At(h)
      BY <2>1 DEF Sound
    <2>2. CASE h.cur \in At(h)
      <3>1. h.cur # None
        BY <1>1, <2>2, EloopAssumption DEF At, HookParts, Entry
      <3>2. CASE next = {}
        BY <2>2, <3>1, <3>2, EloopAssumption
      <3>3. CASE next # {}
        <4>1. Min(next) \in next
          BY <1>1, <1>3, <3>3, FirstIndex DEF HookParts
        <4>2. Min(next) \in stay /\ Min(next) \in 1..Len(h.list)
          BY <1>3, <4>1
        <4>3. h.list[Min(next)].at # None
          BY <1>1, <4>2, EloopAssumption DEF HookParts, Entry
        <4>4. u = h.list[Min(next)].at
          BY <2>2, <3>3
        <4> HIDE DEF next, u
        <4> QED
          BY <1>12, <3>1, <4>2, <4>3, <4>4
      <3> QED
        BY <3>2, <3>3
    <2> QED
      BY <2>1, <2>2
  <1> HIDE DEF u
  <1> QED
    BY <1>1, <1>5, <1>10, <1>11, <1>13, <1>14, SetSound
----------------------------------------------------------------------------
(* The hooks of the loop                                                   *)

\* A one-shot entry of k is off its list, and not freed before its callback
\* returns.
Running(k) == Count(call.hook = k /\ call.entry.oneshot)

\* The hooks hs are sound, and the one that is being called has a cursor.
HooksGood(hs) ==
  /\ hs \in [Hook -> HookType]
  /\ \A k \in Hook :
       Sound(hs[k], Running(k)) /\ (hs[k].cur # None <=> call.hook = k)

\* A shared signal has a hook of its own, and a hook that was freed is not
\* being called.
SigOwn(hs) ==
  /\ \A s \in Signal :
       sig[s] # NoSig => hs[sig[s].hook].alive /\ ~hs[sig[s].hook].dead
  /\ \A r, s \in Signal :
       sig[r] # NoSig /\ sig[s] # NoSig /\ sig[r].hook = sig[s].hook => r = s
  /\ \A k \in SigHook : ~hs[k].alive => hs[k].cur = None

\* What is being called, by the place the program is at.
CallAt ==
  /\ call \in CallType /\ pc \in Pc
  /\ pc \notin {"hook", "user"} => call = NoCall
  /\ pc = "hook" => call.hook # None
  /\ pc = "hook" \/ call.hook = None => call.entry = NoEntry
  /\ held \/ pc = "done"

\* The inductive invariant of the hooks, with SrcInv.
HookInv == HooksGood(hooks) /\ SigOwn(hooks) /\ CallAt

LEMMA NewSound == Sound(NewHook, 0) /\ Sound(NoHook, 0)
  <1>1. <<>> \in Seq(Entry) /\ Len(<<>>) = 0
    OBVIOUS
  <1>2. NewHook \in HookType /\ NoHook \in HookType
    BY <1>1 DEF NewHook, NoHook, HookType
  <1>4. Distinct(<<>>)
    BY DEF Distinct
  <1>3. /\ NewHook.list = <<>> /\ NewHook.num = 0 /\ NewHook.cur = None
        /\ NoHook.list = <<>> /\ NoHook.num = 0 /\ NoHook.cur = None
    BY DEF NewHook, NoHook
  <1> QED
    BY <1>1, <1>2, <1>3, <1>4 DEF Sound

LEMMA RunningType == \A k : Running(k) \in 0..1
  BY DEF Running, Count

CalledEntry == [at : Node \cup {None}, cb : Callback \cup {None}, oneshot : BOOLEAN]

LEMMA NoEntryType ==
  NoEntry \in CalledEntry
  /\ CallType = [fd : Fd \cup {Loop, None}, hook : Hook \cup {None}, entry : CalledEntry]
  BY DEF NoEntry, CalledEntry, CallType

LEMMA InitHook == Init => HookInv
  <1> SUFFICES ASSUME Init PROVE HookInv
    OBVIOUS
  <1>1. call = NoCall /\ pc = "setup" /\ held /\ \A s \in Signal : sig[s] = NoSig
    BY DEF Init
  <1>2. hooks \in [Hook -> {NewHook, NoHook}]
    BY DEF Init
  <1>3. CallAt
    BY <1>1, NoEntryType DEF CallAt, NoCall, Pc
  <1>4. \A k \in Hook : Running(k) = 0 /\ call.hook # k
    BY <1>1, EloopAssumption DEF Running, Count, NoCall, NoEntry
  <1>5. NewHook.cur = None /\ NoHook.cur = None /\ NewHook \in HookType /\ NoHook \in HookType
    BY NewSound DEF NewHook, NoHook, Sound
  <1>6. HooksGood(hooks)
    BY <1>2, <1>4, <1>5, NewSound DEF HooksGood
  <1>7. SigOwn(hooks)
    BY <1>1, <1>2, <1>5 DEF SigOwn, Hook
  <1> QED
    BY <1>3, <1>6, <1>7 DEF HookInv

\* One hook changes.
LEMMA SetGood ==
  ASSUME NEW hs, HooksGood(hs), NEW k \in Hook, NEW g, Sound(g, Running(k)),
         g.cur # None <=> call.hook = k
  PROVE  HooksGood([hs EXCEPT ![k] = g])
  <1>1. g \in HookType
    BY DEF Sound
  <1> QED
    BY <1>1 DEF HooksGood

LEMMA SigHooks ==
  ASSUME SrcInv, NEW s \in Signal, sig[s] # NoSig
  PROVE  sig[s].hook \in SigHook /\ sig[s].hook \in Hook /\ sig[s].hook # Idlers
  BY EloopAssumption DEF SrcInv, SigBound, SigType, Hook

\* A step that leaves hooks, signals and calls alone.
LEMMA HookQuiet ==
  ASSUME HookInv, UNCHANGED <<hooks, sig, call, pc, held>> PROVE HookInv'
  BY DEF HookInv, HooksGood, SigOwn, CallAt, Running

\* An operation on one hook.
LEMMA HookChanged ==
  ASSUME SrcInv, HookInv, NEW k \in Hook, NEW g, Sound(g, Running(k)),
         AsBefore(g, hooks[k]), hooks' = [hooks EXCEPT ![k] = g],
         UNCHANGED <<sig, call, pc, held>>
  PROVE  HookInv'
  <1>1. HooksGood([hooks EXCEPT ![k] = g])
    BY SetGood DEF HookInv, HooksGood, AsBefore
  <1>2. HooksGood(hooks)'
    BY <1>1 DEF HooksGood, Running
  <1>3. hooks \in [Hook -> HookType]
    BY DEF HookInv, HooksGood
  <1>4. \A j \in Hook : AsBefore(hooks'[j], hooks[j])
    BY <1>3 DEF AsBefore
  <1>5. \A s \in Signal : sig[s] # NoSig => sig[s].hook \in Hook
    BY SigHooks
  <1>6. SigOwn(hooks)'
    BY <1>3, <1>4, <1>5 DEF HookInv, SigOwn, AsBefore, Hook
  <1>7. CallAt'
    BY DEF HookInv, CallAt
  <1> QED
    BY <1>2, <1>6, <1>7 DEF HookInv

\* The last reference of the loop goes after ev_eloop_run only.
LEMMA DropGood ==
  ASSUME CallAt, NEW hs, HooksGood(hs), lref # 1 \/ pc = "done"
  PROVE  HooksGood(LoopDrop(hs)) /\ \A k \in SigHook : LoopDrop(hs)[k] = hs[k]
  <1>1. CASE lref # 1
    BY <1>1 DEF LoopDrop
  <1>2. CASE lref = 1 /\ pc = "done"
    <2>1. call = NoCall
      BY <1>2 DEF CallAt
    <2>2. Running(Idlers) = 0 /\ call.hook # Idlers /\ NoHook.cur = None /\ Idlers \in Hook
      BY <2>1, EloopAssumption DEF Running, Count, NoCall, NoEntry, NoHook, NewHook, Hook
    <2>3. HooksGood([hs EXCEPT ![Idlers] = NoHook])
      BY <2>2, SetGood, NewSound
    <2>4. Idlers \notin SigHook
      BY EloopAssumption
    <2> QED
      BY <1>2, <2>3, <2>4 DEF LoopDrop, HooksGood, Hook
  <1> QED
    BY <1>1, <1>2

\* A bound source is a reference of the loop beside the program's.
LEMMA LastRef == ASSUME SrcInv, HookInv, NEW f \in Bound PROVE lref # 1 \/ pc = "done"
  <1>1. Cardinality(Bound) \in Nat /\ Cardinality(Bound) > 0
    BY BoundMore, BoundSubset
  <1> QED
    BY <1>1 DEF SrcInv, LoopRefs, Count, HookInv, CallAt

LEMMA HookDropped ==
  ASSUME SrcInv, HookInv, hooks' = LoopDrop(hooks), lref # 1 \/ pc = "done",
         UNCHANGED <<sig, call, pc>>, held' = held \/ pc = "done"
  PROVE  HookInv'
  <1>1. HooksGood(hooks') /\ \A k \in SigHook : hooks'[k] = hooks[k]
    BY DropGood DEF HookInv
  <1>2. HooksGood(hooks)'
    BY <1>1 DEF HooksGood, Running
  <1>3. SigOwn(hooks)'
    BY <1>1, SigHooks DEF HookInv, SigOwn
  <1>4. CallAt'
    BY DEF HookInv, CallAt
  <1> QED
    BY <1>2, <1>3, <1>4 DEF HookInv
----------------------------------------------------------------------------
(* One lemma for each step that the hooks can notice                       *)

\* malloc gives no memory out that is in use.
LEMMA FreshNode ==
  ASSUME NEW a \in Malloc(Node \ InUse)
  PROVE  a \in Node /\ \A k \in Hook : a \notin At(hooks[k])
  <1>1. a \in Node \ InUse
    BY MallocFree
  <1> QED
    BY <1>1 DEF InUse

LEMMA RegisterSignalHook ==
  ASSUME SrcInv, HookInv, NEW s \in Signal, NEW c \in Callback, RegisterSignal(s, c)
  PROVE  HookInv'
  <1>0. PICK a \in Malloc(Node \ InUse) :
          hooks' = [hooks EXCEPT ![sig[s].hook] = HookAdd(@, a, c, FALSE)]
    BY DEF RegisterSignal
  <1> DEFINE k == sig[s].hook
             g == HookAdd(hooks[k], a, c, FALSE)
  <1>1. k \in Hook
    BY SigHooks DEF RegisterSignal
  <1>2. hooks' = [hooks EXCEPT ![k] = g] /\ UNCHANGED <<sig, call, pc, held>>
    BY <1>0 DEF RegisterSignal, sigVars, runVars, loopVars
  <1>3. Sound(g, Running(k)) /\ AsBefore(g, hooks[k])
    <2>1. a \in Node /\ a \notin At(hooks[k])
      BY <1>1, FreshNode
    <2>2. Sound(hooks[k], Running(k)) /\ Running(k) \in 0..1 /\ FALSE \in BOOLEAN
      BY <1>1, RunningType DEF HookInv, HooksGood
    <2> HIDE DEF k
    <2> QED
      BY <2>1, <2>2, HookAddSound
  <1> HIDE DEF k, g
  <1> QED
    BY <1>1, <1>2, <1>3, HookChanged

LEMMA RegisterIdleHook ==
  ASSUME SrcInv, HookInv, NEW c \in Callback, NEW oneshot \in BOOLEAN,
         NEW single \in BOOLEAN, RegisterIdle(c, oneshot, single)
  PROVE  HookInv'
  <1>0. PICK a \in Malloc(Node \ InUse) :
          hooks' = [hooks EXCEPT ![Idlers] =
                      IF single THEN HookAddSingle(@, a, c, oneshot)
                      ELSE HookAdd(@, a, c, oneshot)]
    BY DEF RegisterIdle
  <1> DEFINE g == IF single THEN HookAddSingle(hooks[Idlers], a, c, oneshot)
                  ELSE HookAdd(hooks[Idlers], a, c, oneshot)
  <1>1. Idlers \in Hook /\ Sound(hooks[Idlers], Running(Idlers))
    BY DEF HookInv, HooksGood, Hook
  <1>2. hooks' = [hooks EXCEPT ![Idlers] = g] /\ UNCHANGED <<sig, call, pc, held>>
    BY <1>0 DEF RegisterIdle, sigVars, runVars, loopVars
  <1>3. Sound(g, Running(Idlers)) /\ AsBefore(g, hooks[Idlers])
    <2>1. a \in Node /\ a \notin At(hooks[Idlers])
      BY <1>1, FreshNode
    <2>2. Running(Idlers) \in 0..1
      BY RunningType
    <2>3. /\ Sound(HookAdd(hooks[Idlers], a, c, oneshot), Running(Idlers))
          /\ AsBefore(HookAdd(hooks[Idlers], a, c, oneshot), hooks[Idlers])
      BY <1>1, <2>1, <2>2, HookAddSound
    <2> QED
      BY <1>1, <2>3 DEF HookAddSingle, AsBefore
  <1> HIDE DEF g
  <1> QED
    BY <1>1, <1>2, <1>3, HookChanged

LEMMA UnregisterIdleHook ==
  ASSUME SrcInv, HookInv, NEW c \in Callback, NEW single \in BOOLEAN,
         UnregisterIdle(c, single)
  PROVE  HookInv'
  <1> DEFINE g == IF single THEN HookRmAll(hooks[Idlers], c)
                  ELSE HookRm(hooks[Idlers], c)
  <1>1. Idlers \in Hook /\ Sound(hooks[Idlers], Running(Idlers))
    BY DEF HookInv, HooksGood, Hook
  <1>2. hooks' = [hooks EXCEPT ![Idlers] = g] /\ UNCHANGED <<sig, call, pc, held>>
    BY DEF UnregisterIdle, sigVars, runVars, loopVars
  <1>3. Sound(g, Running(Idlers)) /\ AsBefore(g, hooks[Idlers])
    BY <1>1, HookRmSound, HookRmAllSound, RunningType
  <1> HIDE DEF g
  <1> QED
    BY <1>1, <1>2, <1>3, HookChanged

\* shl_hook_free, whether the hook is being called or not.
LEMMA HookFreeSound ==
  ASSUME NEW n \in 0..1, NEW h, Sound(h, n), h.cur = None => n = 0
  PROVE  /\ Sound(HookFree(h), n) /\ (HookFree(h).cur # None <=> h.cur # None)
         /\ ~HookFree(h).alive => HookFree(h).cur = None \/ ~h.alive
  <1>1. CASE h.cur = None
    BY <1>1, NewSound DEF HookFree, NoHook, NewHook
  <1>2. CASE h.cur # None
    <2>1. HookParts(h) /\ HookFree(h) = [h EXCEPT !.dead = TRUE]
      BY <1>2, PartsOf DEF HookFree
    <2> DEFINE g == HookFree(h)
    <2>2. /\ g.alive = h.alive /\ g.cur = h.cur /\ g.list = h.list
          /\ g.num = h.num /\ g \in HookType
      BY <2>1 DEF HookParts, HookType
    <2> HIDE DEF g
    <2>3. Sound(g, n)
      BY <2>2 DEF Sound, At
    <2> QED
      BY <1>2, <2>2, <2>3 DEF g
  <1> QED
    BY <1>1, <1>2

\* The signal that gets its first callback gets a hook that was free.
LEMMA SignalNewHook ==
  ASSUME SrcInv, HookInv, NEW s \in Signal, NEW c \in Callback, NEW ok \in BOOLEAN,
         SignalNew(s, c, ok)
  PROVE  HookInv'
  <1>1. UNCHANGED <<call, pc, held>>
    BY DEF SignalNew, runVars
  <1>2. CASE ~ok
    BY <1>1, <1>2, HookQuiet DEF SignalNew
  <1>3. CASE ok
    <2>1. PICK f \in File, k \in SigHook, a \in Node :
            /\ ~hooks[k].alive
            /\ hooks' = [hooks EXCEPT ![k] = HookAdd(NewHook, a, c, FALSE)]
            /\ sig' = [sig EXCEPT ![s] = [fd |-> f, hook |-> k]]
      <3>1. PICK f \in Malloc({x \in File : fds[x].ref = 0}),
                 k \in Malloc({x \in SigHook : ~hooks[x].alive}),
                 a \in Malloc(Node \ InUse) :
              /\ hooks' = [hooks EXCEPT ![k] = HookAdd(NewHook, a, c, FALSE)]
              /\ sig' = [sig EXCEPT ![s] = [fd |-> f, hook |-> k]]
        BY <1>3, Zenon DEF SignalNew
      <3>2. f \in File /\ k \in SigHook /\ ~hooks[k].alive
        BY MallocFree
      <3>3. a \in Node
        BY FreshNode
      <3> QED
        BY <3>1, <3>2, <3>3
    <2> DEFINE g == HookAdd(NewHook, a, c, FALSE)
    <2>2. k \in Hook /\ hooks[k].cur = None /\ call.hook # k /\ Running(k) = 0
      BY <2>1 DEF HookInv, SigOwn, HooksGood, Hook, Running, Count
    <2>3. Sound(g, Running(k)) /\ g.cur = None /\ g.alive /\ ~g.dead
      <3>1. Sound(NewHook, 0) /\ 0 \in 0..1 /\ FALSE \in BOOLEAN
            /\ a \in Node /\ a \notin At(NewHook)
        BY NewSound DEF At, NewHook
      <3>2. Sound(HookAdd(NewHook, a, c, FALSE), 0)
            /\ AsBefore(HookAdd(NewHook, a, c, FALSE), NewHook)
        BY <3>1, HookAddSound
      <3> QED
        BY <2>2, <3>2 DEF AsBefore, NewHook
    <2>g. hooks' = [hooks EXCEPT ![k] = g]
      BY <2>1
    <2> HIDE DEF g
    <2>4. HooksGood([hooks EXCEPT ![k] = g])
      <3>1. HooksGood(hooks) /\ (g.cur # None <=> call.hook = k)
        BY <2>2, <2>3 DEF HookInv
      <3> QED
        BY <2>2, <2>3, <3>1, SetGood
    <2>5. HooksGood(hooks)'
      BY <1>1, <2>g, <2>4 DEF HooksGood, Running
    <2>6. hooks'[k] = g /\ \A j \in Hook \ {k} : hooks'[j] = hooks[j]
      BY <2>g, <2>2 DEF HookInv, HooksGood
    <2>7. sig'[s].hook = k /\ \A r \in Signal \ {s} : sig'[r] = sig[r]
      BY <2>1 DEF SrcInv, SigBound
    <2>8. \A r \in Signal \ {s} : sig[r] # NoSig => sig[r].hook # k
      BY <2>1 DEF HookInv, SigOwn
    <2>9. SigOwn(hooks)'
      BY <2>3, <2>6, <2>7, <2>8, SigHooks DEF HookInv, SigOwn, Hook
    <2>10. CallAt'
      BY <1>1 DEF HookInv, CallAt
    <2> QED
      BY <2>5, <2>9, <2>10 DEF HookInv
  <1> QED
    BY <1>2, <1>3

LEMMA UnregisterSignalHook ==
  ASSUME SrcInv, HookInv, NEW s \in Signal, NEW c \in Callback, UnregisterSignal(s, c)
  PROVE  HookInv'
  <1> DEFINE k == sig[s].hook
             f == sig[s].fd
             h == HookRm(hooks[k], c)
             hs == [hooks EXCEPT ![k] = HookFree(h)]
  <1>1. k \in Hook /\ k \in SigHook /\ sig[s] # NoSig /\ UNCHANGED <<call, pc, held>>
    BY SigHooks DEF UnregisterSignal, runVars
  <1>2. Sound(h, Running(k)) /\ AsBefore(h, hooks[k]) /\ Running(k) \in 0..1
    BY <1>1, HookRmSound, RunningType DEF HookInv, HooksGood
  <1>3. h.cur # None <=> call.hook = k
    BY <1>1, <1>2 DEF AsBefore, HookInv, HooksGood
  <1>4. CASE h.num # 0
    <2>1. hooks' = [hooks EXCEPT ![k] = h] /\ UNCHANGED sig
      BY <1>4 DEF UnregisterSignal
    <2> HIDE DEF h, k
    <2> QED
      BY <1>1, <1>2, <2>1, HookChanged
  <1>5. CASE h.num = 0
    <2>1. hooks' = LoopDrop(hs) /\ sig' = [sig EXCEPT ![s] = NoSig]
      BY <1>5 DEF UnregisterSignal, RemoveFd
    <2>2. lref # 1 \/ pc = "done"
      BY <1>1, LastRef DEF SrcInv, SigBound
    <2> HIDE DEF h, k
    <2>3. h.cur = None => Running(k) = 0
      BY <1>3 DEF Running, Count
    <2>4. /\ Sound(HookFree(h), Running(k)) /\ (HookFree(h).cur # None <=> call.hook = k)
          /\ ~HookFree(h).alive => HookFree(h).cur = None \/ ~h.alive
      BY <1>2, <1>3, <2>3, HookFreeSound
    <2>5. HooksGood(hs)
      BY <1>1, <2>4, SetGood DEF HookInv
    <2>6. hs[k] = HookFree(h) /\ \A j \in Hook \ {k} : hs[j] = hooks[j]
      BY <1>1 DEF HookInv, HooksGood
    <2> HIDE DEF hs
    <2>7. HooksGood(hooks') /\ \A j \in SigHook : hooks'[j] = hs[j]
      BY <2>1, <2>2, <2>5, DropGood DEF HookInv
    <2>8. HooksGood(hooks)'
      BY <1>1, <2>7 DEF HooksGood, Running
    <2>9. sig'[s] = NoSig /\ \A r \in Signal \ {s} : sig'[r] = sig[r]
      BY <2>1 DEF SrcInv, SigBound
    <2>10. \A r \in Signal \ {s} : sig[r] # NoSig => sig[r].hook # k
      BY <1>1 DEF HookInv, SigOwn, k
    <2>11. ~hooks'[k].alive => hooks'[k].cur = None
      <3>1. h.alive
        BY <1>1, <1>2 DEF HookInv, SigOwn, AsBefore, k
      <3> QED
        BY <1>1, <2>4, <2>6, <2>7, <3>1
    <2>12. SigOwn(hooks)'
      BY <2>6, <2>7, <2>9, <2>10, <2>11, SigHooks DEF HookInv, SigOwn, Hook
    <2>13. CallAt'
      BY <1>1 DEF HookInv, CallAt
    <2> QED
      BY <2>8, <2>12, <2>13 DEF HookInv
  <1> QED
    BY <1>4, <1>5
----------------------------------------------------------------------------
(* The calls of callbacks                                                  *)

\* A hook starts to be called.
LEMMA HookStarted ==
  ASSUME SrcInv, HookInv, pc = "batch", NEW f \in Fd \cup {Loop, None}, NEW k \in Hook,
         hooks' = [hooks EXCEPT ![k] = HookStart(@)], call' = Calls(f, k),
         pc' = "hook", UNCHANGED <<sig, held>>, k \in SigHook => hooks[k].alive
  PROVE  HookInv'
  <1> DEFINE g == HookStart(hooks[k])
  <1>1. call = NoCall /\ call' = [fd |-> f, hook |-> k, entry |-> NoEntry]
    BY DEF HookInv, CallAt, Calls, NoCall
  <1>2. Sound(hooks[k], 0) /\ \A j \in Hook : Running(j) = 0 /\ Running(j)' = 0
    BY <1>1 DEF HookInv, HooksGood, Running, Count, NoCall, NoEntry
  <1>3. /\ Sound(g, 0) /\ g.cur # None
        /\ g.alive = hooks[k].alive /\ g.dead = hooks[k].dead
    <2> DEFINE h == hooks[k]
               u == IF h.list = <<>> THEN ListHead ELSE h.list[1].at
    <2>1. HookParts(h) /\ Sound(h, 0)
      BY <1>2, PartsOf
    <2>2. g = [h EXCEPT !.cur = u]
      BY DEF HookStart
    <2> HIDE DEF h, g
    <2>3. u # None /\ u \in Node \cup {ListHead} /\ u \in At(h) \cup {ListHead}
      <3>1. CASE h.list = <<>>
        BY <3>1, EloopAssumption
      <3>2. CASE h.list # <<>>
        <4>1. 1 \in 1..Len(h.list)
          BY <2>1, <3>2 DEF HookParts
        <4>2. h.list[1] \in Entry
          BY <2>1, <4>1 DEF HookParts
        <4> QED
          BY <2>1, <3>2, <4>1, <4>2, EloopAssumption DEF At, Entry, HookParts
      <3> QED
        BY <3>1, <3>2
    <2> HIDE DEF u
    <2>4. /\ g.alive = h.alive /\ g.dead = h.dead /\ g.cur = u /\ g.list = h.list
          /\ g.num = h.num /\ g \in HookType
      BY <2>1, <2>2, <2>3 DEF HookParts, HookType
    <2>5. Sound(g, 0)
      BY <2>1, <2>3, <2>4 DEF Sound, At
    <2> QED
      BY <2>3, <2>4, <2>5 DEF h
  <1> HIDE DEF g
  <1>4. hooks \in [Hook -> HookType] /\ hooks' = [hooks EXCEPT ![k] = g]
    BY DEF HookInv, HooksGood, g
  <1>5. g \in HookType
    BY <1>3 DEF Sound
  <1>6. hooks'[k] = g /\ \A j \in Hook \ {k} : hooks'[j] = hooks[j]
    BY <1>4
  <1>7. \A j \in Hook : Sound(hooks[j], 0) /\ hooks[j].cur = None
    BY <1>1, <1>2, EloopAssumption DEF HookInv, HooksGood, NoCall, Hook
  <1>8. HooksGood(hooks)'
    <2>1. hooks' \in [Hook -> HookType]
      BY <1>4, <1>5
    <2> QED
      BY <1>1, <1>2, <1>3, <1>6, <1>7, <2>1 DEF HooksGood
  <1>9. SigOwn(hooks)'
    <2>1. \A s \in Signal : sig[s] # NoSig => sig[s].hook \in Hook
      BY SigHooks
    <2> QED
      BY <1>3, <1>6, <2>1 DEF HookInv, SigOwn, Hook
  <1>10. CallAt'
    <2>1. call' \in CallType /\ call'.hook # None /\ call'.entry = NoEntry
      BY <1>1, NoEntryType, EloopAssumption DEF Hook
    <2> QED
      BY <2>1 DEF HookInv, CallAt, Pc
  <1> QED
    BY <1>8, <1>9, <1>10 DEF HookInv
LEMMA CallSignalHook == ASSUME SrcInv, HookInv, CallSignal PROVE HookInv'
  <1> DEFINE s == SigOf(todo[1])
             k == sig[s].hook
  <1>1. s \in Signal /\ sig[s].fd = todo[1] /\ todo[1] \in File
    BY DEF CallSignal, SigFd, SigOf
  <1>2. sig[s] # NoSig
    BY <1>1, EloopAssumption DEF NoSig, Fd
  <1>3. k \in Hook /\ hooks[k].alive
    BY <1>1, <1>2, SigHooks DEF HookInv, SigOwn
  <1>4. /\ hooks' = [hooks EXCEPT ![k] = HookStart(@)] /\ call' = Calls(todo[1], k)
        /\ pc = "batch" /\ pc' = "hook" /\ UNCHANGED <<sig, held>>
    BY DEF CallSignal, loopVars
  <1>5. todo[1] \in Fd \cup {Loop, None}
    BY <1>1 DEF Fd
  <1> HIDE DEF k, s
  <1> QED
    BY <1>3, <1>4, <1>5, HookStarted

LEMMA CallIdleHook == ASSUME SrcInv, HookInv, CallIdle PROVE HookInv'
  <1>1. /\ hooks' = [hooks EXCEPT ![Idlers] = HookStart(@)]
        /\ call' = Calls(Loop, Idlers)
        /\ pc = "batch" /\ pc' = "hook" /\ UNCHANGED <<sig, held>>
    BY DEF CallIdle, loopVars, sigVars
  <1>2. Idlers \in Hook /\ Idlers \notin SigHook /\ Loop \in Fd \cup {Loop, None}
    BY EloopAssumption DEF Hook
  <1> QED
    BY <1>1, <1>2, HookStarted

\* What is being called changes: only hook k can notice.
LEMMA HookMoved ==
  ASSUME SrcInv, HookInv, NEW k \in Hook, call.hook = k, NEW g,
         hooks' = [hooks EXCEPT ![k] = g],
         \A j \in Hook \ {k} : call'.hook # j,
         Sound(g, Running(k)'), g.cur # None <=> call'.hook = k,
         \/ g.alive = hooks[k].alive /\ g.dead = hooks[k].dead
         \/ hooks[k].dead /\ g.cur = None,
         \/ k = Idlers \/ g.alive \/ ~hooks[k].alive \/ hooks[k].dead,
         CallAt', UNCHANGED sig
  PROVE  HookInv'
  <1>1. g \in HookType /\ hooks \in [Hook -> HookType]
    BY DEF HookInv, HooksGood, Sound
  <1>2. hooks'[k] = g /\ \A j \in Hook \ {k} : hooks'[j] = hooks[j]
    BY <1>1
  <1>3. \A j \in Hook \ {k} : Running(j) = 0 /\ Running(j)' = 0 /\ call.hook # j
    BY DEF Running, Count
  <1>4. HooksGood(hooks)'
    <2>1. hooks' \in [Hook -> HookType]
      BY <1>1
    <2> QED
      BY <1>2, <1>3, <2>1 DEF HookInv, HooksGood
  <1>5. SigOwn(hooks)'
    <2>1. \A s \in Signal : sig[s] # NoSig => sig[s].hook \in Hook
      BY SigHooks
    <2>2. hooks[k].cur # None
      BY DEF HookInv, HooksGood
    <2> QED
      BY <1>2, <2>1, <2>2 DEF HookInv, SigOwn, Hook
  <1> QED
    BY <1>4, <1>5 DEF HookInv

\* shl_hook_call takes the entry at its cursor, which is in the list.
LEMMA HookNextHook == ASSUME SrcInv, HookInv, HookNext PROVE HookInv'
  <1>0. call.hook \in Hook /\ pc = "hook" /\ call.entry = NoEntry /\ call \in CallType
    BY DEF HookNext, HookInv, CallAt, CallType
  <1>1. PICK k \in Hook : k = call.hook
    BY <1>0
  <1> DEFINE h == hooks[k]
             i == IndexOf(h, h.cur)
             e == h.list[i]
             g == HookStep(h)
  <1>2. Sound(h, 0) /\ h.cur # None /\ h.cur # ListHead
    BY <1>0, <1>1 DEF HookInv, HooksGood, Running, Count, NoEntry, HookNext, AtHead
  <1>3. /\ hooks' = [hooks EXCEPT ![k] = g] /\ call' = [call EXCEPT !.entry = Kept(e)]
        /\ pc' = "user" /\ UNCHANGED <<sig, held>>
    BY <1>1 DEF HookNext, loopVars, sigVars, HookInv, HooksGood
  <1>4. HookParts(h) /\ i \in 1..Len(h.list) /\ h.list[i].at = h.cur
    <2>1. HookParts(h) /\ h.cur \in At(h)
      BY <1>2, PartsOf DEF Sound
    <2> HIDE DEF h
    <2>2. \E j \in DOMAIN h.list : h.list[j].at = h.cur
      BY <2>1 DEF At
    <2> QED
      BY <2>1, <2>2 DEF IndexOf, HookParts
  <1> HIDE DEF i
  <1>5. e \in Entry /\ e.oneshot \in BOOLEAN
    BY <1>4 DEF HookParts, Entry
  <1>6. call' \in CallType /\ call'.hook = k /\ call'.entry = Kept(e)
    <2> HIDE DEF e
    <2>1. Kept(e) \in [at : Node \cup {None}, cb : Callback \cup {None}, oneshot : BOOLEAN]
      BY <1>5 DEF Kept, Entry
    <2> HIDE DEF h
    <2> QED
      BY <1>0, <1>1, <1>3, <2>1 DEF CallType
  <1>7. Running(k)' = Count(e.oneshot)
    <2> HIDE DEF e
    <2>1. Kept(e).oneshot = e.oneshot
      BY <1>5 DEF Kept, Entry
    <2> QED
      BY <1>6, <2>1 DEF Running, Count
  <1>8. /\ Sound(g, Count(e.oneshot)) /\ g.cur # None
        /\ g.alive = h.alive /\ g.dead = h.dead
    <2> DEFINE u == After(h, i)
               q == RemoveAt(h.list, i)
    <2>0. g = [h EXCEPT !.cur = u, !.list = IF e.oneshot THEN q ELSE h.list]
      BY <1>4 DEF HookStep, HookParts, HookType, i
    <2> HIDE DEF h, g, e
    <2>1. u # None /\ (u = ListHead \/ \E j \in 1..Len(h.list) : j # i /\ u = h.list[j].at)
      <3>1. CASE i = Len(h.list)
        BY <3>1, EloopAssumption DEF After
      <3>2. CASE i # Len(h.list)
        <4>1. i + 1 \in 1..Len(h.list) /\ i + 1 # i
          BY <1>4, <3>2 DEF HookParts
        <4>2. u = h.list[i + 1].at
          BY <3>2 DEF After
        <4>3. u # None
          BY <1>4, <4>1, <4>2, EloopAssumption DEF HookParts, Entry
        <4> QED
          BY <4>1, <4>2, <4>3
      <3> QED
        BY <3>1, <3>2
    <2> HIDE DEF u
    <2>2. CASE e.oneshot
      <3>1. /\ q \in Seq(Entry) /\ Len(q) = Len(h.list) - 1 /\ Distinct(q)
            /\ \A j \in 1..Len(h.list) :
                 j # i => \E m \in DOMAIN q : q[m] = h.list[j]
        BY <1>2, <1>4, Removed, RemovedAt DEF Sound, HookParts
      <3> HIDE DEF q
      <3>2. u \in {q[m].at : m \in DOMAIN q} \cup {ListHead, None}
        BY <2>1, <3>1
      <3>3. h.num \in Nat /\ h.num = Len(q) + 1
        BY <1>2, <1>4, <3>1 DEF Sound, HookParts
      <3>4. g = HookSet(h, q, h.num, u)
        BY <1>4, <2>0, <2>2 DEF HookSet, HookParts, HookType
      <3>5. Sound(g, 1) /\ AsBefore(g, h)
        BY <1>2, <1>4, <2>1, <3>1, <3>2, <3>3, <3>4, SetSound
      <3> QED
        BY <1>2, <2>2, <3>5 DEF AsBefore, Count
    <2>3. CASE ~e.oneshot
      <3>1. h.list \in Seq(Entry) /\ Distinct(h.list) /\ h.num \in Nat
            /\ h.num = Len(h.list) + 0
        BY <1>2, <1>4 DEF Sound, HookParts
      <3>2. u \in {h.list[m].at : m \in DOMAIN h.list} \cup {ListHead, None}
        BY <1>4, <2>1 DEF HookParts
      <3>3. g = HookSet(h, h.list, h.num, u)
        BY <1>4, <2>0, <2>3 DEF HookSet, HookParts, HookType
      <3>4. Sound(g, 0) /\ AsBefore(g, h)
        BY <1>2, <1>4, <2>1, <3>1, <3>2, <3>3, SetSound
      <3> QED
        BY <1>2, <2>3, <3>4 DEF AsBefore, Count
    <2> QED
      BY <1>5, <2>2, <2>3 DEF e
  <1>9. CallAt'
    BY <1>0, <1>1, <1>3, <1>6, EloopAssumption DEF HookInv, CallAt, Pc
  <1>10. \A j \in Hook \ {k} : call'.hook # j
    BY <1>6
  <1>11. k = Idlers \/ g.alive \/ ~hooks[k].alive \/ hooks[k].dead
    BY <1>8
  <1> HIDE DEF g, e
  <1> QED
    BY <1>1, <1>3, <1>6, <1>7, <1>8, <1>9, <1>10, <1>11, HookMoved

\* shl_hook_call is at the end of the list, and frees a hook that is dead.
LEMMA HookEndHook == ASSUME SrcInv, HookInv, HookEnd PROVE HookInv'
  <1>0. call.hook \in Hook /\ pc = "hook" /\ call.entry = NoEntry /\ call \in CallType
    BY DEF HookEnd, HookInv, CallAt, CallType
  <1>1. PICK k \in Hook : k = call.hook
    BY <1>0
  <1> DEFINE h == hooks[k]
             g == HookStop(h)
  <1>2. Sound(h, 0) /\ h.cur # None
    BY <1>0, <1>1 DEF HookInv, HooksGood, Running, Count, NoEntry
  <1>3. /\ hooks' = [hooks EXCEPT ![k] = g] /\ call' = NoCall
        /\ pc' = "batch" /\ UNCHANGED <<sig, held>>
    BY <1>1 DEF HookEnd, loopVars, sigVars, HookInv, HooksGood
  <1>4. Running(k)' = 0 /\ \A j \in Hook : call'.hook # j
    BY <1>3, EloopAssumption DEF Running, Count, NoCall, NoEntry, Hook
  <1>5. /\ Sound(g, 0) /\ g.cur = None
        /\ h.dead \/ (g.alive = h.alive /\ g.dead = h.dead)
    <2> HIDE DEF h
    <2>1. CASE h.dead
      <3>1. g = NoHook
        BY <2>1 DEF HookStop
      <3> HIDE DEF g
      <3> QED
        BY <2>1, <3>1, NewSound DEF NoHook, NewHook
    <2>2. CASE ~h.dead
      BY <1>2, <2>2 DEF HookStop, Sound, HookType
    <2> QED
      BY <2>1, <2>2
  <1>6. CallAt'
    BY <1>0, <1>3, NoEntryType, EloopAssumption DEF HookInv, CallAt, NoCall, Pc
  <1>7. k = Idlers \/ g.alive \/ ~hooks[k].alive \/ hooks[k].dead
    BY <1>5
  <1> HIDE DEF g
  <1> QED
    BY <1>1, <1>3, <1>4, <1>5, <1>6, <1>7, HookMoved

\* A callback returns, and its one-shot entry is freed.
LEMMA ReturnHook == ASSUME SrcInv, HookInv, Return PROVE HookInv'
  <1>0. pc = "user" /\ call \in CallType /\ UNCHANGED <<sig, held>>
    BY DEF Return, HookInv, CallAt, loopVars, sigVars
  <1>1. CASE call.hook = None
    <2>1. /\ ~call.entry.oneshot /\ hooks' = hooks /\ call' = NoCall
          /\ pc' = "batch"
      BY <1>1 DEF Return, HookInv, CallAt, NoEntry
    <2>2. \A j \in Hook : Running(j)' = Running(j) /\ call.hook # j /\ call'.hook # j
      BY <1>1, <2>1, EloopAssumption DEF Running, Count, NoCall, NoEntry, Hook
    <2>3. HooksGood(hooks)'
      BY <2>1, <2>2 DEF HookInv, HooksGood
    <2>4. SigOwn(hooks)'
      BY <1>0, <2>1 DEF HookInv, SigOwn
    <2>5. CallAt'
      BY <1>0, <2>1, NoEntryType, EloopAssumption DEF HookInv, CallAt, NoCall, Pc
    <2> QED
      BY <2>3, <2>4, <2>5 DEF HookInv
  <1>2. CASE call.hook # None
    <2>0. call.hook \in Hook
      BY <1>0, <1>2 DEF CallType
    <2>1. PICK k \in Hook : k = call.hook
      BY <2>0
    <2> DEFINE h == hooks[k]
               g == [h EXCEPT !.num = h.num - 1]
    <2>2. /\ pc' = "hook" /\ call' = [call EXCEPT !.entry = NoEntry]
          /\ hooks' = IF call.entry.oneshot THEN [hooks EXCEPT ![k].num = @ - 1]
                      ELSE hooks
      BY <1>2, <2>1 DEF Return
    <2>3. call' \in CallType /\ call'.hook = k /\ call'.entry = NoEntry
      BY <1>0, <2>1, <2>2, NoEntryType
    <2>4. Running(k)' = 0 /\ \A j \in Hook \ {k} : call'.hook # j
      BY <2>3 DEF Running, Count, NoEntry
    <2>5. CallAt'
      BY <1>0, <1>2, <2>1, <2>2, <2>3 DEF HookInv, CallAt, Pc
    <2>6. Sound(h, Running(k)) /\ h.cur # None /\ hooks \in [Hook -> HookType]
      BY <2>1 DEF HookInv, HooksGood
    <2>7. CASE call.entry.oneshot
      <3>1. hooks' = [hooks EXCEPT ![k] = g]
        BY <2>1, <2>2, <2>6, <2>7
      <3>2. Running(k) = 1
        BY <2>1, <2>7 DEF Running, Count
      <3>3. Sound(g, 0) /\ g.cur # None /\ g.alive = h.alive /\ g.dead = h.dead
        <4> HIDE DEF h
        <4>1. HookParts(h) /\ h.num = Len(h.list) + 1 /\ Distinct(h.list)
              /\ h.cur \in At(h) \cup {ListHead, None} /\ h.cur # None
          BY <2>6, <3>2, PartsOf DEF Sound
        <4>2. h.num - 1 \in Nat /\ h.num - 1 = Len(h.list)
          BY <4>1 DEF HookParts
        <4>3. /\ g.alive = h.alive /\ g.dead = h.dead /\ g.cur = h.cur
              /\ g.list = h.list /\ g.num = h.num - 1 /\ g \in HookType
          BY <4>1, <4>2 DEF HookParts, HookType
        <4> HIDE DEF g
        <4>4. Len(g.list) + 0 = g.num
          BY <4>1, <4>2, <4>3 DEF HookParts
        <4> QED
          BY <4>1, <4>3, <4>4 DEF Sound, At
      <3>4. k = Idlers \/ g.alive \/ ~hooks[k].alive \/ hooks[k].dead
        BY <3>3
      <3> HIDE DEF g
      <3> QED
        BY <1>0, <2>1, <2>3, <2>4, <2>5, <3>1, <3>3, <3>4, HookMoved
    <2>8. CASE ~call.entry.oneshot
      <3>1. hooks' = [hooks EXCEPT ![k] = h]
        BY <2>1, <2>2, <2>6, <2>8
      <3>2. Running(k) = 0
        BY <2>8 DEF Running, Count
      <3>3. Sound(h, 0) /\ h.cur # None
        BY <2>6, <3>2
      <3>4. k = Idlers \/ h.alive \/ ~hooks[k].alive \/ hooks[k].dead
        OBVIOUS
      <3> QED
        BY <1>0, <2>1, <2>3, <2>4, <2>5, <3>1, <3>3, <3>4, HookMoved
    <2> QED
      BY <2>7, <2>8
  <1> QED
    BY <1>1, <1>2

----------------------------------------------------------------------------
(* The cursor                                                              *)

LEMMA UserHook == ASSUME SrcInv, HookInv, User PROVE HookInv'
  <1>1. ASSUME NEW f \in File, RmFd(f) PROVE HookInv'
    <2>1. lref # 1 \/ pc = "done"
      BY <1>1, LastRef DEF RmFd
    <2> QED
      BY <1>1, <2>1, HookDropped DEF RmFd, RemoveFd, sigVars, runVars
  <1>2. ASSUME NEW t \in Timer, RmTimer(t) PROVE HookInv'
    <2>1. lref # 1 \/ pc = "done"
      BY <1>2, LastRef DEF RmTimer
    <2> QED
      BY <1>2, <2>1, HookDropped DEF RmTimer, RemoveFd, sigVars, runVars
  <1>3. ASSUME LoopUnref PROVE HookInv'
    BY <1>3, HookDropped DEF LoopUnref, sigVars, runVars
  <1>4. ASSUME NEW f \in Fd, NEW ok \in BOOLEAN,
               NewFd(f, ok) \/ DisableFd(f) \/ EnableFd(f, ok)
        PROVE  HookInv'
    BY <1>4, HookQuiet DEF NewFd, DisableFd, EnableFd, sigVars, runVars, loopVars
  <1>5. ASSUME NEW t \in Timer, NEW arm \in BOOLEAN, NEW ok \in BOOLEAN,
               \/ TimerNew(t, arm) \/ AddTimer(t, ok) \/ NewTimer(t, arm, ok)
               \/ TimerUpdate(t, arm) \/ TimerUnref(t) \/ TimerDrain(t)
        PROVE  HookInv'
    <2>1. UNCHANGED <<hooks, sig, call, pc, held>>
      BY <1>5 DEF TimerNew, AddTimer, NewTimer, TimerUpdate, TimerUnref, TimerDrain,
                  sigVars, runVars, loopVars
    <2> QED
      BY <2>1, HookQuiet
  <1>6. ASSUME NEW s \in Signal, NEW c \in Callback,
               \/ RegisterSignal(s, c) \/ UnregisterSignal(s, c)
               \/ \E ok \in BOOLEAN : SignalNew(s, c, ok)
        PROVE  HookInv'
    BY <1>6, RegisterSignalHook, UnregisterSignalHook, SignalNewHook
  <1>7. ASSUME NEW c \in Callback, NEW oneshot \in BOOLEAN, NEW single \in BOOLEAN,
               RegisterIdle(c, oneshot, single) \/ UnregisterIdle(c, single)
        PROVE  HookInv'
    BY <1>7, RegisterIdleHook, UnregisterIdleHook
  <1>8. ASSUME NEW f \in File, RmFd(f) \/ \E ok \in BOOLEAN : NewFd(f, ok)
        PROVE  HookInv'
    <2>1. f \in Fd
      BY DEF Fd
    <2> QED
      BY <1>1, <1>4, <1>8, <2>1
  <1>9. ASSUME NEW t \in Timer, RmTimer(t) \/ TimerUnref(t) \/ TimerDrain(t)
        PROVE  HookInv'
    BY <1>2, <1>5, <1>9
  <1>10. ASSUME Exit PROVE HookInv'
    BY <1>10, HookQuiet DEF Exit, sigVars, runVars, loopVars
  <1> QED
    BY <1>3, <1>4, <1>5, <1>6, <1>7, <1>8, <1>9, <1>10 DEF User

LEMMA KernelHook == ASSUME HookInv, Kernel PROVE HookInv'
  <1>1. UNCHANGED <<hooks, sig, call, pc, held>>
    BY DEF Kernel, Input, Expire, Raise, sigVars, runVars, loopVars
  <1> QED
    BY <1>1, HookQuiet

\* The steps of the loop that call no hook.
LEMMA LoopHook ==
  ASSUME HookInv, UNCHANGED <<hooks, sig, held>>, CallAt', call'.hook = None, call.hook = None
  PROVE  HookInv'
  <1>1. \A j \in Hook : Running(j)' = Running(j) /\ call.hook # j /\ call'.hook # j
    BY EloopAssumption DEF Running, Count
  <1>2. HooksGood(hooks)'
    BY <1>1 DEF HookInv, HooksGood
  <1> QED
    BY <1>2 DEF HookInv, SigOwn

LEMMA DispatchHook == ASSUME SrcInv, HookInv, Dispatch PROVE HookInv'
  <1>1. ASSUME Run \/ Leave \/ Wait \/ RoundEnd \/ Skip PROVE HookInv'
    <2>1. /\ pc \in {"setup", "top", "batch"} /\ pc' \in {"top", "batch", "done"}
          /\ UNCHANGED <<call, hooks, sig, held>>
      BY <1>1 DEF Run, Leave, Wait, RoundEnd, Skip, sigVars, runVars, loopVars
    <2>2. call = NoCall
      BY <2>1 DEF HookInv, CallAt
    <2>3. CallAt'
      BY <2>1, <2>2 DEF HookInv, CallAt, Pc, NoCall
    <2> QED
      BY <2>1, <2>2, <2>3, LoopHook DEF NoCall
  <1>2. ASSUME CallFd PROVE HookInv'
    <2>1. /\ call = NoCall /\ pc' = "user" /\ UNCHANGED <<hooks, sig, held>>
          /\ call' = [fd |-> todo[1], hook |-> None, entry |-> NoEntry]
      BY <1>2 DEF CallFd, Calls, NoCall, HookInv, CallAt, sigVars, loopVars
    <2>2. todo[1] \in Fd
      BY <1>2 DEF CallFd
    <2>3. call' \in CallType /\ call'.hook = None /\ call'.entry = NoEntry
      BY <2>1, <2>2, NoEntryType
    <2>4. CallAt'
      BY <1>2, <2>1, <2>3 DEF CallFd, HookInv, CallAt, Pc
    <2> QED
      BY <2>1, <2>3, <2>4, LoopHook DEF NoCall
  <1> QED
    BY <1>1, <1>2, CallSignalHook, CallIdleHook, HookNextHook, HookEndHook, ReturnHook
       DEF Dispatch

LEMMA HookCorrect == Spec => [](SrcInv /\ HookInv)
  <1>1. SrcInv /\ HookInv /\ [Next]_vars => HookInv'
    <2> SUFFICES ASSUME SrcInv, HookInv, [Next]_vars PROVE HookInv'
      OBVIOUS
    <2>1. CASE UNCHANGED vars
      BY <2>1, HookQuiet DEF vars, sigVars, runVars, loopVars
    <2> QED
      BY <2>1, UserHook, KernelHook, DispatchHook DEF Next
  <1> QED
    BY <1>1, InitHook, SrcCorrect, PTL DEF Spec

\* shl_hook_call never goes on from an entry that was freed, whatever its
\* callbacks register and remove and whichever addresses malloc gives out, for
\* any number of hooks, entries and signals.
THEOREM CursorLiveCorrect == Spec => []CursorLive
  <1>1. HookInv => CursorLive
    BY DEF HookInv, HooksGood, Sound, CursorLive
  <1> QED
    BY <1>1, HookCorrect, PTL

\* The memory of a shared signal's hook is not handed out again before
\* shl_hook_call has left it, and two signals never share one (signal_new,
\* signal_free): an entry that is called has a hook that is alive.
THEOREM CalledHookAlive ==
  Spec => [](call.hook \in SigHook => hooks[call.hook].alive)
  <1>1. HookInv => (call.hook \in SigHook => hooks[call.hook].alive)
    BY DEF HookInv, HooksGood, SigOwn, Hook
  <1> QED
    BY <1>1, HookCorrect, PTL

\* shl_hook_num is what is on the list and the one-shot entry that runs: the
\* counts that ev_eloop_unregister_signal_cb and eloop_idle_event go by.
THEOREM HookCounts ==
  Spec => [](\A k \in Hook : hooks[k].num = Len(hooks[k].list) + Running(k))
  <1>1. HookInv => \A k \in Hook : hooks[k].num = Len(hooks[k].list) + Running(k)
    BY DEF HookInv, HooksGood, Sound
  <1> QED
    BY <1>1, HookCorrect, PTL
=============================================================================
