------------------------------ MODULE FileProofs ------------------------------
(***************************************************************************)
(* Theorems about what the console reads from files: its options (Conf),   *)
(* for any options and any length of the input, and its status sources     *)
(* (Sources), for any manifests, users and faults.                         *)
(***************************************************************************)
EXTENDS Conf, Sources, FiniteSetTheorems, TLAPS

LEMMA Plus == ASSUME NEW x \in Nat PROVE x + 1 \in Nat /\ x + 1 # 0
  OBVIOUS

LEMMA FreshType == Fresh \in Context
  BY DEF Fresh, Context, Switch, Option, Argv

(***************************************************************************)
(* A parser changes the option it was called for, and no other.            *)
(***************************************************************************)
OnlyChanges(c, d, o) ==
  /\ d \in Context /\ d.locked = c.locked /\ d.exit = c.exit
  /\ \A q \in Option \ {o} : Same(d, c, q)
  /\ o # "login" => d.argv = c.argv

LEMMA SetChanges ==
  ASSUME NEW c \in Context, NEW o \in Switch, NEW on \in BOOLEAN,
         NEW d, d = [c EXCEPT !.on = SetTo(@, o, on)]
  PROVE  OnlyChanges(c, d, o)
  <1>1. d \in Context /\ d.locked = c.locked /\ d.exit = c.exit /\ d.argv = c.argv
        /\ d.text = c.text /\ d.on = SetTo(c.on, o, on)
    BY DEF Context, SetTo
  <1> QED
    BY <1>1 DEF OnlyChanges, Same, SetTo

LEMMA TextChanges ==
  ASSUME NEW c \in Context, NEW o \in Text, NEW v \in Value \cup {"unset"},
         NEW d, d = [c EXCEPT !.text[o] = v]
  PROVE  OnlyChanges(c, d, o)
  <1>1. d \in Context /\ d.locked = c.locked /\ d.exit = c.exit /\ d.argv = c.argv
        /\ d.on = c.on /\ d.text = [c.text EXCEPT ![o] = v]
    BY DEF Context
  <1>2. \A q \in Text \ {o} : d.text[q] = c.text[q]
    BY <1>1 DEF Context
  <1> QED
    BY <1>1, <1>2 DEF OnlyChanges, Same, Option

LEMMA SameChanges ==
  ASSUME NEW c \in Context, NEW o
  PROVE  OnlyChanges(c, c, o)
  BY DEF OnlyChanges, Same

LEMMA ParseChanges ==
  ASSUME NEW c \in Context, NEW o \in Option, NEW on \in BOOLEAN,
         NEW p \in Parse(c, o, on)
  PROVE  /\ OnlyChanges(c, p.conf, o) /\ p.ok \in BOOLEAN
         /\ ~p.ok /\ o \notin Colour => p.conf = c
         /\ o = "login" => p.conf.argv = "null"
  <1>1. CASE o = "login"
    <2> DEFINE s == [c EXCEPT !.on = SetTo(@, "login", on)]
    <2>1. OnlyChanges(c, s, "login")
      BY SetChanges DEF Switch
    <2>2. p.conf = [s EXCEPT !.argv = "null"] /\ p.ok
      BY <1>1 DEF Parse, ParseLogin, Fine, Context
    <2> HIDE DEF s
    <2>3. OnlyChanges(c, p.conf, "login") /\ p.conf.argv = "null"
      BY <2>1, <2>2 DEF OnlyChanges, Context, Argv, Same
    <2> QED
      BY <1>1, <2>2, <2>3
  <1>2. CASE o \in Switch /\ o # "login"
    <2>1. p.conf = [c EXCEPT !.on = SetTo(@, o, on)] /\ p.ok
      BY <1>2 DEF Parse, ParseBool, Fine
    <2> QED
      BY <1>2, <2>1, SetChanges
  <1>3. CASE o \in Text /\ o \notin Switch /\ o # "login"
    <2>1. \/ \E v \in Value : p = Fine([c EXCEPT !.text[o] = v])
          \/ p = Bad(c) /\ o \in Plain
          \/ o \in Colour /\ \E v \in Value \cup {c.text[o]} : p = Bad([c EXCEPT !.text[o] = v])
      BY <1>3 DEF Parse, ParseColour, ParseGrab, ParseString
    <2>2. c.text[o] \in Value \cup {"unset"}
      BY <1>3 DEF Context
    <2>3. ASSUME NEW v \in Value \cup {c.text[o]}, p.conf = [c EXCEPT !.text[o] = v]
          PROVE  OnlyChanges(c, p.conf, o)
      BY <1>3, <2>2, <2>3, TextChanges
    <2>4. OnlyChanges(c, c, o)
      BY SameChanges
    <2>5. CASE \E v \in Value : p = Fine([c EXCEPT !.text[o] = v])
      BY <1>3, <2>3, <2>5 DEF Fine
    <2>6. CASE p = Bad(c)
      BY <1>3, <2>4, <2>6 DEF Bad
    <2>7. CASE o \in Colour /\ \E v \in Value \cup {c.text[o]} : p = Bad([c EXCEPT !.text[o] = v])
      BY <1>3, <2>3, <2>7 DEF Bad
    <2> QED
      BY <2>1, <2>5, <2>6, <2>7
  <1> QED
    BY <1>1, <1>2, <1>3 DEF Option

\* A line of a file leaves what is locked.
LEMMA KeyValueChanges ==
  ASSUME NEW c \in Context, NEW o \in Option, NEW on \in BOOLEAN,
         NEW p \in KeyValue(c, o, on)
  PROVE  /\ OnlyChanges(c, p.conf, o) /\ p.ok \in BOOLEAN
         /\ o \in c.locked => p.conf = c
  <1>1. CASE o \in c.locked
    <2>1. p.conf = c /\ p.ok = TRUE
      BY <1>1 DEF KeyValue, Fine
    <2>2. OnlyChanges(c, c, o)
      BY SameChanges
    <2> QED
      BY <2>1, <2>2
  <1>2. CASE o \notin c.locked /\ o = "login"
    <2> DEFINE s == [c EXCEPT !.on = SetTo(@, "login", on)]
    <2>1. OnlyChanges(c, s, "login")
      BY SetChanges DEF Switch
    <2>2. p = Bad(c) \/ p = Fine([s EXCEPT !.argv = "file"])
      BY <1>2 DEF KeyValue, FileLogin, Context
    <2> HIDE DEF s
    <2>3. OnlyChanges(c, [s EXCEPT !.argv = "file"], "login")
      BY <2>1 DEF OnlyChanges, Context, Argv, Same
    <2>4. OnlyChanges(c, c, o)
      BY SameChanges
    <2>5. CASE p = Bad(c)
      BY <1>2, <2>4, <2>5 DEF Bad
    <2>6. CASE p = Fine([s EXCEPT !.argv = "file"])
      BY <1>2, <2>3, <2>6 DEF Fine
    <2> QED
      BY <2>2, <2>5, <2>6
  <1>3. CASE o \notin c.locked /\ o # "login"
    BY <1>3, ParseChanges DEF KeyValue
  <1> QED
    BY <1>1, <1>2, <1>3

\* The afterchecks make options agree that depend on each other.
Complete(c) == c.argv # "null" /\ ("debug" \in c.on => "verbose" \in c.on)

LEMMA AfterChecksChanges ==
  ASSUME NEW c \in Context
  PROVE  LET d == AfterChecks(c)
         IN  /\ d \in Context /\ d.locked = c.locked /\ d.text = c.text
             /\ d.on \ {"verbose"} = c.on \ {"verbose"}
             /\ d.argv = IF c.argv = "null" THEN "default" ELSE c.argv
             /\ Complete(d)
  <1> DEFINE h == AfterHelp(c)
             g == AfterDebug(h)
             d == AfterChecks(c)
  <1>1. h \in Context /\ h.locked = c.locked /\ h.text = c.text /\ h.on = c.on
        /\ h.argv = c.argv
    BY DEF AfterHelp, Context
  <1>2. g \in Context /\ g.locked = h.locked /\ g.text = h.text /\ g.argv = h.argv
        /\ g.on = IF "debug" \in h.on THEN h.on \cup {"verbose"} ELSE h.on
    <2> HIDE DEF h
    <2> QED
      BY <1>1 DEF AfterDebug, Context, Switch
  <1>3. d \in Context /\ d.locked = g.locked /\ d.text = g.text /\ d.on = g.on
        /\ d.argv = IF g.argv = "null" THEN "default" ELSE g.argv
    <2>1. d = AfterLogin(g)
      BY DEF AfterChecks
    <2> HIDE DEF g, d
    <2> QED
      BY <1>2, <2>1 DEF AfterLogin, Context, Argv
  <1> HIDE DEF h, g, d
  <1>4. /\ d \in Context /\ d.locked = c.locked /\ d.text = c.text
        /\ d.on \ {"verbose"} = c.on \ {"verbose"}
        /\ d.argv = IF c.argv = "null" THEN "default" ELSE c.argv
        /\ Complete(d)
    BY <1>1, <1>2, <1>3 DEF Complete
  <1> QED
    BY <1>4 DEF d

-----------------------------------------------------------------------------
(***************************************************************************)
(* The invariant.  While the command line is read, what was asked for is   *)
(* what the program has; after it, the context that is passed on agrees    *)
(* with it, because what was asked for is locked.  The context of the seat *)
(* has been through the afterchecks whenever the file of the seat may be   *)
(* missing.                                                                *)
(***************************************************************************)
Agrees(c) ==
  /\ asked.opt.locked \subseteq c.locked
  /\ \A o \in asked.opt.locked \ Overruled : Same(c, asked.opt, o)
  /\ asked.args => c.argv = "command" /\ "login" \in c.locked

ConfInv ==
  /\ main \in Context /\ seat \in Context /\ asked.opt \in Context
  /\ asked = [opt |-> asked.opt, args |-> asked.args, torn |-> asked.torn]
  /\ read \in Nat
  /\ phase = "arguments" =>
       /\ asked.opt = main /\ ~asked.args
       /\ main.argv # "command"
       /\ "login" \in main.on => "login" \in main.locked
  /\ phase = "main file" => Agrees(main)
  /\ phase \in {"seat file", "running", "failed"} => Agrees(seat)
  /\ phase = "seat file" /\ read = 0 => Complete(seat)
  /\ phase = "running" => Complete(seat)

LEMMA ConfInit == Init => ConfInv
  BY FreshType DEF Init, ConfInv, Nothing, Fresh

\* Contexts that differ in nothing but what may be overruled agree alike.
LEMMA AgreesAlike ==
  ASSUME NEW c \in Context, NEW d \in Context, asked.opt \in Context, Agrees(c),
         d.locked = c.locked, d.text = c.text,
         d.on \ {"verbose", "original"} = c.on \ {"verbose", "original"},
         c.argv = "command" => d.argv = "command"
  PROVE  Agrees(d)
  BY DEF Agrees, Same, Overruled

LEMMA AfterChecksAgrees ==
  ASSUME NEW c \in Context, asked.opt \in Context, Agrees(c)
  PROVE  Agrees(AfterChecks(c))
  <1> DEFINE d == AfterChecks(c)
  <1>1. /\ d \in Context /\ d.locked = c.locked /\ d.text = c.text
        /\ d.on \ {"verbose"} = c.on \ {"verbose"}
        /\ d.argv = IF c.argv = "null" THEN "default" ELSE c.argv
    BY AfterChecksChanges
  <1> HIDE DEF d
  <1>2. Agrees(d)
    BY <1>1, AgreesAlike
  <1> QED
    BY <1>2 DEF d

LEMMA ModeWinsAgrees ==
  ASSUME NEW c \in Context, asked.opt \in Context, Agrees(c)
  PROVE  ModeWins(c) \in Context /\ Agrees(ModeWins(c))
  <1> DEFINE d == ModeWins(c)
  <1>1. /\ d \in Context /\ d.locked = c.locked /\ d.text = c.text
        /\ d.on \ {"original"} = c.on \ {"original"} /\ d.argv = c.argv
    BY DEF ModeWins, Context
  <1> HIDE DEF d
  <1>2. Agrees(d)
    BY <1>1, AgreesAlike
  <1> QED
    BY <1>1, <1>2 DEF d

LEMMA ParseCtxAgrees ==
  ASSUME NEW c \in Context, asked.opt \in Context, Agrees(c)
  PROVE  ParseCtx(c) \in Context /\ Agrees(ParseCtx(c)) /\ Complete(ParseCtx(c))
  <1> DEFINE d == [c EXCEPT !.exit = Fresh.exit]
  <1>1. /\ d \in Context /\ d.locked = c.locked /\ d.text = c.text
        /\ d.on = c.on /\ d.argv = c.argv
    BY DEF Fresh, Context
  <1>2. ParseCtx(c) = AfterChecks(d)
    BY DEF ParseCtx
  <1> HIDE DEF d
  <1>3. Agrees(d)
    BY <1>1, AgreesAlike
  <1> QED
    BY <1>1, <1>2, <1>3, AfterChecksChanges, AfterChecksAgrees

LEMMA LineAgrees ==
  ASSUME NEW c \in Context, asked.opt \in Context, Agrees(c),
         NEW o \in Option, NEW d, OnlyChanges(c, d, o), o \in c.locked => d = c
  PROVE  Agrees(d)
  <1>1. CASE o \in c.locked
    BY <1>1
  <1>2. CASE o \notin c.locked
    <2>1. \A q \in asked.opt.locked \ Overruled : q # o /\ q \in Option
      BY <1>2 DEF Agrees, Context
    <2>2. \A q \in asked.opt.locked \ Overruled : Same(d, asked.opt, q)
      BY <2>1 DEF Agrees, OnlyChanges, Same
    <2>3. asked.args => o # "login"
      BY <1>2 DEF Agrees
    <2> QED
      BY <2>2, <2>3 DEF Agrees, OnlyChanges
  <1> QED
    BY <1>1, <1>2

-----------------------------------------------------------------------------
(***************************************************************************)
(* The steps.                                                              *)
(***************************************************************************)
LEMMA ArgumentStep ==
  ASSUME ConfInv, NEW o \in Option, NEW on \in BOOLEAN, Argument(o, on)
  PROVE  ConfInv'
  <1>0. phase = "arguments" /\ main \in Context /\ asked.opt = main
    BY DEF ConfInv, Argument
  <1>1. PICK p \in Parse(main, o, on) :
          IF p.ok
          THEN /\ main' = [p.conf EXCEPT !.locked = @ \cup {o}]
               /\ asked' = [asked EXCEPT !.opt = main']
               /\ read' = read + 1
               /\ UNCHANGED <<phase, seat>>
          ELSE /\ AfterArguments(p.conf)
               /\ asked' = [asked EXCEPT !.torn = {o} \cap Colour]
    BY DEF Argument
  <1>2. /\ OnlyChanges(main, p.conf, o) /\ p.ok \in BOOLEAN
        /\ ~p.ok /\ o \notin Colour => p.conf = main
        /\ o = "login" => p.conf.argv = "null"
    BY <1>0, ParseChanges
  <1>3. CASE p.ok
    <2>1. /\ main' = [p.conf EXCEPT !.locked = @ \cup {o}] /\ asked'.opt = main'
          /\ asked'.args = asked.args /\ asked'.torn = asked.torn
          /\ asked' = [opt |-> main', args |-> asked.args, torn |-> asked.torn]
          /\ read' = read + 1 /\ phase' = phase /\ seat' = seat
      BY <1>1, <1>3 DEF ConfInv
    <2>2. /\ main' \in Context /\ main'.on = p.conf.on /\ main'.argv = p.conf.argv
          /\ main'.locked = main.locked \cup {o}
      BY <1>2, <2>1 DEF OnlyChanges, Context
    <2>3. main'.argv # "command"
      BY <1>0, <1>2, <2>2 DEF OnlyChanges, ConfInv
    <2>4. "login" \in main'.on => "login" \in main'.locked
      BY <1>0, <1>2, <2>2 DEF OnlyChanges, ConfInv, Same, Option, Switch
    <2> QED
      BY <1>0, <2>1, <2>2, <2>3, <2>4 DEF ConfInv
  <1>4. CASE ~p.ok
    <2>1. /\ main' = p.conf /\ seat' = seat /\ read' = 0
          /\ phase' \in {"exit", "main file"}
          /\ asked'.opt = main /\ asked'.args = asked.args
          /\ asked'.torn = {o} \cap Colour
          /\ asked' = [opt |-> main, args |-> asked.args, torn |-> asked'.torn]
      BY <1>0, <1>1, <1>4 DEF AfterArguments, ConfInv
    <2>2. \A q \in main.locked \ ({"verbose", "original"} \cup ({o} \cap Colour)) :
            Same(main', main, q)
      BY <1>0, <1>2, <1>4, <2>1 DEF OnlyChanges, Same, Context
    <2>3. Agrees(main)'
      BY <1>0, <1>2, <2>1, <2>2 DEF Agrees, Overruled, OnlyChanges, ConfInv, Same
    <2> QED
      BY <1>0, <1>2, <2>1, <2>3 DEF ConfInv, OnlyChanges
  <1> QED
    BY <1>2, <1>3, <1>4

LEMMA WrongArgumentStep == ConfInv /\ WrongArgument => ConfInv'
  <1> SUFFICES ASSUME ConfInv, WrongArgument PROVE ConfInv'
    OBVIOUS
  <1>1. /\ phase = "arguments" /\ main' = main /\ seat' = seat /\ read' = 0
        /\ phase' \in {"exit", "main file"} /\ asked' = asked
    BY DEF WrongArgument, AfterArguments
  <1>2. Agrees(main)'
    BY <1>1 DEF ConfInv, Agrees, Same
  <1> QED
    BY <1>1, <1>2 DEF ConfInv

LEMMA ArgumentsEndStep ==
  ASSUME ConfInv, NEW rest \in BOOLEAN, ArgumentsEnd(rest)
  PROVE  ConfInv'
  <1> DEFINE h == AfterHelp(main)
             g == AfterDebug(h)
             a == AfterLoginArgs(g, rest)
  <1>1. h \in Context /\ h.locked = main.locked /\ h.text = main.text /\ h.on = main.on
        /\ h.argv = main.argv
    BY DEF AfterHelp, Context, ConfInv
  <1>2. g \in Context /\ g.locked = h.locked /\ g.text = h.text /\ g.argv = h.argv
        /\ g.on \ {"verbose"} = h.on \ {"verbose"}
    <2> HIDE DEF h
    <2> QED
      BY <1>1 DEF AfterDebug, Context, Switch
  <1>3. /\ phase = "arguments" /\ main' = a.conf /\ seat' = seat /\ read' = 0
        /\ phase' \in {"exit", "main file"}
        /\ asked' = [asked EXCEPT !.args = a.conf.argv = "command"]
    BY DEF ArgumentsEnd, AfterArguments
  <1> HIDE DEF h, g
  <1>4. /\ a.conf \in Context /\ a.conf.locked = g.locked /\ a.conf.text = g.text
        /\ a.conf.on = g.on
        /\ a.conf.argv = "command" => g.argv = "command" \/ "login" \in g.on
    BY <1>2 DEF AfterLoginArgs, AfterLogin, Fine, Bad, Context, Argv
  <1> HIDE DEF a
  <1>5. main'.argv = "command" => "login" \in main'.locked
    BY <1>1, <1>2, <1>3, <1>4 DEF ConfInv
  <1>6. /\ asked'.opt = main /\ asked'.args = (main'.argv = "command")
        /\ asked' = [opt |-> asked'.opt, args |-> asked'.args, torn |-> asked'.torn]
    BY <1>3 DEF ConfInv
  <1>7. /\ main' \in Context /\ main'.locked = main.locked /\ main'.text = main.text
        /\ main'.on \ {"verbose"} = main.on \ {"verbose"}
    BY <1>1, <1>2, <1>3, <1>4
  <1>8. Agrees(main)'
    BY <1>5, <1>6, <1>7 DEF Agrees, Overruled, Same
  <1> QED
    BY <1>3, <1>6, <1>7, <1>8 DEF ConfInv

\* The seat's context is a copy of that of the program.
LEMMA LoadSeatStep ==
  ASSUME ConfInv, phase = "main file", NEW c \in Context, Agrees(c), LoadSeat(c)
  PROVE  ConfInv'
  <1>1. /\ ParseCtx(c) \in Context /\ Agrees(ParseCtx(c)) /\ Complete(ParseCtx(c))
    BY ParseCtxAgrees DEF ConfInv
  <1>2. main' = c /\ seat' = ParseCtx(c) /\ phase' = "seat file" /\ read' = 0 /\ asked' = asked
    BY DEF LoadSeat
  <1>3. Agrees(seat)'
    BY <1>1, <1>2 DEF Agrees, Overruled
  <1>4. Complete(seat)'
    BY <1>1, <1>2 DEF Complete
  <1> QED
    BY <1>1, <1>2, <1>3, <1>4 DEF ConfInv

LEMMA MainLineStep ==
  ASSUME ConfInv, NEW o \in Option, NEW on \in BOOLEAN, MainLine(o, on)
  PROVE  ConfInv'
  <1>0. phase = "main file" /\ main \in Context /\ asked.opt \in Context /\ Agrees(main)
    BY DEF ConfInv, MainLine
  <1>1. PICK p \in KeyValue(main, o, on) :
          IF p.ok
          THEN /\ main' = p.conf
               /\ read' = read + 1
               /\ UNCHANGED <<phase, seat, asked>>
          ELSE LoadSeat(p.conf)
    BY DEF MainLine
  <1>2. OnlyChanges(main, p.conf, o) /\ p.ok \in BOOLEAN
        /\ (o \in main.locked => p.conf = main)
    BY <1>0, KeyValueChanges
  <1>3. Agrees(p.conf) /\ p.conf \in Context
    BY <1>0, <1>2, LineAgrees DEF OnlyChanges
  <1>4. CASE p.ok
    <2>1. Agrees(main)'
      BY <1>1, <1>3, <1>4 DEF Agrees, Overruled
    <2>2. /\ main' = p.conf /\ read' = read + 1 /\ phase' = "main file"
          /\ seat' = seat /\ asked' = asked
      BY <1>0, <1>1, <1>4
    <2>3. read' \in Nat
      <3>1. read \in Nat
        BY DEF ConfInv
      <3>2. read' = read + 1
        BY <2>2
      <3> QED
        BY <3>1, <3>2, Plus
    <2> QED
      BY <1>3, <2>1, <2>2, <2>3 DEF ConfInv
  <1>5. CASE ~p.ok
    BY <1>0, <1>1, <1>3, <1>5, LoadSeatStep
  <1> QED
    BY <1>4, <1>5

LEMMA MainEndStep == ConfInv /\ (MainEnd \/ MainMissing) => ConfInv'
  <1> SUFFICES ASSUME ConfInv, MainEnd \/ MainMissing PROVE ConfInv'
    OBVIOUS
  <1>0. phase = "main file" /\ main \in Context /\ asked.opt \in Context /\ Agrees(main)
    BY DEF ConfInv, MainEnd, MainMissing
  <1>1. ModeWins(main) \in Context /\ Agrees(ModeWins(main))
    BY <1>0, ModeWinsAgrees
  <1> DEFINE c == ModeWins(AfterChecks(main))
  <1>2. c \in Context /\ Agrees(c)
    <2>1. AfterChecks(main) \in Context /\ Agrees(AfterChecks(main))
      BY <1>0, AfterChecksChanges, AfterChecksAgrees
    <2> QED
      BY <1>0, <2>1, ModeWinsAgrees
  <1>3. CASE MainEnd
    <2> HIDE DEF c
    <2>1. \/ main' = c /\ phase' = "exit" /\ UNCHANGED <<seat, asked, read>>
          \/ LoadSeat(c)
      BY <1>3 DEF MainEnd, c
    <2> QED
      BY <1>0, <1>2, <2>1, LoadSeatStep DEF ConfInv
  <1>4. CASE MainMissing
    BY <1>0, <1>1, <1>4, LoadSeatStep DEF MainMissing
  <1> QED
    BY <1>3, <1>4

LEMMA SeatLineStep ==
  ASSUME ConfInv, NEW o \in Option, NEW on \in BOOLEAN, SeatLine(o, on)
  PROVE  ConfInv'
  <1>0. phase = "seat file" /\ seat \in Context /\ asked.opt \in Context /\ Agrees(seat)
    BY DEF ConfInv, SeatLine
  <1>1. PICK p \in KeyValue(seat, o, on) :
          /\ seat' = p.conf
          /\ read' = read + 1
          /\ phase' = IF p.ok THEN phase ELSE "failed"
    BY DEF SeatLine
  <1>2. OnlyChanges(seat, p.conf, o) /\ (o \in seat.locked => p.conf = seat)
    BY <1>0, KeyValueChanges
  <1>3. Agrees(p.conf) /\ p.conf \in Context
    BY <1>0, <1>2, LineAgrees DEF OnlyChanges
  <1>4. Agrees(seat)'
    BY <1>1, <1>3 DEF Agrees, Overruled, SeatLine
  <1>5. /\ seat' = p.conf /\ read' = read + 1 /\ phase' \in {"seat file", "failed"}
        /\ main' = main /\ asked' = asked
    BY <1>0, <1>1 DEF SeatLine
  <1>6. read' # 0 /\ read' \in Nat
    <2>1. read \in Nat
      BY DEF ConfInv
    <2>2. read' = read + 1
      BY <1>5
    <2> QED
      BY <2>1, <2>2, Plus
  <1> QED
    BY <1>3, <1>4, <1>5, <1>6 DEF ConfInv

LEMMA SeatEndStep == ConfInv /\ (SeatEnd \/ SeatMissing) => ConfInv'
  <1> SUFFICES ASSUME ConfInv, SeatEnd \/ SeatMissing PROVE ConfInv'
    OBVIOUS
  <1>0. phase = "seat file" /\ seat \in Context /\ asked.opt \in Context /\ Agrees(seat)
    BY DEF ConfInv, SeatEnd, SeatMissing
  <1>1. CASE SeatEnd
    <2>1. /\ AfterChecks(seat) \in Context /\ Agrees(AfterChecks(seat))
          /\ Complete(AfterChecks(seat))
      BY <1>0, AfterChecksChanges, AfterChecksAgrees
    <2>2. /\ seat' = AfterChecks(seat) /\ phase' = "running"
          /\ main' = main /\ asked' = asked /\ read' = read
      BY <1>1 DEF SeatEnd
    <2>3. Agrees(seat)' /\ Complete(seat)'
      BY <2>1, <2>2 DEF Agrees, Overruled, Complete
    <2> QED
      BY <2>1, <2>2, <2>3 DEF ConfInv
  <1>2. CASE SeatMissing
    BY <1>0, <1>2 DEF ConfInv, SeatMissing, Agrees, Overruled, Complete
  <1> QED
    BY <1>1, <1>2

LEMMA ConfNext == ConfInv /\ [Next]_vars => ConfInv'
  <1> SUFFICES ASSUME ConfInv, [Next]_vars PROVE ConfInv'
    OBVIOUS
  <1>1. CASE Restart
    BY <1>1, FreshType DEF Restart, ConfInv, Nothing, Fresh
  <1>2. CASE UNCHANGED vars
    BY <1>2 DEF vars, ConfInv, Agrees, Overruled, Complete
  <1> QED
    BY <1>1, <1>2, ArgumentStep, WrongArgumentStep, ArgumentsEndStep, MainLineStep,
       MainEndStep, SeatLineStep, SeatEndStep DEF Next

\* What was accepted on the command line holds for the seat whatever the files
\* say, for any options and files of any length (conf_ctx_parse_argv,
\* parse_kv_pair, conf_ctx_parse_ctx).
THEOREM CommandLineWinsCorrect == Spec => []CommandLineWins
  <1>1. ConfInv => CommandLineWins
    BY DEF ConfInv, CommandLineWins, Agrees
  <1> QED
    BY <1>1, ConfInit, ConfNext, PTL DEF Spec

\* A seat that runs has a login to start and no aftercheck missing, wherever an
\* input was refused (conf_ctx_parse_ctx, parse_buffer).
THEOREM SeatCompleteCorrect == Spec => []SeatComplete
  <1>1. ConfInv => SeatComplete
    BY DEF ConfInv, SeatComplete, Complete
  <1> QED
    BY <1>1, ConfInit, ConfNext, PTL DEF Spec

-----------------------------------------------------------------------------
(***************************************************************************)
(*                          The status sources                             *)
(***************************************************************************)

(***************************************************************************)
(* What is shown of a file does not change when it and the refresh age     *)
(* together.                                                               *)
(***************************************************************************)
OldShown(s, v) ==
  CASE s.kind = "dataplicity" -> "unknown"
    [] s.kind = "system"      -> "none"
    [] s.kind = "events"      -> v

ShownAt(s, f, l) ==
  IF f.value \notin Values[s.kind] \/ f.age < l THEN "none"
  ELSE IF f.age - l <= s.stale THEN f.value ELSE OldShown(s, f.value)

LEMMA ShownNow == ASSUME NEW s, NEW f PROVE Shown(s, f) = ShownAt(s, f, late)
  BY DEF Shown, ShownAt, OldShown

\* A file without a value has no age.
Dated(f) == f \in File /\ (f.value \in {"none", "bad"} => f.age = 0)

Declared(s) == s \in Manifests /\ Parsed(s)

LEMMA KindValues == /\ Kind = {"dataplicity", "system", "events"}
                    /\ Values.dataplicity = {"connected"} /\ Values.system = {"host"}
                    /\ Values.events = {"locked", "unlocked"}
  BY DEF Kind, Values

LEMMA DeclaredFacts ==
  ASSUME NEW s, Declared(s)
  PROVE  /\ s.stale \in Nat \ {0} /\ s.stale + MaxLate < MaxAge /\ s.kind \in Kind
         /\ "none" \notin Values[s.kind] /\ "bad" \notin Values[s.kind]
         /\ "unknown" \notin Values[s.kind]
         /\ Values[s.kind] \subseteq Content
  BY SourcesAssumption, KindValues DEF Declared, Parsed, Content

LEMMA OlderFacts ==
  ASSUME NEW f, Dated(f)
  PROVE  /\ Dated(Older(f)) /\ Older(f).value = f.value
         /\ f.value \notin {"none", "bad"} /\ f.age < MaxAge => Older(f).age = f.age + 1
         /\ f.age = MaxAge => Older(f) = f
         /\ Older(f) = NoFile <=> f = NoFile
  <1>1. f.age \in 0..MaxAge /\ MaxAge \in Nat /\ f = [value |-> f.value, age |-> f.age]
    BY SourcesAssumption DEF Dated, File
  <1>2. CASE f.value \in {"none", "bad"}
    <2>1. f = NoFile \/ f = BadFile
      BY <1>1, <1>2 DEF Dated, NoFile, BadFile
    <2> QED
      BY <1>1, <1>2, <2>1 DEF Older
  <1>3. CASE f.value \notin {"none", "bad"}
    <2>1. f # NoFile /\ f # BadFile
      <3>1. NoFile.value = "none" /\ BadFile.value = "bad"
        BY DEF NoFile, BadFile
      <3> QED
        BY <1>3, <3>1
    <2>2. CASE f.age = MaxAge
      <3>1. Older(f) = f
        BY <2>2 DEF Older
      <3> QED
        BY <1>1, <2>2, <3>1
    <2>3. CASE f.age # MaxAge
      <3>1. Older(f) = [value |-> f.value, age |-> f.age + 1]
        BY <1>1, <2>1, <2>3 DEF Older
      <3>2. f.age + 1 \in 0..MaxAge
        BY <1>1, <2>3
      <3> QED
        BY <1>1, <1>3, <2>3, <3>1, <3>2 DEF Dated, File, NoFile
    <2> QED
      BY <2>2, <2>3
  <1> QED
    BY <1>2, <1>3

LEMMA AgesTogether ==
  ASSUME NEW s, Declared(s), NEW f, Dated(f), NEW l \in Nat, l < MaxLate
  PROVE  ShownAt(s, Older(f), l + 1) = ShownAt(s, f, l)
  <1>1. /\ s.stale \in Nat \ {0} /\ s.stale + MaxLate < MaxAge
        /\ "none" \notin Values[s.kind] /\ "bad" \notin Values[s.kind]
    BY DeclaredFacts
  <1>2. /\ Older(f).value = f.value
        /\ f.value \notin {"none", "bad"} /\ f.age < MaxAge => Older(f).age = f.age + 1
        /\ f.age = MaxAge => Older(f) = f
    BY OlderFacts
  <1>3. f.age \in 0..MaxAge /\ MaxAge \in Nat /\ MaxLate \in Nat
    BY SourcesAssumption DEF Dated, File
  <1>4. CASE f.value \notin Values[s.kind]
    BY <1>2, <1>4 DEF ShownAt
  <1>5. CASE f.value \in Values[s.kind] /\ f.age = MaxAge
    BY <1>1, <1>2, <1>3, <1>5 DEF ShownAt
  <1>6. CASE f.value \in Values[s.kind] /\ f.age < MaxAge
    <2>1. Older(f).age = f.age + 1
      BY <1>1, <1>2, <1>6
    <2>2. /\ Older(f).age < l + 1 <=> f.age < l
          /\ Older(f).age - (l + 1) = f.age - l
      BY <1>3, <2>1
    <2> HIDE DEF Values
    <2> QED
      BY <1>2, <1>6, <2>2 DEF ShownAt
  <1> QED
    BY <1>3, <1>4, <1>5, <1>6

(***************************************************************************)
(* A refresh that nobody disturbed has shown, of each kind, the first      *)
(* source among those it has been through.                                 *)
(***************************************************************************)
StateGood ==
  /\ sources \in Seq(Manifests) /\ Len(sources) <= MAX_SOURCES
  /\ \A i \in Index : Declared(sources[i])
  /\ file \in [Index -> File] /\ \A i \in Index : Dated(file[i])
  /\ Dated(fd) /\ Dated(data)
  /\ at \in 0..(Len(sources) + 1) /\ late \in 0..MaxLate
  /\ context \in [Kind -> {"none", "unknown"} \cup UNION {Values[k] : k \in Kind}]
  /\ linked \in BOOLEAN /\ quiet \in BOOLEAN /\ tmp \in BOOLEAN
  /\ collector \in {"idle", "open", "written"}

\* The source i of the kind k shows something.
Visibly(i, k) ==
  sources[i].kind = k /\ sources[i].user \in users /\ Shown(sources[i], file[i]) # "none"

SoFar(k) ==
  \/ /\ context[k] = "none"
     /\ \A i \in Index : i < at => ~Visibly(i, k)
  \/ \E i \in Index : /\ i < at /\ Visibly(i, k) /\ context[k] = Shown(sources[i], file[i])
                      /\ \A j \in Index : j < i => ~Visibly(j, k)

SourcesInv ==
  /\ StateGood
  /\ quiet => at # 0
  /\ fd # NoFile => at \in Index /\ Wanted(at)
  /\ quiet /\ fd # NoFile => linked /\ fd = file[at]
  /\ quiet => \A k \in Kind : SoFar(k)

LEMMA NoFileHidden == Dated(NoFile) /\ Dated(BadFile) /\ \A s : Declared(s) => Shown(s, NoFile) = "none"
  <1>1. Dated(NoFile) /\ Dated(BadFile) /\ NoFile.value = "none"
    BY SourcesAssumption DEF Dated, NoFile, BadFile, File, Content
  <1> QED
    BY <1>1, DeclaredFacts DEF Shown

LEMMA IndexFacts ==
  ASSUME StateGood
  PROVE  Index = 1..Len(sources) /\ Len(sources) \in Nat
  BY DEF StateGood, Index

LEMMA SourcesInitInv == SourcesInit => SourcesInv
  <1> SUFFICES ASSUME SourcesInit PROVE SourcesInv
    OBVIOUS
  <1> DEFINE good == {m \in Manifests : Parsed(m)}
             n    == IF Cardinality(good) < MAX_SOURCES THEN Cardinality(good) ELSE MAX_SOURCES
  <1>1. IsFiniteSet(good)
    BY FS_Subset, SourcesAssumption
  <1>2. n \in Nat /\ n <= MAX_SOURCES
    BY <1>1, FS_CardinalityType, SourcesAssumption
  <1>3. sources \in [1..n -> good]
    BY DEF SourcesInit, SourcesNew
  <1> HIDE DEF n
  <1>4. sources \in Seq(Manifests) /\ Len(sources) = n /\ Index = 1..n
    BY <1>2, <1>3 DEF Index
  <1>5. \A i \in Index : Declared(sources[i])
    BY <1>3, <1>4 DEF Declared
  <1>6. context \in [Kind -> {"none", "unknown"} \cup UNION {Values[k] : k \in Kind}]
    BY DEF SourcesInit, Blank
  <1>7. file \in [Index -> File] /\ (\A i \in Index : Dated(file[i])) /\ Dated(fd) /\ Dated(data)
    <2>1. NoFile \in File /\ Dated(NoFile)
      BY NoFileHidden DEF Dated
    <2> QED
      BY <2>1 DEF SourcesInit
  <1>8. StateGood
    <2>1. at \in 0..(Len(sources) + 1) /\ late \in 0..MaxLate
      BY <1>2, <1>4, SourcesAssumption DEF SourcesInit
    <2>2. Len(sources) <= MAX_SOURCES
      BY <1>2, <1>4
    <2>3. /\ linked \in BOOLEAN /\ quiet \in BOOLEAN /\ tmp \in BOOLEAN
          /\ collector \in {"idle", "open", "written"}
      BY DEF SourcesInit
    <2> QED
      BY <1>4, <1>5, <1>6, <1>7, <2>1, <2>2, <2>3 DEF StateGood
  <1> QED
    BY <1>8 DEF SourcesInit, SourcesInv

\* A step that ends the quiet, or happens outside of it, keeps the invariant if
\* it keeps the types and the file that is open.
LEMMA Loud ==
  ASSUME StateGood', ~quiet', fd' # NoFile => at' \in Index' /\ Wanted(at)'
  PROVE  SourcesInv'
  BY DEF SourcesInv

LEMMA BeginInv == SourcesInv /\ RefreshBegin => SourcesInv'
  <1> SUFFICES ASSUME SourcesInv, RefreshBegin PROVE SourcesInv'
    OBVIOUS
  <1>1. Index = 1..Len(sources) /\ Len(sources) \in Nat
    BY IndexFacts DEF SourcesInv
  <1>2. fd = NoFile
    BY <1>1 DEF SourcesInv, RefreshBegin
  <1>3. StateGood'
    <2>1. context' \in [Kind -> {"none", "unknown"} \cup UNION {Values[k] : k \in Kind}]
      BY DEF RefreshBegin, Blank
    <2> QED
      BY <1>1, <2>1, SourcesAssumption
         DEF SourcesInv, StateGood, RefreshBegin, collectorVars, Index
  <1>4. \A k \in Kind : SoFar(k)'
    BY <1>1 DEF RefreshBegin, SoFar, Blank, Index
  <1> QED
    BY <1>2, <1>3, <1>4 DEF SourcesInv, RefreshBegin

\* The source i says the same as before.
LEMMA SameVisible ==
  ASSUME UNCHANGED <<sources, users, late, file>>
  PROVE  /\ \A i, k : Visibly(i, k)' <=> Visibly(i, k)
         /\ \A i : Shown(sources[i], file[i])' = Shown(sources[i], file[i])
  BY DEF Visibly, Shown

LEMMA OpenInv == SourcesInv /\ RefreshOpen => SourcesInv'
  <1> SUFFICES ASSUME SourcesInv, RefreshOpen PROVE SourcesInv'
    OBVIOUS
  <1>1. Index = 1..Len(sources) /\ Len(sources) \in Nat /\ at \in Index /\ fd = NoFile
        /\ Index' = Index
    BY IndexFacts DEF SourcesInv, RefreshOpen, Index
  <1>2. /\ UNCHANGED <<sources, users, late, context, file, quiet>>
    BY DEF RefreshOpen
  <1>3. CASE Wanted(at) /\ file[at] # NoFile
    <2>1. fd' = file[at] /\ linked' = TRUE /\ at' = at
      BY <1>3 DEF RefreshOpen
    <2>2. StateGood'
      BY <1>1, <1>2, <2>1 DEF SourcesInv, StateGood, RefreshOpen, collectorVars
    <2>3. Wanted(at)'
      BY <1>2, <1>3, <2>1 DEF Wanted
    <2>4. quiet => \A k \in Kind : SoFar(k)'
      BY <1>1, <1>2, <2>1, SameVisible DEF SourcesInv, SoFar
    <2> QED
      BY <1>1, <1>2, <2>1, <2>2, <2>3, <2>4 DEF SourcesInv
  <1>4. CASE ~(Wanted(at) /\ file[at] # NoFile)
    <2>1. fd' = fd /\ linked' = linked /\ at' = at + 1
      BY <1>4 DEF RefreshOpen
    <2>2. StateGood'
      BY <1>1, <1>2, <2>1 DEF SourcesInv, StateGood, RefreshOpen, collectorVars
    <2>3. ASSUME quiet, NEW k \in Kind PROVE SoFar(k)'
      <3>1. SoFar(k)
        BY <2>3 DEF SourcesInv
      <3>2. context[k] = "none" => ~Visibly(at, k)
        <4>1. Declared(sources[at])
          BY <1>1 DEF SourcesInv, StateGood
        <4> QED
          BY <1>4, <4>1, NoFileHidden DEF Visibly, Wanted
      <3>3. \A i \in Index : i < at + 1 => i < at \/ i = at
        BY <1>1
      <3>4. \A i \in Index : i < at => i < at + 1
        BY <1>1
      <3> QED
        BY <1>1, <1>2, <2>1, <3>1, <3>2, <3>3, <3>4, SameVisible DEF SoFar
    <2> QED
      BY <1>1, <1>2, <2>1, <2>2, <2>3 DEF SourcesInv
  <1> QED
    BY <1>3, <1>4

LEMMA ReadInv == SourcesInv /\ RefreshRead => SourcesInv'
  <1> SUFFICES ASSUME SourcesInv, RefreshRead PROVE SourcesInv'
    OBVIOUS
  <1> DEFINE shown == Shown(sources[at], fd)
             kind  == sources[at].kind
  <1>1. /\ Index = 1..Len(sources) /\ Len(sources) \in Nat /\ at \in Index /\ Wanted(at)
        /\ Index' = Index /\ Declared(sources[at]) /\ Dated(fd)
    BY IndexFacts DEF SourcesInv, StateGood, RefreshRead, Index
  <1>2. /\ UNCHANGED <<sources, users, late, file, quiet>>
        /\ fd' = NoFile /\ linked' = FALSE /\ at' = at + 1
        /\ context' = IF linked /\ shown # "none" THEN [context EXCEPT ![kind] = shown]
                      ELSE context
    BY DEF RefreshRead
  <1>3. kind \in Kind /\ shown \in {"none", "unknown"} \cup UNION {Values[k] : k \in Kind}
    <2>1. kind \in Kind
      BY <1>1 DEF Declared, Parsed
    <2>2. fd.value \in Values[kind] => fd.value \in UNION {Values[k] : k \in Kind}
      BY <2>1
    <2>3. kind = "dataplicity" \/ kind = "system" \/ kind = "events"
      BY <2>1, KindValues
    <2>4. \/ shown = "none" \/ shown = "unknown"
          \/ fd.value \in Values[kind] /\ shown = fd.value
      BY <2>3 DEF Shown
    <2> HIDE DEF shown, kind
    <2> QED
      BY <2>1, <2>2, <2>4
  <1> HIDE DEF shown, kind
  <1>4. StateGood'
    <2>1. context' \in [Kind -> {"none", "unknown"} \cup UNION {Values[k] : k \in Kind}]
      BY <1>2, <1>3 DEF SourcesInv, StateGood
    <2>2. at' \in 0..(Len(sources)' + 1) /\ late' \in 0..MaxLate
      BY <1>1, <1>2 DEF SourcesInv, StateGood
    <2>3. UNCHANGED <<sources, file, late, quiet, collector, data, tmp>> /\ Dated(fd')
          /\ linked' = FALSE
      BY <1>2, NoFileHidden DEF RefreshRead, collectorVars
    <2> QED
      BY <1>1, <2>1, <2>2, <2>3 DEF SourcesInv, StateGood
  <1>5. ASSUME quiet, NEW k \in Kind PROVE SoFar(k)'
    <2>1. SoFar(k) /\ linked /\ fd = file[at]
      BY <1>5 DEF SourcesInv, RefreshRead
    <2>2. /\ \A i \in Index : i < at + 1 => i < at \/ i = at
          /\ \A i \in Index : i < at => i < at + 1
          /\ at < at + 1
      BY <1>1
    <2>3. context[kind] = "none" /\ sources[at].user \in users
      BY <1>1 DEF Wanted, kind
    <2>4. context \in [Kind -> {"none", "unknown"} \cup UNION {Values[x] : x \in Kind}]
      BY DEF SourcesInv, StateGood
    <2>5. \A i \in Index : i < at /\ Visibly(i, kind) => context[kind] # "none"
      <3>1. quiet => SoFar(kind)
        BY <1>3 DEF SourcesInv
      <3> QED
        BY <1>5, <3>1 DEF SoFar, Visibly
    <2>6. Visibly(at, k) <=> k = kind /\ shown # "none"
      BY <2>1, <2>3 DEF Visibly, shown, kind
    <2>7. CASE k = kind /\ shown # "none"
      <3>1. context'[k] = shown
        BY <1>2, <1>3, <2>1, <2>4, <2>7
      <3>2. shown = Shown(sources[at], file[at])
        BY <2>1 DEF shown
      <3>3. \A j \in Index : j < at => ~Visibly(j, k)
        BY <2>3, <2>5, <2>7
      <3> QED
        BY <1>1, <1>2, <2>2, <2>6, <2>7, <3>1, <3>2, <3>3, SameVisible DEF SoFar
    <2>8. CASE ~(k = kind /\ shown # "none")
      <3>1. context'[k] = context[k]
        BY <1>2, <1>3, <2>4, <2>8
      <3> QED
        BY <1>1, <1>2, <2>1, <2>2, <2>6, <2>8, <3>1, SameVisible DEF SoFar
    <2> QED
      BY <2>7, <2>8
  <1>6. quiet => at' # 0
    BY <1>1, <1>2
  <1> QED
    BY <1>2, <1>4, <1>5, <1>6 DEF SourcesInv
LEMMA EndInv == SourcesInv /\ RefreshEnd => SourcesInv'
  <1> SUFFICES ASSUME SourcesInv, RefreshEnd PROVE SourcesInv'
    OBVIOUS
  <1>1. Index = 1..Len(sources) /\ Len(sources) \in Nat
    BY IndexFacts DEF SourcesInv
  <1>2. fd = NoFile
    BY <1>1 DEF SourcesInv, RefreshEnd
  <1>3. at' = 0 /\ late' = 0 /\ quiet' = FALSE
        /\ UNCHANGED <<sources, users, fd, context, file, linked, collector, data, tmp>>
    BY DEF RefreshEnd, collectorVars
  <1>4. at' \in 0..(Len(sources)' + 1) /\ late' \in 0..MaxLate
    BY <1>1, <1>3, SourcesAssumption
  <1>5. StateGood'
    BY <1>1, <1>3, <1>4 DEF SourcesInv, StateGood, Index
  <1> QED
    BY <1>2, <1>3, <1>5, Loud

\* A file is replaced, and nothing of the refresh changes.
LEMMA ReplaceInv ==
  ASSUME SourcesInv, NEW i \in Index, NEW f, Dated(f), Replace(i, f),
         UNCHANGED <<sources, users, late, at, fd, context>>,
         tmp' \in BOOLEAN, collector' \in {"idle", "open", "written"}, Dated(data')
  PROVE  SourcesInv'
  <1>1. quiet' = FALSE /\ linked' \in BOOLEAN /\ Index' = Index /\ file' \in [Index -> File]
        /\ \A j \in Index : Dated(file'[j])
    <2>1. f \in File
      BY DEF Dated
    <2> QED
      BY <2>1 DEF SourcesInv, StateGood, Replace, Index
  <1>2. StateGood'
    BY <1>1 DEF SourcesInv, StateGood, Index
  <1>3. fd' # NoFile => at' \in Index' /\ Wanted(at)'
    BY <1>1 DEF SourcesInv, Wanted
  <1> QED
    BY <1>1, <1>2, <1>3, Loud

LEMMA ValueDated ==
  ASSUME NEW k \in Kind, NEW v \in Values[k] PROVE Dated([value |-> v, age |-> 0])
  <1>1. v \in Content /\ v \notin {"none", "bad"}
    BY KindValues DEF Content
  <1> QED
    BY <1>1, SourcesAssumption DEF Dated, File

LEMMA PublishInv ==
  ASSUME SourcesInv, NEW i \in Index,
         NEW f \in {NoFile} \cup {[value |-> v, age |-> 0] : v \in Values[sources[i].kind]}
                   \cup (IF Faults THEN {BadFile} ELSE {}),
         Publish(i, f)
  PROVE  SourcesInv'
  <1>1. sources[i].kind \in Kind
    BY DEF SourcesInv, StateGood, Declared, Parsed
  <1>2. Dated(f)
    BY <1>1, NoFileHidden, ValueDated
  <1>3. /\ Replace(i, f) /\ UNCHANGED <<sources, users, late, at, fd, context>>
        /\ UNCHANGED <<collector, data, tmp>>
    BY DEF Publish, readerVars, collectorVars
  <1>4. tmp' \in BOOLEAN /\ collector' \in {"idle", "open", "written"} /\ Dated(data')
    BY <1>3 DEF SourcesInv, StateGood
  <1> QED
    BY <1>2, <1>3, <1>4, ReplaceInv

LEMMA UserInv == ASSUME SourcesInv, NEW u, UserAppears(u) PROVE SourcesInv'
  <1>1. /\ quiet' = FALSE /\ users \subseteq users'
        /\ UNCHANGED <<sources, late, at, fd, context, file, linked, collector, data, tmp>>
    BY DEF UserAppears, readerVars, collectorVars
  <1>2. StateGood' /\ Index' = Index
    BY <1>1 DEF SourcesInv, StateGood, Index
  <1>3. fd' # NoFile => at' \in Index' /\ Wanted(at)'
    BY <1>1, <1>2 DEF SourcesInv, Wanted
  <1> QED
    BY <1>1, <1>2, <1>3, Loud

\* The collector at work on .status.tmp: the readers see nothing of it.
LEMMA UnseenInv ==
  ASSUME SourcesInv, UNCHANGED <<sources, users, late, at, fd, context, file, linked, quiet>>,
         tmp' \in BOOLEAN, collector' \in {"idle", "open", "written"}, Dated(data')
  PROVE  SourcesInv'
  <1>1. StateGood' /\ Index' = Index
    BY DEF SourcesInv, StateGood, Index
  <1>2. (fd' # NoFile => at' \in Index' /\ Wanted(at)')
        /\ (quiet' /\ fd' # NoFile => linked' /\ fd' = file'[at'])
    BY <1>1 DEF SourcesInv, Wanted
  <1>3. quiet' => \A k \in Kind : SoFar(k)'
    BY <1>1, SameVisible DEF SourcesInv, SoFar
  <1> QED
    BY <1>1, <1>2, <1>3 DEF SourcesInv

LEMMA TickInv == SourcesInv /\ Tick => SourcesInv'
  <1> SUFFICES ASSUME SourcesInv, Tick PROVE SourcesInv'
    OBVIOUS
  <1>1. /\ Index = 1..Len(sources) /\ Len(sources) \in Nat /\ Index' = Index
        /\ UNCHANGED <<sources, users, at, context, linked, quiet, collector, tmp>>
    BY IndexFacts DEF SourcesInv, Tick, Index
  <1>2. /\ file' = [i \in Index |-> Older(file[i])] /\ fd' = Older(fd) /\ data' = Older(data)
        /\ late' = IF at = 0 THEN 0 ELSE late + 1
        /\ at # 0 => late < MaxLate
    BY DEF Tick
  <1>3. late \in 0..MaxLate /\ MaxLate \in Nat
    BY SourcesAssumption DEF SourcesInv, StateGood
  <1>4. \A i \in Index : Dated(file[i]) /\ Declared(sources[i])
    BY DEF SourcesInv, StateGood
  <1>5. Dated(fd) /\ Dated(data)
    BY DEF SourcesInv, StateGood
  <1>6. StateGood'
    <2>1. late' \in 0..MaxLate
      BY <1>2, <1>3
    <2>2. file' \in [Index -> File] /\ \A i \in Index : Dated(file'[i])
      <3>1. \A i \in Index : Dated(Older(file[i])) /\ Older(file[i]) \in File
        BY <1>4, OlderFacts DEF Dated
      <3> QED
        BY <1>2, <3>1
    <2>3. Dated(fd') /\ Dated(data')
      BY <1>2, <1>5, OlderFacts
    <2> QED
      BY <1>1, <2>1, <2>2, <2>3 DEF SourcesInv, StateGood
  <1>7. (fd' # NoFile => at' \in Index' /\ Wanted(at)')
        /\ (quiet' /\ fd' # NoFile => linked' /\ fd' = file'[at'])
    <2>1. fd' # NoFile <=> fd # NoFile
      BY <1>2, <1>5, OlderFacts
    <2>2. fd' # NoFile => at' \in Index' /\ Wanted(at)'
      BY <1>1, <2>1 DEF SourcesInv, Wanted
    <2>3. quiet' /\ fd' # NoFile => linked' /\ fd' = file'[at']
      BY <1>1, <1>2, <2>1 DEF SourcesInv
    <2> QED
      BY <2>2, <2>3
  <1>8. ASSUME quiet PROVE \A k \in Kind : SoFar(k)'
    <2>1. at # 0 /\ late < MaxLate /\ late' = late + 1 /\ late \in Nat
      BY <1>2, <1>3, <1>8 DEF SourcesInv
    <2>2. \A i \in Index : Shown(sources[i], file[i])' = Shown(sources[i], file[i])
      <3> SUFFICES ASSUME NEW i \in Index
                   PROVE  Shown(sources[i], file[i])' = Shown(sources[i], file[i])
        OBVIOUS
      <3>1. Shown(sources[i], file[i]) = ShownAt(sources[i], file[i], late)
        BY ShownNow
      <3>2. Shown(sources[i], file[i])' = ShownAt(sources'[i], file'[i], late')
        BY DEF Shown, ShownAt, OldShown
      <3>3. sources'[i] = sources[i] /\ file'[i] = Older(file[i])
        BY <1>1, <1>2
      <3>4. ShownAt(sources[i], Older(file[i]), late + 1) = ShownAt(sources[i], file[i], late)
        BY <1>4, <2>1, AgesTogether
      <3> QED
        BY <2>1, <3>1, <3>2, <3>3, <3>4
    <2>3. \A i \in Index : \A k : Visibly(i, k)' <=> Visibly(i, k)
      BY <1>1, <2>2 DEF Visibly
    <2> QED
      BY <1>1, <1>8, <2>2, <2>3 DEF SourcesInv, SoFar
  <1>9. quiet' => at' # 0
    BY <1>1 DEF SourcesInv
  <1> QED
    BY <1>1, <1>6, <1>7, <1>8, <1>9 DEF SourcesInv

LEMMA SourcesStep == SourcesInv /\ [SourcesNext]_sourcesVars => SourcesInv'
  <1> SUFFICES ASSUME SourcesInv, [SourcesNext]_sourcesVars PROVE SourcesInv'
    OBVIOUS
  <1> USE DEF readerVars, fileVars, collectorVars
  <1>1. tmp \in BOOLEAN /\ collector \in {"idle", "open", "written"} /\ Dated(data)
    BY DEF SourcesInv, StateGood
  <1>2. CASE \E v \in Values.system : CollectorOpen(v)
    <2>1. PICK v \in Values.system : CollectorOpen(v)
      BY <1>2
    <2>2. "system" \in Kind /\ v \in Values["system"]
      BY KindValues
    <2>3. Dated(data') /\ tmp' = TRUE /\ collector' = "open"
      BY <2>1, <2>2, ValueDated DEF CollectorOpen
    <2> QED
      BY <2>1, <2>3, UnseenInv DEF CollectorOpen
  <1>3. CASE CollectorWrite
    BY <1>1, <1>3, UnseenInv DEF CollectorWrite
  <1>4. CASE CollectorRename
    <2>1. PICK i \in Index : Replace(i, data)
      BY <1>4 DEF CollectorRename
    <2>2. collector' = "idle" /\ tmp' = FALSE /\ data' = NoFile
          /\ UNCHANGED <<sources, users, late, at, fd, context>>
      BY <1>4 DEF CollectorRename
    <2> QED
      BY <1>1, <2>1, <2>2, NoFileHidden, ReplaceInv
  <1>5. CASE CollectorStop
    <2>1. collector' = "idle" /\ tmp' \in BOOLEAN /\ data' = NoFile
          /\ UNCHANGED <<sources, users, late, at, fd, context, file, linked, quiet>>
      BY <1>5 DEF CollectorStop
    <2> QED
      BY <2>1, NoFileHidden, UnseenInv
  <1>6. CASE UNCHANGED sourcesVars
    BY <1>1, <1>6, UnseenInv DEF sourcesVars
  <1>7. CASE \E i \in Index : UserAppears(sources[i].user)
    BY <1>7, UserInv
  <1>8. CASE \E i \in Index :
               \E f \in {NoFile} \cup {[value |-> v, age |-> 0] : v \in Values[sources[i].kind]}
                        \cup (IF Faults THEN {BadFile} ELSE {}) : Publish(i, f)
    BY <1>8, PublishInv
  <1> QED
    BY <1>2, <1>3, <1>4, <1>5, <1>6, <1>7, <1>8, BeginInv, OpenInv, ReadInv, EndInv, TickInv
       DEF SourcesNext

\* While nobody disturbed the refresh, the context holds of each kind the first
\* source that shows something among those it has been through, and the file that
\* is open is the one at its path (faceplate_sources_refresh).
THEOREM SourcesInvCorrect == SourcesSpec => []SourcesInv
  <1>1. SourcesInit => SourcesInv
    BY SourcesInitInv
  <1>2. SourcesInv /\ [SourcesNext]_sourcesVars => SourcesInv'
    BY SourcesStep
  <1> QED
    BY <1>1, <1>2, PTL DEF SourcesSpec

(***************************************************************************)
(* The parts of the invariant are what the runs check.                     *)
(***************************************************************************)
LEMMA SourcesInvTypes == SourcesInv => SourcesTypeOK
  BY DEF SourcesInv, StateGood, SourcesTypeOK, Dated

\* What a refresh is through with is what the sources say.
LEMMA ThroughExpected ==
  ASSUME SourcesInv, at = Len(sources) + 1, NEW k \in Kind, SoFar(k)
  PROVE  context[k] = Expected(k)
  <1>1. Index = 1..Len(sources) /\ Len(sources) \in Nat
    BY IndexFacts DEF SourcesInv
  <1>2. \A i : i \in Visible(k) <=> i \in Index /\ Visibly(i, k)
    BY DEF Visible, Visibly
  <1>3. \A i \in Index : i < at
    BY <1>1
  <1>4. CASE context[k] = "none" /\ \A i \in Index : i < at => ~Visibly(i, k)
    <2>1. Visible(k) = {}
      BY <1>2, <1>3, <1>4
    <2> QED
      BY <1>4, <2>1 DEF Expected
  <1>5. CASE \E i \in Index : /\ i < at /\ Visibly(i, k) /\ context[k] = Shown(sources[i], file[i])
                              /\ \A j \in Index : j < i => ~Visibly(j, k)
    <2>1. PICK i \in Index : /\ Visibly(i, k) /\ context[k] = Shown(sources[i], file[i])
                             /\ \A j \in Index : j < i => ~Visibly(j, k)
      BY <1>5
    <2>2. i \in Visible(k) /\ \A j \in Visible(k) : i <= j
      BY <1>1, <1>2, <2>1
    <2>3. \A j \in Visible(k) : (\A x \in Visible(k) : j <= x) => j = i
      BY <1>1, <1>2, <2>2
    <2>4. Min(Visible(k)) = i
      BY <2>2, <2>3 DEF Min
    <2> QED
      BY <2>1, <2>2, <2>4 DEF Expected
  <1> QED
    BY <1>4, <1>5 DEF SoFar

LEMMA SourcesInvVisible == SourcesInv => FirstVisible
  <1> SUFFICES ASSUME SourcesInv, at = Len(sources) + 1, quiet, NEW k \in Kind
               PROVE  context[k] = Expected(k)
    BY DEF FirstVisible
  <1>1. SoFar(k)
    BY DEF SourcesInv
  <1> QED
    BY <1>1, ThroughExpected

\* The state of the sources, of a refresh and of the collector has its types, for
\* any manifests, users and faults (faceplate_sources_new, main of the collector).
THEOREM SourcesTypeCorrect == SourcesSpec => []SourcesTypeOK
  BY SourcesInvCorrect, SourcesInvTypes, PTL

\* A refresh that nobody disturbed shows, of each kind, the first source that has
\* something to show, for any manifests and whatever happened to the refreshes,
\* the files and the collector before (faceplate_sources_refresh).
THEOREM FirstVisibleCorrect == SourcesSpec => []FirstVisible
  BY SourcesInvCorrect, SourcesInvVisible, PTL
=============================================================================
