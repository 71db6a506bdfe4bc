--------------------------------- MODULE Conf ---------------------------------
(***************************************************************************)
(* Where the options of a seat come from (conf.c, config.c): the command   *)
(* line, kmscon.conf, and the file of the seat.  Each option is read by    *)
(* its own parser, the command line locks what it sets, and afterchecks    *)
(* make options that depend on each other agree.  Any step may fail half   *)
(* way, and main goes on with what was read.                               *)
(*                                                                         *)
(* The program reads its input word by word and line by line; each word is *)
(* chosen when it is read.  Options that nothing depends on are alike.     *)
(***************************************************************************)
EXTENDS Naturals, FiniteSets

CONSTANTS
  Plain,         \* options with a text that no other option depends on
  Colour,        \* the colours among them
  Value,         \* the texts
  MaxRead        \* bound: options in each input

ASSUME ConfAssumption ==
  /\ Plain \cap {"help", "debug", "verbose", "login", "original", "mode"} = {}
  /\ Colour \subseteq Plain
  /\ "unset" \notin Value
  /\ MaxRead \in Nat

\* "original" is use-original-mode.
Switch == {"help", "debug", "verbose", "login", "original"}
Text   == {"mode"} \cup Plain
Option == Switch \cup Text

VARIABLES
  phase,         \* what is being read, or how it ended
  main,          \* the context of the program
  seat,          \* the context of the seat
  asked,         \* what the command line asked for, as far as it was read
  read           \* options read from this input

vars == <<phase, main, seat, asked, read>>

Phase == {"arguments", "main file", "seat file", "running", "failed", "exit"}
\* conf->argv: the command a login runs, NULL, /bin/login, from the command
\* line or from a file.
Argv == {"null", "default", "command", "file"}
Context == [on : SUBSET Switch, text : [Text -> Value \cup {"unset"}],
            locked : SUBSET Option, argv : Argv, exit : BOOLEAN]

TypeOK ==
  /\ phase \in Phase
  /\ main \in Context /\ seat \in Context
  /\ asked \in [opt : Context, args : BOOLEAN, torn : SUBSET Colour]
  /\ read \in 0..MaxRead

-----------------------------------------------------------------------------
(***************************************************************************)
(* The parsers and afterchecks.  They return a context and whether all     *)
(* went well.                                                              *)
(***************************************************************************)
\* conf_ctx_new and conf_ctx_reset: nothing is locked, and every type sets its
\* default.
Fresh ==
  [on |-> {"original"}, text |-> [o \in Text |-> "unset"],
   locked |-> {}, argv |-> "default", exit |-> FALSE]

Fine(c) == [conf |-> c, ok |-> TRUE]
Bad(c)  == [conf |-> c, ok |-> FALSE]

\* conf_parse_bool.
SetTo(S, o, on) == IF on THEN S \cup {o} ELSE S \ {o}
ParseBool(c, o, on) == {Fine([c EXCEPT !.on = SetTo(@, o, on)])}

\* conf_parse_login: the command is dropped.
ParseLogin(c, on) == {Fine([c EXCEPT !.on = SetTo(@, "login", on), !.argv = "null"])}

\* conf_parse_int, conf_parse_uint and conf_parse_string take every text.
ParseString(c, o) == {Fine([c EXCEPT !.text[o] = v]) : v \in Value}

\* conf_parse_grab and conf_parse_gpus may refuse a text, and keep the old value.
ParseGrab(c, o) == ParseString(c, o) \cup {Bad(c)}

\* conf_parse_color has set the components before the one it refuses.
ParseColour(c, o) ==
  ParseString(c, o) \cup {Bad([c EXCEPT !.text[o] = v]) : v \in Value \cup {c.text[o]}}

\* type->parse.
Parse(c, o, on) ==
  IF o = "login" THEN ParseLogin(c, on)
  ELSE IF o \in Switch THEN ParseBool(c, o, on)
  ELSE IF o \in Colour THEN ParseColour(c, o)
  ELSE IF o \in Plain THEN ParseGrab(c, o)
  ELSE ParseString(c, o)

\* file_login: an empty command or none at all is refused.
FileLogin(c, on) ==
  {Bad(c), Fine([c EXCEPT !.on = SetTo(@, "login", on), !.argv = "file"])}

\* aftercheck_help, aftercheck_version and aftercheck_debug.
AfterHelp(c)  == [c EXCEPT !.exit = @ \/ "help" \in c.on]
AfterDebug(c) == [c EXCEPT !.on = IF "debug" \in @ THEN @ \cup {"verbose"} ELSE @]

\* aftercheck_login without a command line.
AfterLogin(c) == [c EXCEPT !.argv = IF @ = "null" THEN "default" ELSE @]

\* The afterchecks in the order of the options.
AfterChecks(c) == AfterLogin(AfterDebug(AfterHelp(c)))

\* aftercheck_login on the command line: all that is left is the command.
AfterLoginArgs(c, rest) ==
  IF "login" \notin c.on THEN Fine(AfterLogin(c))
  ELSE IF rest THEN Fine([c EXCEPT !.argv = "command"])
  ELSE Bad(c)

\* parse_kv_pair on an option of the file: what is locked stays.  A line that is
\* not understood is left out (-EAGAIN).
KeyValue(c, o, on) ==
  IF o \in c.locked THEN {Fine(c)}
  ELSE IF o = "login" THEN FileLogin(c, on)
  ELSE Parse(c, o, on)

\* Mutation: the locks stay behind.
ParseCtxUnlocked(src) ==
  AfterChecks([src EXCEPT !.exit = Fresh.exit, !.locked = {}])

\* Mutation: no afterchecks on the copy.
ParseCtxUnchecked(src) == [src EXCEPT !.exit = Fresh.exit]

\* conf_ctx_parse_ctx into a context that is new: values and locks.  No copy
\* fails unless there is no memory.
ParseCtx(src) ==
  AfterChecks([src EXCEPT !.exit = Fresh.exit])

\* The mode that was asked for wins.
ModeWins(c) == [c EXCEPT !.on = IF c.text["mode"] = "unset" THEN @ ELSE @ \ {"original"}]

-----------------------------------------------------------------------------
(***************************************************************************)
(* kmscon_conf_load_main, kmscon_conf_load_seat and main.                  *)
(***************************************************************************)
\* main after the command line: an error is only logged.
AfterArguments(c) ==
  /\ main' = c
  /\ phase' = IF c.exit THEN "exit" ELSE "main file"
  /\ read' = 0
  /\ UNCHANGED seat

\* conf_ctx_parse_argv: the next option.
Argument(o, on) ==
  /\ phase = "arguments" /\ read < MaxRead
  /\ \E p \in Parse(main, o, on) :
       IF p.ok
       THEN /\ main' = [p.conf EXCEPT !.locked = @ \cup {o}]
            /\ asked' = [asked EXCEPT !.opt = main']
            /\ read' = read + 1
            /\ UNCHANGED <<phase, seat>>
       ELSE /\ AfterArguments(p.conf)
            /\ asked' = [asked EXCEPT !.torn = {o} \cap Colour]

\* An option that is not known, or that lacks its argument.
WrongArgument ==
  /\ phase = "arguments"
  /\ AfterArguments(main)
  /\ UNCHANGED asked

\* There are no more options; "rest" holds if arguments are left.
ArgumentsEnd(rest) ==
  /\ phase = "arguments"
  /\ LET a == AfterLoginArgs(AfterDebug(AfterHelp(main)), rest)
     IN  /\ AfterArguments(a.conf)
         /\ asked' = [asked EXCEPT !.args = a.conf.argv = "command"]

\* kmscon_seat_new begins: the context of the seat is a copy of that of main.
LoadSeat(c) ==
  /\ main' = c
  /\ seat' = ParseCtx(c)
  /\ phase' = "seat file"
  /\ read' = 0
  /\ UNCHANGED asked

\* A line of kmscon.conf.  An error ends the file without any aftercheck; main
\* logs it.
MainLine(o, on) ==
  /\ phase = "main file" /\ read < MaxRead
  /\ \E p \in KeyValue(main, o, on) :
       IF p.ok
       THEN /\ main' = p.conf
            /\ read' = read + 1
            /\ UNCHANGED <<phase, seat, asked>>
       ELSE LoadSeat(p.conf)

\* The end of kmscon.conf.  Help in the file ends the program, but only after
\* kmscon_conf_load_main is through.
MainEnd ==
  /\ phase = "main file"
  /\ LET c == ModeWins(AfterChecks(main))
     IN  IF c.exit
         THEN /\ main' = c /\ phase' = "exit"
              /\ UNCHANGED <<seat, asked, read>>
         ELSE LoadSeat(c)

\* There is no kmscon.conf, or it cannot be read.
MainMissing ==
  /\ phase = "main file" /\ read = 0
  /\ \E readable \in BOOLEAN :
       LoadSeat(IF readable THEN ModeWins(main) ELSE main)

\* A line of the file of the seat.  An error ends the program.
SeatLine(o, on) ==
  /\ phase = "seat file" /\ read < MaxRead
  /\ \E p \in KeyValue(seat, o, on) :
       /\ seat' = p.conf
       /\ read' = read + 1
       /\ phase' = IF p.ok THEN phase ELSE "failed"
  /\ UNCHANGED <<main, asked>>

SeatEnd ==
  /\ phase = "seat file"
  /\ seat' = AfterChecks(seat)
  /\ phase' = "running"
  /\ UNCHANGED <<main, asked, read>>

\* There is none, or it cannot be read, which ends the program.
SeatMissing ==
  /\ phase = "seat file" /\ read = 0
  /\ phase' \in {"running", "failed"}
  /\ UNCHANGED <<main, seat, asked, read>>

Nothing == [opt |-> Fresh, args |-> FALSE, torn |-> {}]

Init ==
  /\ phase = "arguments"
  /\ main = Fresh /\ seat = Fresh /\ asked = Nothing
  /\ read = 0

\* The program is started again.
Restart ==
  /\ phase \in {"running", "failed", "exit"}
  /\ phase' = "arguments"
  /\ main' = Fresh /\ seat' = Fresh /\ asked' = Nothing
  /\ read' = 0

Next ==
  \/ \E o \in Option, on \in BOOLEAN :
       Argument(o, on) \/ MainLine(o, on) \/ SeatLine(o, on)
  \/ \E rest \in BOOLEAN : ArgumentsEnd(rest)
  \/ WrongArgument
  \/ MainEnd \/ MainMissing
  \/ SeatEnd \/ SeatMissing
  \/ Restart

Spec == Init /\ [][Next]_vars

-----------------------------------------------------------------------------
\* What else may overrule the command line: debugging is verbose, a mode is used
\* instead of the original one, and a colour is spoilt when it is given again and
\* refused.
Overruled == {"verbose", "original"} \cup asked.torn

Same(c, d, o) ==
  IF o \in Switch THEN o \in c.on <=> o \in d.on ELSE c.text[o] = d.text[o]

\* What was accepted on the command line holds for the seat, whatever the files
\* say and whichever of them, or the rest of the command line, was refused
\* (conf_ctx_parse_argv, parse_kv_pair, conf_ctx_parse_ctx).
CommandLineWins ==
  phase = "running" =>
    /\ \A o \in asked.opt.locked \ Overruled : Same(seat, asked.opt, o)
    /\ asked.args => seat.argv = "command"

\* A seat that runs has a login to start, is verbose if it is debugged, and none
\* of the afterchecks that were left out because of an error is missing
\* (conf_ctx_parse_ctx, parse_buffer).
SeatComplete ==
  phase = "running" =>
    /\ seat.argv # "null"
    /\ "debug" \in seat.on => "verbose" \in seat.on

\* The program does not start if help was asked for on the command line.  It does
\* when a later word is refused and kmscon.conf is missing or refused, too.
HelpExits == phase = "running" => "help" \notin main.on \cap main.locked
=============================================================================
