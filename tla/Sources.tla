------------------------------- MODULE Sources -------------------------------
(***************************************************************************)
(* The status sources of the console (faceplate_sources.c, with the readers *)
(* faceplate_status.c and faceplate_events.c) and the collector that writes *)
(* the snapshot of the system (faceplate_collector.c).                     *)
(*                                                                         *)
(* A terminal refreshes its context now and then: it takes the time once,  *)
(* and opens and reads the files of the sources one after the other.  The  *)
(* publishers replace their files at any moment meanwhile, by rename, and  *)
(* the collector may crash at any point.  Time is counted in ages: the age *)
(* of a snapshot is the time since its updated_boottime_ms.                *)
(*                                                                         *)
(* A file that the reader refuses (owner, mode, type, size, syntax) is     *)
(* BadFile.                                                                *)
(***************************************************************************)
EXTENDS Integers, Sequences, FiniteSets, FiniteSetsExt

CONSTANTS
  Manifests,     \* the declarations in sources.d: records [kind, user, stale, sound]
  MAX_SOURCES,
  EarlyUsers,    \* users that are known from the start
  MaxLate,       \* bound: how long a refresh takes
  MaxAge,        \* bound: all ages from here on are stale
  Faults         \* publishers publish bad files, the collector fails or crashes

Values == [dataplicity |-> {"connected"},
           system      |-> {"host"},
           events      |-> {"locked", "unlocked"}]
Kind == DOMAIN Values
NoFile  == [value |-> "none", age |-> 0]
BadFile == [value |-> "bad", age |-> 0]

ASSUME SourcesAssumption ==
  /\ IsFiniteSet(Manifests)
  /\ \A m \in Manifests : m.stale \in Nat \ {0} /\ m.sound \in BOOLEAN
  /\ MAX_SOURCES \in Nat /\ MaxLate \in Nat /\ Faults \in BOOLEAN
  /\ MaxAge \in Nat /\ \A m \in Manifests : m.stale + MaxLate < MaxAge

VARIABLES
  sources,       \* faceplate_sources.items
  users,         \* the users that getpwnam finds
  file,          \* the file at the path of each source
  at,            \* the source that is looked at, 0 outside of a refresh
  fd,            \* the file that is open, NoFile if none
  linked,        \* the open file still has its name
  late,          \* the time since the refresh took its time
  context,       \* kmscon_terminal.status_context
  collector,     \* where the collector is: "idle", "open" or "written"
  data,          \* what it writes
  tmp,           \* .status.tmp exists
  quiet          \* history: no file changed and no user came since the refresh began

readerVars    == <<at, fd, context>>
fileVars      == <<file, linked, quiet>>
collectorVars == <<collector, data, tmp>>
sourcesVars == <<sources, users, late, readerVars, fileVars, collectorVars>>

Blank == [k \in Kind |-> "none"]
Index == DOMAIN sources

Content == {"none", "bad"} \cup UNION {Values[k] : k \in Kind}
File == [value : Content, age : 0..MaxAge]

SourcesTypeOK ==
  /\ sources \in Seq(Manifests) /\ Len(sources) <= MAX_SOURCES
  /\ file \in [Index -> File] /\ fd \in File /\ data \in File
  /\ at \in 0..(Len(sources) + 1)
  /\ late \in 0..MaxLate
  /\ context \in [Kind -> {"none", "unknown"} \cup UNION {Values[k] : k \in Kind}]
  /\ linked \in BOOLEAN /\ quiet \in BOOLEAN /\ tmp \in BOOLEAN
  /\ collector \in {"idle", "open", "written"}

-----------------------------------------------------------------------------
\* parse_manifest: a declaration that is written as it should be, of a kind
\* that is known.
Parsed(m) == m.sound /\ m.kind \in Kind

\* faceplate_sources_new: the declarations in the order of the directory.
SourcesNew ==
  LET good == {m \in Manifests : Parsed(m)}
      n    == IF Cardinality(good) < MAX_SOURCES THEN Cardinality(good) ELSE MAX_SOURCES
  IN  {s \in [1..n -> good] : \A i, j \in 1..n : s[i] = s[j] => i = j}

\* Mutation: events that are stale are hidden.
ShownFresh(s, f) ==
  IF f.value \notin Values[s.kind] \/ f.age < late \/ f.age - late > s.stale THEN "none" ELSE f.value

\* What is shown of a file, "none" if it is hidden: one that was written after
\* the refresh took its time counts as one from the future.  A stale connection
\* is unknown, a stale system is hidden, stale events are shown as they are.
Shown(s, f) ==
  IF f.value \notin Values[s.kind] \/ f.age < late THEN "none"
  ELSE IF f.age - late <= s.stale THEN f.value
  ELSE CASE s.kind = "dataplicity" -> "unknown"
         [] s.kind = "system"      -> "none"
         [] s.kind = "events"      -> f.value

RefreshBegin ==
  /\ at = 0
  /\ at' = 1 /\ late' = 0 /\ context' = Blank /\ quiet' = TRUE
  /\ UNCHANGED <<sources, users, fd, file, linked, collectorVars>>

\* Mutation: the source that is read last decides.
WantedLast(i) == sources[i].user \in users

\* resolve_source_user, and a source of a kind that is there already is not read.
Wanted(i) == sources[i].user \in users /\ context[sources[i].kind] = "none"

\* refresh_dataplicity, refresh_system or refresh_events, up to the open.
RefreshOpen ==
  /\ at \in Index /\ fd = NoFile
  /\ IF Wanted(at) /\ file[at] # NoFile
     THEN fd' = file[at] /\ linked' = TRUE /\ UNCHANGED at
     ELSE at' = at + 1 /\ UNCHANGED <<fd, linked>>
  /\ UNCHANGED <<sources, users, late, context, file, quiet, collectorVars>>

\* fstat and read: a file that was replaced since has no link left and is
\* refused.
RefreshRead ==
  /\ fd # NoFile
  /\ LET shown == Shown(sources[at], fd)
     IN  context' = IF linked /\ shown # "none"
                    THEN [context EXCEPT ![sources[at].kind] = shown] ELSE context
  /\ fd' = NoFile /\ linked' = FALSE /\ at' = at + 1
  /\ UNCHANGED <<sources, users, late, file, quiet, collectorVars>>

\* status_event uses the context when faceplate_sources_refresh is through.
RefreshEnd ==
  /\ at = Len(sources) + 1
  /\ at' = 0 /\ late' = 0 /\ quiet' = FALSE
  /\ UNCHANGED <<sources, users, fd, context, file, linked, collectorVars>>

-----------------------------------------------------------------------------
\* The file of the source i is replaced by rename, or removed.
Replace(i, f) ==
  /\ file' = [file EXCEPT ![i] = f]
  /\ linked' = (linked /\ at # i)
  /\ quiet' = FALSE

\* An agent that publishes (external).
Publish(i, f) ==
  /\ sources[i].kind # "system" /\ file[i] # f
  /\ Replace(i, f)
  /\ UNCHANGED <<sources, users, late, readerVars, collectorVars>>

UserAppears(u) ==
  /\ u \notin users
  /\ users' = users \cup {u} /\ quiet' = FALSE
  /\ UNCHANGED <<sources, late, readerVars, file, linked, collectorVars>>

\* Mutation: what a run that crashed left behind is not removed first.
CollectorOpenOnce(v) ==
  /\ collector = "idle" /\ ~tmp
  /\ collector' = "open" /\ tmp' = TRUE
  /\ data' = [value |-> v, age |-> 0]
  /\ UNCHANGED <<sources, users, late, readerVars, fileVars>>

\* main of the collector, and write_snapshot up to the open of .status.tmp,
\* after it removed the one of a run that crashed.
CollectorOpen(v) ==
  /\ collector = "idle"
  /\ collector' = "open" /\ tmp' = TRUE
  /\ data' = [value |-> v, age |-> 0]
  /\ UNCHANGED <<sources, users, late, readerVars, fileVars>>

CollectorWrite ==
  /\ collector = "open"
  /\ collector' = "written"
  /\ UNCHANGED <<sources, users, late, readerVars, fileVars, data, tmp>>

CollectorRename ==
  /\ collector = "written"
  /\ \E i \in Index : sources[i].kind = "system" /\ Replace(i, data)
  /\ collector' = "idle" /\ tmp' = FALSE /\ data' = NoFile
  /\ UNCHANGED <<sources, users, late, readerVars>>

\* A write that fails removes .status.tmp; a crash leaves it.
CollectorStop ==
  /\ Faults /\ collector # "idle"
  /\ collector' = "idle" /\ data' = NoFile
  /\ tmp' \in BOOLEAN
  /\ UNCHANGED <<sources, users, late, readerVars, fileVars>>

Older(f) == IF f \in {NoFile, BadFile} \/ f.age = MaxAge THEN f ELSE [f EXCEPT !.age = @ + 1]

Tick ==
  /\ at # 0 => late < MaxLate
  /\ late' = IF at = 0 THEN 0 ELSE late + 1
  /\ file' = [i \in Index |-> Older(file[i])]
  /\ fd' = Older(fd) /\ data' = Older(data)
  /\ UNCHANGED <<sources, users, at, context, linked, quiet, collector, tmp>>

-----------------------------------------------------------------------------
SourcesInit ==
  /\ sources \in SourcesNew
  /\ users = EarlyUsers
  /\ file = [i \in Index |-> NoFile] /\ fd = NoFile /\ linked = FALSE
  /\ at = 0 /\ late = 0 /\ context = Blank
  /\ collector = "idle" /\ data = NoFile /\ tmp = FALSE
  /\ quiet = FALSE

Refresh == RefreshBegin \/ RefreshOpen \/ RefreshRead \/ RefreshEnd

SourcesNext ==
  \/ RefreshBegin \/ RefreshOpen \/ RefreshRead \/ RefreshEnd
  \/ \E i \in Index :
       \E f \in {NoFile} \cup {[value |-> v, age |-> 0] : v \in Values[sources[i].kind]}
                \cup (IF Faults THEN {BadFile} ELSE {}) : Publish(i, f)
  \/ \E i \in Index : UserAppears(sources[i].user)
  \/ \E v \in Values.system : CollectorOpen(v)
  \/ CollectorWrite \/ CollectorRename \/ CollectorStop
  \/ Tick

SourcesSpec == SourcesInit /\ [][SourcesNext]_sourcesVars

\* The status timer starts a refresh again and again, a refresh ends, and time
\* goes on; users that are declared come into being.
Fairness ==
  /\ WF_sourcesVars(Refresh) /\ SF_sourcesVars(Tick)
  /\ WF_sourcesVars(\E i \in Index : UserAppears(sources[i].user))
  /\ WF_sourcesVars(\E v \in Values.system : CollectorOpen(v))
  /\ WF_sourcesVars(CollectorWrite) /\ WF_sourcesVars(CollectorRename)

SourcesFairSpec == SourcesSpec /\ Fairness

-----------------------------------------------------------------------------
\* The first source of a kind that shows something.
Visible(k) == {i \in Index : sources[i].kind = k /\ sources[i].user \in users
                             /\ Shown(sources[i], file[i]) # "none"}
Expected(k) == IF Visible(k) = {} THEN "none"
               ELSE LET i == Min(Visible(k)) IN Shown(sources[i], file[i])

\* A refresh that nobody disturbed shows, of each kind, the first source that
\* has something to show, whatever refreshes were disturbed before
\* (faceplate_sources_refresh).
FirstVisible ==
  at = Len(sources) + 1 /\ quiet => \A k \in Kind : context[k] = Expected(k)

\* Once the collector stops failing it publishes again and again, whatever its
\* crashes left behind (write_snapshot).
CollectorRecovers ==
  <>[][~CollectorStop]_sourcesVars /\ []<>(\E i \in Index : sources[i].kind = "system")
    => []<><<CollectorRename>>_sourcesVars

\* A lock that its publishers have set and then left alone is the one the console
\* has in the end, however old it gets (refresh_events).
LockFollows ==
  \A v \in Values.events :
    <>[](/\ \E i \in Index : sources[i].kind = "events"
         /\ \A i \in Index : sources[i].kind = "events" => file[i] = [value |-> v, age |-> MaxAge])
      => <>[](at = 0 => context.events = v)

=============================================================================
