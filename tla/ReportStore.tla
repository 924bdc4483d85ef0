---------------------------- MODULE ReportStore ----------------------------
(***************************************************************************)
(* The store of shadow reports (packages/local/src/store.ts) under the     *)
(* processes that share it: analyses a session-end hook leaves running in  *)
(* the background (hook-run.ts, analyze-store.ts), and the commands that   *)
(* read, prune or clear the store.                                         *)
(*                                                                         *)
(* A step is what happens between two awaits; a file is emptied when it is *)
(* opened for writing and whole again only after the write.                *)
(***************************************************************************)
EXTENDS Naturals, FiniteSets

CONSTANTS
  Sessions,
  Analyses,      \* background processes
  Identity,      \* analysis -> the session it analyzes, and the engine version
                 \* and mode it does so with
  CleanId,       \* session -> its id as a file name allows it
  Readers,       \* processes that run a command: stats, prune or clear
  OlderThan,     \* the argument of prune
  MaxClock, MaxLength,    \* bounds
  Missing, Torn  \* no such file; a file that does not parse

ASSUME BoundsAssumption == {OlderThan, MaxClock, MaxLength} \subseteq Nat

\* Analyses and commands are processes of their own.
ASSUME ProcessesAssumption == Analyses \cap Readers = {}

ASSUME IdentityAssumption ==
  \A a \in Analyses :
    /\ Identity[a].session \in Sessions
    /\ Identity[a] = [session |-> Identity[a].session,
                      version |-> Identity[a].version]

\* No two of the sessions have ids that differ only in what a file name does not
\* allow: the agents' ids are UUIDs.
ASSUME CleanIdAssumption ==
  \A s, t \in Sessions : CleanId[s] = CleanId[t] => s = t

VARIABLES
  clock,
  began,     \* session -> the time of its first message
  length,    \* session -> how much of it there is
  pc,        \* analysis or reader -> where it stands
  report,    \* analysis -> the report it stores
  file,      \* file name -> its content
  mtime,     \* file name -> when it was last written
  listed,    \* reader -> file names still to be looked at
  now,       \* reader -> when it started
  loaded,    \* reader -> reports read so far
  skipped,   \* reader -> number of files it could not read
  touched    \* history: reader -> files written or removed since it listed them

vars == <<clock, began, length, pc, report, file, mtime, listed, now, loaded,
          skipped, touched>>
worldVars  == <<clock, began, length>>
readerVars == <<listed, now, loaded, skipped>>

\* Mutant: the engine version is no part of the name.
FileNameOfSession(identity) == <<CleanId[identity.session]>>

\* reportFileName, in the directory of the agent: the session's id as far as a
\* file name allows, and the engine version and mode.
FileName(identity) == <<CleanId[identity.session], identity.version>>
Files == {FileName(Identity[a]) : a \in Analyses}

\* The reports there can be.
Reports == [identity : {Identity[a] : a \in Analyses}, length : 1 .. MaxLength,
            timestamp : 0 .. MaxClock]

ASSUME ContentAssumption == Missing # Torn /\ {Missing, Torn} \cap Reports = {}

IsReport(content) == content \notin {Missing, Torn}
Touch(f) == touched' = [r \in Readers |-> touched[r] \cup {f}]

Init ==
  /\ clock = 0
  /\ began = [s \in Sessions |-> 0]
  /\ length = [s \in Sessions |-> 0]
  /\ pc = [p \in Analyses \cup Readers |-> "start"]
  /\ report = [a \in Analyses |-> Missing]
  /\ file = [f \in Files |-> Missing]
  /\ mtime = [f \in Files |-> 0]
  /\ listed = [r \in Readers |-> {}]
  /\ now = [r \in Readers |-> 0]
  /\ loaded = [r \in Readers |-> {}]
  /\ skipped = [r \in Readers |-> 0]
  /\ touched = [r \in Readers |-> {}]

Tick == /\ clock < MaxClock
        /\ clock' = clock + 1
        /\ UNCHANGED <<began, length, pc, report, file, mtime, readerVars, touched>>

\* The agent writes to its transcript.  A session may be resumed at any time.
Grow(s) ==
  /\ length[s] < MaxLength
  /\ length' = [length EXCEPT ![s] = @ + 1]
  /\ began' = [began EXCEPT ![s] = IF length[s] = 0 THEN clock ELSE @]
  /\ UNCHANGED <<clock, pc, report, file, mtime, readerVars, touched>>

-----------------------------------------------------------------------------
(* An analysis.                                                            *)

\* Mutant: a report is stamped when it is made.
TimestampOfAnalysis(s) == clock

\* toStoreReport: a report has the time of the transcript's first message.
Timestamp(s) == began[s]

\* The session ends, and the hook starts an analysis of what there is of it; a
\* transcript that is not there fails it.
Analyze(a) ==
  /\ pc[a] = "start"
  /\ LET s == Identity[a].session IN
     IF length[s] = 0
     THEN pc' = [pc EXCEPT ![a] = "failed"] /\ UNCHANGED report
     ELSE /\ report' = [report EXCEPT
               ![a] = [identity |-> Identity[a], length |-> length[s],
                       timestamp |-> Timestamp(s)]]
          /\ pc' = [pc EXCEPT ![a] = "open"]
  /\ UNCHANGED <<worldVars, file, mtime, readerVars, touched>>

\* writeStoreReport empties the file before it writes it.
Target(a) == FileName(Identity[a])
OpenReport(a) ==
  /\ pc[a] = "open"
  /\ file' = [file EXCEPT ![Target(a)] = Torn]
  /\ mtime' = [mtime EXCEPT ![Target(a)] = clock]
  /\ pc' = [pc EXCEPT ![a] = "write"]
  /\ Touch(Target(a))
  /\ UNCHANGED <<worldVars, report, readerVars>>

\* Another analysis has the file open.
Shared(a) == \E b \in Analyses \ {a} : pc[b] = "write" /\ Target(b) = Target(a)

\* The report is written.  Where another analysis has the file open or has
\* written it meanwhile, one text may end up on the rest of the other; where the
\* file was removed meanwhile, or is another one by now, the text is lost.
WriteReport(a) ==
  /\ pc[a] = "write"
  /\ IF file[Target(a)] = Missing
     THEN UNCHANGED <<file, mtime, touched>>
     ELSE /\ file' \in {[file EXCEPT ![Target(a)] = report[a]]} \cup
                       (IF Shared(a) \/ file[Target(a)] # Torn
                        THEN {[file EXCEPT ![Target(a)] = Torn], file} ELSE {})
          /\ mtime' = [mtime EXCEPT ![Target(a)] = clock]
          /\ Touch(Target(a))
  /\ pc' = [pc EXCEPT ![a] = "done"]
  /\ UNCHANGED <<worldVars, report, readerVars>>

\* The process is killed or the write fails.  The hook fails open: nobody hears.
Fail(a) ==
  /\ pc[a] \in {"open", "write"}
  /\ pc' = [pc EXCEPT ![a] = "failed"]
  /\ UNCHANGED <<worldVars, report, file, mtime, readerVars, touched>>

-----------------------------------------------------------------------------
(* The commands.                                                           *)

\* listReportFiles, by one of the commands.
List(r) ==
  /\ pc[r] = "start"
  /\ listed' = [listed EXCEPT ![r] = {f \in Files : file[f] # Missing}]
  /\ now' = [now EXCEPT ![r] = clock]
  /\ touched' = [touched EXCEPT ![r] = {}]
  /\ \E command \in {"load", "weigh", "clear"} :
       pc' = [pc EXCEPT ![r] = command]
  /\ UNCHANGED <<worldVars, report, file, mtime, loaded, skipped>>

\* The file at hand: the first one listed.
Current(r) == CHOOSE f \in listed[r] : TRUE
NextFile(r) ==
  /\ listed' = [listed EXCEPT ![r] = @ \ {Current(r)}]
  /\ UNCHANGED now

\* Mutant: the first file that cannot be read ends the listing.
LoadUntilTorn(r) ==
  /\ pc[r] = "load"
  /\ listed[r] # {}
  /\ LET content == file[Current(r)] IN
     IF IsReport(content)
     THEN NextFile(r) /\ loaded' = [loaded EXCEPT ![r] = @ \cup {content}]
                      /\ UNCHANGED skipped
     ELSE /\ skipped' = [skipped EXCEPT ![r] = @ + 1]
          /\ listed' = [listed EXCEPT ![r] = {}]
          /\ UNCHANGED <<now, loaded>>
  /\ UNCHANGED <<worldVars, pc, report, file, mtime, touched>>

\* loadReports: a file that cannot be read, or is no longer there, is skipped.
Load(r) ==
  /\ pc[r] = "load"
  /\ listed[r] # {}
  /\ LET content == file[Current(r)] IN
     IF IsReport(content)
     THEN loaded' = [loaded EXCEPT ![r] = @ \cup {content}] /\ UNCHANGED skipped
     ELSE skipped' = [skipped EXCEPT ![r] = @ + 1] /\ UNCHANGED loaded
  /\ NextFile(r)
  /\ UNCHANGED <<worldVars, pc, report, file, mtime, touched>>

Expired(r, time) == now[r] >= time + OlderThan

\* pruneReports: the report's own time decides.
Weigh(r) ==
  /\ pc[r] = "weigh"
  /\ listed[r] # {}
  /\ LET content == file[Current(r)] IN
     IF ~IsReport(content)
     THEN pc' = [pc EXCEPT ![r] = "stat"] /\ UNCHANGED <<listed, now>>
     ELSE IF Expired(r, content.timestamp)
     THEN pc' = [pc EXCEPT ![r] = "remove"] /\ UNCHANGED <<listed, now>>
     ELSE NextFile(r) /\ UNCHANGED pc
  /\ UNCHANGED <<worldVars, report, file, mtime, loaded, skipped, touched>>

\* Without a report in it, the file's time does; a file that is gone by now ends
\* the command with an error.
Stat(r) ==
  /\ pc[r] = "stat"
  /\ IF file[Current(r)] = Missing
     THEN pc' = [pc EXCEPT ![r] = "failed"] /\ UNCHANGED <<listed, now>>
     ELSE IF Expired(r, mtime[Current(r)])
     THEN pc' = [pc EXCEPT ![r] = "remove"] /\ UNCHANGED <<listed, now>>
     ELSE pc' = [pc EXCEPT ![r] = "weigh"] /\ NextFile(r)
  /\ UNCHANGED <<worldVars, report, file, mtime, loaded, skipped, touched>>

\* rm with force: that the file may be gone by now is no error.
RemoveCurrent(r) ==
  /\ file' = [file EXCEPT ![Current(r)] = Missing]
  /\ Touch(Current(r))
  /\ NextFile(r)
  /\ UNCHANGED <<worldVars, report, mtime, loaded, skipped>>

Remove(r) ==
  /\ pc[r] = "remove"
  /\ RemoveCurrent(r)
  /\ pc' = [pc EXCEPT ![r] = "weigh"]

\* clearReports
Clear(r) ==
  /\ pc[r] = "clear"
  /\ listed[r] # {}
  /\ RemoveCurrent(r)
  /\ UNCHANGED pc

End(r) ==
  /\ pc[r] \in {"load", "weigh", "clear"}
  /\ listed[r] = {}
  /\ pc' = [pc EXCEPT ![r] = IF pc[r] = "load" THEN "counted" ELSE "done"]
  /\ UNCHANGED <<worldVars, report, file, mtime, readerVars, touched>>

Next ==
  \/ Tick
  \/ \E s \in Sessions : Grow(s)
  \/ \E a \in Analyses : Analyze(a) \/ OpenReport(a) \/ WriteReport(a) \/ Fail(a)
  \/ \E r \in Readers : List(r) \/ Load(r) \/ Weigh(r) \/ Stat(r) \/ Remove(r)
                        \/ Clear(r) \/ End(r)

Spec == Init /\ [][Next]_vars

-----------------------------------------------------------------------------
\* CONFIGURATION.md: a file that cannot be read "is skipped by `ctx stats`".
\* Whatever is written and removed while stats reads the store, it counts every
\* report that was in place all along, and none twice (store.ts:46-62).
StatsTellTheStore ==
  \A r \in Readers : pc[r] = "counted" =>
    /\ \A f \in Files \ touched[r] : IsReport(file[f]) => file[f] \in loaded[r]
    /\ \A x, y \in loaded[r] : x.identity = y.identity => x = y

\* CONFIGURATION.md: a session that ends twice overwrites its own report, and "a
\* newer engine version writes a distinct file": only an analysis of the same
\* session, version and mode puts something else in a report's place
\* (report-schema.ts:25-29, store.ts:8-14).
ReplacedByItsOwn ==
  [][\A f \in Files :
       (IsReport(file[f]) /\ file'[f] \notin {file[f], Missing}) =>
         \E a \in Analyses : /\ Identity[a] = file[f].identity
                             /\ pc[a] # pc'[a]]_vars

\* prune removes no report younger than asked, although a file may be written
\* again, by an analysis of a resumed session, after prune has looked at it: a
\* report keeps the time of its session's first message (store.ts:64-81,
\* snapshot.ts:88).
PruneKeepsYoung ==
  [][\A r \in Readers :
       (Remove(r) /\ IsReport(file[Current(r)])) =>
         Expired(r, file[Current(r)].timestamp)]_vars
=============================================================================
