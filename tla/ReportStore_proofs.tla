------------------------- MODULE ReportStore_proofs -------------------------
(***************************************************************************)
(* Proofs about ReportStore: prune keeps what is younger than asked, only  *)
(* an analysis of the same session and version replaces a report, and      *)
(* stats counts every report that stays in place, once.                    *)
(*                                                                         *)
(* All three rest on what a file's name says of what is in it (Filed) and  *)
(* on a session's first message, which no resumption moves (Dated).        *)
(***************************************************************************)
EXTENDS ReportStore, TLAPS

Processes == Analyses \cup Readers
SessionOf(a) == Identity[a].session
Places == {"start", "open", "write", "done", "failed", "load", "weigh", "clear",
           "stat", "remove", "counted"}

TypeOK ==
  /\ clock \in 0 .. MaxClock
  /\ began \in [Sessions -> 0 .. MaxClock]
  /\ length \in [Sessions -> 0 .. MaxLength]
  /\ pc \in [Processes -> Places]
  /\ report \in [Analyses -> Reports \cup {Missing}]
  /\ file \in [Files -> Reports \cup {Missing, Torn}]
  /\ mtime \in [Files -> 0 .. MaxClock]
  /\ listed \in [Readers -> SUBSET Files]
  /\ now \in [Readers -> 0 .. MaxClock]
  /\ loaded \in [Readers -> SUBSET Reports]
  /\ skipped \in [Readers -> Nat]
  /\ touched \in [Readers -> SUBSET Files]

\* A session began in the past.
Dated == \A s \in Sessions : began[s] <= clock

\* What is so of a session that is there and does not change any more: when it
\* began.
Since(s, time) == length[s] > 0 /\ began[s] = time

\* An analysis that is about to store a report made it from a transcript that
\* was there, and stamped it with its first message.
Made ==
  \A a \in Analyses : pc[a] \in {"open", "write"} =>
    /\ report[a] \in Reports
    /\ report[a].identity = Identity[a]
    /\ Since(SessionOf(a), report[a].timestamp)

\* A file holds a report of the session and version it is named for, or what an
\* analysis of them left of it, and was written after that session began.
Filed ==
  \A a \in Analyses : file[Target(a)] # Missing =>
    /\ length[SessionOf(a)] > 0
    /\ began[SessionOf(a)] <= mtime[Target(a)]
    /\ IsReport(file[Target(a)]) =>
         /\ file[Target(a)].identity = Identity[a]
         /\ file[Target(a)].timestamp = began[SessionOf(a)]

\* What prune is about to remove is old enough whatever is written to the file
\* meanwhile.
Doomed ==
  \A r \in Readers : pc[r] \in {"stat", "remove"} =>
    /\ listed[r] # {}
    /\ pc[r] = "remove" =>
         \A a \in Analyses : Target(a) = Current(r) =>
           length[SessionOf(a)] > 0 /\ Expired(r, began[SessionOf(a)])

\* Where a command that reads the reports stands: the files that nobody touched
\* are still to be read or counted, and what is counted is not to be read again.
Counting ==
  \A r \in Readers :
    /\ pc[r] = "start" => loaded[r] = {}
    /\ pc[r] = "counted" => listed[r] = {}
    /\ pc[r] \in {"load", "counted"} =>
         \A f \in Files \ touched[r] :
           IsReport(file[f]) => f \in listed[r] \/ file[f] \in loaded[r]
    /\ \A x \in loaded[r] : FileName(x.identity) \notin listed[r]
    /\ \A x, y \in loaded[r] : x.identity = y.identity => x = y

Inv == TypeOK /\ Dated /\ Made /\ Filed /\ Doomed /\ Counting

-----------------------------------------------------------------------------
\* A file name tells the session and the version.
LEMMA NamesTell ==
  ASSUME NEW a \in Analyses, NEW b \in Analyses, Target(a) = Target(b)
  PROVE  Identity[a] = Identity[b]
<1>1. CleanId[SessionOf(a)] = CleanId[SessionOf(b)]
  BY DEF Target, FileName, SessionOf
<1>2. Identity[a].version = Identity[b].version
  BY DEF Target, FileName
<1>3. SessionOf(a) = SessionOf(b)
  BY <1>1, IdentityAssumption, CleanIdAssumption DEF SessionOf
<1>. QED BY <1>2, <1>3, IdentityAssumption DEF SessionOf

\* Reports are what is neither missing nor torn.
LEMMA Contents ==
  /\ Missing # Torn
  /\ \A x \in Reports : IsReport(x)
  /\ \A x \in Reports \cup {Missing, Torn} : IsReport(x) => x \in Reports
  /\ ~IsReport(Missing) /\ ~IsReport(Torn)
BY ContentAssumption DEF IsReport

\* The file names of the analyses.
LEMMA TargetsAreFiles ==
  /\ \A a \in Analyses : Target(a) \in Files
  /\ \A f \in Files : \E a \in Analyses : f = Target(a)
  /\ \A x \in Reports : \E a \in Analyses :
       x.identity = Identity[a] /\ FileName(x.identity) = Target(a)
BY DEF Files, Target, Reports

\* The first file of a command that has one left.
LEMMA CurrentIsListed ==
  ASSUME TypeOK, NEW r \in Readers, listed[r] # {}
  PROVE  Current(r) \in listed[r] /\ Current(r) \in Files
BY DEF Current, TypeOK

\* Nothing is there at the start.
LEMMA InitInv == Init => Inv
<1>. SUFFICES ASSUME Init PROVE Inv
  OBVIOUS
<1>0. 0 \in 0 .. MaxClock /\ 0 \in 0 .. MaxLength
  BY BoundsAssumption
<1>1. TypeOK
  BY <1>0 DEF Init, TypeOK, Processes, Places
<1>2. Dated
  BY DEF Init, Dated
<1>3. \A p \in Processes : pc[p] = "start"
  BY DEF Init, Processes
<1>4. Made /\ Doomed
  BY <1>3 DEF Made, Doomed, Processes
<1>5. Filed
  BY TargetsAreFiles DEF Init, Filed
<1>6. Counting
  BY <1>3 DEF Init, Counting, Processes
<1>. QED BY <1>1, <1>2, <1>4, <1>5, <1>6 DEF Inv
-----------------------------------------------------------------------------
\* The kinds of steps there are.
LEMMA Steps ==
  ASSUME Next
  PROVE  \/ Tick
         \/ \E s \in Sessions : Grow(s)
         \/ \E a \in Analyses : Analyze(a)
         \/ \E a \in Analyses : OpenReport(a)
         \/ \E a \in Analyses : WriteReport(a)
         \/ \E a \in Analyses : Fail(a)
         \/ \E r \in Readers : List(r)
         \/ \E r \in Readers : Load(r)
         \/ \E r \in Readers : Weigh(r)
         \/ \E r \in Readers : Stat(r)
         \/ \E r \in Readers : Remove(r)
         \/ \E r \in Readers : Clear(r)
         \/ \E r \in Readers : End(r)
BY DEF Next

\* A step of one analysis, as far as the files go: its own file gets a content
\* a file may have, which all commands under way hear of.
Writes(a) ==
  /\ \E x \in {report[a], Torn, file[Target(a)]} :
       file' = [file EXCEPT ![Target(a)] = x]
  /\ mtime' = [mtime EXCEPT ![Target(a)] = clock]
  /\ touched' = [r \in Readers |-> touched[r] \cup {Target(a)}]

\* Opening the report's file is such a step.
LEMMA OpenWrites ==
  ASSUME NEW a \in Analyses, OpenReport(a)
  PROVE  Writes(a)
BY DEF OpenReport, Writes, Touch

\* So is writing it, unless the file was removed in between.
LEMMA WriteWrites ==
  ASSUME TypeOK, NEW a \in Analyses, WriteReport(a), file[Target(a)] # Missing
  PROVE  Writes(a)
<1>1. file = [file EXCEPT ![Target(a)] = file[Target(a)]]
  BY TargetsAreFiles DEF TypeOK
<1>. QED BY <1>1 DEF WriteReport, Writes, Touch

\* Every variable keeps its type.
LEMMA TypeStep == TypeOK /\ Made /\ Doomed /\ [Next]_vars => TypeOK'
<1>. SUFFICES ASSUME TypeOK, Made, Doomed, [Next]_vars PROVE TypeOK'
  OBVIOUS
<1>0. MaxClock \in Nat /\ MaxLength \in Nat /\ \A a \in Analyses : SessionOf(a) \in Sessions
  BY BoundsAssumption, IdentityAssumption DEF SessionOf
<1>1. ASSUME Next PROVE TypeOK'
  <2>1. CASE Tick
    BY <1>0, <2>1 DEF Tick, TypeOK, readerVars
  <2>2. ASSUME NEW s \in Sessions, Grow(s) PROVE TypeOK'
    <3>1. length' \in [Sessions -> 0 .. MaxLength]
      BY <1>0, <2>2 DEF Grow, TypeOK
    <3>2. began' \in [Sessions -> 0 .. MaxClock]
      BY <2>2 DEF Grow, TypeOK
    <3>. QED BY <2>2, <3>1, <3>2 DEF Grow, TypeOK, readerVars
  <2>3. ASSUME NEW a \in Analyses, Analyze(a) PROVE TypeOK'
    <3>1. pc' \in [Processes -> Places]
      BY <2>3 DEF Analyze, TypeOK, Processes, Places
    <3>2. report' \in [Analyses -> Reports \cup {Missing}]
      <4>1. CASE length[SessionOf(a)] = 0
        BY <2>3, <4>1 DEF Analyze, TypeOK, SessionOf
      <4>2. CASE length[SessionOf(a)] # 0
        <5>1. length[SessionOf(a)] \in 1 .. MaxLength
          BY <1>0, <4>2 DEF TypeOK
        <5>2. began[SessionOf(a)] \in 0 .. MaxClock
          BY <1>0 DEF TypeOK
        <5>3. [identity |-> Identity[a], length |-> length[SessionOf(a)],
               timestamp |-> Timestamp(SessionOf(a))] \in Reports
          BY <5>1, <5>2 DEF Reports, Timestamp
        <5>. QED BY <2>3, <4>2, <5>3 DEF Analyze, TypeOK, SessionOf
      <4>. QED BY <4>1, <4>2
    <3>. QED BY <2>3, <3>1, <3>2 DEF Analyze, TypeOK, worldVars, readerVars
  <2>4. ASSUME NEW a \in Analyses, Writes(a), report[a] \in Reports
        PROVE  /\ file' \in [Files -> Reports \cup {Missing, Torn}]
               /\ mtime' \in [Files -> 0 .. MaxClock]
               /\ touched' \in [Readers -> SUBSET Files]
    BY <2>4, TargetsAreFiles DEF Writes, TypeOK
  <2>5. ASSUME NEW a \in Analyses, OpenReport(a) PROVE TypeOK'
    <3>1. report[a] \in Reports
      BY <2>5 DEF OpenReport, Made
    <3>2. pc' \in [Processes -> Places]
      BY <2>5 DEF OpenReport, TypeOK, Processes, Places
    <3>. QED BY <2>4, <2>5, <3>1, <3>2, OpenWrites
             DEF OpenReport, TypeOK, worldVars, readerVars
  <2>6. ASSUME NEW a \in Analyses, WriteReport(a) PROVE TypeOK'
    <3>1. report[a] \in Reports
      BY <2>6 DEF WriteReport, Made
    <3>2. pc' \in [Processes -> Places]
      BY <2>6 DEF WriteReport, TypeOK, Processes, Places
    <3>3. CASE file[Target(a)] = Missing
      BY <2>6, <3>2, <3>3 DEF WriteReport, TypeOK, worldVars, readerVars
    <3>4. CASE file[Target(a)] # Missing
      BY <2>4, <2>6, <3>1, <3>2, <3>4, WriteWrites
      DEF WriteReport, TypeOK, worldVars, readerVars
    <3>. QED BY <3>3, <3>4
  <2>7. ASSUME NEW a \in Analyses, Fail(a) PROVE TypeOK'
    BY <2>7 DEF Fail, TypeOK, Processes, Places, worldVars, readerVars
  <2>8. ASSUME NEW r \in Readers, List(r) PROVE TypeOK'
    <3>1. pc' \in [Processes -> Places]
      BY <2>8 DEF List, TypeOK, Processes, Places
    <3>. QED BY <2>8, <3>1 DEF List, TypeOK, worldVars
  <2>9. ASSUME NEW r \in Readers, Load(r) PROVE TypeOK'
    <3>1. listed' \in [Readers -> SUBSET Files] /\ now' = now
      BY <2>9 DEF Load, NextFile, TypeOK
    <3>2. file[Current(r)] \in Reports \cup {Missing, Torn}
      BY <2>9, CurrentIsListed DEF Load, TypeOK
    <3>3. loaded' \in [Readers -> SUBSET Reports]
      BY <2>9, <3>2, Contents DEF Load, TypeOK
    <3>4. skipped' \in [Readers -> Nat]
      BY <2>9 DEF Load, TypeOK
    <3>. QED BY <2>9, <3>1, <3>3, <3>4 DEF Load, TypeOK, worldVars
  <2>10. ASSUME NEW r \in Readers, Weigh(r) PROVE TypeOK'
    <3>1. listed' \in [Readers -> SUBSET Files] /\ now' = now
      BY <2>10 DEF Weigh, NextFile, TypeOK
    <3>2. pc' \in [Processes -> Places]
      BY <2>10 DEF Weigh, TypeOK, Processes, Places
    <3>. QED BY <2>10, <3>1, <3>2 DEF Weigh, TypeOK, worldVars
  <2>11. ASSUME NEW r \in Readers, Stat(r) PROVE TypeOK'
    <3>1. listed' \in [Readers -> SUBSET Files] /\ now' = now
      BY <2>11 DEF Stat, NextFile, TypeOK
    <3>2. pc' \in [Processes -> Places]
      BY <2>11 DEF Stat, TypeOK, Processes, Places
    <3>. QED BY <2>11, <3>1, <3>2 DEF Stat, TypeOK, worldVars
  <2>12. ASSUME NEW r \in Readers, RemoveCurrent(r), listed[r] # {},
                pc' \in [Processes -> Places]
         PROVE  TypeOK'
    <3>1. listed' \in [Readers -> SUBSET Files] /\ now' = now
      BY <2>12 DEF RemoveCurrent, NextFile, TypeOK
    <3>2. /\ file' \in [Files -> Reports \cup {Missing, Torn}]
          /\ touched' \in [Readers -> SUBSET Files]
      BY <2>12, CurrentIsListed DEF RemoveCurrent, Touch, TypeOK
    <3>. QED BY <2>12, <3>1, <3>2 DEF RemoveCurrent, TypeOK, worldVars
  <2>13. ASSUME NEW r \in Readers, Remove(r) PROVE TypeOK'
    <3>1. listed[r] # {}
      BY <2>13 DEF Remove, Doomed
    <3>2. pc' \in [Processes -> Places]
      BY <2>13 DEF Remove, TypeOK, Processes, Places
    <3>. QED BY <2>12, <2>13, <3>1, <3>2 DEF Remove
  <2>14. ASSUME NEW r \in Readers, Clear(r) PROVE TypeOK'
    BY <2>12, <2>14 DEF Clear, TypeOK
  <2>15. ASSUME NEW r \in Readers, End(r) PROVE TypeOK'
    <3>1. pc' \in [Processes -> Places]
      BY <2>15 DEF End, TypeOK, Processes, Places
    <3>. QED BY <2>15, <3>1 DEF End, TypeOK, worldVars, readerVars
  <2>. QED BY <1>1, <2>1, <2>2, <2>3, <2>5, <2>6, <2>7, <2>8, <2>9, <2>10, <2>11,
              <2>13, <2>14, <2>15, Steps
<1>2. CASE UNCHANGED vars
  BY <1>2 DEF vars, TypeOK
<1>. QED BY <1>1, <1>2
-----------------------------------------------------------------------------
\* A session that is there stays, and keeps the time it began.
LEMMA SessionsStay ==
  ASSUME TypeOK, [Next]_vars
  PROVE  /\ clock <= clock'
         /\ \A s \in Sessions : length[s] > 0 => length'[s] > 0 /\ began'[s] = began[s]
<1>0. clock \in Nat
  BY BoundsAssumption DEF TypeOK
<1>1. CASE UNCHANGED worldVars
  BY <1>0, <1>1 DEF worldVars
<1>2. CASE Tick
  BY <1>0, <1>2 DEF Tick
<1>3. ASSUME NEW t \in Sessions, Grow(t),
             NEW s \in Sessions, length[s] > 0
      PROVE  length'[s] > 0 /\ began'[s] = began[s]
  <2>1. length[s] \in Nat
    BY BoundsAssumption DEF TypeOK
  <2>2. length'[s] \in {length[s], length[s] + 1}
    BY <1>3 DEF Grow, TypeOK
  <2>3. began'[s] = began[s]
    BY <1>3, <2>1 DEF Grow, TypeOK
  <2>. QED BY <1>3, <2>1, <2>2, <2>3
<1>4. ASSUME NEW t \in Sessions, Grow(t) PROVE clock' = clock
  BY <1>4 DEF Grow
<1>5. Next => Tick \/ (\E s \in Sessions : Grow(s)) \/ UNCHANGED worldVars
  BY Steps DEF Analyze, OpenReport, WriteReport, Fail, List, Load, Weigh, Stat, Remove,
               Clear, RemoveCurrent, End
<1>6. UNCHANGED vars => UNCHANGED worldVars
  BY DEF vars, worldVars
<1>. QED BY <1>0, <1>1, <1>2, <1>3, <1>4, <1>5, <1>6

\* A session began in the past.
LEMMA DatedStep ==
  ASSUME TypeOK, TypeOK', Dated, [Next]_vars
  PROVE  Dated'
<1>1. clock \in Nat /\ clock' \in Nat /\ clock <= clock'
  BY BoundsAssumption, SessionsStay DEF TypeOK
<1>2. \A s \in Sessions : began[s] \in Nat /\ began[s] <= clock
  BY BoundsAssumption DEF TypeOK, Dated
<1>3. ASSUME NEW t \in Sessions, Grow(t), NEW s \in Sessions
      PROVE  began'[s] \in {began[s], clock}
  BY <1>3 DEF Grow, TypeOK
<1>4. Next => (\E s \in Sessions : Grow(s)) \/ UNCHANGED began
  BY Steps DEF Tick, Analyze, OpenReport, WriteReport, Fail, List, Load, Weigh, Stat, Remove,
               Clear, RemoveCurrent, End, worldVars
<1>5. \A s \in Sessions : began'[s] \in {began[s], clock}
  BY <1>3, <1>4 DEF vars
<1>. QED BY <1>1, <1>2, <1>5 DEF Dated

\* What happens to a file: nothing, or it is removed, or an analysis that is
\* storing its report writes to it.  Every command under way hears of it.
Stored(a, f) ==
  /\ f = Target(a)
  /\ pc[a] \in {"open", "write"} /\ pc'[a] # pc[a]
  /\ file'[f] \in {report[a], Torn, file[f]}
  /\ file[f] = Missing => file'[f] # file[f]
  /\ mtime'[f] = clock
FileKept(f) == file'[f] = file[f] /\ mtime'[f] = mtime[f]
Heard(f) == \A r \in Readers : f \in touched'[r]

\* What a step makes of one file.
LEMMA FileStep ==
  ASSUME TypeOK, Made, Doomed, [Next]_vars, NEW f \in Files
  PROVE  \/ FileKept(f)
         \/ file'[f] = Missing /\ mtime'[f] = mtime[f] /\ Heard(f)
         \/ (\E a \in Analyses : Stored(a, f)) /\ Heard(f)
<1>. DEFINE Goal == \/ FileKept(f)
                    \/ file'[f] = Missing /\ mtime'[f] = mtime[f] /\ Heard(f)
                    \/ (\E a \in Analyses : Stored(a, f)) /\ Heard(f)
<1>1. CASE UNCHANGED <<file, mtime>>
  BY <1>1 DEF FileKept
<1>2. ASSUME NEW a \in Analyses, Writes(a), pc[a] \in {"open", "write"}, pc'[a] # pc[a],
             file[Target(a)] = Missing => file'[Target(a)] # Missing
      PROVE  Goal
  <2>1. CASE f = Target(a)
    <3>1. Stored(a, f)
      BY <1>2, <2>1 DEF Writes, Stored, TypeOK
    <3>2. Heard(f)
      BY <1>2, <2>1 DEF Writes, Heard
    <3>. QED BY <3>1, <3>2
  <2>2. CASE f # Target(a)
    BY <1>2, <2>2 DEF Writes, FileKept, TypeOK
  <2>. QED BY <2>1, <2>2
<1>3. ASSUME NEW a \in Analyses, OpenReport(a) PROVE Goal
  <2>1. pc[a] = "open" /\ pc'[a] = "write"
    BY <1>3 DEF OpenReport, TypeOK, Processes
  <2>2. file'[Target(a)] = Torn
    BY <1>3, TargetsAreFiles DEF OpenReport, TypeOK
  <2>. QED BY <1>2, <1>3, <2>1, <2>2, OpenWrites, Contents
<1>4. ASSUME NEW a \in Analyses, WriteReport(a) PROVE Goal
  <2>1. pc[a] = "write" /\ pc'[a] = "done"
    BY <1>4 DEF WriteReport, TypeOK, Processes
  <2>2. CASE file[Target(a)] = Missing
    BY <1>1, <1>4, <2>2 DEF WriteReport
  <2>3. CASE file[Target(a)] # Missing
    BY <1>2, <1>4, <2>1, <2>3, WriteWrites
  <2>. QED BY <2>2, <2>3
<1>5. ASSUME NEW r \in Readers, RemoveCurrent(r), listed[r] # {} PROVE Goal
  <2>1. file' = [file EXCEPT ![Current(r)] = Missing] /\ mtime' = mtime
    BY <1>5 DEF RemoveCurrent
  <2>2. CASE f = Current(r)
    BY <1>5, <2>1, <2>2 DEF RemoveCurrent, Touch, Heard, TypeOK
  <2>3. CASE f # Current(r)
    BY <2>1, <2>3 DEF FileKept, TypeOK
  <2>. QED BY <2>2, <2>3
<1>6. ASSUME NEW r \in Readers, Remove(r) PROVE Goal
  BY <1>5, <1>6 DEF Remove, Doomed
<1>7. ASSUME NEW r \in Readers, Clear(r) PROVE Goal
  BY <1>5, <1>7 DEF Clear
<1>8. Next => \/ UNCHANGED <<file, mtime>>
              \/ \E a \in Analyses : OpenReport(a)
              \/ \E a \in Analyses : WriteReport(a)
              \/ \E r \in Readers : Remove(r)
              \/ \E r \in Readers : Clear(r)
  BY Steps DEF Tick, Grow, Analyze, Fail, List, Load, Weigh, Stat, End
<1>9. UNCHANGED vars => UNCHANGED <<file, mtime>>
  BY DEF vars
<1>. QED BY <1>1, <1>3, <1>4, <1>6, <1>7, <1>8, <1>9

\* A file holds what its name says.
LEMMA FiledStep ==
  ASSUME TypeOK, TypeOK', Dated, Made, Filed, Doomed, [Next]_vars
  PROVE  Filed'
<1>. SUFFICES ASSUME NEW a \in Analyses, file'[Target(a)] # Missing
              PROVE  /\ length'[SessionOf(a)] > 0
                     /\ began'[SessionOf(a)] <= mtime'[Target(a)]
                     /\ IsReport(file'[Target(a)]) =>
                          /\ file'[Target(a)].identity = Identity[a]
                          /\ file'[Target(a)].timestamp = began'[SessionOf(a)]
  BY DEF Filed
<1>1. SessionOf(a) \in Sessions /\ Target(a) \in Files
  BY IdentityAssumption, TargetsAreFiles DEF SessionOf
<1>2. CASE FileKept(Target(a))
  BY <1>1, <1>2, SessionsStay DEF Filed, FileKept
<1>3. ASSUME NEW b \in Analyses, Stored(b, Target(a))
      PROVE  /\ length'[SessionOf(a)] > 0
             /\ began'[SessionOf(a)] <= mtime'[Target(a)]
             /\ IsReport(file'[Target(a)]) =>
                  /\ file'[Target(a)].identity = Identity[a]
                  /\ file'[Target(a)].timestamp = began'[SessionOf(a)]
  <2>1. Identity[a] = Identity[b] /\ SessionOf(a) = SessionOf(b)
    BY <1>3, NamesTell DEF Stored, SessionOf
  <2>2. /\ report[b].identity = Identity[a]
        /\ length[SessionOf(a)] > 0
        /\ began[SessionOf(a)] = report[b].timestamp
    BY <1>3, <2>1 DEF Stored, Made, Since
  <2>3. began'[SessionOf(a)] = began[SessionOf(a)] /\ length'[SessionOf(a)] > 0
    BY <1>1, <2>2, SessionsStay
  <2>4. began[SessionOf(a)] <= mtime'[Target(a)]
    BY <1>1, <1>3 DEF Stored, Dated
  <2>5. ASSUME IsReport(file'[Target(a)])
        PROVE  /\ file'[Target(a)].identity = Identity[a]
               /\ file'[Target(a)].timestamp = began'[SessionOf(a)]
    <3>1. file'[Target(a)] # Torn
      BY <2>5, Contents
    <3>2. CASE file'[Target(a)] = report[b]
      BY <2>2, <2>3, <3>2
    <3>3. CASE file'[Target(a)] = file[Target(a)]
      BY <2>3, <2>5, <3>3 DEF Filed
    <3>. QED BY <1>3, <3>1, <3>2, <3>3 DEF Stored
  <2>. QED BY <2>3, <2>4, <2>5
<1>. QED BY <1>1, <1>2, <1>3, FileStep

\* What an analysis is about to store stays true.
LEMMA MadeStep ==
  ASSUME TypeOK, TypeOK', Made, [Next]_vars
  PROVE  Made'
<1>. SUFFICES ASSUME NEW a \in Analyses, pc'[a] \in {"open", "write"}
              PROVE  /\ report'[a] \in Reports
                     /\ report'[a].identity = Identity[a]
                     /\ Since(SessionOf(a), report[a].timestamp)'
  BY DEF Made
<1>1. SessionOf(a) \in Sessions
  BY IdentityAssumption DEF SessionOf
<1>2. CASE pc[a] \in {"open", "write"} /\ report'[a] = report[a]
  BY <1>1, <1>2, SessionsStay DEF Made, Since
<1>3. CASE Analyze(a)
  <2>1. /\ length[SessionOf(a)] # 0
        /\ report'[a] = [identity |-> Identity[a], length |-> length[SessionOf(a)],
                         timestamp |-> began[SessionOf(a)]]
        /\ length' = length /\ began' = began
    BY <1>3 DEF Analyze, TypeOK, Processes, SessionOf, Timestamp, worldVars
  <2>2. length[SessionOf(a)] \in Nat
    BY <1>1, BoundsAssumption DEF TypeOK
  <2>3. length[SessionOf(a)] > 0
    BY <2>1, <2>2
  <2>4. report'[a] \in Reports
    <3>1. length[SessionOf(a)] \in 1 .. MaxLength /\ began[SessionOf(a)] \in 0 .. MaxClock
      BY <1>1, <2>2, <2>3, BoundsAssumption DEF TypeOK
    <3>. QED BY <2>1, <3>1 DEF Reports
  <2>. QED BY <2>1, <2>3, <2>4 DEF Since
<1>4. UNCHANGED <<pc, report>> => pc[a] \in {"open", "write"} /\ report'[a] = report[a]
  OBVIOUS
<1>5. ASSUME NEW b \in Analyses, OpenReport(b) \/ WriteReport(b) \/ Fail(b)
      PROVE  pc[a] \in {"open", "write"} /\ report'[a] = report[a]
  BY <1>5 DEF OpenReport, WriteReport, Fail, TypeOK, Processes
<1>6. ASSUME NEW b \in Analyses, Analyze(b), b # a
      PROVE  pc[a] \in {"open", "write"} /\ report'[a] = report[a]
  BY <1>6 DEF Analyze, TypeOK, Processes
<1>7. ASSUME NEW r \in Readers, List(r) \/ Weigh(r) \/ Stat(r) \/ Remove(r) \/ End(r)
      PROVE  pc[a] \in {"open", "write"} /\ report'[a] = report[a]
  <2>1. r # a /\ a \in Processes /\ r \in Processes
    BY ProcessesAssumption DEF Processes
  <2>2. pc'[a] = pc[a]
    BY <1>7, <2>1 DEF List, Weigh, Stat, Remove, End, TypeOK
  <2>3. report' = report
    BY <1>7 DEF List, Weigh, Stat, Remove, RemoveCurrent, End
  <2>. QED BY <2>2, <2>3
<1>8. Next => \/ UNCHANGED <<pc, report>>
              \/ \E b \in Analyses : Analyze(b)
              \/ \E b \in Analyses : OpenReport(b) \/ WriteReport(b) \/ Fail(b)
              \/ \E r \in Readers : List(r) \/ Weigh(r) \/ Stat(r) \/ Remove(r) \/ End(r)
  BY Steps DEF Tick, Grow, Load, Clear, RemoveCurrent
<1>9. UNCHANGED vars => UNCHANGED <<pc, report>>
  BY DEF vars
<1>. QED BY <1>2, <1>3, <1>4, <1>5, <1>6, <1>7, <1>8, <1>9
-----------------------------------------------------------------------------
(* The commands.                                                           *)

\* The steps of a command.
Acts(r) == \/ List(r) \/ Load(r) \/ Weigh(r) \/ Stat(r) \/ Remove(r) \/ Clear(r)
           \/ End(r)

\* A command that another process does not disturb hears of more files, and
\* nothing else of it changes.
Waits(r) ==
  /\ pc'[r] = pc[r]
  /\ listed'[r] = listed[r] /\ now'[r] = now[r] /\ loaded'[r] = loaded[r]
  /\ touched[r] \subseteq touched'[r]

\* What a step makes of one command.
LEMMA ReaderStep ==
  ASSUME TypeOK, [Next]_vars, NEW r \in Readers
  PROVE  Acts(r) \/ Waits(r)
<1>1. r \in Processes /\ \A a \in Analyses : a # r /\ a \in Processes
  BY ProcessesAssumption DEF Processes
<1>2. CASE Tick \/ (\E s \in Sessions : Grow(s)) \/ UNCHANGED vars
  BY <1>2 DEF Tick, Grow, vars, readerVars, Waits
<1>3. ASSUME NEW a \in Analyses, Analyze(a) \/ Fail(a) PROVE Waits(r)
  BY <1>1, <1>3 DEF Analyze, Fail, readerVars, Waits, TypeOK
<1>4. ASSUME NEW a \in Analyses, OpenReport(a) PROVE Waits(r)
  BY <1>1, <1>4 DEF OpenReport, Touch, readerVars, Waits, TypeOK
<1>5. ASSUME NEW a \in Analyses, WriteReport(a) PROVE Waits(r)
  <2>1. touched' = touched \/ touched' = [q \in Readers |-> touched[q] \cup {Target(a)}]
    BY <1>5 DEF WriteReport, Touch
  <2>2. touched[r] \subseteq touched'[r]
    BY <2>1
  <2>. QED BY <1>1, <1>5, <2>2 DEF WriteReport, readerVars, Waits, TypeOK
<1>6. ASSUME NEW q \in Readers, q # r, Acts(q) PROVE Waits(r)
  <2>1. q \in Processes
    BY DEF Processes
  <2>2. CASE List(q)
    BY <1>1, <1>6, <2>1, <2>2 DEF List, Waits, TypeOK
  <2>3. CASE Load(q)
    BY <1>1, <1>6, <2>1, <2>3 DEF Load, NextFile, Waits, TypeOK
  <2>4. CASE Weigh(q)
    BY <1>1, <1>6, <2>1, <2>4 DEF Weigh, NextFile, Waits, TypeOK
  <2>5. CASE Stat(q)
    BY <1>1, <1>6, <2>1, <2>5 DEF Stat, NextFile, Waits, TypeOK
  <2>6. CASE Remove(q)
    BY <1>1, <1>6, <2>1, <2>6 DEF Remove, RemoveCurrent, NextFile, Touch, Waits, TypeOK
  <2>7. CASE Clear(q)
    BY <1>1, <1>6, <2>1, <2>7 DEF Clear, RemoveCurrent, NextFile, Touch, Waits, TypeOK
  <2>8. CASE End(q)
    BY <1>1, <1>6, <2>1, <2>8 DEF End, readerVars, Waits, TypeOK
  <2>. QED BY <1>6, <2>2, <2>3, <2>4, <2>5, <2>6, <2>7, <2>8 DEF Acts
<1>7. Next => \/ Tick \/ (\E s \in Sessions : Grow(s))
              \/ \E a \in Analyses : Analyze(a) \/ Fail(a)
              \/ \E a \in Analyses : OpenReport(a)
              \/ \E a \in Analyses : WriteReport(a)
              \/ \E q \in Readers : Acts(q)
  BY Steps DEF Acts
<1>. QED BY <1>2, <1>3, <1>4, <1>5, <1>6, <1>7

\* What prune is about to remove stays old enough.
LEMMA DoomedStep ==
  ASSUME TypeOK, TypeOK', Filed, Doomed, [Next]_vars
  PROVE  Doomed'
<1>. SUFFICES ASSUME NEW r \in Readers, pc'[r] \in {"stat", "remove"}
              PROVE  /\ listed'[r] # {}
                     /\ pc'[r] = "remove" =>
                          \A a \in Analyses : Target(a) = Current(r)' =>
                            length'[SessionOf(a)] > 0 /\ Expired(r, began[SessionOf(a)])'
  BY DEF Doomed
<1>. DEFINE Old == \A a \in Analyses : Target(a) = Current(r) =>
                     length[SessionOf(a)] > 0 /\ Expired(r, began[SessionOf(a)])
            Goal == /\ listed'[r] # {}
                    /\ pc'[r] = "remove" =>
                         \A a \in Analyses : Target(a) = Current(r)' =>
                           length'[SessionOf(a)] > 0 /\ Expired(r, began[SessionOf(a)])'
<1>1. r \in Processes /\ \A a \in Analyses : SessionOf(a) \in Sessions
  BY IdentityAssumption DEF Processes, SessionOf
<1>2. ASSUME listed'[r] = listed[r], now'[r] = now[r], listed[r] # {},
             pc'[r] = "remove" => Old
      PROVE  Goal
  <2>1. Current(r)' = Current(r)
    BY <1>2 DEF Current
  <2>2. ASSUME NEW a \in Analyses, length[SessionOf(a)] > 0, Expired(r, began[SessionOf(a)])
        PROVE  length'[SessionOf(a)] > 0 /\ Expired(r, began[SessionOf(a)])'
    <3>1. length'[SessionOf(a)] > 0 /\ began'[SessionOf(a)] = began[SessionOf(a)]
      BY <1>1, <2>2, SessionsStay
    <3>. QED BY <1>2, <2>2, <3>1 DEF Expired
  <2>. QED BY <1>2, <2>1, <2>2
<1>3. CASE Waits(r)
  BY <1>2, <1>3 DEF Waits, Doomed
<1>4. CASE Weigh(r)
  <2>1. listed[r] # {} /\ Current(r) \in Files
    BY <1>4, CurrentIsListed DEF Weigh
  <2>2. CASE ~IsReport(file[Current(r)])
    <3>1. pc'[r] = "stat" /\ listed' = listed /\ now' = now
      BY <1>1, <1>4, <2>2 DEF Weigh, TypeOK
    <3>. QED BY <1>2, <2>1, <3>1
  <2>3. CASE IsReport(file[Current(r)]) /\ Expired(r, file[Current(r)].timestamp)
    <3>1. listed' = listed /\ now' = now
      BY <1>4, <2>3 DEF Weigh
    <3>2. ASSUME NEW a \in Analyses, Target(a) = Current(r)
          PROVE  length[SessionOf(a)] > 0 /\ Expired(r, began[SessionOf(a)])
      <4>1. file[Target(a)] # Missing
        BY <2>3, <3>2, Contents
      <4>. QED BY <2>3, <3>2, <4>1 DEF Filed
    <3>. QED BY <1>2, <2>1, <3>1, <3>2
  <2>4. CASE IsReport(file[Current(r)]) /\ ~Expired(r, file[Current(r)].timestamp)
    BY <1>4, <2>4 DEF Weigh
  <2>. QED BY <2>2, <2>3, <2>4
<1>5. CASE Stat(r)
  <2>1. listed[r] # {} /\ Current(r) \in Files
    BY <1>5, CurrentIsListed DEF Stat, Doomed
  <2>2. CASE file[Current(r)] # Missing /\ Expired(r, mtime[Current(r)])
    <3>1. listed' = listed /\ now' = now
      BY <1>5, <2>2 DEF Stat
    <3>2. ASSUME NEW a \in Analyses, Target(a) = Current(r)
          PROVE  length[SessionOf(a)] > 0 /\ Expired(r, began[SessionOf(a)])
      <4>1. length[SessionOf(a)] > 0 /\ began[SessionOf(a)] <= mtime[Current(r)]
        BY <2>2, <3>2 DEF Filed
      <4>2. /\ began[SessionOf(a)] \in Nat /\ mtime[Current(r)] \in Nat
            /\ now[r] \in Nat /\ OlderThan \in Nat
        BY <1>1, <2>1, BoundsAssumption DEF TypeOK
      <4>. QED BY <2>2, <4>1, <4>2 DEF Expired
    <3>. QED BY <1>2, <2>1, <3>1, <3>2
  <2>3. CASE ~(file[Current(r)] # Missing /\ Expired(r, mtime[Current(r)]))
    BY <1>1, <1>5, <2>3 DEF Stat, TypeOK
  <2>. QED BY <2>2, <2>3
<1>6. CASE List(r) \/ Load(r) \/ Remove(r) \/ Clear(r) \/ End(r)
  BY <1>1, <1>6 DEF List, Load, Remove, Clear, End, TypeOK
<1>. QED BY <1>3, <1>4, <1>5, <1>6, ReaderStep DEF Acts

\* What a command that reads the reports has counted, and what not yet.
LEMMA CountingStep ==
  ASSUME TypeOK, TypeOK', Made, Filed, Doomed, Counting, [Next]_vars
  PROVE  Counting'
<1>. SUFFICES ASSUME NEW r \in Readers
              PROVE  /\ pc'[r] = "start" => loaded'[r] = {}
                     /\ pc'[r] = "counted" => listed'[r] = {}
                     /\ pc'[r] \in {"load", "counted"} =>
                          \A f \in Files \ touched'[r] :
                            IsReport(file'[f]) => f \in listed'[r] \/ file'[f] \in loaded'[r]
                     /\ \A x \in loaded'[r] : FileName(x.identity) \notin listed'[r]
                     /\ \A x, y \in loaded'[r] : x.identity = y.identity => x = y
  BY DEF Counting
<1>. DEFINE Ends == /\ pc'[r] = "start" => loaded'[r] = {}
                    /\ pc'[r] = "counted" => listed'[r] = {}
            Counts == pc'[r] \in {"load", "counted"} =>
                        \A f \in Files \ touched'[r] :
                          IsReport(file'[f]) => f \in listed'[r] \/ file'[f] \in loaded'[r]
            Apart == \A x \in loaded'[r] : FileName(x.identity) \notin listed'[r]
            Once == \A x, y \in loaded'[r] : x.identity = y.identity => x = y
<1>1. r \in Processes
  BY DEF Processes
<1>2. \A f \in Files \ touched'[r] :
        IsReport(file'[f]) => file'[f] = file[f]
  BY FileStep, Contents DEF FileKept, Heard
<1>3. CASE Waits(r)
  <2>1. Counts
    BY <1>2, <1>3 DEF Waits, Counting
  <2>. QED BY <1>3, <2>1 DEF Waits, Counting
<1>4. CASE List(r)
  <2>1. pc[r] = "start" /\ pc'[r] \in {"load", "weigh", "clear"} /\ loaded' = loaded
    BY <1>1, <1>4 DEF List, TypeOK
  <2>2. listed'[r] = {f \in Files : file[f] # Missing} /\ file' = file
    BY <1>4 DEF List, TypeOK
  <2>3. loaded'[r] = {}
    BY <2>1 DEF Counting
  <2>. QED BY <2>1, <2>2, <2>3, Contents
<1>5. CASE Load(r)
  <2>. DEFINE f == Current(r)
  <2>1. f \in listed[r] /\ f \in Files
    BY <1>5, CurrentIsListed DEF Load
  <2>2. /\ pc' = pc /\ pc[r] = "load" /\ file' = file /\ touched' = touched
        /\ listed'[r] = listed[r] \ {f}
    BY <1>5 DEF Load, NextFile, TypeOK
  <2>3. CASE ~IsReport(file[f])
    <3>1. loaded' = loaded
      BY <1>5, <2>3 DEF Load
    <3>2. Counts
      BY <2>2, <2>3, <3>1 DEF Counting
    <3>. QED BY <2>2, <3>1, <3>2 DEF Counting
  <2>4. CASE IsReport(file[f])
    <3>1. loaded'[r] = loaded[r] \cup {file[f]}
      BY <1>5, <2>4 DEF Load, TypeOK
    <3>2. PICK a \in Analyses : f = Target(a)
      BY <2>1, TargetsAreFiles
    <3>3. FileName(file[f].identity) = f
      BY <2>4, <3>2, Contents DEF Filed, Target
    <3>4. \A x \in loaded[r] : x.identity # file[f].identity
      BY <2>1, <3>3 DEF Counting
    <3>5. Counts
      BY <2>2, <3>1 DEF Counting
    <3>6. Apart
      BY <2>2, <3>1, <3>3 DEF Counting
    <3>7. Once
      BY <3>1, <3>4 DEF Counting
    <3>. QED BY <2>2, <3>5, <3>6, <3>7
  <2>. QED BY <2>3, <2>4
<1>6. CASE Weigh(r) \/ Stat(r) \/ Remove(r) \/ Clear(r)
  <2>1. /\ pc'[r] \notin {"start", "load", "counted"}
        /\ loaded' = loaded
    BY <1>1, <1>6 DEF Weigh, Stat, Remove, Clear, RemoveCurrent, TypeOK
  <2>2. listed'[r] \subseteq listed[r]
    BY <1>6 DEF Weigh, Stat, Remove, Clear, RemoveCurrent, NextFile, TypeOK
  <2>. QED BY <2>1, <2>2 DEF Counting
<1>7. CASE End(r)
  <2>1. /\ listed[r] = {} /\ listed' = listed /\ loaded' = loaded /\ file' = file
        /\ touched' = touched
        /\ pc'[r] \in {"counted", "done"} /\ (pc'[r] = "counted" => pc[r] = "load")
    BY <1>1, <1>7 DEF End, readerVars, TypeOK
  <2>2. Counts
    BY <2>1 DEF Counting
  <2>. QED BY <2>1, <2>2 DEF Counting
<1>. QED BY <1>3, <1>4, <1>5, <1>6, <1>7, ReaderStep DEF Acts

-----------------------------------------------------------------------------
\* The invariant of the store: what a file holds, what an analysis is about to
\* put into it, and where each command stands with it.
THEOREM InvHolds == Spec => []Inv
<1>1. Inv /\ [Next]_vars => Inv'
  BY TypeStep, DatedStep, MadeStep, FiledStep, DoomedStep, CountingStep DEF Inv
<1>. QED BY <1>1, InitInv, PTL DEF Spec

\* Stats counts every report that was in place all along, and none twice.
THEOREM StatsTellTheStoreTheorem == Spec => []StatsTellTheStore
<1>1. Inv => StatsTellTheStore
  BY DEF Inv, Counting, StatsTellTheStore
<1>. QED BY <1>1, InvHolds, PTL

\* Only an analysis of the same session and version replaces a report.
THEOREM ReplacedByItsOwnTheorem == Spec => ReplacedByItsOwn
<1>1. ASSUME Inv, [Next]_vars,
             NEW f \in Files, IsReport(file[f]), file'[f] \notin {file[f], Missing}
      PROVE  \E a \in Analyses : Identity[a] = file[f].identity /\ pc[a] # pc'[a]
  <2>1. PICK a \in Analyses : Stored(a, f)
    BY <1>1, FileStep DEF FileKept, Inv
  <2>2. file[f].identity = Identity[a]
    BY <1>1, <2>1, Contents DEF Stored, Filed, Inv
  <2>. QED BY <2>1, <2>2 DEF Stored
<1>2. Inv /\ [Next]_vars =>
        [\A f \in Files :
           (IsReport(file[f]) /\ file'[f] \notin {file[f], Missing}) =>
             \E a \in Analyses : /\ Identity[a] = file[f].identity
                                 /\ pc[a] # pc'[a]]_vars
  BY <1>1
<1>. QED BY <1>2, InvHolds, PTL DEF Spec, ReplacedByItsOwn

\* Prune removes no report younger than asked, whatever is written to its file
\* between the look at it and the removal.
THEOREM PruneKeepsYoungTheorem == Spec => PruneKeepsYoung
<1>1. ASSUME Inv, [Next]_vars, NEW r \in Readers, Remove(r), IsReport(file[Current(r)])
      PROVE  Expired(r, file[Current(r)].timestamp)
  <2>1. pc[r] = "remove" /\ listed[r] # {} /\ Current(r) \in Files
    BY <1>1, CurrentIsListed DEF Remove, Inv, Doomed
  <2>2. PICK a \in Analyses : Current(r) = Target(a)
    BY <2>1, TargetsAreFiles
  <2>3. Expired(r, began[SessionOf(a)])
    BY <2>1, <2>2, <1>1 DEF Inv, Doomed
  <2>4. file[Current(r)].timestamp = began[SessionOf(a)]
    BY <1>1, <2>2, Contents DEF Inv, Filed
  <2>. QED BY <2>3, <2>4
<1>2. Inv /\ [Next]_vars =>
        [\A r \in Readers :
           (Remove(r) /\ IsReport(file[Current(r)])) =>
             Expired(r, file[Current(r)].timestamp)]_vars
  BY <1>1
<1>. QED BY <1>2, InvHolds, PTL DEF Spec, PruneKeepsYoung
=============================================================================
