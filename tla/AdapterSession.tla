--------------------------- MODULE AdapterSession ---------------------------
(***************************************************************************)
(* analyzeClaudeSession, analyzeCursorSession and analyzeCodexSession      *)
(* (packages/adapter-*/src/analyze.ts): a vendor's file is parsed, and the *)
(* messages go to the engine.  The agent is still writing the file, so an  *)
(* analysis may meet any beginning of it; the engine catches up with the   *)
(* parser before the next line is looked at, and what it then holds is the *)
(* analysis of a file that ends here.                                      *)
(*                                                                         *)
(* Beside what the parser reads, a line has tells, the texts, calls and    *)
(* results it is about, and strange, whether the vendor's documents do not *)
(* know what is in it.  No parser looks at these; properties do.           *)
(***************************************************************************)
EXTENDS SessionCompaction

CONSTANTS
  Lines,       \* vendor -> lines its files may have
  Options,     \* what the caller of the adapter knows of the session
  MaxLines     \* bound on the length of a file

VARIABLES vendor, file, parser

adapterVars == <<vendor, file, parser, normalizeVars>>

Claude == INSTANCE ClaudeParser
Cursor == INSTANCE CursorParser
Codex  == INSTANCE CodexParser

Start ==
  CASE vendor = "claude" -> Claude!Start(Options)
    [] vendor = "cursor" -> Cursor!Start(Options)
    [] vendor = "codex"  -> Codex!Start(Options)

Parsed(line, n) ==
  CASE vendor = "claude" -> Claude!ReadLine(parser, line, n)
    [] vendor = "cursor" -> Cursor!ReadLine(parser, line, n)
    [] vendor = "codex"  -> Codex!ReadLine(parser, line, n)

CaughtUp == Len(transcript) = Len(parser.messages)

AdapterInit ==
  /\ Init
  /\ vendor \in DOMAIN Lines
  /\ file = <<>>
  /\ parser = Start

Parse(line) ==
  /\ CaughtUp
  /\ Len(file) < MaxLines
  /\ file' = Append(file, line)
  /\ parser' = Parsed(line, Len(file) + 1)
  /\ UNCHANGED <<vendor, normalizeVars>>

Engine ==
  /\ ~CaughtUp
  /\ Read(parser.messages[Len(transcript) + 1])
  /\ UNCHANGED <<vendor, file, parser>>

AdapterNext == Engine \/ \E line \in Lines[vendor] : Parse(line)

AdapterSpec == AdapterInit /\ [][AdapterNext]_adapterVars

\* Mutant: sessions with a pair are taken to be complete.
DataCompletenessAnyPair(s) ==
  IF \E i \in DOMAIN s : s[i].kind = "tool_pair" THEN "full_tool_results"
  ELSE IF \E i \in DOMAIN s : IsTool(s[i]) THEN "tool_calls_only" ELSE "unknown"

\* dataCompleteness: what the report says of the vendor's file.
DataCompleteness(s) ==
  LET some(kind) == \E i \in DOMAIN s : s[i].kind = kind
      pairs == some("tool_pair")
      calls == some("unpaired_tool_call")
      results == some("unpaired_tool_result")
  IN  CASE ~pairs /\ ~calls /\ ~results -> "unknown"
        [] pairs /\ ~calls              -> "full_tool_results"
        [] calls /\ ~pairs /\ ~results  -> "tool_calls_only"
        [] OTHER                        -> "partial"

-----------------------------------------------------------------------------
\* What the file tells, in order.
Told == FlattenSeq([n \in DOMAIN file |-> file[n].tells])
ToldOf(what) == {k \in DOMAIN Told : Told[k].what = what}

\* The results that answer call k: the first one under its id, unless the id was
\* issued again in between.
AnswersTo(k) ==
  {r \in ToldOf("result") :
     /\ r > k /\ Told[k].id # None /\ Told[r].id = Told[k].id
     /\ \A d \in k + 1 .. r - 1 : Told[d].what = "text" \/ Told[d].id # Told[k].id}

\* Call k is issued again before it is answered.
IsReissued(k) ==
  /\ Told[k].what = "call" /\ AnswersTo(k) = {}
  /\ \E d \in ToldOf("call") : d > k /\ Told[k].id # None /\ Told[d].id = Told[k].id

\* A part CLAUDE_COMPATIBILITY.md:117 says is skipped, but which IGNORED_TYPES lacks:
\* only contentToText skips it, and the loop over the parts warns of it.
HasRedactedThinking(line) ==
  line.parts # None /\ \E k \in DOMAIN line.parts : line.parts[k].type = "redacted_thinking"

\* CLAUDE_COMPATIBILITY.md:112-117, "Fail-open policy": whatever else is in the
\* file, torn lines and unknown events and parts included, the engine gets the
\* texts, calls and results the file tells, each once, in the order of the file,
\* and said by whoever said it.  A line is warned of exactly if there is something
\* in it that the vendor's documents do not tell of, or the one part they tell of
\* and the parser does not know, parser.ts:402-410.
TranscriptTellsTheFile ==
  /\ Len(parser.messages) = Len(Told)
  /\ \A k \in DOMAIN Told :
       LET m == parser.messages[k]  t == Told[k] IN
       CASE t.what = "text" ->
              /\ m.calls = <<>> /\ m.role # "tool"
              /\ IF t.words = <<>> THEN m.text = None
                 ELSE m.text.words = t.words /\ m.text.origin = t.by
         [] t.what = "call"   -> Len(m.calls) = 1 /\ m.calls[1].tool.name = t.name
         [] t.what = "result" -> m.role = "tool" /\ m.result.output = t.output
  /\ \A n \in DOMAIN file :
       (file[n].strange \/ HasRedactedThinking(file[n])) <=>
         \E w \in parser.warnings : w[1] = n

\* CLAUDE_COMPATIBILITY.md:54-57 and 69-71: a result in the file is joined to the
\* call it names by its id, however far apart they stand, and to no other; what
\* names no call, or a call that is answered, stands alone.  Ids the adapter
\* makes up join nothing.  No call and no result is lost, but a call whose id is
\* issued again before it is answered.
AnswersReachTheirCalls ==
  CaughtUp =>
    LET pairs == {<<Session[i].messageIds[1], Session[i].messageIds[2]>> :
                    i \in {j \in DOMAIN Session : Session[j].kind = "tool_pair"}}
        alone == {Session[i].messageIds[1] :
                    i \in {j \in DOMAIN Session :
                             Session[j].kind \in {"unpaired_tool_call",
                                                 "unpaired_tool_result"}}}
        joined == UNION {{<<k, r>> : r \in AnswersTo(k)} : k \in ToldOf("call")}
    IN  /\ pairs = joined
        /\ alone = {k \in ToldOf("call") \cup ToldOf("result") :
                      ~IsReissued(k) /\ \A pair \in joined : k \notin ToSet(pair)}

\* CONFIGURATION.md:62-69: the completeness in a report is that of the vendor's
\* file.  Sessions are compared by it, and one that lacks results is not
\* called full.
CompletenessTellsTheFile ==
  CaughtUp =>
    LET calls == {k \in ToldOf("call") : ~IsReissued(k)}
        open  == {k \in calls : AnswersTo(k) = {}}
        full  == calls # {} /\ open = {}
        bare  == calls # {} /\ ToldOf("result") = {}
    IN  /\ DataCompleteness(Session) = "full_tool_results" <=> full
        /\ DataCompleteness(Session) = "tool_calls_only" <=> bare
        /\ DataCompleteness(Session) = "unknown" <=> ToldOf("call") \cup ToldOf("result") = {}

\* A path that climbs out of the placeholder it begins with is left as it is, and
\* posix.normalize (file-state.ts:5-12) then takes the placeholder for a directory.
ClimbsOutOfPlaceholder(call) == Head(call.tool.path) = "<workspace>"

\* CURSOR_COMPATIBILITY.md:86-90: in one working directory two files never get one
\* name, but for a path that climbs out of its placeholder; and relative, dotted
\* and absolute spellings, placeholders and globs of one file or directory inside
\* it get one name.  A file outside keeps its spelling, and may have two names.
SpellingsAgree ==
  \A j, k \in ToldOf("call") :
    LET a == parser.messages[j]  b == parser.messages[k]
        same == ItemPath(a.calls[1]) = ItemPath(b.calls[1])
    IN  (a.cwd # None /\ a.cwd = b.cwd /\ Told[j].file # None /\ Told[k].file # None) =>
          /\ same => \/ Told[j].file = Told[k].file
                     \/ ClimbsOutOfPlaceholder(a.calls[1])
                     \/ ClimbsOutOfPlaceholder(b.calls[1])
          /\ (Told[j].file = Told[k].file /\ IsPrefix(a.cwd, Told[j].file)) => same

\* Violated.  ARCHITECTURE.md:145: "Read A, Read A (no write) -> earlier
\* SUPERSEDED_FILE_READ".  The A of two reads may be two files.
SupersededReadsWereRepeated ==
  CaughtUp =>
    \A i \in Dropped(Session) :
      Deterministic(Session)[i].rule = "superseded-file-read" =>
        \E j \in i + 1 .. Len(Session) :
          /\ OfKind(Session[j], "file_read")
          /\ Told[Session[j].messageIds[1]].file = Told[Session[i].messageIds[1]].file
=============================================================================
