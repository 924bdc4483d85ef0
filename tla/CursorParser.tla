---------------------------- MODULE CursorParser ----------------------------
(***************************************************************************)
(* CursorParser (packages/adapter-cursor/src/parser.ts).  Cursor says less *)
(* than Claude: transcripts have no results and often no ids, and the      *)
(* workspace is known from the caller or not at all.                       *)
(***************************************************************************)
EXTENDS AdapterParser

IgnoredTypes == {"turn_ended", "turnEnded", "thinking", "reasoning"}
DefaultSession == "cursor-session"

Start(options) ==
  NewParser(Or(options.sessionId, Or(options.pathId, DefaultSession)), options.cwd)

ReadSessionMeta(p, event) ==
  [p EXCEPT !.sessionId = Or(event.sessionId, @), !.cwd = Or(event.cwd, @)]

\* The message has an id of its own; only a text that is a whole message may
\* come with one.
ReadTextMessage(p, role, texts, id) ==
  IF IsBlank(texts) THEN p ELSE Emit(Numbered(p, id), TextMessage(role, texts))

ReadToolCall(p, part) ==
  LET id == Or(part.id, NextId(p, "tool")) IN
  [Emit(Numbered(p, part.id),
        CallMessage(id, BuildToolMeta(part.name,
                          NormalizedArguments(part, p.cwd, TRUE)),
                    p.cwd))
     EXCEPT !.callNames = (id :> part.name) @@ @]

PushToolResult(p, id, payload) ==
  Emit(p, ResultMessage(id, ResultName(p, id, payload.name),
                        ToolOutcome(Or(payload.output, NoOutput), payload.isError,
                                    payload.exit)))

ReadToolResultPart(p, part) ==
  PushToolResult(Numbered(p, part.id), Or(part.id, NextId(p, "result")), part)

ReadToolResultMessage(p, event) ==
  PushToolResult(Numbered(p, event.callId), Or(event.callId, NextId(p, "result")),
                 event)

Flush(state, role) ==
  [parser |-> ReadTextMessage(state.parser, role, state.texts, None), texts |-> <<>>]

ReadContentPart(state, part, role, n) ==
  CASE part.type = "text" ->
         IF part.text = None THEN state
         ELSE [state EXCEPT !.texts = Append(@, part.text)]
    [] part.type = "tool_use" ->
         [Flush(state, role) EXCEPT !.parser = ReadToolCall(@, part)]
    [] part.type = "tool_result" ->
         [Flush(state, role) EXCEPT !.parser = ReadToolResultPart(@, part)]
    [] part.type \in IgnoredTypes -> state
    [] OTHER -> [state EXCEPT !.parser = Warn(@, n, "unknown_event")]

ReadContentParts(p, event, n) ==
  Flush(FoldLeft(LAMBDA state, part : ReadContentPart(state, part, event.role, n),
                 [parser |-> p, texts |-> <<>>], event.parts), event.role).parser

\* An event names the workspace and the session only if nothing else did.
ReadConversationEvent(p, event, n) ==
  LET known == [p EXCEPT !.cwd = Or(@, event.cwd),
                         !.sessionId = IF @ = DefaultSession
                                       THEN Or(event.sessionId, @) ELSE @]
  IN  IF event.role = "tool" \/ event.callId # None
        THEN ReadToolResultMessage(known, event)
      ELSE IF event.parts # None THEN ReadContentParts(known, event, n)
      ELSE IF event.text # None
        THEN ReadTextMessage(known, event.role, <<event.text>>, event.id)
      ELSE PushUnknown(known, n)

Ingest(p, event, n) ==
  LET parsed == [p EXCEPT !.parsed = @ + 1] IN
  IF event.json = "scalar" THEN Malformed(p, n)
  ELSE IF event.type = "session_meta" THEN ReadSessionMeta(parsed, event)
  ELSE IF event.type \in IgnoredTypes THEN parsed
  ELSE IF event.role # None \/ event.parts # None
    THEN ReadConversationEvent(parsed, event, n)
  ELSE IF event.type # None THEN PushUnknown(parsed, n)
  ELSE Malformed(parsed, n)

ReadLine(p, line, n) ==
  CASE line.json = "empty" -> p
    [] line.json = "error" -> Malformed(p, n)
    [] OTHER               -> Ingest(p, line, n)
=============================================================================
