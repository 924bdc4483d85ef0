---------------------------- MODULE ClaudeParser ----------------------------
(***************************************************************************)
(* ClaudeParser (packages/adapter-claude/src/parser.ts): one step for each *)
(* line of a Claude Code transcript, as an operator on the parser's state. *)
(***************************************************************************)
EXTENDS AdapterParser

IgnoredTypes == {"turn_ended", "turnEnded", "thinking", "reasoning",
                 "queue-operation", "attachment", "custom-title", "last-prompt",
                 "mode", "progress", "file-history-snapshot"}
ConversationTypes == {"user", "assistant", "system", "tool"}

\* The caller may give the session's id and directory; the id is otherwise that
\* in the file's name.
Start(options) ==
  NewParser(Or(options.sessionId, Or(options.pathId, "claude-session")), options.cwd)

\* Every event says where it happened, and the parser follows it.
ReadNativeSessionFields(p, event) ==
  [p EXCEPT !.sessionId = Or(event.sessionId, @), !.cwd = Or(event.cwd, @)]

ReadSessionMeta(p, event) ==
  [p EXCEPT !.sessionId = Or(event.sessionId, @), !.cwd = Or(event.cwd, @)]

\* contentToText, of the content or what a result has in its place
OutputOf(content) == IF content = None THEN NoOutput ELSE content

\* The message has an id of its own; only a text that is a whole message may
\* come with one.
ReadTextMessage(p, role, texts, id) ==
  IF IsBlank(texts) THEN p ELSE Emit(Numbered(p, id), TextMessage(role, texts))

\* A call without an id gets one; so does its message.
ReadToolCall(p, part) ==
  LET id   == Or(part.id, NextId(p, "tool"))
      tool == BuildToolMeta(part.name,
                            NormalizedArguments(part, p.cwd, TRUE))
  IN  [Emit(Numbered(p, part.id), CallMessage(id, tool, p.cwd)) EXCEPT
         !.callNames = (id :> part.name) @@ @]

PushToolResult(p, id, output, payload) ==
  Emit(p, ResultMessage(id, ResultName(p, id, payload.name),
                        ToolOutcome(output, payload.isError, payload.exit)))

\* Mutant: a result without an id answers the last call.
ReadToolResultByAdjacency(p, part, event) ==
  LET id == IF part.id = None /\ p.messages # <<>> /\ Last(p.messages).calls # <<>>
            THEN Last(p.messages).calls[1].id ELSE part.id
  IN  PushToolResult(p, id, OutputOf(part.output), part)

\* A result without an id answers no call, whatever stands beside it.  Fields of
\* the event add to those of the part, and its toolUseResult stands in for an
\* output that is empty.
ReadToolResultPart(p, part, event) ==
  LET warned == IF part.id = None THEN Warn(p, 0, "skipped") ELSE p
      output == IF OutputOf(part.output).output = ""
                THEN OutputOf(event.toolUseResult) ELSE part.output
  IN  PushToolResult(Numbered(warned, part.id), Or(part.id, NextId(p, "result")),
                     output,
                     [name |-> Or(event.name, part.name),
                      exit |-> Or(event.exit, part.exit),
                      isError |-> Or(event.isError, part.isError)])

ReadToolUseResultFallback(p, event) ==
  PushToolResult(Numbered(p, None), NextId(p, "result"), event.toolUseResult, event)

ReadToolResultMessage(p, event) ==
  PushToolResult(Numbered(p, event.callId), Or(event.callId, NextId(p, "result")),
                 OutputOf(event.output), event)

\* Texts are held back until a call or a result, or the end of the content.
Flush(state, role) ==
  [parser |-> ReadTextMessage(state.parser, role, state.texts, None), texts |-> <<>>]

\* Mutant: a call does not wait for the texts before it.
ReadContentPartTextLast(state, part, event, n) ==
  CASE part.type = "text" -> [state EXCEPT !.texts = Append(@, part.text)]
    [] part.type = "tool_use" -> [state EXCEPT !.parser = ReadToolCall(@, part)]
    [] part.type = "tool_result" ->
         [state EXCEPT !.parser = ReadToolResultPart(@, part, event)]
    [] OTHER -> state

ReadContentPart(state, part, event, n) ==
  CASE part.type = "text" ->
         IF part.text = None THEN state
         ELSE [state EXCEPT !.texts = Append(@, part.text)]
    [] part.type = "tool_use" ->
         [Flush(state, event.role) EXCEPT !.parser = ReadToolCall(@, part)]
    [] part.type = "tool_result" ->
         [Flush(state, event.role) EXCEPT !.parser = ReadToolResultPart(@, part, event)]
    [] part.type \in IgnoredTypes -> state
    [] OTHER -> [state EXCEPT !.parser = Warn(@, n, "unknown_event")]

ReadContentParts(p, event, n) ==
  Flush(FoldLeft(LAMBDA state, part : ReadContentPart(state, part, event, n),
                 [parser |-> p, texts |-> <<>>], event.parts), event.role).parser

\* The role of an event is its own, its message's, or its type.
ReadConversationEvent(p, event, n) ==
  LET said == [event EXCEPT !.role = Or(@, event.type)] IN
  IF said.role = "tool" \/ said.callId # None THEN ReadToolResultMessage(p, said)
  ELSE IF said.parts # None THEN ReadContentParts(p, said, n)
  ELSE IF said.text # None THEN ReadTextMessage(p, said.role, <<said.text>>, said.id)
  ELSE IF said.toolUseResult # None THEN ReadToolUseResultFallback(p, said)
  ELSE PushUnknown(p, n)

\* Whatever an event is, it is read for the session's fields first.
IngestEvent(p, event, n) ==
  LET known == ReadNativeSessionFields([p EXCEPT !.parsed = @ + 1], event) IN
  IF event.type = "session_meta" THEN ReadSessionMeta(known, event)
  ELSE IF event.type = "system" /\ event.subtype = "compact_boundary"
    THEN [known EXCEPT !.compaction = TRUE]
  ELSE IF event.type \in IgnoredTypes THEN known
  ELSE IF \/ event.type \in ConversationTypes
          \/ event.role # None
          \/ event.parts # None THEN ReadConversationEvent(known, event, n)
  ELSE IF event.type # None THEN PushUnknown(known, n)
  ELSE Malformed(known, n)

Ingest(p, event, n) ==
  IF event.json = "scalar" THEN Malformed(p, n) ELSE IngestEvent(p, event, n)

\* The loop over the file: a line that does not parse, like the torn last line of
\* a file the agent is writing, is counted and skipped.
ReadLine(p, line, n) ==
  CASE line.json = "empty" -> p
    [] line.json = "error" -> Malformed(p, n)
    [] OTHER               -> Ingest(p, line, n)
=============================================================================
