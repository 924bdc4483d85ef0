---------------------------- MODULE CodexParser ----------------------------
(***************************************************************************)
(* CodexParser (packages/adapter-codex/src/parser.ts): lines are envelopes *)
(* whose payload is the item; an event without a payload is its own.       *)
(***************************************************************************)
EXTENDS AdapterParser

IgnoredEnvelopeTypes == {"event_msg", "token_usage_record", "world_state"}
IgnoredResponseTypes == {"reasoning", "compaction"}
CallTypes == {"function_call", "custom_tool_call"}
OutputTypes == {"function_call_output", "custom_tool_call_output"}

\* The caller's directory is not used: session_meta names it.
Start(options) == NewParser("codex-session", None)

\* envelopeOf
EnvelopeType(event) == IF event.payload THEN event.type ELSE "response_item"
ItemType(event) == IF event.payload THEN event.itemType ELSE event.type

ReadSessionMeta(p, event) ==
  [p EXCEPT !.sessionId = Or(event.sessionId, @), !.cwd = Or(event.cwd, @)]

ReadTurnContext(p, event) == [p EXCEPT !.cwd = Or(event.cwd, @)]

\* A message is emitted even if it is blank.
ReadMessage(p, event) ==
  Emit(Numbered(p, event.id),
       TextMessage(event.role, IF event.text = None THEN <<>> ELSE <<event.text>>))

\* The directory a command is told to run in is not the one its file is named by.
ReadToolCall(p, event) ==
  LET id == Or(event.callId, Or(event.id, NextId(p, "call"))) IN
  [Emit(Numbered(p, Or(event.callId, event.id)),
        CallMessage(id, BuildToolMeta(event.name,
                          NormalizedArguments(event, p.cwd, FALSE)),
        p.cwd))
     EXCEPT !.callNames = (id :> event.name) @@ @]

ReadToolResult(p, event) ==
  LET id == Or(event.callId, Or(event.id, NextId(p, "result"))) IN
  Emit(Numbered(p, Or(event.callId, event.id)),
       ResultMessage(id, ResultName(p, id, event.name),
                     ToolOutcome(Or(event.output, NoOutput), event.isError, event.exit)))

ReadResponseItem(p, event, n) ==
  LET type == ItemType(event) IN
  CASE type \in IgnoredResponseTypes -> p
    [] type = "message"              -> ReadMessage(p, event)
    [] type \in CallTypes            -> ReadToolCall(p, event)
    [] type \in OutputTypes          -> ReadToolResult(p, event)
    [] OTHER                         -> PushUnknown(p, n)

Ingest(p, event, n) ==
  LET parsed == [p EXCEPT !.parsed = @ + 1]
      type == EnvelopeType(event)
  IN  IF event.json = "scalar" \/ event.type = None THEN Malformed(p, n)
      ELSE IF type = "session_meta"  THEN ReadSessionMeta(parsed, event)
      ELSE IF type = "turn_context"  THEN ReadTurnContext(parsed, event)
      ELSE IF type = "response_item" THEN ReadResponseItem(parsed, event, n)
      ELSE IF type \in IgnoredEnvelopeTypes THEN parsed
      ELSE PushUnknown(parsed, n)

ReadLine(p, line, n) ==
  CASE line.json = "empty" -> p
    [] line.json = "error" -> Malformed(p, n)
    [] OTHER               -> Ingest(p, line, n)
=============================================================================
