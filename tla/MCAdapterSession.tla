-------------------------- MODULE MCAdapterSession --------------------------
(***************************************************************************)
(* Lines as the vendors write them, with what they tell.                   *)
(***************************************************************************)
EXTENDS AdapterSession

Repo == <<"/", "r">>
Sub  == <<"/", "r", "s">>
NoMessages == {}
InRepo == [sessionId |-> None, pathId |-> "uuid", cwd |-> Repo]

Line == [json |-> "record", type |-> None, subtype |-> None, role |-> None,
         cwd |-> None, sessionId |-> None, parts |-> None, text |-> None,
         callId |-> None, id |-> None, name |-> None, path |-> None,
         command |-> None, pattern |-> None, output |-> None,
         toolUseResult |-> None, isError |-> None, exit |-> None,
         payload |-> FALSE, itemType |-> None, tells |-> <<>>, strange |-> FALSE]
Telling(line, tells) == [line EXCEPT !.tells = tells]
Strange(line) == [line EXCEPT !.strange = TRUE]
Torn == Strange([Line EXCEPT !.json = "error"])
NoRecord == Strange([Line EXCEPT !.json = "scalar"])

\* What lines tell.
Texts(by, words) == [what |-> "text", by |-> by, words |-> words]
Called(id, name, target) == [what |-> "call", id |-> id, name |-> name, file |-> target]
Answered(id, output) == [what |-> "result", id |-> id, output |-> output]

\* Texts, parts and outputs.
Word(word) == [word |-> word, ack |-> FALSE, constraint |-> FALSE]
Blank == Word(None)
Output(text) == [output |-> text, says |-> {}, large |-> FALSE]
Part == [type |-> "text", text |-> None, id |-> None, name |-> None, path |-> None,
         command |-> None, pattern |-> None, output |-> None, isError |-> None,
         exit |-> None]
TextPart(text) == [Part EXCEPT !.text = text]
CallPart(id, name, path) ==
  [Part EXCEPT !.type = "tool_use", !.id = id, !.name = name, !.path = path]
ShellPart(id, command) ==
  [Part EXCEPT !.type = "tool_use", !.id = id, !.name = <<"Bash">>, !.command = command]
ResultPart(id, output) ==
  [Part EXCEPT !.type = "tool_result", !.id = id, !.output = output]
ThinkingPart == [Part EXCEPT !.type = "thinking"]
RedactedPart == [Part EXCEPT !.type = "redacted_thinking"]
ImagePart == [Part EXCEPT !.type = "image"]
GlobPart(pattern) ==
  [Part EXCEPT !.type = "tool_use", !.name = <<"Glob">>, !.pattern = pattern]

C1 == <<"c1">>
C2 == <<"c2">>
C3 == <<"c3">>
C4 == <<"c4">>
I1 == <<"i1">>
Read1 == <<"Read">>
A == <<"/", "r", "a.ts">>
B == <<"/", "r", "s", "a.ts">>
Outside == <<"/", "a.ts">>

-----------------------------------------------------------------------------
ClaudeLine(type, parts, tells) ==
  [Line EXCEPT !.type = type, !.parts = parts, !.cwd = Repo, !.sessionId = "uuid",
               !.tells = tells]

ClaudeLines ==
  { Torn,
    [Line EXCEPT !.type = "progress"],
    Strange([Line EXCEPT !.type = "never-seen"]),
    [Line EXCEPT !.type = "system", !.subtype = "compact_boundary"],
    Telling([Line EXCEPT !.type = "user", !.text = Word("w1")],
            <<Texts("user", <<"w1">>)>>),
    \* Texts around a call, and something unheard of.
    Strange(ClaudeLine("assistant",
      <<ThinkingPart, TextPart(Word("w2")), TextPart(Word("w3")),
        CallPart(C1, Read1, <<".", "a.ts">>), TextPart(Word("w4")), ImagePart>>,
      <<Texts("agent", <<"w2", "w3">>), Called(C1, Read1, A),
        Texts("agent", <<"w4">>)>>)),
    \* Two calls at once, one without an id, of one file.
    ClaudeLine("assistant",
      <<TextPart(Blank), RedactedPart, CallPart(C2, Read1, A),
        ShellPart(None, <<"rtk", "cat", "-n", "a.ts">>)>>,
      <<Called(C2, Read1, A), Called(None, <<"Bash">>, A)>>),
    \* Their results, in the other order, one of them in the event.
    [ClaudeLine("user",
       <<ResultPart(C2, Output("")), ResultPart(C1, Output("o1"))>>,
       <<Answered(C2, "o2"), Answered(C1, "o1")>>)
       EXCEPT !.toolUseResult = Output("o2")],
    ClaudeLine("user", <<ResultPart(None, Output("o3"))>>, <<Answered(None, "o3")>>),
    Telling([Line EXCEPT !.type = "user", !.role = "user", !.toolUseResult = Output("o4")],
            <<Answered(None, "o4")>>) }

CursorLine(role, parts, tells) ==
  [Line EXCEPT !.role = role, !.parts = parts, !.tells = tells]

CursorLines ==
  { Torn, NoRecord,
    [Line EXCEPT !.json = "empty"],
    [Line EXCEPT !.type = "turn_ended"],
    Strange(Line),
    Strange([Line EXCEPT !.type = "never-seen"]),
    Telling([Line EXCEPT !.role = "user", !.text = Word("w1")],
            <<Texts("user", <<"w1">>)>>),
    [Line EXCEPT !.role = "user", !.text = Blank],
    CursorLine("assistant",
      <<TextPart(Word("w2")), CallPart(None, Read1, <<"<workspace>", "a.ts">>),
        CallPart(None, Read1, A)>>,
      <<Texts("agent", <<"w2">>), Called(None, Read1, A), Called(None, Read1, A)>>),
    CursorLine("assistant",
      <<CallPart(C1, Read1, <<"s", "a.ts">>),
        CallPart(C2, Read1, <<"/", "q", "s", "a.ts">>),
        CallPart(C3, Read1, <<"..", "a.ts">>)>>,
      <<Called(C1, Read1, B), Called(C2, Read1, <<"/", "q", "s", "a.ts">>),
        Called(C3, Read1, Outside)>>),
    \* Other spellings of what is outside, and two of a directory inside.
    CursorLine("assistant",
      <<CallPart(C4, Read1, Outside),
        CallPart(None, Read1, <<"<workspace>", "..", "a.ts">>),
        GlobPart(<<".", "s", "**">>), CallPart(None, <<"ls">>, Sub)>>,
      <<Called(C4, Read1, Outside), Called(None, Read1, Outside),
        Called(None, <<"Glob">>, Sub), Called(None, <<"ls">>, Sub)>>),
    Strange(CursorLine("user", <<ResultPart(C1, Output("o1")), ImagePart>>,
                       <<Answered(C1, "o1")>>)),
    Telling([Line EXCEPT !.role = "tool", !.callId = C2, !.output = Output("o2")],
            <<Answered(C2, "o2")>>) }

\* An envelope of an item.
ResponseItem(itemType, tells) ==
  [Line EXCEPT !.type = "response_item", !.payload = TRUE, !.itemType = itemType,
               !.tells = tells]
CodexCall(id, itemId, path, target) ==
  [ResponseItem("function_call", <<Called(id, Read1, target)>>) EXCEPT
     !.callId = id, !.id = itemId, !.name = Read1, !.path = path]
CodexOutput(id, output) ==
  [ResponseItem("function_call_output", <<Answered(id, output)>>) EXCEPT
     !.callId = id, !.output = Output(output)]

CodexLines ==
  { Torn, NoRecord,
    [Line EXCEPT !.type = "session_meta", !.payload = TRUE, !.sessionId = "uuid",
                 !.cwd = Repo],
    [Line EXCEPT !.type = "turn_context", !.payload = TRUE, !.cwd = Repo],
    [Line EXCEPT !.type = "event_msg", !.payload = TRUE],
    Strange([Line EXCEPT !.type = "never-seen", !.payload = TRUE]),
    ResponseItem("reasoning", <<>>),
    [ResponseItem("message", <<Texts("developer", <<"w1">>)>>) EXCEPT
       !.role = "developer", !.text = Word("w1")],
    [ResponseItem("message", <<Texts("agent", <<>>)>>) EXCEPT !.role = "assistant"],
    \* A call by itself, without its envelope.
    [CodexCall(C1, I1, <<"a.ts">>, A) EXCEPT
       !.type = "function_call", !.payload = FALSE, !.itemType = None],
    CodexCall(C2, None, A, A),
    CodexCall(None, None, <<"s", "a.ts">>, B),
    CodexOutput(C1, "o1"), CodexOutput(C2, "o2"), CodexOutput(None, "o3") }

VendorLines == [claude |-> ClaudeLines, cursor |-> CursorLines, codex |-> CodexLines]

-----------------------------------------------------------------------------
\* An agent that changes directory, and one that pipes a file.
Reading(id, path, cwd, target) ==
  [ClaudeLine("assistant", <<CallPart(id, Read1, path)>>, <<Called(id, Read1, target)>>)
     EXCEPT !.cwd = cwd]
Answering(id) ==
  [ClaudeLine("user", <<ResultPart(id, Output(id[1]))>>, <<Answered(id, id[1])>>)
     EXCEPT !.cwd = Repo]

MovingLines ==
  [claude |->
     { Reading(C1, A, Repo, A), Answering(C1),
       Reading(C2, B, Sub, B), Answering(C2),
       Reading(C3, A, Repo, A),
       Telling([Line EXCEPT !.type = "user", !.text = Word("w1")],
               <<Texts("user", <<"w1">>)>>) }]
=============================================================================
