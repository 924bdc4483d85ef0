------------------------ MODULE MCSessionCompaction ------------------------
(***************************************************************************)
(* SessionCompaction over five vocabularies: what agents do to files and   *)
(* repositories, how tests and commands end, what is said, and in which    *)
(* order calls and results come.  Each tool is what classifyTool makes of  *)
(* a call agents really issue.                                             *)
(***************************************************************************)
EXTENDS SessionCompaction

Tool(name, kind, path, command, target) ==
  [name |-> name, kind |-> kind, path |-> path, normalizedPath |-> path,
   command |-> command, testTarget |-> target, glob |-> None,
   pattern |-> None, args |-> command]

ReadA    == Tool("Read", "file_read", "a.ts", None, None)
CatA     == [Tool("Bash", "file_read", "./a.ts", "cat ./a.ts", None) EXCEPT
               !.normalizedPath = "a.ts"]
WriteA   == Tool("Write", "file_write", "a.ts", None, None)
Status   == Tool("Bash", "git_status", None, "git status", None)
ListSrc  == Tool("Bash", "directory_list", "src", "ls src", None)
TestA    == Tool("Bash", "test_run", None, "vitest a.test.ts", "a.test.ts")
QuickA   == Tool("Bash", "test_run", None, "vitest --bail a.test.ts", "a.test.ts")
Make     == Tool("Bash", "command", None, "make", None)

Result(output, isError, exit, says, large) ==
  [output |-> output, isError |-> isError, exit |-> exit, says |-> says,
   large |-> large]
Plain  == Result("text", FALSE, None, {}, FALSE)
Long   == Result("long", FALSE, None, {}, TRUE)
Ok     == Result("ok", FALSE, "zero", {}, FALSE)
Failed == Result("no", FALSE, "nonzero", {}, FALSE)
Error  == Result("no", TRUE, "zero", {}, FALSE)
Passed == Result("1 passed", FALSE, None, {"passed"}, FALSE)
Broken == Result("1 failed", FALSE, None, {"failed"}, TRUE)
\* Exit code 0, but the output says failed.
Mixed  == Result("failed?", FALSE, "zero", {"failed"}, FALSE)

Message(role, id, text, calls, results, result) ==
  [role |-> role, toolCallId |-> id, name |-> None, text |-> text,
   calls |-> calls, results |-> results, result |-> result]
Call(id, tool) ==
  Message("assistant", None, None, <<[id |-> id, tool |-> tool]>>, <<>>, None)
Answer(id, result) == Message("tool", id, None, <<>>, <<>>, result)
\* A call together with its result.
Ran(tool, result) ==
  Message("assistant", None, None, <<[id |-> "now", tool |-> tool]>>,
          <<[toolCallId |-> "now", result |-> result]>>, None)
Says(role, origin, ack, constraint) ==
  Message(role, None,
          [origin |-> origin, ack |-> ack, constraint |-> constraint],
          <<>>, <<>>, None)

FileMessages ==
  { Ran(ReadA, Plain), Ran(CatA, Long), Ran(WriteA, Plain),
    Ran(Status, Plain), Ran(ListSrc, Plain),
    Call("c1", ReadA), Call("c2", Status), Answer("c1", Plain),
    Answer("c2", Plain) }

OutcomeMessages ==
  { Ran(TestA, Passed), Ran(TestA, Broken), Ran(TestA, Mixed),
    Ran(QuickA, Broken), Ran(QuickA, Plain), Ran(Make, Ok), Ran(Make, Failed),
    Ran(Make, Error), Call("c1", TestA), Answer("c1", Passed),
    Answer(None, Failed) }

TalkMessages ==
  { Says("user", "user", FALSE, FALSE), Says("user", "user", TRUE, FALSE),
    Says("user", "user", FALSE, TRUE), Says("user", "plugin", FALSE, FALSE),
    Says("system", "developer", FALSE, FALSE),
    Says("system", "plugin", FALSE, FALSE),
    Says("assistant", "agent", FALSE, FALSE),
    Ran(Make, Long), Call("c1", Make), Answer("c1", Plain) }

\* Two ids that are reissued, results by tool message and inline, in any order.
Build  == Tool("Bash", "command", None, "build", None)
Deploy == Tool("Bash", "command", None, "deploy", None)
Both == <<[id |-> "c1", tool |-> Build], [id |-> "c2", tool |-> Deploy]>>
Inline(id) == [toolCallId |-> id, result |-> Plain]
Remark == [origin |-> "agent", ack |-> FALSE, constraint |-> FALSE]

PairingMessages ==
  {Call(id, tool) : id \in {"c1", "c2"}, tool \in {Build, Deploy}} \cup
  {Answer(id, Plain) : id \in {"c1", "c2", None}} \cup
  {Message("user", "c1", None, <<>>, <<>>, Plain),
   Message("assistant", None, Remark, <<Head(Both)>>, <<Inline("c1")>>, None),
   Message("assistant", None, None, Both, <<>>, None),
   Message("user", None, Remark, <<>>, <<Inline("c2"), Inline("c1")>>, None)}

\* Listings by a tool that has no command, only a pattern; an id reissued for a
\* call of another kind.
Glob(pattern) ==
  [Tool("Glob", "directory_list", pattern, None, None) EXCEPT
     !.glob = pattern, !.args = pattern]

ListingMessages ==
  { Ran(Glob("src"), Plain), Ran(Glob("test"), Plain), Ran(Glob("test"), Long),
    Ran(Status, Plain), Call("c1", Status), Call("c1", Make),
    Answer("c1", Plain) }

\* Calls whose results the vendor does not record (Cursor transcripts).
UnansweredMessages ==
  { Call(id, tool) : id \in {"c1", "c2", "c3"}, tool \in {Make, ReadA} }

-----------------------------------------------------------------------------
\* A session keeps to one vocabulary.
CONSTANT Chosen
VARIABLE vocabulary

Vocabulary == [files |-> FileMessages, outcomes |-> OutcomeMessages,
               talk |-> TalkMessages, pairing |-> PairingMessages,
               listings |-> ListingMessages,
               unanswered |-> UnansweredMessages]
AllMessages == UNION {Vocabulary[v] : v \in DOMAIN Vocabulary}

VocabularyInit == Init /\ vocabulary \in Chosen
VocabularyNext ==
  /\ \E m \in Vocabulary[vocabulary] : Read(m)
  /\ UNCHANGED vocabulary
VocabularySpec == VocabularyInit /\ [][VocabularyNext]_<<normalizeVars, vocabulary>>
=============================================================================
