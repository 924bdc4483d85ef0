---------------------------- MODULE ContextItems ----------------------------
(***************************************************************************)
(* What a session is made of (packages/core/src/types.ts) and what the     *)
(* rules read off one item: its file, its outcome, the keys under which    *)
(* other items concern the same subject (classify.ts, file-state.ts,       *)
(* signals.ts, origin.ts).                                                 *)
(*                                                                         *)
(* Strings are abstracted to names.  A tool keeps the fields classifyTool  *)
(* and buildToolMeta compute from a call; a result keeps the normalized    *)
(* output, the two error fields, what the output says about itself, and    *)
(* whether it exceeds its budget; a message keeps what the regular         *)
(* expressions of signals.ts and origin.ts find in it.                     *)
(***************************************************************************)
EXTENDS Naturals, Sequences

CONSTANT None       \* an absent field

Roles == {"user", "assistant", "system", "tool"}
ToolKinds == {"file_read", "file_write", "git_status", "git_diff",
              "directory_list", "test_run", "build_run", "command", "other"}

\* undefined is no string.
ASSUME NoneAssumption == None \notin ToolKinds

\* a ?? b
Or(a, b) == IF a # None THEN a ELSE b

\* A message keeps its origin, whether it is an acknowledgement (isAck) and
\* whether it states a constraint (constraint wording, or metadata.constraint,
\* or metadata.protect).  messageIds: the messages an item was made from; callId:
\* the id of its call (tool.callId in the code).
MessageItem(role, text, id) ==
  [kind |-> "message", role |-> role, text |-> text, callId |-> None,
   tool |-> None, result |-> None, messageIds |-> <<id>>]
ToolPair(callId, tool, result, callMessage, resultMessage) ==
  [kind |-> "tool_pair", role |-> None, text |-> None, callId |-> callId,
   tool |-> tool, result |-> result, messageIds |-> <<callMessage, resultMessage>>]
UnpairedCall(callId, tool, id) ==
  [kind |-> "unpaired_tool_call", role |-> "assistant", text |-> None,
   callId |-> callId, tool |-> tool, result |-> None, messageIds |-> <<id>>]

\* Nothing is known about the call of an orphan result but its name and the id the
\* result names, if it names one.
UnpairedResult(name, callId, result, id) ==
  [kind |-> "unpaired_tool_result", role |-> "tool", text |-> None,
   callId |-> callId,
   tool |-> [name |-> Or(name, "unknown"), kind |-> "other", path |-> None,
             normalizedPath |-> None, command |-> None, testTarget |-> None,
             glob |-> None, pattern |-> None, args |-> None],
   result |-> result, messageIds |-> <<id>>]

-----------------------------------------------------------------------------
IsTool(item) == item.tool # None
OfKind(item, kind) == IsTool(item) /\ item.tool.kind = kind
IsFileOp(item) == OfKind(item, "file_read") \/ OfKind(item, "file_write")

\* itemPath, for the items the file rules look at.
ItemPath(item) == Or(item.tool.normalizedPath, item.tool.path)
OnFile(item, path) == IsFileOp(item) /\ ItemPath(item) = path

IsCompressibleToolItem(item) ==
  item.kind \in {"tool_pair", "unpaired_tool_result"}

\* says: what the wording of a test or build output claims, both at once if
\* the output mentions both.
OutputSays(item, claim) == item.result # None /\ claim \in item.result.says

IsToolFailure(item) ==
  \/ item.result # None /\ item.result.isError
  \/ item.result # None /\ item.result.exit = "nonzero"
  \/ /\ item.tool.kind \in {"test_run", "build_run"}
     /\ OutputSays(item, "failed")

IsToolSuccess(item) ==
  /\ ~(item.result # None /\ item.result.isError)
  /\ \/ item.result # None /\ item.result.exit = "zero"
     \/ item.tool.kind = "test_run" /\ OutputSays(item, "passed")

FailureKey(tool) ==
  CASE tool.kind = "test_run" ->
         <<"test", Or(tool.testTarget, Or(tool.command, "tests"))>>
    [] tool.kind = "command" /\ tool.command # None ->
         <<tool.kind, tool.command>>
    [] OTHER -> <<tool.kind, Or(tool.path, tool.command)>>

\* The hash of the normalized output; a call without a result is hashed by its
\* own text.
NormalizedHash(item) ==
  IF item.result # None THEN <<"output", item.result.output>>
                        ELSE <<"call", item.tool.name, item.tool.args>>

-----------------------------------------------------------------------------
(* What signals.ts and origin.ts find in messages.                         *)

IsMessageOf(item, role) == item.kind = "message" /\ item.role = role
IsConstraintMessage(item) == IsMessageOf(item, "user") /\ item.text.constraint
IsSubstantive(item) == IsMessageOf(item, "user") /\ ~item.text.ack

ItemLooksLikeSafetyInstruction(item) ==
  /\ item.kind = "message"
  /\ item.text.origin # "plugin"
  /\ \/ item.text.origin \in {"system", "developer"}
     \/ item.role = "system"
=============================================================================
