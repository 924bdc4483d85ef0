----------------------------- MODULE Normalize -----------------------------
(***************************************************************************)
(* normalizeTranscript (packages/core/src/normalize.ts): the loop that     *)
(* pairs tool calls with their results.  Every step reads one message.     *)
(* The host analyzes a session again whenever it has grown, so the         *)
(* transcript is not fixed in advance: after every message, Session is     *)
(* what the function would return if the transcript ended there.           *)
(***************************************************************************)
EXTENDS ContextItems, SequencesExt

CONSTANTS
  Messages,       \* messages an adapter can produce
  MaxMessages     \* bound on the length of the transcript

ASSUME MaxMessagesAssumption == MaxMessages \in Nat

IsToolMessage(m) ==
  \/ m.role = "tool"
  \/ m.toolCallId # None /\ m.role # "assistant"

\* The calls and the inline results of a message are arrays; a call has an id and
\* a tool, and what answers one has a result.
ASSUME MessagesAssumption ==
  \A m \in Messages :
    /\ m.calls \in Seq(ToSet(m.calls)) /\ m.results \in Seq(ToSet(m.results))
    /\ \A call \in ToSet(m.calls) : call.id # None /\ call.tool # None
    /\ \A r \in ToSet(m.results) : r.result # None
    /\ IsToolMessage(m) => m.result # None

VARIABLES
  transcript,     \* messages read so far
  items,          \* items pushed so far
  pending         \* the Map of calls without a result, in insertion order

normalizeVars == <<transcript, items, pending>>

Init == /\ transcript = <<>>
        /\ items = <<>>
        /\ pending = <<>>

\* Mutant: Map.set by pushing.
SetPendingAppends(map, call) == Append(map, call)

\* Map.set: a known key keeps its place and takes the new value.
SetPending(map, call) ==
  IF \E k \in DOMAIN map : map[k].id = call.id
  THEN [k \in DOMAIN map |-> IF map[k].id = call.id THEN call ELSE map[k]]
  ELSE Append(map, call)

HasPending(map, id) == \E k \in DOMAIN map : map[k].id = id
PlaceOf(map, id) == CHOOSE k \in DOMAIN map : map[k].id = id
GetPending(map, id) == map[PlaceOf(map, id)]

\* Map.delete of a key the Map holds.
DeletePending(map, id) == RemoveAt(map, PlaceOf(map, id))

\* The Map after the calls of a message were set, in the order of the array.
SetCalls(map, calls) ==
  LET after[n \in 0 .. Len(calls)] ==
        IF n = 0 THEN map ELSE SetPending(after[n - 1], calls[n])
  IN  after[Len(calls)]

-----------------------------------------------------------------------------
\* The message being read.
Here == Len(transcript) + 1

\* Mutant: the paired call stays pending.
PairUpKeepsPending(state, id, result) ==
  LET call == GetPending(state.pending, id) IN
  [state EXCEPT
     !.items = Append(@, ToolPair(call.id, call.tool, result, call.messageId, Here))]

\* emitPair: the pending call becomes an item, with its result.
PairUp(state, id, result) ==
  LET call == GetPending(state.pending, id) IN
  [items   |-> Append(state.items,
                      ToolPair(call.id, call.tool, result, call.messageId, Here)),
   pending |-> DeletePending(state.pending, id)]

\* A result pairs with the pending call it names, or stands alone.
ReadToolMessage(m) ==
  /\ IsToolMessage(m)
  /\ IF m.toolCallId # None /\ HasPending(pending, m.toolCallId)
     THEN LET paired == PairUp([items |-> items, pending |-> pending],
                               m.toolCallId, m.result)
          IN  items' = paired.items /\ pending' = paired.pending
     ELSE /\ items' = Append(items, UnpairedResult(m.name, m.toolCallId, m.result, Here))
          /\ UNCHANGED pending

\* An inline result pairs with the pending call it names, or is lost.
ReadInline(state, r) ==
  IF HasPending(state.pending, r.toolCallId)
  THEN PairUp(state, r.toolCallId, r.result)
  ELSE state

\* The items and the Map after every inline result, in the order of the array.
ReadResults(begun, results) ==
  LET after[n \in 0 .. Len(results)] ==
        IF n = 0 THEN begun ELSE ReadInline(after[n - 1], results[n])
  IN  after[Len(results)]

\* Any other message: its text, then its calls, then its inline results.
ReadMessage(m) ==
  /\ ~IsToolMessage(m)
  /\ LET said  == IF m.text = None THEN <<>>
                  ELSE <<MessageItem(m.role, m.text, Here)>>
         calls == [k \in DOMAIN m.calls |->
                     [id |-> m.calls[k].id, tool |-> m.calls[k].tool,
                      messageId |-> Here]]
         begun == [items |-> items \o said,
                   pending |-> SetCalls(pending, calls)]
         read  == ReadResults(begun, m.results)
     IN  /\ items' = read.items
         /\ pending' = read.pending

Read(m) ==
  /\ Len(transcript) < MaxMessages
  /\ ReadToolMessage(m) \/ ReadMessage(m)
  /\ transcript' = Append(transcript, m)

Next == \E m \in Messages : Read(m)

Spec == Init /\ [][Next]_normalizeVars

\* After the loop: calls still pending become items of their own, after
\* everything else, wherever they were issued.
Session ==
  items \o [k \in DOMAIN pending |->
              UnpairedCall(pending[k].id, pending[k].tool, pending[k].messageId)]

-----------------------------------------------------------------------------
\* What messages carry, and what items and pending calls are made of.
CallIds   == UNION {{call.id : call \in ToSet(m.calls)} : m \in Messages}
CallTools == UNION {{call.tool : call \in ToSet(m.calls)} : m \in Messages}
Results   == {m.result : m \in {n \in Messages : IsToolMessage(n)}} \cup
             UNION {{r.result : r \in ToSet(m.results)} : m \in Messages}
Positions == 1 .. MaxMessages

PendingCall == [id : CallIds, tool : CallTools, messageId : Positions]
Item ==
  {MessageItem(m.role, m.text, n) : m \in Messages, n \in Positions} \cup
  {ToolPair(id, tool, result, asked, answered) :
     id \in CallIds, tool \in CallTools, result \in Results,
     asked \in Positions, answered \in Positions} \cup
  {UnpairedResult(m.name, m.toolCallId, result, n) :
     m \in Messages, result \in Results, n \in Positions}

\* Items are made of what messages carry, none of them is a call without a
\* result, and the Map holds a key once.
TypeOK ==
  /\ transcript \in Seq(Messages)
  /\ Len(transcript) <= MaxMessages
  /\ items \in Seq(Item)
  /\ pending \in Seq(PendingCall)
  /\ \A j, k \in DOMAIN pending : pending[j].id = pending[k].id => j = k

\* The calls of a message under an id.  (A tool message is not asked for calls.)
CallsOf(m, id) ==
  {k \in DOMAIN m.calls : ~IsToolMessage(m) /\ m.calls[k].id = id}
Issues(m, id) == CallsOf(m, id) # {}

\* The call that Map.set leaves of several in one message with one id has this tool.
IssuesLast(m, id, tool) ==
  \E k \in CallsOf(m, id) :
    m.calls[k].tool = tool /\ \A j \in CallsOf(m, id) : j <= k

\* The inline results of a message that name an id.
InlineOf(m, id) == {k \in DOMAIN m.results : m.results[k].toolCallId = id}
Answers(m, id) ==
  IF IsToolMessage(m) THEN m.toolCallId = id ELSE InlineOf(m, id) # {}

\* The first result of a message that names an id.
GivesResult(m, id, result) ==
  IF IsToolMessage(m) THEN m.toolCallId = id /\ m.result = result
  ELSE \E k \in InlineOf(m, id) :
         m.results[k].result = result /\ \A j \in InlineOf(m, id) : k <= j

\* A call that message n issued under an id.
IsCallItem(item, n, id) ==
  /\ item.kind \in {"tool_pair", "unpaired_tool_call"}
  /\ item.callId = id /\ item.messageIds[1] = n

\* The id that message n issued is issued again before anything answers it.
Reissued(n, id) ==
  \E d \in n + 1 .. Len(transcript) :
    Issues(transcript[d], id) /\ \A k \in n .. d - 1 : ~Answers(transcript[k], id)

\* A pair joins a result to the call it answers: the last one issued under the
\* id the result names, whose tool it has.  The result is the first one since, and
\* no call is in two pairs.
PairsAnswerTheirCall ==
  \A i \in DOMAIN items :
    items[i].kind = "tool_pair" =>
      LET id == items[i].callId
          asked == items[i].messageIds[1]  answered == items[i].messageIds[2]
      IN  /\ answered \in DOMAIN transcript /\ asked \in 1 .. answered
          /\ IssuesLast(transcript[asked], id, items[i].tool)
          /\ GivesResult(transcript[answered], id, items[i].result)
          /\ \A n \in asked + 1 .. answered : ~Issues(transcript[n], id)
          /\ \A n \in asked .. answered - 1 : ~Answers(transcript[n], id)
          /\ \A j \in DOMAIN items :
               items[j].kind = "tool_pair" /\ IsCallItem(items[j], asked, id) => j = i

\* The items of some kinds that message n completed.
MadeAt(s, n, kinds) ==
  {i \in DOMAIN s : s[i].kind \in kinds /\ n = Last(s[i].messageIds)}

\* CLAUDE_COMPATIBILITY.md: "Missing results become unpaired_tool_call.  Orphan
\* results become unpaired_tool_result."  Every call of the transcript, unless
\* its id was reissued before it was answered, is in the session exactly once,
\* alone or with its result; nothing else is there as a call; and every tool
\* message's result is there exactly once, and so is every text.
NothingLost ==
  \A n \in DOMAIN transcript :
    LET m == transcript[n] IN
    /\ \A id \in CallIds :
         LET there == {i \in DOMAIN Session : IsCallItem(Session[i], n, id)} IN
         IF Issues(m, id) /\ ~Reissued(n, id)
         THEN \E i \in there : there = {i} /\ IssuesLast(m, id, Session[i].tool)
         ELSE there = {}
    /\ IsToolMessage(m) =>
         \E i \in DOMAIN Session :
           /\ MadeAt(Session, n, {"tool_pair", "unpaired_tool_result"}) = {i}
           /\ Session[i].result = m.result
    /\ ~IsToolMessage(m) /\ m.text # None =>
         \E i \in DOMAIN Session :
           MadeAt(Session, n, {"message"}) = {i} /\ Session[i].text = m.text
=============================================================================
