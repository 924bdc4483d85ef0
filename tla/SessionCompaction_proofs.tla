---------------------- MODULE SessionCompaction_proofs ----------------------
(***************************************************************************)
(* Theorems about normalization (calls, pairs and what is lost: at the     *)
(* end) and about what the rules decide, for any messages and sessions of  *)
(* any length.                                                             *)
(***************************************************************************)
EXTENDS SessionCompaction, ContextRules_proofs

-----------------------------------------------------------------------------
(* Normalize: the Map of pending calls and the items.                      *)

\* A Map: a sequence of entries with different keys.
Maps == {map \in Seq(PendingCall) :
           \A j, k \in DOMAIN map : map[j].id = map[k].id => j = k}

\* Setting a key keeps the Map a Map.
LEMMA SetPendingStaysMap ==
  ASSUME NEW map \in Maps, NEW call \in PendingCall
  PROVE  SetPending(map, call) \in Maps
<1>1. map \in Seq(PendingCall) /\ Len(map) \in Nat /\ DOMAIN map = 1 .. Len(map)
  BY DEF Maps
<1>2. CASE \E k \in DOMAIN map : map[k].id = call.id
  <2>. DEFINE new == [k \in DOMAIN map |-> IF map[k].id = call.id THEN call ELSE map[k]]
  <2>1. SetPending(map, call) = new
    BY <1>2 DEF SetPending
  <2>2. new \in Seq(PendingCall) /\ DOMAIN new = DOMAIN map
    BY <1>1
  <2>3. \A k \in DOMAIN map : new[k].id = map[k].id
    OBVIOUS
  <2>4. \A j, k \in DOMAIN new : new[j].id = new[k].id => j = k
    BY <2>2, <2>3 DEF Maps
  <2>. QED BY <2>1, <2>2, <2>4 DEF Maps
<1>3. CASE ~\E k \in DOMAIN map : map[k].id = call.id
  <2>. DEFINE new == Append(map, call)
  <2>1. SetPending(map, call) = new
    BY <1>3 DEF SetPending
  <2>2. /\ new \in Seq(PendingCall) /\ DOMAIN new = 1 .. Len(map) + 1
        /\ new[Len(map) + 1] = call
        /\ \A k \in 1 .. Len(map) : new[k] = map[k]
    BY <1>1
  <2>3. \A j, k \in DOMAIN new : new[j].id = new[k].id => j = k
    <3>1. ASSUME NEW j \in DOMAIN new, NEW k \in DOMAIN new, new[j].id = new[k].id
          PROVE  j = k
      <4>1. j \in 1 .. Len(map) \/ j = Len(map) + 1
        BY <2>2, <1>1
      <4>2. k \in 1 .. Len(map) \/ k = Len(map) + 1
        BY <2>2, <1>1
      <4>. QED BY <4>1, <4>2, <3>1, <2>2, <1>1, <1>3 DEF Maps
    <3>. QED BY <3>1
  <2>. HIDE DEF new
  <2>. QED BY <2>1, <2>2, <2>3 DEF Maps
<1>. QED BY <1>2, <1>3

\* The calls of a message, set one after the other: if what setting the n-th makes of
\* a Map in G[n - 1] is in G[n], the Map in the end is in the last of them.
LEMMA SetCallsReaches ==
  ASSUME NEW P, NEW calls \in Seq(P), NEW G, NEW map \in G[0],
         \A n \in 1 .. Len(calls) : \A x \in G[n - 1] : SetPending(x, calls[n]) \in G[n]
  PROVE  SetCalls(map, calls) \in G[Len(calls)]
<1>. DEFINE after[n \in 0 .. Len(calls)] ==
              IF n = 0 THEN map ELSE SetPending(after[n - 1], calls[n])
            M == UNION {G[k] : k \in 0 .. Len(calls)}
            step == [x \in M \X (1 .. Len(calls)) |->
                       IF x[1] \in G[x[2] - 1] THEN SetPending(x[1], calls[x[2]]) ELSE map]
<1>1. Len(calls) \in Nat
  OBVIOUS
<1>2. \A n \in 0 .. Len(calls) : \A x \in G[n] : x \in M
  OBVIOUS
<1>. HIDE DEF M
<1>3. map \in M
  BY <1>1, <1>2
<1>4. step \in Steps(M, Len(calls))
  <2>1. ASSUME NEW x \in M \X (1 .. Len(calls)) PROVE step[x] \in M
    <3>1. x[2] \in 1 .. Len(calls) /\ x[2] \in 0 .. Len(calls)
      BY <1>1
    <3>2. CASE x[1] \in G[x[2] - 1]
      <4>1. SetPending(x[1], calls[x[2]]) \in G[x[2]]
        BY <3>1, <3>2
      <4>. QED BY <4>1, <3>1, <3>2, <1>2
    <3>. QED BY <3>2, <1>3
  <2>2. step = [x \in M \X (1 .. Len(calls)) |-> step[x]]
    OBVIOUS
  <2>. HIDE DEF step
  <2>. QED BY <2>1, <2>2 DEF Steps
<1>. HIDE DEF step
<1>5. PICK f : IsFold(f, M, Len(calls), map, step)
  BY <1>1, <1>3, <1>4, FoldExists
<1>6. 0 .. Len(calls) \subseteq {n \in 0 .. Len(calls) : f[n] \in G[n]}
  <2>. DEFINE T == {n \in 0 .. Len(calls) : f[n] \in G[n]}
  <2>1. 0 \in T
    BY <1>1, <1>5 DEF IsFold
  <2>2. ASSUME NEW n \in 1 .. Len(calls), n - 1 \in T PROVE n \in T
    <3>1. f[n - 1] \in G[n - 1] /\ f[n - 1] \in M /\ n \in 0 .. Len(calls)
      BY <2>2, <1>1, <1>5 DEF IsFold
    <3>2. step[<<f[n - 1], n>>] = SetPending(f[n - 1], calls[n])
      BY <3>1 DEF step
    <3>3. f[n] = SetPending(f[n - 1], calls[n])
      BY <3>2, <1>5 DEF IsFold
    <3>. QED BY <3>1, <3>3
  <2>. HIDE DEF T
  <2>3. 0 .. Len(calls) \subseteq T
    BY <1>1, <2>1, <2>2, UpTo
  <2>. QED BY <2>3 DEF T
<1>7. \A n \in 0 .. Len(calls) :
        f[n] = IF n = 0 THEN map ELSE SetPending(f[n - 1], calls[n])
  <2>1. ASSUME NEW n \in 1 .. Len(calls) PROVE f[n] = SetPending(f[n - 1], calls[n])
    <3>1. n - 1 \in 0 .. Len(calls)
      BY <1>1
    <3>2. f[n - 1] \in G[n - 1] /\ f[n - 1] \in M
      BY <3>1, <1>5, <1>6 DEF IsFold
    <3>3. step[<<f[n - 1], n>>] = SetPending(f[n - 1], calls[n])
      BY <3>2 DEF step
    <3>. QED BY <3>3, <1>5 DEF IsFold
  <2>. QED BY <2>1, <1>1, <1>5 DEF IsFold
<1>8. f = [n \in 0 .. Len(calls) |->
             IF n = 0 THEN map ELSE SetPending(f[n - 1], calls[n])]
  BY <1>5, <1>7 DEF IsFold
<1>9. after = [n \in 0 .. Len(calls) |->
                 IF n = 0 THEN map ELSE SetPending(after[n - 1], calls[n])]
  BY <1>8
<1>. HIDE DEF after
<1>10. 0 .. Len(calls) \subseteq {n \in 0 .. Len(calls) : after[n] \in G[n]}
  <2>. DEFINE T == {n \in 0 .. Len(calls) : after[n] \in G[n]}
  <2>1. 0 \in T
    BY <1>1, <1>9
  <2>2. ASSUME NEW n \in 1 .. Len(calls), n - 1 \in T PROVE n \in T
    <3>1. after[n] = SetPending(after[n - 1], calls[n])
      BY <1>9
    <3>. QED BY <3>1, <2>2
  <2>. HIDE DEF T
  <2>3. 0 .. Len(calls) \subseteq T
    BY <1>1, <2>1, <2>2, UpTo
  <2>. QED BY <2>3 DEF T
<1>11. SetCalls(map, calls) = after[Len(calls)]
  BY DEF SetCalls, after
<1>. QED BY <1>1, <1>10, <1>11

\* So they keep what each keeps.
LEMMA SetCallsStays ==
  ASSUME NEW M, NEW map \in M, NEW calls \in Seq(PendingCall),
         \A x \in M, c \in PendingCall : SetPending(x, c) \in M
  PROVE  SetCalls(map, calls) \in M
<1>. DEFINE G == [n \in 0 .. Len(calls) |-> M]
<1>1. Len(calls) \in Nat /\ \A n \in 1 .. Len(calls) : calls[n] \in PendingCall
  OBVIOUS
<1>2. \A n \in 0 .. Len(calls) : G[n] = M
  OBVIOUS
<1>. HIDE DEF G
<1>3. map \in G[0]
  BY <1>1, <1>2
<1>4. ASSUME NEW n \in 1 .. Len(calls), NEW x \in G[n - 1]
      PROVE  SetPending(x, calls[n]) \in G[n]
  <2>1. G[n - 1] = M /\ G[n] = M
    BY <1>1, <1>2
  <2>. QED BY <2>1, <1>1
<1>5. SetCalls(map, calls) \in G[Len(calls)]
  BY <1>3, <1>4, SetCallsReaches
<1>. QED BY <1>1, <1>2, <1>5

\* Deleting a key the Map holds keeps it a Map.
LEMMA DeletePendingStaysMap ==
  ASSUME NEW map \in Maps, NEW id, HasPending(map, id)
  PROVE  /\ DeletePending(map, id) \in Maps
         /\ GetPending(map, id) \in PendingCall
         /\ GetPending(map, id).id = id
<1>1. map \in Seq(PendingCall) /\ Len(map) \in Nat /\ DOMAIN map = 1 .. Len(map)
  BY DEF Maps
<1>. DEFINE k == PlaceOf(map, id)
<1>2. k \in 1 .. Len(map) /\ map[k].id = id
  BY <1>1 DEF HasPending, PlaceOf
<1>. HIDE DEF k
<1>3. GetPending(map, id) = map[k]
  BY DEF GetPending, k
<1>4. DeletePending(map, id) = SubSeq(map, 1, k - 1) \o SubSeq(map, k + 1, Len(map))
  BY DEF DeletePending, RemoveAt, k
<1>. DEFINE new == SubSeq(map, 1, k - 1) \o SubSeq(map, k + 1, Len(map))
<1>. HIDE DEF new
<1>6. /\ new \in Seq(PendingCall) /\ Len(new) = Len(map) - 1
      /\ \A j \in 1 .. Len(map) - 1 : new[j] = IF j < k THEN map[j] ELSE map[j + 1]
  BY <1>1, <1>2, WithoutElement DEF new
<1>7. ASSUME NEW i \in DOMAIN new, NEW j \in DOMAIN new, new[i].id = new[j].id
      PROVE  i = j
  <2>. DEFINE Old(n) == IF n < k THEN n ELSE n + 1
  <2>1. i \in 1 .. Len(map) - 1 /\ j \in 1 .. Len(map) - 1
    BY <1>6
  <2>2. Old(i) \in DOMAIN map /\ Old(j) \in DOMAIN map
    BY <2>1, <1>1, <1>2
  <2>3. new[i] = map[Old(i)] /\ new[j] = map[Old(j)]
    BY <2>1, <1>6
  <2>4. Old(i) = Old(j)
    <3>. HIDE DEF Old
    <3>. QED BY <2>2, <2>3, <1>7 DEF Maps
  <2>. QED BY <2>1, <2>4, <1>1, <1>2
<1>8. new \in Maps
  BY <1>6, <1>7 DEF Maps
<1>. QED BY <1>1, <1>2, <1>3, <1>4, <1>8 DEF new

\* What one message leaves: items of the session and a Map.
Reading == [items : Seq(Item), pending : Maps]

\* Pairing a pending call with a result, one step of reading inline results.
LEMMA PairUpStaysReading ==
  ASSUME NEW state \in Reading, NEW id, NEW result \in Results,
         HasPending(state.pending, id), Here \in Positions
  PROVE  PairUp(state, id, result) \in Reading
<1>. DEFINE call == GetPending(state.pending, id)
<1>1. state.items \in Seq(Item) /\ state.pending \in Maps
  BY DEF Reading
<1>2. call \in PendingCall /\ DeletePending(state.pending, id) \in Maps
  BY <1>1, DeletePendingStaysMap
<1>3. ToolPair(call.id, call.tool, result, call.messageId, Here) \in Item
  BY <1>2 DEF Item, PendingCall
<1>4. Append(state.items, ToolPair(call.id, call.tool, result, call.messageId, Here))
        \in Seq(Item)
  BY <1>1, <1>3
<1>. QED BY <1>2, <1>4 DEF PairUp, Reading

\* An inline result keeps them too.
LEMMA ReadInlineStaysReading ==
  ASSUME NEW state \in Reading, NEW r, r.result \in Results, Here \in Positions
  PROVE  ReadInline(state, r) \in Reading
  BY PairUpStaysReading DEF ReadInline

\* The inline results of a message, one after the other: if what reading the n-th
\* makes of a state in G[n - 1] is in G[n], the state in the end is in the last.
LEMMA ReadResultsReaches ==
  ASSUME NEW P, NEW results \in Seq(P), NEW G, NEW begun \in G[0],
         \A n \in 1 .. Len(results) : \A x \in G[n - 1] : ReadInline(x, results[n]) \in G[n]
  PROVE  ReadResults(begun, results) \in G[Len(results)]
<1>. DEFINE after[n \in 0 .. Len(results)] ==
              IF n = 0 THEN begun ELSE ReadInline(after[n - 1], results[n])
            M == UNION {G[k] : k \in 0 .. Len(results)}
            step == [x \in M \X (1 .. Len(results)) |->
                       IF x[1] \in G[x[2] - 1] THEN ReadInline(x[1], results[x[2]]) ELSE begun]
<1>1. Len(results) \in Nat
  OBVIOUS
<1>2. \A n \in 0 .. Len(results) : \A x \in G[n] : x \in M
  OBVIOUS
<1>. HIDE DEF M
<1>3. begun \in M
  BY <1>1, <1>2
<1>4. step \in Steps(M, Len(results))
  <2>1. ASSUME NEW x \in M \X (1 .. Len(results)) PROVE step[x] \in M
    <3>1. x[2] \in 1 .. Len(results) /\ x[2] \in 0 .. Len(results)
      BY <1>1
    <3>2. CASE x[1] \in G[x[2] - 1]
      <4>1. ReadInline(x[1], results[x[2]]) \in G[x[2]]
        BY <3>1, <3>2
      <4>. QED BY <4>1, <3>1, <3>2, <1>2
    <3>. QED BY <3>2, <1>3
  <2>2. step = [x \in M \X (1 .. Len(results)) |-> step[x]]
    OBVIOUS
  <2>. HIDE DEF step
  <2>. QED BY <2>1, <2>2 DEF Steps
<1>. HIDE DEF step
<1>5. PICK f : IsFold(f, M, Len(results), begun, step)
  BY <1>1, <1>3, <1>4, FoldExists
<1>6. 0 .. Len(results) \subseteq {n \in 0 .. Len(results) : f[n] \in G[n]}
  <2>. DEFINE T == {n \in 0 .. Len(results) : f[n] \in G[n]}
  <2>1. 0 \in T
    BY <1>1, <1>5 DEF IsFold
  <2>2. ASSUME NEW n \in 1 .. Len(results), n - 1 \in T PROVE n \in T
    <3>1. f[n - 1] \in G[n - 1] /\ f[n - 1] \in M /\ n \in 0 .. Len(results)
      BY <2>2, <1>1, <1>5 DEF IsFold
    <3>2. step[<<f[n - 1], n>>] = ReadInline(f[n - 1], results[n])
      BY <3>1 DEF step
    <3>3. f[n] = ReadInline(f[n - 1], results[n])
      BY <3>2, <1>5 DEF IsFold
    <3>. QED BY <3>1, <3>3
  <2>. HIDE DEF T
  <2>3. 0 .. Len(results) \subseteq T
    BY <1>1, <2>1, <2>2, UpTo
  <2>. QED BY <2>3 DEF T
<1>7. \A n \in 0 .. Len(results) :
        f[n] = IF n = 0 THEN begun ELSE ReadInline(f[n - 1], results[n])
  <2>1. ASSUME NEW n \in 1 .. Len(results) PROVE f[n] = ReadInline(f[n - 1], results[n])
    <3>1. n - 1 \in 0 .. Len(results)
      BY <1>1
    <3>2. f[n - 1] \in G[n - 1] /\ f[n - 1] \in M
      BY <3>1, <1>5, <1>6 DEF IsFold
    <3>3. step[<<f[n - 1], n>>] = ReadInline(f[n - 1], results[n])
      BY <3>2 DEF step
    <3>. QED BY <3>3, <1>5 DEF IsFold
  <2>. QED BY <2>1, <1>1, <1>5 DEF IsFold
<1>8. f = [n \in 0 .. Len(results) |->
             IF n = 0 THEN begun ELSE ReadInline(f[n - 1], results[n])]
  BY <1>5, <1>7 DEF IsFold
<1>9. after = [n \in 0 .. Len(results) |->
                 IF n = 0 THEN begun ELSE ReadInline(after[n - 1], results[n])]
  BY <1>8
<1>. HIDE DEF after
<1>10. 0 .. Len(results) \subseteq {n \in 0 .. Len(results) : after[n] \in G[n]}
  <2>. DEFINE T == {n \in 0 .. Len(results) : after[n] \in G[n]}
  <2>1. 0 \in T
    BY <1>1, <1>9
  <2>2. ASSUME NEW n \in 1 .. Len(results), n - 1 \in T PROVE n \in T
    <3>1. after[n] = ReadInline(after[n - 1], results[n])
      BY <1>9
    <3>. QED BY <3>1, <2>2
  <2>. HIDE DEF T
  <2>3. 0 .. Len(results) \subseteq T
    BY <1>1, <2>1, <2>2, UpTo
  <2>. QED BY <2>3 DEF T
<1>11. ReadResults(begun, results) = after[Len(results)]
  BY DEF ReadResults, after
<1>. QED BY <1>1, <1>10, <1>11

\* So all of them keep what each keeps.
LEMMA ReadResultsStays ==
  ASSUME NEW S, NEW begun \in S, NEW R, NEW results \in Seq(R),
         \A x \in S, r \in R : ReadInline(x, r) \in S
  PROVE  ReadResults(begun, results) \in S
<1>. DEFINE G == [n \in 0 .. Len(results) |-> S]
<1>1. Len(results) \in Nat /\ \A n \in 1 .. Len(results) : results[n] \in R
  OBVIOUS
<1>2. \A n \in 0 .. Len(results) : G[n] = S
  OBVIOUS
<1>. HIDE DEF G
<1>3. begun \in G[0]
  BY <1>1, <1>2
<1>4. ASSUME NEW n \in 1 .. Len(results), NEW x \in G[n - 1]
      PROVE  ReadInline(x, results[n]) \in G[n]
  <2>1. G[n - 1] = S /\ G[n] = S
    BY <1>1, <1>2
  <2>. QED BY <2>1, <1>1
<1>5. ReadResults(begun, results) \in G[Len(results)]
  BY <1>3, <1>4, ReadResultsReaches
<1>. QED BY <1>1, <1>2, <1>5

-----------------------------------------------------------------------------
(* TypeOK of Normalize.                                                    *)

\* What a message says is an item, and its calls are pending calls.
LEMMA MessageParts ==
  ASSUME NEW m \in Messages, Here \in Positions
  PROVE  /\ (IF m.text = None THEN <<>> ELSE <<MessageItem(m.role, m.text, Here)>>)
              \in Seq(Item)
         /\ [k \in DOMAIN m.calls |->
               [id |-> m.calls[k].id, tool |-> m.calls[k].tool, messageId |-> Here]]
              \in Seq(PendingCall)
<1>. DEFINE said  == IF m.text = None THEN <<>>
                     ELSE <<MessageItem(m.role, m.text, Here)>>
            calls == [k \in DOMAIN m.calls |->
                        [id |-> m.calls[k].id, tool |-> m.calls[k].tool,
                         messageId |-> Here]]
<1>1. said \in Seq(Item)
  <2>1. MessageItem(m.role, m.text, Here) \in Item
    BY DEF Item
  <2>. QED BY <2>1
<1>2. calls \in Seq(PendingCall)
  <2>1. /\ m.calls \in Seq(ToSet(m.calls)) /\ Len(m.calls) \in Nat
        /\ DOMAIN m.calls = 1 .. Len(m.calls)
        /\ \A k \in DOMAIN m.calls : m.calls[k] \in ToSet(m.calls)
    BY MessagesAssumption
  <2>2. \A k \in DOMAIN m.calls : m.calls[k].id \in CallIds /\ m.calls[k].tool \in CallTools
    BY <2>1 DEF CallIds, CallTools
  <2>3. \A k \in DOMAIN m.calls : calls[k] \in PendingCall
    BY <2>2 DEF PendingCall
  <2>4. DOMAIN calls = 1 .. Len(m.calls)
    BY <2>1
  <2>. HIDE DEF calls
  <2>5. calls = [k \in 1 .. Len(m.calls) |-> calls[k]]
    BY <2>4 DEF calls
  <2>6. calls \in [1 .. Len(m.calls) -> PendingCall]
    BY <2>1, <2>3, <2>5
  <2>. QED BY <2>1, <2>6
<1>. QED BY <1>1, <1>2

\* Reading a message keeps items items and the Map a Map.
LEMMA ReadPreservesTypeOK ==
  ASSUME TypeOK, NEW m \in Messages, Read(m)
  PROVE  TypeOK'
<1>1. /\ transcript \in Seq(Messages) /\ items \in Seq(Item) /\ pending \in Maps
      /\ Here \in Positions /\ Len(transcript) \in Nat
  BY MaxMessagesAssumption DEF TypeOK, Maps, Here, Positions, Read
<1>2. transcript' \in Seq(Messages) /\ Len(transcript') <= MaxMessages
  BY <1>1, MaxMessagesAssumption DEF Read
<1>3. items' \in Seq(Item) /\ pending' \in Maps
  <2>1. CASE ReadToolMessage(m)
    <3>1. CASE m.toolCallId # None /\ HasPending(pending, m.toolCallId)
      <4>. DEFINE state == [items |-> items, pending |-> pending]
      <4>1. state \in Reading /\ m.result \in Results
        BY <2>1, <1>1 DEF Reading, Results, ReadToolMessage
      <4>2. PairUp(state, m.toolCallId, m.result) \in Reading
        BY <4>1, <3>1, <1>1, PairUpStaysReading
      <4>3. /\ items' = PairUp(state, m.toolCallId, m.result).items
            /\ pending' = PairUp(state, m.toolCallId, m.result).pending
        BY <2>1, <3>1 DEF ReadToolMessage
      <4>. QED BY <4>2, <4>3 DEF Reading
    <3>2. CASE ~(m.toolCallId # None /\ HasPending(pending, m.toolCallId))
      <4>1. UnpairedResult(m.name, m.toolCallId, m.result, Here) \in Item
        BY <2>1, <1>1 DEF Item, Results, ReadToolMessage
      <4>. QED BY <4>1, <2>1, <3>2, <1>1 DEF ReadToolMessage
    <3>. QED BY <3>1, <3>2
  <2>2. CASE ReadMessage(m)
    <3>. DEFINE said  == IF m.text = None THEN <<>>
                         ELSE <<MessageItem(m.role, m.text, Here)>>
                calls == [k \in DOMAIN m.calls |->
                            [id |-> m.calls[k].id, tool |-> m.calls[k].tool,
                             messageId |-> Here]]
                begun == [items |-> items \o said, pending |-> SetCalls(pending, calls)]
    <3>1. said \in Seq(Item) /\ calls \in Seq(PendingCall)
      BY <1>1, MessageParts
    <3>3. begun \in Reading
      <4>1. SetCalls(pending, calls) \in Maps
        <5>. HIDE DEF calls
        <5>. QED BY <3>1, <1>1, SetPendingStaysMap, SetCallsStays
      <4>. QED BY <3>1, <4>1, <1>1 DEF Reading
    <3>4. m.results \in Seq(ToSet(m.results)) /\ \A r \in ToSet(m.results) : r.result \in Results
      BY MessagesAssumption DEF Results
    <3>5. ReadResults(begun, m.results) \in Reading
      <4>. HIDE DEF begun
      <4>1. \A x \in Reading, r \in ToSet(m.results) : ReadInline(x, r) \in Reading
        BY <3>4, <1>1, ReadInlineStaysReading
      <4>. QED BY <3>3, <3>4, <4>1, ReadResultsStays
    <3>6. /\ items' = ReadResults(begun, m.results).items
          /\ pending' = ReadResults(begun, m.results).pending
      BY <2>2 DEF ReadMessage
    <3>. QED BY <3>5, <3>6 DEF Reading
  <2>. QED BY <2>1, <2>2 DEF Read
<1>. QED BY <1>2, <1>3 DEF TypeOK, Maps

\* The session's parts have their types, and the Map holds a key once.
THEOREM TypeCorrect == Spec => []TypeOK
<1>1. Init => TypeOK
  BY MaxMessagesAssumption DEF Init, TypeOK
<1>2. TypeOK /\ [Next]_normalizeVars => TypeOK'
  <2>1. ASSUME TypeOK, UNCHANGED normalizeVars PROVE TypeOK'
    BY <2>1 DEF normalizeVars, TypeOK
  <2>. QED BY <2>1, ReadPreservesTypeOK DEF Next
<1>. QED BY <1>1, <1>2, PTL DEF Spec

-----------------------------------------------------------------------------
(* The decisions about a session, before and after the semantic layer.     *)

\* The deterministic decision about an item, and the merged one.
LEMMA DecisionsAreWinners ==
  ASSUME NEW s, NEW i \in DOMAIN s
  PROVE  /\ Deterministic(s)[i] = Winner(Said(s)[i], FALSE)
         /\ \A a : Merged(s, a)[i] = Winner(Said(s)[i] \cup {SemanticDecision(a)},
                                            i \in SemanticCandidates(s))
  BY DEF Deterministic, Merged

\* The deterministic decision is a verdict about what the rules said.
LEMMA DeterministicIsVerdict ==
  ASSUME NEW s, NEW i \in DOMAIN s
  PROVE  /\ Said(s)[i] \in SUBSET Decision
         /\ Deterministic(s)[i] \in Verdicts(Said(s)[i], FALSE)
         /\ Deterministic(s)[i] \in Decision
<1>1. Said(s)[i] \in SUBSET Decision
  BY SaidProperties
<1>2. Deterministic(s)[i] = Winner(Said(s)[i], FALSE)
  BY DecisionsAreWinners
<1>. QED BY <1>1, <1>2, WinnerIsVerdict

\* Every final decision is a verdict about what the rules said, and possibly
\* something more.
LEMMA FinalAreVerdicts ==
  ASSUME NEW s, NEW i \in DOMAIN s, NEW d \in FinalDecisions(s)[i]
  PROVE  \E said \in SUBSET Decision :
           Said(s)[i] \subseteq said /\ \E c \in BOOLEAN : d \in Verdicts(said, c)
<1>1. Said(s)[i] \in SUBSET Decision
  BY SaidProperties
<1>2. \/ d = Deterministic(s)[i]
      \/ \E a \in SemanticAnswers : d = Merged(s, a)[i]
  BY DEF FinalDecisions
<1>3. CASE d = Deterministic(s)[i]
  <2>1. d \in Verdicts(Said(s)[i], FALSE)
    BY <1>1, <1>3, DecisionsAreWinners, WinnerIsVerdict
  <2>. QED BY <1>1, <2>1
<1>4. ASSUME NEW a \in SemanticAnswers, d = Merged(s, a)[i]
      PROVE  \E said \in SUBSET Decision :
               Said(s)[i] \subseteq said /\ \E c \in BOOLEAN : d \in Verdicts(said, c)
  <2>. DEFINE said == Said(s)[i] \cup {SemanticDecision(a)}
              c == i \in SemanticCandidates(s)
  <2>1. said \in SUBSET Decision /\ c \in BOOLEAN
    BY <1>1, SemanticDecisionProperties
  <2>2. d = Winner(said, c)
    BY <1>4, DecisionsAreWinners
  <2>3. d \in Verdicts(said, c)
    <3>. HIDE DEF said, c
    <3>. QED BY <2>1, <2>2, WinnerIsVerdict
  <2>. QED BY <2>1, <2>3
<1>. QED BY <1>2, <1>3, <1>4

\* An item about which a rule says PROTECT is retained and not dropped, whatever
\* the semantic layer answers; if a rule forbids compression it stays verbatim.
LEMMA ProtectedFinally ==
  ASSUME NEW s, NEW i \in DOMAIN s, NEW r \in ProtectRules, i \in Emits(r, s),
         NEW d \in FinalDecisions(s)[i]
  PROVE  /\ d.retention = "protected" /\ d.action # "DROP"
         /\ r \in VerbatimRules => d.action = "PROTECT" /\ d.compression = "forbidden"
<1>1. PICK said \in SUBSET Decision :
        Said(s)[i] \subseteq said /\ \E c \in BOOLEAN : d \in Verdicts(said, c)
  BY FinalAreVerdicts
<1>2. r \in Rules
  BY DEF ProtectRules, SafetyRules, Rules
<1>3. Emission(r, s[i]) \in said /\ Emission(r, s[i]).action = "PROTECT"
  BY <1>1, <1>2, SaidProperties, EmissionProperties
<1>4. Retained(said)
  BY <1>3 DEF Retained, Retains
<1>5. r \in VerbatimRules => CompressionForbidden(said)
  BY <1>2, <1>3, EmissionProperties DEF CompressionForbidden
<1>. QED BY <1>1, <1>4, <1>5, RetainedVerdict

-----------------------------------------------------------------------------
(* The session, and what becomes of it.                                    *)

\* The session some items and pending calls make: the items, then the calls.
Shown(paired, calls) ==
  paired \o [k \in DOMAIN calls |->
               UnpairedCall(calls[k].id, calls[k].tool, calls[k].messageId)]

\* It is a sequence, whose places are those of the items and then of the calls.
LEMMA ShownIsSequence ==
  ASSUME NEW paired \in Seq(Item), NEW open \in Seq(PendingCall)
  PROVE  LET s == Shown(paired, open) IN
         /\ Len(s) \in Nat
         /\ DOMAIN s = 1 .. Len(s)
         /\ Len(s) = Len(paired) + Len(open)
         /\ \A i \in 1 .. Len(paired) : s[i] = paired[i]
         /\ \A k \in 1 .. Len(open) :
              s[Len(paired) + k] = UnpairedCall(open[k].id, open[k].tool, open[k].messageId)
<1>. DEFINE s == Shown(paired, open)
            calls == [k \in DOMAIN open |->
                         UnpairedCall(open[k].id, open[k].tool, open[k].messageId)]
            U == {UnpairedCall(c.id, c.tool, c.messageId) : c \in PendingCall}
<1>1. /\ Len(paired) \in Nat /\ Len(open) \in Nat
      /\ DOMAIN open = 1 .. Len(open)
  OBVIOUS
<1>2. \A k \in 1 .. Len(open) : calls[k] \in U
  BY <1>1
<1>3. calls \in Seq(U) /\ Len(calls) = Len(open)
  <2>1. calls = [k \in 1 .. Len(open) |-> calls[k]] /\ DOMAIN calls = 1 .. Len(open)
    BY <1>1
  <2>2. calls \in [1 .. Len(open) -> U]
    <3>. HIDE DEF calls, U
    <3>. QED BY <1>2, <2>1
  <2>. HIDE DEF calls, U
  <2>. QED BY <1>1, <2>2
<1>4. \A k \in 1 .. Len(open) :
        calls[k] = UnpairedCall(open[k].id, open[k].tool, open[k].messageId)
  BY <1>1
<1>5. s = paired \o calls
  BY DEF Shown
<1>. HIDE DEF calls, U, s
<1>6. paired \in Seq(Item \cup U) /\ calls \in Seq(Item \cup U)
  BY <1>3
<1>7. /\ paired \o calls \in Seq(Item \cup U)
      /\ Len(paired \o calls) = Len(paired) + Len(calls)
      /\ \A i \in 1 .. Len(paired) + Len(calls) : (paired \o calls)[i] =
                     IF i <= Len(paired) THEN paired[i] ELSE calls[i - Len(paired)]
  BY <1>6, ConcatProperties
<1>8. ASSUME NEW k \in 1 .. Len(open)
      PROVE  s[Len(paired) + k] = calls[k]
  <2>1. /\ Len(paired) + k \in 1 .. Len(paired) + Len(calls)
        /\ ~(Len(paired) + k <= Len(paired)) /\ (Len(paired) + k) - Len(paired) = k
    BY <1>1, <1>3
  <2>. QED BY <2>1, <1>5, <1>7
<1>9. ASSUME NEW k \in 1 .. Len(paired) PROVE s[k] = paired[k]
  <2>1. k \in 1 .. Len(paired) + Len(calls) /\ k <= Len(paired)
    BY <1>1, <1>3
  <2>. QED BY <2>1, <1>5, <1>7
<1>10. /\ Len(s) \in Nat
       /\ DOMAIN s = 1 .. Len(s)
       /\ Len(s) = Len(paired) + Len(open)
  BY <1>1, <1>3, <1>5, <1>7
<1>. QED BY <1>4, <1>8, <1>9, <1>10 DEF s

\* The session is what its parts make.
LEMMA SessionIsSequence ==
  ASSUME TypeOK
  PROVE  /\ Len(Session) \in Nat
         /\ DOMAIN Session = 1 .. Len(Session)
  BY ShownIsSequence DEF TypeOK, Session, Shown

\* Constraints, system and developer instructions, and the current task stay in
\* the context word for word, whatever the semantic layer answers.
THEOREM InstructionsStayVerbatimTheorem == Spec => []InstructionsStayVerbatim
<1>1. TypeOK => InstructionsStayVerbatim
  <2>. DEFINE s == Session
  <2>1. SUFFICES ASSUME TypeOK, NEW i \in DOMAIN s,
                   \/ ItemLooksLikeSafetyInstruction(s[i])
                   \/ IsConstraintMessage(s[i])
                   \/ /\ IsSubstantive(s[i])
                      /\ \A j \in i + 1 .. Len(s) : ~IsSubstantive(s[j]),
                   NEW d \in FinalDecisions(s)[i]
                 PROVE  d.action = "PROTECT" /\ d.compression = "forbidden"
    BY DEF InstructionsStayVerbatim
  <2>2. Len(s) \in Nat /\ DOMAIN s = 1 .. Len(s)
    BY <2>1, SessionIsSequence
  <2>. HIDE DEF s
  <2>3. CASE ItemLooksLikeSafetyInstruction(s[i])
    <3>1. i \in Emits("system-instructions", s)
      BY <2>1, <2>3 DEF Emits, SystemInstructions
    <3>. QED BY <3>1, <2>1, ProtectedFinally DEF ProtectRules, SafetyRules, VerbatimRules
  <2>4. CASE IsConstraintMessage(s[i])
    <3>1. i \in Emits("explicit-user-constraint", s)
      BY <2>1, <2>4 DEF Emits, ExplicitUserConstraints
    <3>. QED BY <3>1, <2>1, ProtectedFinally DEF ProtectRules, SafetyRules, VerbatimRules
  <2>5. CASE /\ IsSubstantive(s[i])
             /\ \A j \in i + 1 .. Len(s) : ~IsSubstantive(s[j])
    <3>. DEFINE substantive == {k \in {j \in DOMAIN s : IsMessageOf(s[j], "user")} :
                                  ~s[k].text.ack}
    <3>1. i \in substantive
      BY <2>1, <2>5 DEF IsSubstantive
    <3>2. \A j \in substantive : j \in 0 .. Len(s) /\ ~(j > i)
      BY <2>1, <2>2, <2>5 DEF IsSubstantive
    <3>3. CurrentTask(s) = {Max(substantive)}
      BY <3>1 DEF CurrentTask
    <3>. HIDE DEF substantive
    <3>4. Max(substantive) \in substantive /\ Max(substantive) >= i
      <4>1. substantive \in SUBSET (0 .. Len(s))
        BY <3>2
      <4>. QED BY <4>1, <3>1, <2>2, MaxPosition
    <3>5. Max(substantive) = i
      <4>1. Max(substantive) \in 0 .. Len(s) /\ ~(Max(substantive) > i)
        BY <3>2, <3>4
      <4>. QED BY <4>1, <3>4, <2>1, <2>2
    <3>6. i \in Emits("current-task", s)
      BY <3>3, <3>5 DEF Emits
    <3>. QED BY <3>6, <2>1, ProtectedFinally DEF ProtectRules, SafetyRules, VerbatimRules
  <2>. QED BY <2>1, <2>3, <2>4, <2>5
<1>. QED BY <1>1, TypeCorrect, PTL

\* The last failure under a key that no success follows is retained and not
\* dropped, whatever the semantic layer answers.
THEOREM UnresolvedFailureSurvivesTheorem == Spec => []UnresolvedFailureSurvives
<1>1. UnresolvedFailureSurvives
  <2>. DEFINE s == Session
  <2>1. SUFFICES ASSUME NEW f \in DOMAIN s,
                   /\ IsTool(s[f]) /\ IsToolFailure(s[f])
                   /\ \A j \in f + 1 .. Len(s) :
                        (IsTool(s[j]) /\ FailureKey(s[j].tool) = FailureKey(s[f].tool)) =>
                          ~IsToolFailure(s[j]) /\ ~IsToolSuccess(s[j]),
                   NEW d \in FinalDecisions(s)[f]
                 PROVE  d.retention = "protected" /\ d.action # "DROP"
    BY DEF UnresolvedFailureSurvives
  <2>. HIDE DEF s
  <2>2. f \in Emits("unresolved-error", s)
    BY <2>1 DEF Emits, UnresolvedErrors
  <2>. QED BY <2>1, <2>2, ProtectedFinally DEF ProtectRules, SafetyRules
<1>. QED BY <1>1, PTL

-----------------------------------------------------------------------------
(* What is put to the semantic layer.                                      *)

\* A rule that protects an item retains it.
LEMMA ProtectedIsRetained ==
  ASSUME NEW s, NEW i \in DOMAIN s, NEW r \in ProtectRules, i \in Emits(r, s)
  PROVE  Retained(Said(s)[i])
<1>1. r \in Rules
  BY DEF ProtectRules, SafetyRules, Rules
<1>. QED BY <1>1, SaidProperties, EmissionProperties DEF Retained, Retains

\* One more word of the semantic layer about an item retains nothing, and about
\* an item that is not a candidate it changes no verdict that is not retained.
LEMMA SemanticWordIsIdle ==
  ASSUME NEW said \in SUBSET Decision, NEW a \in SemanticAnswers
  PROVE  LET more == said \cup {SemanticDecision(a)}
         IN  /\ more \in SUBSET Decision
             /\ Retained(more) <=> Retained(said)
             /\ ~Retained(said) => Verdicts(more, FALSE) = Verdicts(said, FALSE)
<1>. DEFINE more == said \cup {SemanticDecision(a)}
<1>1. more \in SUBSET Decision /\ (Retained(more) <=> Retained(said))
  BY SemanticDecisionProperties DEF Retained
<1>2. Strongest(more) = Strongest(said)
  <2>1. Contenders(more) = Contenders(said)
    BY SemanticDecisionProperties DEF Contenders
  <2>. QED BY <2>1 DEF Strongest
<1>3. Leading(more, FALSE) = Leading(said, FALSE)
  <2>1. \A x : Escalations(x, FALSE) = {}
    BY DEF Escalations
  <2>. QED BY <1>2, <2>1 DEF Leading
<1>. HIDE DEF more
<1>4. ASSUME ~Retained(said) PROVE Verdicts(more, FALSE) = Verdicts(said, FALSE)
  BY <1>1, <1>3, <1>4 DEF Verdicts
<1>. QED BY <1>1, <1>4 DEF more

\* The items put to the semantic layer are those the rules leave open, and an
\* answer about any other changes neither a retention nor a drop.
THEOREM SemanticSeesOpenItemsTheorem == Spec => []SemanticSeesOpenItems
<1>1. SemanticSeesOpenItems
  <2>. DEFINE s == Session
              decided == Deterministic(s)
              open == {i \in DOMAIN s : /\ decided[i].retention = "normal"
                                        /\ decided[i].action # "DROP"}
  <2>. HIDE DEF s
  <2>1. ASSUME NEW i \in DOMAIN s
        PROVE  /\ Said(s)[i] \in SUBSET Decision
               /\ decided[i] \in Verdicts(Said(s)[i], FALSE)
               /\ decided[i] \in Decision
    BY DeterministicIsVerdict
  <2>2. ASSUME NEW i \in SemanticCandidates(s) PROVE i \in open
    <3>1. i \in DOMAIN s /\ decided[i].retention # "protected" /\ decided[i].action # "DROP"
      BY DEF SemanticCandidates
    <3>. QED BY <2>1, <3>1, RetainedVerdict
  <2>3. ASSUME NEW i \in open PROVE i \in SemanticCandidates(s)
    <3>1. ~Retained(Said(s)[i])
      BY <2>1, RetainedVerdict
    <3>2. decided[i].action # "PROTECT"
      BY <2>1, <3>1, OpenVerdict
    <3>3. ASSUME NEW d \in Said(s)[i] PROVE d.rule \notin SafetyRules
      <4>1. PICK r \in Rules : i \in Emits(r, s) /\ d = Emission(r, s[i])
        BY SaidProperties
      <4>2. d.rule = r /\ r \notin ProtectRules
        BY <3>1, <4>1, EmissionProperties, ProtectedIsRetained
      <4>. QED BY <4>2 DEF ProtectRules
    <3>4. i \notin RecentItems(s)
      <4>1. i \in RecentItems(s) => i \in Emits("recent-items", s)
        BY DEF Emits, RecentItems
      <4>. QED BY <3>1, <4>1, ProtectedIsRetained DEF ProtectRules
    <3>. QED BY <3>2, <3>3, <3>4 DEF SemanticCandidates
  <2>4. ASSUME NEW a \in SemanticAnswers, NEW i \in (DOMAIN s) \ open
        PROVE  /\ Merged(s, a)[i].retention = decided[i].retention
               /\ decided[i].action = "DROP" => Merged(s, a)[i] = decided[i]
    <3>. DEFINE said == Said(s)[i]
                more == said \cup {SemanticDecision(a)}
    <3>1. i \notin SemanticCandidates(s)
      BY <2>2
    <3>2. Merged(s, a)[i] = Winner(more, FALSE)
      <4>1. Merged(s, a)[i] = Winner(more, i \in SemanticCandidates(s))
        BY DecisionsAreWinners
      <4>2. (i \in SemanticCandidates(s)) = FALSE
        BY <3>1
      <4>. QED BY <4>1, <4>2
    <3>3. said \in SUBSET Decision /\ decided[i] \in Verdicts(said, FALSE)
      BY <2>1
    <3>4. decided[i] = Winner(said, FALSE)
      BY DecisionsAreWinners
    <3>. HIDE DEF said
    <3>5. /\ more \in SUBSET Decision
          /\ Retained(more) <=> Retained(said)
          /\ ~Retained(said) => Verdicts(more, FALSE) = Verdicts(said, FALSE)
      BY <3>3, SemanticWordIsIdle
    <3>. HIDE DEF more, decided
    <3>6. Merged(s, a)[i].retention = decided[i].retention
      <4>1. Merged(s, a)[i] \in Verdicts(more, FALSE)
        BY <3>2, <3>5, WinnerIsVerdict
      <4>. QED BY <4>1, <3>3, <3>5, RetainedVerdict
    <3>7. ASSUME decided[i].action = "DROP" PROVE Merged(s, a)[i] = decided[i]
      <4>1. ~Retained(said)
        BY <3>3, <3>7, RetainedVerdict
      <4>. QED BY <4>1, <3>2, <3>4, <3>5 DEF Winner
    <3>. QED BY <3>6, <3>7
  <2>5. SemanticCandidates(s) = open
    BY <2>2, <2>3
  <2>. QED BY <2>4, <2>5 DEF SemanticSeesOpenItems, s
<1>. QED BY <1>1, PTL

-----------------------------------------------------------------------------
(* What is dropped, and for what.                                          *)

\* An item is dropped because a rule says so.
LEMMA DropHasReason ==
  ASSUME NEW s, NEW i \in Dropped(s)
  PROVE  i \in DOMAIN s /\ \E r \in DropRules : i \in Emits(r, s)
<1>. DEFINE said == Said(s)[i]
            d == Deterministic(s)[i]
<1>1. i \in DOMAIN s /\ d.action = "DROP"
  BY DEF Dropped
<1>2. said \in SUBSET Decision /\ d \in Verdicts(said, FALSE)
  BY <1>1, DeterministicIsVerdict
<1>3. \A e \in said : \E r \in Rules : i \in Emits(r, s) /\ e = Emission(r, s[i])
  BY <1>1, SaidProperties
<1>. HIDE DEF said, d
<1>4. ~Retained(said)
  BY <1>1, <1>2, RetainedVerdict
<1>5. PICK e \in said \cup {DefaultKeep} : d.action = e.action
  BY <1>2, <1>4, OpenVerdict
<1>6. e \in said
  BY <1>1, <1>5 DEF DefaultKeep
<1>7. PICK r \in Rules : i \in Emits(r, s) /\ e = Emission(r, s[i])
  BY <1>3, <1>6
<1>8. r \in DropRules \cup {"semantic"}
  BY <1>1, <1>5, <1>7, EmissionProperties
<1>9. r # "semantic"
  BY <1>7 DEF Emits
<1>. QED BY <1>1, <1>7, <1>8, <1>9

\* A rule drops an item for a later one about its subject, or for a later
\* execution that put out the same.
LEMMA DropIsForLater ==
  ASSUME NEW s, NEW n \in Nat, DOMAIN s = 1 .. n,
         NEW r \in DropRules, NEW i \in Emits(r, s)
  PROVE  /\ IsTool(s[i])
         /\ \E j \in i + 1 .. n :
              \/ IsTool(s[j]) /\ Subject(s[j]) = Subject(s[i])
              \/ SameExecution(s[i], s[j])
<1>1. CASE r = "successful-test-supersedes-failures"
  <2>1. i \in SuccessfulTestSupersedesFailures(s)
    BY <1>1 DEF Emits
  <2>2. PICK j \in i + 1 .. Len(s) :
          /\ OfKind(s[j], "test_run")
          /\ TestTarget(s[j].tool) = TestTarget(s[i].tool)
    BY <2>1 DEF SuccessfulTestSupersedesFailures
  <2>3. OfKind(s[i], "test_run") /\ TestKey(s[j]) = TestKey(s[i])
    BY <2>1, <2>2 DEF SuccessfulTestSupersedesFailures, TestKey
  <2>4. j \in i + 1 .. n
    BY <2>2
  <2>. QED BY <2>2, <2>3, <2>4 DEF Subject, OfKind
<1>2. CASE r = "superseded-test-run"
  <2>1. i \in SupersededTestRuns(s)
    BY <1>2 DEF Emits
  <2>2. /\ i \in 1 .. n /\ TestKey(s[i]) # None
        /\ \E j \in i + 1 .. n : TestKey(s[j]) = TestKey(s[i])
    BY <2>1 DEF SupersededTestRuns, OlderByKey
  <2>3. \A k : TestKey(s[k]) # None => OfKind(s[k], "test_run")
    BY DEF TestKey
  <2>. QED BY <2>2, <2>3 DEF Subject, OfKind
<1>3. CASE r = "superseded-file-read"
  <2>1. i \in SupersededFileReads(s)
    BY <1>3 DEF Emits
  <2>2. /\ OfKind(s[i], "file_read")
        /\ \E j \in i + 1 .. Len(s) : /\ OfKind(s[j], "file_read")
                                      /\ ItemPath(s[j]) = ItemPath(s[i])
    BY <2>1 DEF SupersededFileReads, LaterReads
  <2>. QED BY <2>2 DEF Subject, OfKind
<1>4. CASE r = "superseded-git-status"
  <2>1. i \in SupersededGitStatus(s)
    BY <1>4 DEF Emits
  <2>2. /\ i \in 1 .. n /\ GitStatusKey(s[i]) # None
        /\ \E j \in i + 1 .. n : GitStatusKey(s[j]) = GitStatusKey(s[i])
    BY <2>1 DEF SupersededGitStatus, OlderByKey
  <2>3. \A k : GitStatusKey(s[k]) # None => OfKind(s[k], "git_status")
    BY DEF GitStatusKey
  <2>. QED BY <2>2, <2>3 DEF Subject, OfKind
<1>5. CASE r = "superseded-git-diff"
  <2>1. i \in SupersededGitDiff(s)
    BY <1>5 DEF Emits
  <2>2. /\ i \in 1 .. n /\ GitDiffKey(s[i]) # None
        /\ \E j \in i + 1 .. n : GitDiffKey(s[j]) = GitDiffKey(s[i])
    BY <2>1 DEF SupersededGitDiff, OlderByKey
  <2>3. \A k : GitDiffKey(s[k]) # None => OfKind(s[k], "git_diff")
    BY DEF GitDiffKey
  <2>. QED BY <2>2, <2>3 DEF Subject, OfKind
<1>6. CASE r = "old-directory-listing"
  <2>1. i \in OldDirectoryListings(s)
    BY <1>6 DEF Emits
  <2>2. /\ i \in 1 .. n /\ ListingKey(s[i]) # None
        /\ \E j \in i + 1 .. n : ListingKey(s[j]) = ListingKey(s[i])
    BY <2>1 DEF OldDirectoryListings, OlderByKey
  <2>3. \A k : ListingKey(s[k]) # None => OfKind(s[k], "directory_list")
    BY DEF ListingKey
  <2>. QED BY <2>2, <2>3 DEF Subject, OfKind
<1>7. CASE r = "repeated-command-output"
  <2>1. i \in RepeatedCommandOutputs(s)
    BY <1>7 DEF Emits
  <2>2. PICK j \in i + 1 .. Len(s) : SameExecution(s[i], s[j])
    BY <2>1 DEF RepeatedCommandOutputs
  <2>. QED BY <2>2 DEF SameExecution, CommandIdentity
<1>. QED BY <1>1, <1>2, <1>3, <1>4, <1>5, <1>6, <1>7 DEF DropRules

\* A chain of drops about a subject ends in an item that stays, or in an
\* execution a later one repeats.
THEOREM EveryDropIsCoveredTheorem == Spec => []EveryDropIsCovered
<1>1. TypeOK => EveryDropIsCovered
  <2>. DEFINE s == Session
  <2>1. SUFFICES ASSUME TypeOK, NEW i \in Dropped(s), LastAbout(s, i) \in Dropped(s)
                 PROVE  \E j \in LastAbout(s, i) + 1 .. Len(s) :
                          SameExecution(s[LastAbout(s, i)], s[j])
    BY DEF EveryDropIsCovered
  <2>2. Len(s) \in Nat /\ DOMAIN s = 1 .. Len(s)
    BY <2>1, SessionIsSequence
  <2>. HIDE DEF s
  <2>. DEFINE n == Len(s)
              about == {j \in i .. n : IsTool(s[j]) /\ Subject(s[j]) = Subject(s[i])}
              last == LastAbout(s, i)
  <2>3. i \in 1 .. n /\ IsTool(s[i])
    <3>1. PICK r \in DropRules : i \in Emits(r, s)
      BY <2>1, DropHasReason
    <3>2. i \in DOMAIN s
      BY <2>1, DropHasReason
    <3>. QED BY <3>1, <3>2, <2>2, DropIsForLater
  <2>4. last \in about /\ \A k \in about : last >= k
    <3>1. about \in SUBSET (0 .. n) /\ i \in about
      BY <2>2, <2>3
    <3>2. last = Max(about)
      BY DEF LastAbout
    <3>. HIDE DEF about, last
    <3>. QED BY <3>1, <3>2, <2>2, MaxPosition
  <2>5. PICK r \in DropRules : last \in Emits(r, s)
    BY <2>1, DropHasReason
  <2>6. PICK j \in last + 1 .. n :
          \/ IsTool(s[j]) /\ Subject(s[j]) = Subject(s[last])
          \/ SameExecution(s[last], s[j])
    BY <2>2, <2>5, DropIsForLater
  <2>7. ~(IsTool(s[j]) /\ Subject(s[j]) = Subject(s[last]))
    <3>1. SUFFICES ASSUME IsTool(s[j]), Subject(s[j]) = Subject(s[last]) PROVE FALSE
      OBVIOUS
    <3>. HIDE DEF last
    <3>2. j \in about /\ j > last
      BY <2>2, <2>3, <2>4, <2>6, <3>1
    <3>. HIDE DEF about
    <3>3. last \in Int /\ j \in Int
      BY <2>2, <2>3, <2>4, <2>6 DEF about
    <3>. QED BY <3>2, <3>3, <2>4
  <2>. QED BY <2>6, <2>7
<1>. QED BY <1>1, TypeCorrect, PTL

-----------------------------------------------------------------------------
(* What the relations tell of the drops.                                   *)

\* Relations of older members of a group to its last lead from later to earlier,
\* and there is one to each member that is not the last.
LEMMA OlderAreSuperseded ==
  ASSUME NEW key, NEW n \in Nat, DOMAIN key \subseteq 1 .. n, NEW rule
  PROVE  /\ \A e \in SupersedeOlderEach(key, rule) :
              /\ e.type = "supersedes" /\ e.rule = rule /\ e.from > e.to
              /\ e.to \in DOMAIN key
              /\ \E j \in DOMAIN key : j > e.to /\ key[j] = key[e.to]
         /\ \A i \in DOMAIN key :
              (\E j \in DOMAIN key : j > i /\ key[j] = key[i]) =>
                \E e \in SupersedeOlderEach(key, rule) : e.to = i
<1>. DEFINE group(i) == {j \in DOMAIN key : key[j] = key[i]}
<1>1. ASSUME NEW i \in DOMAIN key
      PROVE  /\ Max(group(i)) \in group(i)
             /\ \A k \in group(i) : Max(group(i)) >= k /\ k \in Int
  <2>. DEFINE G == group(i)
  <2>1. i \in G /\ G \in SUBSET (0 .. n)
    OBVIOUS
  <2>. HIDE DEF G
  <2>2. Max(G) \in G /\ \A k \in G : Max(G) >= k
    BY <2>1, MaxPosition
  <2>. QED BY <2>1, <2>2 DEF G
<1>2. \A e : e \in SupersedeOlderEach(key, rule) <=>
               \E i \in DOMAIN key : e \in SupersedeOlder(group(i), rule)
  BY DEF SupersedeOlderEach
<1>3. \A e, i : e \in SupersedeOlder(group(i), rule) <=>
                  \E older \in group(i) \ {Max(group(i))} :
                    e = Relation("supersedes", Max(group(i)), older, rule)
  BY DEF SupersedeOlder
<1>4. ASSUME NEW e \in SupersedeOlderEach(key, rule)
      PROVE  /\ e.type = "supersedes" /\ e.rule = rule /\ e.from > e.to
             /\ e.to \in DOMAIN key
             /\ \E j \in DOMAIN key : j > e.to /\ key[j] = key[e.to]
  <2>0. PICK i \in DOMAIN key : e \in SupersedeOlder(group(i), rule)
    BY <1>2, <1>4
  <2>1. PICK older \in group(i) \ {Max(group(i))} :
          e = Relation("supersedes", Max(group(i)), older, rule)
    BY <1>3, <2>0
  <2>. DEFINE m == Max(group(i))
  <2>2. m \in group(i) /\ m >= older /\ older \in Int /\ m \in Int /\ older # m
    BY <1>1, <2>1
  <2>3. e.type = "supersedes" /\ e.rule = rule /\ e.from = m /\ e.to = older
    BY <2>1 DEF Relation
  <2>4. key[m] = key[i] /\ key[older] = key[i] /\ m \in DOMAIN key /\ older \in DOMAIN key
    BY <2>1, <2>2
  <2>. HIDE DEF m
  <2>. QED BY <2>2, <2>3, <2>4
<1>5. ASSUME NEW i \in DOMAIN key, NEW j \in DOMAIN key, j > i, key[j] = key[i]
      PROVE  \E e \in SupersedeOlderEach(key, rule) : e.to = i
  <2>. DEFINE e == Relation("supersedes", Max(group(i)), i, rule)
  <2>1. i \in group(i) /\ j \in group(i) /\ i \in Int /\ j \in Int
    BY <1>5
  <2>2. i # Max(group(i))
    <3>1. Max(group(i)) >= j /\ Max(group(i)) \in Int
      BY <1>1, <2>1
    <3>. QED BY <3>1, <2>1, <1>5
  <2>3. e \in SupersedeOlderEach(key, rule)
    BY <1>2, <1>3, <2>1, <2>2
  <2>. QED BY <2>3 DEF Relation
<1>. QED BY <1>4, <1>5

\* The relations come from six sources.
LEMMA RelationSources ==
  ASSUME NEW s
  PROVE  \A e : e \in Relations(s) <=>
           \/ e \in ReadRelations(s)
           \/ e \in ValidatesRelations(s)
           \/ e \in SupersedeOlderEach(
                     [i \in {k \in DOMAIN s : OfKind(s[k], "git_status")} |->
                        GitStatusKey(s[i])], "superseded-git-status")
           \/ e \in SupersedeOlderEach(
                     [i \in {k \in DOMAIN s : OfKind(s[k], "git_diff")} |->
                        GitDiffKey(s[i])], "superseded-git-diff")
           \/ e \in SupersedeOlderEach(
                     [i \in {k \in DOMAIN s : OfKind(s[k], "directory_list")} |->
                        RelatedListingKey(s[i])], "old-directory-listing")
           \/ e \in SupersedeOlderEach(
                     [i \in {k \in DOMAIN s : CommandIdentity(s[k]) # None} |->
                        ExecutionKey(s[i])], "repeated-command-output")
  BY Zenon DEF Relations

\* What the relations of reads are, one by one.
LEMMA ReadRelationProperties ==
  ASSUME NEW s, NEW e
  PROVE  e \in ReadRelations(s) <=>
           \E i \in DOMAIN s : \E k \in i + 1 .. Len(s) :
             /\ OfKind(s[i], "file_read") /\ ItemPath(s[i]) # None
             /\ OnFile(s[k], ItemPath(s[i]))
             /\ \A r \in LaterReads(s, i) : k <= r
             /\ e = Relation(IF OfKind(s[k], "file_write") THEN "invalidates"
                                                          ELSE "supersedes",
                             k, i, "superseded-file-read")
  BY DEF ReadRelations

\* An invalidation is a relation of reads.
LEMMA InvalidationsAreOfReads ==
  ASSUME NEW s, NEW n \in Nat, DOMAIN s = 1 .. n,
         NEW e \in Relations(s), e.type = "invalidates"
  PROVE  e \in ReadRelations(s)
<1>. DEFINE ofStatus == {k \in DOMAIN s : OfKind(s[k], "git_status")}
            ofDiff == {k \in DOMAIN s : OfKind(s[k], "git_diff")}
            ofListing == {k \in DOMAIN s : OfKind(s[k], "directory_list")}
            executions == {k \in DOMAIN s : CommandIdentity(s[k]) # None}
<1>1. ASSUME e \in ValidatesRelations(s) PROVE FALSE
  <2>1. \E j, w : e = Relation("validates", j, w, "successful-test-supersedes-failures")
    BY <1>1, Zenon DEF ValidatesRelations
  <2>. QED BY <2>1 DEF Relation
<1>2. ASSUME NEW key, DOMAIN key \subseteq 1 .. n, NEW rule,
             e \in SupersedeOlderEach(key, rule)
      PROVE  FALSE
  BY <1>2, OlderAreSuperseded
<1>3. /\ DOMAIN [i \in ofStatus |-> GitStatusKey(s[i])] \subseteq 1 .. n
      /\ DOMAIN [i \in ofDiff |-> GitDiffKey(s[i])] \subseteq 1 .. n
      /\ DOMAIN [i \in ofListing |-> RelatedListingKey(s[i])] \subseteq 1 .. n
      /\ DOMAIN [i \in executions |-> ExecutionKey(s[i])] \subseteq 1 .. n
  OBVIOUS
<1>. QED BY <1>1, <1>2, <1>3, RelationSources

\* So is every relation the rule of the reads is named for.
LEMMA RelationOfRead ==
  ASSUME NEW s, NEW n \in Nat, DOMAIN s = 1 .. n,
         NEW e \in Relations(s), e.rule = "superseded-file-read"
  PROVE  e \in ReadRelations(s)
<1>. DEFINE ofStatus == {k \in DOMAIN s : OfKind(s[k], "git_status")}
            ofDiff == {k \in DOMAIN s : OfKind(s[k], "git_diff")}
            ofListing == {k \in DOMAIN s : OfKind(s[k], "directory_list")}
            executions == {k \in DOMAIN s : CommandIdentity(s[k]) # None}
<1>1. ASSUME e \in ValidatesRelations(s) PROVE FALSE
  <2>1. \E j, w : e = Relation("validates", j, w, "successful-test-supersedes-failures")
    BY <1>1, Zenon DEF ValidatesRelations
  <2>. QED BY <2>1 DEF Relation
<1>2. ASSUME NEW key, DOMAIN key \subseteq 1 .. n, NEW rule,
             rule # "superseded-file-read",
             e \in SupersedeOlderEach(key, rule)
      PROVE  FALSE
  BY <1>2, OlderAreSuperseded
<1>3. /\ DOMAIN [i \in ofStatus |-> GitStatusKey(s[i])] \subseteq 1 .. n
      /\ DOMAIN [i \in ofDiff |-> GitDiffKey(s[i])] \subseteq 1 .. n
      /\ DOMAIN [i \in ofListing |-> RelatedListingKey(s[i])] \subseteq 1 .. n
      /\ DOMAIN [i \in executions |-> ExecutionKey(s[i])] \subseteq 1 .. n
  OBVIOUS
<1>. QED BY <1>1, <1>2, <1>3, RelationSources

\* What a read supersedes is a superseded read.
LEMMA SupersedingRead ==
  ASSUME NEW s, NEW n \in Nat, DOMAIN s = 1 .. n, Len(s) = n,
         NEW e \in ReadRelations(s), e.type = "supersedes"
  PROVE  e.to \in SupersededFileReads(s) /\ e.from > e.to
<1>1. PICK i \in DOMAIN s : \E k \in i + 1 .. Len(s) :
         /\ OfKind(s[i], "file_read") /\ ItemPath(s[i]) # None
         /\ OnFile(s[k], ItemPath(s[i]))
         /\ \A r \in LaterReads(s, i) : k <= r
         /\ e = Relation(IF OfKind(s[k], "file_write") THEN "invalidates"
                                                      ELSE "supersedes",
                         k, i, "superseded-file-read")
  BY ReadRelationProperties
<1>2. PICK k \in i + 1 .. Len(s) :
         /\ OnFile(s[k], ItemPath(s[i]))
         /\ e = Relation(IF OfKind(s[k], "file_write") THEN "invalidates"
                                                      ELSE "supersedes",
                         k, i, "superseded-file-read")
  BY <1>1
<1>3. ~OfKind(s[k], "file_write") /\ e.to = i /\ e.from = k
  BY <1>2 DEF Relation
<1>4. k \in LaterReads(s, i)
  BY <1>2, <1>3 DEF LaterReads, OnFile, IsFileOp
<1>. QED BY <1>1, <1>2, <1>3, <1>4 DEF SupersededFileReads

\* The later reads of a superseded read and the first of them.
LEMMA NextRead ==
  ASSUME NEW s, NEW n \in Nat, DOMAIN s = 1 .. n, Len(s) = n,
         NEW i \in SupersededFileReads(s)
  PROVE  LET j == Min(LaterReads(s, i)) IN
         /\ i \in 1 .. n /\ OfKind(s[i], "file_read") /\ ItemPath(s[i]) # None
         /\ j \in i + 1 .. n /\ OfKind(s[j], "file_read")
         /\ ItemPath(s[j]) = ItemPath(s[i])
         /\ \A k \in i + 1 .. n :
              OfKind(s[k], "file_read") /\ ItemPath(s[k]) = ItemPath(s[i]) => j <= k
         /\ \A k \in LaterReads(s, i) : j <= k
<1>. DEFINE L == LaterReads(s, i)
<1>1. i \in 1 .. n /\ OfKind(s[i], "file_read") /\ ItemPath(s[i]) # None /\ L # {}
  BY DEF SupersededFileReads
<1>2. \A k : k \in L <=> /\ k \in i + 1 .. n /\ OfKind(s[k], "file_read")
                         /\ ItemPath(s[k]) = ItemPath(s[i])
  BY DEF LaterReads
<1>. HIDE DEF L
<1>3. L \in SUBSET Nat
  BY <1>1, <1>2
<1>4. Min(L) \in L /\ \A k \in L : Min(L) <= k
  BY <1>1, <1>3, MinPosition
<1>. QED BY <1>1, <1>2, <1>4 DEF L

\* The three passes over the session agree on whether a file was written between
\* two consecutive reads of it.
THEOREM FileStateAgreesTheorem == Spec => []FileStateAgrees
<1>1. TypeOK => FileStateAgrees
  <2>. DEFINE s == Session
              n == Len(s)
  <2>1. SUFFICES ASSUME TypeOK, NEW i \in SupersededFileReads(s)
                 PROVE  LET j == Min(LaterReads(s, i)) IN
                        /\ WriteBetweenReads(s, j) <=>
                             SupersededReadReason(s, i) = "WRITE_INVALIDATED_READ"
                        /\ WriteBetweenReads(s, j) <=>
                             \E r \in Relations(s) : r.type = "invalidates" /\ r.to = i
    BY DEF FileStateAgrees
  <2>2. n \in Nat /\ DOMAIN s = 1 .. n
    BY <2>1, SessionIsSequence
  <2>. HIDE DEF s
  <2>. DEFINE j == Min(LaterReads(s, i))
              path == ItemPath(s[i])
              written == \E w \in i + 1 .. j - 1 :
                           OfKind(s[w], "file_write") /\ ItemPath(s[w]) = path
  <2>3. /\ i \in 1 .. n /\ OfKind(s[i], "file_read") /\ path # None
        /\ j \in i + 1 .. n /\ OfKind(s[j], "file_read") /\ ItemPath(s[j]) = path
        /\ \A k \in i + 1 .. n :
             OfKind(s[k], "file_read") /\ ItemPath(s[k]) = path => j <= k
        /\ \A k \in LaterReads(s, i) : j <= k
    BY <2>1, <2>2, NextRead
  <2>4. SupersededReadReason(s, i) = "WRITE_INVALIDATED_READ" <=> written
    BY DEF SupersededReadReason
  <2>5. WriteBetweenReads(s, j) <=> written
    <3>. DEFINE reads == {k \in 1 .. j - 1 : /\ OfKind(s[k], "file_read")
                                             /\ ItemPath(s[k]) = ItemPath(s[j])}
                writes == {k \in 1 .. j - 1 : /\ OfKind(s[k], "file_write")
                                              /\ ItemPath(s[k]) = ItemPath(s[j])}
    <3>1. WriteBetweenReads(s, j) <=>
            reads # {} /\ writes # {} /\ Max(writes) > Max(reads)
      BY DEF WriteBetweenReads
    <3>. HIDE DEF j
    <3>2. i \in reads /\ reads \in SUBSET (0 .. n) /\ writes \in SUBSET (0 .. n)
      BY <2>2, <2>3
    <3>3. i \in Int /\ \A k \in reads : k <= i /\ k \in Int
      BY <2>2, <2>3
    <3>4. Max(reads) = i
      <4>. DEFINE m == Max(reads)
      <4>. HIDE DEF reads, writes
      <4>1. m \in reads /\ \A k \in reads : m >= k
        BY <3>2, <2>2, MaxPosition
      <4>. HIDE DEF m
      <4>2. m \in Int /\ m <= i /\ m >= i /\ i \in Int
        BY <4>1, <3>2, <3>3
      <4>3. m = i
        BY <4>2
      <4>. QED BY <4>3 DEF m
    <3>5. \A w \in writes : w > i <=> w \in i + 1 .. j - 1
      BY <2>2, <2>3
    <3>6. ASSUME writes # {}
          PROVE  Max(writes) \in writes /\ \A k \in writes : Max(writes) >= k
      <4>. HIDE DEF writes
      <4>. QED BY <3>2, <3>6, <2>2, MaxPosition
    <3>7. written <=> \E w \in writes : w > i
      BY <2>2, <2>3, <3>5
    <3>. HIDE DEF reads, writes, written
    <3>8. i \in Int /\ \A w \in writes : w \in Int
      BY <3>2, <2>2, <2>3
    <3>9. (writes # {} /\ Max(writes) > i) <=> \E w \in writes : w > i
      BY <3>6, <3>8
    <3>. QED BY <3>1, <3>2, <3>4, <3>7, <3>9
  <2>6. written <=> \E r \in Relations(s) : r.type = "invalidates" /\ r.to = i
    <3>1. ASSUME NEW w \in i + 1 .. j - 1, OfKind(s[w], "file_write"),
                 ItemPath(s[w]) = path
          PROVE  \E r \in Relations(s) : r.type = "invalidates" /\ r.to = i
      <4>. DEFINE r == Relation("invalidates", w, i, "superseded-file-read")
      <4>1. w \in i + 1 .. n /\ \A k \in LaterReads(s, i) : w <= k
        <5>1. \A k \in LaterReads(s, i) : k \in Int
          BY <2>2, <2>3 DEF LaterReads
        <5>. HIDE DEF j
        <5>. QED BY <2>2, <2>3, <3>1, <5>1
      <4>2. r \in ReadRelations(s)
        BY <3>1, <4>1, <2>2, <2>3, ReadRelationProperties DEF OnFile, IsFileOp
      <4>3. r \in Relations(s)
        BY <4>2, RelationSources
      <4>. QED BY <4>3 DEF Relation
    <3>2. ASSUME NEW r \in Relations(s), r.type = "invalidates", r.to = i
          PROVE  written
      <4>1. r \in ReadRelations(s)
        BY <2>2, <3>2, InvalidationsAreOfReads
      <4>2. PICK a \in DOMAIN s : \E k \in a + 1 .. Len(s) :
               /\ OfKind(s[a], "file_read") /\ ItemPath(s[a]) # None
               /\ OnFile(s[k], ItemPath(s[a]))
               /\ \A q \in LaterReads(s, a) : k <= q
               /\ r = Relation(IF OfKind(s[k], "file_write") THEN "invalidates"
                                                            ELSE "supersedes",
                               k, a, "superseded-file-read")
        BY <4>1, ReadRelationProperties
      <4>3. PICK k \in a + 1 .. Len(s) :
               /\ OnFile(s[k], ItemPath(s[a]))
               /\ \A q \in LaterReads(s, a) : k <= q
               /\ r = Relation(IF OfKind(s[k], "file_write") THEN "invalidates"
                                                            ELSE "supersedes",
                               k, a, "superseded-file-read")
        BY <4>2
      <4>4. a = i /\ OfKind(s[k], "file_write")
        BY <3>2, <4>3 DEF Relation
      <4>5. ItemPath(s[k]) = path /\ k \in i + 1 .. n
        BY <4>3, <4>4 DEF OnFile
      <4>6. j \in LaterReads(s, i)
        <5>. HIDE DEF j
        <5>. QED BY <2>3 DEF LaterReads
      <4>7. k <= j /\ k # j
        <5>1. ~OfKind(s[k], "file_read")
          BY <4>4 DEF OfKind
        <5>. HIDE DEF j
        <5>. QED BY <4>3, <4>4, <4>6, <5>1, <2>3
      <4>8. k \in i + 1 .. j - 1
        <5>. HIDE DEF j
        <5>. QED BY <4>5, <4>7, <2>2, <2>3
      <4>. QED BY <4>4, <4>5, <4>8
    <3>. QED BY <3>1, <3>2
  <2>. HIDE DEF j, written
  <2>. QED BY <2>4, <2>5, <2>6 DEF j
<1>. QED BY <1>1, TypeCorrect, PTL

\* What the relations of one rule that drops by a key tell: all but the last
\* under the key.
LEMMA KeyedRelations ==
  ASSUME NEW s, NEW n \in Nat, DOMAIN s = 1 .. n, NEW rule,
         rule \in {"superseded-git-status", "superseded-git-diff",
                  "repeated-command-output"},
         NEW e \in Relations(s), e.rule = rule
  PROVE  /\ rule = "superseded-git-status" =>
              e \in SupersedeOlderEach(
                     [i \in {k \in DOMAIN s : OfKind(s[k], "git_status")} |->
                        GitStatusKey(s[i])], "superseded-git-status")
         /\ rule = "superseded-git-diff" =>
              e \in SupersedeOlderEach(
                     [i \in {k \in DOMAIN s : OfKind(s[k], "git_diff")} |->
                        GitDiffKey(s[i])], "superseded-git-diff")
         /\ rule = "repeated-command-output" =>
              e \in SupersedeOlderEach(
                     [i \in {k \in DOMAIN s : CommandIdentity(s[k]) # None} |->
                        ExecutionKey(s[i])], "repeated-command-output")
<1>. DEFINE ofStatus == [i \in {k \in DOMAIN s : OfKind(s[k], "git_status")} |->
                           GitStatusKey(s[i])]
            ofDiff == [i \in {k \in DOMAIN s : OfKind(s[k], "git_diff")} |->
                         GitDiffKey(s[i])]
            ofListing == [i \in {k \in DOMAIN s : OfKind(s[k], "directory_list")} |->
                            RelatedListingKey(s[i])]
            executions == [i \in {k \in DOMAIN s : CommandIdentity(s[k]) # None} |->
                             ExecutionKey(s[i])]
<1>1. /\ DOMAIN ofStatus \subseteq 1 .. n /\ DOMAIN ofDiff \subseteq 1 .. n
      /\ DOMAIN ofListing \subseteq 1 .. n /\ DOMAIN executions \subseteq 1 .. n
  OBVIOUS
<1>2. \/ e \in ReadRelations(s)
      \/ e \in ValidatesRelations(s)
      \/ e \in SupersedeOlderEach(ofStatus, "superseded-git-status")
      \/ e \in SupersedeOlderEach(ofDiff, "superseded-git-diff")
      \/ e \in SupersedeOlderEach(ofListing, "old-directory-listing")
      \/ e \in SupersedeOlderEach(executions, "repeated-command-output")
  BY RelationSources
<1>. HIDE DEF ofStatus, ofDiff, ofListing, executions
<1>3. ASSUME NEW key, DOMAIN key \subseteq 1 .. n, NEW r,
             e \in SupersedeOlderEach(key, r)
      PROVE  rule = r
  BY <1>3, OlderAreSuperseded
<1>4. e \in ReadRelations(s) => rule = "superseded-file-read"
  BY ReadRelationProperties DEF Relation
<1>5. e \in ValidatesRelations(s) => rule = "successful-test-supersedes-failures"
  <2>1. SUFFICES ASSUME e \in ValidatesRelations(s)
                 PROVE  rule = "successful-test-supersedes-failures"
    OBVIOUS
  <2>2. \E j, w : e = Relation("validates", j, w, "successful-test-supersedes-failures")
    BY <2>1, Zenon DEF ValidatesRelations
  <2>. QED BY <2>2 DEF Relation
<1>6. /\ e \in SupersedeOlderEach(ofStatus, "superseded-git-status") =>
           rule = "superseded-git-status"
      /\ e \in SupersedeOlderEach(ofDiff, "superseded-git-diff") =>
           rule = "superseded-git-diff"
      /\ e \in SupersedeOlderEach(ofListing, "old-directory-listing") =>
           rule = "old-directory-listing"
      /\ e \in SupersedeOlderEach(executions, "repeated-command-output") =>
           rule = "repeated-command-output"
  BY <1>1, <1>3
<1>7. /\ rule = "superseded-git-status" =>
           e \in SupersedeOlderEach(ofStatus, "superseded-git-status")
      /\ rule = "superseded-git-diff" =>
           e \in SupersedeOlderEach(ofDiff, "superseded-git-diff")
      /\ rule = "repeated-command-output" =>
           e \in SupersedeOlderEach(executions, "repeated-command-output")
  BY <1>2, <1>4, <1>5, <1>6
<1>. QED BY <1>7 DEF ofStatus, ofDiff, executions

\* The relations shown beside the decisions tell the same story as they do.
THEOREM DropsAreRelatedTheorem == Spec => []DropsAreRelated
<1>1. TypeOK => DropsAreRelated
  <2>. DEFINE s == Session
              n == Len(s)
              edges(rule) == {r \in Relations(s) :
                                r.rule = rule /\ r.type = "supersedes"}
  <2>1. SUFFICES ASSUME TypeOK,
                        NEW rule \in {"superseded-file-read", "superseded-git-status",
                                     "superseded-git-diff", "repeated-command-output"}
                 PROVE  /\ {r.to : r \in edges(rule)} = Emits(rule, s)
                        /\ \A r \in edges(rule) : r.from > r.to
    BY DEF DropsAreRelated
  <2>2. n \in Nat /\ DOMAIN s = 1 .. n
    BY <2>1, SessionIsSequence
  <2>. HIDE DEF s
  <2>3. SUFFICES /\ \A r \in edges(rule) : r.to \in Emits(rule, s) /\ r.from > r.to
                 /\ \A i \in Emits(rule, s) : \E r \in edges(rule) : r.to = i
    <3>. HIDE DEF edges
    <3>. QED BY <2>3
  <2>4. CASE rule = "superseded-file-read"
    <3>1. \A i : i \in Emits(rule, s) <=> i \in SupersededFileReads(s)
      BY <2>4 DEF Emits
    <3>2. ASSUME NEW r \in edges(rule)
          PROVE  r.to \in SupersededFileReads(s) /\ r.from > r.to
      <4>1. r \in ReadRelations(s)
        <5>1. r \in Relations(s) /\ r.rule = "superseded-file-read"
          BY <2>4
        <5>. QED BY <5>1, <2>2, RelationOfRead
      <4>2. r.type = "supersedes"
        OBVIOUS
      <4>. HIDE DEF edges
      <4>. QED BY <4>1, <4>2, <2>2, SupersedingRead
    <3>3. ASSUME NEW i \in SupersededFileReads(s) PROVE \E r \in edges(rule) : r.to = i
      <4>. DEFINE j == Min(LaterReads(s, i))
                  r == Relation("supersedes", j, i, "superseded-file-read")
      <4>1. /\ i \in 1 .. n /\ OfKind(s[i], "file_read") /\ ItemPath(s[i]) # None
            /\ j \in i + 1 .. n /\ OfKind(s[j], "file_read")
            /\ ItemPath(s[j]) = ItemPath(s[i])
            /\ \A k \in LaterReads(s, i) : j <= k
        BY <2>2, NextRead
      <4>. HIDE DEF j
      <4>2. ~OfKind(s[j], "file_write") /\ OnFile(s[j], ItemPath(s[i]))
        BY <4>1 DEF OfKind, OnFile, IsFileOp
      <4>3. r \in ReadRelations(s)
        BY <4>1, <4>2, <2>2, ReadRelationProperties
      <4>4. r \in Relations(s)
        BY <4>3, RelationSources
      <4>. QED BY <4>4, <2>4 DEF Relation
    <3>. QED BY <3>1, <3>2, <3>3
  <2>5. ASSUME NEW key, DOMAIN key \subseteq 1 .. n,
               \A e \in edges(rule) : e \in SupersedeOlderEach(key, rule),
               \A e \in SupersedeOlderEach(key, rule) : e \in Relations(s),
               \A i : i \in Emits(rule, s) <=>
                        /\ i \in DOMAIN key
                        /\ \E j \in DOMAIN key : j > i /\ key[j] = key[i]
        PROVE  /\ \A r \in edges(rule) : r.to \in Emits(rule, s) /\ r.from > r.to
               /\ \A i \in Emits(rule, s) : \E r \in edges(rule) : r.to = i
    <3>1. \A e \in SupersedeOlderEach(key, rule) :
            /\ e.type = "supersedes" /\ e.rule = rule /\ e.from > e.to
            /\ e.to \in DOMAIN key
            /\ \E j \in DOMAIN key : j > e.to /\ key[j] = key[e.to]
      BY <2>2, <2>5, OlderAreSuperseded
    <3>2. \A i \in DOMAIN key :
            (\E j \in DOMAIN key : j > i /\ key[j] = key[i]) =>
              \E e \in SupersedeOlderEach(key, rule) : e.to = i
      BY <2>2, <2>5, OlderAreSuperseded
    <3>. QED BY <2>5, <3>1, <3>2
  <2>6. CASE rule = "superseded-git-status"
    <3>. DEFINE key == [i \in {k \in DOMAIN s : OfKind(s[k], "git_status")} |->
                          GitStatusKey(s[i])]
    <3>1. \A e \in edges(rule) : e \in SupersedeOlderEach(key, rule)
      BY <2>2, <2>6, KeyedRelations
    <3>2. \A e \in SupersedeOlderEach(key, rule) : e \in Relations(s)
      BY <2>6, RelationSources
    <3>3. \A i : i \in Emits(rule, s) <=>
                   /\ i \in DOMAIN key
                   /\ \E j \in DOMAIN key : j > i /\ key[j] = key[i]
      <4>1. \A i : i \in Emits(rule, s) <=> i \in SupersededGitStatus(s)
        BY <2>6 DEF Emits
      <4>2. \A k : GitStatusKey(s[k]) # None <=> OfKind(s[k], "git_status")
        BY NoneAssumption DEF GitStatusKey, ToolKinds
      <4>. QED BY <4>1, <4>2 DEF SupersededGitStatus, OlderByKey
    <3>. HIDE DEF edges
    <3>4. DOMAIN key \subseteq 1 .. n
      BY <2>2
    <3>. HIDE DEF key
    <3>. QED BY <2>5, <3>1, <3>2, <3>3, <3>4
  <2>7. CASE rule = "superseded-git-diff"
    <3>. DEFINE key == [i \in {k \in DOMAIN s : OfKind(s[k], "git_diff")} |->
                          GitDiffKey(s[i])]
    <3>1. \A e \in edges(rule) : e \in SupersedeOlderEach(key, rule)
      BY <2>2, <2>7, KeyedRelations
    <3>2. \A e \in SupersedeOlderEach(key, rule) : e \in Relations(s)
      BY <2>7, RelationSources
    <3>3. \A i : i \in Emits(rule, s) <=>
                   /\ i \in DOMAIN key
                   /\ \E j \in DOMAIN key : j > i /\ key[j] = key[i]
      <4>1. \A i : i \in Emits(rule, s) <=> i \in SupersededGitDiff(s)
        BY <2>7 DEF Emits
      <4>2. \A k : GitDiffKey(s[k]) # None <=> OfKind(s[k], "git_diff")
        BY NoneAssumption DEF GitDiffKey, ToolKinds
      <4>. QED BY <4>1, <4>2 DEF SupersededGitDiff, OlderByKey
    <3>. HIDE DEF edges
    <3>4. DOMAIN key \subseteq 1 .. n
      BY <2>2
    <3>. HIDE DEF key
    <3>. QED BY <2>5, <3>1, <3>2, <3>3, <3>4
  <2>8. CASE rule = "repeated-command-output"
    <3>. DEFINE key == [i \in {k \in DOMAIN s : CommandIdentity(s[k]) # None} |->
                          ExecutionKey(s[i])]
    <3>1. \A e \in edges(rule) : e \in SupersedeOlderEach(key, rule)
      BY <2>2, <2>8, KeyedRelations
    <3>2. \A e \in SupersedeOlderEach(key, rule) : e \in Relations(s)
      BY <2>8, RelationSources
    <3>3. \A i : i \in Emits(rule, s) <=>
                   /\ i \in DOMAIN key
                   /\ \E j \in DOMAIN key : j > i /\ key[j] = key[i]
      <4>1. \A i : i \in Emits(rule, s) <=> i \in RepeatedCommandOutputs(s)
        BY <2>8 DEF Emits
      <4>2. \A i, j : SameExecution(s[i], s[j]) <=>
               /\ CommandIdentity(s[i]) # None
               /\ CommandIdentity(s[j]) # None
               /\ ExecutionKey(s[j]) = ExecutionKey(s[i])
        BY DEF SameExecution, ExecutionKey
      <4>3. \A i : i \in RepeatedCommandOutputs(s) <=>
                     /\ i \in 1 .. n
                     /\ \E j \in i + 1 .. n : SameExecution(s[i], s[j])
        BY <2>2 DEF RepeatedCommandOutputs
      <4>4. /\ \A i : i \in DOMAIN key <=> i \in 1 .. n /\ CommandIdentity(s[i]) # None
            /\ \A i \in DOMAIN key : key[i] = ExecutionKey(s[i])
        BY <2>2
      <4>. HIDE DEF key
      <4>5. ASSUME NEW i, i \in RepeatedCommandOutputs(s)
            PROVE  /\ i \in DOMAIN key
                   /\ \E j \in DOMAIN key : j > i /\ key[j] = key[i]
        BY <4>2, <4>3, <4>4, <4>5, <2>2
      <4>6. ASSUME NEW i \in DOMAIN key, NEW j \in DOMAIN key, j > i, key[j] = key[i]
            PROVE  i \in RepeatedCommandOutputs(s)
        BY <4>2, <4>3, <4>4, <4>6, <2>2
      <4>. QED BY <4>1, <4>5, <4>6
    <3>. HIDE DEF edges
    <3>4. DOMAIN key \subseteq 1 .. n
      BY <2>2
    <3>. HIDE DEF key
    <3>. QED BY <2>5, <3>1, <3>2, <3>3, <3>4
  <2>. QED BY <2>1, <2>4, <2>6, <2>7, <2>8
<1>. QED BY <1>1, TypeCorrect, PTL

-----------------------------------------------------------------------------
(* Drops are final.                                                        *)

\* What reading keeps: the items read before, and no fewer items and calls.
Grown(old, size) ==
  {x \in Reading : /\ Len(x.items) >= Len(old)
                   /\ \A k \in 1 .. Len(old) : x.items[k] = old[k]
                   /\ Len(x.items) + Len(x.pending) >= size}

\* Pairing moves a call from the Map to the items, behind those there.
LEMMA PairUpGrows ==
  ASSUME NEW old \in Seq(Item), NEW size \in Nat, NEW x \in Grown(old, size),
         NEW id, NEW result \in Results, HasPending(x.pending, id),
         Here \in Positions
  PROVE  PairUp(x, id, result) \in Grown(old, size)
<1>. DEFINE y == PairUp(x, id, result)
            call == GetPending(x.pending, id)
            pair == ToolPair(call.id, call.tool, result, call.messageId, Here)
            k == PlaceOf(x.pending, id)
<1>1. x \in Reading /\ x.items \in Seq(Item) /\ x.pending \in Seq(PendingCall)
  BY DEF Grown, Reading, Maps
<1>2. y \in Reading
  BY <1>1, PairUpStaysReading
<1>3. y.items = Append(x.items, pair) /\ y.pending = DeletePending(x.pending, id)
  BY DEF PairUp
<1>. DEFINE map == x.pending
            done == x.items
<1>4. k \in 1 .. Len(map)
  BY <1>1 DEF HasPending, PlaceOf
<1>5. y.pending = SubSeq(map, 1, k - 1) \o SubSeq(map, k + 1, Len(map))
  BY <1>3 DEF DeletePending, RemoveAt
<1>6. /\ Len(done) >= Len(old) /\ Len(done) + Len(map) >= size
      /\ \A n \in 1 .. Len(old) : done[n] = old[n]
  BY DEF Grown
<1>7. /\ map \in Seq(PendingCall) /\ done \in Seq(Item) /\ y.items = Append(done, pair)
      /\ Len(old) \in Nat
  BY <1>1, <1>3
<1>. HIDE DEF k, pair, y, map, done
<1>8. Len(y.pending) = Len(map) - 1
  BY <1>4, <1>5, <1>7, WithoutElement
<1>9. Len(y.items) = Len(done) + 1 /\ \A n \in 1 .. Len(done) : y.items[n] = done[n]
  BY <1>7
<1>10. Len(map) \in Nat /\ Len(done) \in Nat
  BY <1>7
<1>11. Len(y.items) >= Len(old) /\ Len(y.items) + Len(y.pending) >= size
  BY <1>6, <1>7, <1>8, <1>9, <1>10
<1>12. \A n \in 1 .. Len(old) : y.items[n] = old[n]
  BY <1>6, <1>7, <1>9, <1>10
<1>. QED BY <1>2, <1>11, <1>12 DEF Grown, y

\* Setting a call never shrinks the Map.
LEMMA SetPendingGrows ==
  ASSUME NEW map \in Seq(PendingCall), NEW call \in PendingCall
  PROVE  Len(SetPending(map, call)) >= Len(map)
<1>1. Len(map) \in Nat /\ DOMAIN map = 1 .. Len(map)
  OBVIOUS
<1>2. CASE \E k \in DOMAIN map : map[k].id = call.id
  <2>. DEFINE new == [k \in DOMAIN map |-> IF map[k].id = call.id THEN call ELSE map[k]]
  <2>1. SetPending(map, call) = new
    BY <1>2 DEF SetPending
  <2>2. new \in Seq(PendingCall) /\ DOMAIN new = 1 .. Len(map)
    BY <1>1
  <2>. HIDE DEF new
  <2>3. Len(new) = Len(map)
    BY <1>1, <2>2
  <2>. QED BY <1>1, <2>1, <2>3
<1>3. CASE ~\E k \in DOMAIN map : map[k].id = call.id
  BY <1>1, <1>3 DEF SetPending
<1>. QED BY <1>2, <1>3

\* Reading a message keeps the items where they are, and the session as long.
LEMMA ReadGrows ==
  ASSUME TypeOK, NEW m \in Messages, Read(m)
  PROVE  /\ Len(items') >= Len(items)
         /\ \A k \in 1 .. Len(items) : items'[k] = items[k]
         /\ Len(items') + Len(pending') >= Len(items) + Len(pending)
<1>. DEFINE size == Len(items) + Len(pending)
            G == Grown(items, size)
            state == [items |-> items, pending |-> pending]
<1>1. /\ items \in Seq(Item) /\ pending \in Maps /\ pending \in Seq(PendingCall)
      /\ Len(items) \in Nat /\ Len(pending) \in Nat /\ size \in Nat
      /\ Here \in Positions /\ Len(transcript) \in Nat
  BY MaxMessagesAssumption DEF TypeOK, Maps, Here, Positions, Read
<1>2. state \in G
  BY <1>1 DEF Grown, Reading
<1>3. SUFFICES ASSUME ~(Len(items') >= Len(items)
                        /\ (\A k \in 1 .. Len(items) : items'[k] = items[k])
                        /\ Len(items') + Len(pending') >= size)
               PROVE  FALSE
  OBVIOUS
<1>4. \A x \in G : ~(items' = x.items /\ pending' = x.pending)
  BY <1>3 DEF Grown
<1>. HIDE DEF size
<1>5. CASE ReadToolMessage(m)
  <2>1. CASE m.toolCallId # None /\ HasPending(pending, m.toolCallId)
    <3>1. m.result \in Results
      BY <1>5 DEF Results, ReadToolMessage
    <3>2. HasPending(state.pending, m.toolCallId)
      BY <2>1
    <3>. HIDE DEF state
    <3>3. PairUp(state, m.toolCallId, m.result) \in G
      BY <1>1, <1>2, <3>1, <3>2, PairUpGrows
    <3>4. /\ items' = PairUp(state, m.toolCallId, m.result).items
          /\ pending' = PairUp(state, m.toolCallId, m.result).pending
      BY <1>5, <2>1 DEF ReadToolMessage, state
    <3>. HIDE DEF G
    <3>. QED BY <1>4, <3>3, <3>4
  <2>2. CASE ~(m.toolCallId # None /\ HasPending(pending, m.toolCallId))
    <3>1. /\ items' = Append(items, UnpairedResult(m.name, m.toolCallId, m.result, Here))
          /\ pending' = pending
      BY <1>5, <2>2 DEF ReadToolMessage
    <3>2. Len(items') = Len(items) + 1 /\ \A k \in 1 .. Len(items) : items'[k] = items[k]
      BY <1>1, <3>1
    <3>. QED BY <1>1, <1>3, <3>1, <3>2 DEF size
  <2>. QED BY <2>1, <2>2
<1>6. CASE ReadMessage(m)
  <2>. DEFINE said  == IF m.text = None THEN <<>>
                       ELSE <<MessageItem(m.role, m.text, Here)>>
              calls == [k \in DOMAIN m.calls |->
                          [id |-> m.calls[k].id, tool |-> m.calls[k].tool,
                           messageId |-> Here]]
              begun == [items |-> items \o said, pending |-> SetCalls(pending, calls)]
              M == {map \in Maps : Len(map) >= Len(pending)}
  <2>1. said \in Seq(Item) /\ calls \in Seq(PendingCall)
    BY <1>1, MessageParts
  <2>. HIDE DEF said, calls
  <2>2. SetCalls(pending, calls) \in M
    <3>1. ASSUME NEW x \in M, NEW c \in PendingCall PROVE SetPending(x, c) \in M
      <4>1. x \in Maps /\ x \in Seq(PendingCall) /\ SetPending(x, c) \in Maps
        BY SetPendingStaysMap DEF Maps
      <4>2. /\ Len(SetPending(x, c)) >= Len(x) /\ Len(x) >= Len(pending)
            /\ Len(SetPending(x, c)) \in Nat /\ Len(x) \in Nat
        BY <4>1, SetPendingGrows DEF Maps
      <4>. QED BY <1>1, <4>1, <4>2
    <3>2. pending \in M
      BY <1>1
    <3>. HIDE DEF M
    <3>. QED BY <2>1, <3>1, <3>2, SetCallsStays
  <2>3. /\ Len(items \o said) >= Len(items) /\ items \o said \in Seq(Item)
        /\ \A k \in 1 .. Len(items) : (items \o said)[k] = items[k]
        /\ Len(items \o said) \in Nat
    BY <1>1, <2>1
  <2>4. begun \in G
    <3>. DEFINE set == SetCalls(pending, calls)
    <3>1. set \in Maps /\ Len(set) >= Len(pending) /\ Len(set) \in Nat
      BY <2>2 DEF Maps
    <3>2. begun = [items |-> items \o said, pending |-> set]
      OBVIOUS
    <3>. HIDE DEF set, begun
    <3>3. Len(items \o said) + Len(set) >= size
      BY <1>1, <2>3, <3>1 DEF size
    <3>. QED BY <2>3, <3>1, <3>2, <3>3 DEF Grown, Reading
  <2>5. m.results \in Seq(ToSet(m.results)) /\ \A r \in ToSet(m.results) : r.result \in Results
    BY MessagesAssumption DEF Results
  <2>. HIDE DEF begun
  <2>6. ReadResults(begun, m.results) \in G
    <3>1. \A x \in G, r \in ToSet(m.results) : ReadInline(x, r) \in G
      BY <1>1, <2>5, PairUpGrows DEF ReadInline
    <3>. HIDE DEF G
    <3>. QED BY <2>4, <2>5, <3>1, ReadResultsStays
  <2>7. /\ items' = ReadResults(begun, m.results).items
        /\ pending' = ReadResults(begun, m.results).pending
    BY <1>6 DEF ReadMessage, begun, said, calls
  <2>. HIDE DEF G
  <2>. QED BY <1>4, <2>6, <2>7
<1>. QED BY <1>5, <1>6 DEF Read

\* What a rule that drops names, and no rule protects, is dropped.
LEMMA ReasonDrops ==
  ASSUME NEW s, NEW i \in DOMAIN s, NEW r \in DropRules, i \in Emits(r, s),
         \A p \in ProtectRules : i \notin Emits(p, s)
  PROVE  i \in Dropped(s)
<1>. DEFINE said == Said(s)[i]
            d == Deterministic(s)[i]
            e == Emission(r, s[i])
<1>1. /\ said \in SUBSET Decision /\ d \in Verdicts(said, FALSE)
      /\ \A x \in said : \E q \in Rules : i \in Emits(q, s) /\ x = Emission(q, s[i])
  BY DeterministicIsVerdict, SaidProperties
<1>2. r \in Rules
  BY DEF DropRules, Rules
<1>3. e \in said /\ e \in Decision /\ e.action = "DROP"
  <2>1. e \in said /\ e \in Decision
    BY <1>2, SaidProperties, EmissionProperties
  <2>2. e.action = "DROP"
    BY <1>2 DEF DropRules, Emission, MakeDecision
  <2>. QED BY <2>1, <2>2
<1>4. e.authority \in {"heuristic", "structural"}
  BY <1>2 DEF DropRules, Emission, MakeDecision
<1>. HIDE DEF said, d, e
<1>5. \A x \in said : /\ x \in Decision /\ x.retention = "normal"
                      /\ x.action \in {"COMPRESS", "DROP"}
                      /\ x.authority # "semantic"
  <2>1. ASSUME NEW x \in said
        PROVE  /\ x \in Decision /\ x.retention = "normal"
               /\ x.action \in {"COMPRESS", "DROP"}
               /\ x.authority # "semantic"
    <3>1. PICK q \in Rules : i \in Emits(q, s) /\ x = Emission(q, s[i])
      BY <1>1
    <3>2. q \notin ProtectRules
      BY <3>1
    <3>. QED BY <1>1, <3>1, <3>2, EmissionProperties
  <2>. QED BY <2>1
<1>6. ~Retained(said)
  BY <1>5 DEF Retained, Retains
<1>7. PICK x \in Leading(said, FALSE) : d = [x EXCEPT !.retention = "normal"]
  BY <1>1, <1>6 DEF Verdicts
<1>8. x \in Strongest(said)
  <2>1. Escalations(said, FALSE) = {}
    BY DEF Escalations
  <2>. QED BY <1>7, <2>1 DEF Leading
<1>9. x \in said \cup {DefaultKeep} /\ Outranks(x, e)
  <2>1. e \in Contenders(said)
    BY <1>3, <1>4 DEF Contenders
  <2>. QED BY <1>8, <2>1 DEF Strongest, Contenders
<1>10. x.action = "DROP"
  <2>1. CASE x = DefaultKeep
    BY <1>3, <1>4, <1>9, <2>1 DEF DefaultKeep, Outranks, AuthorityRank, ActionRank
  <2>2. CASE x \in said
    <3>1. x.action \in {"COMPRESS", "DROP"} /\ x.authority # "semantic" /\ x \in Decision
      BY <1>5, <2>2
    <3>2. CASE x.action = "COMPRESS"
      <4>1. PICK q \in Rules : i \in Emits(q, s) /\ x = Emission(q, s[i])
        BY <1>1, <2>2
      <4>2. q \notin ProtectRules
        BY <4>1
      <4>3. q = "compress-large-output"
        BY <3>2, <4>1, <4>2 DEF Emission, MakeDecision, ProtectRules, SafetyRules
      <4>4. x.authority = "heuristic"
        BY <4>1, <4>3 DEF Emission, MakeDecision
      <4>. QED BY <1>3, <1>4, <1>9, <3>2, <4>4 DEF Outranks, AuthorityRank, ActionRank
    <3>. QED BY <3>1, <3>2
  <2>. QED BY <1>9, <2>1, <2>2
<1>11. d.action = "DROP"
  <2>1. x \in Decision
    BY <1>1, <1>7, LeadingProperties
  <2>. QED BY <1>7, <1>10, <2>1 DEF Decision
<1>. QED BY <1>11 DEF Dropped, d

\* A tool's keys are its own, whatever became of the call.
LEMMA KeysAreOfTools ==
  ASSUME NEW a, NEW b, a.tool = b.tool
  PROVE  /\ IsTool(a) <=> IsTool(b)
         /\ \A kind : OfKind(a, kind) <=> OfKind(b, kind)
         /\ TestKey(a) = TestKey(b) /\ GitStatusKey(a) = GitStatusKey(b)
         /\ GitDiffKey(a) = GitDiffKey(b) /\ ListingKey(a) = ListingKey(b)
         /\ ItemPath(a) = ItemPath(b)
<1>1. (IsTool(a) <=> IsTool(b)) /\ \A kind : OfKind(a, kind) <=> OfKind(b, kind)
  BY DEF IsTool, OfKind
<1>. QED BY <1>1 DEF TestKey, GitStatusKey, GitDiffKey, ListingKey, ItemPath

\* What has an outcome has a result.
LEMMA OutcomesAreResults ==
  ASSUME NEW a, IsToolFailure(a) \/ IsToolSuccess(a)
  PROVE  a.result # None
  BY DEF IsToolFailure, IsToolSuccess, OutputSays

\* Let s grow into t: the items of s up to k stay, and each later one of s has
\* its like in t behind k, the same unless it was a call without a result.
Grows(s, t, k) ==
  /\ Len(t) >= Len(s)
  /\ \A i \in 1 .. k : t[i] = s[i]
  /\ \A i \in 1 .. k : \A j \in i + 1 .. Len(s) :
       \E l \in i + 1 .. Len(t) : /\ t[l].tool = s[j].tool
                                  /\ s[j].result # None => t[l] = s[j]

\* Then what a rule drops of the items that stay, it drops again.
LEMMA DropsAgain ==
  ASSUME NEW s, NEW t, NEW n \in Nat, NEW o \in Nat, NEW k \in 0 .. n,
         DOMAIN s = 1 .. n, Len(s) = n, DOMAIN t = 1 .. o, Len(t) = o,
         Grows(s, t, k), NEW i \in 1 .. k,
         IsTool(s[i]) => s[i].result # None,
         NEW r \in DropRules, i \in Emits(r, s)
  PROVE  i \in Emits(r, t)
<1>1. /\ t[i] = s[i] /\ i \in 1 .. n /\ i \in 1 .. o /\ o >= n
      /\ \A j \in i + 1 .. n :
           \E l \in i + 1 .. o : /\ t[l].tool = s[j].tool
                                 /\ s[j].result # None => t[l] = s[j]
  BY DEF Grows
<1>2. ASSUME NEW f, NEW g, DOMAIN f = 1 .. n, DOMAIN g = 1 .. o, f[i] = g[i],
             \A j \in i + 1 .. n, l \in i + 1 .. o :
               t[l].tool = s[j].tool => g[l] = f[j],
             i \in OlderByKey(f)
      PROVE  i \in OlderByKey(g)
  <2>1. PICK j \in i + 1 .. n : f[j] = f[i] /\ f[i] # None
    BY <1>1, <1>2 DEF OlderByKey
  <2>2. PICK l \in i + 1 .. o : t[l].tool = s[j].tool
    BY <1>1
  <2>3. g[l] = g[i] /\ g[i] # None
    BY <1>2, <2>1, <2>2
  <2>. QED BY <1>1, <1>2, <2>2, <2>3 DEF OlderByKey
<1>3. CASE r = "successful-test-supersedes-failures"
  <2>1. i \in SuccessfulTestSupersedesFailures(s)
    BY <1>3 DEF Emits
  <2>2. PICK j \in i + 1 .. n : /\ OfKind(s[j], "test_run")
                                /\ IsToolSuccess(s[j])
                                /\ TestTarget(s[j].tool) = TestTarget(s[i].tool)
    BY <2>1 DEF SuccessfulTestSupersedesFailures
  <2>3. s[j].result # None
    BY <2>2, OutcomesAreResults
  <2>4. PICK l \in i + 1 .. o : t[l] = s[j]
    BY <1>1, <2>3
  <2>5. i \in SuccessfulTestSupersedesFailures(t)
    BY <1>1, <2>1, <2>2, <2>4 DEF SuccessfulTestSupersedesFailures
  <2>. QED BY <1>3, <2>5 DEF Emits
<1>4. CASE r = "superseded-test-run"
  <2>1. i \in SupersededTestRuns(s)
    BY <1>4 DEF Emits
  <2>. DEFINE f == [x \in DOMAIN s |-> TestKey(s[x])]
              g == [x \in DOMAIN t |-> TestKey(t[x])]
  <2>2. i \in SupersededTestRuns(t)
    <3>1. DOMAIN f = 1 .. n /\ DOMAIN g = 1 .. o /\ f[i] = g[i]
      BY <1>1
    <3>2. ASSUME NEW j \in i + 1 .. n, NEW l \in i + 1 .. o, t[l].tool = s[j].tool
          PROVE  g[l] = f[j]
      <4>1. TestKey(t[l]) = TestKey(s[j])
        BY <3>2, KeysAreOfTools
      <4>. QED BY <4>1, <1>1
    <3>3. i \in OlderByKey(f)
      BY <2>1 DEF SupersededTestRuns
    <3>. HIDE DEF f, g
    <3>4. i \in OlderByKey(g)
      BY <1>2, <3>1, <3>2, <3>3
    <3>. QED BY <3>4 DEF SupersededTestRuns, g
  <2>. QED BY <1>4, <2>2 DEF Emits
<1>5. CASE r = "superseded-git-status"
  <2>1. i \in SupersededGitStatus(s)
    BY <1>5 DEF Emits
  <2>. DEFINE f == [x \in DOMAIN s |-> GitStatusKey(s[x])]
              g == [x \in DOMAIN t |-> GitStatusKey(t[x])]
  <2>2. i \in SupersededGitStatus(t)
    <3>1. DOMAIN f = 1 .. n /\ DOMAIN g = 1 .. o /\ f[i] = g[i]
      BY <1>1
    <3>2. ASSUME NEW j \in i + 1 .. n, NEW l \in i + 1 .. o, t[l].tool = s[j].tool
          PROVE  g[l] = f[j]
      <4>1. GitStatusKey(t[l]) = GitStatusKey(s[j])
        BY <3>2, KeysAreOfTools
      <4>. QED BY <4>1, <1>1
    <3>3. i \in OlderByKey(f)
      BY <2>1 DEF SupersededGitStatus
    <3>. HIDE DEF f, g
    <3>4. i \in OlderByKey(g)
      BY <1>2, <3>1, <3>2, <3>3
    <3>. QED BY <3>4 DEF SupersededGitStatus, g
  <2>. QED BY <1>5, <2>2 DEF Emits
<1>6. CASE r = "superseded-git-diff"
  <2>1. i \in SupersededGitDiff(s)
    BY <1>6 DEF Emits
  <2>. DEFINE f == [x \in DOMAIN s |-> GitDiffKey(s[x])]
              g == [x \in DOMAIN t |-> GitDiffKey(t[x])]
  <2>2. i \in SupersededGitDiff(t)
    <3>1. DOMAIN f = 1 .. n /\ DOMAIN g = 1 .. o /\ f[i] = g[i]
      BY <1>1
    <3>2. ASSUME NEW j \in i + 1 .. n, NEW l \in i + 1 .. o, t[l].tool = s[j].tool
          PROVE  g[l] = f[j]
      <4>1. GitDiffKey(t[l]) = GitDiffKey(s[j])
        BY <3>2, KeysAreOfTools
      <4>. QED BY <4>1, <1>1
    <3>3. i \in OlderByKey(f)
      BY <2>1 DEF SupersededGitDiff
    <3>. HIDE DEF f, g
    <3>4. i \in OlderByKey(g)
      BY <1>2, <3>1, <3>2, <3>3
    <3>. QED BY <3>4 DEF SupersededGitDiff, g
  <2>. QED BY <1>6, <2>2 DEF Emits
<1>7. CASE r = "old-directory-listing"
  <2>1. i \in OldDirectoryListings(s)
    BY <1>7 DEF Emits
  <2>. DEFINE f == [x \in DOMAIN s |-> ListingKey(s[x])]
              g == [x \in DOMAIN t |-> ListingKey(t[x])]
  <2>2. i \in OldDirectoryListings(t)
    <3>1. DOMAIN f = 1 .. n /\ DOMAIN g = 1 .. o /\ f[i] = g[i]
      BY <1>1
    <3>2. ASSUME NEW j \in i + 1 .. n, NEW l \in i + 1 .. o, t[l].tool = s[j].tool
          PROVE  g[l] = f[j]
      <4>1. ListingKey(t[l]) = ListingKey(s[j])
        BY <3>2, KeysAreOfTools
      <4>. QED BY <4>1, <1>1
    <3>3. i \in OlderByKey(f)
      BY <2>1 DEF OldDirectoryListings
    <3>. HIDE DEF f, g
    <3>4. i \in OlderByKey(g)
      BY <1>2, <3>1, <3>2, <3>3
    <3>. QED BY <3>4 DEF OldDirectoryListings, g
  <2>. QED BY <1>7, <2>2 DEF Emits
<1>8. CASE r = "superseded-file-read"
  <2>1. i \in SupersededFileReads(s)
    BY <1>8 DEF Emits
  <2>2. /\ OfKind(s[i], "file_read") /\ ItemPath(s[i]) # None
        /\ \E j \in i + 1 .. n : /\ OfKind(s[j], "file_read")
                                 /\ ItemPath(s[j]) = ItemPath(s[i])
    BY <2>1 DEF SupersededFileReads, LaterReads
  <2>3. PICK j \in i + 1 .. n : OfKind(s[j], "file_read") /\ ItemPath(s[j]) = ItemPath(s[i])
    BY <2>2
  <2>4. PICK l \in i + 1 .. o : t[l].tool = s[j].tool
    BY <1>1
  <2>5. OfKind(t[l], "file_read") /\ ItemPath(t[l]) = ItemPath(t[i])
    BY <1>1, <2>3, <2>4, KeysAreOfTools
  <2>6. i \in SupersededFileReads(t)
    BY <1>1, <2>2, <2>4, <2>5 DEF SupersededFileReads, LaterReads
  <2>. QED BY <1>8, <2>6 DEF Emits
<1>9. CASE r = "repeated-command-output"
  <2>1. i \in RepeatedCommandOutputs(s)
    BY <1>9 DEF Emits
  <2>2. PICK j \in i + 1 .. n : SameExecution(s[i], s[j])
    BY <2>1 DEF RepeatedCommandOutputs
  <2>3. s[i].result # None
    BY <2>2 DEF SameExecution, CommandIdentity
  <2>4. s[j].result # None
    <3>1. SUFFICES ASSUME s[j].result = None PROVE FALSE
      OBVIOUS
    <3>2. <<"output", s[i].result.output>> = <<"call", s[j].tool.name, s[j].tool.args>>
      BY <2>2, <2>3, <3>1 DEF SameExecution, NormalizedHash
    <3>. QED BY <3>2
  <2>5. PICK l \in i + 1 .. o : t[l] = s[j]
    BY <1>1, <2>4
  <2>6. i \in RepeatedCommandOutputs(t)
    BY <1>1, <2>2, <2>5 DEF RepeatedCommandOutputs
  <2>. QED BY <1>9, <2>6 DEF Emits
<1>. QED BY <1>3, <1>4, <1>5, <1>6, <1>7, <1>8, <1>9 DEF DropRules

\* And what no rule protects of the tool items that stay, none protects then.
LEMMA UnprotectedAgain ==
  ASSUME NEW s, NEW t, NEW n \in Nat, NEW o \in Nat, NEW k \in 0 .. n,
         DOMAIN s = 1 .. n, Len(s) = n, DOMAIN t = 1 .. o, Len(t) = o,
         Grows(s, t, k), NEW i \in 1 .. k,
         IsTool(s[i]), s[i].kind # "message",
         \A p \in ProtectRules : i \notin Emits(p, s)
  PROVE  \A p \in ProtectRules : i \notin Emits(p, t)
<1>1. /\ t[i] = s[i] /\ i \in 1 .. n /\ i \in 1 .. o /\ o >= n
      /\ \A j \in i + 1 .. n :
           \E l \in i + 1 .. o : /\ t[l].tool = s[j].tool
                                 /\ s[j].result # None => t[l] = s[j]
  BY DEF Grows
<1>2. i \notin Emits("system-instructions", t)
  BY <1>1 DEF Emits, SystemInstructions, ItemLooksLikeSafetyInstruction
<1>3. i \notin Emits("explicit-user-constraint", t)
  BY <1>1 DEF Emits, ExplicitUserConstraints, IsConstraintMessage, IsMessageOf
<1>4. i \notin Emits("current-task", t)
  <2>. DEFINE user == {x \in DOMAIN t : IsMessageOf(t[x], "user")}
              substantive == {x \in user : ~t[x].text.ack}
  <2>1. i \notin user /\ i \notin substantive
    BY <1>1 DEF IsMessageOf
  <2>2. user \in SUBSET (0 .. o) /\ substantive \in SUBSET (0 .. o)
    OBVIOUS
  <2>3. CurrentTask(t) = IF substantive # {} THEN {Max(substantive)}
                         ELSE IF user # {} THEN {Max(user)} ELSE {}
    BY DEF CurrentTask
  <2>. HIDE DEF user, substantive
  <2>4. /\ substantive # {} => Max(substantive) \in substantive
        /\ user # {} => Max(user) \in user
    BY <2>2, MaxPosition
  <2>5. i \notin CurrentTask(t)
    BY <2>1, <2>3, <2>4
  <2>. QED BY <2>5 DEF Emits
<1>5. i \notin Emits("unresolved-error", t)
  <2>1. SUFFICES ASSUME i \in Emits("unresolved-error", t) PROVE FALSE
    OBVIOUS
  <2>2. /\ IsToolFailure(t[i])
        /\ \A l \in i + 1 .. o :
             IsTool(t[l]) /\ FailureKey(t[l].tool) = FailureKey(t[i].tool) =>
               ~IsToolFailure(t[l]) /\ ~IsToolSuccess(t[l])
    BY <2>1 DEF Emits, UnresolvedErrors
  <2>3. i \notin Emits("unresolved-error", s)
    BY DEF ProtectRules, SafetyRules
  <2>4. PICK j \in i + 1 .. n :
          /\ IsTool(s[j]) /\ FailureKey(s[j].tool) = FailureKey(s[i].tool)
          /\ IsToolFailure(s[j]) \/ IsToolSuccess(s[j])
    BY <1>1, <2>2, <2>3 DEF Emits, UnresolvedErrors
  <2>5. s[j].result # None
    BY <2>4, OutcomesAreResults
  <2>6. PICK l \in i + 1 .. o : t[l] = s[j]
    BY <1>1, <2>5
  <2>. QED BY <1>1, <2>2, <2>4, <2>6
<1>6. i \notin Emits("recent-items", t)
  <2>1. i \notin RecentItems(s)
    BY DEF ProtectRules, Emits
  <2>2. i \notin RecentItems(t)
    BY <1>1, <2>1, RecentItemCountAssumption DEF RecentItems
  <2>. QED BY <2>2 DEF Emits
<1>. QED BY <1>2, <1>3, <1>4, <1>5, <1>6 DEF ProtectRules, SafetyRules

\* An item about a tool has a result, and is no message.
LEMMA ItemsHaveResults ==
  ASSUME NEW item \in Item, IsTool(item)
  PROVE  item.result # None /\ item.kind # "message"
<1>1. \A result \in Results : result # None
  BY MessagesAssumption DEF Results
<1>2. CASE \E m \in Messages, n \in Positions : item = MessageItem(m.role, m.text, n)
  BY <1>2 DEF MessageItem, IsTool
<1>3. CASE \E id \in CallIds, tool \in CallTools, result \in Results, asked \in Positions,
              answered \in Positions : item = ToolPair(id, tool, result, asked, answered)
  BY <1>1, <1>3 DEF ToolPair
<1>4. CASE \E m \in Messages, result \in Results, n \in Positions :
             item = UnpairedResult(m.name, m.toolCallId, result, n)
  BY <1>1, <1>4 DEF UnpairedResult
<1>. QED BY <1>2, <1>3, <1>4 DEF Item

\* A message under which no id is reissued makes the session grow.
LEMMA SessionGrows ==
  ASSUME TypeOK, NEW m \in Messages, Read(m), TypeOK', NoneReissued
  PROVE  /\ Len(Session) \in Nat /\ DOMAIN Session = 1 .. Len(Session)
         /\ Len(Session') \in Nat /\ DOMAIN Session' = 1 .. Len(Session')
         /\ Len(items) \in 0 .. Len(Session)
         /\ \A i \in 1 .. Len(items) : Session[i] = items[i] /\ items[i] \in Item
         /\ Grows(Session, Session', Len(items))
<1>. DEFINE s == Shown(items, pending)
            t == Shown(items', pending')
            k == Len(items)
<1>1. /\ items \in Seq(Item) /\ pending \in Seq(PendingCall)
      /\ items' \in Seq(Item) /\ pending' \in Seq(PendingCall)
      /\ Len(items) \in Nat /\ Len(items') \in Nat
      /\ Len(pending) \in Nat /\ Len(pending') \in Nat
      /\ DOMAIN items = 1 .. Len(items) /\ DOMAIN items' = 1 .. Len(items')
      /\ DOMAIN pending = 1 .. Len(pending) /\ DOMAIN pending' = 1 .. Len(pending')
  BY DEF TypeOK
<1>2. Session = s /\ Session' = t
  BY DEF Session, Shown
<1>3. /\ Len(s) \in Nat /\ DOMAIN s = 1 .. Len(s) /\ Len(s) = Len(items) + Len(pending)
      /\ \A i \in 1 .. Len(items) : s[i] = items[i]
      /\ \A c \in 1 .. Len(pending) :
           s[Len(items) + c] =
             UnpairedCall(pending[c].id, pending[c].tool, pending[c].messageId)
  BY <1>1, ShownIsSequence
<1>4. /\ Len(t) \in Nat /\ DOMAIN t = 1 .. Len(t) /\ Len(t) = Len(items') + Len(pending')
      /\ \A i \in 1 .. Len(items') : t[i] = items'[i]
      /\ \A c \in 1 .. Len(pending') :
           t[Len(items') + c] =
             UnpairedCall(pending'[c].id, pending'[c].tool, pending'[c].messageId)
  BY <1>1, ShownIsSequence
<1>5. /\ Len(items') >= Len(items)
      /\ \A i \in 1 .. Len(items) : items'[i] = items[i]
      /\ Len(items') + Len(pending') >= Len(items) + Len(pending)
  BY ReadGrows
<1>. HIDE DEF s, t
<1>6. Len(t) >= Len(s) /\ \A i \in 1 .. k : t[i] = s[i]
  BY <1>1, <1>3, <1>4, <1>5
<1>7. ASSUME NEW i \in 1 .. k, NEW j \in i + 1 .. Len(s)
      PROVE  \E l \in i + 1 .. Len(t) : /\ t[l].tool = s[j].tool
                                        /\ s[j].result # None => t[l] = s[j]
  <2>1. CASE j <= k
    <3>1. t[j] = s[j] /\ j \in i + 1 .. Len(t)
      BY <1>1, <1>3, <1>4, <1>6, <2>1
    <3>. QED BY <3>1
  <2>2. CASE j > k
    <3>. DEFINE c == j - k
    <3>1. c \in 1 .. Len(pending) /\ j = Len(items) + c
      BY <1>1, <1>3, <2>2
    <3>. HIDE DEF c
    <3>2. s[j] = UnpairedCall(pending[c].id, pending[c].tool, pending[c].messageId)
      BY <1>3, <3>1
    <3>3. CASE \E l \in DOMAIN pending' : pending'[l] = pending[c]
      <4>1. PICK l \in DOMAIN pending' : pending'[l] = pending[c]
        BY <3>3
      <4>2. t[Len(items') + l] = s[j] /\ Len(items') + l \in i + 1 .. Len(t)
        BY <1>1, <1>4, <1>5, <3>2, <4>1
      <4>. QED BY <4>2
    <3>4. CASE \E l \in (DOMAIN items') \ DOMAIN items : items'[l].tool = pending[c].tool
      <4>1. PICK l \in (DOMAIN items') \ DOMAIN items : items'[l].tool = pending[c].tool
        BY <3>4
      <4>2. t[l].tool = s[j].tool /\ l \in i + 1 .. Len(t)
        BY <1>1, <1>4, <1>5, <3>2, <4>1 DEF UnpairedCall
      <4>3. s[j].result = None
        BY <3>2 DEF UnpairedCall
      <4>. QED BY <4>2, <4>3
    <3>. QED BY <1>1, <3>1, <3>3, <3>4 DEF NoneReissued
  <2>3. j <= k \/ j > k
    BY <1>1, <1>3
  <2>. QED BY <2>1, <2>2, <2>3
<1>8. Grows(s, t, k)
  BY <1>6, <1>7 DEF Grows
<1>9. k \in 0 .. Len(s) /\ \A i \in 1 .. k : s[i] = items[i] /\ items[i] \in Item
  BY <1>1, <1>3
<1>. QED BY <1>2, <1>3, <1>4, <1>8, <1>9

\* What the rules drop they drop for good, unless the id of a pending call is
\* reissued.
THEOREM DropsAreFinalTheorem == Spec => DropsAreFinal
<1>1. ASSUME TypeOK, TypeOK', [Next]_normalizeVars
      PROVE  [NoneReissued => \A i \in Dropped(Session) \cap DOMAIN items :
                                i \in Dropped(Session)']_normalizeVars
  <2>1. SUFFICES ASSUME Next, NoneReissued, NEW i \in Dropped(Session), i \in DOMAIN items
                 PROVE  i \in Dropped(Session)'
    BY <1>1
  <2>2. PICK m \in Messages : Read(m)
    BY <2>1 DEF Next
  <2>. DEFINE s == Session
              t == Session'
              k == Len(items)
  <2>3. /\ Len(s) \in Nat /\ DOMAIN s = 1 .. Len(s)
        /\ Len(t) \in Nat /\ DOMAIN t = 1 .. Len(t)
        /\ k \in 0 .. Len(s)
        /\ \A x \in 1 .. k : s[x] = items[x] /\ items[x] \in Item
        /\ Grows(s, t, k)
    BY <1>1, <2>1, <2>2, SessionGrows
  <2>4. i \in 1 .. k
    BY <1>1, <2>1 DEF TypeOK
  <2>5. i \in Dropped(s)
    BY <2>1
  <2>6. SUFFICES i \in Dropped(t)
    OBVIOUS
  <2>. HIDE DEF s, t, k
  <2>7. PICK r \in DropRules : i \in Emits(r, s)
    BY <2>5, DropHasReason
  <2>8. i \in DOMAIN s /\ IsTool(s[i])
    BY <2>3, <2>5, <2>7, DropHasReason, DropIsForLater
  <2>9. s[i].result # None /\ s[i].kind # "message"
    BY <2>3, <2>4, <2>8, ItemsHaveResults
  <2>10. ~Retained(Said(s)[i])
    BY <2>5, <2>8, DeterministicIsVerdict, RetainedVerdict DEF Dropped
  <2>11. \A p \in ProtectRules : i \notin Emits(p, s)
    BY <2>8, <2>10, ProtectedIsRetained
  <2>12. \A p \in ProtectRules : i \notin Emits(p, t)
    BY <2>3, <2>4, <2>8, <2>9, <2>11, UnprotectedAgain
  <2>13. i \in Emits(r, t)
    BY <2>3, <2>4, <2>7, <2>9, DropsAgain
  <2>14. i \in DOMAIN t
    BY <2>3, <2>4 DEF Grows
  <2>. QED BY <2>12, <2>13, <2>14, ReasonDrops
<1>. QED BY <1>1, TypeCorrect, PTL DEF Spec, DropsAreFinal
-----------------------------------------------------------------------------
(* What SetCalls and ReadResults leave.                                    *)

Entries(map) == {map[k] : k \in DOMAIN map}

\* Setting a key takes the place of what was there under it.
LEMMA SetPendingEntries ==
  ASSUME NEW map \in Maps, NEW call \in PendingCall
  PROVE  Entries(SetPending(map, call)) = {e \in Entries(map) : e.id # call.id} \cup {call}
<1>1. map \in Seq(PendingCall) /\ Len(map) \in Nat /\ DOMAIN map = 1 .. Len(map)
  BY DEF Maps
<1>2. CASE \E k \in DOMAIN map : map[k].id = call.id
  <2>. DEFINE new == [k \in DOMAIN map |-> IF map[k].id = call.id THEN call ELSE map[k]]
  <2>1. SetPending(map, call) = new
    BY <1>2 DEF SetPending
  <2>2. DOMAIN new = DOMAIN map
    OBVIOUS
  <2>3. \A k \in DOMAIN map : new[k] = IF map[k].id = call.id THEN call ELSE map[k]
    OBVIOUS
  <2>. HIDE DEF new
  <2>4. ASSUME NEW e \in Entries(new)
        PROVE  e \in {d \in Entries(map) : d.id # call.id} \cup {call}
    BY <2>2, <2>3 DEF Entries
  <2>5. ASSUME NEW e \in {d \in Entries(map) : d.id # call.id} \cup {call}
        PROVE  e \in Entries(new)
    BY <1>2, <2>2, <2>3 DEF Entries
  <2>. QED BY <2>1, <2>4, <2>5
<1>3. CASE ~\E k \in DOMAIN map : map[k].id = call.id
  <2>. DEFINE new == Append(map, call)
  <2>1. SetPending(map, call) = new
    BY <1>3 DEF SetPending
  <2>2. /\ DOMAIN new = 1 .. Len(map) + 1
        /\ new[Len(map) + 1] = call
        /\ \A k \in 1 .. Len(map) : new[k] = map[k]
    BY <1>1
  <2>. HIDE DEF new
  <2>3. \A k \in 1 .. Len(map) + 1 : k \in 1 .. Len(map) \/ k = Len(map) + 1
    BY <1>1
  <2>4. \A k \in 1 .. Len(map) : k \in 1 .. Len(map) + 1
    BY <1>1
  <2>5. Len(map) + 1 \in 1 .. Len(map) + 1
    BY <1>1
  <2>6. Entries(new) = Entries(map) \cup {call}
    BY <1>1, <2>2, <2>3, <2>4, <2>5 DEF Entries
  <2>7. \A e \in Entries(map) : e.id # call.id
    BY <1>3 DEF Entries
  <2>. QED BY <2>1, <2>6, <2>7
<1>. QED BY <1>2, <1>3

\* Deleting a key takes away what is there under it.
LEMMA DeletePendingEntries ==
  ASSUME NEW map \in Maps, NEW id, HasPending(map, id)
  PROVE  /\ Entries(DeletePending(map, id)) = {e \in Entries(map) : e.id # id}
         /\ GetPending(map, id) \in Entries(map)
<1>1. map \in Seq(PendingCall) /\ Len(map) \in Nat /\ DOMAIN map = 1 .. Len(map)
  BY DEF Maps
<1>. DEFINE k == PlaceOf(map, id)
<1>2. k \in 1 .. Len(map) /\ map[k].id = id
  BY <1>1 DEF HasPending, PlaceOf
<1>. HIDE DEF k
<1>3. GetPending(map, id) = map[k]
  BY DEF GetPending, k
<1>. DEFINE new == SubSeq(map, 1, k - 1) \o SubSeq(map, k + 1, Len(map))
<1>4. DeletePending(map, id) = new
  BY DEF DeletePending, RemoveAt, k
<1>. HIDE DEF new
<1>5. /\ new \in Seq(PendingCall) /\ Len(new) = Len(map) - 1
      /\ \A j \in 1 .. Len(map) - 1 : new[j] = IF j < k THEN map[j] ELSE map[j + 1]
  BY <1>1, <1>2, WithoutElement DEF new
<1>6. DOMAIN new = 1 .. Len(map) - 1
  BY <1>5
<1>7. \A j \in 1 .. Len(map) : map[j].id = id => j = k
  BY <1>1, <1>2 DEF Maps
<1>8. ASSUME NEW j \in 1 .. Len(map) - 1
      PROVE  new[j] \in Entries(map) /\ new[j].id # id
  <2>1. CASE j < k
    <3>1. new[j] = map[j] /\ j \in 1 .. Len(map) /\ j # k
      BY <2>1, <1>1, <1>2, <1>5
    <3>. QED BY <3>1, <1>1, <1>7 DEF Entries
  <2>2. CASE ~(j < k)
    <3>1. new[j] = map[j + 1] /\ j + 1 \in 1 .. Len(map) /\ j + 1 # k
      BY <2>2, <1>1, <1>2, <1>5
    <3>. QED BY <3>1, <1>1, <1>7 DEF Entries
  <2>. QED BY <2>1, <2>2
<1>9. ASSUME NEW j \in 1 .. Len(map), map[j].id # id
      PROVE  \E i \in 1 .. Len(map) - 1 : new[i] = map[j]
  <2>1. j # k
    BY <1>2, <1>9
  <2>2. CASE j < k
    <3>1. j \in 1 .. Len(map) - 1 /\ new[j] = map[j]
      BY <2>2, <1>1, <1>2, <1>5
    <3>. QED BY <3>1
  <2>3. CASE ~(j < k)
    <3>1. j - 1 \in 1 .. Len(map) - 1 /\ ~(j - 1 < k) /\ (j - 1) + 1 = j
      BY <2>1, <2>3, <1>1, <1>2
    <3>2. new[j - 1] = map[j]
      BY <3>1, <1>5
    <3>. QED BY <3>1, <3>2
  <2>. QED BY <2>2, <2>3
<1>10. Entries(new) = {e \in Entries(map) : e.id # id}
  <2>1. \A e \in Entries(new) : e \in Entries(map) /\ e.id # id
    BY <1>6, <1>8 DEF Entries
  <2>2. ASSUME NEW e \in Entries(map), e.id # id PROVE e \in Entries(new)
    <3>1. PICK j \in 1 .. Len(map) : e = map[j]
      BY <1>1 DEF Entries
    <3>2. PICK i \in 1 .. Len(map) - 1 : new[i] = map[j]
      BY <2>2, <3>1, <1>9
    <3>. QED BY <3>1, <3>2, <1>6 DEF Entries
  <2>. QED BY <2>1, <2>2
<1>11. map[k] \in Entries(map)
  BY <1>1, <1>2 DEF Entries
<1>. QED BY <1>3, <1>4, <1>10, <1>11

\* What is pending after the first n calls of a message were set.
AfterCalls(map, calls, n) ==
  {e \in Entries(map) : \A j \in 1 .. n : calls[j].id # e.id} \cup
  {calls[j] : j \in {k \in 1 .. n : \A l \in k + 1 .. n : calls[l].id # calls[k].id}}

\* One call more.
LEMMA AfterOneMore ==
  ASSUME NEW map \in Maps, NEW calls \in Seq(PendingCall), NEW n \in 1 .. Len(calls),
         NEW x \in Maps, Entries(x) = AfterCalls(map, calls, n - 1)
  PROVE  Entries(SetPending(x, calls[n])) = AfterCalls(map, calls, n)
<1>1. Len(calls) \in Nat /\ n \in Nat /\ calls[n] \in PendingCall
  OBVIOUS
<1>. DEFINE c == calls[n]
            last(k, b) == \A l \in k + 1 .. b : calls[l].id # calls[k].id
<1>2. Entries(SetPending(x, c)) = {e \in Entries(x) : e.id # c.id} \cup {c}
  BY <1>1, SetPendingEntries
<1>3. \A j \in 1 .. n : j \in 1 .. n - 1 \/ j = n
  BY <1>1
<1>4. \A j \in 1 .. n - 1 : j \in 1 .. n /\ n \in j + 1 .. n
  BY <1>1
<1>5. \A j \in 1 .. n - 1 : \A l \in j + 1 .. n : l \in j + 1 .. n - 1 \/ l = n
  BY <1>1
<1>6. \A j \in 1 .. n - 1 : \A l \in j + 1 .. n - 1 : l \in j + 1 .. n
  BY <1>1
<1>7. n \in 1 .. n /\ \A l \in n + 1 .. n : FALSE
  BY <1>1
<1>8. ASSUME NEW e \in Entries(SetPending(x, c)) PROVE e \in AfterCalls(map, calls, n)
  <2>1. CASE e = c
    BY <2>1, <1>7 DEF AfterCalls
  <2>2. CASE e \in Entries(x) /\ e.id # c.id
    <3>1. CASE e \in Entries(map) /\ \A j \in 1 .. n - 1 : calls[j].id # e.id
      BY <3>1, <2>2, <1>3 DEF AfterCalls
    <3>2. ASSUME NEW j \in 1 .. n - 1, last(j, n - 1), e = calls[j]
          PROVE  e \in AfterCalls(map, calls, n)
      <4>1. last(j, n)
        BY <3>2, <2>2, <1>5
      <4>. QED BY <3>2, <4>1, <1>4 DEF AfterCalls
    <3>. QED BY <3>1, <3>2, <2>2 DEF AfterCalls
  <2>. QED BY <2>1, <2>2, <1>2, <1>8
<1>9. ASSUME NEW e \in AfterCalls(map, calls, n) PROVE e \in Entries(SetPending(x, c))
  <2>1. CASE e \in Entries(map) /\ \A j \in 1 .. n : calls[j].id # e.id
    <3>1. e \in AfterCalls(map, calls, n - 1) /\ e.id # c.id
      BY <2>1, <1>4, <1>7 DEF AfterCalls
    <3>. QED BY <3>1, <1>2
  <2>2. ASSUME NEW j \in 1 .. n, last(j, n), e = calls[j]
        PROVE  e \in Entries(SetPending(x, c))
    <3>1. CASE j = n
      BY <3>1, <2>2, <1>2
    <3>2. CASE j \in 1 .. n - 1
      <4>1. last(j, n - 1) /\ e.id # c.id
        BY <3>2, <2>2, <1>4, <1>6
      <4>2. e \in AfterCalls(map, calls, n - 1)
        BY <4>1, <3>2, <2>2 DEF AfterCalls
      <4>. QED BY <4>1, <4>2, <1>2
    <3>. QED BY <3>1, <3>2, <1>3
  <2>. QED BY <2>1, <2>2, <1>9 DEF AfterCalls
<1>. QED BY <1>8, <1>9

\* All of them.
LEMMA SetCallsEntries ==
  ASSUME NEW map \in Maps, NEW calls \in Seq(PendingCall)
  PROVE  /\ SetCalls(map, calls) \in Maps
         /\ Entries(SetCalls(map, calls)) = AfterCalls(map, calls, Len(calls))
<1>. DEFINE G == [n \in 0 .. Len(calls) |->
                    {x \in Maps : Entries(x) = AfterCalls(map, calls, n)}]
<1>1. Len(calls) \in Nat /\ \A n \in 1 .. Len(calls) : calls[n] \in PendingCall
  OBVIOUS
<1>2. \A n \in 0 .. Len(calls) : G[n] = {x \in Maps : Entries(x) = AfterCalls(map, calls, n)}
  OBVIOUS
<1>. HIDE DEF G
<1>3. map \in G[0]
  <2>1. Entries(map) = AfterCalls(map, calls, 0)
    <3>1. \A j \in 1 .. 0 : FALSE
      OBVIOUS
    <3>. QED BY <3>1 DEF AfterCalls
  <2>. QED BY <2>1, <1>1, <1>2
<1>4. ASSUME NEW n \in 1 .. Len(calls), NEW x \in G[n - 1]
      PROVE  SetPending(x, calls[n]) \in G[n]
  <2>1. n - 1 \in 0 .. Len(calls) /\ n \in 0 .. Len(calls)
    BY <1>1
  <2>2. x \in Maps /\ Entries(x) = AfterCalls(map, calls, n - 1)
    BY <2>1, <1>2
  <2>3. SetPending(x, calls[n]) \in Maps
    BY <2>2, <1>1, SetPendingStaysMap
  <2>4. Entries(SetPending(x, calls[n])) = AfterCalls(map, calls, n)
    BY <2>2, AfterOneMore
  <2>. QED BY <2>1, <2>3, <2>4, <1>2
<1>5. SetCalls(map, calls) \in G[Len(calls)]
  BY <1>3, <1>4, SetCallsReaches
<1>. QED BY <1>1, <1>2, <1>5

\* One of the first n results names the id.
Named(results, n, id) == \E k \in 1 .. n : results[k].toolCallId = id

\* The item that result k makes of a call, if it is the first that names it.
PairOf(e, result, here) == ToolPair(e.id, e.tool, result, e.messageId, here)
FirstNamed(results, k, id) ==
  results[k].toolCallId = id /\ ~Named(results, k - 1, id)

\* Where the first n inline results of a message lead: what they name is no more
\* pending, and is in one new pair, with the first result that names it.
AfterResults(begun, results, n) ==
  {x \in Reading :
     /\ Len(x.items) >= Len(begun.items)
     /\ \A i \in 1 .. Len(begun.items) : x.items[i] = begun.items[i]
     /\ Entries(x.pending) = {e \in Entries(begun.pending) : ~Named(results, n, e.id)}
     /\ \A i \in Len(begun.items) + 1 .. Len(x.items) :
          \E e \in Entries(begun.pending) : \E k \in 1 .. n :
            /\ FirstNamed(results, k, e.id)
            /\ x.items[i] = PairOf(e, results[k].result, Here)
     /\ \A e \in Entries(begun.pending) :
          Named(results, n, e.id) =>
            \E i \in Len(begun.items) + 1 .. Len(x.items) :
              \E result \in Results : x.items[i] = PairOf(e, result, Here)
     /\ \A i, j \in Len(begun.items) + 1 .. Len(x.items) :
          x.items[i].callId = x.items[j].callId => i = j}

\* The entries of a Map are pending calls, one under an id.
LEMMA EntriesOfMap ==
  ASSUME NEW map \in Maps
  PROVE  /\ Entries(map) \subseteq PendingCall
         /\ \A d, e \in Entries(map) : d.id = e.id => d = e
         /\ \A id : HasPending(map, id) <=> \E e \in Entries(map) : e.id = id
         /\ \A id : HasPending(map, id) =>
              GetPending(map, id) \in Entries(map) /\ GetPending(map, id).id = id
<1>1. map \in Seq(PendingCall) /\ DOMAIN map = 1 .. Len(map)
  BY DEF Maps
<1>2. Entries(map) \subseteq PendingCall
  BY <1>1 DEF Entries
<1>3. \A d, e \in Entries(map) : d.id = e.id => d = e
  BY <1>1 DEF Entries, Maps
<1>4. \A id : HasPending(map, id) <=> \E e \in Entries(map) : e.id = id
  BY DEF HasPending, Entries
<1>5. \A id : HasPending(map, id) =>
         GetPending(map, id) \in Entries(map) /\ GetPending(map, id).id = id
  BY DeletePendingEntries, DeletePendingStaysMap
<1>. QED BY <1>2, <1>3, <1>4, <1>5

\* One result more.
LEMMA ResultsOneMore ==
  ASSUME NEW begun \in Reading, NEW R, NEW results \in Seq(R),
         \A r \in R : r.result \in Results, Here \in Positions,
         NEW n \in 1 .. Len(results), NEW x \in AfterResults(begun, results, n - 1)
  PROVE  ReadInline(x, results[n]) \in AfterResults(begun, results, n)
<1>. DEFINE r == results[n]
            old == Len(begun.items)
            open == Entries(begun.pending)
            left == Entries(x.pending)
<1>1. /\ Len(results) \in Nat /\ n \in Nat /\ r \in R /\ r.result \in Results
      /\ begun.items \in Seq(Item) /\ begun.pending \in Maps
      /\ x \in Reading /\ x.items \in Seq(Item) /\ x.pending \in Maps
      /\ old \in Nat /\ Len(x.items) \in Nat
  <2>1. Len(results) \in Nat /\ n \in Nat /\ r \in R
    OBVIOUS
  <2>2. begun.items \in Seq(Item) /\ begun.pending \in Maps
    BY DEF Reading
  <2>3. x \in Reading /\ x.items \in Seq(Item) /\ x.pending \in Maps
    BY DEF Reading, AfterResults
  <2>. QED BY <2>1, <2>2, <2>3
<1>2. \A id : Named(results, n, id) <=> Named(results, n - 1, id) \/ r.toolCallId = id
  <2>1. \A k \in 1 .. n : k \in 1 .. n - 1 \/ k = n
    BY <1>1
  <2>2. n \in 1 .. n /\ \A k \in 1 .. n - 1 : k \in 1 .. n
    BY <1>1
  <2>. QED BY <2>1, <2>2 DEF Named
<1>3. \A k \in 1 .. n - 1 : k \in 1 .. n
  BY <1>1
<1>4. /\ Len(x.items) >= old
      /\ \A i \in 1 .. old : x.items[i] = begun.items[i]
      /\ left = {e \in open : ~Named(results, n - 1, e.id)}
      /\ \A i \in old + 1 .. Len(x.items) :
           \E e \in open : \E k \in 1 .. n - 1 :
             FirstNamed(results, k, e.id) /\ x.items[i] = PairOf(e, results[k].result, Here)
      /\ \A e \in open : Named(results, n - 1, e.id) =>
           \E i \in old + 1 .. Len(x.items) :
             \E result \in Results : x.items[i] = PairOf(e, result, Here)
      /\ \A i, j \in old + 1 .. Len(x.items) :
           x.items[i].callId = x.items[j].callId => i = j
  BY DEF AfterResults
<1>5. CASE ~HasPending(x.pending, r.toolCallId)
  <2>1. ReadInline(x, r) = x
    BY <1>5 DEF ReadInline
  <2>2. \A e \in left : e.id # r.toolCallId
    BY <1>1, <1>5, EntriesOfMap
  <2>3. \A e \in open : Named(results, n, e.id) <=> Named(results, n - 1, e.id)
    BY <1>2, <1>4, <2>2
  <2>4. left = {e \in open : ~Named(results, n, e.id)}
    BY <1>4, <2>3
  <2>5. \A i \in old + 1 .. Len(x.items) :
          \E e \in open : \E k \in 1 .. n :
            FirstNamed(results, k, e.id) /\ x.items[i] = PairOf(e, results[k].result, Here)
    <3>. HIDE DEF open, old
    <3>. QED BY <1>3, <1>4
  <2>6. \A e \in open : Named(results, n, e.id) =>
          \E i \in old + 1 .. Len(x.items) :
            \E result \in Results : x.items[i] = PairOf(e, result, Here)
    BY <1>4, <2>3
  <2>7. x \in AfterResults(begun, results, n)
    BY <1>1, <1>4, <2>4, <2>5, <2>6 DEF AfterResults
  <2>. QED BY <2>1, <2>7
<1>6. CASE HasPending(x.pending, r.toolCallId)
  <2>. DEFINE c == GetPending(x.pending, r.toolCallId)
              pair == PairOf(c, r.result, Here)
              y == ReadInline(x, r)
              last == Len(x.items) + 1
  <2>1. c \in left /\ c.id = r.toolCallId
    BY <1>1, <1>6, EntriesOfMap
  <2>2. c \in open /\ ~Named(results, n - 1, c.id)
    BY <1>4, <2>1
  <2>3. /\ y = PairUp(x, r.toolCallId, r.result)
        /\ y.items = Append(x.items, pair)
        /\ y.pending = DeletePending(x.pending, r.toolCallId)
    BY <1>6 DEF ReadInline, PairUp, PairOf
  <2>4. y \in Reading
    BY <1>1, <1>6, <2>3, PairUpStaysReading
  <2>5. Entries(y.pending) = {e \in left : e.id # r.toolCallId}
    BY <1>1, <1>6, <2>3, DeletePendingEntries
  <2>6. /\ Len(y.items) = last /\ y.items[last] = pair
        /\ \A i \in 1 .. Len(x.items) : y.items[i] = x.items[i]
    BY <1>1, <2>3
  <2>. HIDE DEF c, y, pair, left, open, old, r
  <2>7. Entries(y.pending) = {e \in open : ~Named(results, n, e.id)}
    BY <1>2, <1>4, <2>5
  <2>8. Len(y.items) >= old
    BY <1>1, <1>4, <2>6
  <2>9. \A i \in 1 .. old : y.items[i] = begun.items[i]
    <3>1. \A i \in 1 .. old : i \in 1 .. Len(x.items)
      BY <1>1, <1>4
    <3>. QED BY <3>1, <1>4, <2>6
  <2>10. \A i \in old + 1 .. Len(y.items) :
           i = last \/ (i \in old + 1 .. Len(x.items) /\ y.items[i] = x.items[i])
    <3>1. ASSUME NEW i \in old + 1 .. Len(y.items), i # last
          PROVE  i \in old + 1 .. Len(x.items) /\ i \in 1 .. Len(x.items)
      BY <3>1, <1>1, <2>6
    <3>. QED BY <3>1, <2>6
  <2>11. FirstNamed(results, n, c.id) /\ y.items[last] = PairOf(c, results[n].result, Here)
    BY <2>1, <2>2, <2>6 DEF FirstNamed, r, pair
  <2>12. \A i \in old + 1 .. Len(y.items) :
           \E e \in open : \E k \in 1 .. n :
             FirstNamed(results, k, e.id) /\ y.items[i] = PairOf(e, results[k].result, Here)
    <3>1. n \in 1 .. n
      BY <1>1
    <3>2. ASSUME NEW i \in old + 1 .. Len(x.items), y.items[i] = x.items[i]
          PROVE  \E e \in open : \E k \in 1 .. n :
                   /\ FirstNamed(results, k, e.id)
                   /\ y.items[i] = PairOf(e, results[k].result, Here)
      BY <3>2, <1>3, <1>4
    <3>. QED BY <3>1, <3>2, <2>2, <2>10, <2>11
  <2>13. last \in old + 1 .. Len(y.items) /\ Len(x.items) \in 1 .. Len(y.items) \cup {0}
    BY <1>1, <1>4, <2>6
  <2>14. \A i \in old + 1 .. Len(x.items) :
           i \in old + 1 .. Len(y.items) /\ y.items[i] = x.items[i]
    <3>1. \A i \in old + 1 .. Len(x.items) :
            i \in old + 1 .. Len(y.items) /\ i \in 1 .. Len(x.items)
      BY <1>1, <2>6
    <3>. QED BY <3>1, <2>6
  <2>15. ASSUME NEW e \in open, Named(results, n, e.id)
         PROVE  \E i \in old + 1 .. Len(y.items) :
                  \E result \in Results : y.items[i] = PairOf(e, result, Here)
    <3>1. CASE Named(results, n - 1, e.id)
      BY <3>1, <1>4, <2>14
    <3>2. CASE ~Named(results, n - 1, e.id)
      <4>1. e \in left /\ e.id = r.toolCallId
        BY <3>2, <2>15, <1>2, <1>4
      <4>2. e = c
        BY <4>1, <2>1, <1>1, EntriesOfMap DEF left
      <4>. QED BY <4>2, <2>6, <2>13, <1>1 DEF pair
    <3>. QED BY <3>1, <3>2
  <2>16. ASSUME NEW i \in old + 1 .. Len(x.items) PROVE x.items[i].callId # c.id
    <3>1. PICK e \in open : \E k \in 1 .. n - 1 :
            FirstNamed(results, k, e.id) /\ x.items[i] = PairOf(e, results[k].result, Here)
      BY <1>4
    <3>2. Named(results, n - 1, e.id) /\ x.items[i].callId = e.id
      BY <3>1 DEF FirstNamed, Named, PairOf, ToolPair
    <3>. QED BY <3>2, <2>2
  <2>17. y.items[last].callId = c.id
    BY <2>6 DEF pair, PairOf, ToolPair
  <2>18. ASSUME NEW i \in old + 1 .. Len(y.items), NEW j \in old + 1 .. Len(y.items),
                y.items[i].callId = y.items[j].callId
         PROVE  i = j
    <3>. DEFINE Before(h) == h \in old + 1 .. Len(x.items) /\ y.items[h] = x.items[h]
    <3>1. (i = last \/ Before(i)) /\ (j = last \/ Before(j))
      BY <2>10
    <3>2. \A h : Before(h) => y.items[h].callId # c.id
      BY <2>16
    <3>3. CASE i = last \/ j = last
      <4>. HIDE DEF Before
      <4>. QED BY <3>1, <3>2, <3>3, <2>17, <2>18
    <3>4. CASE Before(i) /\ Before(j)
      <4>1. x.items[i].callId = x.items[j].callId
        BY <3>4, <2>18
      <4>. QED BY <3>4, <4>1, <1>4
    <3>. QED BY <3>1, <3>3, <3>4
  <2>19. y \in AfterResults(begun, results, n)
    BY <2>4, <2>7, <2>8, <2>9, <2>12, <2>15, <2>18 DEF AfterResults, open, old
  <2>. QED BY <2>19 DEF y, r
<1>. QED BY <1>5, <1>6

\* All of them.
LEMMA ReadResultsEntries ==
  ASSUME NEW begun \in Reading, NEW R, NEW results \in Seq(R),
         \A r \in R : r.result \in Results, Here \in Positions
  PROVE  ReadResults(begun, results) \in AfterResults(begun, results, Len(results))
<1>. DEFINE G == [n \in 0 .. Len(results) |-> AfterResults(begun, results, n)]
<1>1. Len(results) \in Nat
  OBVIOUS
<1>2. \A n \in 0 .. Len(results) : G[n] = AfterResults(begun, results, n)
  OBVIOUS
<1>. HIDE DEF G
<1>3. begun \in G[0]
  <2>1. \A id : ~Named(results, 0, id)
    BY DEF Named
  <2>2. begun.items \in Seq(Item) /\ Len(begun.items) \in Nat
    BY DEF Reading
  <2>3. \A i \in Len(begun.items) + 1 .. Len(begun.items) : FALSE
    BY <2>2
  <2>4. begun \in AfterResults(begun, results, 0)
    BY <2>1, <2>2, <2>3 DEF AfterResults
  <2>. QED BY <2>4, <1>1, <1>2
<1>4. ASSUME NEW n \in 1 .. Len(results), NEW x \in G[n - 1]
      PROVE  ReadInline(x, results[n]) \in G[n]
  <2>1. n - 1 \in 0 .. Len(results) /\ n \in 0 .. Len(results)
    BY <1>1
  <2>2. x \in AfterResults(begun, results, n - 1)
    BY <2>1, <1>2
  <2>3. ReadInline(x, results[n]) \in AfterResults(begun, results, n)
    BY <2>2, ResultsOneMore
  <2>. QED BY <2>1, <2>3, <1>2
<1>5. ReadResults(begun, results) \in G[Len(results)]
  BY <1>3, <1>4, ReadResultsReaches
<1>. QED BY <1>1, <1>2, <1>5

\* The calls of a message, as entries of the Map.
IssuedAt(m, here) == {e \in PendingCall : e.messageId = here /\ IssuesLast(m, e.id, e.tool)}
OpenAt(m) == {e \in Entries(pending) : ~Issues(m, e.id)} \cup IssuedAt(m, Here)

-----------------------------------------------------------------------------
(* What a message leaves.                                                  *)

\* What stays of the calls of a message is the last one under each of its ids.
LEMMA LastCalls ==
  ASSUME NEW m \in Messages, ~IsToolMessage(m), NEW map \in Maps,
         NEW calls \in Seq(PendingCall), DOMAIN m.calls = 1 .. Len(calls),
         \A k \in 1 .. Len(calls) : /\ calls[k].id = m.calls[k].id
                                    /\ calls[k].tool = m.calls[k].tool
                                    /\ calls[k].messageId = Here
  PROVE  /\ SetCalls(map, calls) \in Maps
         /\ Entries(SetCalls(map, calls)) =
              {e \in Entries(map) : ~Issues(m, e.id)} \cup IssuedAt(m, Here)
<1>. DEFINE size == Len(calls)
<1>2. /\ size \in Nat /\ DOMAIN m.calls = 1 .. size
      /\ \A k \in 1 .. size : /\ calls[k] \in PendingCall
                              /\ calls[k].id = m.calls[k].id
                              /\ calls[k].tool = m.calls[k].tool
                              /\ calls[k].messageId = Here
  OBVIOUS
<1>3. /\ SetCalls(map, calls) \in Maps
      /\ Entries(SetCalls(map, calls)) = AfterCalls(map, calls, size)
  BY SetCallsEntries
<1>. HIDE DEF size
<1>4. \A id : CallsOf(m, id) = {k \in 1 .. size : calls[k].id = id}
  BY <1>2 DEF CallsOf
<1>5. \A id : Issues(m, id) <=> \E j \in 1 .. size : calls[j].id = id
  BY <1>4 DEF Issues
<1>6. ASSUME NEW k \in 1 .. size, \A l \in k + 1 .. size : calls[l].id # calls[k].id
      PROVE  calls[k] \in IssuedAt(m, Here)
  <2>1. \A j \in 1 .. size : calls[j].id = calls[k].id => j <= k
    <3>1. \A j \in 1 .. size : j <= k \/ j \in k + 1 .. size
      BY <1>2
    <3>. QED BY <3>1, <1>6
  <2>2. k \in CallsOf(m, calls[k].id) /\ \A j \in CallsOf(m, calls[k].id) : j <= k
    BY <2>1, <1>4
  <2>3. IssuesLast(m, calls[k].id, calls[k].tool)
    BY <2>2, <1>2 DEF IssuesLast
  <2>. QED BY <2>3, <1>2 DEF IssuedAt
<1>7. ASSUME NEW e \in IssuedAt(m, Here)
      PROVE  \E k \in 1 .. size : /\ e = calls[k]
                                  /\ \A l \in k + 1 .. size : calls[l].id # calls[k].id
  <2>0. e \in PendingCall /\ e.messageId = Here
    BY DEF IssuedAt
  <2>1. PICK k \in CallsOf(m, e.id) :
          m.calls[k].tool = e.tool /\ \A j \in CallsOf(m, e.id) : j <= k
    BY DEF IssuedAt, IssuesLast
  <2>2. /\ k \in 1 .. size /\ calls[k].id = e.id /\ calls[k].tool = e.tool
        /\ calls[k].messageId = e.messageId
    <3>1. k \in 1 .. size /\ calls[k].id = e.id
      BY <2>1, <1>4
    <3>. QED BY <3>1, <2>0, <2>1, <1>2
  <2>3. e \in PendingCall /\ calls[k] \in PendingCall
    BY <2>0, <2>2, <1>2
  <2>4. e = calls[k]
    BY <2>2, <2>3 DEF PendingCall
  <2>5. \A l \in k + 1 .. size : calls[l].id # calls[k].id
    <3>1. \A l \in k + 1 .. size : l \in 1 .. size /\ ~(l <= k)
      BY <2>2, <1>2
    <3>. QED BY <3>1, <2>1, <2>2, <1>4
  <2>. QED BY <2>2, <2>4, <2>5
<1>8. AfterCalls(map, calls, size) =
        {e \in Entries(map) : ~Issues(m, e.id)} \cup IssuedAt(m, Here)
  <2>. DEFINE lasting == {k \in 1 .. size : \A l \in k + 1 .. size : calls[l].id # calls[k].id}
  <2>1. \A e : (\A j \in 1 .. size : calls[j].id # e.id) <=> ~Issues(m, e.id)
    BY <1>5
  <2>2. {calls[j] : j \in lasting} = IssuedAt(m, Here)
    <3>1. \A j \in lasting : calls[j] \in IssuedAt(m, Here)
      BY <1>6
    <3>2. \A e \in IssuedAt(m, Here) : \E j \in lasting : e = calls[j]
      BY <1>7
    <3>. HIDE DEF lasting
    <3>. QED BY <3>1, <3>2
  <2>3. AfterCalls(map, calls, size) =
          {e \in Entries(map) : \A j \in 1 .. size : calls[j].id # e.id} \cup
          {calls[j] : j \in lasting}
    BY DEF AfterCalls
  <2>. QED BY <2>1, <2>2, <2>3
<1>. QED BY <1>3, <1>8 DEF size

\* After its calls a message leaves pending those, and what was pending under other
\* ids.
LEMMA CallsLeave ==
  ASSUME NEW m \in Messages, ~IsToolMessage(m), Here \in Positions, NEW map \in Maps
  PROVE  LET calls == [k \in DOMAIN m.calls |->
                         [id |-> m.calls[k].id, tool |-> m.calls[k].tool,
                          messageId |-> Here]]
         IN  /\ SetCalls(map, calls) \in Maps
             /\ Entries(SetCalls(map, calls)) =
                  {e \in Entries(map) : ~Issues(m, e.id)} \cup IssuedAt(m, Here)
<1>. DEFINE calls == [k \in DOMAIN m.calls |->
                       [id |-> m.calls[k].id, tool |-> m.calls[k].tool,
                        messageId |-> Here]]
<1>1. calls \in Seq(PendingCall)
  BY MessageParts
<1>2. DOMAIN calls = DOMAIN m.calls
  OBVIOUS
<1>3. \A k \in DOMAIN m.calls : /\ calls[k].id = m.calls[k].id
                                /\ calls[k].tool = m.calls[k].tool
                                /\ calls[k].messageId = Here
  OBVIOUS
<1>. HIDE DEF calls
<1>4. DOMAIN m.calls = 1 .. Len(calls)
  BY <1>1, <1>2
<1>5. /\ SetCalls(map, calls) \in Maps
      /\ Entries(SetCalls(map, calls)) =
           {e \in Entries(map) : ~Issues(m, e.id)} \cup IssuedAt(m, Here)
  BY <1>1, <1>3, <1>4, LastCalls
<1>. QED BY <1>5 DEF calls

\* What a message makes of the calls pending once its own were set: the items from
\* first on.
JoinedTo(open, m, first, all) ==
  /\ \A i \in first .. Len(all) : all[i].kind = "tool_pair" =>
       \E e \in open : \E result \in Results :
         GivesResult(m, e.id, result) /\ all[i] = PairOf(e, result, Here)
  /\ \A e \in open : Answers(m, e.id) =>
       \E i \in first .. Len(all) : \E result \in Results : all[i] = PairOf(e, result, Here)
  /\ \A i, j \in first .. Len(all) :
       all[i].kind = "tool_pair" /\ all[j].kind = "tool_pair" /\ all[i].callId = all[j].callId
         => i = j

\* What the new items say of the message.
Says(m, first, all) ==
  /\ \A i \in first .. Len(all) : Last(all[i].messageIds) = Here
  /\ IsToolMessage(m) =>
       /\ Len(all) = first
       /\ all[first].kind \in {"tool_pair", "unpaired_tool_result"}
       /\ all[first].result = m.result
  /\ ~IsToolMessage(m) /\ m.text # None =>
       /\ Len(all) >= first /\ all[first].kind = "message" /\ all[first].text = m.text
       /\ \A i \in first + 1 .. Len(all) : all[i].kind = "tool_pair"

\* The places of a pair, and the one of anything else.
LEMMA LastPlaces ==
  /\ \A e, result, here : /\ PairOf(e, result, here).kind = "tool_pair"
                          /\ PairOf(e, result, here).callId = e.id
                          /\ PairOf(e, result, here).tool = e.tool
                          /\ PairOf(e, result, here).result = result
                          /\ PairOf(e, result, here).messageIds[1] = e.messageId
                          /\ PairOf(e, result, here).messageIds[2] = here
                          /\ Last(PairOf(e, result, here).messageIds) = here
  /\ \A name, id, result, here :
       /\ UnpairedResult(name, id, result, here).kind = "unpaired_tool_result"
       /\ UnpairedResult(name, id, result, here).result = result
       /\ Last(UnpairedResult(name, id, result, here).messageIds) = here
  /\ \A role, text, here : /\ MessageItem(role, text, here).kind = "message"
                           /\ MessageItem(role, text, here).text = text
                           /\ Last(MessageItem(role, text, here).messageIds) = here
<1>1. \A a, b : Last(<<a, b>>) = b /\ Last(<<b>>) = b
  BY DEF Last
<1>2. \A e, result, here : Last(PairOf(e, result, here).messageIds) = here
  BY <1>1 DEF PairOf, ToolPair
<1>3. \A e, result, here : /\ PairOf(e, result, here).kind = "tool_pair"
                           /\ PairOf(e, result, here).callId = e.id
                           /\ PairOf(e, result, here).tool = e.tool
                           /\ PairOf(e, result, here).result = result
                           /\ PairOf(e, result, here).messageIds[1] = e.messageId
                           /\ PairOf(e, result, here).messageIds[2] = here
  BY DEF PairOf, ToolPair
<1>4. \A name, id, result, here :
        /\ UnpairedResult(name, id, result, here).kind = "unpaired_tool_result"
        /\ UnpairedResult(name, id, result, here).result = result
        /\ Last(UnpairedResult(name, id, result, here).messageIds) = here
  BY <1>1 DEF UnpairedResult
<1>5. \A role, text, here : /\ MessageItem(role, text, here).kind = "message"
                            /\ MessageItem(role, text, here).text = text
                            /\ Last(MessageItem(role, text, here).messageIds) = here
  BY <1>1 DEF MessageItem
<1>. QED BY <1>2, <1>3, <1>4, <1>5

\* Reading a tool message.
LEMMA ToolMessageJoins ==
  ASSUME TypeOK, NEW m \in Messages, Read(m), IsToolMessage(m)
  PROVE  /\ JoinedTo(OpenAt(m), m, Len(items) + 1, items')
         /\ Says(m, Len(items) + 1, items')
         /\ Entries(pending') = {e \in OpenAt(m) : ~Answers(m, e.id)}
<1>. DEFINE first == Len(items) + 1
<1>1. /\ items \in Seq(Item) /\ pending \in Maps /\ Len(items) \in Nat
      /\ Here \in Positions /\ first \in Nat
  BY MaxMessagesAssumption DEF TypeOK, Maps, Here, Positions, Read
<1>2. ReadToolMessage(m) /\ m.result \in Results
  BY DEF Read, ReadMessage, Results
<1>3. OpenAt(m) = Entries(pending)
  <2>1. \A id : ~Issues(m, id)
    BY DEF Issues, CallsOf
  <2>2. IssuedAt(m, Here) = {}
    BY DEF IssuedAt, IssuesLast, CallsOf
  <2>. QED BY <2>1, <2>2 DEF OpenAt
<1>4. \A id : Answers(m, id) <=> m.toolCallId = id
  BY DEF Answers
<1>5. CASE m.toolCallId # None /\ HasPending(pending, m.toolCallId)
  <2>. DEFINE c == GetPending(pending, m.toolCallId)
              pair == PairOf(c, m.result, Here)
  <2>1. items' = Append(items, pair) /\ pending' = DeletePending(pending, m.toolCallId)
    BY <1>2, <1>5 DEF ReadToolMessage, PairUp, PairOf
  <2>2. c \in Entries(pending) /\ c.id = m.toolCallId
    BY <1>1, <1>5, EntriesOfMap
  <2>3. Entries(pending') = {e \in Entries(pending) : e.id # m.toolCallId}
    BY <1>1, <1>5, <2>1, DeletePendingEntries
  <2>. HIDE DEF c, pair
  <2>4. Len(items') = first /\ items'[first] = pair
    BY <1>1, <2>1
  <2>5. first \in first .. Len(items') /\ \A i \in first .. Len(items') : i = first
    BY <1>1, <2>4
  <2>6. GivesResult(m, c.id, m.result)
    BY <2>2 DEF GivesResult
  <2>7. \A e \in Entries(pending) : Answers(m, e.id) => e = c
    BY <1>1, <1>4, <2>2, EntriesOfMap
  <2>. HIDE DEF first
  <2>8. JoinedTo(OpenAt(m), m, first, items')
    BY <1>2, <1>3, <2>2, <2>4, <2>5, <2>6, <2>7 DEF JoinedTo, pair
  <2>9. Says(m, first, items')
    BY <2>4, <2>5, LastPlaces DEF Says, pair
  <2>10. Entries(pending') = {e \in OpenAt(m) : ~Answers(m, e.id)}
    BY <1>3, <1>4, <2>3
  <2>. QED BY <2>8, <2>9, <2>10 DEF first
<1>6. CASE ~(m.toolCallId # None /\ HasPending(pending, m.toolCallId))
  <2>. DEFINE orphan == UnpairedResult(m.name, m.toolCallId, m.result, Here)
  <2>1. items' = Append(items, orphan) /\ pending' = pending
    BY <1>2, <1>6 DEF ReadToolMessage
  <2>2. ASSUME NEW e \in Entries(pending) PROVE ~Answers(m, e.id)
    <3>1. e.id # None
      <4>1. e.id \in CallIds
        BY <1>1, EntriesOfMap DEF PendingCall
      <4>. QED BY <4>1, MessagesAssumption DEF CallIds
    <3>2. HasPending(pending, e.id)
      BY <1>1, EntriesOfMap
    <3>. QED BY <3>1, <3>2, <1>4, <1>6
  <2>. HIDE DEF orphan
  <2>3. Len(items') = first /\ items'[first] = orphan
    BY <1>1, <2>1
  <2>4. \A i \in first .. Len(items') : i = first
    BY <1>1, <2>3
  <2>. HIDE DEF first
  <2>5. /\ orphan.kind = "unpaired_tool_result"
        /\ orphan.result = m.result
        /\ Last(orphan.messageIds) = Here
    BY LastPlaces DEF orphan
  <2>6. JoinedTo(OpenAt(m), m, first, items')
    BY <1>3, <2>2, <2>3, <2>4, <2>5 DEF JoinedTo
  <2>7. Says(m, first, items')
    BY <2>3, <2>4, <2>5 DEF Says
  <2>8. Entries(pending') = {e \in OpenAt(m) : ~Answers(m, e.id)}
    BY <1>3, <2>1, <2>2
  <2>. QED BY <2>6, <2>7, <2>8 DEF first
<1>. QED BY <1>5, <1>6

\* What the results of a message name, in terms of the message.
LEMMA NamedAnswers ==
  ASSUME NEW m \in Messages, ~IsToolMessage(m)
  PROVE  /\ m.results \in Seq(ToSet(m.results))
         /\ \A r \in ToSet(m.results) : r.result \in Results
         /\ \A id : Answers(m, id) <=> Named(m.results, Len(m.results), id)
         /\ \A id : \A k \in 1 .. Len(m.results) :
              FirstNamed(m.results, k, id) => GivesResult(m, id, m.results[k].result)
<1>1. /\ m.results \in Seq(ToSet(m.results)) /\ Len(m.results) \in Nat
      /\ \A r \in ToSet(m.results) : r.result \in Results
      /\ DOMAIN m.results = 1 .. Len(m.results)
  BY MessagesAssumption DEF Results
<1>2. \A id : Answers(m, id) <=> Named(m.results, Len(m.results), id)
  BY <1>1 DEF Answers, Named, InlineOf
<1>3. ASSUME NEW id, NEW k \in 1 .. Len(m.results), FirstNamed(m.results, k, id)
      PROVE  GivesResult(m, id, m.results[k].result)
  <2>1. k \in InlineOf(m, id)
    BY <1>1, <1>3 DEF FirstNamed, InlineOf
  <2>2. \A j \in InlineOf(m, id) : k <= j
    <3>1. \A j \in 1 .. Len(m.results) : k <= j \/ j \in 1 .. k - 1
      BY <1>1
    <3>. QED BY <3>1, <1>1, <1>3 DEF FirstNamed, Named, InlineOf
  <2>. QED BY <2>1, <2>2 DEF GivesResult
<1>. QED BY <1>1, <1>2, <1>3

\* Reading any other message.
LEMMA OtherMessageJoins ==
  ASSUME TypeOK, NEW m \in Messages, Read(m), ~IsToolMessage(m)
  PROVE  /\ JoinedTo(OpenAt(m), m, Len(items) + 1, items')
         /\ Says(m, Len(items) + 1, items')
         /\ Entries(pending') = {e \in OpenAt(m) : ~Answers(m, e.id)}
<1>. DEFINE first == Len(items) + 1
            said  == IF m.text = None THEN <<>> ELSE <<MessageItem(m.role, m.text, Here)>>
            calls == [k \in DOMAIN m.calls |->
                        [id |-> m.calls[k].id, tool |-> m.calls[k].tool,
                         messageId |-> Here]]
            begun == [items |-> items \o said, pending |-> SetCalls(pending, calls)]
            old   == Len(items \o said)
            size  == Len(m.results)
            read  == ReadResults(begun, m.results)
<1>1. /\ items \in Seq(Item) /\ pending \in Maps /\ Len(items) \in Nat
      /\ Here \in Positions /\ first \in Nat
  BY MaxMessagesAssumption DEF TypeOK, Maps, Here, Positions, Read
<1>2. /\ SetCalls(pending, calls) \in Maps
      /\ Entries(SetCalls(pending, calls)) = OpenAt(m)
  BY <1>1, CallsLeave DEF OpenAt
<1>3. said \in Seq(Item)
  BY <1>1, MessageParts
<1>4. ReadMessage(m) /\ items' = read.items /\ pending' = read.pending
  BY DEF Read, ReadToolMessage, ReadMessage
<1>. HIDE DEF calls
<1>5. /\ begun \in Reading /\ begun.items = items \o said
      /\ Entries(begun.pending) = OpenAt(m) /\ Len(begun.items) = old
  <2>1. items \o said \in Seq(Item)
    BY <1>1, <1>3
  <2>. HIDE DEF said
  <2>. QED BY <2>1, <1>2 DEF Reading
<1>6. IF m.text = None THEN old = Len(items)
      ELSE old = first /\ (items \o said)[first] = MessageItem(m.role, m.text, Here)
  BY <1>1, <1>3
<1>. HIDE DEF said, begun, read
<1>7. read \in AfterResults(begun, m.results, size)
  BY <1>1, <1>5, NamedAnswers, ReadResultsEntries DEF read
<1>8. /\ Len(items') >= old
      /\ \A i \in 1 .. old : items'[i] = (items \o said)[i]
      /\ Entries(pending') = {e \in OpenAt(m) : ~Named(m.results, size, e.id)}
      /\ \A i \in old + 1 .. Len(items') :
           \E e \in OpenAt(m) : \E k \in 1 .. size :
             /\ FirstNamed(m.results, k, e.id)
             /\ items'[i] = PairOf(e, m.results[k].result, Here)
      /\ \A e \in OpenAt(m) : Named(m.results, size, e.id) =>
           \E i \in old + 1 .. Len(items') :
             \E result \in Results : items'[i] = PairOf(e, result, Here)
      /\ \A i, j \in old + 1 .. Len(items') :
           items'[i].callId = items'[j].callId => i = j
  <2>. DEFINE Shape(all, open) ==
         /\ Len(all) >= old
         /\ \A i \in 1 .. old : all[i] = (items \o said)[i]
         /\ Entries(open) = {e \in OpenAt(m) : ~Named(m.results, size, e.id)}
         /\ \A i \in old + 1 .. Len(all) :
              \E e \in OpenAt(m) : \E k \in 1 .. size :
                /\ FirstNamed(m.results, k, e.id)
                /\ all[i] = PairOf(e, m.results[k].result, Here)
         /\ \A e \in OpenAt(m) : Named(m.results, size, e.id) =>
              \E i \in old + 1 .. Len(all) :
                \E result \in Results : all[i] = PairOf(e, result, Here)
         /\ \A i, j \in old + 1 .. Len(all) : all[i].callId = all[j].callId => i = j
  <2>1. \A x \in AfterResults(begun, m.results, size) : Shape(x.items, x.pending)
    <3>. HIDE DEF old
    <3>. QED BY <1>5 DEF AfterResults
  <2>. HIDE DEF Shape
  <2>2. Shape(read.items, read.pending)
    BY <2>1, <1>7
  <2>3. Shape(items', pending')
    BY <2>2, <1>4
  <2>. USE DEF Shape
  <2>. HIDE DEF old
  <2>. QED BY <2>3
<1>9. /\ Len(items') \in Nat /\ old \in Nat
      /\ \A i \in 1 .. Len(items') : items'[i] \in Item
  <2>1. read \in Reading
    BY <1>7 DEF AfterResults
  <2>2. items' \in Seq(Item)
    BY <2>1, <1>4 DEF Reading
  <2>. QED BY <2>2, <1>1, <1>3
<1>. HIDE DEF old
<1>10. /\ first \in 1 .. old + 1
       /\ \A i \in first .. Len(items') :
            i \in old + 1 .. Len(items') \/ (i = first /\ old = first)
       /\ old = first => m.text # None
       /\ m.text # None =>
            old = first /\ items'[first] = MessageItem(m.role, m.text, Here)
  <2>1. m.text # None => items'[first] = MessageItem(m.role, m.text, Here)
    <3>1. m.text # None => first \in 1 .. old
      BY <1>1, <1>6
    <3>. QED BY <3>1, <1>6, <1>8
  <2>2. first \in 1 .. old + 1 /\ \A i \in first .. Len(items') :
            i \in old + 1 .. Len(items') \/ (i = first /\ old = first)
    BY <1>1, <1>6, <1>9
  <2>. QED BY <2>1, <2>2, <1>1, <1>6
<1>11. \A i \in old + 1 .. Len(items') : i \in first .. Len(items')
  BY <1>1, <1>9, <1>10
<1>. HIDE DEF first, size
<1>12. ASSUME NEW i \in old + 1 .. Len(items')
       PROVE  \E e \in OpenAt(m) : \E result \in Results :
                GivesResult(m, e.id, result) /\ items'[i] = PairOf(e, result, Here)
  <2>1. PICK e \in OpenAt(m) : \E k \in 1 .. size :
             /\ FirstNamed(m.results, k, e.id)
             /\ items'[i] = PairOf(e, m.results[k].result, Here)
    BY <1>8
  <2>2. PICK k \in 1 .. size : /\ FirstNamed(m.results, k, e.id)
                               /\ items'[i] = PairOf(e, m.results[k].result, Here)
    BY <2>1
  <2>3. m.results[k].result \in Results
    BY NamedAnswers DEF size
  <2>4. GivesResult(m, e.id, m.results[k].result)
    BY <2>2, NamedAnswers DEF size
  <2>. QED BY <2>2, <2>3, <2>4
<1>13. \A i \in first .. Len(items') :
         items'[i].kind = "tool_pair" <=> i \in old + 1 .. Len(items')
  <2>1. \A i \in old + 1 .. Len(items') : items'[i].kind = "tool_pair"
    BY <1>12, LastPlaces
  <2>2. old = first => items'[first].kind = "message" /\ ~(first \in old + 1 .. Len(items'))
    BY <1>9, <1>10, LastPlaces
  <2>. QED BY <2>1, <2>2, <1>10
<1>14. JoinedTo(OpenAt(m), m, first, items')
  <2>1. \A e \in OpenAt(m) : Answers(m, e.id) =>
          \E i \in first .. Len(items') :
            \E result \in Results : items'[i] = PairOf(e, result, Here)
    BY <1>8, <1>11, NamedAnswers DEF size
  <2>2. \A i, j \in first .. Len(items') :
          items'[i].kind = "tool_pair" /\ items'[j].kind = "tool_pair"
            /\ items'[i].callId = items'[j].callId => i = j
    BY <1>8, <1>13
  <2>. QED BY <2>1, <2>2, <1>12, <1>13 DEF JoinedTo
<1>15. Says(m, first, items')
  <2>1. \A i \in first .. Len(items') : Last(items'[i].messageIds) = Here
    <3>1. \A i \in old + 1 .. Len(items') : Last(items'[i].messageIds) = Here
      BY <1>12, LastPlaces
    <3>2. old = first => Last(items'[first].messageIds) = Here
      BY <1>10, LastPlaces
    <3>. QED BY <3>1, <3>2, <1>10
  <2>2. ASSUME m.text # None
        PROVE  /\ Len(items') >= first
               /\ items'[first].kind = "message" /\ items'[first].text = m.text
               /\ \A i \in first + 1 .. Len(items') : items'[i].kind = "tool_pair"
    <3>1. old = first /\ Len(items') >= first
      BY <2>2, <1>8, <1>10
    <3>2. \A i \in first + 1 .. Len(items') :
            i \in old + 1 .. Len(items') /\ i \in first .. Len(items')
      BY <3>1, <1>11
    <3>. QED BY <3>1, <3>2, <2>2, <1>10, <1>13, LastPlaces
  <2>. QED BY <2>1, <2>2 DEF Says
<1>16. Entries(pending') = {e \in OpenAt(m) : ~Answers(m, e.id)}
  BY <1>8, NamedAnswers DEF size
<1>. QED BY <1>14, <1>15, <1>16 DEF first

\* In transcript T, a call is the last one under its id, and none of the messages
\* up to one has answered it.
OpenIn(T, e, upto) ==
  /\ e.messageId \in 1 .. Len(T)
  /\ IssuesLast(T[e.messageId], e.id, e.tool)
  /\ \A n \in e.messageId + 1 .. Len(T) : ~Issues(T[n], e.id)
  /\ \A n \in e.messageId .. upto : ~Answers(T[n], e.id)

\* In transcript T, a pair joins a call and the first result since.
PairIn(T, item) ==
  LET asked == item.messageIds[1]  answered == item.messageIds[2] IN
  /\ answered \in 1 .. Len(T) /\ asked \in 1 .. answered
  /\ IssuesLast(T[asked], item.callId, item.tool)
  /\ GivesResult(T[answered], item.callId, item.result)
  /\ \A n \in asked + 1 .. answered : ~Issues(T[n], item.callId)
  /\ \A n \in asked .. answered - 1 : ~Answers(T[n], item.callId)

\* Only pair i of these items is of its call.
OnlyPair(all, i) ==
  \A j \in 1 .. Len(all) :
    /\ all[j].kind = "tool_pair" /\ all[j].callId = all[i].callId
    /\ all[j].messageIds[1] = all[i].messageIds[1]
    => j = i

\* What pairs and pending calls are of.
Joins ==
  /\ \A e \in Entries(pending) : OpenIn(transcript, e, Len(transcript))
  /\ \A i \in 1 .. Len(items) :
       items[i].kind = "tool_pair" => PairIn(transcript, items[i]) /\ OnlyPair(items, i)

-----------------------------------------------------------------------------
(* Pairs answer their calls.                                               *)

\* The transcript after a message.
LEMMA TranscriptGrows ==
  ASSUME TypeOK, NEW m \in Messages, Read(m)
  PROVE  /\ transcript' \in Seq(Messages)
         /\ Len(transcript) \in Nat /\ Here = Len(transcript) + 1 /\ Here \in Positions
         /\ Len(transcript') = Here /\ transcript'[Here] = m
         /\ \A n \in 1 .. Len(transcript) : transcript'[n] = transcript[n]
         /\ DOMAIN transcript = 1 .. Len(transcript)
         /\ DOMAIN transcript' = 1 .. Here
         /\ \A n \in 1 .. Here : n \in 1 .. Len(transcript) \/ n = Here
  BY MaxMessagesAssumption DEF TypeOK, Here, Positions, Read

\* A call that is still open when a message has issued its own.
LEMMA OpenAfterCalls ==
  ASSUME TypeOK, Joins, NEW m \in Messages, Read(m), NEW e \in OpenAt(m)
  PROVE  OpenIn(transcript', e, Here - 1)
<1>1. /\ Len(transcript) \in Nat /\ Here = Len(transcript) + 1 /\ Here - 1 = Len(transcript)
      /\ Len(transcript') = Here /\ transcript'[Here] = m
      /\ \A n \in 1 .. Len(transcript) : transcript'[n] = transcript[n]
      /\ \A n \in 1 .. Here : n \in 1 .. Len(transcript) \/ n = Here
  BY TranscriptGrows
<1>2. CASE e \in Entries(pending) /\ ~Issues(m, e.id)
  <2>1. OpenIn(transcript, e, Len(transcript))
    BY <1>2 DEF Joins
  <2>. DEFINE asked == e.messageId
  <2>2. /\ asked \in 1 .. Len(transcript) /\ IssuesLast(transcript[asked], e.id, e.tool)
        /\ \A n \in asked + 1 .. Len(transcript) : ~Issues(transcript[n], e.id)
        /\ \A n \in asked .. Len(transcript) : ~Answers(transcript[n], e.id)
    BY <2>1 DEF OpenIn
  <2>. HIDE DEF asked
  <2>3. \A n \in asked + 1 .. Here : n \in asked + 1 .. Len(transcript) \/ n = Here
    BY <1>1, <2>2
  <2>4. \A n \in asked .. Len(transcript) : n \in 1 .. Len(transcript)
    BY <1>1, <2>2
  <2>5. \A n \in asked + 1 .. Len(transcript) : n \in 1 .. Len(transcript)
    BY <1>1, <2>2
  <2>6. asked \in 1 .. Here
    BY <1>1, <2>2
  <2>7. \A n \in asked + 1 .. Here : ~Issues(transcript'[n], e.id)
    BY <1>1, <1>2, <2>2, <2>3, <2>5
  <2>8. \A n \in asked .. Here - 1 : ~Answers(transcript'[n], e.id)
    BY <1>1, <2>2, <2>4
  <2>9. IssuesLast(transcript'[asked], e.id, e.tool)
    BY <1>1, <2>2
  <2>. QED BY <1>1, <2>6, <2>7, <2>8, <2>9 DEF OpenIn, asked
<1>3. CASE e \in IssuedAt(m, Here)
  <2>1. e.messageId = Here /\ IssuesLast(m, e.id, e.tool)
    BY <1>3 DEF IssuedAt
  <2>2. /\ Here \in 1 .. Here
        /\ (\A n \in Here + 1 .. Here : FALSE)
        /\ \A n \in Here .. Here - 1 : FALSE
    BY <1>1
  <2>. QED BY <1>1, <2>1, <2>2 DEF OpenIn
<1>. QED BY <1>2, <1>3 DEF OpenAt

\* What a pair tells stays so.
LEMMA PairStays ==
  ASSUME NEW T, NEW U, Len(T) \in Nat, Len(U) \in Nat, Len(T) <= Len(U),
         \A n \in 1 .. Len(T) : U[n] = T[n], NEW item, PairIn(T, item)
  PROVE  PairIn(U, item)
<1>. DEFINE asked == item.messageIds[1]
            answered == item.messageIds[2]
<1>1. /\ answered \in 1 .. Len(T) /\ asked \in 1 .. answered
      /\ IssuesLast(T[asked], item.callId, item.tool)
      /\ GivesResult(T[answered], item.callId, item.result)
      /\ \A n \in asked + 1 .. answered : ~Issues(T[n], item.callId)
      /\ \A n \in asked .. answered - 1 : ~Answers(T[n], item.callId)
  BY DEF PairIn
<1>. HIDE DEF asked, answered
<1>2. /\ answered \in 1 .. Len(U) /\ asked \in 1 .. Len(T)
      /\ \A n \in asked + 1 .. answered : n \in 1 .. Len(T)
      /\ \A n \in asked .. answered - 1 : n \in 1 .. Len(T)
  BY <1>1
<1>3. /\ IssuesLast(U[asked], item.callId, item.tool)
      /\ GivesResult(U[answered], item.callId, item.result)
      /\ \A n \in asked + 1 .. answered : ~Issues(U[n], item.callId)
      /\ \A n \in asked .. answered - 1 : ~Answers(U[n], item.callId)
  BY <1>1, <1>2
<1>. QED BY <1>1, <1>2, <1>3 DEF PairIn, asked, answered

\* A result that is given answers.
LEMMA GivingAnswers ==
  ASSUME NEW m, NEW id, NEW result, GivesResult(m, id, result)
  PROVE  Answers(m, id)
  BY DEF GivesResult, Answers

\* A call that is still open is in no pair.
LEMMA OpenUnpaired ==
  ASSUME NEW T, Len(T) \in Nat, NEW e, OpenIn(T, e, Len(T)),
         NEW item, PairIn(T, item), item.callId = e.id
  PROVE  item.messageIds[1] # e.messageId
<1>1. SUFFICES ASSUME item.messageIds[1] = e.messageId PROVE FALSE
  OBVIOUS
<1>2. item.messageIds[2] \in e.messageId .. Len(T)
  BY <1>1 DEF PairIn, OpenIn
<1>3. Answers(T[item.messageIds[2]], e.id)
  BY GivingAnswers DEF PairIn
<1>. QED BY <1>2, <1>3 DEF OpenIn

\* Reading a message keeps this.
LEMMA ReadKeepsJoins ==
  ASSUME TypeOK, Joins, NEW m \in Messages, Read(m)
  PROVE  Joins'
<1>1. /\ Len(transcript) \in Nat /\ Here = Len(transcript) + 1 /\ Here - 1 = Len(transcript)
      /\ Len(transcript') = Here /\ transcript'[Here] = m
      /\ \A n \in 1 .. Len(transcript) : transcript'[n] = transcript[n]
  BY TranscriptGrows
<1>. DEFINE first == Len(items) + 1
<1>2. /\ JoinedTo(OpenAt(m), m, first, items')
      /\ Entries(pending') = {e \in OpenAt(m) : ~Answers(m, e.id)}
  BY ToolMessageJoins, OtherMessageJoins
<1>3. /\ Len(items) \in Nat /\ Len(items') \in Nat /\ Len(items') >= Len(items)
      /\ \A k \in 1 .. Len(items) : items'[k] = items[k]
  <2>1. TypeOK'
    BY ReadPreservesTypeOK
  <2>. QED BY <2>1, ReadGrows DEF TypeOK
<1>4. /\ \A k \in 1 .. Len(items) : k \in 1 .. Len(items') /\ ~(k \in first .. Len(items'))
      /\ \A k \in first .. Len(items') : k \in 1 .. Len(items')
      /\ \A k \in 1 .. Len(items') : k \in 1 .. Len(items) \/ k \in first .. Len(items')
  BY <1>3
<1>. HIDE DEF first
<1>5. \A e \in OpenAt(m) : OpenIn(transcript', e, Here - 1)
  BY OpenAfterCalls
<1>6. ASSUME NEW e \in Entries(pending') PROVE OpenIn(transcript', e, Len(transcript'))
  <2>1. e \in OpenAt(m) /\ ~Answers(m, e.id) /\ OpenIn(transcript', e, Here - 1)
    BY <1>2, <1>5
  <2>2. /\ e.messageId \in 1 .. Here
        /\ \A n \in e.messageId .. Here - 1 : ~Answers(transcript'[n], e.id)
    BY <2>1, <1>1 DEF OpenIn
  <2>3. \A n \in e.messageId .. Here : n \in e.messageId .. Here - 1 \/ n = Here
    BY <1>1, <2>2
  <2>4. \A n \in e.messageId .. Here : ~Answers(transcript'[n], e.id)
    BY <1>1, <2>1, <2>2, <2>3
  <2>. QED BY <1>1, <2>1, <2>4 DEF OpenIn
<1>7. ASSUME NEW i \in 1 .. Len(items), items[i].kind = "tool_pair"
      PROVE  /\ items'[i] = items[i]
             /\ PairIn(transcript, items[i])
             /\ PairIn(transcript', items'[i])
  <2>1. items'[i] = items[i] /\ PairIn(transcript, items[i])
    BY <1>3, <1>7 DEF Joins
  <2>2. Len(transcript) <= Len(transcript') /\ Len(transcript') \in Nat
    BY <1>1
  <2>. QED BY <2>1, <2>2, <1>1, PairStays
<1>8. ASSUME NEW i \in first .. Len(items'), items'[i].kind = "tool_pair"
      PROVE  /\ PairIn(transcript', items'[i])
             /\ \A k \in 1 .. Len(items) :
                  items[k].kind = "tool_pair" /\ items[k].callId = items'[i].callId
                    => items[k].messageIds[1] # items'[i].messageIds[1]
  <2>1. PICK e \in OpenAt(m) : \E result \in Results :
          GivesResult(m, e.id, result) /\ items'[i] = PairOf(e, result, Here)
    BY <1>2, <1>8 DEF JoinedTo
  <2>2. PICK result \in Results :
          GivesResult(m, e.id, result) /\ items'[i] = PairOf(e, result, Here)
    BY <2>1
  <2>3. /\ items'[i].callId = e.id /\ items'[i].tool = e.tool /\ items'[i].result = result
        /\ items'[i].messageIds[1] = e.messageId /\ items'[i].messageIds[2] = Here
    BY <2>2, LastPlaces
  <2>4. /\ e.messageId \in 1 .. Here
        /\ IssuesLast(transcript'[e.messageId], e.id, e.tool)
        /\ \A n \in e.messageId + 1 .. Here : ~Issues(transcript'[n], e.id)
        /\ \A n \in e.messageId .. Here - 1 : ~Answers(transcript'[n], e.id)
    BY <1>1, <1>5 DEF OpenIn
  <2>5. PairIn(transcript', items'[i])
    <3>1. Here \in 1 .. Len(transcript')
      BY <1>1
    <3>. QED BY <1>1, <2>2, <2>3, <2>4, <3>1 DEF PairIn
  <2>6. ASSUME NEW k \in 1 .. Len(items), items[k].kind = "tool_pair",
               items[k].callId = items'[i].callId
        PROVE  items[k].messageIds[1] # items'[i].messageIds[1]
    <3>1. PairIn(transcript, items[k])
      BY <1>7, <2>6
    <3>2. CASE e \in Entries(pending)
      <4>1. OpenIn(transcript, e, Len(transcript))
        BY <3>2 DEF Joins
      <4>. QED BY <1>1, <2>3, <2>6, <3>1, <4>1, OpenUnpaired
    <3>3. CASE e \in IssuedAt(m, Here)
      <4>1. e.messageId = Here
        BY <3>3 DEF IssuedAt
      <4>2. items[k].messageIds[1] \in 1 .. Len(transcript)
        BY <1>1, <3>1 DEF PairIn
      <4>. QED BY <1>1, <2>3, <4>1, <4>2
    <3>. QED BY <3>2, <3>3 DEF OpenAt
  <2>. QED BY <2>5, <2>6
<1>9. ASSUME NEW i \in 1 .. Len(items'), items'[i].kind = "tool_pair"
      PROVE  PairIn(transcript', items'[i])
  BY <1>3, <1>4, <1>7, <1>8, <1>9
<1>10. ASSUME NEW i \in 1 .. Len(items'), items'[i].kind = "tool_pair",
              NEW j \in 1 .. Len(items'), items'[j].kind = "tool_pair",
              items'[j].callId = items'[i].callId,
              items'[j].messageIds[1] = items'[i].messageIds[1]
       PROVE  j = i
  <2>1. CASE i \in 1 .. Len(items) /\ j \in 1 .. Len(items)
    <3>1. OnlyPair(items, i)
      BY <2>1, <1>3, <1>10 DEF Joins
    <3>. QED BY <2>1, <3>1, <1>3, <1>10 DEF OnlyPair
  <2>2. CASE i \in first .. Len(items') /\ j \in first .. Len(items')
    BY <2>2, <1>2, <1>10 DEF JoinedTo
  <2>3. CASE i \in first .. Len(items') /\ j \in 1 .. Len(items)
    BY <2>3, <1>3, <1>8, <1>10
  <2>4. CASE j \in first .. Len(items') /\ i \in 1 .. Len(items)
    BY <2>4, <1>3, <1>8, <1>10
  <2>. QED BY <2>1, <2>2, <2>3, <2>4, <1>4
<1>11. \A i \in 1 .. Len(items') : items'[i].kind = "tool_pair" => OnlyPair(items', i)
  BY <1>10 DEF OnlyPair
<1>. QED BY <1>6, <1>9, <1>11 DEF Joins

\* Every pair joins a result to the call it answers, the last one under its id, and
\* no call is in two (normalize.ts:150-233).
THEOREM PairsAnswerTheirCallTheorem == Spec => []PairsAnswerTheirCall
<1>1. Init => Joins
  BY DEF Init, Joins, Entries
<1>2. TypeOK /\ Joins /\ [Next]_normalizeVars => Joins'
  <2>1. ASSUME Joins, UNCHANGED normalizeVars PROVE Joins'
    BY <2>1 DEF normalizeVars, Joins, Entries
  <2>. QED BY <2>1, ReadKeepsJoins DEF Next
<1>3. TypeOK /\ Joins => PairsAnswerTheirCall
  <2>1. SUFFICES ASSUME TypeOK, Joins, NEW i \in DOMAIN items, items[i].kind = "tool_pair"
                 PROVE  LET id == items[i].callId
                            asked == items[i].messageIds[1]
                            answered == items[i].messageIds[2]
                        IN  /\ answered \in DOMAIN transcript /\ asked \in 1 .. answered
                            /\ IssuesLast(transcript[asked], id, items[i].tool)
                            /\ GivesResult(transcript[answered], id, items[i].result)
                            /\ \A n \in asked + 1 .. answered : ~Issues(transcript[n], id)
                            /\ \A n \in asked .. answered - 1 : ~Answers(transcript[n], id)
                            /\ \A j \in DOMAIN items :
                                 items[j].kind = "tool_pair"
                                   /\ IsCallItem(items[j], asked, id) => j = i
    BY DEF PairsAnswerTheirCall
  <2>2. /\ DOMAIN items = 1 .. Len(items) /\ DOMAIN transcript = 1 .. Len(transcript)
    BY <2>1 DEF TypeOK
  <2>3. PairIn(transcript, items[i]) /\ OnlyPair(items, i)
    BY <2>1, <2>2 DEF Joins
  <2>. QED BY <2>2, <2>3 DEF PairIn, OnlyPair, IsCallItem
<1>. QED BY <1>1, <1>2, <1>3, TypeCorrect, PTL DEF Spec

\* Every call of the transcript is in a pair, or pending, or reissued.
CallsKept ==
  \A n \in 1 .. Len(transcript) : \A id \in CallIds :
    Issues(transcript[n], id) =>
      \/ Reissued(n, id)
      \/ \E i \in 1 .. Len(items) :
           items[i].kind = "tool_pair" /\ items[i].callId = id /\ items[i].messageIds[1] = n
      \/ \E e \in Entries(pending) : e.id = id /\ e.messageId = n

\* These items show the result, or the text, of message n.
Shows(all, n, m) ==
  /\ IsToolMessage(m) =>
       \E i \in 1 .. Len(all) :
         /\ MadeAt(all, n, {"tool_pair", "unpaired_tool_result"}) = {i}
         /\ all[i].result = m.result
  /\ ~IsToolMessage(m) /\ m.text # None =>
       \E i \in 1 .. Len(all) : MadeAt(all, n, {"message"}) = {i} /\ all[i].text = m.text

\* Every result and text of the transcript is in an item.
SaidKept ==
  /\ \A i \in 1 .. Len(items) : Last(items[i].messageIds) \in 1 .. Len(transcript)
  /\ \A n \in 1 .. Len(transcript) : Shows(items, n, transcript[n])

-----------------------------------------------------------------------------
(* Nothing is lost.                                                        *)

\* A message that issues an id has a last call under it.
LEMMA LastCallExists ==
  ASSUME NEW m \in Messages, NEW id, Issues(m, id), NEW here \in Positions
  PROVE  \E e \in IssuedAt(m, here) : e.id = id
<1>. DEFINE S == CallsOf(m, id)
<1>1. ~IsToolMessage(m) /\ S # {}
  BY DEF Issues, CallsOf
<1>2. /\ Len(m.calls) \in Nat /\ DOMAIN m.calls = 1 .. Len(m.calls)
      /\ \A k \in DOMAIN m.calls : m.calls[k] \in ToSet(m.calls)
  BY MessagesAssumption
<1>3. S \in SUBSET (0 .. Len(m.calls))
  BY <1>2 DEF CallsOf
<1>4. PICK k \in S : \A j \in S : k >= j
  <2>. HIDE DEF S
  <2>. QED BY <1>1, <1>2, <1>3, LastIndex
<1>5. k \in DOMAIN m.calls /\ m.calls[k].id = id
  BY <1>4 DEF CallsOf
<1>6. m.calls[k].id \in CallIds /\ m.calls[k].tool \in CallTools
  BY <1>2, <1>5 DEF CallIds, CallTools
<1>. DEFINE e == [id |-> id, tool |-> m.calls[k].tool, messageId |-> here]
<1>7. e \in PendingCall
  BY <1>5, <1>6 DEF PendingCall
<1>8. \A j \in S : j <= k
  <2>1. \A j \in S : j \in Nat /\ k \in Nat
    BY <1>3
  <2>. QED BY <1>4, <2>1
<1>9. IssuesLast(m, id, m.calls[k].tool)
  BY <1>4, <1>8 DEF IssuesLast
<1>10. e \in IssuedAt(m, here)
  BY <1>7, <1>9 DEF IssuedAt
<1>. QED BY <1>10

\* Reading a message loses no call.
LEMMA ReadKeepsCalls ==
  ASSUME TypeOK, Joins, CallsKept, NEW m \in Messages, Read(m)
  PROVE  CallsKept'
<1>1. /\ Len(transcript) \in Nat /\ Here = Len(transcript) + 1 /\ Here \in Positions
      /\ Len(transcript') = Here /\ transcript'[Here] = m
      /\ \A n \in 1 .. Len(transcript) : transcript'[n] = transcript[n]
      /\ \A n \in 1 .. Here : n \in 1 .. Len(transcript) \/ n = Here
  BY TranscriptGrows
<1>. DEFINE first == Len(items) + 1
            Paired(n, id) == \E i \in 1 .. Len(items') :
                               /\ items'[i].kind = "tool_pair" /\ items'[i].callId = id
                               /\ items'[i].messageIds[1] = n
            Open(n, id) == \E e \in Entries(pending') : e.id = id /\ e.messageId = n
<1>2. /\ JoinedTo(OpenAt(m), m, first, items')
      /\ Entries(pending') = {e \in OpenAt(m) : ~Answers(m, e.id)}
  BY ToolMessageJoins, OtherMessageJoins
<1>3. /\ Len(items) \in Nat /\ Len(items') \in Nat /\ Len(items') >= Len(items)
      /\ \A k \in 1 .. Len(items) : items'[k] = items[k]
  <2>1. TypeOK'
    BY ReadPreservesTypeOK
  <2>. QED BY <2>1, ReadGrows DEF TypeOK
<1>4. /\ \A k \in 1 .. Len(items) : k \in 1 .. Len(items')
      /\ \A k \in first .. Len(items') : k \in 1 .. Len(items')
  BY <1>3
<1>. HIDE DEF first
<1>5. ASSUME NEW e \in OpenAt(m) PROVE Paired(e.messageId, e.id) \/ Open(e.messageId, e.id)
  <2>1. CASE Answers(m, e.id)
    <3>1. PICK i \in first .. Len(items') :
            \E result \in Results : items'[i] = PairOf(e, result, Here)
      BY <2>1, <1>2 DEF JoinedTo
    <3>. QED BY <3>1, <1>4, LastPlaces
  <2>2. CASE ~Answers(m, e.id)
    BY <2>2, <1>2
  <2>. QED BY <2>1, <2>2
<1>6. ASSUME NEW n \in 1 .. Here, NEW id \in CallIds, Issues(transcript'[n], id)
      PROVE  Reissued(n, id)' \/ Paired(n, id) \/ Open(n, id)
  <2>1. CASE n = Here
    <3>1. PICK e \in IssuedAt(m, Here) : e.id = id
      BY <2>1, <1>1, <1>6, LastCallExists
    <3>2. e \in OpenAt(m) /\ e.messageId = n
      BY <2>1, <3>1 DEF OpenAt, IssuedAt
    <3>. QED BY <3>1, <3>2, <1>5
  <2>2. CASE n \in 1 .. Len(transcript)
    <3>1. Issues(transcript[n], id)
      BY <2>2, <1>1, <1>6
    <3>2. CASE Reissued(n, id)
      <4>1. PICK d \in n + 1 .. Len(transcript) :
              /\ Issues(transcript[d], id)
              /\ \A k \in n .. d - 1 : ~Answers(transcript[k], id)
        BY <3>2 DEF Reissued
      <4>2. /\ d \in 1 .. Len(transcript) /\ d \in n + 1 .. Here
            /\ \A k \in n .. d - 1 : k \in 1 .. Len(transcript)
        BY <2>2, <1>1
      <4>3. Issues(transcript'[d], id) /\ \A k \in n .. d - 1 : ~Answers(transcript'[k], id)
        BY <4>1, <4>2, <1>1
      <4>. QED BY <4>2, <4>3, <1>1 DEF Reissued
    <3>3. CASE \E i \in 1 .. Len(items) : /\ items[i].kind = "tool_pair" /\ items[i].callId = id
                                          /\ items[i].messageIds[1] = n
      BY <3>3, <1>3, <1>4
    <3>4. ASSUME NEW e \in Entries(pending), e.id = id, e.messageId = n
          PROVE  Reissued(n, id)' \/ Paired(n, id) \/ Open(n, id)
      <4>1. CASE ~Issues(m, id)
        <5>1. e \in OpenAt(m)
          BY <4>1, <3>4 DEF OpenAt
        <5>. QED BY <5>1, <3>4, <1>5
      <4>2. CASE Issues(m, id)
        <5>1. OpenIn(transcript, e, Len(transcript))
          BY <3>4 DEF Joins
        <5>2. /\ Here \in n + 1 .. Here
              /\ \A k \in n .. Here - 1 : k \in n .. Len(transcript) /\ k \in 1 .. Len(transcript)
          BY <2>2, <1>1
        <5>3. \A k \in n .. Here - 1 : ~Answers(transcript'[k], id)
          BY <5>1, <5>2, <3>4, <1>1 DEF OpenIn
        <5>. QED BY <4>2, <5>2, <5>3, <1>1 DEF Reissued
      <4>. QED BY <4>1, <4>2
    <3>. QED BY <2>2, <3>1, <3>2, <3>3, <3>4 DEF CallsKept
  <2>. QED BY <2>1, <2>2, <1>1
<1>7. CallIds' = CallIds
  BY DEF CallIds
<1>. QED BY <1>1, <1>6, <1>7 DEF CallsKept

\* Reading a message loses no result and no text.
LEMMA ReadKeepsSaid ==
  ASSUME TypeOK, SaidKept, NEW m \in Messages, Read(m)
  PROVE  SaidKept'
<1>1. /\ Len(transcript) \in Nat /\ Here = Len(transcript) + 1
      /\ Len(transcript') = Here /\ transcript'[Here] = m
      /\ \A n \in 1 .. Len(transcript) : transcript'[n] = transcript[n] /\ n # Here
      /\ \A n \in 1 .. Here : n \in 1 .. Len(transcript) \/ n = Here
      /\ \A n \in 1 .. Len(transcript) : n \in 1 .. Here
      /\ Here \in 1 .. Here
  <2>1. \A n \in 1 .. Len(transcript) : n # Here /\ n \in 1 .. Here
    BY TranscriptGrows
  <2>. QED BY <2>1, TranscriptGrows
<1>. DEFINE first == Len(items) + 1
<1>2. Says(m, first, items')
  BY ToolMessageJoins, OtherMessageJoins
<1>3. /\ Len(items) \in Nat /\ Len(items') \in Nat /\ Len(items') >= Len(items)
      /\ \A k \in 1 .. Len(items) : items'[k] = items[k]
      /\ DOMAIN items = 1 .. Len(items) /\ DOMAIN items' = 1 .. Len(items')
  <2>1. TypeOK'
    BY ReadPreservesTypeOK
  <2>. QED BY <2>1, ReadGrows DEF TypeOK
<1>4. /\ \A k \in 1 .. Len(items) : k \in 1 .. Len(items')
      /\ \A k \in first .. Len(items') : k \in 1 .. Len(items')
      /\ \A k \in 1 .. Len(items') : k \in 1 .. Len(items) \/ k \in first .. Len(items')
      /\ \A k \in first .. Len(items') : k = first \/ k \in first + 1 .. Len(items')
      /\ Len(items') >= first => first \in first .. Len(items')
  BY <1>3
<1>. HIDE DEF first
<1>5. \A i \in first .. Len(items') : Last(items'[i].messageIds) = Here
  BY <1>2 DEF Says
<1>6. \A i \in 1 .. Len(items) : Last(items[i].messageIds) \in 1 .. Len(transcript)
  BY DEF SaidKept
<1>7. \A i \in 1 .. Len(items') : Last(items'[i].messageIds) \in 1 .. Here
  BY <1>1, <1>3, <1>4, <1>5, <1>6
<1>8. \A n \in 1 .. Len(transcript) :
        \A kinds : MadeAt(items', n, kinds) = MadeAt(items, n, kinds)
  <2>1. ASSUME NEW n \in 1 .. Len(transcript), NEW kinds
        PROVE  MadeAt(items', n, kinds) = MadeAt(items, n, kinds)
    <3>1. \A i \in first .. Len(items') : n # Last(items'[i].messageIds)
      BY <1>1, <1>5
    <3>. QED BY <3>1, <1>3, <1>4 DEF MadeAt
  <2>. QED BY <2>1
<1>9. \A kinds : MadeAt(items', Here, kinds) =
                   {i \in first .. Len(items') : items'[i].kind \in kinds}
  <2>1. \A i \in 1 .. Len(items) : Here # Last(items'[i].messageIds)
    BY <1>1, <1>3, <1>6
  <2>. QED BY <2>1, <1>3, <1>4, <1>5 DEF MadeAt
<1>10. ASSUME NEW n \in 1 .. Len(transcript) PROVE Shows(items', n, transcript'[n])
  <2>1. Shows(items, n, transcript[n])
    BY DEF SaidKept
  <2>. QED BY <2>1, <1>1, <1>3, <1>4, <1>8 DEF Shows
<1>11. Shows(items', Here, m)
  <2>1. CASE IsToolMessage(m)
    <3>1. /\ Len(items') = first /\ items'[first].result = m.result
          /\ items'[first].kind \in {"tool_pair", "unpaired_tool_result"}
      BY <2>1, <1>2 DEF Says
    <3>2. first \in Nat
      BY <1>3 DEF first
    <3>3. first \in first .. Len(items') /\ \A i \in first .. Len(items') : i = first
      BY <3>1, <3>2
    <3>4. MadeAt(items', Here, {"tool_pair", "unpaired_tool_result"}) = {first}
      BY <3>1, <3>3, <1>9
    <3>. QED BY <2>1, <3>1, <3>3, <3>4, <1>4 DEF Shows
  <2>2. CASE ~IsToolMessage(m) /\ m.text # None
    <3>1. /\ Len(items') >= first /\ items'[first].kind = "message" /\ items'[first].text = m.text
          /\ \A i \in first + 1 .. Len(items') : items'[i].kind = "tool_pair"
      BY <2>2, <1>2 DEF Says
    <3>2. first \in first .. Len(items')
      BY <3>1, <1>4
    <3>3. \A i \in first .. Len(items') : items'[i].kind = "message" <=> i = first
      BY <3>1, <1>4
    <3>4. MadeAt(items', Here, {"message"}) = {first}
      BY <3>2, <3>3, <1>9
    <3>. QED BY <2>2, <3>1, <3>2, <3>4, <1>4 DEF Shows
  <2>. QED BY <2>1, <2>2 DEF Shows
<1>12. \A n \in 1 .. Here : Shows(items', n, transcript'[n])
  BY <1>1, <1>10, <1>11
<1>. QED BY <1>1, <1>7, <1>12 DEF SaidKept

\* An item is no call without a result.
LEMMA ItemKinds ==
  ASSUME NEW item \in Item
  PROVE  item.kind \in {"message", "tool_pair", "unpaired_tool_result"}
BY DEF Item, MessageItem, ToolPair, UnpairedResult

\* A message issues the ids of its last calls.
LEMMA LastIssues ==
  ASSUME NEW m, NEW id, NEW tool, IssuesLast(m, id, tool)
  PROVE  Issues(m, id)
BY DEF IssuesLast, Issues

\* The call of a pair was issued, and not again before it was answered.
LEMMA PairedIsNotReissued ==
  ASSUME Len(transcript) \in Nat, NEW item, PairIn(transcript, item)
  PROVE  /\ Issues(transcript[item.messageIds[1]], item.callId)
         /\ ~Reissued(item.messageIds[1], item.callId)
<1>. DEFINE n == item.messageIds[1]
            a == item.messageIds[2]
            id == item.callId
<1>1. /\ a \in 1 .. Len(transcript) /\ n \in 1 .. a /\ Issues(transcript[n], id)
      /\ Answers(transcript[a], id)
      /\ \A k \in n + 1 .. a : ~Issues(transcript[k], id)
  BY LastIssues, GivingAnswers DEF PairIn
<1>. HIDE DEF n, a, id
<1>2. ASSUME NEW d \in n + 1 .. Len(transcript), Issues(transcript[d], id),
             \A k \in n .. d - 1 : ~Answers(transcript[k], id)
      PROVE  FALSE
  <2>1. a \in n .. d - 1 \/ d \in n + 1 .. a
    BY <1>1
  <2>. QED BY <2>1, <1>1, <1>2
<1>3. ~Reissued(n, id)
  BY <1>2 DEF Reissued
<1>. QED BY <1>1, <1>3 DEF n, id

\* So was a call that is pending.
LEMMA PendingIsNotReissued ==
  ASSUME NEW e, OpenIn(transcript, e, Len(transcript))
  PROVE  /\ Issues(transcript[e.messageId], e.id)
         /\ ~Reissued(e.messageId, e.id)
BY LastIssues DEF OpenIn, Reissued

\* An unpaired call is told by its call.
LEMMA UnpairedCallFields ==
  ASSUME NEW id, NEW tool, NEW n
  PROVE  /\ UnpairedCall(id, tool, n).kind = "unpaired_tool_call"
         /\ UnpairedCall(id, tool, n).callId = id
         /\ UnpairedCall(id, tool, n).tool = tool
         /\ UnpairedCall(id, tool, n).messageIds[1] = n
BY DEF UnpairedCall

\* The session has each call once that was not reissued, and each result and text.
LEMMA SessionLosesNothing ==
  ASSUME TypeOK, Joins, CallsKept, SaidKept
  PROVE  NothingLost
<1>. DEFINE s == Session
            L == Len(items)
            Made(i, n, id) == /\ items[i].kind = "tool_pair" /\ items[i].callId = id
                              /\ items[i].messageIds[1] = n
            Waits(k, n, id) == pending[k].id = id /\ pending[k].messageId = n
<1>1. /\ items \in Seq(Item) /\ pending \in Seq(PendingCall) /\ pending \in Maps
      /\ Len(transcript) \in Nat /\ DOMAIN transcript = 1 .. Len(transcript)
      /\ L \in Nat /\ Len(pending) \in Nat /\ DOMAIN pending = 1 .. Len(pending)
      /\ \A i \in 1 .. L : items[i] \in Item
  BY DEF TypeOK, Maps
<1>2. /\ Len(s) = L + Len(pending) /\ DOMAIN s = 1 .. Len(s)
      /\ \A i \in 1 .. L : s[i] = items[i]
      /\ \A k \in 1 .. Len(pending) :
           s[L + k] = UnpairedCall(pending[k].id, pending[k].tool, pending[k].messageId)
  BY <1>1, ShownIsSequence DEF Session, Shown
<1>. HIDE DEF s, L
<1>3. /\ \A i \in DOMAIN s : i \in 1 .. L \/ \E k \in 1 .. Len(pending) : i = L + k
      /\ \A i \in 1 .. L : i \in DOMAIN s
      /\ \A k \in 1 .. Len(pending) : L + k \in DOMAIN s
  <2>1. ASSUME NEW i \in DOMAIN s, i \notin 1 .. L
        PROVE  \E k \in 1 .. Len(pending) : i = L + k
    <3>1. i - L \in 1 .. Len(pending) /\ i = L + (i - L)
      BY <2>1, <1>1, <1>2
    <3>. QED BY <3>1
  <2>2. /\ \A i \in 1 .. L : i \in DOMAIN s
        /\ \A k \in 1 .. Len(pending) : L + k \in DOMAIN s
    BY <1>1, <1>2
  <2>. QED BY <2>1, <2>2
<1>4. \A k \in 1 .. Len(pending) : /\ s[L + k].kind = "unpaired_tool_call"
                                   /\ s[L + k].callId = pending[k].id
                                   /\ s[L + k].tool = pending[k].tool
                                   /\ s[L + k].messageIds[1] = pending[k].messageId
  <2>. TAKE k \in 1 .. Len(pending)
  <2>1. s[L + k] = UnpairedCall(pending[k].id, pending[k].tool, pending[k].messageId)
    BY <1>2
  <2>. QED BY <2>1, UnpairedCallFields
<1>5. \A i \in 1 .. L : items[i].kind \in {"message", "tool_pair", "unpaired_tool_result"}
  BY <1>1, ItemKinds
<1>6. \A n, id : /\ \A i \in 1 .. L : IsCallItem(s[i], n, id) <=> Made(i, n, id)
                 /\ \A k \in 1 .. Len(pending) : IsCallItem(s[L + k], n, id) <=> Waits(k, n, id)
  BY <1>2, <1>4, <1>5 DEF IsCallItem
<1>7. ASSUME NEW i \in 1 .. L, NEW n, NEW id, Made(i, n, id)
      PROVE  /\ IssuesLast(transcript[n], id, items[i].tool)
             /\ Issues(transcript[n], id) /\ ~Reissued(n, id)
             /\ \A j \in 1 .. L : Made(j, n, id) => j = i
             /\ \A k \in 1 .. Len(pending) : ~Waits(k, n, id)
  <2>1. PairIn(transcript, items[i]) /\ OnlyPair(items, i)
    BY <1>7 DEF Joins, L
  <2>2. Issues(transcript[n], id) /\ ~Reissued(n, id)
    BY <2>1, <1>1, <1>7, PairedIsNotReissued
  <2>3. IssuesLast(transcript[n], id, items[i].tool)
    BY <2>1, <1>7 DEF PairIn
  <2>4. \A j \in 1 .. L : Made(j, n, id) => j = i
    BY <2>1, <1>7 DEF OnlyPair, L
  <2>5. ASSUME NEW k \in 1 .. Len(pending), Waits(k, n, id) PROVE FALSE
    <3>1. OpenIn(transcript, pending[k], Len(transcript))
      BY <1>1 DEF Joins, Entries
    <3>. QED BY <2>1, <2>5, <3>1, <1>1, <1>7, OpenUnpaired
  <2>. QED BY <2>2, <2>3, <2>4, <2>5
<1>8. ASSUME NEW k \in 1 .. Len(pending), NEW n, NEW id, Waits(k, n, id)
      PROVE  /\ IssuesLast(transcript[n], id, pending[k].tool)
             /\ Issues(transcript[n], id) /\ ~Reissued(n, id)
             /\ \A j \in 1 .. Len(pending) : Waits(j, n, id) => j = k
             /\ \A i \in 1 .. L : ~Made(i, n, id)
  <2>1. OpenIn(transcript, pending[k], Len(transcript))
    BY <1>1 DEF Joins, Entries
  <2>2. Issues(transcript[n], id) /\ ~Reissued(n, id)
    BY <2>1, <1>8, PendingIsNotReissued
  <2>3. IssuesLast(transcript[n], id, pending[k].tool)
    BY <2>1, <1>8 DEF OpenIn
  <2>4. \A j \in 1 .. Len(pending) : Waits(j, n, id) => j = k
    BY <1>1, <1>8 DEF Maps
  <2>. QED BY <2>2, <2>3, <2>4, <1>7, <1>8
<1>9. ASSUME NEW n \in 1 .. Len(transcript), NEW id \in CallIds,
             Issues(transcript[n], id), ~Reissued(n, id)
      PROVE  LET there == {i \in DOMAIN s : IsCallItem(s[i], n, id)} IN
             \E i \in there : there = {i} /\ IssuesLast(transcript[n], id, s[i].tool)
  <2>. DEFINE there == {i \in DOMAIN s : IsCallItem(s[i], n, id)}
  <2>1. ASSUME NEW i \in 1 .. L, Made(i, n, id)
        PROVE  there = {i} /\ IssuesLast(transcript[n], id, s[i].tool)
    <3>. HIDE DEF Made, Waits
    <3>1. i \in there
      BY <2>1, <1>3, <1>6
    <3>2. \A j \in there : j = i
      BY <2>1, <1>3, <1>6, <1>7
    <3>. QED BY <2>1, <3>1, <3>2, <1>2, <1>7
  <2>2. ASSUME NEW k \in 1 .. Len(pending), Waits(k, n, id)
        PROVE  there = {L + k} /\ IssuesLast(transcript[n], id, s[L + k].tool)
    <3>. HIDE DEF Made, Waits
    <3>1. L + k \in there
      BY <2>2, <1>3, <1>6
    <3>2. \A j \in there : j = L + k
      BY <2>2, <1>3, <1>6, <1>8
    <3>. QED BY <2>2, <3>1, <3>2, <1>4, <1>8
  <2>3. (\E i \in 1 .. L : Made(i, n, id)) \/ (\E k \in 1 .. Len(pending) : Waits(k, n, id))
    <3>1. \/ \E i \in 1 .. L : Made(i, n, id)
          \/ \E e \in Entries(pending) : e.id = id /\ e.messageId = n
      BY <1>9 DEF CallsKept, L
    <3>2. (\E e \in Entries(pending) : e.id = id /\ e.messageId = n)
            => \E k \in 1 .. Len(pending) : Waits(k, n, id)
      BY <1>1 DEF Entries
    <3>. QED BY <3>1, <3>2
  <2>. HIDE DEF there, Made, Waits
  <2>4. \E i \in there : there = {i} /\ IssuesLast(transcript[n], id, s[i].tool)
    BY <2>1, <2>2, <2>3
  <2>. QED BY <2>4 DEF there
<1>10. ASSUME NEW n \in 1 .. Len(transcript), NEW id \in CallIds,
              ~(Issues(transcript[n], id) /\ ~Reissued(n, id)),
              NEW i \in DOMAIN s, IsCallItem(s[i], n, id)
       PROVE  FALSE
  <2>. HIDE DEF Made, Waits
  <2>1. CASE i \in 1 .. L
    BY <2>1, <1>6, <1>7, <1>10
  <2>2. CASE \E k \in 1 .. Len(pending) : i = L + k
    BY <2>2, <1>6, <1>8, <1>10
  <2>. QED BY <2>1, <2>2, <1>3
<1>11. ASSUME NEW n, NEW kinds, "unpaired_tool_call" \notin kinds
       PROVE  MadeAt(s, n, kinds) = MadeAt(items, n, kinds)
  <2>1. DOMAIN items = 1 .. L
    BY <1>1 DEF L
  <2>. QED BY <2>1, <1>2, <1>3, <1>4, <1>11 DEF MadeAt
<1>12. ASSUME NEW n \in 1 .. Len(transcript)
       PROVE  /\ IsToolMessage(transcript[n]) =>
                   \E i \in DOMAIN s :
                     /\ MadeAt(s, n, {"tool_pair", "unpaired_tool_result"}) = {i}
                     /\ s[i].result = transcript[n].result
              /\ ~IsToolMessage(transcript[n]) /\ transcript[n].text # None =>
                   \E i \in DOMAIN s :
                     MadeAt(s, n, {"message"}) = {i} /\ s[i].text = transcript[n].text
  <2>1. Shows(items, n, transcript[n])
    BY DEF SaidKept
  <2>. QED BY <2>1, <1>2, <1>3, <1>11 DEF Shows, L
<1>. QED BY <1>1, <1>9, <1>10, <1>12 DEF NothingLost, s

\* Whatever order results come in, and whatever ids are issued again, every call is
\* in the session once, unless it was reissued before it was answered, nothing else
\* is there as a call, and every result and text is there once (normalize.ts:150-250).
THEOREM NothingLostTheorem == Spec => []NothingLost
<1>1. Init => Joins /\ CallsKept /\ SaidKept
  BY DEF Init, Joins, CallsKept, SaidKept, Entries
<1>2. TypeOK /\ Joins /\ CallsKept /\ SaidKept /\ [Next]_normalizeVars
        => (Joins /\ CallsKept /\ SaidKept)'
  <2>1. ASSUME Joins, UNCHANGED normalizeVars PROVE Joins'
    BY <2>1 DEF normalizeVars, Joins, Entries
  <2>2. ASSUME CallsKept, UNCHANGED normalizeVars PROVE CallsKept'
    BY <2>2 DEF normalizeVars, CallsKept, Entries, Reissued
  <2>3. ASSUME SaidKept, UNCHANGED normalizeVars PROVE SaidKept'
    BY <2>3 DEF normalizeVars, SaidKept
  <2>. QED BY <2>1, <2>2, <2>3, ReadKeepsJoins, ReadKeepsCalls, ReadKeepsSaid DEF Next
<1>3. TypeOK /\ Joins /\ CallsKept /\ SaidKept => NothingLost
  BY SessionLosesNothing
<1>. QED BY <1>1, <1>2, <1>3, TypeCorrect, PTL DEF Spec
=============================================================================
