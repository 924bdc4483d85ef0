------------------------- MODULE HookInstall_proofs -------------------------
(***************************************************************************)
(* Proofs about HookInstall: whatever the commands do and however they end, *)
(* what the user put into a settings file is in it or in a backup, and our *)
(* hook is in no file twice.                                               *)
(***************************************************************************)
EXTENDS HookInstall, IndexLemmas

-----------------------------------------------------------------------------
(* The inductive invariant.                                                *)

Contents == Document \cup {Missing, Broken}
Holding == {"backup", "open", "write"}

\* What a command goes by when there is no file.
DocumentOf(content) == IF content = Missing THEN Empty ELSE content

Typed ==
  /\ pc \in [Commands -> Holding \cup {"start", "read", "openConfig", "writeConfig", "done"}]
  /\ left \in [Commands -> Seq(Agents)]
  /\ DOMAIN read = Commands
  /\ file \in [Agents -> Contents]
  /\ owned \in [Agents -> Contents]
  /\ backups \subseteq Agents \X Document
  /\ raced \subseteq Agents

\* What a command holds that will write: an agent and its document, which lacks
\* what the command is to add or has what it is to remove.
Holds(p, stands, agents, content) ==
  stands \in Holding =>
    /\ agents # <<>>
    /\ content \in Document \cup {Missing}
    /\ stands = "backup" => content # Missing
    /\ Changes(p, DocumentOf(content))
    /\ HookedAtMostOnce(DocumentOf(content))

\* The user's content is in the file, or a backup has it.
KeptFor(a, mine, content, copies) ==
  /\ mine = Broken => content = Broken
  /\ content = Missing => mine = Missing
  /\ mine # Broken /\ IsDocument(content) =>
       UsersOwn(content) = UsersOwn(DocumentOf(mine))
  /\ IsDocument(mine) /\ ~IsDocument(content) =>
       \E doc \in Document : /\ <<a, doc>> \in copies
                             /\ UsersOwn(doc) = UsersOwn(mine)

\* So it is in what a command holds, and in a backup once the file is at risk.
HeldFor(a, mine, stands, content, copies) ==
  /\ mine # Broken
  /\ content = Missing => mine = Missing
  /\ UsersOwn(DocumentOf(content)) = UsersOwn(DocumentOf(mine))
  /\ stands # "backup" /\ content # Missing => <<a, content>> \in copies

Inv ==
  /\ Typed
  /\ HookedOnce
  /\ \A p \in Commands : Holds(p, pc[p], left[p], read[p])
  /\ \A a \in Agents \ raced : KeptFor(a, owned[a], file[a], backups)
  /\ \A a \in Agents \ raced : \A p \in Commands :
       pc[p] \in Holding /\ Agent(p) = a =>
         HeldFor(a, owned[a], pc[p], read[p], backups)

-----------------------------------------------------------------------------
(* Flat.                                                                   *)

\* f goes through ss, putting its sequences after each other.
IsFlat(f, S, ss) ==
  /\ f \in [0 .. Len(ss) -> Seq(S)]
  /\ f[0] = <<>>
  /\ \A n \in 1 .. Len(ss) : f[n] = f[n - 1] \o ss[n]

\* Flat is where such an f ends.
LEMMA FlatFold ==
  ASSUME NEW S, NEW ss \in Seq(Seq(S))
  PROVE  \E f : IsFlat(f, S, ss) /\ Flat(ss) = f[Len(ss)]
<1>. DEFINE N == Len(ss)
            flat[n \in 0 .. N] == IF n = 0 THEN <<>> ELSE flat[n - 1] \o ss[n]
            step == [x \in Seq(S) \X (1 .. N) |-> x[1] \o ss[x[2]]]
<1>1. N \in Nat /\ \A n \in 1 .. N : ss[n] \in Seq(S)
  OBVIOUS
<1>2. step \in Steps(Seq(S), N)
  <2>1. ASSUME NEW x \in Seq(S) \X (1 .. N) PROVE x[1] \o ss[x[2]] \in Seq(S)
    <3>1. x[1] \in Seq(S) /\ ss[x[2]] \in Seq(S)
      BY <1>1
    <3>. QED BY <3>1, ConcatProperties
  <2>. QED BY <2>1 DEF Steps
<1>. HIDE DEF step
<1>3. <<>> \in Seq(S)
  OBVIOUS
<1>4. PICK f : IsFold(f, Seq(S), N, <<>>, step)
  BY <1>1, <1>2, <1>3, FoldExists
<1>5. \A n \in 1 .. N : f[n] = f[n - 1] \o ss[n]
  <2>1. ASSUME NEW n \in 1 .. N PROVE f[n] = f[n - 1] \o ss[n]
    <3>1. f[n - 1] \in Seq(S)
      BY <1>4 DEF IsFold
    <3>2. step[<<f[n - 1], n>>] = f[n - 1] \o ss[n]
      BY <3>1 DEF step
    <3>. QED BY <3>2, <1>4 DEF IsFold
  <2>. QED BY <2>1
<1>6. f = [n \in 0 .. N |-> IF n = 0 THEN <<>> ELSE f[n - 1] \o ss[n]]
  <2>1. ASSUME NEW n \in 0 .. N
        PROVE  f[n] = IF n = 0 THEN <<>> ELSE f[n - 1] \o ss[n]
    <3>1. CASE n = 0
      BY <1>4, <3>1 DEF IsFold
    <3>2. CASE n # 0
      <4>1. n \in 1 .. N
        BY <1>1, <3>2
      <4>. QED BY <1>5, <3>2, <4>1
    <3>. QED BY <3>1, <3>2
  <2>. QED BY <2>1, <1>4 DEF IsFold
<1>7. flat = [n \in 0 .. N |-> IF n = 0 THEN <<>> ELSE flat[n - 1] \o ss[n]]
  BY <1>6
<1>. HIDE DEF flat
<1>8. \A n \in 1 .. N : n \in 0 .. N /\ n - 1 \in 0 .. N /\ n # 0
  BY <1>1
<1>9. flat[0] = <<>>
  <2>1. 0 \in 0 .. N
    BY <1>1
  <2>. QED BY <1>7, <2>1, Zenon
<1>10. \A n \in 1 .. N : flat[n] = flat[n - 1] \o ss[n]
  <2>1. ASSUME NEW n \in 1 .. N PROVE flat[n] = flat[n - 1] \o ss[n]
    <3>1. n \in 0 .. N /\ n # 0
      BY <1>8
    <3>. QED BY <1>7, <3>1, Zenon
  <2>. QED BY <2>1
<1>11. \A n \in 0 .. N : flat[n] = f[n]
  <2>. DEFINE T == {n \in 0 .. N : flat[n] = f[n]}
  <2>1. 0 \in T
    BY <1>1, <1>4, <1>9 DEF IsFold
  <2>2. \A n \in 1 .. N : n - 1 \in T => n \in T
    BY <1>5, <1>8, <1>10
  <2>. HIDE DEF T
  <2>3. 0 .. N \subseteq T
    BY <1>1, <2>1, <2>2, UpTo
  <2>. QED BY <2>3 DEF T
<1>12. flat \in [0 .. N -> Seq(S)]
  <2>1. flat = [n \in 0 .. N |-> flat[n]]
    BY <1>7, Zenon
  <2>. QED BY <1>4, <1>11, <2>1 DEF IsFold
<1>13. IsFlat(flat, S, ss)
  BY <1>9, <1>10, <1>12 DEF IsFlat
<1>14. Flat(ss) = flat[N]
  BY DEF Flat, flat
<1>. QED BY <1>13, <1>14

\* One sequence more comes last.
LEMMA FlatAppend ==
  ASSUME NEW S, NEW ss \in Seq(Seq(S)), NEW x \in Seq(S)
  PROVE  Flat(Append(ss, x)) = Flat(ss) \o x
<1>. DEFINE N == Len(ss)
            more == Append(ss, x)
<1>1. /\ N \in Nat
      /\ more \in Seq(Seq(S)) /\ Len(more) = N + 1 /\ more[N + 1] = x
      /\ \A n \in 1 .. N : more[n] = ss[n]
  OBVIOUS
<1>. HIDE DEF more
<1>2. PICK f : IsFlat(f, S, ss) /\ Flat(ss) = f[N]
  BY FlatFold
<1>3. PICK g : IsFlat(g, S, more) /\ Flat(more) = g[N + 1]
  <2>1. PICK g : IsFlat(g, S, more) /\ Flat(more) = g[Len(more)]
    BY <1>1, FlatFold
  <2>. QED BY <1>1, <2>1
<1>4. N \in 0 .. N /\ N + 1 \in 1 .. N + 1 /\ (N + 1) - 1 = N
  BY <1>1
<1>. DEFINE T == {n \in 0 .. N : g[n] = f[n]}
<1>5. 0 \in T
  BY <1>1, <1>2, <1>3 DEF IsFlat
<1>6. \A n \in 1 .. N : n - 1 \in T => n \in T
  <2>1. \A n \in 1 .. N : n \in 1 .. N + 1 /\ n \in 0 .. N
    BY <1>1
  <2>2. \A n \in 1 .. N : g[n] = g[n - 1] \o ss[n] /\ f[n] = f[n - 1] \o ss[n]
    BY <1>1, <1>2, <1>3, <2>1 DEF IsFlat
  <2>. QED BY <2>1, <2>2
<1>7. N \in T
  <2>. HIDE DEF T
  <2>1. 0 .. N \subseteq T
    BY <1>1, <1>5, <1>6, UpTo
  <2>. QED BY <1>4, <2>1
<1>8. g[N + 1] = g[N] \o x
  BY <1>1, <1>3, <1>4 DEF IsFlat
<1>. QED BY <1>2, <1>3, <1>7, <1>8 DEF more

\* What is flat is a sequence, and nothing flattens to nothing.
LEMMA FlatIsSequence ==
  ASSUME NEW S, NEW ss \in Seq(Seq(S))
  PROVE  Flat(ss) \in Seq(S) /\ (ss = <<>> => Flat(ss) = <<>>)
<1>1. PICK f : IsFlat(f, S, ss) /\ Flat(ss) = f[Len(ss)]
  BY FlatFold
<1>2. Len(ss) \in 0 .. Len(ss) /\ (ss = <<>> => Len(ss) = 0)
  OBVIOUS
<1>. QED BY <1>1, <1>2 DEF IsFlat

\* Leaving out what is empty leaves the elements.
LEMMA FlatOfKept ==
  ASSUME NEW S, NEW ss \in Seq(Seq(S)), NEW passes \in [1 .. Len(ss) -> BOOLEAN],
         \A n \in 1 .. Len(ss) : ~passes[n] => ss[n] = <<>>
  PROVE  Flat(Kept(ss, passes)) = Flat(ss)
<1>. DEFINE N == Len(ss)
<1>1. N \in Nat /\ \A n \in 1 .. N : ss[n] \in Seq(S)
  OBVIOUS
<1>2. PICK f : IsFlat(f, S, ss) /\ Flat(ss) = f[N]
  BY FlatFold
<1>3. PICK k : IsKept(k, Seq(S), ss, passes) /\ Kept(ss, passes) = k[N]
  BY KeptFold
<1>. DEFINE T == {n \in 0 .. N : Flat(k[n]) = f[n]}
<1>4. \A n \in 1 .. N : n \in 0 .. N /\ n - 1 \in 0 .. N
  BY <1>1
<1>5. 0 \in T
  <2>1. k[0] = <<>> /\ f[0] = <<>>
    BY <1>2, <1>3 DEF IsFlat, IsKept
  <2>2. <<>> \in Seq(Seq(S))
    OBVIOUS
  <2>3. Flat(<<>>) = <<>>
    BY <2>2, FlatIsSequence
  <2>. QED BY <1>1, <2>1, <2>3
<1>6. ASSUME NEW n \in 1 .. N, n - 1 \in T PROVE n \in T
  <2>1. k[n - 1] \in Seq(Seq(S)) /\ f[n - 1] \in Seq(S)
    BY <1>2, <1>3, <1>4 DEF IsFlat, IsKept
  <2>2. f[n] = f[n - 1] \o ss[n] /\ Flat(k[n - 1]) = f[n - 1]
    BY <1>2, <1>6 DEF IsFlat
  <2>3. CASE passes[n]
    <3>1. k[n] = Append(k[n - 1], ss[n])
      BY <1>3, <2>3 DEF IsKept
    <3>2. Flat(k[n]) = f[n]
      BY <1>1, <2>1, <2>2, <3>1, FlatAppend
    <3>. QED BY <1>4, <3>2
  <2>4. CASE ~passes[n]
    <3>1. k[n] = k[n - 1] /\ ss[n] = <<>>
      BY <1>3, <2>4 DEF IsKept
    <3>2. f[n - 1] \o <<>> = f[n - 1]
      BY <2>1
    <3>. QED BY <1>4, <2>2, <3>1, <3>2
  <2>. QED BY <2>3, <2>4
<1>7. N \in T
  <2>. HIDE DEF T
  <2>1. 0 .. N \subseteq T
    BY <1>1, <1>5, <1>6, UpTo
  <2>. QED BY <1>1, <2>1
<1>. QED BY <1>2, <1>3, <1>7

\* Where everything passes, everything is kept.
LEMMA KeptAll ==
  ASSUME NEW S, NEW s \in Seq(S), NEW passes \in [1 .. Len(s) -> BOOLEAN],
         \A n \in 1 .. Len(s) : passes[n]
  PROVE  Kept(s, passes) = s
<1>. DEFINE N == Len(s)
<1>1. N \in Nat /\ \A n \in 1 .. N : s[n] \in S
  OBVIOUS
<1>2. PICK k : IsKept(k, S, s, passes) /\ Kept(s, passes) = k[N]
  BY KeptFold
<1>. DEFINE Begins(t, n) == /\ t \in Seq(S) /\ Len(t) = n
                            /\ \A j \in 1 .. n : t[j] = s[j]
            T == {n \in 0 .. N : Begins(k[n], n)}
<1>3. 0 \in T
  <2>1. k[0] = <<>>
    BY <1>2 DEF IsKept
  <2>2. Begins(<<>>, 0)
    OBVIOUS
  <2>3. Begins(k[0], 0)
    BY <2>1, <2>2
  <2>. QED BY <1>1, <2>3
<1>4. ASSUME NEW n \in 1 .. N, n - 1 \in T PROVE n \in T
  <2>1. Begins(k[n - 1], n - 1)
    BY <1>4
  <2>2. k[n] = Append(k[n - 1], s[n])
    BY <1>2 DEF IsKept
  <2>3. \A j \in 1 .. n : j \in 1 .. n - 1 \/ j = n
    BY <1>1
  <2>4. (n - 1) + 1 = n /\ n \in 0 .. N
    BY <1>1
  <2>5. Begins(k[n], n)
    BY <1>1, <2>1, <2>2, <2>3, <2>4
  <2>. QED BY <2>4, <2>5
<1>5. Begins(k[N], N)
  <2>. HIDE DEF T
  <2>1. 0 .. N \subseteq T
    BY <1>1, <1>3, <1>4, UpTo
  <2>2. N \in T
    BY <1>1, <2>1
  <2>. QED BY <2>2 DEF T
<1>. QED BY <1>2, <1>5, SeqEqual

-----------------------------------------------------------------------------
(* Documents.                                                              *)

\* The hooks of an entry without ours are the user's.
LEMMA OthersAreUsers ==
  ASSUME NEW entry \in Seq(Hooks \cup {Ours})
  PROVE  Others(entry) \in Seq(Hooks)
<1>. DEFINE H == Hooks \cup {Ours}
            passes == [n \in DOMAIN entry |-> entry[n] # Ours]
            t == Kept(entry, passes)
<1>1. DOMAIN entry = 1 .. Len(entry) /\ \A n \in 1 .. Len(entry) : entry[n] \in H
  OBVIOUS
<1>2. passes \in [1 .. Len(entry) -> BOOLEAN]
  BY <1>1
<1>3. \A n \in 1 .. Len(entry) : passes[n] => entry[n] \in Hooks
  BY <1>1
<1>. HIDE DEF passes
<1>4. t \in Seq(H) /\ \E at : Selects(at, t, entry, passes, Len(entry))
  BY <1>2, KeptSelects
<1>. HIDE DEF t
<1>5. PICK at : Selects(at, t, entry, passes, Len(entry))
  BY <1>4
<1>6. \A j \in 1 .. Len(t) : t[j] \in Hooks
  BY <1>3, <1>5 DEF Selects
<1>7. t \in Seq(Hooks)
  BY <1>4, <1>6
<1>. QED BY <1>7 DEF Others, t, passes

\* In an entry of the user's there is nothing to leave out.
LEMMA OthersOfUsers ==
  ASSUME NEW entry \in Seq(Hooks)
  PROVE  Others(entry) = entry
<1>. DEFINE passes == [n \in DOMAIN entry |-> entry[n] # Ours]
<1>1. DOMAIN entry = 1 .. Len(entry) /\ \A n \in 1 .. Len(entry) : entry[n] \in Hooks
  OBVIOUS
<1>2. /\ passes \in [1 .. Len(entry) -> BOOLEAN]
      /\ \A n \in 1 .. Len(entry) : passes[n]
  BY <1>1, ContentAssumption
<1>. HIDE DEF passes
<1>3. Kept(entry, passes) = entry
  BY <1>2, KeptAll
<1>. QED BY <1>3 DEF Others, passes

\* Without our hook, the entry of our hook is empty.
LEMMA OthersOfOurs == Others(<<Ours>>) = <<>>
<1>. DEFINE s == <<Ours>>
            passes == [n \in DOMAIN s |-> s[n] # Ours]
<1>1. s \in Seq({Ours}) /\ Len(s) = 1 /\ DOMAIN s = 1 .. 1 /\ s[1] = Ours
  OBVIOUS
<1>. HIDE DEF s
<1>2. 1 \in 1 .. 1 /\ 1 - 1 = 0 /\ \A n \in 1 .. 1 : n = 1
  OBVIOUS
<1>3. passes \in [1 .. 1 -> BOOLEAN] /\ ~passes[1]
  BY <1>1, <1>2
<1>. HIDE DEF passes
<1>4. PICK k : IsKept(k, {Ours}, s, passes) /\ Kept(s, passes) = k[1]
  <2>1. PICK k : IsKept(k, {Ours}, s, passes) /\ Kept(s, passes) = k[Len(s)]
    BY <1>1, <1>3, KeptFold
  <2>. QED BY <1>1, <2>1
<1>5. k[1] = k[0] /\ k[0] = <<>>
  BY <1>1, <1>2, <1>3, <1>4 DEF IsKept
<1>. QED BY <1>4, <1>5 DEF Others, s, passes

\* Entries without ours, and those of the user's.
LEMMA OthersOfAreUsers ==
  ASSUME NEW entries \in Seq(Seq(Hooks \cup {Ours}))
  PROVE  OthersOf(entries) \in Seq(Seq(Hooks)) /\ Len(OthersOf(entries)) = Len(entries)
<1>1. DOMAIN entries = 1 .. Len(entries) /\ Len(entries) \in Nat
  OBVIOUS
<1>2. \A k \in 1 .. Len(entries) : Others(entries[k]) \in Seq(Hooks)
  BY OthersAreUsers
<1>. DEFINE o(k) == Others(entries[k])
<1>. HIDE DEF o
<1>3. [k \in 1 .. Len(entries) |-> o(k)] \in Seq(Seq(Hooks))
  BY <1>1, <1>2 DEF o
<1>4. OthersOf(entries) = [k \in 1 .. Len(entries) |-> o(k)]
  BY <1>1 DEF OthersOf, o
<1>. QED BY <1>1, <1>3, <1>4

\* The user's entries are their own.
LEMMA OthersOfUsersEntries ==
  ASSUME NEW entries \in Seq(Seq(Hooks))
  PROVE  OthersOf(entries) = entries
<1>1. /\ DOMAIN entries = 1 .. Len(entries)
      /\ entries = [k \in DOMAIN entries |-> entries[k]]
      /\ \A k \in 1 .. Len(entries) : entries[k] \in Seq(Hooks)
  OBVIOUS
<1>2. \A k \in DOMAIN entries : Others(entries[k]) = entries[k]
  BY <1>1, OthersOfUsers
<1>3. OthersOf(entries) = [k \in DOMAIN entries |-> entries[k]]
  BY <1>2 DEF OthersOf
<1>. QED BY <1>1, <1>3

\* An entry more.
LEMMA OthersOfAppend ==
  ASSUME NEW entries \in Seq(Seq(Hooks \cup {Ours})), NEW entry \in Seq(Hooks \cup {Ours})
  PROVE  OthersOf(Append(entries, entry)) = Append(OthersOf(entries), Others(entry))
<1>. DEFINE H == Hooks \cup {Ours}
            N == Len(entries)
            more == Append(entries, entry)
            without == OthersOf(more)
            after == Append(OthersOf(entries), Others(entry))
<1>1. /\ N \in Nat /\ more \in Seq(Seq(H)) /\ Len(more) = N + 1
      /\ more[N + 1] = entry /\ \A k \in 1 .. N : more[k] = entries[k]
  OBVIOUS
<1>. HIDE DEF more
<1>2. without \in Seq(Seq(Hooks)) /\ Len(without) = N + 1
  BY <1>1, OthersOfAreUsers
<1>3. OthersOf(entries) \in Seq(Seq(Hooks)) /\ Len(OthersOf(entries)) = N
  BY OthersOfAreUsers
<1>4. Others(entry) \in Seq(Hooks)
  BY OthersAreUsers
<1>5. /\ after \in Seq(Seq(Hooks)) /\ Len(after) = N + 1
      /\ after[N + 1] = Others(entry)
      /\ \A k \in 1 .. N : after[k] = OthersOf(entries)[k]
  BY <1>1, <1>3, <1>4
<1>6. DOMAIN more = 1 .. N + 1 /\ DOMAIN entries = 1 .. N
  BY <1>1
<1>7. \A k \in 1 .. N + 1 : without[k] = Others(more[k])
  BY <1>6 DEF OthersOf
<1>8. \A k \in 1 .. N : OthersOf(entries)[k] = Others(entries[k])
  BY <1>6 DEF OthersOf
<1>9. \A k \in 1 .. N + 1 : k \in 1 .. N \/ k = N + 1
  BY <1>1
<1>. HIDE DEF without, after
<1>10. \A k \in 1 .. N + 1 : without[k] = after[k]
  BY <1>1, <1>5, <1>7, <1>8, <1>9
<1>11. without = after
  BY <1>2, <1>5, <1>10, SeqEqual
<1>. QED BY <1>11 DEF without, after, more

\* The fields of a document, and what has such fields.
LEMMA DocumentFields ==
  /\ \A doc \in Document : /\ doc.entries \in Seq(Seq(Hooks \cup {Ours}))
                           /\ doc.rest \in {0, 1}
                           /\ doc = [entries |-> doc.entries, rest |-> doc.rest]
  /\ \A entries \in Seq(Seq(Hooks \cup {Ours})), rest \in {0, 1} :
       [entries |-> entries, rest |-> rest] \in Document
BY DEF Document

\* A document with other entries.
LEMMA WithEntries ==
  ASSUME NEW doc \in Document, NEW entries
  PROVE  /\ [doc EXCEPT !.entries = entries] = [entries |-> entries, rest |-> doc.rest]
         /\ [doc EXCEPT !.entries = entries].entries = entries
         /\ [doc EXCEPT !.entries = entries].rest = doc.rest
<1>1. doc = [entries |-> doc.entries, rest |-> doc.rest]
  BY DocumentFields
<1>. QED BY <1>1

\* What a command goes by without a file is a document, with no hook at all.
LEMMA EmptyIsDocument ==
  /\ Empty \in Document /\ HookedAtMostOnce(Empty) /\ ~HasOurs(Empty)
  /\ \A content \in Document \cup {Missing} : DocumentOf(content) \in Document
<1>1. Empty.entries = <<>> /\ Empty = [entries |-> <<>>, rest |-> 0]
  BY DEF Empty
<1>2. <<>> \in Seq(Seq(Hooks \cup {Ours})) /\ DOMAIN <<>> = {}
  OBVIOUS
<1>3. Empty \in Document
  BY <1>1, <1>2, DocumentFields
<1>4. HookedAtMostOnce(Empty) /\ ~HasOurs(Empty)
  BY <1>1, <1>2 DEF HookedAtMostOnce, HasOurs
<1>. QED BY <1>3, <1>4 DEF DocumentOf

\* Entries that are all the user's have none of ours.
LEMMA UsersAreNotOurs ==
  ASSUME NEW doc \in Document, doc.entries \in Seq(Seq(Hooks))
  PROVE  HookedAtMostOnce(doc)
<1>. DEFINE entries == doc.entries
<1>1. ASSUME NEW k \in DOMAIN entries, NEW n \in DOMAIN entries[k]
      PROVE  entries[k][n] # Ours
  <2>1. entries[k] \in Seq(Hooks)
    OBVIOUS
  <2>. DEFINE entry == entries[k]
  <2>. HIDE DEF entry, entries
  <2>2. entry[n] \in Hooks
    BY <2>1, <1>1 DEF entry
  <2>. QED BY <2>2, ContentAssumption DEF entry
<1>. QED BY <1>1 DEF HookedAtMostOnce

\* Adding our hook to a document that lacks it adds it once, and adds no hook of
\* the user's.
LEMMA ApplyAddsOurs ==
  ASSUME NEW doc \in Document, ~HasOurs(doc)
  PROVE  /\ ApplyHook(doc) \in Document
         /\ HookedAtMostOnce(ApplyHook(doc))
         /\ UsersOwn(ApplyHook(doc)) = UsersOwn(doc)
<1>. DEFINE H == Hooks \cup {Ours}
            entries == doc.entries
            N == Len(entries)
            more == Append(entries, <<Ours>>)
<1>1. entries \in Seq(Seq(H)) /\ doc.rest \in {0, 1}
  BY DocumentFields
<1>2. /\ ApplyHook(doc) = [entries |-> more, rest |-> doc.rest]
      /\ ApplyHook(doc).entries = more /\ ApplyHook(doc).rest = doc.rest
  <2>. HIDE DEF more
  <2>1. ApplyHook(doc) = [doc EXCEPT !.entries = more]
    BY DEF ApplyHook, more
  <2>. QED BY <2>1, WithEntries
<1>3. <<Ours>> \in Seq(H) /\ Len(<<Ours>>) = 1 /\ DOMAIN <<Ours>> = 1 .. 1
  OBVIOUS
<1>4. /\ N \in Nat /\ more \in Seq(Seq(H)) /\ DOMAIN more = 1 .. N + 1
      /\ DOMAIN entries = 1 .. N
      /\ more[N + 1] = <<Ours>> /\ \A k \in 1 .. N : more[k] = entries[k]
  BY <1>1, <1>3
<1>5. ApplyHook(doc) \in Document
  BY <1>1, <1>2, <1>4, DocumentFields
<1>6. ASSUME NEW k \in DOMAIN more, NEW n \in DOMAIN more[k], more[k][n] = Ours
      PROVE  k = N + 1 /\ n = 1
  <2>1. CASE k \in 1 .. N
    <3>. HIDE DEF entries, more
    <3>1. n \in DOMAIN entries[k] /\ entries[k][n] = Ours
      BY <1>4, <1>6, <2>1
    <3>. QED BY <1>4, <2>1, <3>1 DEF HasOurs, entries
  <2>2. CASE k = N + 1
    <3>. HIDE DEF entries, more
    <3>1. n \in 1 .. 1
      BY <1>3, <1>4, <2>2
    <3>. QED BY <2>2, <3>1
  <2>3. k \in 1 .. N \/ k = N + 1
    <3>. HIDE DEF entries, more
    <3>1. k \in 1 .. N + 1 /\ N \in Nat
      BY <1>4
    <3>. HIDE DEF N
    <3>. QED BY <3>1
  <2>. QED BY <2>1, <2>2, <2>3
<1>. HIDE DEF more
<1>7. HookedAtMostOnce(ApplyHook(doc))
  BY <1>2, <1>6 DEF HookedAtMostOnce
<1>8. Flat(OthersOf(more)) = Flat(OthersOf(entries))
  <2>1. OthersOf(more) = Append(OthersOf(entries), <<>>)
    BY <1>1, <1>3, OthersOfAppend, OthersOfOurs DEF more
  <2>2. OthersOf(entries) \in Seq(Seq(Hooks)) /\ <<>> \in Seq(Hooks)
    BY <1>1, OthersOfAreUsers
  <2>3. Flat(OthersOf(more)) = Flat(OthersOf(entries)) \o <<>>
    BY <2>1, <2>2, FlatAppend
  <2>4. Flat(OthersOf(entries)) \in Seq(Hooks)
    BY <2>2, FlatIsSequence
  <2>. QED BY <2>3, <2>4
<1>9. UsersOwn(ApplyHook(doc)) = UsersOwn(doc)
  BY <1>2, <1>8 DEF UsersOwn
<1>. QED BY <1>5, <1>7, <1>9

\* Taking our hook out takes out no hook of the user's.
LEMMA RemoveTakesOurs ==
  ASSUME NEW doc \in Document
  PROVE  /\ RemoveHook(doc) \in Document
         /\ HookedAtMostOnce(RemoveHook(doc))
         /\ UsersOwn(RemoveHook(doc)) = UsersOwn(doc)
<1>. DEFINE rest == OthersOf(doc.entries)
            passes == [k \in DOMAIN rest |-> rest[k] # <<>>]
            kept == Kept(rest, passes)
<1>1. doc.entries \in Seq(Seq(Hooks \cup {Ours})) /\ doc.rest \in {0, 1}
  BY DocumentFields
<1>2. rest \in Seq(Seq(Hooks))
  BY <1>1, OthersOfAreUsers
<1>3. /\ RemoveHook(doc) = [entries |-> kept, rest |-> doc.rest]
      /\ RemoveHook(doc).entries = kept /\ RemoveHook(doc).rest = doc.rest
  BY DocumentFields DEF RemoveHook
<1>. HIDE DEF rest
<1>4. DOMAIN rest = 1 .. Len(rest)
  BY <1>2
<1>5. /\ passes \in [1 .. Len(rest) -> BOOLEAN]
      /\ \A k \in 1 .. Len(rest) : ~passes[k] => rest[k] = <<>>
  BY <1>4
<1>. HIDE DEF passes
<1>6. kept \in Seq(Seq(Hooks))
  BY <1>2, <1>5, KeptSelects
<1>7. Flat(kept) = Flat(rest)
  BY <1>2, <1>5, FlatOfKept
<1>. HIDE DEF kept
<1>8. kept \in Seq(Seq(Hooks \cup {Ours}))
  <2>1. Seq(Hooks) \subseteq Seq(Hooks \cup {Ours})
    OBVIOUS
  <2>. QED BY <1>6, <2>1
<1>9. RemoveHook(doc) \in Document
  BY <1>1, <1>3, <1>8, DocumentFields
<1>10. HookedAtMostOnce(RemoveHook(doc))
  BY <1>3, <1>6, <1>9, UsersAreNotOurs
<1>11. UsersOwn(RemoveHook(doc)) = UsersOwn(doc)
  <2>1. OthersOf(kept) = kept
    BY <1>6, OthersOfUsersEntries
  <2>. QED BY <1>3, <1>7, <2>1 DEF UsersOwn, rest
<1>. QED BY <1>9, <1>10, <1>11

\* So whatever a command writes has our hook once at most and the user's content.
LEMMA EditedKeepsUsers ==
  ASSUME NEW p \in Commands, NEW doc \in Document, Changes(p, doc)
  PROVE  /\ Edited(p, doc) \in Document
         /\ HookedAtMostOnce(Edited(p, doc))
         /\ UsersOwn(Edited(p, doc)) = UsersOwn(doc)
<1>1. CASE Command[p].op = "install"
  BY <1>1, ApplyAddsOurs DEF Changes, Edited
<1>2. CASE Command[p].op # "install"
  BY <1>2, RemoveTakesOurs DEF Edited
<1>. QED BY <1>1, <1>2

\* Nor do the user's edits add our hook.
LEMMA RewritesHookNothing ==
  ASSUME NEW content \in Contents, IsDocument(content) => HookedAtMostOnce(content),
         NEW new \in Rewrites(content)
  PROVE  new \in Contents /\ (IsDocument(new) => HookedAtMostOnce(new))
<1>. DEFINE H == Hooks \cup {Ours}
<1>1. CASE new \in {Missing, Broken}
  BY <1>1 DEF Contents, IsDocument
<1>2. CASE content \in {Missing, Broken} /\ new = [Empty EXCEPT !.rest = 1]
  <2>1. new = [entries |-> <<>>, rest |-> 1] /\ new.entries = <<>>
    BY <1>2 DEF Empty
  <2>2. <<>> \in Seq(Seq(H)) /\ DOMAIN <<>> = {}
    OBVIOUS
  <2>3. new \in Document
    BY <2>1, <2>2, DocumentFields
  <2>4. HookedAtMostOnce(new)
    BY <2>1, <2>2 DEF HookedAtMostOnce
  <2>. QED BY <2>3, <2>4 DEF Contents
<1>3. CASE content \notin {Missing, Broken} /\ new = [content EXCEPT !.rest = 1 - @]
  <2>1. content \in Document /\ HookedAtMostOnce(content)
    BY <1>3 DEF Contents, IsDocument
  <2>2. /\ new = [entries |-> content.entries, rest |-> 1 - content.rest]
        /\ new.entries = content.entries
    BY <1>3, <2>1, DocumentFields
  <2>3. 1 - content.rest \in {0, 1}
    BY <2>1, DocumentFields
  <2>4. new \in Document
    BY <2>1, <2>2, <2>3, DocumentFields
  <2>5. HookedAtMostOnce(new)
    BY <2>1, <2>2 DEF HookedAtMostOnce
  <2>. QED BY <2>4, <2>5 DEF Contents
<1>4. ASSUME content \notin {Missing, Broken}, NEW hook \in Hooks,
             new = [content EXCEPT !.entries = Append(@, <<hook>>)]
      PROVE  new \in Document /\ HookedAtMostOnce(new)
  <2>. DEFINE entries == content.entries
              N == Len(entries)
              more == Append(entries, <<hook>>)
  <2>1. content \in Document /\ HookedAtMostOnce(content)
    BY <1>4 DEF Contents, IsDocument
  <2>2. /\ new = [entries |-> more, rest |-> content.rest]
        /\ new.entries = more
    <3>. HIDE DEF more
    <3>1. new = [content EXCEPT !.entries = more]
      BY <1>4 DEF more
    <3>. QED BY <2>1, <3>1, WithEntries
  <2>3. entries \in Seq(Seq(H)) /\ content.rest \in {0, 1}
    BY <2>1, DocumentFields
  <2>4. <<hook>> \in Seq(H) /\ Len(<<hook>>) = 1 /\ DOMAIN <<hook>> = 1 .. 1
        /\ <<hook>>[1] = hook
    OBVIOUS
  <2>5. /\ N \in Nat /\ more \in Seq(Seq(H)) /\ DOMAIN more = 1 .. N + 1
        /\ DOMAIN entries = 1 .. N
        /\ more[N + 1] = <<hook>> /\ \A k \in 1 .. N : more[k] = entries[k]
    BY <2>3, <2>4
  <2>6. new \in Document
    BY <2>2, <2>3, <2>5, DocumentFields
  <2>7. ASSUME NEW k \in DOMAIN more, NEW n \in DOMAIN more[k], more[k][n] = Ours
        PROVE  /\ k \in DOMAIN entries
               /\ n \in DOMAIN entries[k] /\ entries[k][n] = Ours
    <3>. HIDE DEF entries, more
    <3>1. k \in 1 .. N \/ k = N + 1
      <4>1. k \in 1 .. N + 1 /\ N \in Nat
        BY <2>5
      <4>. HIDE DEF N
      <4>. QED BY <4>1
    <3>2. ASSUME k = N + 1 PROVE FALSE
      <4>1. n \in 1 .. 1 /\ more[k] = <<hook>>
        BY <2>4, <2>5, <2>7, <3>2
      <4>2. n = 1
        BY <4>1
      <4>3. hook = Ours
        BY <2>4, <2>7, <4>1, <4>2
      <4>. QED BY <4>3, ContentAssumption
    <3>. QED BY <2>5, <2>7, <3>1, <3>2
  <2>. HIDE DEF more
  <2>8. HookedAtMostOnce(new)
    BY <2>1, <2>2, <2>7 DEF HookedAtMostOnce
  <2>. QED BY <2>6, <2>8
<1>5. \/ new \in {Missing, Broken}
      \/ content \in {Missing, Broken} /\ new = [Empty EXCEPT !.rest = 1]
      \/ content \notin {Missing, Broken} /\ new = [content EXCEPT !.rest = 1 - @]
      \/ /\ content \notin {Missing, Broken}
         /\ \E hook \in Hooks : new = [content EXCEPT !.entries = Append(@, <<hook>>)]
  BY DEF Rewrites
<1>. QED BY <1>1, <1>2, <1>3, <1>4, <1>5 DEF Contents

-----------------------------------------------------------------------------
(* The invariant is inductive.                                             *)

\* More backups keep what is kept, and hold what is held.
LEMMA MoreBackups ==
  ASSUME NEW a, NEW mine, NEW content, NEW copies, NEW more, copies \subseteq more
  PROVE  /\ KeptFor(a, mine, content, copies) => KeptFor(a, mine, content, more)
         /\ \A stands : HeldFor(a, mine, stands, content, copies) =>
              HeldFor(a, mine, stands, content, more)
BY DEF KeptFor, HeldFor

\* No other command than p moves, and the user does nothing.
OnlyMoves(p) ==
  /\ \A q \in Commands : q # p =>
       pc'[q] = pc[q] /\ left'[q] = left[q] /\ read'[q] = read[q]
  /\ owned' = owned /\ raced' = raced

\* Then it is enough to look at p and at the files.
LEMMA OneMoves ==
  ASSUME NEW p \in Commands, Inv, OnlyMoves(p), Typed', HookedOnce',
         backups \subseteq backups',
         \A a \in Agents \ raced : KeptFor(a, owned[a], file'[a], backups'),
         Holds(p, pc'[p], left'[p], read'[p]),
         pc'[p] \in Holding => \A a \in Agents \ raced : Head(left'[p]) = a =>
           HeldFor(a, owned[a], pc'[p], read'[p], backups')
  PROVE  Inv'
<1>1. ASSUME NEW q \in Commands PROVE Holds(q, pc'[q], left'[q], read'[q])
  BY <1>1 DEF OnlyMoves, Inv
<1>2. ASSUME NEW a \in Agents \ raced', NEW q \in Commands,
             pc'[q] \in Holding, Agent(q)' = a
      PROVE  HeldFor(a, owned'[a], pc'[q], read'[q], backups')
  <2>1. a \in Agents \ raced /\ owned'[a] = owned[a] /\ Head(left'[q]) = a
    BY <1>2 DEF OnlyMoves, Agent
  <2>2. CASE q = p
    BY <1>2, <2>1, <2>2
  <2>3. CASE q # p
    <3>1. pc'[q] = pc[q] /\ left'[q] = left[q] /\ read'[q] = read[q]
      BY <2>3 DEF OnlyMoves
    <3>2. HeldFor(a, owned[a], pc[q], read[q], backups)
      BY <1>2, <2>1, <3>1 DEF Inv, Agent
    <3>. QED BY <2>1, <3>1, <3>2, MoreBackups
  <2>. QED BY <2>2, <2>3
<1>3. \A a \in Agents \ raced' : KeptFor(a, owned'[a], file'[a], backups')
  BY DEF OnlyMoves
<1>. QED BY <1>1, <1>2, <1>3 DEF Inv

\* A command that does not come to hold anything leaves all as it is.
LEMMA StandsAside ==
  ASSUME NEW p \in Commands, Inv, OnlyMoves(p), Typed', file' = file, backups' = backups,
         pc'[p] \notin Holding
  PROVE  Inv'
<1>1. HookedOnce'
  BY DEF Inv, HookedOnce
<1>2. \A a \in Agents \ raced : KeptFor(a, owned[a], file'[a], backups')
  BY DEF Inv
<1>3. Holds(p, pc'[p], left'[p], read'[p])
  BY DEF Holds
<1>. QED BY <1>1, <1>2, <1>3, OneMoves

\* At first nothing is held, and the files are the user's.
LEMMA InitInv == Init => Inv
<1>. SUFFICES ASSUME Init PROVE Inv
  OBVIOUS
<1>1. \A a \in Agents : file[a] \in InitialFiles /\ owned[a] = file[a]
  BY DEF Init
<1>2. \A content \in InitialFiles :
        content \in Contents /\ (IsDocument(content) => HookedAtMostOnce(content))
  BY InitialAssumption DEF Contents, IsDocument
<1>3. Typed
  <2>1. left \in [Commands -> Seq(Agents)]
    BY CommandAssumption DEF Init
  <2>. QED BY <1>1, <1>2, <2>1 DEF Init, Typed
<1>4. HookedOnce
  BY <1>1, <1>2 DEF HookedOnce
<1>5. \A p \in Commands : pc[p] \notin Holding
  BY DEF Init, Holding
<1>6. ASSUME NEW a \in Agents PROVE KeptFor(a, owned[a], file[a], backups)
  BY <1>1 DEF KeptFor, IsDocument, DocumentOf
<1>. QED BY <1>3, <1>4, <1>5, <1>6 DEF Inv, Holds

\* What a command reads when it goes on with a file is the user's.
LEMMA ReadsUsers ==
  ASSUME Inv, NEW a \in Agents \ raced, file[a] # Broken, NEW stands,
         stands # "backup" => file[a] = Missing
  PROVE  HeldFor(a, owned[a], stands, file[a], backups)
<1>1. KeptFor(a, owned[a], file[a], backups)
  BY DEF Inv
<1>2. CASE file[a] = Missing
  BY <1>1, <1>2, ContentAssumption DEF KeptFor, HeldFor, DocumentOf
<1>3. CASE file[a] # Missing
  BY <1>1, <1>3 DEF KeptFor, HeldFor, DocumentOf, IsDocument
<1>. QED BY <1>2, <1>3

\* What was typed stays typed when one command moves on.
LEMMA MovesTyped ==
  ASSUME NEW p \in Commands, Inv, NEW stands,
         stands \in Holding \cup {"start", "read", "openConfig", "writeConfig", "done"},
         pc' = [pc EXCEPT ![p] = stands],
         \/ left' = left
         \/ left[p] # <<>> /\ left' = [left EXCEPT ![p] = Tail(@)],
         read' = read \/ \E content : read' = [read EXCEPT ![p] = content],
         UNCHANGED <<owned, raced>>,
         file' \in [Agents -> Contents], backups' \subseteq Agents \X Document
  PROVE  Typed' /\ OnlyMoves(p) /\ pc'[p] = stands
<1>1. Typed
  BY DEF Inv
<1>2. /\ left' \in [Commands -> Seq(Agents)]
      /\ \A q \in Commands : q # p => left'[q] = left[q]
  <2>1. left \in [Commands -> Seq(Agents)] /\ left[p] \in Seq(Agents)
    BY <1>1 DEF Typed
  <2>2. CASE left' = left
    BY <2>1, <2>2
  <2>3. CASE left[p] # <<>> /\ left' = [left EXCEPT ![p] = Tail(@)]
    <3>1. Tail(left[p]) \in Seq(Agents)
      BY <2>1, <2>3
    <3>. QED BY <2>1, <2>3, <3>1
  <2>. QED BY <2>2, <2>3
<1>3. DOMAIN read' = Commands /\ \A q \in Commands : q # p => read'[q] = read[q]
  BY <1>1 DEF Typed
<1>4. /\ pc' \in [Commands -> Holding \cup {"start", "read", "openConfig", "writeConfig", "done"}]
      /\ pc'[p] = stands /\ \A q \in Commands : q # p => pc'[q] = pc[q]
  BY <1>1 DEF Typed
<1>5. owned' \in [Agents -> Contents] /\ raced' \subseteq Agents
  BY <1>1 DEF Typed
<1>. QED BY <1>2, <1>3, <1>4, <1>5 DEF Typed, OnlyMoves

\* Every step of a command keeps the invariant.
LEMMA CommandInv ==
  ASSUME NEW p \in Commands, Inv, CommandStep(p) \/ Crash(p)
  PROVE  Inv'
<1>. USE DEF history
<1>1. Typed /\ Holds(p, pc[p], left[p], read[p])
  BY DEF Inv
<1>2. file \in [Agents -> Contents] /\ backups \subseteq Agents \X Document
  BY <1>1 DEF Typed
<1>3. ASSUME pc[p] \in Holding
      PROVE  /\ Agent(p) \in Agents /\ left[p] # <<>>
             /\ read[p] \in Document \cup {Missing}
             /\ Changes(p, DocumentOf(read[p]))
             /\ HookedAtMostOnce(DocumentOf(read[p]))
             /\ Agent(p) \notin raced =>
                  HeldFor(Agent(p), owned[Agent(p)], pc[p], read[p], backups)
  <2>1. left[p] \in Seq(Agents) /\ left[p] # <<>>
    BY <1>1, <1>3 DEF Typed, Holds
  <2>2. Head(left[p]) \in Agents
    BY <2>1
  <2>. QED BY <1>1, <1>3, <2>1, <2>2 DEF Holds, Inv, Agent
<1>4. CASE Start(p)
  <2>. DEFINE stands == pc'[p]
  <2>1. pc' = [pc EXCEPT ![p] = stands] /\ stands \in {"read", "done"}
    BY <1>1, <1>4 DEF Start, Typed
  <2>2. left' = left /\ read' = read /\ owned' = owned /\ raced' = raced
        /\ file' = file /\ backups' = backups
    BY <1>4 DEF Start
  <2>3. Typed' /\ OnlyMoves(p)
    BY <1>2, <2>1, <2>2, MovesTyped
  <2>4. stands \notin Holding
    BY <2>1 DEF Holding
  <2>. QED BY <2>2, <2>3, <2>4, StandsAside
<1>5. CASE ReadFile(p)
  <2>. DEFINE a == Agent(p)
  <2>1. file' = file /\ backups' = backups /\ owned' = owned /\ raced' = raced
    BY <1>5 DEF ReadFile
  <2>2. a \in Agents /\ left[p] # <<>>
    <3>1. left[p] \in Seq(Agents) /\ left[p] # <<>>
      BY <1>1, <1>5 DEF Typed, ReadFile
    <3>. QED BY <3>1 DEF Agent
  <2>3. CASE NextAgent(p) /\ UNCHANGED read
    <3>1. Typed' /\ OnlyMoves(p) /\ pc'[p] = "read"
      BY <1>2, <2>1, <2>2, <2>3, MovesTyped DEF NextAgent
    <3>2. "read" \notin Holding
      BY DEF Holding
    <3>. QED BY <2>1, <3>1, <3>2, StandsAside
  <2>4. CASE ~(NextAgent(p) /\ UNCHANGED read)
    <3>. DEFINE stands == IF file[a] = Missing THEN "open" ELSE "backup"
    <3>1. /\ file[a] # Broken /\ Changes(p, DocumentOf(file[a]))
          /\ read' = [read EXCEPT ![p] = file[a]]
          /\ pc' = [pc EXCEPT ![p] = stands] /\ left' = left
      BY <1>5, <2>4 DEF ReadFile, DocumentOf
    <3>2. stands \in Holding /\ (stands # "backup" => file[a] = Missing)
          /\ (stands = "backup" => file[a] # Missing)
      BY DEF Holding
    <3>. HIDE DEF stands
    <3>3. Typed' /\ OnlyMoves(p) /\ pc'[p] = stands
      BY <1>2, <2>1, <3>1, <3>2, MovesTyped
    <3>4. read'[p] = file[a] /\ left'[p] = left[p]
      BY <1>1, <3>1 DEF Typed
    <3>5. file[a] \in Document \cup {Missing}
      BY <1>2, <2>2, <3>1 DEF Contents
    <3>6. HookedAtMostOnce(DocumentOf(file[a]))
      BY <2>2, <3>1, EmptyIsDocument DEF Inv, HookedOnce, IsDocument, DocumentOf
    <3>7. Holds(p, pc'[p], left'[p], read'[p])
      BY <2>2, <3>1, <3>2, <3>3, <3>4, <3>5, <3>6 DEF Holds
    <3>8. \A b \in Agents \ raced : Head(left'[p]) = b =>
            HeldFor(b, owned[b], pc'[p], read'[p], backups')
      BY <2>1, <3>1, <3>2, <3>3, <3>4, ReadsUsers DEF Agent
    <3>9. HookedOnce' /\ \A b \in Agents \ raced : KeptFor(b, owned[b], file'[b], backups')
      BY <2>1 DEF Inv, HookedOnce
    <3>. QED BY <2>1, <3>3, <3>7, <3>8, <3>9, OneMoves
  <2>. QED BY <2>3, <2>4
<1>6. CASE GiveUp(p)
  <2>1. left[p] # <<>>
    BY <1>3, <1>6 DEF GiveUp, Holding
  <2>2. Typed' /\ OnlyMoves(p) /\ pc'[p] = "read"
    BY <1>2, <1>6, <2>1, MovesTyped DEF GiveUp, NextAgent
  <2>3. "read" \notin Holding /\ file' = file /\ backups' = backups
    BY <1>6 DEF Holding, GiveUp
  <2>. QED BY <2>2, <2>3, StandsAside
<1>7. CASE Backup(p)
  <2>. DEFINE a == Agent(p)
  <2>1. pc[p] = "backup" /\ pc[p] \in Holding
    BY <1>7 DEF Backup, Holding
  <2>2. read[p] \in Document /\ read[p] # Missing /\ a \in Agents
    <3>1. read[p] # Missing
      BY <1>1, <2>1 DEF Holds
    <3>. QED BY <1>3, <2>1, <3>1
  <2>3. /\ pc' = [pc EXCEPT ![p] = "open"] /\ left' = left /\ read' = read
        /\ file' = file /\ owned' = owned /\ raced' = raced
        /\ backups' = backups \cup {<<a, read[p]>>}
    BY <1>7 DEF Backup
  <2>4. backups' \subseteq Agents \X Document /\ backups \subseteq backups'
        /\ <<a, read[p]>> \in backups'
    BY <1>2, <2>2, <2>3
  <2>5. Typed' /\ OnlyMoves(p) /\ pc'[p] = "open"
    BY <1>2, <2>3, <2>4, MovesTyped DEF Holding
  <2>6. "open" \in Holding
    BY DEF Holding
  <2>7. Holds(p, pc'[p], left'[p], read'[p])
    BY <1>1, <2>1, <2>3, <2>5 DEF Holds
  <2>8. \A b \in Agents \ raced : Head(left'[p]) = b =>
          HeldFor(b, owned[b], pc'[p], read'[p], backups')
    BY <1>3, <2>1, <2>3, <2>4 DEF HeldFor, Agent
  <2>9. HookedOnce' /\ \A b \in Agents \ raced : KeptFor(b, owned[b], file'[b], backups')
    BY <2>3, <2>4, MoreBackups DEF Inv, HookedOnce
  <2>. QED BY <2>4, <2>5, <2>7, <2>8, <2>9, OneMoves
<1>8. CASE Open(p)
  <2>. DEFINE a == Agent(p)
  <2>1. pc[p] = "open" /\ pc[p] \in Holding
    BY <1>8 DEF Open, Holding
  <2>2. a \in Agents /\ read[p] \in Document \cup {Missing}
    BY <1>3, <2>1
  <2>3. /\ pc' = [pc EXCEPT ![p] = "write"] /\ left' = left /\ read' = read
        /\ file' = [file EXCEPT ![a] = Broken] /\ owned' = owned /\ raced' = raced
        /\ backups' = backups
    BY <1>8 DEF Open
  <2>4. file' \in [Agents -> Contents] /\ file'[a] = Broken
        /\ \A b \in Agents : b # a => file'[b] = file[b]
    BY <1>2, <2>2, <2>3 DEF Contents
  <2>5. Typed' /\ OnlyMoves(p) /\ pc'[p] = "write"
    BY <1>2, <2>3, <2>4, MovesTyped DEF Holding
  <2>6. Holds(p, pc'[p], left'[p], read'[p])
    BY <1>1, <2>1, <2>3, <2>5 DEF Holds
  <2>7. \A b \in Agents \ raced : Head(left'[p]) = b =>
          HeldFor(b, owned[b], pc'[p], read'[p], backups')
    BY <1>3, <2>1, <2>3 DEF HeldFor, Agent
  <2>8. HookedOnce'
    BY <2>4 DEF Inv, HookedOnce, IsDocument
  <2>9. ASSUME NEW b \in Agents \ raced PROVE KeptFor(b, owned[b], file'[b], backups')
    <3>1. CASE b # a
      BY <2>3, <2>4, <3>1 DEF Inv
    <3>2. CASE b = a
      <4>1. HeldFor(a, owned[a], pc[p], read[p], backups)
        BY <1>3, <2>1, <2>9, <3>2
      <4>2. owned[a] # Missing => /\ <<a, read[p]>> \in backups
                                  /\ read[p] \in Document /\ owned[a] # Broken
                                  /\ UsersOwn(read[p]) = UsersOwn(owned[a])
        BY <2>1, <2>2, <4>1 DEF HeldFor, DocumentOf
      <4>. QED BY <2>3, <2>4, <3>2, <4>1, <4>2, ContentAssumption DEF KeptFor, IsDocument, HeldFor
    <3>. QED BY <3>1, <3>2
  <2>. QED BY <2>3, <2>5, <2>6, <2>7, <2>8, <2>9, OneMoves
<1>9. CASE WriteFile(p)
  <2>. DEFINE a == Agent(p)
              doc == DocumentOf(read[p])
  <2>1. pc[p] = "write" /\ pc[p] \in Holding
    BY <1>9 DEF WriteFile, Holding
  <2>2. a \in Agents /\ doc \in Document /\ Changes(p, doc) /\ left[p] # <<>>
    BY <1>3, <2>1, EmptyIsDocument
  <2>3. PICK content \in {Edited(p, doc), Broken} : file' = [file EXCEPT ![a] = content]
    BY <1>9 DEF WriteFile, DocumentOf
  <2>4. NextAgent(p) /\ read' = read /\ owned' = owned /\ raced' = raced /\ backups' = backups
    BY <1>9 DEF WriteFile
  <2>5. /\ Edited(p, doc) \in Document /\ HookedAtMostOnce(Edited(p, doc))
        /\ UsersOwn(Edited(p, doc)) = UsersOwn(doc)
    BY <2>2, EditedKeepsUsers
  <2>6. file' \in [Agents -> Contents] /\ file'[a] = content
        /\ \A b \in Agents : b # a => file'[b] = file[b]
    BY <1>2, <2>2, <2>3, <2>5 DEF Contents
  <2>7. Typed' /\ OnlyMoves(p) /\ pc'[p] = "read"
    BY <1>2, <2>2, <2>4, <2>6, MovesTyped DEF NextAgent
  <2>8. pc'[p] \notin Holding /\ Holds(p, pc'[p], left'[p], read'[p])
    BY <2>7 DEF Holding, Holds
  <2>9. HookedOnce'
    BY <2>3, <2>5, <2>6 DEF Inv, HookedOnce, IsDocument
  <2>10. ASSUME NEW b \in Agents \ raced PROVE KeptFor(b, owned[b], file'[b], backups')
    <3>1. CASE b # a
      BY <2>4, <2>6, <3>1 DEF Inv
    <3>2. CASE b = a
      <4>1. HeldFor(a, owned[a], pc[p], read[p], backups)
        BY <1>3, <2>1, <2>10, <3>2
      <4>2. CASE content = Edited(p, doc)
        <5>1. content # Missing /\ content # Broken
          BY <2>5, <4>2, ContentAssumption
        <5>2. UsersOwn(content) = UsersOwn(DocumentOf(owned[a]))
          BY <2>5, <4>1, <4>2 DEF HeldFor
        <5>. QED BY <2>6, <3>2, <4>1, <5>1, <5>2 DEF KeptFor, IsDocument, HeldFor
      <4>3. CASE content = Broken
        <5>1. owned[a] # Missing => /\ <<a, read[p]>> \in backups
                                    /\ read[p] \in Document
                                    /\ UsersOwn(read[p]) = UsersOwn(owned[a])
          BY <1>3, <2>1, <4>1 DEF HeldFor, DocumentOf
        <5>. QED BY <2>4, <2>6, <3>2, <4>1, <4>3, <5>1, ContentAssumption
               DEF KeptFor, IsDocument, HeldFor
      <4>. QED BY <2>3, <4>2, <4>3
    <3>. QED BY <3>1, <3>2
  <2>. QED BY <2>4, <2>7, <2>8, <2>9, <2>10, OneMoves
<1>10. CASE ReadConfig(p) \/ OpenConfig(p) \/ WriteConfig(p) \/ Crash(p)
  <2>1. PICK stands \in {"openConfig", "writeConfig", "done"} :
          pc' = [pc EXCEPT ![p] = stands]
    BY <1>10 DEF ReadConfig, OpenConfig, WriteConfig, Crash
  <2>2. left' = left /\ file' = file /\ backups' = backups /\ owned' = owned /\ raced' = raced
    BY <1>10 DEF ReadConfig, OpenConfig, WriteConfig, Crash
  <2>3. read' = read \/ \E content : read' = [read EXCEPT ![p] = content]
    BY <1>10 DEF ReadConfig, OpenConfig, WriteConfig, Crash
  <2>4. Typed' /\ OnlyMoves(p) /\ pc'[p] = stands
    BY <1>2, <2>1, <2>2, <2>3, MovesTyped
  <2>5. stands \notin Holding
    BY DEF Holding
  <2>. QED BY <2>2, <2>4, <2>5, StandsAside
<1>. QED BY <1>4, <1>5, <1>6, <1>7, <1>8, <1>9, <1>10 DEF CommandStep

\* So does an edit of the user's: a file that is in a command's hands is noted
\* as raced, and any other is the user's again.
LEMMA EditInv ==
  ASSUME NEW a \in Agents, Inv, Edit(a)
  PROVE  Inv'
<1>1. Typed
  BY DEF Inv
<1>2. PICK content \in Rewrites(file[a]) :
        file' = [file EXCEPT ![a] = content] /\ owned' = [owned EXCEPT ![a] = content]
  BY DEF Edit
<1>3. pc' = pc /\ left' = left /\ read' = read /\ backups' = backups
  BY DEF Edit
<1>4. /\ raced \subseteq raced' /\ raced' \subseteq Agents
      /\ a \notin raced' => ~InHand(a)
  BY <1>1 DEF Edit, Typed
<1>5. content \in Contents /\ (IsDocument(content) => HookedAtMostOnce(content))
  <2>1. file[a] \in Contents /\ (IsDocument(file[a]) => HookedAtMostOnce(file[a]))
    BY <1>1 DEF Typed, Inv, HookedOnce
  <2>. QED BY <2>1, RewritesHookNothing
<1>6. /\ file' \in [Agents -> Contents] /\ owned' \in [Agents -> Contents]
      /\ file'[a] = content /\ owned'[a] = content
      /\ \A b \in Agents : b # a => file'[b] = file[b] /\ owned'[b] = owned[b]
  BY <1>1, <1>2, <1>5 DEF Typed
<1>7. Typed'
  BY <1>1, <1>3, <1>4, <1>6 DEF Typed
<1>8. HookedOnce'
  BY <1>5, <1>6 DEF Inv, HookedOnce
<1>9. \A p \in Commands : Holds(p, pc'[p], left'[p], read'[p])
  BY <1>3 DEF Inv
<1>10. ASSUME NEW b \in Agents \ raced'
       PROVE  KeptFor(b, owned'[b], file'[b], backups')
  <2>1. CASE b = a
    BY <1>6, <2>1 DEF KeptFor, IsDocument, DocumentOf
  <2>2. CASE b # a
    BY <1>3, <1>4, <1>6, <2>2 DEF Inv
  <2>. QED BY <2>1, <2>2
<1>11. ASSUME NEW b \in Agents \ raced', NEW p \in Commands, pc'[p] \in Holding, Agent(p)' = b
       PROVE  HeldFor(b, owned'[b], pc'[p], read'[p], backups')
  <2>1. pc[p] \in Holding /\ Agent(p) = b
    BY <1>3, <1>11 DEF Agent
  <2>2. b # a
    BY <1>4, <1>11, <2>1 DEF InHand, Holding
  <2>. QED BY <1>3, <1>4, <1>6, <2>1, <2>2 DEF Inv
<1>. QED BY <1>7, <1>8, <1>9, <1>10, <1>11 DEF Inv

\* Every step keeps the invariant.
LEMMA NextInv == Inv /\ [Next]_vars => Inv'
<1>. SUFFICES ASSUME Inv, [Next]_vars PROVE Inv'
  OBVIOUS
<1>1. CASE Next
  BY <1>1, CommandInv, EditInv DEF Next
<1>2. CASE UNCHANGED vars
  BY <1>2 DEF vars, Inv, Typed, HookedOnce, Agent
<1>. QED BY <1>1, <1>2

\* So it always holds.
LEMMA InvHolds == Spec => []Inv
<1>1. Init => Inv
  BY InitInv
<1>2. Inv /\ [Next]_vars => Inv'
  BY NextInv
<1>. QED BY <1>1, <1>2, PTL DEF Spec

-----------------------------------------------------------------------------
(* What it says of the files.                                              *)

\* Whatever commands run, overlap, fail or are killed, a file that can be read
\* holds the user's hooks and settings, or else a backup holds them
\* (hooks/claude.ts:122-142, 150-167).
THEOREM UsersContentKeptTheorem == Spec => []UsersContentKept
<1>1. Inv => UsersContentKept
  <2>. SUFFICES ASSUME Inv, NEW a \in Agents \ raced
                PROVE  CASE owned[a] = Broken  -> file[a] = Broken
                         [] owned[a] = Missing -> IsDocument(file[a]) =>
                                                    UsersOwn(file[a]) = UsersOwn(Empty)
                         [] OTHER -> IF IsDocument(file[a])
                                     THEN UsersOwn(file[a]) = UsersOwn(owned[a])
                                     ELSE \E b \in backups :
                                            /\ b[1] = a
                                            /\ UsersOwn(b[2]) = UsersOwn(owned[a])
    BY DEF UsersContentKept
  <2>1. KeptFor(a, owned[a], file[a], backups)
    BY DEF Inv
  <2>2. CASE owned[a] = Broken
    BY <2>1, <2>2, ContentAssumption DEF KeptFor
  <2>3. CASE owned[a] = Missing
    BY <2>1, <2>3, ContentAssumption DEF KeptFor, DocumentOf
  <2>4. CASE owned[a] # Broken /\ owned[a] # Missing
    <3>1. CASE IsDocument(file[a])
      BY <2>1, <2>4, <3>1 DEF KeptFor, DocumentOf
    <3>2. CASE ~IsDocument(file[a])
      <4>1. PICK doc \in Document : <<a, doc>> \in backups /\ UsersOwn(doc) = UsersOwn(owned[a])
        BY <2>1, <2>4, <3>2 DEF KeptFor, IsDocument
      <4>2. \E b \in backups : b[1] = a /\ UsersOwn(b[2]) = UsersOwn(owned[a])
        BY <4>1
      <4>. QED BY <2>4, <3>2, <4>2
    <3>. QED BY <3>1, <3>2
  <2>. QED BY <2>2, <2>3, <2>4
<1>. QED BY <1>1, InvHolds, PTL

\* Installed twice, or by two commands at once, our hook is in a file at most
\* once (hooks/claude.ts:12-20).
THEOREM HookedOnceTheorem == Spec => []HookedOnce
<1>1. Inv => HookedOnce
  BY DEF Inv
<1>. QED BY <1>1, InvHolds, PTL
=============================================================================
