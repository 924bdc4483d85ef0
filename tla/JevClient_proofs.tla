-------------------------- MODULE JevClient_proofs --------------------------
(***************************************************************************)
(* Proofs about SemanticRun and JevClient.  For any number of runs,         *)
(* candidates and batches: which answers decide, how often an item is asked *)
(* about and decided, and that the cache hands nothing on that was not      *)
(* answered.  With the client below it, a run takes the steps of            *)
(* SemanticRun and no other, so all of this holds of it; what is posted     *)
(* about an item is bounded; and no item is dropped on a missing            *)
(* confidence.                                                             *)
(***************************************************************************)
EXTENDS JevClient, IndexLemmas

-----------------------------------------------------------------------------
(* Sequences.                                                              *)

\* The first element of a sequence without repetitions, and the others.
LEMMA HeadAndTail ==
  ASSUME NEW S, NEW s \in Seq(S), s # <<>>, IsInjective(s)
  PROVE  /\ Head(s) \in S /\ Head(s) \in ToSet(s)
         /\ Tail(s) \in Seq(S) /\ IsInjective(Tail(s))
         /\ ToSet(Tail(s)) = ToSet(s) \ {Head(s)}
         /\ Len(Tail(s)) = Len(s) - 1
<1>1. /\ Len(s) \in Nat /\ Len(s) >= 1 /\ DOMAIN s = 1 .. Len(s)
      /\ Head(s) = s[1] /\ Head(s) \in S
      /\ Tail(s) \in Seq(S) /\ Len(Tail(s)) = Len(s) - 1
      /\ DOMAIN Tail(s) = 1 .. Len(s) - 1
      /\ \A n \in 1 .. Len(s) - 1 : Tail(s)[n] = s[n + 1]
  OBVIOUS
<1>. DEFINE t == Tail(s)  h == Head(s)  N == Len(s)
<1>. HIDE DEF t, h, N
<1>2. IsInjective(t)
  <2>1. ASSUME NEW j \in 1 .. N - 1, NEW k \in 1 .. N - 1, t[j] = t[k] PROVE j = k
    <3>1. j + 1 \in DOMAIN s /\ k + 1 \in DOMAIN s /\ s[j + 1] = s[k + 1]
      BY <1>1, <2>1 DEF t, N
    <3>2. j + 1 = k + 1
      BY <3>1 DEF IsInjective
    <3>. QED BY <3>2, <1>1 DEF N
  <2>. QED BY <1>1, <2>1 DEF IsInjective, t, N
<1>3. h \in ToSet(s)
  BY <1>1 DEF ToSet, h
<1>4. ASSUME NEW x PROVE x \in ToSet(t) <=> x \in ToSet(s) /\ x # h
  <2>1. ASSUME x \in ToSet(t) PROVE x \in ToSet(s) /\ x # h
    <3>1. PICK n \in 1 .. N - 1 : x = t[n]
      BY <2>1, <1>1 DEF ToSet, t, N
    <3>2. n + 1 \in DOMAIN s /\ n + 1 # 1 /\ 1 \in DOMAIN s /\ x = s[n + 1]
      BY <3>1, <1>1 DEF t, N
    <3>. QED BY <3>2, <1>1 DEF ToSet, IsInjective, h
  <2>2. ASSUME x \in ToSet(s), x # h PROVE x \in ToSet(t)
    <3>1. PICK n \in 1 .. N : x = s[n]
      BY <2>2, <1>1 DEF ToSet, N
    <3>2. n # 1
      BY <2>2, <3>1, <1>1 DEF h
    <3>3. n - 1 \in 1 .. N - 1 /\ n - 1 + 1 = n
      BY <3>2, <1>1 DEF N
    <3>4. t[n - 1] = x
      BY <3>1, <3>3, <1>1 DEF t, N
    <3>. QED BY <3>3, <3>4, <1>1 DEF ToSet, t, N
  <2>. QED BY <2>1, <2>2
<1>5. ToSet(t) = ToSet(s) \ {h}
  BY <1>4
<1>. QED BY <1>1, <1>2, <1>3, <1>5 DEF t, h, N

\* One element more.
LEMMA OneMore ==
  ASSUME NEW S, NEW s \in Seq(S), NEW x \in S
  PROVE  /\ Append(s, x) \in Seq(S) /\ Len(Append(s, x)) = Len(s) + 1
         /\ ToSet(Append(s, x)) = ToSet(s) \cup {x}
         /\ IsInjective(s) /\ x \notin ToSet(s) => IsInjective(Append(s, x))
<1>. DEFINE t == Append(s, x)  N == Len(s)
<1>1. /\ N \in Nat /\ DOMAIN s = 1 .. N
      /\ t \in Seq(S) /\ Len(t) = N + 1 /\ DOMAIN t = 1 .. N + 1
      /\ t[N + 1] = x /\ \A n \in 1 .. N : t[n] = s[n]
  OBVIOUS
<1>. HIDE DEF t, N
<1>2. \A n \in 1 .. N + 1 : n \in 1 .. N \/ n = N + 1
  BY <1>1
<1>3. 1 .. N \subseteq 1 .. N + 1 /\ N + 1 \in 1 .. N + 1
  BY <1>1
<1>4. ToSet(t) = ToSet(s) \cup {x}
  BY <1>1, <1>2, <1>3 DEF ToSet
<1>5. ASSUME IsInjective(s), x \notin ToSet(s) PROVE IsInjective(t)
  <2>1. \A n \in 1 .. N : s[n] # x
    BY <1>5, <1>1 DEF ToSet
  <2>. QED BY <1>5, <2>1, <1>1, <1>2 DEF IsInjective
<1>. QED BY <1>1, <1>4, <1>5 DEF t, N

\* s falls into u, its first n elements, and v.
Halves(u, v, s, n) ==
  /\ u \in Seq(Items) /\ IsInjective(u) /\ Len(u) = n
  /\ v \in Seq(Items) /\ IsInjective(v) /\ Len(v) = Len(s) - n
  /\ ToSet(u) \cap ToSet(v) = {}
  /\ ToSet(u) \cup ToSet(v) = ToSet(s)

\* A sequence of items without repetitions, cut in two.
LEMMA CutInTwo ==
  ASSUME NEW s \in Seq(Items), IsInjective(s), NEW n \in 1 .. Len(s),
         NEW u, u = SubSeq(s, 1, n), NEW v, v = SubSeq(s, n + 1, Len(s))
  PROVE  Halves(u, v, s, n)
<1>. DEFINE N == Len(s)
<1>1. N \in Nat /\ n \in Nat /\ n >= 1 /\ n <= N /\ DOMAIN s = 1 .. N
      /\ \A i \in 1 .. N : s[i] \in Items
  OBVIOUS
<1>2. /\ u \in Seq(Items) /\ Len(u) = n /\ DOMAIN u = 1 .. n
      /\ \A i \in 1 .. n : u[i] = s[i]
  <2>1. 1 \in Int /\ n \in Int /\ \A i \in 1 .. n : s[i] \in Items
    BY <1>1
  <2>2. /\ u \in Seq(Items)
        /\ Len(u) = IF 1 <= n THEN n - 1 + 1 ELSE 0
        /\ \A i \in 1 .. n - 1 + 1 : u[i] = s[1 + i - 1]
    BY <2>1, SubSeqProperties
  <2>3. n - 1 + 1 = n /\ \A i \in 1 .. n : 1 + i - 1 = i
    BY <1>1
  <2>4. Len(u) = n /\ \A i \in 1 .. n : u[i] = s[i]
    BY <2>2, <2>3, <1>1
  <2>. QED BY <2>2, <2>4
<1>3. /\ v \in Seq(Items) /\ Len(v) = N - n /\ DOMAIN v = 1 .. N - n
      /\ \A i \in 1 .. N - n : v[i] = s[n + i]
  <2>1. n + 1 \in Int /\ N \in Int /\ \A i \in n + 1 .. N : s[i] \in Items
    BY <1>1
  <2>2. /\ v \in Seq(Items)
        /\ Len(v) = IF n + 1 <= N THEN N - (n + 1) + 1 ELSE 0
        /\ \A i \in 1 .. N - (n + 1) + 1 : v[i] = s[(n + 1) + i - 1]
    BY <2>1, SubSeqProperties
  <2>3. (IF n + 1 <= N THEN N - (n + 1) + 1 ELSE 0) = N - n
    <3>. HIDE DEF N
    <3>1. N \in Nat /\ n \in Nat /\ n <= N
      BY <1>1
    <3>2. CASE n = N
      BY <3>1, <3>2
    <3>3. CASE n # N
      BY <3>1, <3>3
    <3>. QED BY <3>2, <3>3
  <2>4. \A i \in 1 .. N - n : i \in 1 .. N - (n + 1) + 1 /\ (n + 1) + i - 1 = n + i
    BY <1>1
  <2>. QED BY <2>2, <2>3, <2>4
<1>. HIDE DEF N
<1>4. \A i \in 1 .. n : i \in 1 .. N
  BY <1>1
<1>5. \A i \in 1 .. N - n : n + i \in 1 .. N /\ n + i \notin 1 .. n
  BY <1>1
<1>6. \A i \in 1 .. N : i \in 1 .. n \/ (i - n \in 1 .. N - n /\ n + (i - n) = i)
  BY <1>1
<1>7. IsInjective(u)
  BY <1>1, <1>2, <1>4 DEF IsInjective
<1>8. IsInjective(v)
  <2>1. ASSUME NEW j \in 1 .. N - n, NEW k \in 1 .. N - n, v[j] = v[k] PROVE j = k
    <3>1. n + j = n + k
      BY <2>1, <1>1, <1>3, <1>5 DEF IsInjective
    <3>. QED BY <3>1, <1>1
  <2>. QED BY <2>1, <1>3 DEF IsInjective
<1>9. ToSet(u) \cap ToSet(v) = {}
  BY <1>1, <1>2, <1>3, <1>4, <1>5 DEF ToSet, IsInjective
<1>10. ToSet(u) \cup ToSet(v) = ToSet(s)
  <2>1. ToSet(u) \subseteq ToSet(s) /\ ToSet(v) \subseteq ToSet(s)
    BY <1>1, <1>2, <1>3, <1>4, <1>5 DEF ToSet
  <2>2. ASSUME NEW i \in 1 .. N PROVE s[i] \in ToSet(u) \cup ToSet(v)
    <3>1. CASE i \in 1 .. n
      BY <3>1, <1>2 DEF ToSet
    <3>2. CASE i - n \in 1 .. N - n /\ n + (i - n) = i
      <4>1. s[i] = v[i - n] /\ i - n \in DOMAIN v
        BY <3>2, <1>3
      <4>. QED BY <4>1 DEF ToSet
    <3>. QED BY <3>1, <3>2, <1>6
  <2>. QED BY <2>1, <2>2, <1>1 DEF ToSet
<1>. QED BY <1>2, <1>3, <1>7, <1>8, <1>9, <1>10 DEF N, Halves

\* A batch is a first part of what there is to ask about.
LEMMA NextBatchCuts ==
  ASSUME NEW s \in Seq(Items), s # <<>>
  PROVE  \E n \in 1 .. Len(s) : NextBatch(s) = SubSeq(s, 1, n)
<1>. DEFINE fits(n) == /\ n = 1 \/ n <= BatchMaxItems
                       /\ n = 1 \/ TokensOf(SubSeq(s, 1, n)) <= BatchMaxTokens
            F == {n \in 1 .. Len(s) : fits(n)}
            m == CHOOSE k \in DOMAIN s : fits(k) /\ \A l \in DOMAIN s : fits(l) => l <= k
<1>1. Len(s) \in Nat /\ DOMAIN s = 1 .. Len(s) /\ 1 \in 1 .. Len(s)
  OBVIOUS
<1>2. F \in SUBSET (0 .. Len(s)) /\ 1 \in F
  BY <1>1
<1>3. PICK k \in F : \A l \in F : k >= l
  <2>. HIDE DEF F
  <2>. QED BY <1>1, <1>2, LastIndex
<1>4. k \in DOMAIN s /\ fits(k) /\ \A l \in DOMAIN s : fits(l) => l <= k
  <2>. HIDE DEF fits
  <2>. QED BY <1>1, <1>3
<1>5. m \in DOMAIN s
  <2>. HIDE DEF fits
  <2>. QED BY <1>4
<1>6. NextBatch(s) = SubSeq(s, 1, m)
  BY DEF NextBatch
<1>. QED BY <1>1, <1>5, <1>6

-----------------------------------------------------------------------------
(* Scores and answers.                                                     *)

\* Clamping brings any score onto the scale, and leaves one that is on it.
LEMMA ClampUnitIsOnScale ==
  /\ \A v \in Int \cup {NaN} : ClampUnit(v) \in 0 .. Unit
  /\ \A v \in 0 .. Unit : ClampUnit(v) = v
BY UnitAssumption DEF ClampUnit

\* What clamping does to an answer.
LEMMA ClampedAnswer ==
  ASSUME NEW x, IsAnswer(x)
  PROVE  /\ Clamped(x).item = x.item /\ Clamped(x).action = x.action
         /\ Clamped(x).relevance = ClampUnit(x.relevance)
         /\ Clamped(x).confidence = ClampUnit(x.confidence)
         /\ x.item \in Items /\ x.action \in {"KEEP", "COMPRESS", "DROP"}
              => Clamped(x) \in Result
<1>. DEFINE r == ClampUnit(x.relevance)  c == ClampUnit(x.confidence)
<1>1. r \in 0 .. Unit /\ c \in 0 .. Unit
  BY ClampUnitIsOnScale DEF IsAnswer
<1>2. Clamped(x) = [x EXCEPT !.relevance = r, !.confidence = c]
  BY DEF IsAnswer, Clamped
<1>. HIDE DEF r, c
<1>3. Clamped(x) = [item |-> x.item, action |-> x.action, relevance |-> r, confidence |-> c]
  BY <1>2 DEF IsAnswer
<1>. QED BY <1>1, <1>3 DEF Result, r, c

\* The thresholds yield one of the actions.
LEMMA ActionsOfThresholds ==
  \A x, y, policy : ActionFromRelevance(x, y, policy) \in {"KEEP", "COMPRESS", "DROP"}
BY DEF ActionFromRelevance

\* A result under a policy differs in its action alone, which the policy gives.
Follows(x, policy) == x.action = ActionFromRelevance(x.relevance, x.confidence, policy)

\* Applied to a result, a policy gives one that follows it.
LEMMA ResultUnderPolicy ==
  ASSUME NEW x \in Result, NEW policy
  PROVE  LET y == ApplyPolicyToResult(x, policy) IN
         /\ y \in Result /\ Follows(y, policy)
         /\ y.item = x.item /\ y.relevance = x.relevance /\ y.confidence = x.confidence
<1>. DEFINE a == ActionFromRelevance(x.relevance, x.confidence, policy)
<1>1. ClampUnit(x.relevance) = x.relevance /\ ClampUnit(x.confidence) = x.confidence
  BY ClampUnitIsOnScale DEF Result
<1>2. ApplyPolicyToResult(x, policy) = [x EXCEPT !.action = a]
  BY <1>1 DEF ApplyPolicyToResult
<1>3. a \in {"KEEP", "COMPRESS", "DROP"}
  BY ActionsOfThresholds
<1>. HIDE DEF a
<1>4. LET y == [x EXCEPT !.action = a] IN
      /\ y \in Result /\ y.action = a
      /\ y.item = x.item /\ y.relevance = x.relevance /\ y.confidence = x.confidence
  BY <1>3 DEF Result
<1>. QED BY <1>2, <1>4 DEF Follows, a

-----------------------------------------------------------------------------
(* Sequences of results.                                                   *)

ItemsOf(results) == {results[n].item : n \in DOMAIN results}
Distinct(results) ==
  \A j, k \in DOMAIN results : results[j].item = results[k].item => j = k

\* One result more.
LEMMA OneMoreResult ==
  ASSUME NEW s \in Seq(Result), NEW x \in Result
  PROVE  /\ Append(s, x) \in Seq(Result)
         /\ ToSet(Append(s, x)) = ToSet(s) \cup {x}
         /\ ItemsOf(Append(s, x)) = ItemsOf(s) \cup {x.item}
         /\ Distinct(s) /\ x.item \notin ItemsOf(s) => Distinct(Append(s, x))
<1>. DEFINE t == Append(s, x)  N == Len(s)
<1>1. /\ N \in Nat /\ DOMAIN s = 1 .. N
      /\ t \in Seq(Result) /\ Len(t) = N + 1 /\ DOMAIN t = 1 .. N + 1
      /\ t[N + 1] = x /\ \A n \in 1 .. N : t[n] = s[n]
  OBVIOUS
<1>. HIDE DEF t, N
<1>2. \A n \in 1 .. N + 1 : n \in 1 .. N \/ n = N + 1
  BY <1>1
<1>3. 1 .. N \subseteq 1 .. N + 1 /\ N + 1 \in 1 .. N + 1
  BY <1>1
<1>4. ItemsOf(t) = ItemsOf(s) \cup {x.item}
  BY <1>1, <1>2, <1>3 DEF ItemsOf
<1>5. ASSUME Distinct(s), x.item \notin ItemsOf(s) PROVE Distinct(t)
  <2>1. \A n \in 1 .. N : s[n].item # x.item
    BY <1>5, <1>1 DEF ItemsOf
  <2>. QED BY <1>5, <2>1, <1>1, <1>2 DEF Distinct
<1>6. ToSet(t) = ToSet(s) \cup {x}
  BY OneMore DEF t
<1>. QED BY <1>1, <1>4, <1>5, <1>6 DEF t, N

\* The first of different results, and the others.
LEMMA FirstResult ==
  ASSUME NEW s \in Seq(Result), s # <<>>, Distinct(s)
  PROVE  /\ Head(s) \in Result /\ Head(s) \in ToSet(s) /\ Head(s).item \in ItemsOf(s)
         /\ Tail(s) \in Seq(Result) /\ Distinct(Tail(s))
         /\ ToSet(s) = {Head(s)} \cup ToSet(Tail(s))
         /\ ItemsOf(Tail(s)) \subseteq ItemsOf(s) \ {Head(s).item}
<1>1. /\ Len(s) \in Nat /\ Len(s) >= 1 /\ DOMAIN s = 1 .. Len(s)
      /\ Head(s) = s[1] /\ Head(s) \in Result
      /\ Tail(s) \in Seq(Result) /\ Len(Tail(s)) = Len(s) - 1
      /\ DOMAIN Tail(s) = 1 .. Len(s) - 1
      /\ \A n \in 1 .. Len(s) - 1 : Tail(s)[n] = s[n + 1]
  OBVIOUS
<1>. DEFINE t == Tail(s)  h == Head(s)  N == Len(s)
<1>. HIDE DEF t, h, N
<1>2. \A n \in 1 .. N - 1 : t[n] = s[n + 1] /\ n + 1 \in DOMAIN s /\ n + 1 # 1
  BY <1>1 DEF t, N
<1>3. Distinct(t)
  <2>1. ASSUME NEW j \in 1 .. N - 1, NEW k \in 1 .. N - 1, t[j].item = t[k].item
        PROVE  j = k
    <3>1. j + 1 = k + 1
      BY <1>2, <2>1 DEF Distinct
    <3>. QED BY <3>1, <1>1 DEF N
  <2>. QED BY <1>1, <2>1 DEF Distinct, t, N
<1>4. 1 \in DOMAIN s /\ s[1] = h /\ DOMAIN t = 1 .. N - 1
  BY <1>1 DEF N, h, t
<1>5. h \in ToSet(s) /\ h.item \in ItemsOf(s)
  BY <1>4 DEF ToSet, ItemsOf
<1>6. \A n \in DOMAIN s : n = 1 \/ (n - 1 \in 1 .. N - 1 /\ n - 1 + 1 = n)
  BY <1>1 DEF N
<1>7. ToSet(s) = {h} \cup ToSet(t)
  <2>1. {h} \cup ToSet(t) \subseteq ToSet(s)
    BY <1>2, <1>4, <1>5 DEF ToSet
  <2>2. ASSUME NEW n \in DOMAIN s PROVE s[n] \in {h} \cup ToSet(t)
    <3>1. CASE n = 1
      BY <3>1, <1>4
    <3>2. CASE n - 1 \in 1 .. N - 1 /\ n - 1 + 1 = n
      <4>1. t[n - 1] = s[n] /\ n - 1 \in DOMAIN t
        BY <3>2, <1>2, <1>4
      <4>. QED BY <4>1 DEF ToSet
    <3>. QED BY <3>1, <3>2, <1>6
  <2>. QED BY <2>1, <2>2 DEF ToSet
<1>8. ItemsOf(t) \subseteq ItemsOf(s) \ {h.item}
  BY <1>2, <1>4 DEF ItemsOf, Distinct
<1>. QED BY <1>1, <1>3, <1>5, <1>7, <1>8 DEF t, h, N

-----------------------------------------------------------------------------
(* Sanitizing.                                                             *)

\* A response that is a list of answers.
IsList(answers) ==
  /\ Len(answers) \in Nat
  /\ answers = [k \in 1 .. Len(answers) |-> answers[k]]
  /\ \A k \in 1 .. Len(answers) : IsAnswer(answers[k])

\* x is the result the answer said tells of.
Says(x, said) == x.item = said[2] /\ x.relevance = said[3] /\ x.confidence = said[4]

\* What r keeps of a response about the items asked about, of all it said: results
\* about different ones of them, each something it soundly said, and all of what
\* it said of an item it mentioned once.
Heeds(r, asked, valid, said) ==
  /\ valid \in Seq(Result) /\ Distinct(valid)
  /\ ItemsOf(valid) \subseteq asked
  /\ \A x \in ToSet(valid) : \E alone \in BOOLEAN :
       <<r, x.item, x.relevance, x.confidence, alone>> \in said
  /\ said \subseteq {r} \X Items \X (0 .. Unit) \X (0 .. Unit) \X BOOLEAN
  /\ \A h \in said : h[5] => \E x \in ToSet(valid) : Says(x, h)

\* Sanitizing a list keeps just that.
LEMMA SanitizedAnswers ==
  ASSUME NEW asked \in SUBSET Items, NEW answers, IsList(answers), NEW r \in Runs
  PROVE  Heeds(r, asked, Sanitized(answers, asked), Sayings(r, answers, asked))
<1>. DEFINE valid == Sanitized(answers, asked)  said == Sayings(r, answers, asked)
<1>. DEFINE N == Len(answers)
            S == {Clamped(answers[k]) : k \in 1 .. N}
            s == [k \in DOMAIN answers |-> Clamped(answers[k])]
            repeated(k) == \E j \in 1 .. k - 1 : answers[j].item = answers[k].item
            passes == [k \in DOMAIN answers |-> ~repeated(k) /\ Valid(answers[k], asked)]
            Once(k) == \A j \in DOMAIN answers : answers[j].item = answers[k].item => j = k
            Said(k) == <<r, Clamped(answers[k]).item, Clamped(answers[k]).relevance,
                         Clamped(answers[k]).confidence, Once(k)>>
<1>1. N \in Nat /\ DOMAIN answers = 1 .. N
  BY Zenon DEF IsList
<1>2. s \in Seq(S) /\ Len(s) = N /\ \A k \in 1 .. N : s[k] = Clamped(answers[k])
  BY <1>1
<1>3. passes \in [1 .. N -> BOOLEAN]
  BY <1>1
<1>4. valid = Kept(s, passes)
  BY DEF Sanitized
<1>5. \A k \in 1 .. N : passes[k] <=> (~repeated(k) /\ Valid(answers[k], asked))
  BY <1>1
<1>6. \A k \in 1 .. N : Valid(answers[k], asked) => Clamped(answers[k]) \in Result
  BY ClampedAnswer DEF Valid, IsList
<1>7. \A h : h \in said <=> \E k \in 1 .. N : Valid(answers[k], asked) /\ h = Said(k)
  BY <1>1 DEF Sayings, Valid
<1>. HIDE DEF s, passes, N, S, Said, valid, said
<1>8. PICK at : Selects(at, valid, s, passes, N)
  BY <1>2, <1>3, <1>4, KeptSelects
<1>9. valid \in Seq(S)
  BY <1>2, <1>3, <1>4, KeptSelects
<1>10. \A j \in 1 .. Len(valid) :
         /\ at[j] \in 1 .. N /\ valid[j] = Clamped(answers[at[j]])
         /\ ~repeated(at[j]) /\ Valid(answers[at[j]], asked)
  BY <1>2, <1>5, <1>8 DEF Selects
<1>11. /\ Len(valid) \in Nat /\ DOMAIN valid = 1 .. Len(valid)
       /\ \A j \in 1 .. Len(valid) :
            valid[j] \in Result /\ valid[j].item = answers[at[j]].item
  <2>1. ASSUME NEW j \in 1 .. Len(valid)
        PROVE  valid[j] \in Result /\ valid[j].item = answers[at[j]].item
    <3>1. IsAnswer(answers[at[j]])
      BY <1>10 DEF N, IsList
    <3>. QED BY <1>6, <1>10, <3>1, ClampedAnswer
  <2>. QED BY <1>9, <2>1
<1>12. valid \in Seq(Result)
  BY <1>9, <1>11
<1>13. Distinct(valid)
  <2>1. ASSUME NEW j \in 1 .. Len(valid), NEW k \in 1 .. Len(valid),
               valid[j].item = valid[k].item, j < k
        PROVE  FALSE
    <3>1. answers[at[j]].item = answers[at[k]].item
      BY <1>11, <2>1
    <3>2. at[j] < at[k] /\ at[j] \in 1 .. N /\ at[k] \in 1 .. N
      BY <1>8, <1>10, <2>1 DEF Selects
    <3>3. at[j] \in 1 .. at[k] - 1
      BY <3>2, <1>1
    <3>4. repeated(at[k])
      BY <3>1, <3>3
    <3>. QED BY <3>4, <1>10
  <2>2. \A j, k \in 1 .. Len(valid) : j < k \/ k < j \/ j = k
    BY <1>11
  <2>. HIDE DEF repeated
  <2>. QED BY <1>11, <2>1, <2>2 DEF Distinct
<1>14. ItemsOf(valid) \subseteq asked
  BY <1>10, <1>11 DEF ItemsOf, Valid
<1>15. ASSUME NEW j \in 1 .. Len(valid)
       PROVE  \E alone \in BOOLEAN :
                <<r, valid[j].item, valid[j].relevance, valid[j].confidence, alone>> \in said
  <2>1. /\ Said(at[j]) = <<r, valid[j].item, valid[j].relevance, valid[j].confidence,
                           Once(at[j])>>
        /\ Once(at[j]) \in BOOLEAN
    BY <1>10 DEF Said
  <2>2. Said(at[j]) \in said
    BY <1>7, <1>10
  <2>. HIDE DEF Once
  <2>. QED BY <2>1, <2>2
<1>16. said \subseteq {r} \X Items \X (0 .. Unit) \X (0 .. Unit) \X BOOLEAN
  <2>1. ASSUME NEW k \in 1 .. N, Valid(answers[k], asked)
        PROVE  Said(k) \in {r} \X Items \X (0 .. Unit) \X (0 .. Unit) \X BOOLEAN
    <3>1. /\ Clamped(answers[k]).item \in Items
          /\ Clamped(answers[k]).relevance \in 0 .. Unit
          /\ Clamped(answers[k]).confidence \in 0 .. Unit
      BY <1>6, <2>1 DEF Result
    <3>2. Once(k) \in BOOLEAN
      OBVIOUS
    <3>. HIDE DEF Once
    <3>. QED BY <3>1, <3>2 DEF Said
  <2>. QED BY <1>7, <2>1
<1>17. ASSUME NEW h \in said, h[5]
       PROVE  \E x \in ToSet(valid) : Says(x, h)
  <2>1. PICK k \in 1 .. N : Valid(answers[k], asked) /\ h = Said(k)
    BY <1>7
  <2>2. h[5] <=> Once(k)
    BY <2>1 DEF Said
  <2>3. ~repeated(k)
    <3>1. \A j \in 1 .. k - 1 : j \in 1 .. N /\ j # k
      BY <1>1
    <3>. QED BY <1>1, <1>17, <2>2, <3>1
  <2>4. PICK j \in 1 .. Len(valid) : at[j] = k
    BY <1>5, <1>8, <2>1, <2>3 DEF Selects
  <2>5. valid[j] = Clamped(answers[k]) /\ valid[j] \in ToSet(valid)
    BY <1>10, <1>11, <2>4 DEF ToSet
  <2>. HIDE DEF Once, repeated
  <2>6. h[2] = valid[j].item /\ h[3] = valid[j].relevance /\ h[4] = valid[j].confidence
    BY <2>1, <2>5 DEF Said
  <2>. QED BY <2>5, <2>6 DEF Says
<1>18. \A x \in ToSet(valid) : \E alone \in BOOLEAN :
         <<r, x.item, x.relevance, x.confidence, alone>> \in said
  <2>. HIDE DEF repeated, Once
  <2>. QED BY <1>11, <1>15 DEF ToSet
<1>. HIDE DEF repeated, Once
<1>19. Heeds(r, asked, valid, said)
  BY <1>12, <1>13, <1>14, <1>16, <1>17, <1>18 DEF Heeds
<1>. QED BY <1>19 DEF valid, said

-----------------------------------------------------------------------------
(* The invariant.                                                          *)

\* The parts are apart and make up the candidates.
Apart(q, u, f, s) ==
  /\ q \cap u = {} /\ q \cap f = {} /\ u \cap f = {}
  /\ \A b \in DOMAIN s : s[b] \cap q = {} /\ s[b] \cap u = {} /\ s[b] \cap f = {}
  /\ \A b, c \in DOMAIN s : b # c => s[b] \cap s[c] = {}
  /\ \A i \in Items : i \in q \/ i \in u \/ i \in f \/ \E b \in DOMAIN s : i \in s[b]

BatchSets(r) == [b \in DOMAIN sent[r] |-> ToSet(sent[r][b])]
Sent(r, i) == \E b \in DOMAIN sent[r] : i \in ToSet(sent[r][b])

\* Each candidate is still to be looked up, found, still to be asked about or in
\* one batch.
Parted(r) ==
  /\ Distinct(cached[r])
  /\ \A b \in DOMAIN sent[r] : IsInjective(sent[r][b])
  /\ Apart(ToSet(queue[r]), ToSet(uncached[r]), ItemsOf(cached[r]), BatchSets(r))
  /\ Len(queue[r]) + Len(uncached[r]) <= Len(Candidates)

\* What cached and fresh results decide.
Verdicts(found, got) ==
  LET results == found \o got
  IN  Kept(results, [n \in DOMAIN results |-> ~ShouldVeto(results[n])])
Outcome(r) == Verdicts(cached[r], fresh[r])

\* Where a run stands says what it has left to do.
Staged(r) ==
  /\ pc[r] \notin {"lookup", "crashed"} => queue[r] = <<>>
  /\ pc[r] \in {"lookup", "await", "next", "done"} => toRecord[r] = <<>>
  /\ pc[r] = "await" =>
       /\ batch[r] \in Batches /\ failures[r] < Len(sent[r])
       /\ \E b \in DOMAIN sent[r] : sent[r][b] = batch[r]
  /\ pc[r] = "write" => fresh[r] # <<>>
  /\ pc[r] = "done" => uncached[r] = <<>> /\ decisions[r] = Outcome(r)
  /\ pc[r] # "done" => decisions[r] = None

\* The results of a run are about different items it asked about, not those of
\* the batch it awaits.
Recorded(r) ==
  /\ Distinct(toRecord[r]) /\ Distinct(fresh[r])
  /\ ItemsOf(toRecord[r]) \cap ItemsOf(fresh[r]) = {}
  /\ \A i \in ItemsOf(toRecord[r]) \cup ItemsOf(fresh[r]) : Sent(r, i)
  /\ pc[r] = "await" => ToSet(batch[r]) \cap ItemsOf(fresh[r]) = {}

\* The provider said x, when o asked.
AnsweredTo(o, x) ==
  \E alone \in BOOLEAN :
    <<o, x.item, x.relevance, x.confidence, alone>> \in answered

\* Every result repeats an answer, and acts as the run's thresholds have it.
Grounded(r) ==
  /\ \A x \in ToSet(toRecord[r]) : AnsweredTo(r, x)
  /\ \A x \in ToSet(fresh[r]) : AnsweredTo(r, x) /\ Follows(x, Policy[r])
  /\ \A x \in ToSet(cached[r]) :
       /\ CacheOn /\ Follows(x, Policy[r])
       /\ \E o \in Runs : AnsweredTo(o, x)

\* What the provider said to a run of an item it mentioned once is not lost.
Heard(r) ==
  \A said \in answered :
    (said[1] = r /\ said[5]) =>
      \E x \in ToSet(toRecord[r]) \cup ToSet(fresh[r]) : Says(x, said)

\* TypeOK, without what it says of each run.
Typed ==
  /\ pc \in [Runs -> {"lookup", "await", "record", "write", "next", "done",
                      "crashed"}]
  /\ queue \in [Runs -> Seq(Items)]
  /\ uncached \in [Runs -> Seq(Items)]
  /\ batch \in [Runs -> Seq(Items)]
  /\ cached \in [Runs -> Seq(Result)]
  /\ toRecord \in [Runs -> Seq(Result)]
  /\ fresh \in [Runs -> Seq(Result)]
  /\ sent \in [Runs -> Seq(Seq(Items))]
  /\ failures \in [Runs -> Nat]
  /\ decisions \in [Runs -> Seq(Result) \cup {None}]
  /\ cache \in [Keys -> Result \cup {Torn, None}]
  /\ answered \subseteq
       Runs \X Items \X (0 .. Unit) \X (0 .. Unit) \X BOOLEAN

\* What it says of each.
Fits(r) ==
  /\ IsInjective(queue[r]) /\ IsInjective(uncached[r]) /\ IsInjective(batch[r])
  /\ failures[r] <= Len(sent[r])

RunInv(r) ==
  Fits(r) /\ Parted(r) /\ Staged(r) /\ Recorded(r) /\ Grounded(r) /\ Heard(r)

\* A whole cache file holds an answer, under the thresholds its key names.
Tells(entry, policy, heard) ==
  entry \notin {Torn, None} =>
    /\ Follows(entry, policy)
    /\ \E o \in Runs, alone \in BOOLEAN :
         <<o, entry.item, entry.relevance, entry.confidence, alone>> \in heard
CacheTells ==
  \A r \in Runs, i \in Items : Tells(cache[Key(r, i)], Policy[r], answered)

Inv == Typed /\ (\A r \in Runs : RunInv(r)) /\ CacheTells

\* The types are part of it.
LEMMA InvTypes == Inv => TypeOK
BY DEF Inv, RunInv, Typed, Fits, TypeOK

\* Every run has a key for every item.
LEMMA KeysOfRuns == \A r \in Runs, i \in Items : Key(r, i) \in Keys
BY DEF Keys

\* Everything is still to be looked up at the start.
LEMMA InitInv == Init => Inv
<1>. SUFFICES ASSUME Init PROVE Inv
  OBVIOUS
<1>1. Candidates \in Seq(Items) /\ IsInjective(Candidates)
  BY CandidatesAssumption
<1>2. <<>> \in Seq(Items) /\ <<>> \in Seq(Result) /\ <<>> \in Seq(Seq(Items))
  OBVIOUS
<1>3. IsInjective(<<>>) /\ Distinct(<<>>) /\ ToSet(<<>>) = {} /\ ItemsOf(<<>>) = {}
  BY DEF IsInjective, Distinct, ToSet, ItemsOf
<1>4. Typed
  BY <1>1, <1>2 DEF Init, Typed
<1>5. ASSUME NEW r \in Runs PROVE RunInv(r)
  <2>1. /\ pc[r] = "lookup" /\ queue[r] = Candidates /\ uncached[r] = <<>>
        /\ cached[r] = <<>> /\ toRecord[r] = <<>> /\ fresh[r] = <<>> /\ sent[r] = <<>>
        /\ decisions[r] = None /\ answered = {}
    BY DEF Init
  <2>2. Len(Candidates) \in Nat /\ Len(<<>>) = 0
    BY <1>1
  <2>3. DOMAIN BatchSets(r) = {} /\ DOMAIN sent[r] = {}
    BY <2>1 DEF BatchSets
  <2>4. Parted(r)
    BY <1>3, <2>1, <2>2, <2>3 DEF Parted, Apart, Items
  <2>5. Fits(r)
    BY <1>1, <1>3, <1>4, <2>1, <2>2 DEF Fits, Init
  <2>. QED BY <1>3, <2>1, <2>4, <2>5 DEF RunInv, Staged, Recorded, Grounded, Heard
<1>6. CacheTells
  <2>1. \A r \in Runs, i \in Items : cache[Key(r, i)] = None
    BY KeysOfRuns DEF Init
  <2>. QED BY <2>1 DEF CacheTells, Tells
<1>. QED BY <1>4, <1>5, <1>6 DEF Inv

-----------------------------------------------------------------------------
(* What the steps assign.                                                  *)

\* A whole file that is a hit is a result about the item.
LEMMA HitIsResult ==
  ASSUME TypeOK, NEW r \in Runs, NEW item \in Items, IsHit(cache[Key(r, item)], item)
  PROVE  cache[Key(r, item)] \in Result /\ cache[Key(r, item)].item = item
BY KeysOfRuns DEF TypeOK, IsHit

\* What the provider's response becomes.
LEMMA AnswerValues ==
  ASSUME TypeOK, NEW r \in Runs, Staged(r), Answer(r)
  PROVE  \E valid, said :
           /\ toRecord' = [toRecord EXCEPT ![r] = valid]
           /\ answered' = answered \cup said
           /\ Heeds(r, ToSet(batch[r]), valid, said)
           /\ \E n \in {failures[r], failures[r] + 1} :
                failures' = [failures EXCEPT ![r] = n]
<1>1. PICK response \in Responses(batch[r]) :
        LET asked == ToSet(batch[r])
            answers == IF response = None THEN <<>> ELSE response
        IN  /\ toRecord' = [toRecord EXCEPT ![r] = Sanitized(answers, asked)]
            /\ answered' = answered \cup Sayings(r, answers, asked)
            /\ failures' = [failures EXCEPT ![r] =
                 IF (response = None \/ Len(Sanitized(answers, asked)) < Len(answers))
                      /\ Sanitized(answers, asked) = <<>>
                 THEN @ + 1 ELSE @]
  BY Zenon DEF Answer
<1>. DEFINE answers == IF response = None THEN <<>> ELSE response
<1>2. batch[r] \in Batches
  BY DEF Answer, Staged
<1>3. IsList(answers)
  <2>1. CASE response = None
    BY <2>1 DEF IsList
  <2>2. CASE response # None
    BY <2>2, <1>2, ResponsesAssumption DEF IsList
  <2>. QED BY <2>1, <2>2
<1>4. ToSet(batch[r]) \in SUBSET Items
  BY DEF ToSet, TypeOK
<1>. HIDE DEF answers
<1>5. Heeds(r, ToSet(batch[r]), Sanitized(answers, ToSet(batch[r])),
            Sayings(r, answers, ToSet(batch[r])))
  BY <1>3, <1>4, SanitizedAnswers
<1>6. /\ toRecord' = [toRecord EXCEPT ![r] = Sanitized(answers, ToSet(batch[r]))]
      /\ answered' = answered \cup Sayings(r, answers, ToSet(batch[r]))
  BY <1>1 DEF answers
<1>7. \E n \in {failures[r], failures[r] + 1} : failures' = [failures EXCEPT ![r] = n]
  BY <1>1
<1>. QED BY <1>5, <1>6, <1>7

\* Of the candidates a run had to ask about, a batch takes some, in order, and
\* leaves the others.
Cuts(asked, left, rest) ==
  /\ asked \in Batches /\ asked \in Seq(Items) /\ IsInjective(asked)
  /\ left \in Seq(Items) /\ IsInjective(left) /\ Len(left) <= Len(rest)
  /\ ToSet(asked) \cap ToSet(left) = {}
  /\ ToSet(asked) \cup ToSet(left) = ToSet(rest)

\* A batch there is to ask about.
LEMMA AskValues ==
  ASSUME TypeOK, NEW r \in Runs, Parted(r), Ask(r)
  PROVE  \E asked, left :
           /\ batch' = [batch EXCEPT ![r] = asked]
           /\ uncached' = [uncached EXCEPT ![r] = left]
           /\ sent' = [sent EXCEPT ![r] = Append(@, asked)]
           /\ Cuts(asked, left, uncached[r])
<1>. DEFINE s == uncached[r]  asked == NextBatch(s)
            left == SubSeq(s, Len(asked) + 1, Len(s))
<1>1. s \in Seq(Items) /\ s # <<>> /\ IsInjective(s)
  BY DEF Ask, TypeOK
<1>2. /\ batch' = [batch EXCEPT ![r] = asked] /\ uncached' = [uncached EXCEPT ![r] = left]
      /\ sent' = [sent EXCEPT ![r] = Append(@, asked)]
  BY DEF Ask
<1>3. Len(queue[r]) \in Nat /\ Len(s) \in Nat /\ Len(Candidates) \in Nat
  BY <1>1, CandidatesAssumption DEF TypeOK
<1>4. Len(s) <= Len(Candidates)
  <2>1. Len(queue[r]) + Len(s) <= Len(Candidates)
    BY DEF Parted
  <2>2. \A a, b, c \in Nat : a + b <= c => b <= c
    OBVIOUS
  <2>. QED BY <1>3, <2>1, <2>2
<1>. HIDE DEF s
<1>5. PICK n \in 1 .. Len(s) : asked = SubSeq(s, 1, n)
  BY <1>1, NextBatchCuts
<1>. HIDE DEF asked
<1>6. Len(asked) = n /\ left = SubSeq(s, n + 1, Len(s))
  <2>1. Len(SubSeq(s, 1, n)) = n
    BY <1>1, <1>5
  <2>. QED BY <2>1, <1>5
<1>. HIDE DEF left
<1>7. Halves(asked, left, s, n)
  BY <1>1, <1>5, <1>6, CutInTwo
<1>8. asked \in Batches
  <2>1. n \in 1 .. Len(Candidates)
    BY <1>3, <1>4
  <2>2. asked \in [1 .. n -> Items]
    BY <1>7 DEF Halves
  <2>3. IsInjective(asked)
    BY <1>7 DEF Halves
  <2>. QED BY <2>1, <2>2, <2>3 DEF Batches
<1>9. Len(left) <= Len(s)
  BY <1>3, <1>7 DEF Halves
<1>10. Cuts(asked, left, s)
  BY <1>7, <1>8, <1>9 DEF Cuts, Halves
<1>. QED BY <1>2, <1>10 DEF s

\* A result recorded.
LEMMA RecordValues ==
  ASSUME TypeOK, NEW r \in Runs, Recorded(r), Record(r)
  PROVE  \E x \in Result :
           /\ fresh' = [fresh EXCEPT ![r] = Append(@, x)]
           /\ toRecord' = [toRecord EXCEPT ![r] = Tail(@)]
           /\ Tail(toRecord[r]) \in Seq(Result)
           /\ Follows(x, Policy[r])
           /\ x.item = Head(toRecord[r]).item
           /\ x.relevance = Head(toRecord[r]).relevance
           /\ x.confidence = Head(toRecord[r]).confidence
           /\ \/ cache' = [cache EXCEPT ![Key(r, x.item)] = Torn]
                 /\ pc' = [pc EXCEPT ![r] = "write"]
              \/ UNCHANGED <<cache, pc>>
<1>. DEFINE s == toRecord[r]  x == ApplyPolicyToResult(Head(s), Policy[r])
<1>1. s \in Seq(Result) /\ s # <<>> /\ Distinct(s)
  BY DEF Record, Recorded, TypeOK
<1>2. Head(s) \in Result /\ Tail(s) \in Seq(Result)
  BY <1>1, FirstResult
<1>3. /\ x \in Result /\ Follows(x, Policy[r])
      /\ x.item = Head(s).item /\ x.relevance = Head(s).relevance
      /\ x.confidence = Head(s).confidence
  BY <1>2, ResultUnderPolicy
<1>4. /\ fresh' = [fresh EXCEPT ![r] = Append(@, x)]
      /\ toRecord' = [toRecord EXCEPT ![r] = Tail(@)]
      /\ \/ cache' = [cache EXCEPT ![Key(r, x.item)] = Torn]
            /\ pc' = [pc EXCEPT ![r] = "write"]
         \/ UNCHANGED <<cache, pc>>
  BY DEF Record
<1>. HIDE DEF x
<1>. QED BY <1>2, <1>3, <1>4 DEF s

\* The result a run is writing.
LEMMA WriteValues ==
  ASSUME TypeOK, NEW r \in Runs, Staged(r), Write(r)
  PROVE  \E x \in Result :
           /\ x \in ToSet(fresh[r])
           /\ \/ cache' = [cache EXCEPT ![Key(r, x.item)] = x]
              \/ cache' = [cache EXCEPT ![Key(r, x.item)] = Torn]
              \/ UNCHANGED cache
<1>. DEFINE x == Last(fresh[r])
<1>1. fresh[r] \in Seq(Result) /\ fresh[r] # <<>>
  BY DEF Staged, Write, TypeOK
<1>2. Len(fresh[r]) \in DOMAIN fresh[r] /\ x = fresh[r][Len(fresh[r])]
  BY <1>1 DEF Last
<1>3. x \in Result /\ x \in ToSet(fresh[r])
  BY <1>1, <1>2 DEF ToSet
<1>4. \/ cache' = [cache EXCEPT ![Key(r, x.item)] = x]
      \/ cache' = [cache EXCEPT ![Key(r, x.item)] = Torn]
      \/ UNCHANGED cache
  BY DEF Write, WriteKey
<1>. HIDE DEF x
<1>. QED BY <1>3, <1>4

\* Two sequences of results, one after the other.
LEMMA JoinedSequences ==
  ASSUME NEW s \in Seq(Result), NEW u \in Seq(Result)
  PROVE  /\ s \o u \in Seq(Result) /\ Len(s \o u) = Len(s) + Len(u)
         /\ \A n \in 1 .. Len(s) : (s \o u)[n] = s[n]
         /\ \A n \in 1 .. Len(u) : (s \o u)[Len(s) + n] = u[n]
<1>. DEFINE C == Len(s)  F == Len(u)
<1>1. C \in Nat /\ F \in Nat
  OBVIOUS
<1>2. /\ s \o u \in Seq(Result) /\ Len(s \o u) = C + F
      /\ \A n \in 1 .. C + F : (s \o u)[n] = IF n <= C THEN s[n] ELSE u[n - C]
  BY ConcatProperties
<1>. HIDE DEF C, F
<1>3. \A n \in 1 .. C : n \in 1 .. C + F /\ n <= C
  BY <1>1
<1>4. \A n \in 1 .. F : C + n \in 1 .. C + F /\ ~(C + n <= C) /\ (C + n) - C = n
  BY <1>1
<1>5. \A n \in 1 .. F : (s \o u)[C + n] = u[n]
  <2>1. ASSUME NEW n \in 1 .. F PROVE (s \o u)[C + n] = u[(C + n) - C]
    BY <1>2, <1>4
  <2>. QED BY <2>1, <1>4
<1>6. \A n \in 1 .. C : (s \o u)[n] = s[n]
  BY <1>2, <1>3
<1>. QED BY <1>2, <1>5, <1>6 DEF C, F

\* What is decided is among what was cached and what is fresh.
LEMMA VerdictsSelect ==
  ASSUME NEW found \in Seq(Result), NEW got \in Seq(Result)
  PROVE  /\ Verdicts(found, got) \in Seq(Result)
         /\ \A x : x \in ToSet(Verdicts(found, got)) <=>
              x \in ToSet(found) \cup ToSet(got) /\ ~ShouldVeto(x)
         /\ Distinct(found) /\ Distinct(got) /\ ItemsOf(found) \cap ItemsOf(got) = {}
              => Distinct(Verdicts(found, got))
<1>. DEFINE results == found \o got
            passes == [n \in DOMAIN results |-> ~ShouldVeto(results[n])]
            kept == Kept(results, passes)
            C == Len(found)  F == Len(got)
<1>1. found \in Seq(Result) /\ got \in Seq(Result) /\ C \in Nat /\ F \in Nat
  OBVIOUS
<1>2. /\ results \in Seq(Result) /\ Len(results) = C + F
      /\ \A n \in 1 .. C : results[n] = found[n]
      /\ \A n \in 1 .. F : results[C + n] = got[n]
  BY <1>1, JoinedSequences
<1>3. DOMAIN results = 1 .. Len(results)
  BY <1>2
<1>4. passes \in [1 .. Len(results) -> BOOLEAN]
  BY <1>3 DEF ShouldVeto
<1>5. \A n \in 1 .. Len(results) : passes[n] <=> ~ShouldVeto(results[n])
  BY <1>3
<1>6. Verdicts(found, got) = kept
  BY DEF Verdicts
<1>7. kept = Kept(results, passes)
  OBVIOUS
<1>. HIDE DEF results, passes, kept, C, F
<1>8. kept \in Seq(Result) /\ \E at : Selects(at, kept, results, passes, Len(results))
  BY <1>2, <1>4, <1>7, KeptSelects
<1>9. PICK at : Selects(at, kept, results, passes, Len(results))
  BY <1>8
<1>10. DOMAIN kept = 1 .. Len(kept)
  BY <1>8
<1>11. \A x : x \in ToSet(kept) <=> \E n \in 1 .. Len(results) : x = results[n] /\ passes[n]
  <2>1. ASSUME NEW x \in ToSet(kept)
        PROVE  \E n \in 1 .. Len(results) : x = results[n] /\ passes[n]
    <3>1. PICK j \in 1 .. Len(kept) : x = kept[j]
      BY <1>10 DEF ToSet
    <3>. QED BY <3>1, <1>9 DEF Selects
  <2>2. ASSUME NEW n \in 1 .. Len(results), passes[n] PROVE results[n] \in ToSet(kept)
    <3>1. PICK j \in 1 .. Len(kept) : at[j] = n
      BY <1>9, <2>2 DEF Selects
    <3>. QED BY <3>1, <1>9, <1>10 DEF Selects, ToSet
  <2>. QED BY <2>1, <2>2
<1>12. \A x : x \in ToSet(found) \cup ToSet(got) <=>
         \E n \in 1 .. Len(results) : x = results[n]
  <2>1. DOMAIN found = 1 .. C /\ DOMAIN got = 1 .. F
    BY <1>1 DEF C, F
  <2>2. ASSUME NEW n \in 1 .. Len(results)
        PROVE  results[n] \in ToSet(found) \cup ToSet(got)
    <3>1. n \in 1 .. C \/ \E k \in 1 .. F : n = C + k
      <4>1. n \in 1 .. C + F
        BY <1>2
      <4>2. n \in 1 .. C \/ (n - C \in 1 .. F /\ n = C + (n - C))
        BY <1>1, <4>1
      <4>. QED BY <4>2
    <3>2. CASE n \in 1 .. C
      BY <1>2, <2>1, <3>2 DEF ToSet
    <3>3. CASE \E k \in 1 .. F : n = C + k
      BY <1>2, <2>1, <3>3 DEF ToSet
    <3>. QED BY <3>1, <3>2, <3>3
  <2>3. ASSUME NEW n \in 1 .. C PROVE \E m \in 1 .. Len(results) : found[n] = results[m]
    BY <1>1, <1>2
  <2>4. ASSUME NEW n \in 1 .. F PROVE \E m \in 1 .. Len(results) : got[n] = results[m]
    <3>1. C + n \in 1 .. C + F
      BY <1>1
    <3>2. C + n \in 1 .. Len(results) /\ results[C + n] = got[n]
      BY <1>2, <3>1
    <3>. QED BY <3>2
  <2>5. ASSUME NEW x \in ToSet(found) \cup ToSet(got)
        PROVE  \E n \in 1 .. Len(results) : x = results[n]
    BY <2>1, <2>3, <2>4 DEF ToSet
  <2>. QED BY <2>2, <2>5
<1>13. ASSUME Distinct(found), Distinct(got), ItemsOf(found) \cap ItemsOf(got) = {}
       PROVE  Distinct(kept)
  <2>1. DOMAIN found = 1 .. C /\ DOMAIN got = 1 .. F
    BY <1>1 DEF C, F
  <2>2. \A n \in 1 .. Len(results) : n \in 1 .. C \/ \E k \in 1 .. F : n = C + k
    <3>1. \A n \in 1 .. C + F : n \in 1 .. C \/ (n - C \in 1 .. F /\ n = C + (n - C))
      BY <1>1
    <3>. QED BY <3>1, <1>2
  <2>3. ASSUME NEW j \in 1 .. C, NEW k \in 1 .. F PROVE found[j].item # got[k].item
    BY <1>13, <2>1 DEF ItemsOf
  <2>4. ASSUME NEW j \in 1 .. Len(results), NEW k \in 1 .. Len(results),
               results[j].item = results[k].item
        PROVE  j = k
    <3>1. CASE j \in 1 .. C /\ k \in 1 .. C
      <4>1. results[j] = found[j] /\ results[k] = found[k]
        BY <1>2, <3>1
      <4>. QED BY <1>13, <2>1, <2>4, <3>1, <4>1 DEF Distinct
    <3>2. CASE j \in 1 .. C /\ \E m \in 1 .. F : k = C + m
      BY <1>2, <2>3, <2>4, <3>2
    <3>3. CASE k \in 1 .. C /\ \E m \in 1 .. F : j = C + m
      BY <1>2, <2>3, <2>4, <3>3
    <3>4. CASE (\E m \in 1 .. F : j = C + m) /\ (\E m \in 1 .. F : k = C + m)
      <4>1. PICK m \in 1 .. F : j = C + m
        BY <3>4
      <4>2. PICK l \in 1 .. F : k = C + l
        BY <3>4
      <4>3. results[j] = got[m] /\ results[k] = got[l]
        BY <1>2, <4>1, <4>2
      <4>4. m = l
        BY <1>13, <2>1, <2>4, <4>3 DEF Distinct
      <4>. QED BY <4>1, <4>2, <4>4
    <3>. QED BY <2>2, <3>1, <3>2, <3>3, <3>4
  <2>5. ASSUME NEW j \in 1 .. Len(kept), NEW k \in 1 .. Len(kept),
               kept[j].item = kept[k].item, j < k
        PROVE  FALSE
    <3>1. /\ at[j] \in 1 .. Len(results) /\ kept[j] = results[at[j]]
          /\ at[k] \in 1 .. Len(results) /\ kept[k] = results[at[k]]
          /\ at[j] < at[k]
      BY <1>9, <2>5 DEF Selects
    <3>2. at[j] = at[k]
      BY <2>4, <2>5, <3>1
    <3>. QED BY <1>2, <3>1, <3>2
  <2>6. \A j, k \in 1 .. Len(kept) : j < k \/ k < j \/ j = k
    BY <1>8
  <2>. QED BY <1>10, <2>5, <2>6 DEF Distinct
<1>. QED BY <1>5, <1>6, <1>8, <1>11, <1>12, <1>13
-----------------------------------------------------------------------------
(* What a step leaves alone.                                               *)

\* A step of another run: o stands where it stood.
Unmoved(o) ==
  /\ pc'[o] = pc[o] /\ queue'[o] = queue[o] /\ cached'[o] = cached[o]
  /\ uncached'[o] = uncached[o] /\ batch'[o] = batch[o] /\ toRecord'[o] = toRecord[o]
  /\ fresh'[o] = fresh[o] /\ failures'[o] = failures[o] /\ sent'[o] = sent[o]
  /\ decisions'[o] = decisions[o]

\* A step of r moves no other run, and adds only what is said to r.
OnlyMoves(r) ==
  /\ \A o \in Runs \ {r} : Unmoved(o)
  /\ answered \subseteq answered'
  /\ \A h \in answered' \ answered : h[1] = r

\* What was said stays said.
LEMMA AnsweredStays ==
  ASSUME answered \subseteq answered', NEW o, NEW x, AnsweredTo(o, x)
  PROVE  AnsweredTo(o, x)'
BY DEF AnsweredTo

\* The invariant of a run survives what others do.
LEMMA OthersKeep ==
  ASSUME NEW r \in Runs, OnlyMoves(r), NEW o \in Runs \ {r}, RunInv(o)
  PROVE  RunInv(o)'
<1>1. Unmoved(o) /\ answered \subseteq answered'
  BY DEF OnlyMoves
<1>2. Fits(o)'
  BY <1>1 DEF RunInv, Fits, Unmoved
<1>3. Parted(o)'
  BY <1>1 DEF RunInv, Parted, BatchSets, Unmoved
<1>4. Staged(o)'
  BY <1>1 DEF RunInv, Staged, Outcome, Unmoved
<1>5. Recorded(o)'
  BY <1>1 DEF RunInv, Recorded, Sent, Unmoved
<1>6. Grounded(o)'
  <2>1. Grounded(o) /\ toRecord'[o] = toRecord[o] /\ fresh'[o] = fresh[o]
        /\ cached'[o] = cached[o]
    BY <1>1 DEF RunInv, Unmoved
  <2>2. \A p, x : AnsweredTo(p, x) => AnsweredTo(p, x)'
    BY <1>1, AnsweredStays
  <2>. QED BY <2>1, <2>2 DEF Grounded
<1>7. Heard(o)'
  <2>1. \A h \in answered' : h[1] = o => h \in answered
    BY DEF OnlyMoves
  <2>2. Heard(o) /\ toRecord'[o] = toRecord[o] /\ fresh'[o] = fresh[o]
    BY <1>1 DEF RunInv, Unmoved
  <2>. QED BY <2>1, <2>2 DEF Heard
<1>. QED BY <1>2, <1>3, <1>4, <1>5, <1>6, <1>7 DEF RunInv

\* A file is emptied or torn, or takes a result that follows its key's policy.
LEMMA CacheStays ==
  ASSUME Typed, CacheTells, answered \subseteq answered', NEW r \in Runs,
         NEW x \in Result, Follows(x, Policy[r]), AnsweredTo(r, x),
         \/ cache' = cache
         \/ cache' = [cache EXCEPT ![Key(r, x.item)] = Torn]
         \/ cache' = [cache EXCEPT ![Key(r, x.item)] = x]
  PROVE  CacheTells'
<1>1. ASSUME NEW entry, NEW policy, Tells(entry, policy, answered)
      PROVE  Tells(entry, policy, answered')
  BY <1>1 DEF Tells
<1>2. Tells(x, Policy[r], answered) /\ Tells(Torn, Policy[r], answered)
  BY DEF Tells, AnsweredTo
<1>3. ASSUME NEW o \in Runs, NEW i \in Items
      PROVE  Tells(cache'[Key(o, i)], Policy[o], answered)
  <2>1. Key(o, i) \in DOMAIN cache
    BY KeysOfRuns DEF Typed
  <2>2. Tells(cache[Key(o, i)], Policy[o], answered)
    BY DEF CacheTells
  <2>3. CASE cache'[Key(o, i)] = cache[Key(o, i)]
    BY <2>2, <2>3
  <2>4. CASE cache'[Key(o, i)] # cache[Key(o, i)]
    <3>1. Key(o, i) = Key(r, x.item) /\ cache'[Key(o, i)] \in {x, Torn}
      BY <2>1, <2>4
    <3>2. Policy[o] = Policy[r]
      BY <3>1, PolicyAssumption DEF Key
    <3>. QED BY <1>2, <3>1, <3>2
  <2>. QED BY <2>3, <2>4
<1>. QED BY <1>1, <1>3 DEF CacheTells, Key

\* A cache left as it was.
LEMMA CacheUntouched ==
  ASSUME CacheTells, answered \subseteq answered', cache' = cache
  PROVE  CacheTells'
<1>1. ASSUME NEW entry, NEW policy, Tells(entry, policy, answered)
      PROVE  Tells(entry, policy, answered')
  BY <1>1 DEF Tells
<1>. QED BY <1>1 DEF CacheTells, Key

\* An item moves from what is to be looked up to one of the other parts.
LEMMA ApartMoves ==
  ASSUME NEW q, NEW u, NEW f, NEW s, NEW i \in q, Apart(q, u, f, s)
  PROVE  /\ Apart(q \ {i}, u \cup {i}, f, s)
         /\ Apart(q \ {i}, u, f \cup {i}, s)
         /\ i \notin u /\ i \notin f
BY DEF Apart

\* A batch leaves what is to be asked about.
LEMMA ApartSends ==
  ASSUME NEW q, NEW u, NEW f, NEW s, NEW t, NEW a, NEW v, NEW n, Apart(q, u, f, s),
         a \cap v = {}, a \cup v = u,
         n \notin DOMAIN s, DOMAIN t = DOMAIN s \cup {n}, t[n] = a,
         \A b \in DOMAIN s : t[b] = s[b]
  PROVE  Apart(q, v, f, t)
<1>1. \A b \in DOMAIN t : t[b] = a \/ (b \in DOMAIN s /\ t[b] = s[b])
  OBVIOUS
<1>2. q \cap v = {} /\ q \cap f = {} /\ v \cap f = {}
  BY DEF Apart
<1>3. ASSUME NEW b \in DOMAIN t
      PROVE  t[b] \cap q = {} /\ t[b] \cap v = {} /\ t[b] \cap f = {}
  <2>1. CASE b = n
    BY <2>1 DEF Apart
  <2>2. CASE b \in DOMAIN s
    BY <2>2 DEF Apart
  <2>. QED BY <2>1, <2>2
<1>4. ASSUME NEW b \in DOMAIN t, NEW c \in DOMAIN t, b # c PROVE t[b] \cap t[c] = {}
  <2>1. CASE b \in DOMAIN s /\ c \in DOMAIN s
    BY <1>4, <2>1 DEF Apart
  <2>2. CASE b = n /\ c \in DOMAIN s
    BY <2>2 DEF Apart
  <2>3. CASE c = n /\ b \in DOMAIN s
    BY <2>3 DEF Apart
  <2>. QED BY <1>4, <2>1, <2>2, <2>3
<1>5. ASSUME NEW i \in Items
      PROVE  i \in q \/ i \in v \/ i \in f \/ \E b \in DOMAIN t : i \in t[b]
  <2>1. i \in q \/ i \in u \/ i \in f \/ \E b \in DOMAIN s : i \in s[b]
    BY DEF Apart
  <2>. QED BY <2>1
<1>. QED BY <1>2, <1>3, <1>4, <1>5 DEF Apart

-----------------------------------------------------------------------------
(* The steps.                                                              *)

\* What a step of r must keep.
Keeps(r) == Typed' /\ RunInv(r)' /\ CacheTells' /\ OnlyMoves(r)

\* A step that says nothing new to anyone.
LEMMA Silent ==
  ASSUME answered' = answered, NEW r \in Runs, \A o \in Runs \ {r} : Unmoved(o)
  PROVE  OnlyMoves(r)
BY DEF OnlyMoves

\* Looking a candidate up.
LEMMA LookupStep == ASSUME Inv, NEW r \in Runs, Lookup(r) PROVE Keeps(r)
<1>. DEFINE item == Head(queue[r])  entry == cache[Key(r, item)]
            q == ToSet(queue[r])  u == ToSet(uncached[r])  f == ItemsOf(cached[r])
            s == BatchSets(r)
<1>1. Typed /\ TypeOK /\ RunInv(r) /\ CacheTells
  BY InvTypes DEF Inv
<1>2. /\ pc[r] = "lookup" /\ pc' = pc /\ queue' = [queue EXCEPT ![r] = Tail(queue[r])]
      /\ UNCHANGED <<batch, toRecord, fresh, failures, sent, decisions, cache, answered>>
  BY DEF Lookup
<1>3. /\ queue[r] \in Seq(Items) /\ queue[r] # <<>> /\ IsInjective(queue[r])
      /\ uncached[r] \in Seq(Items) /\ cached[r] \in Seq(Result)
  BY <1>1 DEF Lookup, TypeOK
<1>4. /\ item \in Items /\ item \in q
      /\ Tail(queue[r]) \in Seq(Items) /\ IsInjective(Tail(queue[r]))
      /\ ToSet(Tail(queue[r])) = q \ {item}
      /\ Len(Tail(queue[r])) = Len(queue[r]) - 1
  BY <1>3, HeadAndTail
<1>5. Apart(q, u, f, s) /\ Distinct(cached[r])
  BY <1>1 DEF RunInv, Parted
<1>. HIDE DEF item, q, u, f, s
<1>6. /\ Apart(q \ {item}, u \cup {item}, f, s)
      /\ Apart(q \ {item}, u, f \cup {item}, s)
      /\ item \notin u /\ item \notin f
  BY <1>4, <1>5, ApartMoves
<1>7. queue' \in [Runs -> Seq(Items)] /\ queue'[r] = Tail(queue[r])
  BY <1>1, <1>2, <1>4 DEF Typed
<1>8. BatchSets(r)' = s
  BY <1>2 DEF BatchSets, s
<1>9. CacheTells'
  BY <1>1, <1>2, CacheUntouched
<1>10. Len(queue[r]) + Len(uncached[r]) <= Len(Candidates)
  BY <1>1 DEF RunInv, Parted
<1>11. Len(queue[r]) \in Nat /\ Len(uncached[r]) \in Nat /\ Len(Candidates) \in Nat
  BY <1>3, CandidatesAssumption
<1>12. Recorded(r)' /\ Heard(r)'
  BY <1>1, <1>2 DEF RunInv, Recorded, Heard, Sent
<1>13. Staged(r)'
  BY <1>1, <1>2 DEF RunInv, Staged
<1>14. CASE CacheOn /\ IsHit(entry, item)
  <2>1. /\ cached' = [cached EXCEPT ![r] = Append(cached[r], entry)]
        /\ uncached' = uncached
    BY <1>14 DEF Lookup, item
  <2>2. entry \in Result /\ entry.item = item
    BY <1>1, <1>4, <1>14, HitIsResult
  <2>3. Follows(entry, Policy[r]) /\ \E o \in Runs : AnsweredTo(o, entry)
    <3>1. entry \notin {Torn, None}
      BY <1>14 DEF IsHit
    <3>. QED BY <1>1, <1>4, <3>1 DEF CacheTells, Tells, AnsweredTo
  <2>. HIDE DEF entry
  <2>4. /\ Append(cached[r], entry) \in Seq(Result)
        /\ ToSet(Append(cached[r], entry)) = ToSet(cached[r]) \cup {entry}
        /\ ItemsOf(Append(cached[r], entry)) = f \cup {item}
        /\ Distinct(Append(cached[r], entry))
    BY <1>3, <1>5, <1>6, <2>2, OneMoreResult DEF f
  <2>5. cached' \in [Runs -> Seq(Result)] /\ cached'[r] = Append(cached[r], entry)
    BY <1>1, <2>1, <2>4 DEF Typed
  <2>6. Typed'
    BY <1>1, <1>2, <1>7, <2>1, <2>5 DEF Typed
  <2>7. Fits(r)'
    BY <1>1, <1>2, <1>4, <1>7, <2>1 DEF RunInv, Fits
  <2>8. Parted(r)'
    <3>1. Len(queue'[r]) + Len(uncached'[r]) <= Len(Candidates)
      <4>1. Len(queue'[r]) = Len(queue[r]) - 1 /\ uncached'[r] = uncached[r]
        BY <1>4, <1>7, <2>1
      <4>2. \A a, b, d \in Nat : a + b <= d => (a - 1) + b <= d
        OBVIOUS
      <4>. QED BY <1>10, <1>11, <4>1, <4>2
    <3>2. \A b \in DOMAIN sent'[r] : IsInjective(sent'[r][b])
      BY <1>1, <1>2 DEF RunInv, Parted
    <3>3. Apart(ToSet(queue'[r]), ToSet(uncached'[r]), ItemsOf(cached'[r]), s)
      BY <1>4, <1>6, <1>7, <2>1, <2>4, <2>5 DEF u
    <3>. QED BY <1>8, <2>4, <2>5, <3>1, <3>2, <3>3 DEF Parted
  <2>9. Grounded(r)'
    BY <1>1, <1>2, <1>14, <2>3, <2>4, <2>5 DEF RunInv, Grounded, AnsweredTo
  <2>10. OnlyMoves(r)
    BY <1>1, <1>2, <2>1, Silent DEF Typed, Unmoved
  <2>. QED BY <1>9, <1>12, <1>13, <2>6, <2>7, <2>8, <2>9, <2>10 DEF Keeps, RunInv
<1>15. CASE ~(CacheOn /\ IsHit(entry, item))
  <2>1. /\ uncached' = [uncached EXCEPT ![r] = Append(uncached[r], item)]
        /\ cached' = cached
    BY <1>15 DEF Lookup, item
  <2>2. /\ Append(uncached[r], item) \in Seq(Items)
        /\ Len(Append(uncached[r], item)) = Len(uncached[r]) + 1
        /\ ToSet(Append(uncached[r], item)) = u \cup {item}
        /\ IsInjective(uncached[r]) => IsInjective(Append(uncached[r], item))
    BY <1>3, <1>4, <1>6, OneMore DEF u
  <2>3. uncached' \in [Runs -> Seq(Items)] /\ uncached'[r] = Append(uncached[r], item)
    BY <1>1, <2>1, <2>2 DEF Typed
  <2>4. Typed'
    BY <1>1, <1>2, <1>7, <2>1, <2>3 DEF Typed
  <2>5. Fits(r)'
    BY <1>1, <1>2, <1>4, <1>7, <2>2, <2>3 DEF RunInv, Fits
  <2>6. Parted(r)'
    <3>1. Len(queue'[r]) + Len(uncached'[r]) <= Len(Candidates)
      <4>1. Len(queue'[r]) = Len(queue[r]) - 1 /\ Len(uncached'[r]) = Len(uncached[r]) + 1
        BY <1>4, <1>7, <2>2, <2>3
      <4>2. \A a, b, d \in Nat : a + b <= d => (a - 1) + (b + 1) <= d
        OBVIOUS
      <4>. QED BY <1>10, <1>11, <4>1, <4>2
    <3>2. \A b \in DOMAIN sent'[r] : IsInjective(sent'[r][b])
      BY <1>1, <1>2 DEF RunInv, Parted
    <3>3. Apart(ToSet(queue'[r]), ToSet(uncached'[r]), ItemsOf(cached'[r]), s)
      BY <1>4, <1>6, <1>7, <2>1, <2>2, <2>3 DEF f
    <3>. QED BY <1>5, <1>8, <2>1, <3>1, <3>2, <3>3 DEF Parted
  <2>7. Grounded(r)'
    BY <1>1, <1>2, <2>1 DEF RunInv, Grounded, AnsweredTo
  <2>8. OnlyMoves(r)
    BY <1>1, <1>2, <2>1, Silent DEF Typed, Unmoved
  <2>. QED BY <1>9, <1>12, <1>13, <2>4, <2>5, <2>6, <2>7, <2>8 DEF Keeps, RunInv
<1>. QED BY <1>14, <1>15

\* Asking about a batch.
LEMMA AskStep == ASSUME Inv, NEW r \in Runs, Ask(r) PROVE Keeps(r)
<1>1. Typed /\ TypeOK /\ RunInv(r) /\ CacheTells /\ Parted(r) /\ Staged(r)
  BY InvTypes DEF Inv, RunInv
<1>2. PICK asked, left :
        /\ batch' = [batch EXCEPT ![r] = asked]
        /\ uncached' = [uncached EXCEPT ![r] = left]
        /\ sent' = [sent EXCEPT ![r] = Append(@, asked)]
        /\ Cuts(asked, left, uncached[r])
  BY <1>1, AskValues
<1>3. /\ pc' = [pc EXCEPT ![r] = "await"]
      /\ UNCHANGED <<queue, cached, toRecord, fresh, failures, decisions, cache, answered>>
      /\ pc[r] \in {"lookup", "next"} /\ queue[r] = <<>>
  BY <1>1 DEF Ask, Staged
<1>4. /\ asked \in Batches /\ asked \in Seq(Items) /\ left \in Seq(Items)
      /\ IsInjective(asked) /\ IsInjective(left) /\ Len(left) <= Len(uncached[r])
      /\ ToSet(asked) \cap ToSet(left) = {} /\ ToSet(asked) \cup ToSet(left) = ToSet(uncached[r])
  BY <1>2 DEF Cuts
<1>5. /\ batch' \in [Runs -> Seq(Items)] /\ batch'[r] = asked
      /\ uncached' \in [Runs -> Seq(Items)] /\ uncached'[r] = left
      /\ pc'[r] = "await" /\ pc' \in [Runs -> {"lookup", "await", "record", "write",
                                               "next", "done", "crashed"}]
  BY <1>1, <1>2, <1>3, <1>4 DEF Typed
<1>. DEFINE N == Len(sent[r])  S == Append(sent[r], asked)
<1>6. sent[r] \in Seq(Seq(Items)) /\ N \in Nat /\ DOMAIN sent[r] = 1 .. N
  BY <1>1 DEF Typed
<1>7. /\ S \in Seq(Seq(Items)) /\ Len(S) = N + 1 /\ DOMAIN S = 1 .. N + 1
      /\ S[N + 1] = asked /\ \A b \in 1 .. N : S[b] = sent[r][b]
  BY <1>4, <1>6
<1>8. sent' \in [Runs -> Seq(Seq(Items))] /\ sent'[r] = S
  BY <1>1, <1>2, <1>7 DEF Typed
<1>. HIDE DEF S, N
<1>9. N + 1 \notin 1 .. N /\ 1 .. N + 1 = 1 .. N \cup {N + 1}
  BY <1>6
<1>10. Typed'
  BY <1>1, <1>3, <1>5, <1>8 DEF Typed
<1>11. failures[r] \in Nat /\ failures[r] < N + 1
  <2>1. failures[r] <= N /\ failures[r] \in Nat
    BY <1>1 DEF RunInv, Fits, Typed, N
  <2>. QED BY <1>6, <2>1
<1>12. Fits(r)'
  BY <1>1, <1>3, <1>4, <1>5, <1>6, <1>7, <1>8, <1>11 DEF RunInv, Fits
<1>13. Parted(r)'
  <2>1. DOMAIN BatchSets(r) = 1 .. N /\ \A b \in 1 .. N : BatchSets(r)[b] = ToSet(sent[r][b])
    BY <1>6 DEF BatchSets
  <2>2. /\ DOMAIN BatchSets(r)' = 1 .. N + 1
        /\ \A b \in 1 .. N + 1 : BatchSets(r)'[b] = ToSet(S[b])
    BY <1>7, <1>8 DEF BatchSets
  <2>3. /\ BatchSets(r)'[N + 1] = ToSet(asked)
        /\ \A b \in 1 .. N : BatchSets(r)'[b] = BatchSets(r)[b]
    BY <1>7, <1>9, <2>1, <2>2
  <2>4. Apart(ToSet(queue[r]), ToSet(uncached[r]), ItemsOf(cached[r]), BatchSets(r))
    BY <1>1 DEF Parted
  <2>. DEFINE before == BatchSets(r)  after == BatchSets(r)'
  <2>5. /\ N + 1 \notin DOMAIN before /\ DOMAIN after = DOMAIN before \cup {N + 1}
        /\ after[N + 1] = ToSet(asked) /\ \A b \in DOMAIN before : after[b] = before[b]
    BY <1>9, <2>1, <2>2, <2>3
  <2>. HIDE DEF before, after
  <2>6. Apart(ToSet(queue[r]), ToSet(left), ItemsOf(cached[r]), after)
    BY <1>4, <2>4, <2>5, ApartSends DEF before
  <2>7. \A b \in DOMAIN sent'[r] : IsInjective(sent'[r][b])
    BY <1>1, <1>4, <1>6, <1>7, <1>8, <1>9 DEF Parted
  <2>8. Len(queue[r]) + Len(left) <= Len(Candidates)
    <3>1. Len(queue[r]) \in Nat /\ Len(left) \in Nat /\ Len(uncached[r]) \in Nat
          /\ Len(Candidates) \in Nat
      BY <1>1, <1>4, CandidatesAssumption DEF Typed
    <3>2. Len(queue[r]) + Len(uncached[r]) <= Len(Candidates)
      BY <1>1 DEF Parted
    <3>3. \A a, b, c, d \in Nat : a + b <= d /\ c <= b => a + c <= d
      OBVIOUS
    <3>. QED BY <1>4, <3>1, <3>2, <3>3
  <2>. QED BY <1>1, <1>3, <1>5, <2>6, <2>7, <2>8 DEF Parted, after
<1>14. Staged(r)'
  <2>1. toRecord'[r] = <<>> /\ decisions'[r] = None /\ queue'[r] = <<>>
    BY <1>1, <1>3 DEF Staged
  <2>2. failures'[r] < Len(sent'[r]) /\ \E b \in DOMAIN sent'[r] : sent'[r][b] = batch'[r]
    BY <1>3, <1>5, <1>7, <1>8, <1>9, <1>11
  <2>. QED BY <1>4, <1>5, <2>1, <2>2 DEF Staged
<1>15. Recorded(r)'
  <2>1. Recorded(r) /\ toRecord'[r] = toRecord[r] /\ fresh'[r] = fresh[r]
    BY <1>1, <1>3 DEF RunInv
  <2>2. ASSUME NEW i, Sent(r, i) PROVE Sent(r, i)' /\ i \notin ToSet(uncached[r])
    <3>1. PICK b \in 1 .. N : i \in ToSet(sent[r][b])
      BY <1>6, <2>2 DEF Sent
    <3>2. b \in DOMAIN sent'[r] /\ i \in ToSet(sent'[r][b])
      BY <1>7, <1>8, <1>9, <3>1
    <3>3. BatchSets(r)[b] \cap ToSet(uncached[r]) = {} /\ BatchSets(r)[b] = ToSet(sent[r][b])
      BY <1>1, <1>6 DEF Parted, Apart, BatchSets
    <3>. QED BY <3>1, <3>2, <3>3 DEF Sent
  <2>3. ToSet(asked) \cap ItemsOf(fresh[r]) = {}
    BY <1>4, <2>1, <2>2 DEF Recorded
  <2>. QED BY <1>5, <2>1, <2>2, <2>3 DEF Recorded
<1>16. Grounded(r)' /\ Heard(r)'
  BY <1>1, <1>3 DEF RunInv, Grounded, AnsweredTo, Heard
<1>17. CacheTells'
  BY <1>1, <1>3, CacheUntouched
<1>18. OnlyMoves(r)
  BY <1>1, <1>2, <1>3, Silent DEF Typed, Unmoved
<1>. QED BY <1>10, <1>12, <1>13, <1>14, <1>15, <1>16, <1>17, <1>18 DEF Keeps, RunInv

\* The provider answering.
LEMMA AnswerStep == ASSUME Inv, NEW r \in Runs, Answer(r) PROVE Keeps(r)
<1>1. Typed /\ TypeOK /\ RunInv(r) /\ CacheTells /\ Parted(r) /\ Staged(r) /\ Recorded(r)
      /\ Grounded(r) /\ Heard(r)
  BY InvTypes DEF Inv, RunInv
<1>2. PICK valid, said :
        /\ toRecord' = [toRecord EXCEPT ![r] = valid]
        /\ answered' = answered \cup said
        /\ Heeds(r, ToSet(batch[r]), valid, said)
        /\ \E n \in {failures[r], failures[r] + 1} :
             failures' = [failures EXCEPT ![r] = n]
  BY <1>1, AnswerValues
<1>3. PICK n \in {failures[r], failures[r] + 1} : failures' = [failures EXCEPT ![r] = n]
  BY <1>2
<1>4. /\ pc[r] = "await" /\ pc' = [pc EXCEPT ![r] = "record"]
      /\ UNCHANGED <<queue, cached, uncached, batch, fresh, sent, decisions, cache>>
  BY DEF Answer
<1>5. /\ valid \in Seq(Result) /\ Distinct(valid) /\ ItemsOf(valid) \subseteq ToSet(batch[r])
      /\ \A x \in ToSet(valid) : \E alone \in BOOLEAN :
           <<r, x.item, x.relevance, x.confidence, alone>> \in said
      /\ said \subseteq {r} \X Items \X (0 .. Unit) \X (0 .. Unit) \X BOOLEAN
      /\ \A h \in said : h[5] => \E x \in ToSet(valid) : Says(x, h)
  BY <1>2 DEF Heeds
<1>6. /\ failures[r] \in Nat /\ Len(sent[r]) \in Nat /\ failures[r] < Len(sent[r])
      /\ queue[r] = <<>> /\ toRecord[r] = <<>> /\ decisions[r] = None
      /\ \E b \in DOMAIN sent[r] : sent[r][b] = batch[r]
  BY <1>1, <1>4 DEF Typed, Staged
<1>7. n \in Nat /\ n <= Len(sent[r])
  BY <1>6
<1>8. /\ pc'[r] = "record" /\ pc' \in [Runs -> {"lookup", "await", "record", "write",
                                                 "next", "done", "crashed"}]
      /\ toRecord'[r] = valid /\ toRecord' \in [Runs -> Seq(Result)]
      /\ failures'[r] = n /\ failures' \in [Runs -> Nat]
  BY <1>1, <1>2, <1>3, <1>4, <1>5, <1>7 DEF Typed
<1>9. answered' \subseteq Runs \X Items \X (0 .. Unit) \X (0 .. Unit) \X BOOLEAN
  <2>1. said \subseteq Runs \X Items \X (0 .. Unit) \X (0 .. Unit) \X BOOLEAN
    BY <1>5
  <2>. QED BY <1>1, <1>2, <2>1 DEF Typed
<1>10. Typed'
  BY <1>1, <1>4, <1>8, <1>9 DEF Typed
<1>11. Fits(r)'
  BY <1>1, <1>4, <1>7, <1>8 DEF RunInv, Fits
<1>12. Parted(r)'
  BY <1>1, <1>4 DEF Parted, BatchSets
<1>13. Staged(r)'
  BY <1>4, <1>6, <1>8 DEF Staged
<1>14. Recorded(r)'
  <2>1. Distinct(fresh[r]) /\ ToSet(batch[r]) \cap ItemsOf(fresh[r]) = {}
        /\ \A i \in ItemsOf(fresh[r]) : Sent(r, i)
    BY <1>1, <1>4 DEF Recorded
  <2>2. \A i \in ItemsOf(valid) : Sent(r, i)
    BY <1>5, <1>6 DEF Sent
  <2>3. \A i : Sent(r, i) => Sent(r, i)'
    BY <1>4 DEF Sent
  <2>4. ItemsOf(valid) \cap ItemsOf(fresh[r]) = {}
    BY <1>5, <2>1
  <2>. QED BY <1>4, <1>5, <1>8, <2>1, <2>2, <2>3, <2>4 DEF Recorded
<1>15. \A o, x : AnsweredTo(o, x) => AnsweredTo(o, x)'
  BY <1>2, AnsweredStays
<1>16. Grounded(r)'
  <2>1. \A x \in ToSet(valid) : AnsweredTo(r, x)'
    BY <1>2, <1>5 DEF AnsweredTo
  <2>. QED BY <1>1, <1>4, <1>8, <1>15, <2>1 DEF Grounded
<1>17. Heard(r)'
  <2>1. ASSUME NEW h \in answered, h[1] = r, h[5] PROVE \E x \in ToSet(fresh[r]) : Says(x, h)
    <3>1. ToSet(toRecord[r]) = {}
      BY <1>6 DEF ToSet
    <3>. QED BY <1>1, <2>1, <3>1 DEF Heard
  <2>2. \A h \in answered' : h \in answered \/ h \in said
    BY <1>2
  <2>. QED BY <1>4, <1>5, <1>8, <2>1, <2>2 DEF Heard
<1>18. CacheTells'
  BY <1>1, <1>2, <1>4, CacheUntouched
<1>19. OnlyMoves(r)
  <2>1. \A h \in said : h[1] = r
    BY <1>5
  <2>2. \A o \in Runs \ {r} : Unmoved(o)
    BY <1>1, <1>2, <1>3, <1>4 DEF Typed, Unmoved
  <2>. QED BY <1>2, <2>1, <2>2 DEF OnlyMoves
<1>. QED BY <1>10, <1>11, <1>12, <1>13, <1>14, <1>16, <1>17, <1>18, <1>19 DEF Keeps, RunInv

\* The call throwing, or the timer firing first.
LEMMA FailStep == ASSUME Inv, NEW r \in Runs, Fail(r) PROVE Keeps(r)
<1>1. Typed /\ RunInv(r) /\ CacheTells /\ Parted(r) /\ Staged(r)
  BY DEF Inv, RunInv
<1>2. /\ pc[r] = "await" /\ pc' = [pc EXCEPT ![r] = "next"]
      /\ failures' = [failures EXCEPT ![r] = failures[r] + 1]
      /\ UNCHANGED <<queue, cached, uncached, batch, toRecord, fresh, sent, decisions, cache,
                     answered>>
  BY DEF Fail
<1>3. /\ failures[r] \in Nat /\ Len(sent[r]) \in Nat /\ failures[r] < Len(sent[r])
      /\ queue[r] = <<>> /\ toRecord[r] = <<>> /\ decisions[r] = None
  BY <1>1, <1>2 DEF Typed, Staged
<1>4. /\ pc'[r] = "next" /\ pc' \in [Runs -> {"lookup", "await", "record", "write",
                                               "next", "done", "crashed"}]
      /\ failures'[r] = failures[r] + 1 /\ failures' \in [Runs -> Nat]
  BY <1>1, <1>2, <1>3 DEF Typed
<1>5. failures'[r] <= Len(sent[r])
  BY <1>3, <1>4
<1>6. Typed'
  BY <1>1, <1>2, <1>4 DEF Typed
<1>7. Fits(r)'
  BY <1>1, <1>2, <1>5 DEF RunInv, Fits
<1>8. Parted(r)' /\ Staged(r)'
  BY <1>1, <1>2, <1>3, <1>4 DEF Parted, BatchSets, Staged
<1>9. Recorded(r)' /\ Heard(r)' /\ Grounded(r)'
  BY <1>1, <1>2, <1>4 DEF RunInv, Recorded, Sent, Heard, Grounded, AnsweredTo
<1>10. CacheTells'
  BY <1>1, <1>2, CacheUntouched
<1>11. OnlyMoves(r)
  BY <1>1, <1>2, Silent DEF Typed, Unmoved
<1>. QED BY <1>6, <1>7, <1>8, <1>9, <1>10, <1>11 DEF Keeps, RunInv

\* Recording the next answer.
LEMMA RecordStep == ASSUME Inv, NEW r \in Runs, Record(r) PROVE Keeps(r)
<1>. DEFINE s == toRecord[r]  h == Head(s)  g == fresh[r]
<1>1. Typed /\ TypeOK /\ RunInv(r) /\ CacheTells /\ Parted(r) /\ Staged(r) /\ Recorded(r)
      /\ Grounded(r) /\ Heard(r)
  BY InvTypes DEF Inv, RunInv
<1>2. PICK x \in Result :
        /\ fresh' = [fresh EXCEPT ![r] = Append(@, x)]
        /\ toRecord' = [toRecord EXCEPT ![r] = Tail(@)]
        /\ Tail(toRecord[r]) \in Seq(Result)
        /\ Follows(x, Policy[r])
        /\ x.item = Head(toRecord[r]).item
        /\ x.relevance = Head(toRecord[r]).relevance
        /\ x.confidence = Head(toRecord[r]).confidence
        /\ \/ cache' = [cache EXCEPT ![Key(r, x.item)] = Torn]
              /\ pc' = [pc EXCEPT ![r] = "write"]
           \/ UNCHANGED <<cache, pc>>
  BY <1>1, RecordValues
<1>3. /\ pc[r] = "record"
      /\ UNCHANGED <<queue, cached, uncached, batch, failures, sent, decisions, answered>>
      /\ s \in Seq(Result) /\ s # <<>> /\ Distinct(s) /\ g \in Seq(Result) /\ Distinct(g)
      /\ ItemsOf(s) \cap ItemsOf(g) = {}
      /\ \A i \in ItemsOf(s) \cup ItemsOf(g) : Sent(r, i)
  BY <1>1 DEF Record, Typed, Recorded
<1>4. /\ h \in Result /\ h \in ToSet(s) /\ h.item \in ItemsOf(s)
      /\ Tail(s) \in Seq(Result) /\ Distinct(Tail(s))
      /\ ToSet(s) = {h} \cup ToSet(Tail(s))
      /\ ItemsOf(Tail(s)) \subseteq ItemsOf(s) \ {h.item}
  BY <1>3, FirstResult
<1>5. x.item = h.item /\ x.relevance = h.relevance /\ x.confidence = h.confidence
  BY <1>2
<1>6. /\ Append(g, x) \in Seq(Result)
      /\ ToSet(Append(g, x)) = ToSet(g) \cup {x}
      /\ ItemsOf(Append(g, x)) = ItemsOf(g) \cup {x.item}
      /\ Distinct(Append(g, x))
  BY <1>3, <1>4, <1>5, OneMoreResult
<1>7. Append(g, x) # <<>>
  BY <1>3
<1>8. /\ fresh' \in [Runs -> Seq(Result)] /\ fresh'[r] = Append(g, x)
      /\ toRecord' \in [Runs -> Seq(Result)] /\ toRecord'[r] = Tail(s)
  BY <1>1, <1>2, <1>4, <1>6 DEF Typed
<1>9. /\ pc' \in [Runs -> {"lookup", "await", "record", "write", "next", "done", "crashed"}]
      /\ pc'[r] \in {"record", "write"} /\ \A o \in Runs \ {r} : pc'[o] = pc[o]
  BY <1>1, <1>2, <1>3 DEF Typed
<1>10. cache' \in [Keys -> Result \cup {Torn, None}]
  BY <1>1, <1>2 DEF Typed
<1>11. Typed'
  BY <1>1, <1>3, <1>8, <1>9, <1>10 DEF Typed
<1>12. Fits(r)' /\ Parted(r)'
  BY <1>1, <1>3 DEF RunInv, Fits, Parted, BatchSets
<1>13. queue[r] = <<>> /\ decisions[r] = None
  BY <1>1, <1>3 DEF Staged
<1>. HIDE DEF s, h, g
<1>14. Staged(r)'
  BY <1>3, <1>7, <1>8, <1>9, <1>13 DEF Staged
<1>15. Recorded(r)'
  <2>1. ItemsOf(Tail(s)) \cap ItemsOf(Append(g, x)) = {}
    BY <1>3, <1>4, <1>5, <1>6
  <2>2. \A i : Sent(r, i) => Sent(r, i)'
    BY <1>3 DEF Sent
  <2>3. \A i \in ItemsOf(Tail(s)) \cup ItemsOf(Append(g, x)) : Sent(r, i)'
    BY <1>3, <1>4, <1>5, <1>6, <2>2
  <2>. QED BY <1>4, <1>6, <1>8, <1>9, <2>1, <2>3 DEF Recorded
<1>16. AnsweredTo(r, x)
  <2>1. AnsweredTo(r, h)
    BY <1>1, <1>4 DEF Grounded, s
  <2>. QED BY <1>5, <2>1 DEF AnsweredTo
<1>17. \A o, y : AnsweredTo(o, y) => AnsweredTo(o, y)'
  BY <1>3, AnsweredStays
<1>18. Grounded(r)'
  <2>1. \A y \in ToSet(Tail(s)) : AnsweredTo(r, y)'
    BY <1>1, <1>4, <1>17 DEF Grounded, s
  <2>2. \A y \in ToSet(Append(g, x)) : AnsweredTo(r, y)' /\ Follows(y, Policy[r])
    BY <1>1, <1>2, <1>6, <1>16, <1>17 DEF Grounded, g
  <2>3. cached'[r] = cached[r]
    BY <1>3
  <2>. QED BY <1>1, <1>8, <1>17, <2>1, <2>2, <2>3 DEF Grounded
<1>19. Heard(r)'
  <2>1. ASSUME NEW a \in answered, a[1] = r, a[5]
        PROVE  \E y \in ToSet(Tail(s)) \cup ToSet(Append(g, x)) : Says(y, a)
    <3>1. PICK y \in ToSet(s) \cup ToSet(g) : Says(y, a)
      BY <1>1, <2>1 DEF Heard, s, g
    <3>2. CASE y = h
      <4>1. Says(x, a)
        BY <1>5, <3>1, <3>2 DEF Says
      <4>. QED BY <1>6, <4>1
    <3>3. CASE y # h
      BY <1>4, <1>6, <3>1, <3>3
    <3>. QED BY <3>2, <3>3
  <2>. QED BY <1>3, <1>8, <2>1 DEF Heard
<1>20. CacheTells'
  <2>1. answered \subseteq answered'
    BY <1>3
  <2>2. cache' = cache \/ cache' = [cache EXCEPT ![Key(r, x.item)] = Torn]
    BY <1>2
  <2>. QED BY <1>1, <1>2, <1>16, <2>1, <2>2, CacheStays
<1>21. OnlyMoves(r)
  BY <1>1, <1>2, <1>3, <1>9, Silent DEF Typed, Unmoved
<1>. QED BY <1>11, <1>12, <1>14, <1>15, <1>18, <1>19, <1>20, <1>21 DEF Keeps, RunInv

\* Closing a cache file.
LEMMA WriteStep == ASSUME Inv, NEW r \in Runs, Write(r) PROVE Keeps(r)
<1>1. Typed /\ TypeOK /\ RunInv(r) /\ CacheTells /\ Staged(r) /\ Grounded(r)
  BY InvTypes DEF Inv, RunInv
<1>2. PICK x \in Result :
        /\ x \in ToSet(fresh[r])
        /\ \/ cache' = [cache EXCEPT ![Key(r, x.item)] = x]
           \/ cache' = [cache EXCEPT ![Key(r, x.item)] = Torn]
           \/ UNCHANGED cache
  BY <1>1, WriteValues
<1>3. /\ pc[r] = "write" /\ pc' = [pc EXCEPT ![r] = "record"]
      /\ UNCHANGED <<queue, cached, uncached, batch, toRecord, fresh, failures, sent,
                     decisions, answered>>
  BY DEF Write, runVars
<1>4. /\ pc'[r] = "record" /\ pc' \in [Runs -> {"lookup", "await", "record", "write",
                                                 "next", "done", "crashed"}]
      /\ cache' \in [Keys -> Result \cup {Torn, None}]
  BY <1>1, <1>2, <1>3 DEF Typed
<1>5. Typed'
  BY <1>1, <1>3, <1>4 DEF Typed
<1>6. Fits(r)' /\ Parted(r)' /\ Staged(r)'
  BY <1>1, <1>3, <1>4 DEF RunInv, Fits, Parted, BatchSets, Staged
<1>7. Recorded(r)' /\ Heard(r)' /\ Grounded(r)'
  BY <1>1, <1>3, <1>4 DEF RunInv, Recorded, Sent, Heard, Grounded, AnsweredTo
<1>8. CacheTells'
  <2>1. Follows(x, Policy[r]) /\ AnsweredTo(r, x)
    BY <1>1, <1>2 DEF Grounded
  <2>2. answered \subseteq answered'
    BY <1>3
  <2>. QED BY <1>1, <1>2, <2>1, <2>2, CacheStays
<1>9. OnlyMoves(r)
  BY <1>1, <1>3, Silent DEF Typed, Unmoved
<1>. QED BY <1>5, <1>6, <1>7, <1>8, <1>9 DEF Keeps, RunInv

\* The last answer of a batch recorded.
LEMMA BatchDoneStep == ASSUME Inv, NEW r \in Runs, BatchDone(r) PROVE Keeps(r)
<1>1. Typed /\ RunInv(r) /\ CacheTells /\ Staged(r)
  BY DEF Inv, RunInv
<1>2. /\ pc[r] = "record" /\ toRecord[r] = <<>> /\ pc' = [pc EXCEPT ![r] = "next"]
      /\ UNCHANGED <<queue, cached, uncached, batch, toRecord, fresh, failures, sent,
                     decisions, cache, answered>>
  BY DEF BatchDone, runVars
<1>3. pc'[r] = "next" /\ pc' \in [Runs -> {"lookup", "await", "record", "write", "next",
                                            "done", "crashed"}]
  BY <1>1, <1>2 DEF Typed
<1>4. Typed'
  BY <1>1, <1>2, <1>3 DEF Typed
<1>5. Fits(r)' /\ Parted(r)' /\ Staged(r)'
  BY <1>1, <1>2, <1>3 DEF RunInv, Fits, Parted, BatchSets, Staged
<1>6. Recorded(r)' /\ Heard(r)' /\ Grounded(r)'
  BY <1>1, <1>2, <1>3 DEF RunInv, Recorded, Sent, Heard, Grounded, AnsweredTo
<1>7. CacheTells'
  BY <1>1, <1>2, CacheUntouched
<1>8. OnlyMoves(r)
  BY <1>1, <1>2, Silent DEF Typed, Unmoved
<1>. QED BY <1>4, <1>5, <1>6, <1>7, <1>8 DEF Keeps, RunInv

\* Deciding.
LEMMA DecideStep == ASSUME Inv, NEW r \in Runs, Decide(r) PROVE Keeps(r)
<1>1. Typed /\ RunInv(r) /\ CacheTells /\ Staged(r)
  BY DEF Inv, RunInv
<1>2. /\ pc[r] \in {"lookup", "next"} /\ queue[r] = <<>> /\ uncached[r] = <<>>
      /\ toRecord[r] = <<>> /\ pc' = [pc EXCEPT ![r] = "done"]
      /\ decisions' = [decisions EXCEPT ![r] = Outcome(r)]
      /\ UNCHANGED <<queue, cached, uncached, batch, toRecord, fresh, failures, sent,
                     cache, answered>>
  BY <1>1 DEF Decide, Staged, Outcome, Verdicts
<1>3. Outcome(r) \in Seq(Result)
  BY <1>1, VerdictsSelect DEF Typed, Outcome
<1>4. /\ pc'[r] = "done" /\ pc' \in [Runs -> {"lookup", "await", "record", "write", "next",
                                               "done", "crashed"}]
      /\ decisions'[r] = Outcome(r) /\ decisions' \in [Runs -> Seq(Result) \cup {None}]
  BY <1>1, <1>2, <1>3 DEF Typed
<1>5. Typed'
  BY <1>1, <1>2, <1>4 DEF Typed
<1>6. Fits(r)' /\ Parted(r)' /\ Staged(r)'
  BY <1>1, <1>2, <1>4 DEF RunInv, Fits, Parted, BatchSets, Staged, Outcome
<1>7. Recorded(r)' /\ Heard(r)' /\ Grounded(r)'
  BY <1>1, <1>2, <1>4 DEF RunInv, Recorded, Sent, Heard, Grounded, AnsweredTo
<1>8. CacheTells'
  BY <1>1, <1>2, CacheUntouched
<1>9. OnlyMoves(r)
  BY <1>1, <1>2, Silent DEF Typed, Unmoved
<1>. QED BY <1>5, <1>6, <1>7, <1>8, <1>9 DEF Keeps, RunInv

\* The process killed.
LEMMA CrashStep == ASSUME Inv, NEW r \in Runs, Crash(r) PROVE Keeps(r)
<1>1. Typed /\ RunInv(r) /\ CacheTells /\ Staged(r)
  BY DEF Inv, RunInv
<1>2. /\ pc[r] \notin {"done", "crashed"} /\ pc' = [pc EXCEPT ![r] = "crashed"]
      /\ UNCHANGED <<queue, cached, uncached, batch, toRecord, fresh, failures, sent,
                     decisions, cache, answered>>
  BY DEF Crash, runVars
<1>3. pc'[r] = "crashed" /\ pc' \in [Runs -> {"lookup", "await", "record", "write", "next",
                                               "done", "crashed"}]
  BY <1>1, <1>2 DEF Typed
<1>4. Typed'
  BY <1>1, <1>2, <1>3 DEF Typed
<1>5. Fits(r)' /\ Parted(r)' /\ Staged(r)'
  BY <1>1, <1>2, <1>3 DEF RunInv, Fits, Parted, BatchSets, Staged
<1>6. Recorded(r)' /\ Heard(r)' /\ Grounded(r)'
  BY <1>1, <1>2, <1>3 DEF RunInv, Recorded, Sent, Heard, Grounded, AnsweredTo
<1>7. CacheTells'
  BY <1>1, <1>2, CacheUntouched
<1>8. OnlyMoves(r)
  BY <1>1, <1>2, Silent DEF Typed, Unmoved
<1>. QED BY <1>4, <1>5, <1>6, <1>7, <1>8 DEF Keeps, RunInv

-----------------------------------------------------------------------------
(* The theorems.                                                           *)

\* The invariant is inductive: a step of one run keeps what concerns it and the
\* cache, and the others are not moved.
LEMMA InvStep == Inv /\ [Next]_vars => Inv'
<1>. SUFFICES ASSUME Inv, [Next]_vars PROVE Inv'
  OBVIOUS
<1>1. CASE Next
  <2>1. PICK r \in Runs : Step(r) \/ Crash(r)
    BY <1>1 DEF Next
  <2>2. Keeps(r)
    BY <2>1, LookupStep, AskStep, AnswerStep, FailStep, RecordStep, WriteStep,
       BatchDoneStep, DecideStep, CrashStep DEF Step
  <2>3. \A o \in Runs \ {r} : RunInv(o)'
    BY <2>2, OthersKeep DEF Keeps, Inv
  <2>. QED BY <2>2, <2>3 DEF Inv, Keeps
<1>2. CASE UNCHANGED vars
  <2>1. Typed' /\ CacheTells' /\ answered' = answered
    BY <1>2, CacheUntouched DEF vars, Inv, Typed
  <2>2. ASSUME NEW r \in Runs PROVE RunInv(r)'
    <3>1. RunInv(r)
      BY DEF Inv
    <3>2. Fits(r)' /\ Parted(r)' /\ Staged(r)'
      BY <1>2, <3>1 DEF vars, RunInv, Fits, Parted, BatchSets, Staged, Outcome
    <3>3. Recorded(r)' /\ Heard(r)' /\ Grounded(r)'
      BY <1>2, <3>1 DEF vars, RunInv, Recorded, Sent, Heard, Grounded, AnsweredTo
    <3>. QED BY <3>2, <3>3 DEF RunInv
  <2>. QED BY <2>1, <2>2 DEF Inv
<1>. QED BY <1>1, <1>2

\* So it holds throughout.
LEMMA InvHolds == Spec => []Inv
BY InitInv, InvStep, PTL DEF Spec

\* Every variable stays within the range the code gives it, whatever the provider
\* answers and the runs do to the cache (run.ts:135-275).
THEOREM TypeCorrect == Spec => []TypeOK
BY InvHolds, InvTypes, PTL

\* What the decisions of a run are, from the invariant.
LEMMA DecidedResults ==
  ASSUME Inv, NEW r \in Runs
  PROVE  /\ cached[r] \in Seq(Result) /\ fresh[r] \in Seq(Result)
         /\ Distinct(cached[r]) /\ Distinct(fresh[r])
         /\ ItemsOf(cached[r]) \cap ItemsOf(fresh[r]) = {}
         /\ decisions[r] # None => pc[r] = "done" /\ decisions[r] = Outcome(r)
         /\ pc[r] = "done" => decisions[r] # None
         /\ \A d : d \in Decided(r) <=>
              /\ pc[r] = "done"
              /\ d \in ToSet(cached[r]) \cup ToSet(fresh[r])
              /\ ~ShouldVeto(d)
<1>1. Typed /\ Parted(r) /\ Staged(r) /\ Recorded(r)
  BY DEF Inv, RunInv
<1>2. cached[r] \in Seq(Result) /\ fresh[r] \in Seq(Result)
  BY <1>1 DEF Typed
<1>3. Distinct(cached[r]) /\ Distinct(fresh[r])
  BY <1>1 DEF Parted, Recorded
<1>4. ASSUME NEW i \in ItemsOf(fresh[r]) PROVE i \notin ItemsOf(cached[r])
  <2>1. PICK b \in DOMAIN sent[r] : i \in ToSet(sent[r][b])
    BY <1>1 DEF Recorded, Sent
  <2>2. BatchSets(r)[b] = ToSet(sent[r][b]) /\ b \in DOMAIN BatchSets(r)
    BY DEF BatchSets
  <2>. QED BY <1>1, <2>1, <2>2 DEF Parted, Apart
<1>5. ItemsOf(cached[r]) \cap ItemsOf(fresh[r]) = {}
  BY <1>4
<1>6. decisions[r] # None => pc[r] = "done" /\ decisions[r] = Outcome(r)
  BY <1>1 DEF Staged
<1>7. /\ Outcome(r) \in Seq(Result)
      /\ \A d : d \in ToSet(Outcome(r)) <=>
           d \in ToSet(cached[r]) \cup ToSet(fresh[r]) /\ ~ShouldVeto(d)
  BY <1>2, VerdictsSelect DEF Outcome
<1>8. pc[r] = "done" => decisions[r] = Outcome(r) /\ decisions[r] # None
  BY <1>1, <1>7, NoneAssumption DEF Staged
<1>9. \A d : d \in Decided(r) <=>
        /\ pc[r] = "done"
        /\ d \in ToSet(cached[r]) \cup ToSet(fresh[r])
        /\ ~ShouldVeto(d)
  BY <1>6, <1>7, <1>8 DEF Decided
<1>. QED BY <1>2, <1>3, <1>5, <1>6, <1>8, <1>9

\* The action of a decision is the one the run's own thresholds give its score, for
\* every policy and also through the cache (run.ts:155-165, 217-230).
THEOREM DecisionsFollowPolicyTheorem == Spec => []DecisionsFollowPolicy
<1>1. Inv => DecisionsFollowPolicy
  <2>1. ASSUME Inv, NEW r \in Runs, NEW d \in Decided(r) PROVE Follows(d, Policy[r])
    BY <2>1, DecidedResults DEF Inv, RunInv, Grounded
  <2>. QED BY <2>1 DEF DecisionsFollowPolicy, Follows
<1>. QED BY InvHolds, <1>1, PTL

\* A decision repeats a score the provider gave about that very item, to this run
\* or, through the cache, to another (sanitize.ts:47-65, run.ts:162-163, 237-241).
THEOREM DecisionsWereAnsweredTheorem == Spec => []DecisionsWereAnswered
<1>1. Inv => DecisionsWereAnswered
  <2>1. ASSUME Inv, NEW r \in Runs, NEW d \in Decided(r)
        PROVE  \E o \in IF CacheOn THEN Runs ELSE {r} : AnsweredTo(o, d)
    <3>1. d \in ToSet(cached[r]) \/ d \in ToSet(fresh[r])
      BY <2>1, DecidedResults
    <3>2. CASE d \in ToSet(cached[r])
      BY <2>1, <3>2 DEF Inv, RunInv, Grounded
    <3>3. CASE d \in ToSet(fresh[r])
      <4>1. AnsweredTo(r, d)
        BY <2>1, <3>3 DEF Inv, RunInv, Grounded
      <4>. QED BY <4>1
    <3>. QED BY <3>1, <3>2, <3>3
  <2>2. \A r \in Runs : \A d \in Decided(r) :
          (\E o \in IF CacheOn THEN Runs ELSE {r} : AnsweredTo(o, d)) =>
            \E o \in IF CacheOn THEN Runs ELSE {r}, alone \in BOOLEAN :
              <<o, d.item, d.relevance, d.confidence, alone>> \in answered
    BY DEF AnsweredTo
  <2>. QED BY <2>1, <2>2 DEF DecisionsWereAnswered
<1>. QED BY InvHolds, <1>1, PTL

\* A run decides an item once (run.ts:163, sanitize.ts:51-55).
THEOREM OneDecisionPerItemTheorem == Spec => []OneDecisionPerItem
<1>1. Inv => OneDecisionPerItem
  <2>1. ASSUME Inv, NEW r \in Runs, decisions[r] # None PROVE Distinct(decisions[r])
    <3>1. decisions[r] = Verdicts(cached[r], fresh[r])
      BY <2>1, DecidedResults DEF Outcome
    <3>. QED BY <2>1, <3>1, DecidedResults, VerdictsSelect
  <2>2. ASSUME NEW s, Distinct(s) PROVE IsInjective([n \in DOMAIN s |-> s[n].item])
    BY <2>2 DEF Distinct, IsInjective
  <2>. QED BY <2>1, <2>2 DEF OneDecisionPerItem
<1>. QED BY InvHolds, <1>1, PTL

\* By the end a candidate was found in the cache or asked about in one batch, for
\* every number of candidates and every limit on batches (run.ts:149-241,
\* batch.ts:11-36).
THEOREM AskedOnceOrCachedTheorem == Spec => []AskedOnceOrCached
<1>1. ASSUME Inv, NEW r \in Runs, pc[r] = "done"
      PROVE  LET found == [n \in DOMAIN cached[r] |-> cached[r][n].item]
                 asked == [b \in DOMAIN sent[r] |-> ToSet(sent[r][b])]
             IN  /\ IsInjective(found) /\ \A b \in DOMAIN asked : IsInjective(sent[r][b])
                 /\ \A b \in DOMAIN asked : asked[b] \cap ToSet(found) = {}
                 /\ \A b, c \in DOMAIN asked : b # c => asked[b] \cap asked[c] = {}
                 /\ Items = ToSet(found) \cup UNION {asked[b] : b \in DOMAIN asked}
  <2>. DEFINE found == [n \in DOMAIN cached[r] |-> cached[r][n].item]
              asked == BatchSets(r)
  <2>1. /\ Distinct(cached[r]) /\ \A b \in DOMAIN sent[r] : IsInjective(sent[r][b])
        /\ Apart(ToSet(queue[r]), ToSet(uncached[r]), ItemsOf(cached[r]), asked)
        /\ queue[r] = <<>> /\ uncached[r] = <<>>
    BY <1>1 DEF Inv, RunInv, Parted, Staged
  <2>2. ToSet(<<>>) = {}
    BY DEF ToSet
  <2>3. Apart({}, {}, ItemsOf(cached[r]), asked)
    BY <2>1, <2>2
  <2>4. IsInjective(found) /\ ToSet(found) = ItemsOf(cached[r])
    BY <2>1 DEF Distinct, IsInjective, ItemsOf, ToSet
  <2>5. DOMAIN asked = DOMAIN sent[r]
    BY DEF BatchSets
  <2>6. /\ \A b \in DOMAIN asked : asked[b] \subseteq Items
        /\ ItemsOf(cached[r]) \subseteq Items
    <3>1. sent[r] \in Seq(Seq(Items)) /\ cached[r] \in Seq(Result)
      BY <1>1 DEF Inv, Typed
    <3>2. \A b \in DOMAIN sent[r] : sent[r][b] \in Seq(Items)
      BY <3>1
    <3>3. \A n \in DOMAIN cached[r] : cached[r][n] \in Result
      BY <3>1
    <3>4. \A b \in DOMAIN sent[r] : ToSet(sent[r][b]) \subseteq Items
      BY <3>2 DEF ToSet
    <3>. QED BY <3>3, <3>4 DEF BatchSets, ItemsOf, Result
  <2>. HIDE DEF found, asked
  <2>7. Items = ItemsOf(cached[r]) \cup UNION {asked[b] : b \in DOMAIN asked}
    BY <2>3, <2>6 DEF Apart
  <2>8. /\ \A b \in DOMAIN asked : asked[b] \cap ItemsOf(cached[r]) = {}
        /\ \A b, c \in DOMAIN asked : b # c => asked[b] \cap asked[c] = {}
    BY <2>3 DEF Apart
  <2>9. /\ IsInjective(found) /\ \A b \in DOMAIN asked : IsInjective(sent[r][b])
        /\ \A b \in DOMAIN asked : asked[b] \cap ToSet(found) = {}
        /\ \A b, c \in DOMAIN asked : b # c => asked[b] \cap asked[c] = {}
        /\ Items = ToSet(found) \cup UNION {asked[b] : b \in DOMAIN asked}
    BY <2>1, <2>4, <2>5, <2>7, <2>8
  <2>. QED BY <2>9 DEF found, asked, BatchSets
<1>2. Inv => AskedOnceOrCached
  BY <1>1 DEF AskedOnceOrCached
<1>. QED BY InvHolds, <1>2, PTL

\* What the provider said of an item, once and in time, is decided, unless and only
\* unless it would drop what a rule retains, whatever other batches came to
\* (run.ts:187-241, 249-270, apply.ts:38-56).
THEOREM FailuresStayLocalTheorem == Spec => []FailuresStayLocal
<1>1. ASSUME Inv, NEW r \in Runs, pc[r] = "done", NEW said \in answered, said[1] = r, said[5]
      PROVE  (\E d \in Decided(r) : d.item = said[2]) <=>
               ~(/\ ActionFromRelevance(said[3], said[4], Policy[r]) = "DROP"
                 /\ said[2] \in Vetoed)
  <2>1. toRecord[r] = <<>> /\ ToSet(<<>>) = {}
    BY <1>1 DEF Inv, RunInv, Staged, ToSet
  <2>2. PICK x \in ToSet(fresh[r]) : Says(x, said)
    BY <1>1, <2>1 DEF Inv, RunInv, Heard
  <2>3. Follows(x, Policy[r])
    BY <1>1, <2>2 DEF Inv, RunInv, Grounded
  <2>4. ShouldVeto(x) <=> /\ ActionFromRelevance(said[3], said[4], Policy[r]) = "DROP"
                          /\ said[2] \in Vetoed
    BY <2>2, <2>3 DEF Says, Follows, ShouldVeto
  <2>5. ASSUME ~ShouldVeto(x) PROVE \E d \in Decided(r) : d.item = said[2]
    BY <1>1, <2>2, <2>5, DecidedResults DEF Says
  <2>6. ASSUME NEW d \in Decided(r), d.item = said[2] PROVE d = x /\ ~ShouldVeto(x)
    <3>1. d \in ToSet(cached[r]) \cup ToSet(fresh[r]) /\ ~ShouldVeto(d)
      BY <1>1, DecidedResults
    <3>2. d.item = x.item
      BY <2>2, <2>6 DEF Says
    <3>3. d \notin ToSet(cached[r])
      <4>1. x.item \in ItemsOf(fresh[r])
        BY <2>2 DEF ItemsOf, ToSet
      <4>2. d \in ToSet(cached[r]) => d.item \in ItemsOf(cached[r])
        BY DEF ItemsOf, ToSet
      <4>. QED BY <1>1, <3>2, <4>1, <4>2, DecidedResults
    <3>4. d = x
      <4>1. Distinct(fresh[r]) /\ d \in ToSet(fresh[r])
        BY <1>1, <3>1, <3>3, DecidedResults
      <4>. QED BY <2>2, <3>2, <4>1 DEF Distinct, ToSet
    <3>. QED BY <3>1, <3>4
  <2>. QED BY <2>4, <2>5, <2>6
<1>2. Inv => FailuresStayLocal
  BY <1>1 DEF FailuresStayLocal
<1>. QED BY InvHolds, <1>2, PTL

-----------------------------------------------------------------------------
(* The client below a run.                                                 *)

\* With the client below it, a run takes the steps of SemanticRun and no other: the
\* posts, their timers and their retries are not seen by it (client.ts:45-69).
THEOREM JevRunsTheRun == JevSpec => Spec
<1>1. JevInit => Init
  BY DEF JevInit
<1>2. [JevNext]_jevVars => [Next]_vars
  <2>1. ASSUME NEW r \in Runs, AskJev(r) \/ AnswerJev(r) \/ FailJev(r) \/ Elsewise(r)
        PROVE  Next
    BY <2>1 DEF AskJev, AnswerJev, FailJev, Elsewise, Next, Step
  <2>2. ASSUME NEW r \in Runs, NEW k, Respond(r, k) \/ PostAgain(r, k)
        PROVE  UNCHANGED vars
    BY <2>2 DEF Respond, PostAgain, SetCall
  <2>3. ASSUME NEW r \in Runs, NEW k, NEW error, PostFails(r, k, error)
        PROVE  UNCHANGED vars
    BY <2>3 DEF PostFails, SetCall
  <2>4. UNCHANGED jevVars => UNCHANGED vars
    BY DEF jevVars
  <2>. QED BY <2>1, <2>2, <2>3, <2>4 DEF JevNext
<1>. QED BY <1>1, <1>2, PTL DEF JevSpec, Spec

-----------------------------------------------------------------------------
(* Posts.                                                                  *)

\* A sum with at most one summand that is not 0 is no more than it.
LEMMA TotalOfOne ==
  ASSUME NEW counts \in Seq(Nat), NEW M \in Nat,
         \A k \in 1 .. Len(counts) : counts[k] <= M,
         \A j, k \in 1 .. Len(counts) : counts[j] # 0 /\ counts[k] # 0 => j = k
  PROVE  Total(counts) <= M
<1>. DEFINE N == Len(counts)
            More(x, n) == x + counts[n]
            sum[n \in 0 .. N] == IF n = 0 THEN 0 ELSE sum[n - 1] + counts[n]
            step == [x \in Nat \X (1 .. N) |-> More(x[1], x[2])]
<1>1. N \in Nat /\ \A n \in 1 .. N : counts[n] \in Nat
  OBVIOUS
<1>2. step \in Steps(Nat, N)
  BY <1>1 DEF Steps
<1>. HIDE DEF step
<1>3. PICK f : IsFold(f, Nat, N, 0, step)
  BY <1>1, <1>2, FoldExists
<1>4. f = [n \in 0 .. N |-> IF n = 0 THEN 0 ELSE f[n - 1] + counts[n]]
  <2>1. ASSUME NEW n \in 1 .. N PROVE f[n] = More(f[n - 1], n)
    <3>0. n - 1 \in 0 .. N
      BY <1>1
    <3>1. f[n - 1] \in Nat
      BY <1>3, <3>0 DEF IsFold
    <3>. HIDE DEF More
    <3>2. step[<<f[n - 1], n>>] = More(f[n - 1], n)
      BY <3>1 DEF step
    <3>. QED BY <3>2, <1>3 DEF IsFold
  <2>. HIDE DEF More
  <2>2. \A n \in 0 .. N : f[n] = IF n = 0 THEN 0 ELSE More(f[n - 1], n)
    BY <2>1, <1>1, <1>3 DEF IsFold
  <2>3. f = [n \in 0 .. N |-> IF n = 0 THEN 0 ELSE More(f[n - 1], n)]
    BY <2>2, <1>3 DEF IsFold
  <2>. QED BY <2>3 DEF More
<1>5. sum = [n \in 0 .. N |-> IF n = 0 THEN 0 ELSE sum[n - 1] + counts[n]]
  BY <1>4
<1>. HIDE DEF sum
<1>. DEFINE T == {n \in 0 .. N :
                    \/ sum[n] = 0
                    \/ \E k \in 1 .. n : counts[k] # 0 /\ sum[n] = counts[k]}
<1>6. 0 \in T
  <2>1. sum[0] = 0
    BY <1>1, <1>5
  <2>. QED BY <1>1, <2>1
<1>7. ASSUME NEW n \in 1 .. N, n - 1 \in T PROVE n \in T
  <2>1. sum[n] = sum[n - 1] + counts[n]
    <3>1. n \in 0 .. N /\ n # 0
      BY <1>1
    <3>. QED BY <1>5, <3>1, Zenon
  <2>2. counts[n] \in Nat
    BY <1>1
  <2>3. CASE sum[n - 1] = 0
    <3>1. sum[n] = counts[n] /\ n \in 1 .. n /\ n \in 0 .. N
      BY <1>1, <2>1, <2>2, <2>3
    <3>. QED BY <3>1
  <2>4. CASE \E k \in 1 .. n - 1 : counts[k] # 0 /\ sum[n - 1] = counts[k]
    <3>1. PICK k \in 1 .. n - 1 : counts[k] # 0 /\ sum[n - 1] = counts[k]
      BY <2>4
    <3>2. k \in 1 .. N /\ k # n /\ k \in 1 .. n
      BY <1>1
    <3>3. counts[n] = 0 /\ counts[k] \in Nat
      BY <1>1, <3>1, <3>2
    <3>4. sum[n] = counts[k]
      BY <2>1, <3>1, <3>3
    <3>5. n \in 0 .. N
      BY <1>1
    <3>. QED BY <3>1, <3>2, <3>4, <3>5
  <2>. QED BY <1>7, <2>3, <2>4
<1>8. N \in T
  <2>. HIDE DEF T
  <2>1. 0 .. N \subseteq T
    BY <1>1, <1>6, <1>7, UpTo
  <2>. QED BY <1>1, <2>1
<1>9. Total(counts) = sum[N]
  BY DEF Total, sum
<1>10. sum[N] <= M
  BY <1>8
<1>. QED BY <1>9, <1>10

\* A call for each batch sent, none posted more often than the retries allow.
Calls == [state : {"posted", "delay", "resolved", "rejected"}, posts : Nat]
Called ==
  /\ calls \in [Runs -> Seq(Calls)]
  /\ \A r \in Runs :
       /\ Len(calls[r]) = Len(sent[r])
       /\ \A k \in 1 .. Len(calls[r]) :
            /\ calls[r][k].posts <= Retries + 1
            /\ calls[r][k].state = "delay" => calls[r][k].posts <= Retries

\* No call is under way at the start.
LEMMA CalledInit == JevInit => Called
<1>1. <<>> \in Seq(Calls) /\ Len(<<>>) = 0
  OBVIOUS
<1>. QED BY <1>1 DEF JevInit, Init, Called

\* A call changed keeps to the bound.
LEMMA CallChanged ==
  ASSUME Called, NEW r \in Runs, NEW k \in DOMAIN calls[r], NEW call \in Calls,
         calls' = [calls EXCEPT ![r][k] = call], UNCHANGED sent,
         call.posts <= Retries + 1, call.state = "delay" => call.posts <= Retries
  PROVE  Called'
<1>. DEFINE s == calls[r]  t == [s EXCEPT ![k] = call]
<1>1. calls' = [calls EXCEPT ![r] = t] /\ s \in Seq(Calls)
  BY DEF Called
<1>2. /\ t \in Seq(Calls) /\ Len(t) = Len(s) /\ k \in 1 .. Len(s)
      /\ \A n \in 1 .. Len(s) : t[n] = IF n = k THEN call ELSE s[n]
  BY <1>1
<1>. HIDE DEF t
<1>3. calls' \in [Runs -> Seq(Calls)]
  BY <1>1, <1>2 DEF Called
<1>4. ASSUME NEW o \in Runs
      PROVE  /\ Len(calls'[o]) = Len(sent[o])
             /\ \A n \in 1 .. Len(calls'[o]) :
                  /\ calls'[o][n].posts <= Retries + 1
                  /\ calls'[o][n].state = "delay" => calls'[o][n].posts <= Retries
  <2>1. CASE o = r
    <3>1. calls'[o] = t
      BY <1>1, <2>1 DEF Called
    <3>. QED BY <1>2, <2>1, <3>1 DEF Called
  <2>2. CASE o # r
    <3>1. calls'[o] = calls[o]
      BY <1>1, <2>2 DEF Called
    <3>. QED BY <3>1 DEF Called
  <2>. QED BY <2>1, <2>2
<1>. QED BY <1>3, <1>4 DEF Called

\* A step keeps the calls in order.
LEMMA CalledStep ==
  ASSUME Inv, Called, [JevNext]_jevVars
  PROVE  Called'
<1>0. Typed
  BY DEF Inv
<1>1. ASSUME NEW r \in Runs, AskJev(r) PROVE Called'
  <2>. DEFINE call == Call("posted", 1)  asked == NextBatch(uncached[r])
  <2>1. /\ calls' = [calls EXCEPT ![r] = Append(calls[r], call)]
        /\ sent' = [sent EXCEPT ![r] = Append(sent[r], asked)]
    BY <1>1 DEF AskJev, Ask
  <2>2. call \in Calls /\ call.posts = 1 /\ call.state = "posted"
    BY DEF Call, Calls
  <2>. DEFINE s == calls[r]  t == Append(s, call)  u == Append(sent[r], asked)
  <2>. HIDE DEF call, asked
  <2>3. s \in Seq(Calls) /\ Len(s) = Len(sent[r]) /\ sent[r] \in Seq(Seq(Items))
    BY <1>0 DEF Called, Typed
  <2>4. /\ t \in Seq(Calls) /\ Len(t) = Len(s) + 1 /\ t[Len(s) + 1] = call
        /\ \A n \in 1 .. Len(s) : t[n] = s[n]
        /\ Len(u) = Len(sent[r]) + 1
    BY <2>2, <2>3
  <2>5. Len(s) \in Nat /\ \A n \in 1 .. Len(s) + 1 : n \in 1 .. Len(s) \/ n = Len(s) + 1
    BY <2>3
  <2>. HIDE DEF t, u
  <2>6. calls' = [calls EXCEPT ![r] = t] /\ sent' = [sent EXCEPT ![r] = u]
    BY <2>1 DEF t, u
  <2>. HIDE DEF s
  <2>7. calls' \in [Runs -> Seq(Calls)]
    BY <2>4, <2>6 DEF Called
  <2>8. calls'[r] = t /\ sent'[r] = u /\ Len(t) = Len(u)
    BY <1>0, <2>3, <2>4, <2>6 DEF Called, Typed
  <2>9. ASSUME NEW n \in 1 .. Len(t)
        PROVE  t[n].posts <= Retries + 1 /\ (t[n].state = "delay" => t[n].posts <= Retries)
    <3>1. CASE n = Len(s) + 1
      <4>1. t[n].posts = 1 /\ t[n].state = "posted"
        BY <2>2, <2>4, <3>1
      <4>2. 1 <= Retries + 1
        BY RetriesAssumption
      <4>. QED BY <4>1, <4>2
    <3>2. CASE n \in 1 .. Len(s)
      BY <2>4, <3>2 DEF Called, s
    <3>. QED BY <2>4, <2>5, <3>1, <3>2
  <2>10. ASSUME NEW o \in Runs \ {r} PROVE calls'[o] = calls[o] /\ sent'[o] = sent[o]
    BY <1>0, <2>6 DEF Called, Typed
  <2>11. ASSUME NEW o \in Runs
         PROVE  /\ Len(calls'[o]) = Len(sent'[o])
                /\ \A k \in 1 .. Len(calls'[o]) :
                     /\ calls'[o][k].posts <= Retries + 1
                     /\ calls'[o][k].state = "delay" => calls'[o][k].posts <= Retries
    <3>1. CASE o = r
      BY <2>8, <2>9, <3>1
    <3>2. CASE o # r
      BY <2>10, <3>2 DEF Called
    <3>. QED BY <3>1, <3>2
  <2>. QED BY <2>7, <2>11 DEF Called
<1>2. ASSUME NEW r \in Runs, AnswerJev(r) \/ FailJev(r) \/ Elsewise(r) PROVE Called'
  <2>1. calls' = calls /\ sent' = sent
    BY <1>2 DEF AnswerJev, FailJev, Elsewise, Answer, Fail, Lookup, Record, Write, BatchDone,
              Decide, Crash, runVars
  <2>. QED BY <2>1 DEF Called
<1>3. ASSUME NEW r \in Runs, NEW k \in DOMAIN calls[r]
      PROVE  calls[r][k] \in Calls /\ k \in 1 .. Len(calls[r])
  BY <1>3 DEF Called
<1>4. ASSUME NEW r \in Runs, NEW k \in DOMAIN calls[r], Respond(r, k) PROVE Called'
  <2>. DEFINE call == [calls[r][k] EXCEPT !.state = "resolved"]
  <2>1. calls' = [calls EXCEPT ![r][k] = call] /\ sent' = sent
    BY <1>4 DEF Respond, SetCall, vars
  <2>2. call \in Calls /\ call.posts = calls[r][k].posts /\ call.state = "resolved"
    BY <1>3 DEF Calls
  <2>. HIDE DEF call
  <2>3. call.posts <= Retries + 1
    BY <1>3, <2>2 DEF Called
  <2>. QED BY <2>1, <2>2, <2>3, CallChanged
<1>5. ASSUME NEW r \in Runs, NEW k \in DOMAIN calls[r], PostAgain(r, k) PROVE Called'
  <2>. DEFINE call == Call("posted", calls[r][k].posts + 1)
  <2>1. calls' = [calls EXCEPT ![r][k] = call] /\ sent' = sent /\ calls[r][k].state = "delay"
    BY <1>5 DEF PostAgain, SetCall, OnCall, vars
  <2>2. calls[r][k].posts \in Nat /\ calls[r][k].posts <= Retries
    BY <1>3, <2>1 DEF Called, Calls
  <2>3. call \in Calls /\ call.posts = calls[r][k].posts + 1 /\ call.state = "posted"
    BY <2>2 DEF Call, Calls
  <2>. HIDE DEF call
  <2>4. call.posts <= Retries + 1
    BY <2>2, <2>3, RetriesAssumption
  <2>. QED BY <2>1, <2>3, <2>4, CallChanged
<1>6. ASSUME NEW r \in Runs, NEW k \in DOMAIN calls[r], NEW error, PostFails(r, k, error)
      PROVE  Called'
  <2>. DEFINE next == IF ShouldRetry(error, calls[r][k].posts) THEN "delay" ELSE "rejected"
              call == [calls[r][k] EXCEPT !.state = next]
  <2>1. calls' = [calls EXCEPT ![r][k] = call] /\ sent' = sent
    BY <1>6 DEF PostFails, SetCall, vars
  <2>2. next \in {"delay", "rejected"} /\ (next = "delay" => calls[r][k].posts <= Retries)
    BY DEF ShouldRetry
  <2>. HIDE DEF next
  <2>3. call \in Calls /\ call.posts = calls[r][k].posts /\ call.state = next
    BY <1>3, <2>2 DEF Calls
  <2>. HIDE DEF call
  <2>4. call.posts <= Retries + 1
    BY <1>3, <2>3 DEF Called
  <2>. QED BY <2>1, <2>2, <2>3, <2>4, CallChanged
<1>7. UNCHANGED jevVars => Called'
  BY DEF jevVars, vars, Called
<1>. QED BY <1>1, <1>2, <1>4, <1>5, <1>6, <1>7 DEF JevNext

\* Both invariants hold throughout.
LEMMA JevHolds == JevSpec => [](Inv /\ Called)
<1>1. JevSpec => []Inv
  BY JevRunsTheRun, InvHolds
<1>2. JevInit => Called
  BY CalledInit
<1>3. Inv /\ Called /\ [JevNext]_jevVars => Called'
  BY CalledStep
<1>. QED BY <1>1, <1>2, <1>3, PTL DEF JevSpec

\* What is posted about an item in a whole run is bounded by the retries, for every
\* number of candidates, batches and runs, though a run may give a call up and ask
\* on (client.ts:71-86, run.ts:187-241).
THEOREM PostsAreBoundedTheorem == JevSpec => []PostsAreBounded
<1>1. ASSUME Inv, Called, NEW r \in Runs, NEW i \in Items PROVE Posts(r, i) <= Retries + 1
  <2>. DEFINE s == calls[r]
              counts == [k \in DOMAIN s |-> IF i \in ToSet(sent[r][k]) THEN s[k].posts ELSE 0]
  <2>1. /\ s \in Seq(Calls) /\ Len(s) \in Nat /\ DOMAIN s = 1 .. Len(s)
        /\ Len(sent[r]) = Len(s)
        /\ \A k \in 1 .. Len(s) : s[k].posts \in Nat /\ s[k].posts <= Retries + 1
    <3>1. s \in Seq(Calls) /\ Len(s) = Len(sent[r])
          /\ \A k \in 1 .. Len(s) : s[k].posts <= Retries + 1
      BY <1>1 DEF Called
    <3>2. Len(s) \in Nat /\ DOMAIN s = 1 .. Len(s) /\ \A k \in 1 .. Len(s) : s[k] \in Calls
      BY <3>1
    <3>. QED BY <3>1, <3>2 DEF Calls
  <2>2. sent[r] \in Seq(Seq(Items)) /\ DOMAIN sent[r] = 1 .. Len(s)
    <3>1. sent[r] \in Seq(Seq(Items))
      BY <1>1 DEF Inv, Typed
    <3>. QED BY <2>1, <3>1
  <2>3. Posts(r, i) = Total(counts)
    BY DEF Posts
  <2>. HIDE DEF s
  <2>4. \A k \in 1 .. Len(s) :
          counts[k] = IF i \in ToSet(sent[r][k]) THEN s[k].posts ELSE 0
    BY <2>1
  <2>5. counts \in Seq(Nat) /\ Len(counts) = Len(s)
    BY <2>1
  <2>. HIDE DEF counts
  <2>6. 0 <= Retries + 1 /\ Retries + 1 \in Nat
    BY RetriesAssumption
  <2>7. \A k \in 1 .. Len(counts) : counts[k] <= Retries + 1
    BY <2>1, <2>4, <2>5, <2>6
  <2>8. ASSUME NEW j \in 1 .. Len(counts), NEW k \in 1 .. Len(counts),
               counts[j] # 0, counts[k] # 0
        PROVE  j = k
    <3>1. i \in ToSet(sent[r][j]) /\ i \in ToSet(sent[r][k])
      BY <2>4, <2>5, <2>8
    <3>2. /\ j \in DOMAIN BatchSets(r) /\ BatchSets(r)[j] = ToSet(sent[r][j])
          /\ k \in DOMAIN BatchSets(r) /\ BatchSets(r)[k] = ToSet(sent[r][k])
      BY <2>2, <2>5 DEF BatchSets
    <3>3. j # k => BatchSets(r)[j] \cap BatchSets(r)[k] = {}
      BY <1>1, <3>2 DEF Inv, RunInv, Parted, Apart
    <3>. QED BY <3>1, <3>2, <3>3
  <2>. QED BY <2>3, <2>5, <2>6, <2>7, <2>8, TotalOfOne
<1>2. Inv /\ Called => PostsAreBounded
  BY <1>1 DEF PostsAreBounded
<1>. QED BY JevHolds, <1>2, PTL

-----------------------------------------------------------------------------
(* Confidences.                                                            *)

\* The answers of this provider are a list of answers, as a run takes them to be.
LEMMA ResultsAreAnswers ==
  ASSUME NEW asked \in Seq(Items)
  PROVE  /\ IsList(ToSemanticResults(asked))
         /\ \A n \in 1 .. Len(ToSemanticResults(asked)) :
              LET x == ToSemanticResults(asked)[n] IN
              JevAnswer[x.item] # None /\ x.confidence = Confidence(JevAnswer[x.item])
<1>. DEFINE passes == [k \in DOMAIN asked |-> JevAnswer[asked[k]] # None]
            scored == Kept(asked, passes)
            Made(i) == [item |-> i, action |-> "KEEP",
                        relevance |-> RelevanceFromScore(JevAnswer[i].score),
                        confidence |-> Confidence(JevAnswer[i])]
            results == [n \in DOMAIN scored |-> Made(scored[n])]
<1>1. DOMAIN asked = 1 .. Len(asked) /\ Len(asked) \in Nat
  OBVIOUS
<1>2. passes \in [1 .. Len(asked) -> BOOLEAN]
  BY <1>1
<1>3. \A k \in 1 .. Len(asked) : passes[k] <=> JevAnswer[asked[k]] # None
  BY <1>1
<1>4. ToSemanticResults(asked) = results
  BY DEF ToSemanticResults
<1>. HIDE DEF passes
<1>5. scored \in Seq(Items) /\ \E at : Selects(at, scored, asked, passes, Len(asked))
  BY <1>2, KeptSelects
<1>. HIDE DEF scored
<1>6. PICK at : Selects(at, scored, asked, passes, Len(asked))
  BY <1>5
<1>7. DOMAIN scored = 1 .. Len(scored) /\ Len(scored) \in Nat
  BY <1>5
<1>8. \A n \in 1 .. Len(scored) : scored[n] \in Items /\ JevAnswer[scored[n]] # None
  <2>1. ASSUME NEW n \in 1 .. Len(scored) PROVE JevAnswer[scored[n]] # None
    BY <1>3, <1>6 DEF Selects
  <2>2. \A n \in 1 .. Len(scored) : scored[n] \in Items
    BY <1>5
  <2>. QED BY <2>1, <2>2
<1>9. ASSUME NEW i \in Items, JevAnswer[i] # None
      PROVE  {RelevanceFromScore(JevAnswer[i].score), Confidence(JevAnswer[i])}
               \subseteq Int \cup {NaN}
  <2>1. JevAnswer[i] \in Score
    BY <1>9, JevAnswerAssumption
  <2>2. JevAnswer[i].score \in Int \cup {NaN}
        /\ JevAnswer[i].confidence \in (0 .. Unit) \cup {NaN}
    BY <2>1 DEF Score
  <2>3. Confidence(JevAnswer[i]) \in Int
    BY <2>2 DEF Confidence
  <2>4. RelevanceFromScore(JevAnswer[i].score) \in Int
    BY <2>2, UnitAssumption, LevelsAssumption DEF RelevanceFromScore
  <2>. QED BY <2>3, <2>4
<1>10. \A n \in 1 .. Len(scored) : results[n] = Made(scored[n])
  BY <1>7
<1>11. Len(results) = Len(scored) /\ results = [n \in 1 .. Len(results) |-> results[n]]
  BY <1>7
<1>. HIDE DEF results
<1>12. \A n \in 1 .. Len(results) : IsAnswer(results[n])
  BY <1>8, <1>9, <1>10, <1>11 DEF IsAnswer
<1>13. IsList(results)
  BY <1>7, <1>11, <1>12 DEF IsList
<1>14. \A n \in 1 .. Len(results) :
         /\ JevAnswer[results[n].item] # None
         /\ results[n].confidence = Confidence(JevAnswer[results[n].item])
  BY <1>8, <1>10, <1>11
<1>. QED BY <1>4, <1>13, <1>14

\* What was said of an item is as sure as the vendor was of it.
Scored ==
  \A h \in answered :
    JevAnswer[h[2]] # None /\ h[4] = ClampUnit(Confidence(JevAnswer[h[2]]))

\* What this provider says is.
LEMMA AnswerScores ==
  ASSUME Inv, Scored, NEW r \in Runs, Answer(r)
  PROVE  Scored'
<1>. DEFINE asked == ToSet(batch[r])  response == ToSemanticResults(batch[r])
            answers == IF response = None THEN <<>> ELSE response
<1>1. batch[r] \in Batches /\ batch[r] \in Seq(Items)
  BY DEF Inv, RunInv, Staged, Typed, Answer
<1>2. Responses(batch[r]) = {response}
  BY <1>1, ProviderAssumption DEF JevResponses
<1>3. answered' = answered \cup Sayings(r, answers, asked)
  <2>1. PICK x \in Responses(batch[r]) :
          answered' = answered \cup Sayings(r, IF x = None THEN <<>> ELSE x, asked)
    BY Zenon DEF Answer
  <2>2. x = response
    BY <1>2, <2>1
  <2>. HIDE DEF response
  <2>. QED BY <2>1, <2>2
<1>4. /\ IsList(response)
      /\ \A n \in 1 .. Len(response) :
           /\ JevAnswer[response[n].item] # None
           /\ response[n].confidence = Confidence(JevAnswer[response[n].item])
  BY <1>1, ResultsAreAnswers
<1>. HIDE DEF response
<1>5. \A n \in DOMAIN answers :
        /\ IsAnswer(answers[n]) /\ JevAnswer[answers[n].item] # None
        /\ answers[n].confidence = Confidence(JevAnswer[answers[n].item])
  <2>1. CASE response = None
    BY <2>1
  <2>2. CASE response # None
    <3>1. DOMAIN response = 1 .. Len(response)
      BY <1>4, Zenon DEF IsList
    <3>. QED BY <1>4, <2>2, <3>1 DEF IsList
  <2>. QED BY <2>1, <2>2
<1>. HIDE DEF answers
<1>6. ASSUME NEW h \in Sayings(r, answers, asked)
      PROVE  JevAnswer[h[2]] # None /\ h[4] = ClampUnit(Confidence(JevAnswer[h[2]]))
  <2>. DEFINE Once(k) == \A j \in DOMAIN answers : answers[j].item = answers[k].item => j = k
              Said(k) == <<r, Clamped(answers[k]).item, Clamped(answers[k]).relevance,
                           Clamped(answers[k]).confidence, Once(k)>>
  <2>1. \E n \in DOMAIN answers : h = Said(n)
    <3>1. \A g : g \in Sayings(r, answers, asked) => \E n \in DOMAIN answers : g = Said(n)
      BY DEF Sayings
    <3>. QED BY <1>6, <3>1
  <2>. HIDE DEF Once
  <2>2. PICK n \in DOMAIN answers :
          h[2] = Clamped(answers[n]).item /\ h[4] = Clamped(answers[n]).confidence
    BY <2>1
  <2>3. /\ Clamped(answers[n]).item = answers[n].item
        /\ Clamped(answers[n]).confidence = ClampUnit(answers[n].confidence)
    BY <1>5, ClampedAnswer
  <2>. QED BY <1>5, <2>2, <2>3
<1>. QED BY <1>3, <1>6 DEF Scored

\* No other step says anything.
LEMMA ScoredStep == Inv /\ Scored /\ [Next]_vars => Scored'
<1>. SUFFICES ASSUME Inv, Scored, [Next]_vars PROVE Scored'
  OBVIOUS
<1>1. CASE UNCHANGED answered
  BY <1>1 DEF Scored
<1>2. ASSUME NEW r \in Runs, Step(r) \/ Crash(r), ~Answer(r) PROVE UNCHANGED answered
  BY <1>2 DEF Step, Lookup, Ask, Fail, Record, Write, BatchDone, Decide, Crash
<1>3. UNCHANGED vars => UNCHANGED answered
  BY DEF vars
<1>. QED BY <1>1, <1>2, <1>3, AnswerScores DEF Next

\* An item is dropped only when the vendor itself said how sure it is, also through
\* the cache, whatever the rubric, the thresholds above 0 and the other runs
\* (map.ts:109, policy.ts:27-44).
THEOREM DropsAreConfidentTheorem == Spec => []DropsAreConfident
<1>1. Init => Scored
  BY DEF Init, Scored
<1>2. ASSUME Inv, Scored, NEW r \in Runs, NEW d \in Decided(r), d.action = "DROP"
      PROVE  JevAnswer[d.item].confidence # NaN
  <2>1. Follows(d, Policy[r]) /\ \E o \in Runs : AnsweredTo(o, d)
    BY <1>2, DecidedResults DEF Inv, RunInv, Grounded
  <2>2. PICK o \in Runs, alone \in BOOLEAN :
          <<o, d.item, d.relevance, d.confidence, alone>> \in answered
    BY <2>1 DEF AnsweredTo
  <2>3. d.confidence = ClampUnit(Confidence(JevAnswer[d.item]))
    BY <1>2, <2>2 DEF Scored
  <2>4. d.confidence >= Policy[r].dropMinConfidence
    BY <1>2, <2>1 DEF Follows, ActionFromRelevance
  <2>5. Policy[r].dropMinConfidence \in Nat \ {0}
    BY ThresholdAssumption
  <2>6. ASSUME JevAnswer[d.item].confidence = NaN PROVE d.confidence = 0
    <3>1. ClampUnit(0) = 0
      BY UnitAssumption DEF ClampUnit
    <3>. QED BY <2>3, <2>6, <3>1 DEF Confidence
  <2>7. ~(0 >= Policy[r].dropMinConfidence)
    BY <2>5
  <2>. QED BY <2>4, <2>6, <2>7
<1>3. Inv /\ Scored => DropsAreConfident
  BY <1>2 DEF DropsAreConfident
<1>. QED BY <1>1, <1>3, InvHolds, ScoredStep, PTL DEF Spec
=============================================================================
