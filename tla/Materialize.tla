---------------------------- MODULE Materialize ----------------------------
(***************************************************************************)
(* The second half of compact() (packages/core/src/pipeline.ts): once the  *)
(* decisions are made, the session is written out twice, as the rules      *)
(* alone would have it and as it is after the semantic layer, and what was *)
(* saved is counted (stats.ts), reported (packages/adapter-*/src/          *)
(* analyze.ts, packages/local/src/analyze-store.ts, snapshot.ts) and added *)
(* up over sessions (aggregate.ts).  A provider may bring its own          *)
(* compress, which is awaited, item by item, and may fail.                 *)
(***************************************************************************)
EXTENDS Compression, ContextRules, Sums

CONSTANTS
  Items,             \* items a session is made of
  ProvidedCosts,     \* what a provider's compress may return, by its cost
  MaxReasons,        \* 12, reasons shown of all reports together
  MaxItems           \* bound on the items of all sessions together

VARIABLES
  session,           \* the items
  hooked,            \* does the provider have a compress?
  answers,           \* candidate -> what the semantic layer says, or None
  decisions,         \* pass -> the decision about each item
  pass,              \* what compact() is doing
  at,                \* the item it has come to
  written,           \* pass -> items written so far
  reports            \* reports of the sessions analyzed so far

vars == <<session, hooked, answers, decisions, pass, at, written, reports>>

Agents == {"codex", "cursor", "claude"}
Passes == {"deterministic", "final"}
NothingWritten == [p \in Passes |-> <<>>]

\* compressLargeOutput: large is what costs more than its budget.
Large(item) ==
  IsCompressibleToolItem(item) /\ TokenCount(item) > BudgetForKind(item.tool.kind)

ASSUME ItemsAssumption ==
  \A item \in Items :
    /\ Large(item) <=> item.result # None /\ item.result.large
    /\ IsText(Content(item)) /\ IsText(ToolText(item))
ASSUME CostsAssumption == ProvidedCosts \subseteq Nat
ASSUME ReasonsAssumption == MaxReasons \in Nat
ASSUME NoAnswerAssumption == None \notin SemanticAnswers

\* Mutant: the answer is the decision.
OutcomeOfAnswer(said, answer) ==
  IF answer = None THEN Winner(said, FALSE) ELSE SemanticDecision(answer)

\* What an item comes to if the semantic layer answered so.
Outcome(said, answer) ==
  IF answer = None THEN Winner(said, FALSE)
  ELSE Winner(said \cup {SemanticDecision(answer)}, TRUE)

\* The decisions of both passes about session s.
Decided(s, answered) ==
  LET said == Said(s) IN
  [deterministic |-> [i \in DOMAIN s |-> Winner(said[i], FALSE)],
   final |-> [i \in DOMAIN s |->
                Outcome(said[i], IF i \in DOMAIN answered THEN answered[i] ELSE None)]]

Init ==
  /\ session = <<>> /\ answers = <<>> /\ decisions = <<>> /\ reports = <<>>
  /\ hooked \in BOOLEAN
  /\ pass = "idle" /\ at = 1 /\ written = NothingWritten

Analyzed == SumOf([k \in DOMAIN reports |-> reports[k].items])

\* The session under analysis is any that agents leave behind.
Grow(item) ==
  /\ pass = "idle"
  /\ Analyzed + Len(session) < MaxItems
  /\ session' = Append(session, item)
  /\ UNCHANGED <<hooked, answers, decisions, pass, at, written, reports>>

\* The deterministic decisions are made, and the semantic layer is asked about
\* the candidates.
Decide ==
  /\ pass = "idle" /\ session # <<>>
  /\ answers' \in [SemanticCandidates(session) -> SemanticAnswers \cup {None}]
  /\ decisions' = Decided(session, answers')
  /\ pass' = "deterministic"
  /\ UNCHANGED <<session, hooked, at, written, reports>>

\* An item as it is written out.
Out(id, tokens, content) == [id |-> id, tokenCount |-> tokens, content |-> content]

Writing == pass \in Passes /\ at <= Len(session)
Action == decisions[pass][at].action
Write(out) ==
  /\ at' = at + 1
  /\ written' = [written EXCEPT ![pass] = @ \o out]
  /\ UNCHANGED <<session, hooked, answers, decisions, pass, reports>>

Skip == Writing /\ Action = "DROP" /\ Write(<<>>)

Copy ==
  /\ Writing /\ Action \in {"PROTECT", "KEEP"}
  /\ Write(<<Out(at, TokenCount(session[at]), Content(session[at]))>>)

Compress ==
  /\ Writing /\ Action = "COMPRESS" /\ ~hooked
  /\ LET compressed == CompressItem(session[at])
     IN  Write(<<Out(at, compressed.retainedTokens, compressed.content)>>)

\* Each pass asks the provider anew.
ProviderCompresses ==
  /\ Writing /\ Action = "COMPRESS" /\ hooked
  /\ \E cost \in ProvidedCosts :
       Write(<<Out(at, cost, <<Line("provided", None, cost)>>)>>)

\* Nothing catches the error: compact() fails, and with it the analysis.
ProviderFails ==
  /\ Writing /\ Action = "COMPRESS" /\ hooked
  /\ pass' = "failed"
  /\ UNCHANGED <<session, hooked, answers, decisions, at, written, reports>>

EndPass ==
  /\ pass \in Passes /\ at > Len(session)
  /\ pass' = IF pass = "deterministic" THEN "final" ELSE "done"
  /\ at' = 1
  /\ UNCHANGED <<session, hooked, answers, decisions, written, reports>>

-----------------------------------------------------------------------------
(* stats.ts                                                                *)

\* Mutant: what an item grew by is taken off the savings.
SavedUnclamped(tokens, retained) == tokens - retained

\* What compressing an item saves: nothing if it grew.
Saved(tokens, retained) == Max({0, tokens - retained})

\* What pass p kept of item i.
RetainedTokens(p, i) ==
  SumOf([k \in DOMAIN written[p] |->
         IF written[p][k].id = i THEN written[p][k].tokenCount ELSE 0])
SavedBy(p, i) == Saved(TokenCount(session[i]), RetainedTokens(p, i))

ItemsWith(p, action) == {i \in DOMAIN session : decisions[p][i].action = action}
ProtectedItems(p) == {i \in DOMAIN session : decisions[p][i].retention = "protected"}
TokensOf(S) == SumOf([i \in S |-> TokenCount(session[i])])

CompactTokens(p) == SumOf([k \in DOMAIN written[p] |-> written[p][k].tokenCount])

ReasonFor(p, i) == ReasonCode(decisions[p][i], session, i)

\* computeStats
ComputeStats(p) ==
  LET compressed == ItemsWith(p, "COMPRESS") dropped == ItemsWith(p, "DROP") IN
  [originalTokens |-> TokensOf(DOMAIN session), compactTokens |-> CompactTokens(p),
   originalItems |-> Len(session), compactItems |-> Len(written[p]),
   keptTokens |-> TokensOf(ItemsWith(p, "KEEP")),
   protectedTokens |-> TokensOf(ItemsWith(p, "PROTECT")),
   droppedTokens |-> TokensOf(dropped),
   compressedTokens |-> SumOf([i \in compressed |-> RetainedTokens(p, i)]),
   protectedVerbatimTokens |-> TokensOf(ProtectedItems(p) \ compressed),
   protectedCompressibleTokens |-> TokensOf(ProtectedItems(p) \cap compressed),
   compressionSavings |-> SumOf([i \in compressed |-> SavedBy(p, i)]),
   dropSavings |-> TokensOf(dropped),
   reductions |->
     [code \in {ReasonFor(p, i) : i \in compressed \cup dropped} |->
        SumOf([i \in {j \in compressed \cup dropped : ReasonFor(p, j) = code} |->
               SavedBy(p, i)])]]

TotalPotentialSavings(stats) == stats.compressionSavings + stats.dropSavings

-----------------------------------------------------------------------------
(* Reports                                                                 *)

\* summarizeItem, as far as a report is made from it
SummarizeItem(i) ==
  [action |-> decisions.final[i].action, rule |-> decisions.final[i].rule,
   retention |-> decisions.final[i].retention,
   savedTokens |-> IF decisions.final[i].action = "DROP" THEN TokenCount(session[i])
                   ELSE SavedBy("final", i),
   semanticAction |-> IF i \in DOMAIN answers THEN answers[i] ELSE None]

\* Mutant: what both would drop counts for the semantic layer.
SemanticDropSavingsOfAll(items) ==
  SumOf([i \in {j \in DOMAIN items : items[j].action = "DROP"} |-> items[i].savedTokens])

SemanticDropSavings(items) ==
  LET dropped == {i \in DOMAIN items :
                    /\ items[i].action = "DROP"
                    /\ items[i].semanticAction = "DROP" \/ items[i].rule = "semantic"}
  IN  SumOf([i \in dropped |-> items[i].savedTokens])

UnsafeDropCount(items) ==
  Cardinality({i \in DOMAIN items :
                 /\ items[i].action = "DROP"
                 /\ items[i].rule \in SafetyRules \/ items[i].retention = "protected"})

\* Codex' analysis does not say what is left, so it is found from the savings.
EffectiveTokens(agent, stats) ==
  IF agent = "codex" THEN Max({0, stats.originalTokens - TotalPotentialSavings(stats)})
  ELSE stats.compactTokens

\* snapshotFromUnknown and toStoreReport
ToStoreReport(agent) ==
  LET stats == ComputeStats("final")
      items == [i \in DOMAIN session |-> SummarizeItem(i)]
  IN  [agent |-> agent, items |-> Len(session),
       originalTokens |-> stats.originalTokens,
       effectiveTokens |-> EffectiveTokens(agent, stats),
       compressionSavings |-> stats.compressionSavings,
       dropSavings |-> stats.dropSavings,
       semanticDropSavings |-> SemanticDropSavings(items),
       reasonCodeTotals |-> stats.reductions,
       unsafeDropCount |-> UnsafeDropCount(items)]

NextSession == /\ session' = <<>> /\ answers' = <<>> /\ decisions' = <<>>
               /\ pass' = "idle" /\ at' = 1 /\ written' = NothingWritten
               /\ UNCHANGED hooked

Report(agent) ==
  /\ pass = "done"
  /\ reports' = Append(reports, ToStoreReport(agent))
  /\ NextSession

\* The hook swallows the failure: there is no report.
Abandon == pass = "failed" /\ UNCHANGED reports /\ NextSession

\* What was saved for each reason, over all reports.
Reasons(stored) ==
  LET each == DOMAIN stored IN
  [code \in UNION {DOMAIN stored[k].reasonCodeTotals : k \in each} |->
     SumOf([k \in {j \in each : code \in DOMAIN stored[j].reasonCodeTotals} |->
              stored[k].reasonCodeTotals[code]])]

\* A reason of these that saved most; the first to be met, in the code.
Largest(reasons, codes) ==
  CHOOSE code \in codes : \A other \in codes : reasons[other] <= reasons[code]

\* The reasons left when the largest n are taken away.
Left(reasons) ==
  LET codes == DOMAIN reasons
      left[n \in 0 .. Cardinality(codes)] ==
        IF n = 0 THEN codes ELSE left[n - 1] \ {Largest(reasons, left[n - 1])}
  IN  left

\* Mutant: the reasons are cut before they are sorted.
TopReasonsUnsorted(reasons) ==
  LET codes == SetToSeq(DOMAIN reasons) IN
  [n \in 1 .. Min({MaxReasons, Len(codes)}) |->
     [code |-> codes[n], tokens |-> reasons[codes[n]]]]

\* sort and slice: the largest reasons, from the largest down.
TopReasons(reasons) ==
  LET left == Left(reasons) IN
  [n \in 1 .. Min({MaxReasons, Cardinality(DOMAIN reasons)}) |->
     [code |-> Largest(reasons, left[n - 1]),
      tokens |-> reasons[Largest(reasons, left[n - 1])]]]

\* aggregateReports, of the reports it was asked for
Aggregate(stored) ==
  LET each == DOMAIN stored
      observed == SumOf([k \in each |-> stored[k].originalTokens])
      effective == SumOf([k \in each |-> stored[k].effectiveTokens])
      drops == SumOf([k \in each |-> stored[k].dropSavings])
      semantic == SumOf([k \in each |-> stored[k].semanticDropSavings])
  IN  [sessionCount |-> Len(stored), tokensObserved |-> observed,
       effectiveTokens |-> effective,
       potentialSavings |-> Max({0, observed - effective}),
       compressionSavings |-> SumOf([k \in each |-> stored[k].compressionSavings]),
       deterministicDropSavings |-> Max({0, drops - semantic}),
       semanticDropSavings |-> semantic,
       unsafeDropCount |-> SumOf([k \in each |-> stored[k].unsafeDropCount]),
       byAgent |-> [a \in Agents |->
                      SumOf([k \in {j \in each : stored[j].agent = a} |->
                             stored[k].originalTokens])],
       topReasons |-> TopReasons(Reasons(stored))]

Next ==
  \/ \E item \in Items : Grow(item)
  \/ Decide \/ Skip \/ Copy \/ Compress \/ ProviderCompresses \/ ProviderFails \/ EndPass
  \/ \E agent \in Agents : Report(agent)
  \/ Abandon

Spec == Init /\ [][Next]_vars

-----------------------------------------------------------------------------
Done == pass = "done"
Dropping(p) == ItemsWith(p, "DROP")
Ids(p) == [k \in DOMAIN written[p] |-> written[p][k].id]
Verbatim(p) == {written[p][k].id : k \in {j \in DOMAIN written[p] :
                  written[p][j].content = Content(session[written[p][j].id])}}

\* What compressors of the repository wrote: pairs of an item and its summary.
Summaries ==
  IF hooked THEN {}
  ELSE UNION {{<<session[written[p][k].id], written[p][k].content>> :
                 k \in {j \in DOMAIN written[p] :
                          decisions[p][written[p][j].id].action = "COMPRESS"}} :
              p \in Passes}
IsCut(summary) == Last(summary) = Ellipsis

\* ARCHITECTURE.md:287-288: "Budgets are compression targets ...  Structured
\* compressors preserve useful fields first, then fit the target."  A summary
\* loses its end and nothing else, only if it is over its target, and no more
\* than it must; but its first line, and a header on top, always stay.
SummariesFitTheTarget ==
  \A s \in Summaries :
    LET item == s[1]  body == Tail(s[2])  full == Full(item)  target == Target(item)
        kept == IF IsCut(body) THEN Front(body) ELSE body
    IN  \/ StrategyOf(item) = "head_tail" /\ body = Content(item)
        \/ /\ IsPrefix(kept, full)
           /\ target > 0 /\ Cost(full) > target /\ Len(full) > 1 <=> IsCut(body)
           /\ IF IsCut(body) THEN /\ Len(kept) = 1 \/ Cost(kept) <= target
                                 /\ Cost(FirstOf(full, Len(kept) + 1)) > target
              ELSE body = full

GivenNames(names) == Kept(names, [k \in DOMAIN names |-> names[k] # None])

\* Was the failing test printed right under the failing file?
PrintedUnder(text, file, test) ==
  \E k \in 2 .. Len(text) : /\ text[k - 1].is = "FAIL" /\ text[k - 1].name = file
                            /\ text[k].is = "named" /\ text[k].name = test

\* Every failing file names one failing test.
OneTestPerFile(text) ==
  \A k \in DOMAIN text :
    /\ text[k].is = "FAIL" =>
         k < Len(text) /\ text[k + 1].is = "named"
    /\ text[k].is = "named" => k > 1 /\ text[k - 1].is = "FAIL"

\* compress.test.ts:65, "summarizes a huge build failure without inventing
\* errors": the errors, failing files and failing tests of a summary are those of
\* the output that have a name, in its order, each error once, and all of them
\* unless the summary was cut; and a failing test is listed under the file it was
\* printed under, if every failing file has one.
SummariesTellTheOutput ==
  \A s \in Summaries :
    LET text == ToolText(s[1])
        told(is) == Names(LinesThat(s[2], {is}))
        printed(is) == GivenNames(Names(LinesThat(text, {is})))
        complete(a, b) == IsPrefix(a, b) /\ (IsCut(s[2]) \/ a = b)
    IN  CASE StrategyOf(s[1]) = "test_summary" ->
               /\ complete(told("file"), printed("FAIL"))
               /\ complete(told("test"), printed("named"))
               /\ OneTestPerFile(text) =>
                    \A k \in 1 .. Len(s[2]) : s[2][k].is = "test" =>
                      /\ k > 1 /\ s[2][k - 1].is = "file"
                      /\ PrintedUnder(text, s[2][k - 1].name, s[2][k].name)
          [] StrategyOf(s[1]) = "error_extract" ->
               complete(told("error"), Distinct(Names(LinesThat(text, {"error"}))))
          [] OTHER -> TRUE

\* SAFETY.md:19-20: what is retained is in what is written, and word for word
\* unless compressing it is allowed.  The semantic layer shrinks what the rules
\* leave: nothing the rules dropped comes back, and nothing they shortened is
\* written in full.
SemanticOnlyShrinks ==
  Done =>
    /\ \A p \in Passes :
         /\ ToSet(Ids(p)) = DOMAIN session \ Dropping(p)
         /\ \A k \in 1 .. Len(Ids(p)) - 1 : Ids(p)[k] < Ids(p)[k + 1]
         /\ ProtectedItems(p) \subseteq ToSet(Ids(p))
         /\ \A i \in DOMAIN session :
              decisions[p][i].compression = "forbidden" => i \in Verbatim(p)
    /\ Dropping("deterministic") \subseteq Dropping("final")
    /\ ProtectedItems("deterministic") = ProtectedItems("final")
    /\ ItemsWith("deterministic", "COMPRESS") \cap ItemsWith("final", "KEEP") = {}

\* What compressing added to items in place of shortening them.
Growth(p) ==
  SumOf([i \in ItemsWith(p, "COMPRESS") |->
         Max({0, RetainedTokens(p, i) - TokenCount(session[i])})])

\* ARCHITECTURE.md, "Statistics": the parts add up.  What is saved, less what
\* items grew by, is what the output is shorter by; the split by action, the
\* split by retention and the split by reason are splits of the same tokens.
SavingsAddUp ==
  Done =>
    \A p \in Passes :
      LET stats == ComputeStats(p) IN
      /\ stats.originalTokens - stats.compactTokens =
           TotalPotentialSavings(stats) - Growth(p)
      /\ stats.compactTokens =
           stats.keptTokens + stats.protectedTokens + stats.compressedTokens
      /\ stats.protectedVerbatimTokens + stats.protectedCompressibleTokens =
           TokensOf(ProtectedItems(p))
      /\ SumOf(stats.reductions) = TotalPotentialSavings(stats)
      /\ p = "final" =>
           SumOf([i \in DOMAIN session |-> SummarizeItem(i).savedTokens]) =
             TotalPotentialSavings(stats)

\* The drops a report puts down to the rules are those the rules alone would have
\* made, whatever the semantic layer said, and none of the drops is unsafe
\* (SAFETY.md, "unsafeDropCount").
DropsAreAttributed ==
  Done =>
    LET report == ToStoreReport("claude") IN
    /\ report.dropSavings - report.semanticDropSavings =
         ComputeStats("deterministic").dropSavings
    /\ report.unsafeDropCount = 0

\* aggregate.ts:95-98: reasons are shown from the largest down, and if any is left
\* out, no report saved more for it than all together did for one that is shown.
ShownFromTheLargest(shown) ==
  /\ \A n \in 1 .. Len(shown) - 1 : shown[n].tokens >= shown[n + 1].tokens
  /\ \A k \in DOMAIN reports : \A code \in DOMAIN reports[k].reasonCodeTotals :
       \/ \E n \in DOMAIN shown : shown[n].code = code
       \/ /\ Len(shown) = MaxReasons
          /\ \A n \in DOMAIN shown : shown[n].tokens >= reports[k].reasonCodeTotals[code]

\* What is added up over all agents' sessions is what was analyzed.  The reasons
\* shown account for all that was saved unless there are more of them than are
\* shown, and for no more than that; and what is saved is never less than what the
\* sessions got shorter by, but more when items grew.
AggregatesAddUp ==
  LET sum == Aggregate(reports)
      shown == sum.topReasons
      told == SumOf([n \in DOMAIN shown |-> shown[n].tokens])
      saved == sum.compressionSavings + sum.deterministicDropSavings
                 + sum.semanticDropSavings
  IN  /\ sum.tokensObserved = SumOf(sum.byAgent)
      /\ ShownFromTheLargest(shown)
      /\ told <= saved
      /\ Len(shown) < MaxReasons => told = saved
      /\ sum.potentialSavings <= saved
      /\ (\A k \in DOMAIN reports : reports[k].agent = "codex")
           => sum.potentialSavings = saved
      /\ sum.unsafeDropCount = 0

\* Violated.  SAFETY.md:15: "the current failure is still the task".  The summary
\* of a failed test run or build does not say that it passed.
FailuresAreNotSummarizedAsSuccess ==
  \A s \in Summaries :
    IsTool(s[1]) /\ IsToolFailure(s[1]) =>
      \A k \in DOMAIN s[2] :
        s[2][k].is = "status" => s[2][k].name \notin {"passed", "succeeded"}
=============================================================================
