# A verification project for fast-jev-llm

fast-jev-llm (the "Context Engine") reads the transcripts of coding agents
(Claude Code, Codex, Cursor), decides for every message and tool call whether it
is worth its place in the context (`PROTECT`, `KEEP`, `COMPRESS`, `DROP`), and
reports what that would save. It runs in the shadow of the agents: a hook starts
it when a session ends, reports go to a store on disk, and `ctx` commands read
them.

This directory holds TLA+ models of the engine and of the processes around it,
TLC configurations that check them on small instances, and theorems checked by
TLAPS. Paths below are relative to the repository; `core`, `local` and `jev` are
`packages/core/src`, `packages/local/src` and `packages/providers/jev/src`.

## The system

```
vendor JSONL --adapter--> Transcript --normalizeTranscript--> items
   items --annotateFileState, protect rules, prune rules--> evaluations
   evaluations --buildDecisionAudit--> deterministic decisions
   open items --eligibility, packing--> runSemanticClassification <--> cache dir
                                              |                        provider (Jev)
   evaluations + semantic decisions --mergeDecisions--> decisions
   decisions --materialize, compressors--> compacted context, statistics
   statistics --summarizeItem, toStoreReport--> report --> store --> aggregateReports
session-end hook --> detached analysis --> store <-- ctx stats / prune / clear
ctx setup / uninstall --> agents' hook files, backups, config.json
```

| Component | State | Operations | Hard part | Correct when |
|---|---|---|---|---|
| Vendor adapters (`packages/adapter-*/src/parser.ts`, `*-normalize.ts`) | messages so far, names of calls by id, session id and directory, counters | one parser step per JSONL line | a file still being written, lines nobody knows, results without ids, a directory that changes | the engine gets every text, call and result the file tells, once and in order; one file has one name |
| Normalization (`core/normalize.ts`) | items so far, `Map` of pending calls | read a message; emit leftovers | results in any order, reissued ids, pending calls that move | a pair joins a result to its own call; nothing is lost |
| Rules (`core/rules`, `file-state.ts`, `relations.ts`) | none: functions of the session | thirteen rules, relations, annotation | each scans the session by itself, and all must agree | drops are covered by something later; standing failures, instructions and the task stay |
| Decision engine (`core/engine.ts`) | two folds over an item's evaluations | collect, weigh, select | authority, retention and compression interact; order of groups | a retained item is never dropped; the semantic layer never rescues or overrides |
| Semantic run (`core/semantic`) | candidates, batches, results, cache files | look up, ask, sanitize, record, decide | timeouts, failing or dishonest answers, processes sharing files, kills | only valid answers decide, once per item, under the run's own thresholds; the run ends |
| Jev provider (`jev`) | a call per batch: posts made, state | map scores; post, retry, abort | missing or odd scores; a call that outlives the run's patience | no drop without a confident score; posts are bounded; no call stays under way |
| Pipeline (`core/pipeline.ts`) | one session, two outputs | compact; materialize twice | composition of all of the above as the session grows; a provider's compress that fails | decisions are consistent and final; what is retained is written, once, in order |
| Compression strategies (`core/compress`) | none: functions of an item | select, summarize, fit | parts of a text found by separate expressions; cutting at a budget | a summary tells of the output what it keeps, and loses only its end |
| Statistics, reports, sums (`core/stats.ts`, `adapter-*/analyze.ts`, `local/snapshot.ts`, `aggregate.ts`) | none | count, report, add up | one token counted three ways; three adapters; summaries that grow | the parts add up, and drops are put down to who made them |
| Report store (`local/store.ts`, `hook-run.ts`, `analyze-store.ts`) | report files | write, list, load, prune, clear | concurrent processes, torn files, stale listings | stats tell the store; prune keeps what is young |
| Hook installation (`local/install.ts`, `hooks/`, `config.ts`) | the agents' files, backups, config.json | install, uninstall | overlapping commands, the user's edits, kills in mid-write | the user's content is in the file or in a backup; our hook is there at most once |
| Packing, redaction, views, setup dialogue, doctor | texts | pure functions, printing | none that a model shows | see "What is not modelled" |

Components interact by function calls within a process (the pipeline is one
asynchronous call chain), and between processes only by files: the semantic
cache directory, the report directory, the agents' settings files and
`config.json`. No file is locked and no file is written by rename, so a file is
empty or cut short between `open` and the end of `writeFile`; that is the source
of most interleavings here.

`PROJECT.json` lists the hazards at their lines, with the properties that would
catch each.

## Modules

A step of a module is what happens between two awaits, or one iteration of a
loop whose intermediate states matter. Definitions called "Mutant" are plausible
bugs; none is used by a specification, each makes one property fail when put in
the place of the definition it varies.

**`DecisionTypes`, `DecisionMerge`** - `buildDecisionAudit` for one item (items
do not influence each other). `Collect` is one iteration of the first loop
(retention, compression, the strongest protecting decision), `Weigh` one of the
second (the action winner), `SelectWinner` the last part with its fallbacks. The
constants are any sets of decisions the rules and the semantic layer may emit;
their assumptions say only what `makeDecision` and `toSemanticContextDecision`
guarantee.

**`MergeVerdict`, `MergeContract`** - the abstract specification of the merge: a
verdict that depends only on the *set* of evaluations. `DecisionMerge`
implements it (`MeetsContract`), so no rule's place in the list matters, except
that the semantic group comes last (`SemanticComesLast`).

**`ContextItems`, `Normalize`** - the items of a session, and the loop that makes
them, one message per step. `Session` is what the function would return if the
transcript ended here: leftover calls are appended after everything else. A
session that is analyzed again after it has grown is the next state.

**`ContextRules`** - the protect and prune rules as sets of item positions, what
each emits, the winners (through `MergeVerdict`), semantic eligibility, the
file-state annotation and the relations. What regular expressions find in a text
is a field of the item; what the code makes of it is modelled.

**`SessionCompaction`** - composes the three: `compact()` on a growing session,
for whatever the semantic layer answers.

**`AdapterParser`, `ClaudeParser`, `CursorParser`, `CodexParser`** - the parsers.
A parser is a record (messages, names of calls by id, session, directory,
counters); `ReadLine(p, line, n)` is what one line makes of it, whole: an event
with several parts is one step. `AdapterParser` holds what the vendors share,
naming of files (`RelativeToCwd`) and classification of tools included; the
others are each vendor's own `ingest` and what it calls. Words stand for texts,
names and paths; `EXTENDS`-ed constants of the engine (`ContextItems`) make a
parser's messages those `Normalize` reads.

**`AdapterSession`** - composes a parser with `SessionCompaction`: `Parse` is the
next line of the file, `Engine` the next message. A line also says what it
*tells* (texts, calls, results) and whether it is strange; the parsers do not
look at that, the properties do: they relate the file, past the parser, to the
session.

**`SemanticRun`, `JevAnswers`, `JevClient`** - `runSemanticClassification` in
several processes that share the cache; `Responses(batch)` is what the provider
may answer. `JevAnswers` is the same with Jev's mapping of scores as the
provider, and `JevClient` adds a call of the client for each batch: posts, their
timers, retries; an answer needs the call of the batch under way to have
resolved, while `Fail`, the run's timer, leaves the call to itself.
Cache files are emptied (`Record`), then written (`Write`); two writers of a file
may leave a mixture, which does not parse.

**`Compression`** - `compressItem`: a text is a sequence of lines, each with what
the regular expressions see in it, a name or a count, and a cost; a strategy
makes a sequence of lines of it.

**`Materialize`** - the second half of `compact()`: decisions (the rules' own and
those after any semantic answers), two passes of `materialize` item by item
(`Skip`, `Copy`, `Compress`, `ProviderCompresses`, `ProviderFails`), then
`computeStats`, a report for any of the three agents, and the next session.
`Aggregate` adds the reports up as `aggregateReports` does: totals, and of the
reasons the `MaxReasons` largest, sorted (`TopReasons`). Savings are told by reason
code (`ReasonCode`), not by rule: superseded reads and large outputs have several
codes each. A semantic compression of low confidence (`SEMANTIC_LOW_CONFIDENCE`)
has the code of the others here.

**`HookInstall`** - commands as processes over the agents' files, `backups` and
`config`; `Edit` is the user. **`ReportStore`** - analyses and commands as
processes over the report files; `Grow` is the agent going on with its session.

`MC*` modules give small vocabularies and the constants of the runs.

**`Selection`, `Sums`** - `Kept(s, passes)` is what a loop that skips some elements
keeps, `Joined(parts)` what one that writes part after part has written, and
`SumOf(f)` what a function of indices adds up to. The loops over results,
candidates, hook entries, lines and hunks that a theorem is about are written as
recursive functions of an index (`SetCalls`, `ReadResults`, `Kept`, `Joined`,
`CompactHunks`, `FitToTokenBudget`, `Flat`, `Total`, `Left`), not with the folds of the
community modules: those take operators, and a fact about every operator cannot
be used in a proof.

**`IndexLemmas`, `ContextRules_proofs`** hold lemmas: on indices, on recursive
functions over `0 .. N` (`FoldExists`, `UpTo`), on a sequence without an element,
on `Kept`, and on sums (any order of summing gives one sum; sums of parts; a sum of
sums exchanged); and on verdicts about sets of evaluations and what the rules emit.
**`DecisionMerge_proofs`, `SessionCompaction_proofs`, `Materialize_proofs`,
`JevClient_proofs`, `HookInstall_proofs`, `ReportStore_proofs`** hold the theorems,
each about the module it is named after (and the ones that module composes).

## Runs

| Run | Question | Instance |
|---|---|---|
| `decision_merge` | the loop invariant, the safety promises and the contract of the merge | up to 4 of the 7 shapes rules emit and one of 3 semantic ones: 295,052 states |
| `sessions` | pairing, coverage and finality of drops, agreement of annotation, reasons and relations, standing failures, instructions, eligibility | five vocabularies of 7 to 12 messages, sessions of up to 4: 53,503 states |
| `session_unanswered` | violated: a duplicate has an output | 3 calls without results |
| `adapters` | does the engine hold what the vendor's file tells | files of up to 4 lines in three formats: 167,271 states |
| `adapters_moving` | violated: a superseded read was read again | a Claude session in two directories |
| `semantic_shared` | what decides, how often, after which failures, and that runs end | 2 processes, 2 candidates of equal content, batches of one: 395,497 states |
| `jev` | drops are confident; each run follows its own policy through the shared cache; posts are bounded and calls end | 2 processes under 2 policies, 2 batches each, one retry: 815,409 states |
| `compression` | what summaries keep; what is written, counted, reported and added up | 21 kinds of items; sessions of two, of one and one, or of three of 4 kinds: 105,040 states |
| `compress_status` | violated: the summary of a failure does not say it passed | the same items |
| `hook_install` | the user's content and our hook under overlapping commands, kills and an edit | 2 setups and an uninstall, 2 agents, 4 first files each, 1 edit: 4.3 million states |
| `hook_enabled` | violated: `enabledAgents` were chosen | 1 setup, 1 uninstall |
| `reports` | stats, prune and clear against concurrent analyses | 3 analyses, 2 commands of any kind, clock 0..1: 6.3 million states up to symmetry |

### The bounds

* *Evaluations*: the second loop keeps one winner and the first one protecting
  decision, so a wrong fold shows with two or three evaluations; four leave room
  for a third that interferes. The theorems hold for any number.
* *Messages*: every rule compares an item with others of its kind, so a chain of
  three (dropped, covering, interfering) and a message to age it suffice; late
  answers add one. `RecentItemCount` is 1, so that most items are not
  recent. One vocabulary per session keeps the number of sessions small;
  what the vocabularies have in common (calls, long outputs) is in each.
* *Semantic run*: two processes suffice to tear and to overwrite a file; two
  candidates with equal content are the smallest case in which a cache file
  belongs to two items, and one of them is retained by a rule. Batches of one
  (by both limits: the token limit is 0, below any cost) let one batch fail and
  another succeed, and in `jev` let a call that was given up run beside the next
  one. One retry is the client's default. Scores are quarters.
* *Files*: four lines hold a call, its result, one line in between (torn,
  strange, of the same id or without one) and one after. Files in the directory
  and outside it are written relative, dotted, absolute, after a placeholder and
  as a glob. Each vendor's lines are
  the forms its compatibility document lists and the ones its parser treats
  differently. `adapters_moving` needs two reads in two directories and a message
  to age the first.
* *Outputs*: each kind of item is one that a branch of a compressor tells apart.
  One test run prints the same test under two files, and one build two errors that
  say the same.
  Budgets are so small (4 to 8 lines' worth) that some summaries are cut and
  others not, and that a header makes some items grow. `SlackLines`, `HeadLines`
  and so on stand for the code's 80 characters, 12 hunks, 40 names. Three items
  (`InScope`) let one be superseded and another be dropped by the semantic layer
  in one session; two sessions let agents differ in a sum. `MaxReasons` is 2 where
  the code has 12, so that reasons are cut off in the runs; the rules and the
  semantic layer have more than 12 codes, so it can happen in the code.
* *Hooks*: an agent that only one command edits, one that all edit, and every
  shape of file `install` tells apart (missing, broken, with and without our
  hook, our hook sharing an entry).
* *Reports*: two analyses of one identity (a session that ends twice) and one by
  a newer engine; two commands, so that a prune meets a clear. One tick is enough
  for a report to expire (`OlderThan` is 1) and for one that is young.

TLC's deadlock check is off in all runs because every process here ends; that
runs do end is a property (`RunsEnd`) where anything could keep one waiting.

### Fairness

`semantic_shared` assumes weak fairness of each run's steps other than `Answer`
and `Crash`. The event loop runs what is ready, and `withTimeout`
(`core/semantic/run.ts:53-67`) arms a timer, so `Fail` stays enabled until it or
an answer happens. `jev` assumes the same, and of each call that the client's own
timer aborts a post (`client.ts:89-90`) and that the delay before a retry passes.
Neither the provider nor the service is ever obliged to answer. No other run
assumes any.

### What the violated runs say

* `session_unanswered` - calls without results are hashed by their text, so a
  repeated call drops the earlier one as `DUPLICATE_OUTPUT`. Cursor transcripts
  consist of such calls. ARCHITECTURE.md demands equivalent output.
* `adapters_moving` - Claude's events say where they happened, the parser follows,
  and a file is named relative to the directory of its call. `/repo/a.ts` and
  `/repo/sub/a.ts` are both `a.ts` once the session has gone to `/repo/sub`, and
  the first read is dropped as superseded by the second.
* `compress_status` - the status line of a test summary looks at the exit code and
  at the counts `parseTestCounts` knows. A failure told only by "2 failed", or by
  the error flag, is protected as an unresolved failure and summarized as `TESTS
  PASSED`. The status of a build, too, knows fewer wordings of a failure than the
  rule that protects it (`core/compress/build.ts:82`), so the property speaks of
  builds as well.
* `hook_enabled` - uninstalling the last agent leaves an empty list, which is read
  back as all agents.

Places where code and documents differ that no run shows, because a property next
to them holds of what the code does:

* The duplicate rule also drops test runs, statuses, diffs and listings, across
  what their own rules tell apart (`rules/prune.ts:198`; ARCHITECTURE.md:176-178).
  A `Glob` call has no command, so all of them are dropped as duplicates of a
  later one with the same output, whatever they looked for, although snapshot
  categories "are not inferred from command-string equality" (`EveryDropIsCovered`
  and `FileStateAgrees` say what holds; the vocabulary `listings` has the case).
* The first of two answers about an item decides (`semantic/sanitize.ts:51`;
  SEMANTIC_LAYER.md:36-37 keeps the deterministic decision).
* A score of Jev that is no number is relevance 0 and may drop
  (`jev/map.ts:91-93`; SEMANTIC_LAYER.md:36-38).
* Setup writes the file it read, and loses what the user added in between
  (`local/hooks/claude.ts:141`; SAFETY.md:28).
* A caller's `--cwd` is replaced by that of the next Claude event
  (`adapter-claude/parser.ts:312`; CLAUDE_COMPATIBILITY.md:82 calls it an override).
* A `redacted_thinking` part is skipped (`adapter-claude/parser.ts:82`) and warned
  of as unknown (`adapter-claude/parser.ts:20-32, 402-410`), although
  CLAUDE_COMPATIBILITY.md:112-117 tells unknown parts, which warn, from thinking
  and redacted_thinking, which are skipped (`TranscriptTellsTheFile` excepts such
  a line).
* A file outside the directory keeps the spelling it was given
  (`path-normalize.ts:67-68, 77-79`; CURSOR_COMPATIBILITY.md:86-90 says so), so
  `../a.ts` and `/a.ts` are two files to the engine and a read of one does not
  supersede the other: `SpellingsAgree` claims one name for one file inside the
  directory only. And a path that climbs out of a placeholder is left as it is;
  `posix.normalize` (`core/file-state.ts:5-12`) then takes the placeholder for a
  directory of that name, so `<workspace>/../a.ts` becomes `a.ts`, the name of
  another file (excepted in `SpellingsAgree`).
* A provider's `compress` that throws fails `compact()` (`core/pipeline.ts:142`;
  SAFETY.md:25 has provider failures fail open). `Materialize` has the failure.

## Theorems

Each theorem is for every value of the constants that the assumptions admit: any
messages and sessions of any length, any rules' evaluations, any number of
candidates, batches, processes, agents and files. No theorem needs a set to be
finite, but sums are over the indices of a sequence. Two kinds of proof recur: an invariant strong enough to be inductive,
and, where the code is a function of the session, lemmas about that function.

**`DecisionMerge_proofs`.** `LoopInvariant` (type correctness included),
`RetainedNeverDroppedTheorem`, `ForbiddenKeptVerbatimTheorem`,
`SemanticOnlyEscalatesTheorem`, and `MeetsContractTheorem`: the two loops
implement `MergeContract`, step by step. Assumptions: rules emit decisions of an
authority other than `semantic` (`RuleEvaluationsAssumption`); the semantic layer
emits decisions that neither protect nor forbid compression
(`SemanticEvaluationsAssumption`); "no decision" is no decision.

The safety properties speak of the end and are not inductive. What makes them so
is what each loop knows about the evaluations it has read: `CollectInv` (the item
is retained iff one of them retains it, the protecting decision is one of them
and no other beats it, compression is forbidden iff one forbids it) and
`WeighInv` (the action winner is the default or one of them; no rule's evaluation
read so far outranks it, or it is a semantic one about an eligible item over
weaker heuristic ones; a semantic decision that did not win went no further than
what did). The step case of `WeighInv` needs `SemanticComesLast`: were a rule
weighed after the semantic layer, a weak rule could displace the semantic decision
that had displaced a stronger one. For the contract the winner is shown to be one
of the verdicts on the set: the loop keeps *a* strongest evaluation, and
`VerdictsExist` and the lemmas beside it in `ContextRules_proofs` show that which one
cannot matter.

**`SessionCompaction_proofs`.** `TypeCorrect` (with: the `Map` holds a key once);
`PairsAnswerTheirCallTheorem`, `NothingLostTheorem`, `EveryDropIsCoveredTheorem`,
`FileStateAgreesTheorem`, `DropsAreRelatedTheorem`,
`InstructionsStayVerbatimTheorem`, `UnresolvedFailureSurvivesTheorem`,
`SemanticSeesOpenItemsTheorem`; and the action property
`DropsAreFinalTheorem`. Assumptions: calls and inline results are arrays, a call
has an id and a tool, what answers a call has a result
(`MessagesAssumption`); an absent field is no kind of tool (`NoneAssumption`);
`RecentItemCount` and `MaxMessages` are numbers.

The pairing properties need an invariant each of them lacks. `Joins`: a pending
call is the last one issued under its id and nothing has answered it since; a
pair joins a call with the first result after it, and no two pairs have a call
in common. `CallsKept`: each call issued is in a pair, pending, or issued again
before an answer; `SaidKept`: each tool message's result and each text has its
item. That a message keeps them rests on what its two loops leave after each
index (`SetCallsEntries`, `ReadResultsEntries`): ids may repeat within a
message, and an inline result may answer a call of its own message.

The other properties of a session follow from `TypeOK`: what each rule
emits gives lemmas about the winner (a protecting rule wins over any structural
drop, and so on), and each rule that drops says what comes later.
`EveryDropIsCovered` takes the last item about a subject and shows, rule by rule,
that none drops it. `DropsAreFinal` compares two sessions: `ReadGrows` shows that
a message appends to the items and leaves the calls pending, makes pairs of them
or takes their ids away, and `SessionGrows` that, unless the last happens, every
item after the dropped one that a rule looked at is still after it, possibly
moved.

**`Materialize_proofs`.** `MaterializeInvariant`, and from it
`SemanticOnlyShrinksTheorem`, `DropsAreAttributedTheorem`, `SavingsAddUpTheorem`,
`AggregatesAddUpTheorem`, `SummariesFitTheTargetTheorem` and
`SummariesTellTheOutputTheorem`: for sessions of any length, items with any texts,
any budgets, any answers of the semantic layer, any number of reports.
Assumptions: a text is a sequence of lines with costs, none of which is the mark of
a cut, and a `FAIL` line names a file (`ItemsAssumption`); what a provider's
compressor returns costs something (`CostsAssumption`); silence is no answer
(`NoAnswerAssumption`); budgets and bounds are numbers (`BudgetsAssumption`,
`BoundsAssumption`, `ReasonsAssumption`).

The properties speak of a finished pass or of stored reports. The invariant says
what is so in mid-pass. `SessionInv`: where the two passes stand. `PassInv`: the
decisions are those of the rules and of the answers, and each output is
`WrittenOut` as far as the pass has come (`Progress`): every item before that which
is not dropped is there once, in order, word for word unless it is compressed, and
then as `compressItem` has it unless a provider's hook did it. `ReportsInv`: every
stored report is a `GoodReport`, its parts add up to what it says was saved. The
last is what lets sums of any number of reports add up, of which only the single
report's session is still known. TLC checked the invariant before it was proved.

What the properties then say of a finished pass is arithmetic and texts. The
arithmetic: the sums of a pass are sums over one partition of the items
(`ItemSavings`), of which reductions by reason are another (`SumByParts`), and the
same split of every report gives that of their total (`ReportsAddUp`). What
`aggregateReports` shows of the reasons may be less than the total: by induction on
how many are taken away (`LeftRanks`), those shown are sorted and none left out is
larger, and together with what is left out they make up what was saved
(`RankingAddsUp`, `TopReasonsAre`); all of it is shown when fewer than `MaxReasons`
are.
The texts: what a function of a sequence gives for one element more determines it
(`SeqUpTo`: a set of sequences that has the empty one, and with each sequence those
one element longer, has all). By it `TestFailures` follows `parseFailedTests`
through two lists that are zipped, and `ErrorsTold` the errors through two filters;
`ToldPrefix` and `CutTells` say what a cut leaves of them.

**`JevClient_proofs`: the run.** `TypeCorrect`, `DecisionsWereAnsweredTheorem`,
`DecisionsFollowPolicyTheorem`, `OneDecisionPerItemTheorem`,
`AskedOnceOrCachedTheorem`, `FailuresStayLocalTheorem`. Assumptions: an item is a
candidate once (`CandidatesAssumption`: candidates are made by a loop over the
items); what a provider returns are lists of results (`ResponsesAssumption`);
`UnitAssumption`, `PolicyAssumption`, `BatchAssumption`, `NoneAssumption`.

The inductive invariant says, of each run, where its candidates are (`Parted`:
still to look up, found, still to ask, or in one batch), what is left to do
(`Staged`), that results are about different items it asked about (`Recorded`),
that each repeats an answer given to some run and acts as this run's thresholds
have it (`Grounded`), and that what the provider said once and in time is there
(`Heard`); and of the cache that a whole file holds an answer under the
thresholds of its key (`CacheTells`). The last is what carries `Grounded` from
one process to another; `DecisionsFollowPolicy` is not inductive without it.

**`JevClient_proofs`: the client.** `JevRunsTheRun`: with the client below it a run
takes the steps of `SemanticRun` and no other, so the theorems above hold of it;
`ResultsAreAnswers` shows that Jev's results satisfy what those assume of a
provider. `PostsAreBoundedTheorem` (at most one call per batch, and of a call its
first post and the retries; by `AskedOnceOrCached`'s invariant a candidate is in
one batch) and `DropsAreConfidentTheorem`, which needs `ThresholdAssumption`: the
threshold for drops is above 0. It is (0.8, `core/semantic/policy.ts:6`), and for a
threshold of 0 the property is false: a missing confidence counts as 0.

**`HookInstall_proofs`.** `HookedOnceTheorem` and `UsersContentKeptTheorem`, for
any agents, files, commands and edits. Assumptions: contents are told apart
(`ContentAssumption`), what is there at first has no hook of ours twice
(`InitialAssumption`), a command installs or removes (`CommandAssumption`). The
invariant says what a command holds between its steps: an agent and a document
that lacks our hook (install) or has it (uninstall), and, while nobody else races
for that agent, the user's content, backed up before the file is opened. Lemmas
say what `apply` and `remove` do to any document: they add or take ours and leave
what is the user's. TLC checked this invariant on `hook_install` before it was
proved.

**`ReportStore_proofs`.** `StatsTellTheStoreTheorem` and the action properties
`ReplacedByItsOwnTheorem` and `PruneKeepsYoungTheorem`. Assumptions: analyses and
readers are different processes, a report's name tells its session and version
(`IdentityAssumption`, `CleanIdAssumption`: session ids are UUIDs), contents are
told apart, bounds are numbers. The invariant relates a file to the analysis
that writes it (`Filed`), what an analysis holds to the session it read (`Made`),
what prune is about to remove to the age of whatever may be written there
meanwhile (`Doomed`: a session began once, so any report of it is as old), and the
listing a command works through to the files nobody touched (`Counting`).

### What the proofs taught

* `EveryDropIsCovered` was false for a session TLC had not been given: calls of a
  tool without a command are the same execution whatever their pattern. The
  property now says so, and the vocabulary `listings` has the case.
* `DropsAreFinal` was false when an id is reissued while its call is pending: the
  call for which an item was dropped disappears, and the item comes back. Hence
  `NoneReissued`.
* `PairsAnswerTheirCall` and `NothingLost` used to count items, for messages of at
  most two calls. They now name, for each call of each message, the item that
  stands for it, and hold of messages of any length.
* A CASE whose guards overlap does not say that the first one wins. The ones that
  translated ordered `if`s are nested IFs now.
* `DropsAreConfident` needs a threshold above 0 (see above).
* An assumption on the items of `Materialize` was laid out so that its second half
  was part of its first one's equivalence, and TLC evaluated something weaker than
  it said.
* `SummariesFitTheTarget` used to say of a summary that is not cut that it begins
  the strategy's text. It is all of it, and the property says so now.
* `SummariesTellTheOutput` looked a test's file up by the test's name, which is not
  enough when two files have a test of one name; it now asks that the test was
  printed under the file it is listed under. Errors are the same error by place,
  code and message, not by their whole line.

### Only model-checked

* The four properties of `adapters`. The parsers fold over the parts of an event
  with `FoldLeft`, a fact about which for every operator cannot be used by the
  provers installed; and what a line *tells* is said line by line by the vocabulary
  of the run, so that a theorem would rest on an assumption as long as the parsers.
* Liveness under fairness (`RunsEnd`, `CallsEnd`), and ENABLED.
* Induction over data: what a recursive function computes is not proved in
  general. What each of its steps preserves is (`FoldExists`, `UpTo`, `SeqUpTo`).

No module declares a RECURSIVE operator.

## What is not modelled, and assumptions

* Texts: wordings and origins are told by regular expressions, which are not
  modelled; nor are previews, the wording of reasons, importance, packing,
  redaction. An item
  carries what was found; two items may carry anything the code can find. Names
  of tools and commands are those of the vendors' documents, without pipes.
* The cost of a text is the sum of its lines' costs, as with an estimator a caller
  may bring; the default one rounds up the whole. `head_tail` cuts by lines, not
  characters. An error's place, code and message are one line. The counts a
  summary repeats without comparing them to anything (errors declared by a build,
  files and lines of a diff's last line) are lines like others. The kind of a
  failure (`core/classify.ts:341-360`) is only told as far as a compressor is
  chosen by it: the words of commands and of linters are left out.
* Of a transcript's metadata only the session's id and directory. Codex' calls
  written in JavaScript and its patches, and the directory a command is told to run
  in, are not looked into. Paths climb only where they begin.
* The gate of remote mode (`core/semantic/run.ts:125-133`, sensitive content): a
  refused run takes no step.
* `JevClient` lets a process live on while a call is under way; a session-end
  hook's process exits once it has its decisions, which only ends calls sooner.
* `Normalize` takes any messages, also ones no adapter emits (inline results).
* `Materialize` draws the semantic layer's answers about candidates from all
  possible ones; that `SemanticRun` gives such answers is its own run's matter.
* A backup's own write is one step, and two backups never get one name (the name
  holds a time in milliseconds). A dry run of install takes no step. Users do not
  edit `config.json`.
* Reports: session ids give distinct file names (the vendors' are UUIDs), and
  transcripts carry times; a report of one without is stamped when it is made.
* Several analyses that start at different times are processes that take their
  first step late; a restarted one is a process of its own.
* Known of the code and stated by no property: a slow analysis of a shorter
  transcript may replace the report of a longer one (`local/store.ts:8`); reports
  of sessions whose ids differ only in characters a file name cannot have share a
  file (`local/report-schema.ts:25`); an agent whose file could not be edited is
  enabled all the same (`local/install.ts:97`); an inline result that answers no
  pending call disappears (`core/normalize.ts:224`).

## Plan

Written so far, in this order, the core first: the merge and its theorems;
normalization and the rules; their composition; the semantic run and Jev; hooks;
the report store; the adapters and their composition with the engine; Jev's
client; compressors, materialization, statistics, reports and sums. What is left
to model is small: the gate of remote mode, the setup dialogue, report names that
collide.

Every safety property of the runs that pass is proved, but for those of
`adapters`. A theorem about these would begin with the parsers' folds as functions
of an index, as those of `Normalize` are, and an account of each vendor's lines.

## Running

```
tlc -workers 2 -config Sessions.cfg MCSessionCompaction.tla
tlapm SessionCompaction_proofs.tla
```

The runs and their configurations are listed in `PROJECT.json`.
