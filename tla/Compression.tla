---------------------------- MODULE Compression ----------------------------
(***************************************************************************)
(* compressItem (packages/core/src/compress.ts and compress/): what stands *)
(* in the context for an item that is compressed.                          *)
(*                                                                         *)
(* A text is a sequence of lines; a line says what it is to the            *)
(* compressors, the name or the count it gives, and its cost.  The estimator is one of  *)
(* those a caller may bring (TokenEstimator): the cost of a text is that   *)
(* of its lines, and blank lines, which are left out, cost nothing.        *)
(***************************************************************************)
EXTENDS ContextItems, Selection, Sums, SequencesExt

CONSTANTS
  Budgets,        \* config.toolOutputBudgets, by what is printed
  HeadLines, TailLines, SlackLines,   \* HEAD_CHARS, TAIL_CHARS and the 80
  MaxHunkLines, MaxHunks,             \* 12 and 8
  MaxNames,       \* 12 test files, 40 files or entries
  LastLines       \* 8, how far from the end a build says how it ended

ASSUME BudgetsAssumption ==
  Budgets \in [generic: Int, build: Int, test: Int, gitDiff: Int, directoryList: Int]
ASSUME BoundsAssumption ==
  {HeadLines, TailLines, SlackLines, MaxHunkLines, MaxHunks, MaxNames, LastLines} \subseteq Nat

Line(is, name, cost) == [is |-> is, name |-> name, cost |-> cost]
Count(is, n) == [is |-> is, count |-> n, cost |-> 1]
Counts(passed, failed) == [is |-> "counts", passed |-> passed, failed |-> failed, cost |-> 1]

Cost(lines) == SumOf([k \in DOMAIN lines |-> lines[k].cost])

\* What a text of an item is: no line of it is the mark of a cut ("..." in the
\* output is a line like any other), and a line is that of a failing file by the
\* name after FAIL.
IsText(lines) ==
  /\ lines \in Seq(ToSet(lines))
  /\ \A k \in DOMAIN lines : /\ lines[k].cost \in Nat /\ lines[k].is # "..."
                             /\ lines[k].is = "FAIL" => lines[k].name # None

LinesThat(lines, is) == Kept(lines, [k \in DOMAIN lines |-> lines[k].is \in is])
Names(lines) == [k \in DOMAIN lines |-> lines[k].name]
Mentions(lines, is) == \E k \in DOMAIN lines : lines[k].is \in is

\* uniqueStrings, and every filter by a set of what was seen
Distinct(seq) ==
  Kept(seq, [k \in DOMAIN seq |-> \A j \in 1 .. k - 1 : seq[j] # seq[k]])

FirstOf(seq, n) == SubSeq(seq, 1, Min({n, Len(seq)}))
LastOf(seq, n) == SubSeq(seq, Max({1, Len(seq) - n + 1}), Len(seq))

-----------------------------------------------------------------------------
(* Items and their text                                                    *)

\* formatPair: a pair is its call and its output.
Content(item) ==
  CASE item.kind = "message" -> item.text.lines
    [] item.kind = "tool_pair" ->
         <<Line("call", item.tool.name, 1)>> \o item.result.lines
    [] item.kind = "unpaired_tool_call" -> <<Line("call", item.tool.name, 1)>>
    [] OTHER -> item.result.lines

TokenCount(item) == Cost(Content(item))

ToolText(item) == IF item.result = None THEN Content(item) ELSE item.result.lines
Command(item) ==
  IF IsTool(item) THEN Line("command", Or(item.tool.command, item.tool.name), 1)
  ELSE Line("command", "unknown", 1)
ExitCode(item) == IF item.result = None THEN None ELSE item.result.exit

ExitLines(item) ==
  IF ExitCode(item) = None THEN <<>> ELSE <<Line("exit", ExitCode(item), 1)>>
OriginalLine(item) == Count("original", TokenCount(item))

BudgetForKind(kind) ==
  CASE kind = "build_run"      -> Budgets.build
    [] kind = "test_run"       -> Budgets.test
    [] kind = "git_diff"       -> Budgets.gitDiff
    [] kind = "directory_list" -> Budgets.directoryList
    [] OTHER                   -> Budgets.generic
KindOf(item) == IF IsTool(item) THEN item.tool.kind ELSE None

\* classifyFailureKind, as far as a compressor is chosen by it.  Words of linters
\* and of commands come before those of compilers there, but supports() takes an
\* output with a compiler's error whatever its failure is called.
FailureKind(item) ==
  IF ~IsTool(item) \/ ~IsToolFailure(item) THEN None
  ELSE IF item.tool.kind = "test_run" THEN "test"
  ELSE IF item.tool.kind = "build_run" THEN "build"
  ELSE IF Mentions(ToolText(item), {"error"}) THEN "compile"
  ELSE "unknown"

\* What the wording of a test's output tells classify.ts.  "only failed" is a
\* count of failures without one of passes.
TestCounts(lines) ==
  LET counts == LinesThat(lines, {"counts"}) IN
  IF counts = <<>> THEN Counts(None, None) ELSE Head(counts)
SaysFailed(lines) ==
  \/ TestCounts(lines).failed \notin {None, 0}
  \/ Mentions(lines, {"only failed"})
SaysOfTest(lines) ==
  LET passes == /\ ~SaysFailed(lines)
                /\ Mentions(lines, {"PASS"}) \/ TestCounts(lines).failed = 0
  IN  {c \in {"failed", "passed"} :
         IF c = "passed" THEN passes
         ELSE SaysFailed(lines) \/ (Mentions(lines, {"FAIL"}) /\ ~passes)}

-----------------------------------------------------------------------------
(* compress/shared.ts                                                      *)

Ellipsis == Line("...", None, 1)

\* Mutant: the line that breaks the budget is kept.
FitToTokenBudgetLate(lines, budget) ==
  LET fitted[n \in 0 .. Len(lines)] ==
        IF n = 0 THEN [kept |-> <<>>, full |-> FALSE]
        ELSE IF fitted[n - 1].full THEN fitted[n - 1]
        ELSE IF Cost(fitted[n - 1].kept) > budget
          THEN [kept |-> Append(fitted[n - 1].kept, Ellipsis), full |-> TRUE]
        ELSE [kept |-> Append(fitted[n - 1].kept, lines[n]), full |-> FALSE]
  IN  IF budget <= 0 \/ Cost(lines) <= budget THEN lines ELSE fitted[Len(lines)].kept

\* What the loop of fitToTokenBudget makes of one more line; full: it was left.
PushLine(fitted, line, budget) ==
  IF fitted.full THEN fitted
  ELSE IF Cost(Append(fitted.kept, line)) > budget /\ fitted.kept # <<>>
    THEN [kept |-> Append(fitted.kept, Ellipsis), full |-> TRUE]
  ELSE [kept |-> Append(fitted.kept, line), full |-> FALSE]

\* A text over the budget loses its end; its first line stays.
FitToTokenBudget(lines, budget) ==
  LET fitted[n \in 0 .. Len(lines)] ==
        IF n = 0 THEN [kept |-> <<>>, full |-> FALSE]
        ELSE PushLine(fitted[n - 1], lines[n], budget)
  IN  IF budget <= 0 \/ Cost(lines) <= budget THEN lines ELSE fitted[Len(lines)].kept

\* The header comes on top of the budget.
WrapStructured(strategy, item, body) ==
  LET content == <<Line("header", strategy, 1)>> \o body IN
  [strategy |-> strategy, originalTokens |-> TokenCount(item),
   retainedTokens |-> Cost(content), content |-> content]

-----------------------------------------------------------------------------
(* compress/test.ts                                                        *)

\* The i-th failing file, the i-th failing test and the i-th broken expectation
\* are taken to be one failure.
ParseFailedTests(lines) ==
  LET files == Names(LinesThat(lines, {"FAIL"}))
      named == Names(LinesThat(lines, {"named"}))
      expected == Names(LinesThat(lines, {"expected"}))
      at(seq, i) == IF i \in DOMAIN seq THEN seq[i] ELSE None
      zipped == [i \in 1 .. Max({Len(files), Len(named), 1}) |->
                   [file |-> at(files, i), name |-> at(named, i),
                    message |-> at(expected, i)]]
  IN  Kept(zipped, [i \in DOMAIN zipped |->
                      \/ zipped[i].file # None \/ zipped[i].name # None
                      \/ zipped[i].message # None])

FailureLines(failure) ==
  LET lines == <<Line("file", failure.file, 1), Line("test", failure.name, 1),
                 Line("message", failure.message, 1)>>
  IN  Kept(lines, [k \in DOMAIN lines |-> lines[k].name # None])

TestStatus(item) ==
  LET text == ToolText(item)
      failed == Or(TestCounts(text).failed, Len(ParseFailedTests(text)))
  IN  IF ExitCode(item) = "nonzero" \/ failed > 0 THEN "failed" ELSE "passed"

TestSummary(item) ==
  LET text == ToolText(item)
      counts == TestCounts(text)
      failures == ParseFailedTests(text)
      paths == Distinct(Names(LinesThat(text, {"FAIL", "PASS"})))
      relevant == IF \E k \in DOMAIN failures : failures[k].file # None THEN <<>>
                  ELSE FirstOf(paths, MaxNames)
  IN  <<Line("status", TestStatus(item), 1), Command(item)>> \o ExitLines(item)
      \o <<Counts(counts.passed, Or(counts.failed, Len(failures)))>>
      \o Joined([k \in DOMAIN failures |-> FailureLines(failures[k])])
      \o [k \in DOMAIN relevant |-> Line("relevant", relevant[k], 1)]
      \o <<OriginalLine(item)>>

-----------------------------------------------------------------------------
(* compress/build.ts                                                       *)

\* Mutant: errors are kept as often as they are printed.
ExtractBuildErrorsAll(lines) == LinesThat(lines, {"error"})

\* An error is TypeScript's, and known by its place, code and message, which are
\* its name.
ExtractBuildErrors(lines) ==
  LET errors == LinesThat(lines, {"error"}) IN
  Kept(errors, [k \in DOMAIN errors |-> \A j \in 1 .. k - 1 : errors[j].name # errors[k].name])

\* statusLine.  "failed" is "build failed" or "failed to compile", and "fails"
\* anything else that failed.
BuildStatus(item) ==
  LET text == ToolText(item) IN
  IF ExitCode(item) = "zero" /\ ~Mentions(text, {"failed", "fails"}) THEN "succeeded"
  ELSE IF ExitCode(item) = "nonzero" THEN "failed"
  ELSE IF \/ item.result # None /\ item.result.isError
          \/ Mentions(text, {"failed", "error"}) THEN "failed"
  ELSE IF Mentions(text, {"succeeded"}) THEN "succeeded"
  ELSE "unknown"

\* What the last lines say beside the errors.
LastRelevantLines(text) ==
  Distinct(LinesThat(LastOf(text, LastLines), {"failed", "fails", "succeeded", "warnings"}))

\* An output's own count of its errors, which is shown in place of that of the
\* errors found, is left out.
BuildSummary(item) ==
  LET text == ToolText(item) errors == ExtractBuildErrors(text) IN
  <<Line("status", BuildStatus(item), 1), Command(item)>> \o ExitLines(item)
  \o <<Count("errors", Len(errors))>> \o errors
  \o FirstOf(LinesThat(text, {"warnings"}), 1)
  \o LastRelevantLines(text)
  \o <<OriginalLine(item)>>

-----------------------------------------------------------------------------
(* compress/git-diff.ts                                                    *)

HasDiff(item) == Mentions(ToolText(item), {"diff"})

\* compactHunks: a header or a hunk begins a group, whose body is cut short once;
\* what stands before the first group is left out.
PushToHunk(groups, line) ==
  IF line.is \in {"diff", "@@"} THEN Append(groups, <<line>>)
  ELSE IF groups = <<>> \/ line.is \notin {"change", "stat"} THEN groups
  ELSE IF Len(Last(groups)) < MaxHunkLines
    THEN Append(Front(groups), Append(Last(groups), line))
  ELSE IF Last(Last(groups)) # Ellipsis
    THEN Append(Front(groups), Append(Last(groups), Ellipsis))
  ELSE groups
CompactHunks(lines) ==
  LET groups[n \in 0 .. Len(lines)] ==
        IF n = 0 THEN <<>> ELSE PushToHunk(groups[n - 1], lines[n])
  IN  groups[Len(lines)]

\* Nothing if the text has neither a header nor a count of changes.  The numbers
\* of lines inserted and deleted are left out.
GitDiffSummary(item) ==
  LET text == ToolText(item)
      files == Distinct(LinesThat(text, {"diff"}))
  IN  IF ~Mentions(text, {"diff", "stat"}) THEN <<>>
      ELSE <<Line("status", "diff", 1), Command(item)>>
           \o <<Count("files", Len(files))>>
           \o FirstOf(files, MaxNames)
           \o Joined(FirstOf(CompactHunks(text), MaxHunks))
           \o <<OriginalLine(item)>>

-----------------------------------------------------------------------------
(* compress/directory.ts                                                   *)

NoisyDirectories == {"node_modules", ".git", "dist"}

\* A path is the sequence of its parts.
Entry(path) == [is |-> "entry", path |-> path, cost |-> 1]
NoisyRoots(path) == Kept(path, [k \in DOMAIN path |-> path[k] \in NoisyDirectories])

DirectorySummary(item) ==
  LET entries == LinesThat(ToolText(item), {"entry"})
      paths == [k \in DOMAIN entries |-> entries[k].path]
      noisyAt == {k \in DOMAIN paths : NoisyRoots(paths[k]) # <<>>}
      noisy == Kept(paths, [k \in DOMAIN paths |-> k \in noisyAt])
      shallow == Kept(paths, [k \in DOMAIN paths |-> k \notin noisyAt /\ Len(paths[k]) <= 2])
      top == Distinct([k \in DOMAIN shallow |-> Head(shallow[k])])
      roots == Distinct([k \in DOMAIN noisy |-> Head(NoisyRoots(noisy[k]))])
  IN  <<Line("status", "listing", 1), Count("entries", Len(paths))>>
      \o [k \in DOMAIN FirstOf(top, MaxNames) |-> Line("top", top[k], 1)]
      \o [k \in DOMAIN roots |->
            [is |-> "noisy", name |-> roots[k], cost |-> 1,
             count |-> Cardinality({j \in noisyAt : Head(NoisyRoots(paths[j])) = roots[k]})]]
      \o <<OriginalLine(item)>>

-----------------------------------------------------------------------------
(* compress.ts                                                             *)

\* Both ends of the item, not of the tool's text alone.
Excerpt(item) ==
  LET original == Content(item) IN
  FirstOf(original, HeadLines) \o <<Line("gap", None, 1)>> \o LastOf(original, TailLines)

HeadTail(item) ==
  IF Len(Content(item)) <= HeadLines + TailLines + SlackLines THEN Content(item)
  ELSE FitToTokenBudget(Excerpt(item), Budgets.generic)

SelectCompressionStrategy(item) ==
  IF KindOf(item) = "test_run" \/ FailureKind(item) = "test" THEN "test_summary"
  ELSE IF KindOf(item) = "git_diff" \/ HasDiff(item) THEN "git_diff"
  ELSE IF KindOf(item) = "directory_list" THEN "directory_list"
  ELSE IF \/ KindOf(item) = "build_run"
          \/ FailureKind(item) \in {"compile", "build"}
          \/ Mentions(ToolText(item), {"error"}) THEN "error_extract"
  ELSE "head_tail"

\* A diff without structure falls back on its two ends.
StrategyOf(item) ==
  LET selected == SelectCompressionStrategy(item) IN
  IF selected = "git_diff" /\ GitDiffSummary(item) = <<>> THEN "head_tail" ELSE selected

\* A strategy's text before it is fitted, and the budget it is fitted to.
Full(item) ==
  LET strategy == StrategyOf(item) IN
  CASE strategy = "test_summary"   -> TestSummary(item)
    [] strategy = "git_diff"       -> GitDiffSummary(item)
    [] strategy = "directory_list" -> DirectorySummary(item)
    [] strategy = "error_extract"  -> BuildSummary(item)
    [] OTHER                       -> Excerpt(item)
Target(item) ==
  LET strategy == StrategyOf(item) IN
  CASE strategy = "test_summary"   -> Budgets.test
    [] strategy = "git_diff"       -> Budgets.gitDiff
    [] strategy = "directory_list" -> Budgets.directoryList
    [] strategy = "error_extract"  -> BudgetForKind(KindOf(item))
    [] OTHER                       -> Budgets.generic

CompressItem(item) ==
  LET strategy == StrategyOf(item) IN
  WrapStructured(strategy, item,
                 IF strategy = "head_tail" THEN HeadTail(item)
                 ELSE FitToTokenBudget(Full(item), Target(item)))
=============================================================================
