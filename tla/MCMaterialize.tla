--------------------------- MODULE MCMaterialize ---------------------------
(***************************************************************************)
(* Materialize over outputs of every kind the compressors tell apart, each *)
(* in the forms that they treat differently.                               *)
(***************************************************************************)
EXTENDS Materialize

CONSTANT Chosen

Tool(name, kind, command) ==
  [name |-> name, kind |-> kind, path |-> None, normalizedPath |-> None,
   command |-> command, testTarget |-> None, glob |-> None, pattern |-> None,
   args |-> command]
Vitest == Tool("Bash", "test_run", "vitest")
Pytest == Tool("Bash", "test_run", "pytest")
Build  == Tool("Bash", "build_run", "npm run build")
Tsc    == Tool("Bash", "command", "tsc")
Diff   == Tool("Bash", "git_diff", "git diff")
Listing == Tool("Bash", "directory_list", "ls -R")
Make   == Tool("Bash", "command", "make")

Ran(tool, lines, isError, exit) ==
  LET says == IF tool.kind = "test_run" THEN SaysOfTest(lines)
              ELSE {c \in {"failed"} : Mentions(lines, {"failed", "fails", "error"})}
      result == [output |-> ToString(lines), lines |-> lines, isError |-> isError,
                 exit |-> exit, says |-> says, large |-> FALSE]
      item == ToolPair("c1", tool, result, 1, 2)
  IN  [item EXCEPT !.result.large = Large(item)]
Says(role, origin, constraint, lines) ==
  MessageItem(role, [origin |-> origin, ack |-> FALSE, constraint |-> constraint,
                     lines |-> lines], 1)

Text(cost) == Line("text", None, cost)
Of(is, name) == Line(is, name, 1)

TestItems ==
  { Ran(Vitest, <<Of("FAIL", "a"), Of("named", "t1"), Text(5)>>, FALSE, "nonzero"),
    Ran(Vitest, <<Of("FAIL", "a"), Of("named", "t1"), Of("FAIL", "b"),
                  Of("named", "t2"), Counts(1, 2)>>, TRUE, None),
    Ran(Vitest, <<Of("named", "t1"), Of("named", "t2"), Of("expected", "e"),
                  Of("FAIL", "b"), Text(3)>>, FALSE, None),
    Ran(Vitest, <<Of("FAIL", "a"), Of("named", "t1"), Of("FAIL", "b"),
                  Of("named", "t1"), Text(3)>>, FALSE, "nonzero"),
    Ran(Vitest, <<Of("PASS", "a"), Text(9), Counts(1, 0)>>, FALSE, "zero"),
    Ran(Vitest, <<Of("PASS", "a")>>, FALSE, None),
    Ran(Pytest, <<Text(9), Of("only failed", "2")>>, FALSE, None) }

BuildItems ==
  { Ran(Build, <<Of("error", "e1"), Of("error", "e1"), Of("error", "e2"),
                 Of("warnings", "1"), Of("failed", "f")>>, TRUE, None),
    Ran(Build, <<Of("error", "e1"), Line("error", "e1", 2), Text(3)>>, FALSE, "nonzero"),
    Ran(Build, <<Text(9), Of("succeeded", "s")>>, FALSE, "zero"),
    Ran(Build, <<Text(9), Of("fails", "f"), Of("succeeded", "s")>>, FALSE, None),
    Ran(Tsc, <<Of("error", "e1"), Of("error", "e2"), Of("error", "e1"), Text(2)>>,
        FALSE, "nonzero"),
    UnpairedCall("c1", Build, 1) }

TextItems ==
  { Ran(Diff, <<Of("diff", "f"), Of("@@", "1"), Of("change", "1"), Of("change", "2"),
                Of("change", "3"), Of("diff", "g"), Of("@@", "2"), Of("change", "4")>>,
        FALSE, None),
    Ran(Diff, <<Text(3), Text(3), Text(3), Text(3)>>, FALSE, None),
    Ran(Listing, <<Entry(<<"src">>), Entry(<<"src", "a">>), Entry(<<"dist", "b">>),
                   Entry(<<"dist", "c">>), Entry(<<"x", "y", "z">>)>>, FALSE, None),
    Ran(Make, <<Text(2), Text(1), Text(1), Text(1)>>, FALSE, "zero"),
    Ran(Make, <<Text(1)>>, FALSE, None),
    UnpairedResult(None, None, [output |-> "o", lines |-> <<Text(6)>>, isError |-> FALSE,
                                exit |-> None, says |-> {}, large |-> TRUE], 1),
    Says("user", "user", TRUE, <<Text(1)>>),
    Says("assistant", "agent", FALSE, <<Text(1), Text(3), Text(1), Text(1)>>) }

AllItems ==
  UNION {CASE v = "tests" -> TestItems [] v = "builds" -> BuildItems
           [] OTHER -> TextItems : v \in Chosen}

\* A third item only in one session of these.
SomeItems ==
  { Ran(Vitest, <<Of("FAIL", "a"), Of("named", "t1"), Text(5)>>, FALSE, "nonzero"),
    Ran(Vitest, <<Of("PASS", "a"), Text(9), Counts(1, 0)>>, FALSE, "zero"),
    Ran(Make, <<Text(2), Text(1), Text(1), Text(1)>>, FALSE, "zero"),
    Says("assistant", "agent", FALSE, <<Text(1), Text(3), Text(1), Text(1)>>) }
InScope ==
  \/ Analyzed + Len(session) < MaxItems
  \/ reports = <<>> /\ ToSet(session) \subseteq SomeItems

AllBudgets == [generic |-> 4, build |-> 6, test |-> 6, gitDiff |-> 8, directoryList |-> 5]
=============================================================================
