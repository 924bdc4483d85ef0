---------------------------- MODULE ContextRules ----------------------------
(***************************************************************************)
(* The deterministic rules (packages/core/src/rules), the relations        *)
(* (relations.ts), the file-state annotation (file-state.ts) and semantic  *)
(* eligibility (semantic/eligibility.ts), as operators on a session s: a   *)
(* sequence of items.  An item is named by its index, as in the code,      *)
(* whose ids are numbered positions.                                       *)
(***************************************************************************)
EXTENDS ContextItems, MergeVerdict, FiniteSetsExt

CONSTANT RecentItemCount      \* config.recentItemCount
ASSUME RecentItemCountAssumption == RecentItemCount \in Nat

-----------------------------------------------------------------------------
(* rules/protect.ts                                                        *)

SystemInstructions(s) ==
  {i \in DOMAIN s : ItemLooksLikeSafetyInstruction(s[i])}

ExplicitUserConstraints(s) == {i \in DOMAIN s : IsConstraintMessage(s[i])}

\* Mutant: the last user message, acknowledgement or not.
CurrentTaskIsLastMessage(s) ==
  LET user == {i \in DOMAIN s : IsMessageOf(s[i], "user")}
  IN  IF user = {} THEN {} ELSE {Max(user)}

\* The last user message that says something, or else the last one.
CurrentTask(s) ==
  LET user == {i \in DOMAIN s : IsMessageOf(s[i], "user")}
      substantive == {i \in user : ~s[i].text.ack}
  IN  IF substantive # {} THEN {Max(substantive)}
      ELSE IF user # {} THEN {Max(user)} ELSE {}

\* Mutant: only a later success of any tool is looked for.
UnresolvedErrorsAnySuccess(s) ==
  {f \in DOMAIN s :
     /\ IsTool(s[f]) /\ IsToolFailure(s[f])
     /\ \A j \in f + 1 .. Len(s) : IsTool(s[j]) => ~IsToolSuccess(s[j])}

\* The last failure under a key, unless a success under that key follows it.
UnresolvedErrors(s) ==
  {f \in DOMAIN s :
     /\ IsTool(s[f]) /\ IsToolFailure(s[f])
     /\ \A j \in f + 1 .. Len(s) :
          IsTool(s[j]) /\ FailureKey(s[j].tool) = FailureKey(s[f].tool) =>
            ~IsToolFailure(s[j]) /\ ~IsToolSuccess(s[j])}

RecentItems(s) == {i \in DOMAIN s : i + RecentItemCount > Len(s)}

-----------------------------------------------------------------------------
(* rules/prune.ts                                                          *)

\* dropOlderByKey: all but the last item under each key.
OlderByKey(key) ==
  {i \in DOMAIN key : /\ key[i] # None
                      /\ \E j \in DOMAIN key : j > i /\ key[j] = key[i]}

TestTarget(tool) == Or(tool.testTarget, Or(tool.command, tool.name))
TestKey(item) ==
  IF OfKind(item, "test_run") THEN TestTarget(item.tool) ELSE None
GitStatusKey(item) ==
  IF OfKind(item, "git_status") THEN "git_status" ELSE None
GitDiffKey(item) ==
  IF OfKind(item, "git_diff") THEN "git_diff" ELSE None
ListingKey(item) ==
  IF OfKind(item, "directory_list")
  THEN Or(Or(item.tool.glob, item.tool.pattern),
          Or(Or(item.tool.normalizedPath, item.tool.path),
             Or(item.tool.command, ".")))
  ELSE None

SupersededTestRuns(s)   == OlderByKey([i \in DOMAIN s |-> TestKey(s[i])])
SupersededGitStatus(s)  == OlderByKey([i \in DOMAIN s |-> GitStatusKey(s[i])])
SupersededGitDiff(s)    == OlderByKey([i \in DOMAIN s |-> GitDiffKey(s[i])])
OldDirectoryListings(s) == OlderByKey([i \in DOMAIN s |-> ListingKey(s[i])])

\* Later reads of the file item i reads.
LaterReads(s, i) ==
  {j \in i + 1 .. Len(s) : OfKind(s[j], "file_read")
                           /\ ItemPath(s[j]) = ItemPath(s[i])}

\* Mutant: only the read just before the last one.
SupersededFileReadsPreviousOnly(s) ==
  {i \in DOMAIN s : /\ OfKind(s[i], "file_read") /\ ItemPath(s[i]) # None
                    /\ Cardinality(LaterReads(s, i)) = 1}

\* Mutant: a write of the file supersedes a read of it.
SupersededFileReadsByWrite(s) ==
  {i \in DOMAIN s : /\ OfKind(s[i], "file_read") /\ ItemPath(s[i]) # None
                    /\ \E j \in i + 1 .. Len(s) : OnFile(s[j], ItemPath(s[i]))}

SupersededFileReads(s) ==
  {i \in DOMAIN s : /\ OfKind(s[i], "file_read") /\ ItemPath(s[i]) # None
                    /\ LaterReads(s, i) # {}}

\* The reason a superseded read is given: was the file written before the
\* next read?
SupersededReadReason(s, i) ==
  IF \E w \in i + 1 .. Min(LaterReads(s, i)) - 1 :
       OfKind(s[w], "file_write") /\ ItemPath(s[w]) = ItemPath(s[i])
  THEN "WRITE_INVALIDATED_READ" ELSE "SUPERSEDED_FILE_READ"

\* A test that failed, and that a later run of the same target passed.
SuccessfulTestSupersedesFailures(s) ==
  {f \in DOMAIN s :
     /\ OfKind(s[f], "test_run")
     /\ IsToolFailure(s[f]) /\ ~IsToolSuccess(s[f])
     /\ \E j \in f + 1 .. Len(s) : /\ OfKind(s[j], "test_run")
                                   /\ IsToolSuccess(s[j])
                                   /\ TestTarget(s[j].tool) = TestTarget(s[f].tool)}

CommandIdentity(item) ==
  IF IsTool(item) /\ ~IsFileOp(item)
  THEN Or(item.tool.command, item.tool.name) ELSE None

SameExecution(a, b) ==
  /\ CommandIdentity(a) # None
  /\ CommandIdentity(a) = CommandIdentity(b)
  /\ NormalizedHash(a) = NormalizedHash(b)

\* Mutant: all but the first of equal executions.
RepeatedCommandOutputsKeepsFirst(s) ==
  {i \in DOMAIN s : \E j \in 1 .. i - 1 : SameExecution(s[i], s[j])}

\* All but the last of equal executions.
RepeatedCommandOutputs(s) ==
  {i \in DOMAIN s : \E j \in i + 1 .. Len(s) : SameExecution(s[i], s[j])}

CompressLargeOutput(s) ==
  {i \in DOMAIN s : /\ IsCompressibleToolItem(s[i])
                    /\ s[i].result.large}

-----------------------------------------------------------------------------
(* What all rules say, and what the engine makes of it.                    *)

Emits(rule, s) ==
  CASE rule = "system-instructions"      -> SystemInstructions(s)
    [] rule = "explicit-user-constraint" -> ExplicitUserConstraints(s)
    [] rule = "current-task"             -> CurrentTask(s)
    [] rule = "unresolved-error"         -> UnresolvedErrors(s)
    [] rule = "recent-items"             -> RecentItems(s)
    [] rule = "successful-test-supersedes-failures" ->
         SuccessfulTestSupersedesFailures(s)
    [] rule = "superseded-test-run"      -> SupersededTestRuns(s)
    [] rule = "superseded-file-read"     -> SupersededFileReads(s)
    [] rule = "superseded-git-status"    -> SupersededGitStatus(s)
    [] rule = "superseded-git-diff"      -> SupersededGitDiff(s)
    [] rule = "old-directory-listing"    -> OldDirectoryListings(s)
    [] rule = "repeated-command-output"  -> RepeatedCommandOutputs(s)
    [] rule = "compress-large-output"    -> CompressLargeOutput(s)
    [] OTHER                             -> {}

\* The decision a rule emits about an item.
Emission(rule, item) ==
  CASE rule \in {"system-instructions", "explicit-user-constraint",
                 "current-task"} -> MakeDecision("PROTECT", "safety", rule)
    [] rule = "unresolved-error" ->
         [MakeDecision("PROTECT", "safety", rule) EXCEPT !.compression = "allowed"]
    [] rule = "recent-items" ->
         [MakeDecision("PROTECT", "heuristic", rule) EXCEPT
            !.compression = IF IsCompressibleToolItem(item) THEN "allowed"
                                                            ELSE "forbidden"]
    [] rule = "repeated-command-output" -> MakeDecision("DROP", "heuristic", rule)
    [] rule = "compress-large-output" -> MakeDecision("COMPRESS", "heuristic", rule)
    [] OTHER -> MakeDecision("DROP", "structural", rule)

\* largeOutputReason
LargeOutputReason(kind) ==
  CASE kind = "build_run"      -> "LARGE_BUILD_OUTPUT"
    [] kind = "test_run"       -> "LARGE_TEST_OUTPUT"
    [] kind = "git_diff"       -> "LARGE_GIT_DIFF"
    [] kind = "directory_list" -> "LARGE_DIRECTORY_LISTING"
    [] OTHER                   -> "LARGE_OUTPUT"

\* applyPolicyToResult.  A COMPRESS that was a DROP of low confidence, which has a
\* code of its own, is not told from another.
SemanticReason(action) ==
  CASE action = "DROP"     -> "SEMANTIC_DROP"
    [] action = "COMPRESS" -> "SEMANTIC_COMPRESS"
    [] OTHER               -> "SEMANTIC_KEEP"

\* The reason code of a decision about item i.  A rule with one reason stands for
\* it.
ReasonCode(decision, s, i) ==
  CASE decision.rule = "superseded-file-read"  -> SupersededReadReason(s, i)
    [] decision.rule = "compress-large-output" -> LargeOutputReason(s[i].tool.kind)
    [] decision.rule = "semantic"              -> SemanticReason(decision.action)
    [] OTHER                                   -> decision.rule

\* applyProtectRules and applyPruneRules: what the rules say about each item.
Said(s) ==
  LET emits == [rule \in Rules |-> Emits(rule, s)]
  IN  [i \in DOMAIN s |->
         {Emission(r, s[i]) : r \in {rule \in Rules : i \in emits[rule]}}]

\* The winner of buildDecisionAudit about an item.
Winner(said, candidate) == CHOOSE d \in Verdicts(said, candidate) : TRUE

\* The decision about each item without a semantic group.
Deterministic(s) ==
  LET said == Said(s) IN [i \in DOMAIN s |-> Winner(said[i], FALSE)]

Dropped(s) ==
  LET decided == Deterministic(s) IN {i \in DOMAIN s : decided[i].action = "DROP"}

-----------------------------------------------------------------------------
(* semantic/eligibility.ts, in local mode, and the merge with the semantic  *)
(* group (semantic/apply.ts).                                              *)

SafetyRules == {"explicit-user-constraint", "current-task",
                "system-instructions", "unresolved-error"}

\* Mutant: the deterministic decision is not consulted.
SemanticCandidatesIgnoringWinner(s) ==
  LET said == Said(s) recent == RecentItems(s) IN
  {i \in DOMAIN s : /\ \A d \in said[i] : d.rule \notin SafetyRules
                    /\ ~(IsMessageOf(s[i], "user") /\ i \in recent)}

SemanticCandidates(s) ==
  LET said == Said(s)  decided == Deterministic(s)  recent == RecentItems(s) IN
  {i \in DOMAIN s :
     /\ decided[i].retention # "protected"
     /\ decided[i].action \notin {"PROTECT", "DROP"}
     /\ \A d \in said[i] : d.rule \notin SafetyRules
     /\ ~(IsMessageOf(s[i], "user") /\ i \in recent)}

SemanticAnswers == {"KEEP", "COMPRESS", "DROP"}

SemanticDecision(action) ==
  [MakeDecision(action, "semantic", "semantic") EXCEPT !.compression = "allowed"]

\* The decision about each item if the semantic layer answered action.
Merged(s, action) ==
  LET said == Said(s)  candidates == SemanticCandidates(s) IN
  [i \in DOMAIN s |->
     Winner(said[i] \cup {SemanticDecision(action)}, i \in candidates)]

-----------------------------------------------------------------------------
(* file-state.ts and relations.ts                                          *)

\* Mutant: was the file ever written before?
WriteBeforeRead(s, i) ==
  \E j \in 1 .. i - 1 : /\ OfKind(s[j], "file_write")
                        /\ ItemPath(s[j]) = ItemPath(s[i])

\* annotateFileState: was the file written since its previous read?
WriteBetweenReads(s, i) ==
  LET before(kind) == {j \in 1 .. i - 1 : /\ OfKind(s[j], kind)
                                          /\ ItemPath(s[j]) = ItemPath(s[i])}
  IN  /\ before("file_read") # {} /\ before("file_write") # {}
      /\ Max(before("file_write")) > Max(before("file_read"))

Relation(type, from, to, rule) ==
  [type |-> type, from |-> from, to |-> to, rule |-> rule]

\* supersedeOlder: the last of a group supersedes all others.
SupersedeOlder(group, rule) ==
  {Relation("supersedes", Max(group), older, rule) : older \in group \ {Max(group)}}

SupersedeOlderEach(key, rule) ==
  UNION {SupersedeOlder({j \in DOMAIN key : key[j] = key[i]}, rule) :
           i \in DOMAIN key}

ReadRelations(s) ==
  UNION {{Relation(IF OfKind(s[j], "file_write") THEN "invalidates"
                                                 ELSE "supersedes",
                   j, i, "superseded-file-read") :
            j \in {k \in i + 1 .. Len(s) :
                     /\ OnFile(s[k], ItemPath(s[i]))
                     /\ \A r \in LaterReads(s, i) : k <= r}} :
         i \in {k \in DOMAIN s : /\ OfKind(s[k], "file_read")
                                 /\ ItemPath(s[k]) # None}}

\* Listings are related by another key than the one they are dropped by.
RelatedListingKey(item) ==
  Or(item.tool.glob, Or(item.tool.path, Or(item.tool.command, ".")))

\* A passing test validates the write it follows.
ValidatesRelations(s) ==
  {Relation("validates", j, Max({w \in 1 .. j - 1 : OfKind(s[w], "file_write")}),
            "successful-test-supersedes-failures") :
     j \in {k \in DOMAIN s : /\ OfKind(s[k], "test_run") /\ IsToolSuccess(s[k])
                             /\ \E w \in 1 .. k - 1 : OfKind(s[w], "file_write")}}

ExecutionKey(item) == <<CommandIdentity(item), NormalizedHash(item)>>

Relations(s) ==
  LET of(kind) == {i \in DOMAIN s : OfKind(s[i], kind)}
      executions == {i \in DOMAIN s : CommandIdentity(s[i]) # None}
  IN
  UNION { ReadRelations(s),
          ValidatesRelations(s),
          SupersedeOlderEach([i \in of("git_status") |-> GitStatusKey(s[i])],
                             "superseded-git-status"),
          SupersedeOlderEach([i \in of("git_diff") |-> GitDiffKey(s[i])],
                             "superseded-git-diff"),
          SupersedeOlderEach([i \in of("directory_list") |->
                                RelatedListingKey(s[i])],
                             "old-directory-listing"),
          SupersedeOlderEach([i \in executions |-> ExecutionKey(s[i])],
                             "repeated-command-output") }
=============================================================================
