------------------------- MODULE SessionCompaction -------------------------
(***************************************************************************)
(* compact() (packages/core/src/pipeline.ts) on a session that grows       *)
(* message by message: Normalize supplies the session, ContextRules what   *)
(* the deterministic rules decide about it, and MergeVerdict what the      *)
(* engine makes of a semantic answer, whichever one arrives.               *)
(***************************************************************************)
EXTENDS Normalize, ContextRules

\* The decisions compact() may end with about each item: the deterministic one,
\* and for a candidate also what becomes of any answer of the semantic layer.
FinalDecisions(s) ==
  LET decided == Deterministic(s)
      merged == [a \in SemanticAnswers |-> Merged(s, a)]
      candidates == SemanticCandidates(s)
  IN  [i \in DOMAIN s |->
         {decided[i]} \cup {merged[a][i] : a \in {b \in SemanticAnswers :
                                                  i \in candidates}}]

-----------------------------------------------------------------------------
\* The subject of a tool item: what a later item must be about to stand for it.
Subject(item) ==
  CASE OfKind(item, "file_read")      -> <<"file", ItemPath(item)>>
    [] OfKind(item, "git_status")     -> <<"git_status">>
    [] OfKind(item, "git_diff")       -> <<"git_diff">>
    [] OfKind(item, "directory_list") -> <<"listing", ListingKey(item)>>
    [] OfKind(item, "test_run")       -> <<"test", TestKey(item)>>
    [] OTHER                          -> <<"execution", ExecutionKey(item)>>

\* The last item from i on about the subject of item i.
LastAbout(s, i) ==
  Max({j \in i .. Len(s) : IsTool(s[j]) /\ Subject(s[j]) = Subject(s[i])})

\* The rules never drop the last item about a subject, so that a chain of
\* superseding reads, statuses, runs or outputs ends in an item that stays, also
\* when it crosses from one rule to another.  There is one exception: the code
\* knows a tool without a command by its name, so it may take a later call about
\* something else (another pattern) for the same execution if the outputs agree.
EveryDropIsCovered ==
  LET s == Session  dropped == Dropped(s) IN
  \A i \in dropped :
    LET last == LastAbout(s, i) IN
    last \in dropped =>
      \E j \in last + 1 .. Len(s) : SameExecution(s[last], s[j])

\* No pending call loses its id to another call in this step: it stays pending
\* or becomes a pair.
NoneReissued ==
  \A k \in DOMAIN pending :
    \/ \E l \in DOMAIN pending' : pending'[l] = pending[k]
    \/ \E i \in (DOMAIN items') \ DOMAIN items :
         /\ items'[i].kind = "tool_pair"
         /\ items'[i].tool = pending[k].tool
         /\ items'[i].messageIds[1] = pending[k].messageId

\* What the rules drop, they drop for good: as the session grows, and calls that
\* were pending at its end are answered and move, no dropped item comes back,
\* unless what it was dropped for is a call whose id is reissued.
DropsAreFinal ==
  [][NoneReissued => \A i \in Dropped(Session) \cap DOMAIN items :
                       i \in Dropped(Session)']_normalizeVars

\* SAFETY.md: "the current failure is still the task".  When the last word on a
\* test, command or file is a failure, that failure survives every prune rule
\* and every semantic answer, however old it is.
UnresolvedFailureSurvives ==
  LET s == Session  final == FinalDecisions(s) IN
  \A f \in DOMAIN s :
    (/\ IsTool(s[f]) /\ IsToolFailure(s[f])
     /\ \A j \in f + 1 .. Len(s) :
          (IsTool(s[j]) /\ FailureKey(s[j].tool) = FailureKey(s[f].tool)) =>
             ~IsToolFailure(s[j]) /\ ~IsToolSuccess(s[j]))
    => \A d \in final[f] : d.retention = "protected" /\ d.action # "DROP"

\* SAFETY.md: constraints and system or developer instructions are protected,
\* and so is the current task.  Whatever is said later, by anyone, they stay in
\* the context word for word; an acknowledgement does not become the task while
\* something substantive was said.
InstructionsStayVerbatim ==
  LET s == Session  final == FinalDecisions(s) IN
  \A i \in DOMAIN s :
    (\/ ItemLooksLikeSafetyInstruction(s[i])
     \/ IsConstraintMessage(s[i])
     \/ /\ IsSubstantive(s[i])
        /\ \A j \in i + 1 .. Len(s) : ~IsSubstantive(s[j]))
    => \A d \in final[i] : d.action = "PROTECT" /\ d.compression = "forbidden"

\* The items put to the semantic layer are exactly those the rules leave open:
\* not retained and not dropped.  An answer about any other item would not free
\* a retained one, nor rescue or soften a drop.
SemanticSeesOpenItems ==
  LET s == Session  decided == Deterministic(s)
      open == {i \in DOMAIN s : /\ decided[i].retention = "normal"
                                /\ decided[i].action # "DROP"}
  IN  /\ SemanticCandidates(s) = open
      /\ \A a \in SemanticAnswers :
           LET merged == Merged(s, a) IN
           \A i \in (DOMAIN s) \ open :
             /\ merged[i].retention = decided[i].retention
             /\ decided[i].action = "DROP" => merged[i] = decided[i]

\* ARCHITECTURE.md, "File state": three passes over the session agree on whether
\* a file was written between two consecutive reads of it: the annotation on the
\* later read, the reason the earlier one is dropped for, and the relations.
FileStateAgrees ==
  LET s == Session IN
  \A i \in SupersededFileReads(s) :
    LET j == Min(LaterReads(s, i)) IN
    /\ WriteBetweenReads(s, j) <=>
         SupersededReadReason(s, i) = "WRITE_INVALIDATED_READ"
    /\ WriteBetweenReads(s, j) <=>
         \E r \in Relations(s) : r.type = "invalidates" /\ r.to = i

\* ARCHITECTURE.md: "The relation recorded is newerItem supersedes olderItem".
\* For these rules the relations shown beside the decisions tell the same story
\* as the decisions: each drop is explained by a later item, and nothing is shown
\* as superseded that the rule left alone.
DropsAreRelated ==
  \A rule \in {"superseded-file-read", "superseded-git-status",
               "superseded-git-diff", "repeated-command-output"} :
    LET edges == {r \in Relations(Session) :
                    r.rule = rule /\ r.type = "supersedes"}
    IN  /\ {r.to : r \in edges} = Emits(rule, Session)
        /\ \A r \in edges : r.from > r.to

-----------------------------------------------------------------------------
(* What the documentation says and the code does not do.                   *)

\* ARCHITECTURE.md: "Generic commands are dropped only when a later execution of
\* the same command produced equivalent normalized output".  The code hashes the
\* text of a call that has no result, so a repeated call counts as its output.
DuplicatesHaveOutput ==
  \A i \in DOMAIN Session :
    (/\ Deterministic(Session)[i].action = "DROP"
     /\ Deterministic(Session)[i].rule = "repeated-command-output")
    => \E j \in i + 1 .. Len(Session) :
         /\ CommandIdentity(Session[j]) = CommandIdentity(Session[i])
         /\ Session[j].result # None
=============================================================================
