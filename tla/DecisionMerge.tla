--------------------------- MODULE DecisionMerge ---------------------------
(***************************************************************************)
(* How buildDecisionAudit (packages/core/src/engine.ts) turns everything   *)
(* the rules and the semantic layer said about ONE item into its winning   *)
(* decision.  Items do not influence each other, so the outer loop over    *)
(* items is one behaviour of this specification per item.                  *)
(*                                                                         *)
(* The code walks the evaluations twice.  The first walk collects the      *)
(* retention of the item, whether compression is forbidden, and the        *)
(* strongest protecting decision; the second folds the action winner.      *)
(* Each iteration is a step, so that what holds between iterations (the    *)
(* invariants the proofs need) can be stated.                              *)
(***************************************************************************)
EXTENDS DecisionTypes, SequencesExt

CONSTANTS
  RuleEvaluations,      \* decisions protect and prune rules can emit
  SemanticEvaluations,  \* decisions the semantic layer can emit
  MaxEvaluations,       \* bound: rule evaluations about one item
  NoDecision            \* the code's undefined

ASSUME RuleEvaluationsAssumption ==
  /\ RuleEvaluations \subseteq Decision
  /\ \A e \in RuleEvaluations : e.authority # "semantic"
ASSUME SemanticEvaluationsAssumption ==
  /\ SemanticEvaluations \subseteq Decision
  /\ \A e \in SemanticEvaluations : /\ e.authority = "semantic"
                                    /\ e.retention = "normal"
                                    /\ e.compression = "allowed"
                                    /\ e.action # "PROTECT"
ASSUME MaxEvaluationsAssumption == MaxEvaluations \in Nat
ASSUME NoDecisionAssumption == NoDecision \notin Decision

VARIABLES
  evaluations,     \* itemEvaluations, in the order of the groups
  candidate,       \* is the item in semanticEligibleIds?
  pc,              \* "collect", "weigh", "select" or "done"
  next,            \* index of the next evaluation of the current walk
  retention,
  compression,
  protectWinner,
  actionWinner,
  winner

vars == <<evaluations, candidate, pc, next, retention, compression,
          protectWinner, actionWinner, winner>>

\* Rule groups come first; the semantic group is merged last and speaks at
\* most once about an item.
Inputs == {r \o s : r \in BoundedSeq(RuleEvaluations, MaxEvaluations),
                    s \in BoundedSeq(SemanticEvaluations, 1)}

Init ==
  /\ evaluations \in Inputs
  /\ candidate \in BOOLEAN
  /\ pc = "collect"
  /\ next = 1
  /\ retention = "normal"
  /\ compression = "allowed"
  /\ protectWinner = NoDecision
  /\ actionWinner = DefaultKeep
  /\ winner = NoDecision

\* One iteration of the first walk.
Collect ==
  /\ pc = "collect"
  /\ next <= Len(evaluations)
  /\ LET e == evaluations[next] IN
     /\ retention' = IF Retains(e) THEN "protected" ELSE retention
     /\ protectWinner' =
          IF /\ Retains(e)
             /\ protectWinner = NoDecision \/ BeatsProtect(e, protectWinner)
          THEN e ELSE protectWinner
     /\ compression' = IF e.compression = "forbidden" THEN "forbidden"
                                                      ELSE compression
  /\ next' = next + 1
  /\ UNCHANGED <<evaluations, candidate, pc, actionWinner, winner>>

\* Mutant: the strongest protecting decision overwrites an earlier forbid.
SettleCompressionForgetsForbid ==
  /\ pc = "collect"
  /\ next > Len(evaluations)
  /\ compression' = IF protectWinner # NoDecision
                    THEN protectWinner.compression ELSE compression
  /\ pc' = "weigh"
  /\ next' = 1
  /\ UNCHANGED <<evaluations, candidate, retention, protectWinner,
                 actionWinner, winner>>

\* After the first walk a retained item takes its compression from the
\* strongest protecting decision, unless some evaluation forbade it.  (The
\* code also covers a decision without the field; makeDecision always sets it.)
SettleCompression ==
  /\ pc = "collect"
  /\ next > Len(evaluations)
  /\ compression' =
       IF /\ retention = "protected"
          /\ protectWinner # NoDecision
          /\ compression # "forbidden"
       THEN protectWinner.compression ELSE compression
  /\ pc' = "weigh"
  /\ next' = 1
  /\ UNCHANGED <<evaluations, candidate, retention, protectWinner,
                 actionWinner, winner>>

\* Mutant: retention is not looked at.
SemanticEligibleIfCandidate == candidate

\* The semantic layer may compete only about a candidate nothing retains.
SemanticEligible == retention # "protected" /\ candidate

\* Mutant: PROTECT decisions compete for the action.
WeighEverything ==
  /\ pc = "weigh"
  /\ next <= Len(evaluations)
  /\ actionWinner' =
       IF BeatsAction(evaluations[next], actionWinner, SemanticEligible)
       THEN evaluations[next] ELSE actionWinner
  /\ next' = next + 1
  /\ UNCHANGED <<evaluations, candidate, pc, retention, compression,
                 protectWinner, winner>>

\* One iteration of the second walk: PROTECT decisions do not compete.
Weigh ==
  /\ pc = "weigh"
  /\ next <= Len(evaluations)
  /\ LET e == evaluations[next] IN
     actionWinner' =
       IF /\ e.action # "PROTECT"
          /\ BeatsAction(e, actionWinner, SemanticEligible)
       THEN e ELSE actionWinner
  /\ next' = next + 1
  /\ UNCHANGED <<evaluations, candidate, pc, retention, compression,
                 protectWinner, winner>>

EndWeigh ==
  /\ pc = "weigh"
  /\ next > Len(evaluations)
  /\ pc' = "select"
  /\ UNCHANGED <<evaluations, candidate, next, retention, compression,
                 protectWinner, actionWinner, winner>>

WithMeta(d, r, c) == [d EXCEPT !.retention = r, !.compression = c]

\* The protecting decision as the winner: its action becomes PROTECT.
AsProtect(c) == WithMeta([protectWinner EXCEPT !.action = "PROTECT"],
                         "protected", c)

CompressIndices == {k \in DOMAIN evaluations :
                      evaluations[k].action = "COMPRESS"}

FirstCompress ==
  evaluations[CHOOSE k \in CompressIndices :
                \A m \in CompressIndices : k <= m]

\* Mutant: a DROP of a retained item is let through when compression
\* is allowed.
RetainedWinnerLetsDrop ==
  IF actionWinner.action \in {"DROP", "COMPRESS"} /\ compression = "allowed"
  THEN WithMeta(actionWinner, "protected", "allowed")
  ELSE AsProtect(compression)

\* A retained item is never dropped: a DROP turns into the first COMPRESS
\* evaluation when compression is allowed, and into PROTECT otherwise.
RetainedWinner ==
  CASE actionWinner.action = "DROP" ->
         IF compression = "allowed" /\ CompressIndices # {}
           THEN WithMeta(FirstCompress, "protected", "allowed")
         ELSE IF protectWinner # NoDecision THEN AsProtect(compression)
         ELSE WithMeta(DefaultKeep, "protected", compression)
    [] actionWinner.action = "COMPRESS" ->
         IF compression = "forbidden" /\ protectWinner # NoDecision
           THEN AsProtect("forbidden")
           ELSE WithMeta(actionWinner, "protected", "allowed")
    [] OTHER ->
         IF protectWinner # NoDecision THEN AsProtect(compression)
         ELSE WithMeta(actionWinner, "protected", compression)

SelectedWinner ==
  IF retention = "protected"
  THEN RetainedWinner
  ELSE WithMeta(actionWinner, "normal", actionWinner.compression)

SelectWinner ==
  /\ pc = "select"
  /\ winner' = SelectedWinner
  /\ pc' = "done"
  /\ UNCHANGED <<evaluations, candidate, next, retention, compression,
                 protectWinner, actionWinner>>

Next == Collect \/ SettleCompression \/ Weigh \/ EndWeigh \/ SelectWinner

Spec == Init /\ [][Next]_vars

-----------------------------------------------------------------------------
(* What the walks have established between two iterations.                 *)

\* The evaluations each walk has read.
Collected == IF pc = "collect" THEN 1 .. next - 1 ELSE DOMAIN evaluations
Weighed == CASE pc = "collect" -> {}
             [] pc = "weigh"   -> 1 .. next - 1
             [] OTHER          -> DOMAIN evaluations

\* Values have the types of engine.ts; a winner exists exactly at the end.
TypeOK ==
  /\ evaluations \in Seq(RuleEvaluations \cup SemanticEvaluations)
  /\ candidate \in BOOLEAN
  /\ pc \in {"collect", "weigh", "select", "done"}
  /\ next \in 1 .. Len(evaluations) + 1
  /\ retention \in Retentions
  /\ compression \in Compressions
  /\ protectWinner \in Decision \cup {NoDecision}
  /\ actionWinner \in Decision
  /\ winner \in Decision \cup {NoDecision}
  /\ (pc = "done") <=> (winner # NoDecision)

\* The first walk: the item is retained iff some evaluation read so far retains
\* it, and then there is a protecting decision (the fallbacks for a retained
\* item without one are dead), which none read so far beats; compression is
\* forbidden iff some evaluation read so far forbids it.
CollectInv ==
  /\ (retention = "protected") <=> \E k \in Collected : Retains(evaluations[k])
  /\ (retention = "protected") <=> (protectWinner # NoDecision)
  /\ protectWinner # NoDecision =>
       \E k \in Collected : /\ protectWinner = evaluations[k]
                            /\ Retains(evaluations[k])
  /\ \A k \in Collected :
       Retains(evaluations[k]) => ~BeatsProtect(evaluations[k], protectWinner)
  /\ (compression = "forbidden") <=>
       \E k \in Collected : evaluations[k].compression = "forbidden"

\* d stands at least as high as e: authority first, then action.
AtLeast(d, e) ==
  \/ AuthorityRank(d.authority) > AuthorityRank(e.authority)
  \/ /\ AuthorityRank(d.authority) = AuthorityRank(e.authority)
     /\ ActionRank(d.action) >= ActionRank(e.action)

\* The second walk: the action winner is the default or an evaluation read so
\* far.  If a rule emitted it, no rule evaluation read so far outranks it; if
\* the semantic layer did, the item was eligible and every rule evaluation was
\* a heuristic one with a weaker action; and if it spoke about an eligible item
\* and did not win, it would not have gone further than a heuristic winner.
WeighInv ==
  /\ \/ actionWinner = DefaultKeep
     \/ \E k \in Weighed : actionWinner = evaluations[k]
  /\ actionWinner.action # "PROTECT"
  /\ \A k \in Weighed :
       /\ evaluations[k].action # "PROTECT"
       /\ evaluations[k].authority # "semantic"
       => IF actionWinner.authority = "semantic"
          THEN /\ evaluations[k].authority = "heuristic"
               /\ ActionRank(evaluations[k].action) < ActionRank(actionWinner.action)
          ELSE AtLeast(actionWinner, evaluations[k])
  /\ actionWinner.authority = "semantic" =>
       SemanticEligible /\ ActionRank(actionWinner.action) > 0
  /\ \A k \in Weighed :
       /\ evaluations[k].authority = "semantic" /\ SemanticEligible
       /\ actionWinner.authority = "heuristic"
       => ActionRank(evaluations[k].action) <= ActionRank(actionWinner.action)

\* What the order of the groups guarantees, and the fold relies on: were a rule
\* weighed after the semantic layer, a weaker rule could displace a semantic
\* decision that had displaced a stronger one.
SemanticComesLast ==
  \A k \in DOMAIN evaluations :
    evaluations[k].authority = "semantic" => k = Len(evaluations)

\* The inductive invariant behind the theorems of DecisionMerge_proofs.
LoopInv ==
  /\ TypeOK
  /\ SemanticComesLast
  /\ CollectInv
  /\ IF pc = "collect" THEN actionWinner = DefaultKeep ELSE WeighInv
  /\ pc = "done" => winner = SelectedWinner

-----------------------------------------------------------------------------
(* Properties of the finished merge.                                       *)

\* SAFETY.md: "Protected items cannot be DROPped."  Whatever other rules and
\* the semantic layer said, and in whatever order, an item some evaluation
\* retains ends up retained and not dropped.
RetainedNeverDropped ==
  (pc = "done" /\ \E k \in DOMAIN evaluations : Retains(evaluations[k]))
    => winner.retention = "protected" /\ winner.action \in {"PROTECT", "COMPRESS"}

\* ARCHITECTURE.md: "Any forbidden evaluation blocks compression."  One
\* forbidding evaluation, strongest or not, is enough to keep a retained item
\* verbatim.
ForbiddenKeptVerbatim ==
  (/\ pc = "done"
   /\ \E k \in DOMAIN evaluations : Retains(evaluations[k])
   /\ \E k \in DOMAIN evaluations : evaluations[k].compression = "forbidden")
    => winner.action = "PROTECT" /\ winner.compression = "forbidden"

\* ARCHITECTURE.md: the semantic layer "cannot override safety or structural
\* decisions, and cannot un-protect or drop a protected item".  When its decision
\* wins about an item nothing retains, the item was a candidate and every rule
\* that competed was heuristic and asked for less: the layer goes further than
\* the rules, it never rescues.  When its decision wins about a retained item
\* (mergeDecisions is exported, and only its callers keep the layer away from
\* such items) it is the COMPRESS that softens a DROP some rule asked for.
SemanticOnlyEscalates ==
  (pc = "done" /\ winner.authority = "semantic") =>
    \/ /\ winner.retention = "normal"
       /\ candidate
       /\ \A k \in DOMAIN evaluations :
            evaluations[k].authority # "semantic" =>
              /\ ~Retains(evaluations[k])
              /\ evaluations[k].authority = "heuristic"
              /\ ActionRank(evaluations[k].action) < ActionRank(winner.action)
    \/ /\ winner.retention = "protected"
       /\ winner.action = "COMPRESS"
       /\ \E k \in DOMAIN evaluations : evaluations[k].action = "DROP"

\* The two loops implement the order-free contract: reordering the rules, or
\* running one twice, cannot change an item's action, authority or retention.
Contract == INSTANCE MergeContract WITH verdict <- winner
MeetsContract == Contract!Spec
=============================================================================
