----------------------------- MODULE JevAnswers -----------------------------
(***************************************************************************)
(* packages/providers/jev/src/map.ts: the Jev provider turns the scores of *)
(* the vendor's response into the answers SemanticRun asks for.  The        *)
(* vendor's service is outside; an answer is its score on the scale of the  *)
(* rubric's levels and a confidence, either of which may be missing or no   *)
(* number.                                                                  *)
(***************************************************************************)
EXTENDS SemanticRun

CONSTANTS
  Levels,      \* number of criteria of the rubric
  JevAnswer    \* item -> what the vendor answers, or None

Score == [score : Int \cup {NaN}, confidence : (0 .. Unit) \cup {NaN}]

ASSUME LevelsAssumption == Levels \in Nat
ASSUME JevAnswerAssumption ==
  \A i \in Items : JevAnswer[i] # None => JevAnswer[i] \in Score

\* A threshold of 0 would accept a drop of no confidence; the default is 0.8.
ASSUME ThresholdAssumption ==
  \A r \in Runs : Policy[r].dropMinConfidence \in Nat \ {0}

\* Mutant: the confidence of an answer without one is full.
ConfidenceTrusting(answer) ==
  IF answer.confidence = NaN THEN Unit ELSE answer.confidence

\* A confidence that is missing or no number is none at all.
Confidence(answer) == IF answer.confidence = NaN THEN 0 ELSE answer.confidence

\* relevanceFromScore: a score that is no number is the lowest.
RelevanceFromScore(score) ==
  LET max == IF Levels - 1 > 1 THEN Levels - 1 ELSE 1
  IN  IF score = NaN \/ score < 0 THEN 0
      ELSE IF score > max THEN Unit ELSE (score * Unit) \div max

\* toSemanticResults: one result for each candidate with a score, in order.  The
\* action is a placeholder: the core's thresholds assign it.
ToSemanticResults(asked) ==
  LET scored == Kept(asked, [k \in DOMAIN asked |-> JevAnswer[asked[k]] # None])
  IN  [n \in DOMAIN scored |->
         LET answer == JevAnswer[scored[n]] IN
         [item |-> scored[n], action |-> "KEEP",
          relevance |-> RelevanceFromScore(answer.score),
          confidence |-> Confidence(answer)]]

\* classify either resolves with those or fails (SemanticRun's Fail).
JevResponses(asked) == {ToSemanticResults(asked)}

\* The provider of the run is this one.
ASSUME ProviderAssumption ==
  \A asked \in Batches : Responses(asked) = JevResponses(asked)

-----------------------------------------------------------------------------

\* An item is dropped only when the vendor itself said how sure it is; an answer
\* without a confidence leads at most to a compression, also after a trip
\* through the cache (map.ts:109, policy.ts:27-44).  A score that is no number is
\* relevance 0, and does not keep an item from being dropped (map.ts:91-93), though
\* docs/SEMANTIC_LAYER.md:36-38 has it keep the deterministic decision.
DropsAreConfident ==
  \A r \in Runs : \A d \in Decided(r) :
    d.action = "DROP" => JevAnswer[d.item].confidence # NaN
=============================================================================
