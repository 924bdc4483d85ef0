------------------------ MODULE DecisionMerge_proofs ------------------------
(***************************************************************************)
(* Theorems about DecisionMerge for any rule evaluations, any semantic     *)
(* evaluations and any number of them.                                     *)
(***************************************************************************)
EXTENDS DecisionMerge, ContextRules_proofs

\* The code never confuses "no decision" with a decision.
LEMMA RangesOfInputs ==
  ASSUME NEW e \in RuleEvaluations \cup SemanticEvaluations
  PROVE  e \in Decision /\ e # NoDecision
  BY RuleEvaluationsAssumption, SemanticEvaluationsAssumption,
     NoDecisionAssumption

\* A bounded sequence is a sequence.
LEMMA BoundedIsSeq ==
  ASSUME NEW S, NEW n \in Nat, NEW s \in BoundedSeq(S, n)
  PROVE  s \in Seq(S)
  BY DEF BoundedSeq, SeqOf

\* What an item's evaluations look like in the initial state.
LEMMA InputsAreSequences ==
  ASSUME NEW s \in Inputs
  PROVE  s \in Seq(RuleEvaluations \cup SemanticEvaluations)
<1> DEFINE E == RuleEvaluations \cup SemanticEvaluations
<1>1. PICK r \in BoundedSeq(RuleEvaluations, MaxEvaluations),
           t \in BoundedSeq(SemanticEvaluations, 1) : s = r \o t
  BY DEF Inputs
<1>2. r \in Seq(RuleEvaluations) /\ t \in Seq(SemanticEvaluations)
  BY BoundedIsSeq, MaxEvaluationsAssumption
<1>3. r \in Seq(E) /\ t \in Seq(E)
  BY <1>2
<1>4. r \o t \in Seq(E)
  BY <1>3
<1>. QED BY <1>1, <1>4

\* The semantic layer's decision is the last of an item's evaluations.
LEMMA SemanticIsLastInInputs ==
  ASSUME NEW s \in Inputs, NEW k \in DOMAIN s, s[k].authority = "semantic"
  PROVE  k = Len(s)
<1>1. PICK r \in BoundedSeq(RuleEvaluations, MaxEvaluations),
           t \in BoundedSeq(SemanticEvaluations, 1) : s = r \o t
  BY DEF Inputs
<1>2. r \in Seq(RuleEvaluations) /\ t \in Seq(SemanticEvaluations)
  BY BoundedIsSeq, MaxEvaluationsAssumption
<1>3. Len(t) <= 1
  <2>1. PICK m \in 0 .. 1 : t \in [1 .. m -> SemanticEvaluations]
    BY DEF BoundedSeq, SeqOf
  <2>2. Len(t) = m
    BY <2>1
  <2>. QED BY <2>2
<1>4. /\ Len(s) = Len(r) + Len(t)
      /\ k \in 1 .. Len(r) + Len(t)
      /\ k <= Len(r) => s[k] = r[k]
  BY <1>1, <1>2
<1>5. k > Len(r)
  <2>. SUFFICES ASSUME k <= Len(r) PROVE FALSE
    BY <1>2, <1>4
  <2>1. r[k] \in RuleEvaluations
    BY <1>2, <1>4
  <2>. QED BY <2>1, <1>4, RuleEvaluationsAssumption
<1>6. Len(r) \in Nat /\ Len(t) \in Nat
  BY <1>2
<1>7. k \in Nat
  <2>1. s \in Seq(RuleEvaluations \cup SemanticEvaluations)
    BY InputsAreSequences
  <2>2. k \in 1 .. Len(s) /\ Len(s) \in Nat
    BY <2>1
  <2>. QED BY <2>2
<1>. QED BY <1>3, <1>4, <1>5, <1>6, <1>7

\* Rewriting retention and compression of a decision leaves a decision with
\* the same action, authority and rule.
LEMMA WithMetaProperties ==
  ASSUME NEW d \in Decision, NEW r \in Retentions, NEW c \in Compressions
  PROVE  /\ WithMeta(d, r, c) \in Decision
         /\ WithMeta(d, r, c).action = d.action
         /\ WithMeta(d, r, c).authority = d.authority
         /\ WithMeta(d, r, c).retention = r
         /\ WithMeta(d, r, c).compression = c
  BY DEF WithMeta, Decision

\* Turning the protecting decision into the winner.
LEMMA AsProtectProperties ==
  ASSUME protectWinner \in Decision, NEW c \in Compressions
  PROVE  /\ AsProtect(c) \in Decision
         /\ AsProtect(c).action = "PROTECT"
         /\ AsProtect(c).authority = protectWinner.authority
         /\ AsProtect(c).retention = "protected"
         /\ AsProtect(c).compression = c
  BY DEF AsProtect, WithMeta, Decision, Actions, Retentions

\* The COMPRESS evaluation an item falls back on is one of its evaluations.
LEMMA FirstCompressProperties ==
  ASSUME TypeOK, CompressIndices # {}
  PROVE  /\ FirstCompress \in Decision
         /\ FirstCompress.action = "COMPRESS"
         /\ \E k \in DOMAIN evaluations : FirstCompress = evaluations[k]
<1>1. CompressIndices \in SUBSET Nat
  BY DEF TypeOK, CompressIndices
<1>2. \E k \in CompressIndices : \A m \in CompressIndices : k <= m
  BY <1>1, FirstIndex
<1>3. PICK k \in CompressIndices : FirstCompress = evaluations[k]
  BY <1>2 DEF FirstCompress
<1>4. k \in DOMAIN evaluations /\ evaluations[k].action = "COMPRESS"
  BY <1>3 DEF CompressIndices
<1>5. evaluations[k] \in RuleEvaluations \cup SemanticEvaluations
  BY <1>4 DEF TypeOK
<1>. QED BY <1>3, <1>4, <1>5, RangesOfInputs

-----------------------------------------------------------------------------
(* The order the second walk folds.                                        *)

\* A rule's decision replaces the current one exactly when the current one
\* does not stand at least as high.
LEMMA RuleBeats ==
  ASSUME NEW e \in Decision, NEW d \in Decision, NEW el \in BOOLEAN,
         e.authority # "semantic"
  PROVE  BeatsAction(e, d, el) <=> ~AtLeast(d, e)
<1>1. /\ AuthorityRank(e.authority) \in 0 .. 3 /\ AuthorityRank(d.authority) \in 0 .. 3
      /\ ActionRank(e.action) \in 0 .. 3 /\ ActionRank(d.action) \in 0 .. 3
  BY RankProperties DEF Decision
<1>. QED BY <1>1 DEF BeatsAction, AtLeast

\* The semantic decision replaces a rule's only if the item is eligible, the
\* rule was heuristic, and its action is the stronger one.
LEMMA SemanticBeats ==
  ASSUME NEW e \in Decision, NEW d \in Decision, NEW el \in BOOLEAN,
         e.authority = "semantic", d.authority # "semantic"
  PROVE  BeatsAction(e, d, el) =>
           /\ el
           /\ d.authority = "heuristic"
           /\ ActionRank(e.action) > ActionRank(d.action)
<1>1. d.authority \in {"safety", "structural", "heuristic"}
  BY DEF Decision, Authorities
<1>. QED BY <1>1 DEF BeatsAction, AuthorityRank

\* Standing is reflexive and transitive.
LEMMA AtLeastOrder ==
  /\ \A d \in Decision : AtLeast(d, d)
  /\ \A d, e, f \in Decision : AtLeast(d, e) /\ AtLeast(e, f) => AtLeast(d, f)
<1>1. \A d \in Decision : /\ AuthorityRank(d.authority) \in 0 .. 3
                          /\ ActionRank(d.action) \in 0 .. 3
  BY RankProperties DEF Decision
<1>. QED BY <1>1 DEF AtLeast

\* A rule's decision that a heuristic one stands above is heuristic too.
LEMMA BelowHeuristic ==
  ASSUME NEW d \in Decision, NEW e \in Decision, AtLeast(d, e),
         d.authority = "heuristic", e.authority # "semantic"
  PROVE  /\ e.authority = "heuristic"
         /\ ActionRank(e.action) <= ActionRank(d.action)
<1>1. e.authority \in {"safety", "structural", "heuristic"}
  BY DEF Decision, Authorities
<1>2. ActionRank(e.action) \in 0 .. 3 /\ ActionRank(d.action) \in 0 .. 3
  BY RankProperties DEF Decision
<1>. QED BY <1>1, <1>2 DEF AtLeast, AuthorityRank

-----------------------------------------------------------------------------
(* LoopInv is inductive.                                                   *)

\* Evaluations of a typed state are decisions, never the absent one.
LEMMA EvaluationsAreDecisions ==
  ASSUME TypeOK, NEW k \in DOMAIN evaluations
  PROVE  /\ evaluations[k] \in Decision
         /\ evaluations[k] # NoDecision
         /\ k \in 1 .. Len(evaluations)
<1>1. evaluations[k] \in RuleEvaluations \cup SemanticEvaluations
  BY DEF TypeOK
<1>2. k \in 1 .. Len(evaluations)
  BY DEF TypeOK
<1>. QED BY <1>1, <1>2, RangesOfInputs

\* Before the first iteration nothing is known.
LEMMA InitEstablishesLoopInv == Init => LoopInv
<1>. SUFFICES ASSUME Init PROVE LoopInv
  OBVIOUS
<1>1. evaluations \in Seq(RuleEvaluations \cup SemanticEvaluations)
  BY InputsAreSequences DEF Init
<1>2. 1 \in 1 .. Len(evaluations) + 1
  BY <1>1
<1>3. TypeOK
  BY <1>1, <1>2, DefaultIsDecision DEF Init, TypeOK, Retentions, Compressions
<1>4. SemanticComesLast
  BY SemanticIsLastInInputs DEF Init, SemanticComesLast
<1>5. Collected = {}
  BY DEF Init, Collected
<1>6. CollectInv
  BY <1>5 DEF Init, CollectInv
<1>. QED BY <1>3, <1>4, <1>6 DEF Init, LoopInv

\* One iteration of the first walk.
LEMMA CollectPreserves == LoopInv /\ Collect => LoopInv'
<1>. SUFFICES ASSUME LoopInv, Collect PROVE LoopInv'
  OBVIOUS
<1>. USE DEF LoopInv
<1>. DEFINE e == evaluations[next]
<1>1. next \in DOMAIN evaluations /\ next \in Nat /\ Len(evaluations) \in Nat
  BY DEF TypeOK, Collect
<1>2. e \in Decision /\ e # NoDecision
  BY <1>1, EvaluationsAreDecisions
<1>3. TypeOK'
  BY <1>1, <1>2 DEF TypeOK, Collect, Retentions, Compressions
<1>4. Collected' = Collected \cup {next} /\ next \notin Collected
  BY <1>1 DEF Collect, Collected
<1>5. CollectInv'
  <2>1. (retention' = "protected") <=> (retention = "protected" \/ Retains(e))
    BY DEF Collect
  <2>2. ((retention = "protected") <=> \E k \in Collected : Retains(evaluations[k]))'
    BY <1>4, <2>1 DEF CollectInv, Collect
  <2>3. ((retention = "protected") <=> (protectWinner # NoDecision))'
    BY <1>2, <2>1 DEF CollectInv, Collect
  <2>4. (protectWinner # NoDecision =>
          \E k \in Collected : /\ protectWinner = evaluations[k]
                               /\ Retains(evaluations[k]))'
    BY <1>4 DEF CollectInv, Collect
  <2>5. ((compression = "forbidden") <=>
          \E k \in Collected : evaluations[k].compression = "forbidden")'
    BY <1>4 DEF CollectInv, Collect
  <2>6. (\A k \in Collected :
           Retains(evaluations[k]) => ~BeatsProtect(evaluations[k], protectWinner))'
    <3>1. \A k \in Collected : evaluations[k] \in Decision
      BY <1>1, EvaluationsAreDecisions DEF Collected, Collect, TypeOK
    <3>2. \A d \in Decision : AuthorityRank(d.authority) \in 0 .. 3
      BY RankProperties DEF Decision
    <3>3. CASE protectWinner' = protectWinner
      <4>1. Retains(e) => ~BeatsProtect(e, protectWinner)
        BY <1>2, <3>2, <3>3 DEF Collect, BeatsProtect
      <4>. QED BY <4>1, <3>3, <1>4 DEF CollectInv, Collect
    <3>4. CASE protectWinner' # protectWinner
      <4>1. /\ protectWinner' = e /\ Retains(e)
            /\ protectWinner = NoDecision \/ BeatsProtect(e, protectWinner)
        BY <3>4 DEF Collect
      <4>2. \A k \in Collected : Retains(evaluations[k]) => ~BeatsProtect(evaluations[k], e)
        <5>1. CASE protectWinner = NoDecision
          BY <5>1 DEF CollectInv
        <5>2. CASE protectWinner # NoDecision /\ BeatsProtect(e, protectWinner)
          <6>1. protectWinner \in Decision
            BY <5>2 DEF TypeOK
          <6>. QED BY <6>1, <5>2, <1>2, <3>1, <3>2 DEF CollectInv, BeatsProtect
        <5>. QED BY <4>1, <5>1, <5>2
      <4>3. ~BeatsProtect(e, e)
        BY <1>2, <3>2 DEF BeatsProtect
      <4>. QED BY <4>1, <4>2, <4>3, <1>4 DEF Collect
    <3>. QED BY <3>3, <3>4
  <2>. QED BY <2>2, <2>3, <2>4, <2>5, <2>6 DEF CollectInv
<1>6. SemanticComesLast' /\ pc' = "collect" /\ actionWinner' = DefaultKeep
  BY DEF Collect, SemanticComesLast
<1>. QED BY <1>3, <1>5, <1>6

\* Between the walks.
LEMMA SettleCompressionPreserves == LoopInv /\ SettleCompression => LoopInv'
<1>. SUFFICES ASSUME LoopInv, SettleCompression PROVE LoopInv'
  OBVIOUS
<1>. USE DEF LoopInv
<1>1. Len(evaluations) \in Nat /\ DOMAIN evaluations = 1 .. Len(evaluations)
  BY DEF TypeOK
<1>2. Collected = DOMAIN evaluations /\ Collected' = DOMAIN evaluations
  BY <1>1 DEF TypeOK, SettleCompression, Collected
<1>3. protectWinner # NoDecision => protectWinner.compression \in Compressions
  BY DEF TypeOK, Decision
<1>4. TypeOK'
  BY <1>1, <1>3 DEF TypeOK, SettleCompression
<1>5. compression' = compression
  <2>1. CASE protectWinner = NoDecision
    BY <2>1 DEF SettleCompression
  <2>2. CASE protectWinner # NoDecision
    BY <2>2, <1>2, <1>3 DEF SettleCompression, CollectInv, TypeOK, Compressions
  <2>. QED BY <2>1, <2>2
<1>6. CollectInv'
  BY <1>2, <1>5 DEF CollectInv, SettleCompression
<1>7. Weighed' = {}
  BY DEF Weighed, SettleCompression
<1>8. WeighInv'
  BY <1>7 DEF WeighInv, SettleCompression, DefaultKeep
<1>9. SemanticComesLast' /\ pc' = "weigh"
  BY DEF SettleCompression, SemanticComesLast
<1>. QED BY <1>4, <1>6, <1>8, <1>9

\* While rules are weighed the action winner is a rule's (or the default):
\* the semantic decision, which comes last, has not been read yet.
LEMMA WeighingRulesOnly ==
  ASSUME LoopInv, Weigh
  PROVE  actionWinner.authority # "semantic"
<1>1. ASSUME NEW k \in Weighed, actionWinner = evaluations[k]
      PROVE  actionWinner.authority # "semantic"
  <2>1. k \in 1 .. next - 1 /\ next <= Len(evaluations)
    BY <1>1 DEF Weigh, Weighed
  <2>2. next \in Nat /\ Len(evaluations) \in Nat
    BY DEF LoopInv, TypeOK
  <2>3. k \in DOMAIN evaluations /\ k # Len(evaluations)
    BY <2>1, <2>2 DEF LoopInv, TypeOK
  <2>. QED BY <2>3, <1>1 DEF LoopInv, SemanticComesLast
<1>2. pc # "collect"
  BY DEF Weigh
<1>. QED BY <1>1, <1>2 DEF LoopInv, WeighInv, DefaultKeep

\* One iteration of the second walk.
LEMMA WeighPreserves == LoopInv /\ Weigh => LoopInv'
<1>. SUFFICES ASSUME LoopInv, Weigh PROVE LoopInv'
  OBVIOUS
<1>. DEFINE e == evaluations[next]
<1>1. next \in DOMAIN evaluations /\ next \in Nat /\ Len(evaluations) \in Nat
  BY DEF LoopInv, TypeOK, Weigh
<1>2. /\ e \in Decision
      /\ actionWinner \in Decision
      /\ actionWinner.authority # "semantic"
      /\ SemanticEligible \in BOOLEAN
      /\ WeighInv
  BY <1>1, EvaluationsAreDecisions, WeighingRulesOnly
  DEF LoopInv, TypeOK, SemanticEligible, Weigh
<1>3. TypeOK'
  BY <1>1, <1>2 DEF LoopInv, TypeOK, Weigh
<1>4. Weighed' = Weighed \cup {next} /\ next \notin Weighed
  BY <1>1 DEF Weigh, Weighed
<1>5. \A k \in Weighed : evaluations[k] \in Decision
  <2>1. Weighed \subseteq DOMAIN evaluations
    BY <1>1 DEF Weigh, Weighed, LoopInv, TypeOK
  <2>. QED BY <2>1, EvaluationsAreDecisions DEF LoopInv
<1>6. SemanticEligible' = SemanticEligible
  BY DEF Weigh, SemanticEligible
<1>10. \A k \in Weighed : evaluations[k].authority # "semantic"
  <2>1. \A k \in Weighed : k \in DOMAIN evaluations /\ k # Len(evaluations)
    BY <1>1 DEF Weigh, Weighed, LoopInv, TypeOK
  <2>. QED BY <2>1 DEF LoopInv, SemanticComesLast
<1>7. WeighInv'
  <2>1. CASE actionWinner' = actionWinner
    <3>1. ASSUME e.action # "PROTECT", e.authority # "semantic"
          PROVE  AtLeast(actionWinner, e)
      <4>1. CASE BeatsAction(e, actionWinner, SemanticEligible)
        BY <4>1, <3>1, <2>1, <1>2, AtLeastOrder DEF Weigh
      <4>2. CASE ~BeatsAction(e, actionWinner, SemanticEligible)
        BY <4>2, <3>1, <1>2, RuleBeats
      <4>. QED BY <4>1, <4>2
    <3>2. \A k \in Weighed' : /\ evaluations[k].action # "PROTECT"
                              /\ evaluations[k].authority # "semantic"
                              => AtLeast(actionWinner, evaluations[k])
      BY <3>1, <1>2, <1>4 DEF WeighInv
    <3>3. ASSUME e.authority = "semantic", SemanticEligible,
                 actionWinner.authority = "heuristic"
          PROVE  ActionRank(e.action) <= ActionRank(actionWinner.action)
      <4>1. e.action # "PROTECT"
        <5>1. e \in RuleEvaluations \cup SemanticEvaluations
          BY <1>1 DEF LoopInv, TypeOK
        <5>. QED BY <5>1, <3>3, RuleEvaluationsAssumption,
                    SemanticEvaluationsAssumption
      <4>2. ~BeatsAction(e, actionWinner, SemanticEligible)
        BY <4>1, <3>3, <2>1, <1>2 DEF Weigh
      <4>3. /\ ActionRank(e.action) \in 0 .. 3
            /\ ActionRank(actionWinner.action) \in 0 .. 3
        BY <1>2, RankProperties DEF Decision
      <4>. QED BY <4>2, <4>3, <3>3 DEF BeatsAction
    <3>4. (\A k \in Weighed :
             /\ evaluations[k].authority = "semantic" /\ SemanticEligible
             /\ actionWinner.authority = "heuristic"
             => ActionRank(evaluations[k].action)
                  <= ActionRank(actionWinner.action))'
      BY <3>3, <2>1, <1>4, <1>6, <1>10 DEF Weigh
    <3>. QED BY <3>2, <3>4, <2>1, <1>2, <1>4 DEF WeighInv, Weigh
  <2>2. CASE actionWinner' # actionWinner /\ e.authority # "semantic"
    <3>1. /\ actionWinner' = e
          /\ e.action # "PROTECT"
          /\ BeatsAction(e, actionWinner, SemanticEligible)
      BY <2>2 DEF Weigh
    <3>2. AtLeast(e, actionWinner) /\ AtLeast(e, e)
      <4>1. ~AtLeast(actionWinner, e)
        BY <3>1, <2>2, <1>2, RuleBeats
      <4>2. /\ AuthorityRank(e.authority) \in 0 .. 3
            /\ AuthorityRank(actionWinner.authority) \in 0 .. 3
            /\ ActionRank(e.action) \in 0 .. 3
            /\ ActionRank(actionWinner.action) \in 0 .. 3
        BY <1>2, RankProperties DEF Decision
      <4>. QED BY <4>1, <4>2 DEF AtLeast
    <3>3. \A k \in Weighed' : /\ evaluations[k].action # "PROTECT"
                              /\ evaluations[k].authority # "semantic"
                              => AtLeast(e, evaluations[k])
      BY <3>2, <1>2, <1>4, <1>5, AtLeastOrder DEF WeighInv
    <3>. QED BY <3>1, <3>3, <2>2, <1>4, <1>10 DEF WeighInv, Weigh
  <2>3. CASE actionWinner' # actionWinner /\ e.authority = "semantic"
    <3>1. /\ actionWinner' = e
          /\ e.action # "PROTECT"
          /\ SemanticEligible
          /\ actionWinner.authority = "heuristic"
          /\ ActionRank(e.action) > ActionRank(actionWinner.action)
      BY <2>3, <1>2, SemanticBeats DEF Weigh
    <3>2. ASSUME NEW k \in Weighed,
                 evaluations[k].action # "PROTECT",
                 evaluations[k].authority # "semantic"
          PROVE  /\ evaluations[k].authority = "heuristic"
                 /\ ActionRank(evaluations[k].action) < ActionRank(e.action)
      <4>1. AtLeast(actionWinner, evaluations[k])
        BY <3>2, <1>2 DEF WeighInv
      <4>2. /\ evaluations[k].authority = "heuristic"
            /\ ActionRank(evaluations[k].action) <= ActionRank(actionWinner.action)
        BY <4>1, <3>1, <3>2, <1>2, <1>5, BelowHeuristic
      <4>3. /\ ActionRank(evaluations[k].action) \in 0 .. 3
            /\ ActionRank(actionWinner.action) \in 0 .. 3
            /\ ActionRank(e.action) \in 0 .. 3
        BY <1>2, <1>5, RankProperties DEF Decision
      <4>. QED BY <4>2, <4>3, <3>1
    <3>3. ActionRank(e.action) > 0
      BY <3>1, <1>2, RankProperties DEF Decision
    <3>. QED BY <3>1, <3>2, <3>3, <2>3, <1>4, <1>6 DEF WeighInv, Weigh
  <2>. QED BY <2>1, <2>2, <2>3
<1>8. CollectInv'
  <2>1. Collected = DOMAIN evaluations /\ Collected' = DOMAIN evaluations
    BY DEF Weigh, Collected
  <2>. QED BY <2>1 DEF LoopInv, CollectInv, Weigh
<1>9. SemanticComesLast' /\ pc' = "weigh"
  BY DEF LoopInv, Weigh, SemanticComesLast
<1>. QED BY <1>3, <1>7, <1>8, <1>9 DEF LoopInv

\* Leaving the second walk.
LEMMA EndWeighPreserves == LoopInv /\ EndWeigh => LoopInv'
<1>. SUFFICES ASSUME LoopInv, EndWeigh PROVE LoopInv'
  OBVIOUS
<1>1. /\ Collected = DOMAIN evaluations /\ Collected' = DOMAIN evaluations
      /\ Weighed = DOMAIN evaluations /\ Weighed' = DOMAIN evaluations
  <2>1. next = Len(evaluations) + 1 /\ Len(evaluations) \in Nat
        /\ DOMAIN evaluations = 1 .. Len(evaluations)
    BY DEF LoopInv, TypeOK, EndWeigh
  <2>. QED BY <2>1 DEF EndWeigh, Collected, Weighed
<1>2. TypeOK'
  BY DEF LoopInv, TypeOK, EndWeigh
<1>3. CollectInv' /\ WeighInv' /\ SemanticComesLast'
  BY <1>1 DEF LoopInv, CollectInv, WeighInv, SemanticEligible,
              SemanticComesLast, EndWeigh
<1>4. pc' = "select"
  BY DEF EndWeigh
<1>. QED BY <1>2, <1>3, <1>4 DEF LoopInv

-----------------------------------------------------------------------------
(* The selected winner.                                                    *)

\* A retained item's winner is retained, PROTECT or COMPRESS, and COMPRESS
\* only when no evaluation forbids it.
LEMMA RetainedWinnerProperties ==
  ASSUME LoopInv, pc # "collect", retention = "protected"
  PROVE  /\ RetainedWinner \in Decision
         /\ RetainedWinner.retention = "protected"
         /\ RetainedWinner.action \in {"PROTECT", "COMPRESS"}
         /\ compression = "forbidden" => /\ RetainedWinner.action = "PROTECT"
                                         /\ RetainedWinner.compression = "forbidden"
<1>1. /\ protectWinner \in Decision /\ protectWinner # NoDecision
      /\ actionWinner \in Decision
      /\ actionWinner.action \in {"KEEP", "COMPRESS", "DROP"}
      /\ compression \in Compressions
      /\ TypeOK
  BY DEF LoopInv, TypeOK, CollectInv, WeighInv, Decision, Actions
<1>2. \A c \in Compressions : /\ AsProtect(c) \in Decision
                              /\ AsProtect(c).action = "PROTECT"
                              /\ AsProtect(c).retention = "protected"
                              /\ AsProtect(c).compression = c
  BY <1>1, AsProtectProperties
<1>3. \A d \in Decision : LET w == WithMeta(d, "protected", "allowed") IN
        w \in Decision /\ w.action = d.action /\ w.retention = "protected"
  BY WithMetaProperties DEF Retentions, Compressions
<1>4. CASE actionWinner.action = "DROP"
  <2>1. CASE compression = "allowed" /\ CompressIndices # {}
    <3>1. RetainedWinner = WithMeta(FirstCompress, "protected", "allowed")
      BY <1>4, <2>1 DEF RetainedWinner
    <3>2. FirstCompress \in Decision /\ FirstCompress.action = "COMPRESS"
      BY <1>1, <2>1, FirstCompressProperties
    <3>. QED BY <3>1, <3>2, <2>1, <1>3
  <2>2. CASE ~(compression = "allowed" /\ CompressIndices # {})
    <3>1. RetainedWinner = AsProtect(compression)
      BY <1>4, <2>2, <1>1 DEF RetainedWinner
    <3>. QED BY <3>1, <1>1, <1>2
  <2>. QED BY <2>1, <2>2
<1>5. CASE actionWinner.action = "COMPRESS"
  <2>1. CASE compression = "forbidden"
    <3>1. RetainedWinner = AsProtect("forbidden")
      BY <1>5, <2>1, <1>1 DEF RetainedWinner
    <3>. QED BY <3>1, <1>2 DEF Compressions
  <2>2. CASE compression # "forbidden"
    <3>1. RetainedWinner = WithMeta(actionWinner, "protected", "allowed")
      BY <1>5, <2>2 DEF RetainedWinner
    <3>. QED BY <3>1, <2>2, <1>1, <1>3, <1>5
  <2>. QED BY <2>1, <2>2
<1>6. CASE actionWinner.action = "KEEP"
  <2>1. RetainedWinner = AsProtect(compression)
    BY <1>6, <1>1 DEF RetainedWinner
  <2>. QED BY <2>1, <1>1, <1>2
<1>. QED BY <1>1, <1>4, <1>5, <1>6

\* Selecting the winner.
LEMMA SelectWinnerPreserves == LoopInv /\ SelectWinner => LoopInv'
<1>. SUFFICES ASSUME LoopInv, SelectWinner PROVE LoopInv'
  OBVIOUS
<1>1. SelectedWinner \in Decision
  <2>1. CASE retention = "protected"
    BY <2>1, RetainedWinnerProperties DEF SelectedWinner, SelectWinner
  <2>2. CASE retention # "protected"
    <3>1. actionWinner \in Decision /\ actionWinner.compression \in Compressions
      BY DEF LoopInv, TypeOK, Decision
    <3>. QED BY <3>1, <2>2, WithMetaProperties DEF SelectedWinner, Retentions
  <2>. QED BY <2>1, <2>2
<1>2. TypeOK'
  BY <1>1, NoDecisionAssumption DEF LoopInv, TypeOK, SelectWinner
<1>3. /\ Collected = Collected' /\ Weighed = Weighed'
      /\ SemanticEligible' = SemanticEligible
  BY DEF SelectWinner, Collected, Weighed, SemanticEligible
<1>4. CollectInv' /\ WeighInv' /\ SemanticComesLast'
  BY <1>3 DEF LoopInv, CollectInv, WeighInv, SemanticComesLast, SelectWinner
<1>5. winner' = SelectedWinner'
  BY DEF SelectWinner, SelectedWinner, RetainedWinner, AsProtect, FirstCompress,
         CompressIndices, WithMeta
<1>6. pc' = "done"
  BY DEF SelectWinner
<1>. QED BY <1>2, <1>4, <1>5, <1>6 DEF LoopInv

\* LoopInv is inductive: type correctness, what both walks have established,
\* and the winner they select, for every behaviour of the merge.
THEOREM LoopInvariant == Spec => []LoopInv
<1>1. LoopInv /\ UNCHANGED vars => LoopInv'
  BY DEF vars, LoopInv, TypeOK, SemanticComesLast, CollectInv, Collected,
         WeighInv, Weighed, SemanticEligible, SelectedWinner, RetainedWinner,
         AsProtect, FirstCompress, CompressIndices, WithMeta
<1>2. LoopInv /\ [Next]_vars => LoopInv'
  BY <1>1, CollectPreserves, SettleCompressionPreserves, WeighPreserves,
     EndWeighPreserves, SelectWinnerPreserves DEF Next
<1>. QED BY InitEstablishesLoopInv, <1>2, PTL DEF Spec

-----------------------------------------------------------------------------
(* The properties of the finished merge.                                   *)

\* What LoopInv says once the winner is selected.
LEMMA DoneFacts ==
  ASSUME LoopInv, pc = "done"
  PROVE  /\ winner = SelectedWinner
         /\ CollectInv /\ WeighInv
         /\ Collected = DOMAIN evaluations
         /\ Weighed = DOMAIN evaluations
         /\ actionWinner \in Decision
  BY DEF LoopInv, TypeOK, Collected, Weighed

\* An item some evaluation retains is never dropped, whatever else was said
\* about it, in whatever order, and whatever the semantic layer answered.
THEOREM RetainedNeverDroppedTheorem == Spec => []RetainedNeverDropped
<1>1. LoopInv => RetainedNeverDropped
  <2>. SUFFICES ASSUME LoopInv, pc = "done",
                       \E k \in DOMAIN evaluations : Retains(evaluations[k])
                PROVE  /\ winner.retention = "protected"
                       /\ winner.action \in {"PROTECT", "COMPRESS"}
    BY DEF RetainedNeverDropped
  <2>1. retention = "protected"
    BY DoneFacts DEF CollectInv
  <2>2. winner = RetainedWinner
    BY <2>1, DoneFacts DEF SelectedWinner
  <2>. QED BY <2>1, <2>2, RetainedWinnerProperties
<1>. QED BY <1>1, LoopInvariant, PTL

\* One forbidding evaluation keeps a retained item verbatim.
THEOREM ForbiddenKeptVerbatimTheorem == Spec => []ForbiddenKeptVerbatim
<1>1. LoopInv => ForbiddenKeptVerbatim
  <2>. SUFFICES ASSUME LoopInv, pc = "done",
                       \E k \in DOMAIN evaluations : Retains(evaluations[k]),
                       \E k \in DOMAIN evaluations :
                         evaluations[k].compression = "forbidden"
                PROVE  winner.action = "PROTECT" /\ winner.compression = "forbidden"
    BY DEF ForbiddenKeptVerbatim
  <2>1. retention = "protected" /\ compression = "forbidden"
    BY DoneFacts DEF CollectInv
  <2>2. winner = RetainedWinner
    BY <2>1, DoneFacts DEF SelectedWinner
  <2>. QED BY <2>1, <2>2, RetainedWinnerProperties
<1>. QED BY <1>1, LoopInvariant, PTL

\* A semantic winner only goes further than heuristic rules, about a candidate
\* nothing retains; about a retained item it only softens a DROP.
THEOREM SemanticOnlyEscalatesTheorem == Spec => []SemanticOnlyEscalates
<1>1. LoopInv => SemanticOnlyEscalates
  <2>. SUFFICES ASSUME LoopInv, pc = "done", winner.authority = "semantic"
                PROVE  SemanticOnlyEscalates
    BY DEF SemanticOnlyEscalates
  <2>1. CASE retention = "protected"
    <3>1. winner = RetainedWinner
      BY <2>1, DoneFacts DEF SelectedWinner
    <3>2. winner.retention = "protected"
      BY <3>1, <2>1, RetainedWinnerProperties
    <3>3. PICK k \in DOMAIN evaluations : /\ protectWinner = evaluations[k]
                                          /\ Retains(evaluations[k])
      BY <2>1, DoneFacts DEF CollectInv
    <3>4. protectWinner \in Decision /\ protectWinner # NoDecision
      BY <3>3, EvaluationsAreDecisions DEF LoopInv
    <3>5. protectWinner.authority # "semantic"
      <4>1. evaluations[k] \in RuleEvaluations \cup SemanticEvaluations
        BY <3>3 DEF LoopInv, TypeOK
      <4>2. evaluations[k] \notin SemanticEvaluations
        BY <3>3, SemanticEvaluationsAssumption DEF Retains
      <4>. QED BY <3>3, <4>1, <4>2, RuleEvaluationsAssumption
    <3>6. \A c \in Compressions : winner # AsProtect(c)
      BY <3>4, <3>5, AsProtectProperties
    <3>7. compression \in Compressions /\ TypeOK
      BY DEF LoopInv, TypeOK
    <3>8. CASE actionWinner.action = "DROP"
      <4>1. /\ compression = "allowed" /\ CompressIndices # {}
            /\ winner = WithMeta(FirstCompress, "protected", "allowed")
        BY <3>1, <3>4, <3>6, <3>7, <3>8 DEF RetainedWinner
      <4>2. winner.action = "COMPRESS"
        BY <4>1, <3>7, FirstCompressProperties, WithMetaProperties
        DEF Retentions, Compressions
      <4>3. \E m \in DOMAIN evaluations : evaluations[m].action = "DROP"
        BY <3>8, DoneFacts DEF WeighInv, DefaultKeep
      <4>. QED BY <4>2, <4>3, <3>2 DEF SemanticOnlyEscalates
    <3>9. CASE actionWinner.action = "COMPRESS"
      <4>1. winner = WithMeta(actionWinner, "protected", "allowed")
        BY <3>1, <3>4, <3>6, <3>9 DEF RetainedWinner, Compressions
      <4>2. actionWinner.authority = "semantic"
        BY <4>1, DoneFacts, WithMetaProperties DEF Retentions, Compressions
      <4>. QED BY <4>2, <2>1, DoneFacts DEF WeighInv, SemanticEligible
    <3>10. CASE actionWinner.action \notin {"DROP", "COMPRESS"}
      BY <3>1, <3>4, <3>6, <3>7, <3>10 DEF RetainedWinner
    <3>. QED BY <3>8, <3>9, <3>10
  <2>2. CASE retention # "protected"
    <3>1. winner = WithMeta(actionWinner, "normal", actionWinner.compression)
      BY <2>2, DoneFacts DEF SelectedWinner
    <3>2. actionWinner.compression \in Compressions
      BY DoneFacts DEF Decision
    <3>3. /\ winner.action = actionWinner.action
          /\ actionWinner.authority = "semantic"
          /\ winner.retention = "normal"
      BY <3>1, <3>2, DoneFacts, WithMetaProperties DEF Retentions
    <3>4. candidate
      BY <3>3, DoneFacts DEF WeighInv, SemanticEligible
    <3>5. ASSUME NEW k \in DOMAIN evaluations,
                 evaluations[k].authority # "semantic"
          PROVE  /\ ~Retains(evaluations[k])
                 /\ evaluations[k].authority = "heuristic"
                 /\ ActionRank(evaluations[k].action) < ActionRank(winner.action)
      <4>1. ~Retains(evaluations[k])
        BY <2>2, DoneFacts DEF CollectInv
      <4>2. evaluations[k].action # "PROTECT"
        BY <4>1 DEF Retains
      <4>. QED BY <4>1, <4>2, <3>3, <3>5, DoneFacts DEF WeighInv
    <3>. QED BY <3>3, <3>4, <3>5 DEF SemanticOnlyEscalates
  <2>. QED BY <2>1, <2>2
<1>. QED BY <1>1, LoopInvariant, PTL

-----------------------------------------------------------------------------
(* The two loops implement the order-free contract.                        *)

\* The contract's verdicts are those of MergeVerdict.
LEMMA ContractVerdicts ==
  ASSUME NEW said, NEW c
  PROVE  Contract!Verdicts(said, c) = Verdicts(said, c)
<1>1. /\ Contract!DefaultKeep = DefaultKeep
      /\ \A d : Contract!Retains(d) <=> Retains(d)
      /\ \A a : Contract!AuthorityRank(a) = AuthorityRank(a)
      /\ \A a : Contract!ActionRank(a) = ActionRank(a)
  BY DEF Contract!DefaultKeep, DefaultKeep, Contract!Retains, Retains,
         Contract!AuthorityRank, AuthorityRank, Contract!ActionRank, ActionRank
<1>2. /\ \A d, e : Contract!BeatsProtect(d, e) <=> BeatsProtect(d, e)
      /\ \A d, e : Contract!Outranks(d, e) <=> Outranks(d, e)
  BY <1>1 DEF Contract!BeatsProtect, BeatsProtect, Contract!Outranks, Outranks
<1>3. /\ Contract!Retained(said) <=> Retained(said)
      /\ Contract!CompressionForbidden(said) <=> CompressionForbidden(said)
      /\ Contract!Contenders(said) = Contenders(said)
      /\ Contract!Compressing(said) = Compressing(said)
      /\ Contract!Protecting(said) = Protecting(said)
  BY <1>1, <1>2
  DEF Contract!Retained, Retained, Contract!CompressionForbidden,
      CompressionForbidden, Contract!Contenders, Contenders,
      Contract!Compressing, Compressing, Contract!Protecting, Protecting
<1>4. Contract!Strongest(said) = Strongest(said)
  BY <1>2, <1>3 DEF Contract!Strongest, Strongest
<1>5. Contract!Escalations(said, c) = Escalations(said, c)
  BY <1>1, <1>3, <1>4 DEF Contract!Escalations, Escalations
<1>6. Contract!Leading(said, c) = Leading(said, c)
  BY <1>4, <1>5 DEF Contract!Leading, Leading
<1>7. Contract!MayCompress(said) <=> MayCompress(said)
  BY <1>3, <1>4 DEF Contract!MayCompress, MayCompress
<1>. QED BY <1>3, <1>6, <1>7 DEF Contract!Verdicts, Verdicts

\* The item's evaluations as the set the contract looks at, and what the first
\* walk has found out about it.
LEMMA SaidFacts ==
  ASSUME LoopInv, pc # "collect"
  PROVE  /\ ToSet(evaluations) \in SUBSET Decision
         /\ \A e : e \in ToSet(evaluations) <=>
                    \E k \in DOMAIN evaluations : e = evaluations[k]
         /\ (retention = "protected") <=> Retained(ToSet(evaluations))
         /\ (compression = "forbidden") <=> CompressionForbidden(ToSet(evaluations))
         /\ retention = "protected" => protectWinner \in Protecting(ToSet(evaluations))
         /\ (CompressIndices # {}) <=> (Compressing(ToSet(evaluations)) # {})
<1>. DEFINE said == ToSet(evaluations)
<1>1. \A e : e \in said <=> \E k \in DOMAIN evaluations : e = evaluations[k]
  BY DEF ToSet
<1>2. said \in SUBSET Decision
  BY <1>1, EvaluationsAreDecisions DEF LoopInv
<1>3. Collected = DOMAIN evaluations /\ CollectInv
  BY DEF Collected, LoopInv
<1>4. /\ (retention = "protected") <=> Retained(said)
      /\ (compression = "forbidden") <=> CompressionForbidden(said)
  BY <1>1, <1>3 DEF CollectInv, Retained, CompressionForbidden
<1>5. retention = "protected" => protectWinner \in Protecting(said)
  BY <1>1, <1>3 DEF CollectInv, Protecting
<1>6. (CompressIndices # {}) <=> (Compressing(said) # {})
  BY <1>1 DEF CompressIndices, Compressing
<1>. QED BY <1>1, <1>2, <1>4, <1>5, <1>6

\* After the second walk a rule's action winner is one of the strongest.
LEMMA RuleWinnerIsStrongest ==
  ASSUME LoopInv, pc \in {"select", "done"}, actionWinner.authority # "semantic"
  PROVE  actionWinner \in Strongest(ToSet(evaluations))
<1>. DEFINE said == ToSet(evaluations)
<1>1. WeighInv /\ Weighed = DOMAIN evaluations /\ actionWinner \in Decision
  BY DEF LoopInv, Weighed, TypeOK
<1>2. actionWinner \in Contenders(said)
  BY <1>1, SaidFacts DEF WeighInv, Contenders
<1>3. ASSUME NEW e \in Contenders(said) PROVE Outranks(actionWinner, e)
  <2>1. e \in Decision
    BY StrongestProperties, SaidFacts
  <2>2. \A d \in Decision : /\ d.authority \in Authorities
                            /\ AuthorityRank(d.authority) \in 0 .. 3
                            /\ ActionRank(d.action) \in 0 .. 3
    BY RankProperties DEF Decision
  <2>3. CASE e = DefaultKeep
    <3>1. /\ AuthorityRank(e.authority) = 1 /\ ActionRank(e.action) = 0
          /\ e.authority = "heuristic"
      BY <2>3 DEF DefaultKeep, AuthorityRank, ActionRank
    <3>2. \/ actionWinner.authority = "heuristic"
          \/ AuthorityRank(actionWinner.authority) > 1
      BY <1>1, <2>2 DEF AuthorityRank, Authorities
    <3>. QED BY <3>1, <3>2, <1>1, <2>2 DEF Outranks
  <2>4. CASE e # DefaultKeep
    <3>1. AtLeast(actionWinner, e)
      BY <2>4, <1>1, SaidFacts DEF WeighInv, Contenders
    <3>. QED BY <3>1, <2>1, <2>2, <1>1, RankProperties DEF AtLeast, Outranks
  <2>. QED BY <2>3, <2>4
<1>. QED BY <1>2, <1>3 DEF Strongest

\* After the second walk the action winner leads.
LEMMA ActionWinnerLeads ==
  ASSUME LoopInv, pc \in {"select", "done"}
  PROVE  actionWinner \in Leading(ToSet(evaluations), candidate)
<1>. DEFINE said == ToSet(evaluations)
<1>1. /\ WeighInv /\ Weighed = DOMAIN evaluations /\ actionWinner \in Decision
      /\ candidate \in BOOLEAN
  BY DEF LoopInv, Weighed, TypeOK
<1>2. SemanticEligible <=> candidate /\ ~Retained(said)
  BY SaidFacts DEF SemanticEligible
<1>3. /\ said \in SUBSET Decision
      /\ \A d \in Decision : ActionRank(d.action) \in 0 .. 3
  BY SaidFacts, RankProperties DEF Decision
<1>4. CASE actionWinner.authority = "semantic"
  <2>1. /\ SemanticEligible /\ ActionRank(actionWinner.action) > 0
        /\ actionWinner \in said
    BY <1>4, <1>1, SaidFacts DEF WeighInv, DefaultKeep
  <2>2. ASSUME NEW d \in Strongest(said)
        PROVE  /\ d.authority = "heuristic"
               /\ ActionRank(actionWinner.action) > ActionRank(d.action)
    <3>1. d \in Contenders(said) /\ d \in Decision
      BY <1>3, StrongestProperties
    <3>2. CASE d = DefaultKeep
      BY <3>2, <2>1, <1>1, <1>3 DEF DefaultKeep, ActionRank
    <3>3. CASE d # DefaultKeep
      <4>1. PICK k \in DOMAIN evaluations :
              /\ d = evaluations[k]
              /\ d.action # "PROTECT" /\ d.authority # "semantic"
        BY <3>1, <3>3, SaidFacts DEF Contenders
      <4>. QED BY <4>1, <3>1, <1>1, <1>3, <1>4 DEF WeighInv
    <3>. QED BY <3>2, <3>3
  <2>3. actionWinner \in Escalations(said, candidate)
    BY <2>1, <2>2, <1>2, <1>4 DEF Escalations
  <2>. QED BY <2>3 DEF Leading
<1>5. CASE actionWinner.authority # "semantic"
  <2>1. actionWinner \in Strongest(said)
    BY <1>5, RuleWinnerIsStrongest
  <2>2. ASSUME NEW s \in Escalations(said, candidate) PROVE FALSE
    <3>1. /\ s \in said /\ s.authority = "semantic" /\ SemanticEligible
          /\ actionWinner.authority = "heuristic"
          /\ ActionRank(s.action) > ActionRank(actionWinner.action)
      BY <2>1, <2>2, <1>2 DEF Escalations
    <3>2. PICK k \in DOMAIN evaluations : s = evaluations[k]
      BY <3>1, SaidFacts
    <3>3. ActionRank(s.action) <= ActionRank(actionWinner.action)
      BY <3>1, <3>2, <1>1 DEF WeighInv
    <3>. QED BY <3>1, <3>3, <1>1, <1>3
  <2>. QED BY <2>1, <2>2 DEF Leading
<1>. QED BY <1>4, <1>5

\* Rewriting retention and compression, as MergeVerdict writes it.
LEMMA WithMetaIsExcept ==
  ASSUME NEW d \in Decision
  PROVE  /\ WithMeta(d, "normal", d.compression) = [d EXCEPT !.retention = "normal"]
         /\ WithMeta(d, "protected", "allowed") =
              [d EXCEPT !.retention = "protected", !.compression = "allowed"]
         /\ \A c : WithMeta([d EXCEPT !.action = "PROTECT"], "protected", c) =
              [d EXCEPT !.action = "PROTECT", !.retention = "protected",
                        !.compression = c]
  BY DEF WithMeta, Decision

\* The selected winner is a verdict about the set of evaluations.
LEMMA SelectedWinnerIsVerdict ==
  ASSUME LoopInv, pc = "select"
  PROVE  SelectedWinner \in Verdicts(ToSet(evaluations), candidate)
<1>. DEFINE said == ToSet(evaluations)
<1>1. /\ actionWinner \in Leading(said, candidate)
      /\ actionWinner \in Decision
      /\ compression \in Compressions
      /\ TypeOK
  BY ActionWinnerLeads DEF LoopInv, TypeOK
<1>2. CASE retention # "protected"
  <2>1. ~Retained(said)
    BY <1>2, SaidFacts
  <2>2. SelectedWinner = [actionWinner EXCEPT !.retention = "normal"]
    BY <1>1, <1>2, WithMetaIsExcept DEF SelectedWinner
  <2>. QED BY <2>1, <2>2, <1>1 DEF Verdicts
<1>3. CASE retention = "protected"
  <2>1. /\ Retained(said) /\ protectWinner \in Protecting(said)
        /\ protectWinner \in Decision /\ protectWinner # NoDecision
        /\ SelectedWinner = RetainedWinner
        /\ said \in SUBSET Decision
    BY <1>3, SaidFacts DEF SelectedWinner, LoopInv, CollectInv, TypeOK
  <2>2. actionWinner \in Strongest(said)
    BY <1>3, RuleWinnerIsStrongest DEF LoopInv, WeighInv, SemanticEligible
  <2>3. (\A d \in Strongest(said) : d.action \in {"DROP", "COMPRESS"})
          <=> actionWinner.action \in {"DROP", "COMPRESS"}
    BY <2>1, <2>2, StrongestProperties
  <2>4. MayCompress(said) <=> /\ compression # "forbidden"
                              /\ CompressIndices # {}
                              /\ actionWinner.action \in {"DROP", "COMPRESS"}
    BY <2>3, SaidFacts DEF MayCompress
  <2>5. ASSUME RetainedWinner = AsProtect(compression), ~MayCompress(said)
        PROVE  SelectedWinner \in Verdicts(said, candidate)
    <3>. DEFINE c == IF CompressionForbidden(said) THEN "forbidden" ELSE "allowed"
    <3>1. c = compression
      BY <1>1, SaidFacts DEF Compressions
    <3>2. AsProtect(compression) =
            [protectWinner EXCEPT !.action = "PROTECT", !.retention = "protected",
                                  !.compression = c]
      BY <2>1, <3>1, WithMetaIsExcept DEF AsProtect
    <3>3. Verdicts(said, candidate) =
            {[d EXCEPT !.action = "PROTECT", !.retention = "protected",
                       !.compression = c] : d \in Protecting(said)}
      BY <2>1, <2>5 DEF Verdicts
    <3>. HIDE DEF c
    <3>. QED BY <2>1, <2>5, <3>2, <3>3
  <2>6. ASSUME NEW d \in Compressing(said), MayCompress(said),
               RetainedWinner = WithMeta(d, "protected", "allowed")
        PROVE  SelectedWinner \in Verdicts(said, candidate)
    <3>1. Verdicts(said, candidate) =
            {[e EXCEPT !.retention = "protected", !.compression = "allowed"] :
               e \in Compressing(said)}
      BY <2>1, <2>6 DEF Verdicts
    <3>2. d \in Decision
      BY <2>1, <2>6 DEF Compressing
    <3>3. SelectedWinner =
            [d EXCEPT !.retention = "protected", !.compression = "allowed"]
      BY <2>1, <2>6, <3>2, WithMetaIsExcept
    <3>. QED BY <3>1, <3>3
  <2>7. CASE actionWinner.action = "DROP"
    <3>1. CASE compression = "allowed" /\ CompressIndices # {}
      <4>1. RetainedWinner = WithMeta(FirstCompress, "protected", "allowed")
        BY <2>7, <3>1 DEF RetainedWinner
      <4>2. FirstCompress \in Compressing(said)
        BY <3>1, <1>1, FirstCompressProperties, SaidFacts DEF Compressing
      <4>. QED BY <4>1, <4>2, <2>4, <2>6, <2>7, <3>1
    <3>2. CASE ~(compression = "allowed" /\ CompressIndices # {})
      BY <3>2, <2>1, <2>4, <2>5, <2>7, <1>1 DEF RetainedWinner, Compressions
    <3>. QED BY <3>1, <3>2
  <2>8. CASE actionWinner.action = "COMPRESS"
    <3>1. actionWinner \in Compressing(said) /\ CompressIndices # {}
      BY <2>8, <2>2, <2>1, StrongestProperties, SaidFacts
      DEF Contenders, Compressing, DefaultKeep
    <3>2. CASE compression = "forbidden"
      BY <3>2, <2>1, <2>4, <2>5, <2>8 DEF RetainedWinner
    <3>3. CASE compression # "forbidden"
      BY <3>1, <3>3, <2>4, <2>6, <2>8 DEF RetainedWinner
    <3>. QED BY <3>2, <3>3
  <2>9. CASE actionWinner.action \notin {"DROP", "COMPRESS"}
    BY <2>9, <2>1, <2>4, <2>5 DEF RetainedWinner
  <2>. QED BY <2>7, <2>8, <2>9
<1>. QED BY <1>2, <1>3

\* The merge implements MergeContract: every behaviour of the two loops is one
\* in which a single verdict, that depends on the SET of evaluations alone, is
\* taken once, and the other steps change nothing the contract sees.
THEOREM MeetsContractTheorem == Spec => MeetsContract
<1>1. Init => Contract!Init
  BY DEF Init, Contract!Init
<1>2. LoopInv /\ [Next]_vars => [Contract!Decide]_Contract!contractVars
  <2>. SUFFICES ASSUME LoopInv, [Next]_vars
                PROVE  [Contract!Decide]_Contract!contractVars
    OBVIOUS
  <2>1. CASE SelectWinner
    <3>1. winner = NoDecision
      BY <2>1 DEF SelectWinner, LoopInv, TypeOK
    <3>2. winner' \in Contract!Verdicts(ToSet(evaluations), candidate)
      BY <2>1, SelectedWinnerIsVerdict, ContractVerdicts DEF SelectWinner
    <3>3. Contract!ToSet(evaluations) = ToSet(evaluations)
      BY DEF Contract!ToSet, ToSet
    <3>4. Contract!Decide
      BY <2>1, <3>1, <3>2, <3>3 DEF SelectWinner, Contract!Decide
    <3>. QED BY <3>4
  <2>2. CASE Collect \/ SettleCompression \/ Weigh \/ EndWeigh
    BY <2>2 DEF Collect, SettleCompression, Weigh, EndWeigh, Contract!contractVars
  <2>3. CASE UNCHANGED vars
    BY <2>3 DEF vars, Contract!contractVars
  <2>. QED BY <2>1, <2>2, <2>3 DEF Next
<1>. QED BY <1>1, <1>2, LoopInvariant, PTL DEF Spec, MeetsContract, Contract!Spec
=============================================================================
