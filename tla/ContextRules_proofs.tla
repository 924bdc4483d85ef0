------------------------ MODULE ContextRules_proofs ------------------------
(***************************************************************************)
(* What MergeVerdict says of any set of decisions: there is a verdict, and *)
(* what it has in common with every other one about the same set; and what *)
(* the rules of ContextRules say about the items of any session.           *)
(***************************************************************************)
EXTENDS ContextRules, IndexLemmas

\* The default decision is a decision.
LEMMA DefaultIsDecision == DefaultKeep \in Decision
  BY DEF DefaultKeep, Decision, Actions, Authorities, Retentions, Compressions

\* Ranks are numbers, and different authorities have different ranks.
LEMMA RankProperties ==
  /\ \A a \in Actions : ActionRank(a) \in 0 .. 3
  /\ \A a \in Authorities : AuthorityRank(a) \in 0 .. 3
  /\ \A a, b \in Authorities : AuthorityRank(a) = AuthorityRank(b) => a = b
<1>1. \A a \in Actions : ActionRank(a) \in 0 .. 3
  BY DEF ActionRank, Actions
<1>2. \A a \in Authorities : AuthorityRank(a) \in 0 .. 3
  BY DEF AuthorityRank, Authorities
<1>3. \A a, b \in Authorities : AuthorityRank(a) = AuthorityRank(b) => a = b
  BY DEF AuthorityRank, Authorities
<1>. QED BY <1>1, <1>2, <1>3

\* Standing is a total order up to equal authority and action.
LEMMA OutranksOrder ==
  /\ \A d, e \in Decision : Outranks(d, e) \/ Outranks(e, d)
  /\ \A d, e, f \in Decision : Outranks(d, e) /\ Outranks(e, f) => Outranks(d, f)
  /\ \A d, e \in Decision :
       Outranks(d, e) /\ Outranks(e, d) => /\ d.authority = e.authority
                                           /\ d.action = e.action
<1>1. \A d \in Decision : /\ d.authority \in Authorities /\ d.action \in Actions
                          /\ AuthorityRank(d.authority) \in 0 .. 3
                          /\ ActionRank(d.action) \in 0 .. 3
  BY RankProperties DEF Decision
<1>2. \A a, b \in Actions : ActionRank(a) = ActionRank(b) => a = b
  BY DEF ActionRank, Actions
<1>3. \A d, e \in Decision : Outranks(d, e) \/ Outranks(e, d)
  BY <1>1, RankProperties DEF Outranks
<1>4. \A d, e, f \in Decision : Outranks(d, e) /\ Outranks(e, f) => Outranks(d, f)
  BY <1>1 DEF Outranks
<1>5. \A d, e \in Decision :
        Outranks(d, e) /\ Outranks(e, d) => d.authority = e.authority /\ d.action = e.action
  BY <1>1, <1>2 DEF Outranks
<1>. QED BY <1>3, <1>4, <1>5

\* A set of decisions with a member has one of highest standing: standings are
\* among sixteen numbers.
LEMMA HighestExists ==
  ASSUME NEW S \in SUBSET Decision, S # {}
  PROVE  \E d \in S : \A e \in S : Outranks(d, e)
<1> DEFINE Score(d) == 15 - (4 * AuthorityRank(d.authority) + ActionRank(d.action))
           Scores == {Score(d) : d \in S}
<1>1. \A d \in S : /\ AuthorityRank(d.authority) \in 0 .. 3
                   /\ ActionRank(d.action) \in 0 .. 3
                   /\ d.authority \in Authorities
  BY RankProperties DEF Decision
<1>2. \A d \in S : Score(d) \in Nat
  BY <1>1
<1>3. Scores \in SUBSET Nat /\ Scores # {}
  BY <1>2
<1>4. PICK k \in Scores : \A m \in Scores : k <= m
  BY <1>3, FirstIndex
<1>5. PICK d \in S : k = Score(d)
  BY <1>4
<1>6. ASSUME NEW e \in S PROVE Outranks(d, e)
  <2>1. Score(d) <= Score(e)
    BY <1>4, <1>5
  <2>. QED BY <2>1, <1>1, RankProperties DEF Outranks
<1>. QED BY <1>6

\* Among rules and the default there is a strongest, and two strongest ones
\* differ at most in the rule, the retention and the compression.
LEMMA StrongestProperties ==
  ASSUME NEW said \in SUBSET Decision
  PROVE  /\ Strongest(said) # {}
         /\ Strongest(said) \subseteq Contenders(said)
         /\ Contenders(said) \subseteq Decision
         /\ \A d, e \in Strongest(said) : d.authority = e.authority /\ d.action = e.action
<1>1. /\ Contenders(said) \in SUBSET Decision
      /\ Contenders(said) # {}
  BY DefaultIsDecision DEF Contenders
<1>2. PICK d \in Contenders(said) : \A e \in Contenders(said) : Outranks(d, e)
  BY <1>1, HighestExists
<1>3. d \in Strongest(said)
  BY <1>2 DEF Strongest
<1>4. \A x, y \in Strongest(said) : x.authority = y.authority /\ x.action = y.action
  BY <1>1, OutranksOrder DEF Strongest
<1>. QED BY <1>1, <1>3, <1>4 DEF Strongest

\* A retained set has a protecting decision no other one beats.
LEMMA ProtectingExists ==
  ASSUME NEW said \in SUBSET Decision, Retained(said)
  PROVE  Protecting(said) # {}
<1> DEFINE S == {d \in said : Retains(d)}
<1>1. S \in SUBSET Decision /\ S # {}
  BY DEF Retained
<1>2. PICK d \in S : \A e \in S : Outranks(d, e)
  BY <1>1, HighestExists
<1>3. \A e \in S : ~BeatsProtect(e, d)
  <2>1. \A e \in S : AuthorityRank(e.authority) \in 0 .. 3
    BY <1>1, RankProperties DEF Decision
  <2>. QED BY <2>1, <1>2 DEF Outranks, BeatsProtect
<1>. QED BY <1>3 DEF Protecting

\* What leads is one of the decisions or the default.
LEMMA LeadingProperties ==
  ASSUME NEW said \in SUBSET Decision, NEW candidate \in BOOLEAN
  PROVE  /\ Leading(said, candidate) # {}
         /\ Leading(said, candidate) \subseteq Decision
         /\ Leading(said, candidate) \subseteq said \cup {DefaultKeep}
<1>1. Escalations(said, candidate) \subseteq said
  BY DEF Escalations
<1>2. Strongest(said) # {} /\ Strongest(said) \subseteq said \cup {DefaultKeep}
  BY StrongestProperties DEF Contenders
<1>. QED BY <1>1, <1>2, DefaultIsDecision DEF Leading

\* There is a verdict about every set of decisions, and it is a decision.
LEMMA VerdictsExist ==
  ASSUME NEW said \in SUBSET Decision, NEW candidate \in BOOLEAN
  PROVE  /\ Verdicts(said, candidate) # {}
         /\ Verdicts(said, candidate) \subseteq Decision
<1>1. CASE ~Retained(said)
  <2>1. Verdicts(said, candidate) =
          {[d EXCEPT !.retention = "normal"] : d \in Leading(said, candidate)}
    BY <1>1 DEF Verdicts
  <2>2. \A d \in Decision : [d EXCEPT !.retention = "normal"] \in Decision
    BY DEF Decision, Retentions
  <2>3. Leading(said, candidate) # {} /\ Leading(said, candidate) \subseteq Decision
    BY LeadingProperties
  <2>. QED BY <2>1, <2>2, <2>3
<1>2. CASE Retained(said) /\ MayCompress(said)
  <2>1. Verdicts(said, candidate) =
          {[d EXCEPT !.retention = "protected", !.compression = "allowed"] :
             d \in Compressing(said)}
    BY <1>2 DEF Verdicts
  <2>2. \A d \in Decision :
          [d EXCEPT !.retention = "protected", !.compression = "allowed"] \in Decision
    BY DEF Decision, Retentions, Compressions
  <2>3. Compressing(said) # {} /\ Compressing(said) \subseteq Decision
    BY <1>2 DEF MayCompress, Compressing
  <2>. QED BY <2>1, <2>2, <2>3
<1>3. CASE Retained(said) /\ ~MayCompress(said)
  <2> DEFINE c == IF CompressionForbidden(said) THEN "forbidden" ELSE "allowed"
  <2>1. Verdicts(said, candidate) =
          {[d EXCEPT !.action = "PROTECT", !.retention = "protected",
                     !.compression = c] : d \in Protecting(said)}
    BY <1>3 DEF Verdicts
  <2>2. c \in Compressions
    BY DEF Compressions
  <2>. HIDE DEF c
  <2>3. \A d \in Decision :
          [d EXCEPT !.action = "PROTECT", !.retention = "protected",
                    !.compression = c] \in Decision
    BY <2>2 DEF Decision, Retentions, Actions
  <2>4. Protecting(said) # {} /\ Protecting(said) \subseteq Decision
    BY <1>3, ProtectingExists DEF Protecting
  <2>. QED BY <2>1, <2>3, <2>4
<1>. QED BY <1>1, <1>2, <1>3

-----------------------------------------------------------------------------
(* What the rules say, and the verdicts about it.                          *)

ProtectRules == SafetyRules \cup {"recent-items"}
VerbatimRules == {"system-instructions", "explicit-user-constraint", "current-task"}
DropRules == {"successful-test-supersedes-failures", "superseded-test-run",
              "superseded-file-read", "superseded-git-status",
              "superseded-git-diff", "old-directory-listing",
              "repeated-command-output"}

\* What each kind of rule emits.
LEMMA EmissionProperties ==
  ASSUME NEW r \in Rules, NEW item
  PROVE  /\ Emission(r, item) \in Decision
         /\ Emission(r, item).rule = r
         /\ r \in ProtectRules => Emission(r, item).action = "PROTECT"
         /\ r \in VerbatimRules => Emission(r, item).compression = "forbidden"
         /\ r \notin ProtectRules => /\ Emission(r, item).retention = "normal"
                                     /\ Emission(r, item).action \in {"COMPRESS", "DROP"}
         /\ Emission(r, item).action = "DROP" => r \in DropRules \cup {"semantic"}
         /\ Emission(r, item).authority # "semantic"
<1>. USE DEF ProtectRules, SafetyRules, VerbatimRules, DropRules
<1>1. CASE r \in VerbatimRules
  <2>1. Emission(r, item) = MakeDecision("PROTECT", "safety", r)
    BY <1>1 DEF Emission
  <2>. QED BY <1>1, <2>1 DEF MakeDecision, Decision, Actions, Authorities,
                             Retentions, Compressions
<1>2. CASE r = "unresolved-error"
  <2>1. Emission(r, item) =
          [MakeDecision("PROTECT", "safety", r) EXCEPT !.compression = "allowed"]
    BY <1>2 DEF Emission
  <2>. QED BY <1>2, <2>1 DEF MakeDecision, Decision, Actions, Authorities,
                             Retentions, Compressions
<1>3. CASE r = "recent-items"
  <2>. DEFINE c == IF IsCompressibleToolItem(item) THEN "allowed" ELSE "forbidden"
  <2>1. Emission(r, item) =
          [MakeDecision("PROTECT", "heuristic", r) EXCEPT !.compression = c]
    BY <1>3 DEF Emission
  <2>2. c \in Compressions
    BY DEF Compressions
  <2>. HIDE DEF c
  <2>. QED BY <1>3, <2>1, <2>2 DEF MakeDecision, Decision, Actions, Authorities, Retentions
<1>4. CASE r = "repeated-command-output"
  <2>1. Emission(r, item) = MakeDecision("DROP", "heuristic", r)
    BY <1>4 DEF Emission
  <2>. QED BY <1>4, <2>1 DEF MakeDecision, Decision, Actions, Authorities,
                             Retentions, Compressions
<1>5. CASE r = "compress-large-output"
  <2>1. Emission(r, item) = MakeDecision("COMPRESS", "heuristic", r)
    BY <1>5 DEF Emission
  <2>. QED BY <1>5, <2>1 DEF MakeDecision, Decision, Actions, Authorities,
                             Retentions, Compressions
<1>6. CASE r \notin ProtectRules \cup {"repeated-command-output", "compress-large-output"}
  <2>1. Emission(r, item) = MakeDecision("DROP", "structural", r)
    BY <1>6 DEF Emission
  <2>2. r \in DropRules \cup {"semantic"}
    BY <1>6 DEF Rules
  <2>. QED BY <1>6, <2>1, <2>2 DEF MakeDecision, Decision, Actions, Authorities,
                             Retentions, Compressions
<1>. QED BY <1>1, <1>2, <1>3, <1>4, <1>5, <1>6

\* What is said about an item is what the rules that name it emit.
LEMMA SaidProperties ==
  ASSUME NEW s, NEW i \in DOMAIN s
  PROVE  /\ Said(s)[i] \in SUBSET Decision
         /\ \A d : d \in Said(s)[i] <=>
                     \E r \in Rules : i \in Emits(r, s) /\ d = Emission(r, s[i])
         /\ DOMAIN Said(s) = DOMAIN s
<1>. DEFINE emits == [rule \in Rules |-> Emits(rule, s)]
<1>1. Said(s)[i] = {Emission(r, s[i]) : r \in {rule \in Rules : i \in emits[rule]}}
  BY DEF Said
<1>2. \A d : d \in Said(s)[i] <=>
               \E r \in Rules : i \in Emits(r, s) /\ d = Emission(r, s[i])
  BY <1>1
<1>3. DOMAIN Said(s) = DOMAIN s
  BY DEF Said
<1>. HIDE DEF emits
<1>. QED BY <1>2, <1>3, EmissionProperties

\* The winner is a verdict.
LEMMA WinnerIsVerdict ==
  ASSUME NEW said \in SUBSET Decision, NEW c \in BOOLEAN
  PROVE  Winner(said, c) \in Verdicts(said, c) /\ Winner(said, c) \in Decision
<1>1. Verdicts(said, c) # {} /\ Verdicts(said, c) \subseteq Decision
  BY VerdictsExist
<1>. QED BY <1>1 DEF Winner

\* A verdict retains exactly what something said retains, and then it does not
\* drop it; if something forbade compression too, it is a PROTECT that does.
LEMMA RetainedVerdict ==
  ASSUME NEW said \in SUBSET Decision, NEW c \in BOOLEAN,
         NEW d \in Verdicts(said, c)
  PROVE  /\ (d.retention = "protected") <=> Retained(said)
         /\ (d.retention = "normal") <=> ~Retained(said)
         /\ Retained(said) => d.action \in {"PROTECT", "COMPRESS"}
         /\ Retained(said) /\ CompressionForbidden(said) =>
              d.action = "PROTECT" /\ d.compression = "forbidden"
<1>1. CASE ~Retained(said)
  <2>1. PICK e \in Leading(said, c) : d = [e EXCEPT !.retention = "normal"]
    BY <1>1 DEF Verdicts
  <2>2. e \in Decision
    BY <2>1, LeadingProperties
  <2>. QED BY <1>1, <2>1, <2>2 DEF Decision
<1>2. CASE Retained(said) /\ MayCompress(said)
  <2>1. PICK e \in Compressing(said) :
          d = [e EXCEPT !.retention = "protected", !.compression = "allowed"]
    BY <1>2 DEF Verdicts
  <2>2. e \in Decision /\ e.action = "COMPRESS"
    BY <2>1 DEF Compressing
  <2>. QED BY <1>2, <2>1, <2>2 DEF Decision, MayCompress
<1>3. CASE Retained(said) /\ ~MayCompress(said)
  <2>. DEFINE k == IF CompressionForbidden(said) THEN "forbidden" ELSE "allowed"
  <2>1. PICK e \in Protecting(said) :
          d = [e EXCEPT !.action = "PROTECT", !.retention = "protected",
                        !.compression = k]
    BY <1>3 DEF Verdicts
  <2>2. e \in Decision
    BY <2>1 DEF Protecting
  <2>3. d.action = "PROTECT" /\ d.retention = "protected" /\ d.compression = k
    <3>. HIDE DEF k
    <3>. QED BY <2>1, <2>2 DEF Decision
  <2>. QED BY <1>3, <2>3
<1>. QED BY <1>1, <1>2, <1>3

\* A verdict about what nothing retains is, but for the retention, the default
\* or something said, and it is not a PROTECT.
LEMMA OpenVerdict ==
  ASSUME NEW said \in SUBSET Decision, NEW c \in BOOLEAN,
         NEW d \in Verdicts(said, c), ~Retained(said)
  PROVE  /\ \E e \in said \cup {DefaultKeep} : /\ d.action = e.action
                                               /\ d.rule = e.rule
         /\ d.action # "PROTECT"
<1>1. PICK e \in Leading(said, c) : d = [e EXCEPT !.retention = "normal"]
  BY DEF Verdicts
<1>2. e \in Decision /\ e \in said \cup {DefaultKeep}
  BY <1>1, LeadingProperties
<1>3. d.action = e.action /\ d.rule = e.rule
  BY <1>1, <1>2 DEF Decision
<1>4. e.action # "PROTECT"
  BY <1>2 DEF Retained, Retains, DefaultKeep
<1>. QED BY <1>2, <1>3, <1>4

\* The semantic layer's decision retains nothing and forbids nothing.
LEMMA SemanticDecisionProperties ==
  ASSUME NEW a \in SemanticAnswers
  PROVE  /\ SemanticDecision(a) \in Decision
         /\ ~Retains(SemanticDecision(a))
         /\ SemanticDecision(a).authority = "semantic"
         /\ SemanticDecision(a).compression = "allowed"
  BY DEF SemanticAnswers, SemanticDecision, MakeDecision, Retains, Decision,
         Actions, Authorities, Retentions, Compressions, Rules

\* The greatest of some positions of a sequence.
LEMMA MaxPosition ==
  ASSUME NEW n \in Nat, NEW S \in SUBSET (0 .. n), S # {}
  PROVE  Max(S) \in S /\ \A k \in S : Max(S) >= k
  BY LastIndex DEF Max

\* The least of some positions.
LEMMA MinPosition ==
  ASSUME NEW S \in SUBSET Nat, S # {}
  PROVE  Min(S) \in S /\ \A k \in S : Min(S) <= k
  BY FirstIndex DEF Min
=============================================================================
