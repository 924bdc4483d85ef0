SPECIFICATION Spec
CONSTANTS
  RuleEvaluations <- EmittedByRules
  SemanticEvaluations <- EmittedBySemantics
  MaxEvaluations = 4
  NoDecision = NoDecision
\* The merge of one item ends.
CHECK_DEADLOCK FALSE
INVARIANTS
  LoopInv
  RetainedNeverDropped
  ForbiddenKeptVerbatim
  SemanticOnlyEscalates
PROPERTIES
  MeetsContract
