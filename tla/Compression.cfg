\* Sessions of two items of any kind, of one item each, or of three of SomeItems.
SPECIFICATION Spec
CONSTANTS
  None = None
  RecentItemCount = 1
  Items <- AllItems
  Budgets <- AllBudgets
  HeadLines = 2
  TailLines = 1
  SlackLines = 0
  MaxHunkLines = 3
  MaxHunks = 3
  MaxNames = 2
  LastLines = 2
  ProvidedCosts = {1, 9}
  MaxReasons = 2
  Chosen = {"tests", "builds", "texts"}
  MaxItems = 3
\* The sessions end at the bound.
CHECK_DEADLOCK FALSE
CONSTRAINT InScope
INVARIANTS
  SummariesFitTheTarget
  SummariesTellTheOutput
  SemanticOnlyShrinks
  SavingsAddUp
  DropsAreAttributed
  AggregatesAddUp
