SPECIFICATION VocabularySpec
CONSTANTS
  None = None
  Messages <- AllMessages
  MaxMessages = 3
  RecentItemCount = 1
  Chosen = {"unanswered"}
\* The transcript ends at the bound.
CHECK_DEADLOCK FALSE
INVARIANTS
  DuplicatesHaveOutput
