\* Sessions of one vocabulary each, of up to four messages.
SPECIFICATION VocabularySpec
CONSTANTS
  None = None
  Messages <- AllMessages
  MaxMessages = 4
  RecentItemCount = 1
  Chosen = {"files", "outcomes", "talk", "pairing", "listings"}
\* The transcript ends at the bound.
CHECK_DEADLOCK FALSE
INVARIANTS
  TypeOK
  NothingLost
  PairsAnswerTheirCall
  EveryDropIsCovered
  FileStateAgrees
  DropsAreRelated
  UnresolvedFailureSurvives
  InstructionsStayVerbatim
  SemanticSeesOpenItems
PROPERTIES
  DropsAreFinal
