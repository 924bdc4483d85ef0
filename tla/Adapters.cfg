\* Files of the three vendors, in one directory.
SPECIFICATION AdapterSpec
CONSTANTS
  None = None
  RecentItemCount = 1
  MaxMessages = 16
  MaxLines = 4
  Messages <- NoMessages
  Lines <- VendorLines
  Options <- InRepo
INVARIANTS
  TranscriptTellsTheFile
  AnswersReachTheirCalls
  CompletenessTellsTheFile
  SpellingsAgree
CHECK_DEADLOCK FALSE
