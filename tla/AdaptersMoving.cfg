\* A Claude session that goes on in a directory of the repository.
SPECIFICATION AdapterSpec
CONSTANTS
  None = None
  RecentItemCount = 1
  MaxMessages = 12
  MaxLines = 6
  Messages <- NoMessages
  Lines <- MovingLines
  Options <- InRepo
INVARIANT SupersededReadsWereRepeated
CHECK_DEADLOCK FALSE
