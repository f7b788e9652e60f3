SPECIFICATION FairSpec
CONSTANTS
  None = None
  b1 = b1
  b2 = b2
  Book = {b1, b2}
  Chapter = {}
  MaxJobs = 2
  MaxTracked = 1
  Spacing = 10
  Caller = {}
  Worker = {1, 2, 3}
  Token = {1}
  Rows <- MCLiveRows
PROPERTIES
  QueueMoves
CHECK_DEADLOCK FALSE
