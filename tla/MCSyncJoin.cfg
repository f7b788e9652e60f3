SPECIFICATION Spec
CONSTANTS
  None = None
  b1 = b1
  b2 = b2
  Book = {b1}
  Chapter = {1}
  MaxJobs = 2
  MaxTracked = 1
  Spacing = 10
  Caller = {c1, c2}
  Worker = {1, 2}
  Token = {}
  Rows <- MCJoinRows
INVARIANTS
  AcceptedAreCovered
CHECK_DEADLOCK FALSE
