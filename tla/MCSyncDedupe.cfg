SPECIFICATION Spec
CONSTANTS
  None = None
  b1 = b1
  b2 = b2
  Book = {b1}
  Chapter = {}
  MaxJobs = 2
  MaxTracked = 2
  Spacing = 10
  Caller = {}
  Worker = {1, 2}
  Token = {1}
  Rows <- MCDedupeRows
INVARIANTS
  OneJobPerBook
CHECK_DEADLOCK FALSE
