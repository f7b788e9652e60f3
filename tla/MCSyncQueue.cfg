SPECIFICATION Spec
CONSTANTS
  None = None
  b1 = b1
  b2 = b2
  Book = {b1, b2}
  Chapter = {1}
  MaxJobs = 2
  MaxTracked = 1
  Spacing = 10
  Caller = {c1}
  Worker = {1, 2}
  Token = {1, 2}
  Rows <- MCRows
INVARIANTS
  OneJobPerBook
  AcceptedAreDurable
  QueuedJobsAreAttended
  RunningJobsAreProtected
  UpdatesAreExclusive
PROPERTIES
  KeepsLedger
  SectionsOnlyAdvance
CHECK_DEADLOCK FALSE
