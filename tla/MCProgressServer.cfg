SPECIFICATION Spec
CONSTANTS
  None = None
  BookEnd = 3
  RegressionSlack = 0
  NearZero = 1
  BackupDrop = 1
  StaleSlack = 0
  AbsRewindMax = 3
  FinishedTail = 0
  Clock = {1, 3}
  Sent = {1, 3}
  Device = {d1, d2}
  Checkpoints <- MCCheckpoints
  MaxBackups = 1
  MaxRevision = 4
INVARIANTS
  TypeOK
  DisplacedPlacesAreKept
  AcceptedMeansStored
PROPERTIES
  RevisionsOrderPlaces
  RecordingsOnlyAdvance
CHECK_DEADLOCK FALSE
