SPECIFICATION FairSyncSpec
CONSTANTS
  None = None
  Device = {d1, d2}
  BookEnd = 2
  RegressionSlack = 0
  NearZero = 1
  BackupDrop = 1
  StaleSlack = 0
  AbsRewindMax = 1
  FinishedTail = 0
  AdoptSlack = 0
  Clock = {0}
  Checkpoints = {}
  MaxBackups = 1
  MaxRevision = 9
  SeekTargets = {0, 2}
  Bounds <- MCBounds
  MaxCalls = 1
INVARIANT
  AloneNeverOverruled
PROPERTIES
  NoBlindOverwrite
  EditsAreStoredInOrder
  PendingUntilDecided
  DevicesSettle
CHECK_DEADLOCK FALSE
