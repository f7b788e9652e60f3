SPECIFICATION FairScheduleSpec
CONSTANTS
  None = None
  Book = {b1, b2}
  Id <- MCIds
  MaxTime = 3
  Day = 2
  Lateness = 0
  LocalTime = {1}
  Limit = 1
  MaxRequests = 2
  MaxFaults = 1
INVARIANTS
  AtMostOnce
  ResultsAreTrue
PROPERTIES
  StartsSettle
