SPECIFICATION FairSpec
CONSTANTS
  r1 = r1
  r2 = r2
  b1 = b1
  None = None
  Runs = {r1, r2}
  Collections = {1, 2}
  Ids = {1, 5, 6, 7}
  BatchIds = {b1}
  Batches <- MCBatches
  MaxRuns = 3
  MaxMisled = 2
INVARIANT ReferencesFirst NothingTwice ReportsAreTrue
PROPERTY RunsEnd
CHECK_DEADLOCK FALSE
