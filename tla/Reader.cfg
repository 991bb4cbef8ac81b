SPECIFICATION FairSpec
CONSTANTS
  Deadline = 2
  MaxReads = 3
INVARIANTS
  NothingLost
PROPERTIES
  FullTime
  KeepsPromise
  ReadsSettle
CHECK_DEADLOCK FALSE
