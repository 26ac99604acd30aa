CONSTANTS
  NumItems = 2
  NumWriters = 2
  NumBatches = 1
  NumRuns = 2
  MaxCrashes = 1
  Scenarios <- Troubles
SPECIFICATION FairSpec
INVARIANTS
  TypeOK
  OneRequestPerTask
PROPERTIES
  OutcomesStand
  BatchesEnd
CHECK_DEADLOCK FALSE
