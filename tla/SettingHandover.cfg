CONSTANTS
  NumItems = 2
  NumWriters = 2
  NumBatches = 1
  NumRuns = 2
  MaxCrashes = 1
  Scenarios <- Interrupted
SPECIFICATION Spec
INVARIANTS
  OneRequestPerItem
CHECK_DEADLOCK FALSE
