CONSTANTS
  NumTasks = 1
  Books <- OneBook
  BookOf <- BothInAlpha
  Types <- BothTypes
  MaxAttempts = 3
  MaxEpoch = 3
  MaxConcurrency = 1
SPECIFICATION FairSpec
INVARIANTS
  TypeOK
  WorkingRowsCarryTheirLease
  WorkingInCurrentEpoch
PROPERTIES
  OutcomesAreFinal
  ResultsNeedALiveLease
  LostAttemptsAreRecovered
