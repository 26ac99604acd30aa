CONSTANTS
  NumTasks = 2
  Books <- OneBook
  BookOf <- BothInAlpha
  Types <- BothTypes
  MaxAttempts = 1
  MaxEpoch = 2
  MaxConcurrency = 2
SPECIFICATION Spec
INVARIANTS
  DependenciesSucceeded
  OneExecutionCanCommit

  
