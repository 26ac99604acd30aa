CONSTANTS
  NumEditors = 1
  MaxAttempts = 1
  ClosesVolume = TRUE
  Scenarios <- Writing
  NumWriters = 2
  MaxTexts = 2
  MaxCalls = 4
SPECIFICATION Spec
INVARIANTS
  NothingIsOrderedTwice
  FinalsWereReviewed
  WriteBackIsQueued
CHECK_DEADLOCK FALSE
