CONSTANTS
  NumEditors = 2
  MaxAttempts = 2
  ClosesVolume = TRUE
  Scenarios <- WritingBack
  NumWriters = 1
  MaxTexts = 2
  MaxCalls = 4
SPECIFICATION FairSpec
INVARIANTS
  TypeOK
  CompletedMeansSettled
PROPERTIES
  CompletedStays
  ChaptersInOrder
  EventsAreWorkedOff
CHECK_DEADLOCK FALSE
