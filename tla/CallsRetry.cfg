CONSTANTS
  a = a
  b = b
  c = c
  draft = draft
  review = review
  Requests <- Three
  TaskOf <- OneTaskOfThree
  KeyOf <- ThirdOwnKey
  Local <- OnlyB
  Frozen <- FreezeThree
  Usage <- CheapOrOver
  Limits <- TightAndLoose
SPECIFICATION FairSpec
INVARIANTS
  TypeOK
  ResultsAreChargedOnce
  SucceededCallsAreCharged
  NoConcurrentDuplicates
  CountersCoverRows
PROPERTIES
  OutcomesAreFinal
  ImplementsCreditLedger
  AbandonedReservationsAreFreed
