CONSTANTS
  draft = draft
  review = review
  NumTasks = 1
  Books <- OneBook
  BookOf <- InAlpha
  Types <- Registered
  MaxAttempts = 2
  MaxEpoch = 3
  MaxConcurrency = 1
  Requests <- TwoCalls
  TaskOf <- OfTheTask
  KeyOf <- OwnKeys
  Local <- Nothing
  Frozen <- FreezeOne
  Usage <- JustOne
  Limits <- BothFit
SYMMETRY CallsAreAlike
SPECIFICATION Spec
PROPERTIES
  RevertsLoseNoResult
  NoSilentResend
