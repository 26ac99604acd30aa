CONSTANTS
  a = a
  b = b
  c = c
  draft = draft
  review = review
  Requests <- Two
  TaskOf <- OneTask
  KeyOf <- SameKey
  Local <- NoRequest
  Frozen <- FreezeTwo
  Usage <- CheapOrOver
  Limits <- LimitsAround
SPECIFICATION Spec
PROPERTIES
  EndedCallsDoNotBlock
