CONSTANT Scenarios <- Decisions
SPECIFICATION Spec
INVARIANTS
  RequestsAreServed
  GatesAreReviewed
  OneAcceptable
  AwaitingHasGate
  CanonIsSettled
CHECK_DEADLOCK FALSE
