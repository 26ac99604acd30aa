CONSTANT Scenarios <- Alignment
SPECIFICATION Spec
INVARIANTS
  AlignedCanBeReviewed
CHECK_DEADLOCK FALSE
