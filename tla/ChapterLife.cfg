CONSTANT Scenarios <- Lives
SPECIFICATION FairSpec
INVARIANTS
  TypeOK
  AskedIsShown
  RewritesHaveACause
PROPERTIES
  ExecutionsEnd
CHECK_DEADLOCK FALSE
