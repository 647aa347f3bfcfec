SPECIFICATION FairSpec
CONSTANTS
  NP = 3
  Asks <- Ring
  Eager = TRUE
  Prepared <- ThreeCores
  Phases = 2
INVARIANTS
  NoLostRequest
  ReplyExpected
PROPERTIES
  AllTraced
CHECK_DEADLOCK FALSE
