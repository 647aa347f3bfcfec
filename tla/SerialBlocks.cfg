SPECIFICATION FairSpec
CONSTANTS
  NP = 4
  Program <- Globals
PROPERTIES
  SerialOrder
  AllServed
CHECK_DEADLOCK FALSE
