SPECIFICATION FairFixedSpec
CONSTANTS
  NProc = 3  MayDie = TRUE  NSeeds = 4
  Inputs <- Calls
  CellOf <- CellsOf
  Outside <- MCOutside
INVARIANTS EveryPointOnce KeptApart
PROPERTIES IsSerial FixedEndsUnlessDied
CHECK_DEADLOCK FALSE
