SPECIFICATION FairSpec
CONSTANTS
  Procs <- ThreeRanks
  Pars <- FourPars
  NDumps = 3  MaxIpar = 4  MinDump = 2  Chunk = 2  MaxCores = 2  Nowhere = 0
  Runs <- Cases
INVARIANTS AllRecordsIn TotalsIn TrajectoryWhole FailsWithoutRows
PROPERTIES Ends
CHECK_DEADLOCK FALSE
