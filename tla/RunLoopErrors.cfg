SPECIFICATION FairSpec
CONSTANTS
  NP = 2
  NtOf <- OneInput
  It1 = 2
  It1Start = 1
  DueTimes = {3}
  Isave = 2
  TMax = 2
  DtValues = {1, 2}
  DtMin = 0
  MaxWall = FALSE
  IresetTstart = 2
  FatalErrors = TRUE
  Signals = FALSE
  Touchable = {"STOP", "SAVE"}
  MaxTouch = 2
  MaxRuns = 1
INVARIANTS
  ErrorsToldBeforeStop
PROPERTIES
  Termination
  ErrorKillsAll
