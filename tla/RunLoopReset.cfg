SPECIFICATION Spec
CONSTANTS
  NP = 2
  NtOf <- OneInput
  It1 = 2
  It1Start = 0
  DueTimes = {}
  Isave = 2
  TMax = 9
  DtValues = {1, 2}
  DtMin = 0
  MaxWall = FALSE
  IresetTstart = 2
  FatalErrors = FALSE
  Signals = TRUE
  Touchable = {"SAVE"}
  MaxTouch = 1
  MaxRuns = 3
INVARIANTS
  StampsNear
CHECK_DEADLOCK FALSE
