SPECIFICATION Spec
CONSTANTS
  NP = 2
  NtOf <- OneInput
  It1 = 2
  It1Start = 0
  DueTimes = {}
  Isave = 2
  TMax = 9
  DtValues = {1, 2}
  DtMin = 2
  MaxWall = FALSE
  IresetTstart = 0
  FatalErrors = TRUE
  Signals = FALSE
  Touchable = {"SAVE"}
  MaxTouch = 2
  MaxRuns = 3
INVARIANTS
  SameData
  FinalSnapshotClean
PROPERTIES
  AutosaveSpacing
