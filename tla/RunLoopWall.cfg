SPECIFICATION Spec
CONSTANTS
  NP = 3
  NtOf <- TwoInputs
  It1 = 2
  It1Start = 0
  DueTimes = {7}
  Isave = 2
  TMax = 7
  DtValues = {1, 2}
  DtMin = 2
  MaxWall = TRUE
  IresetTstart = 2
  FatalErrors = FALSE
  Signals = FALSE
  Touchable = {"STOP", "RELOAD", "RELOAD_ALWAYS", "RESUBMIT"}
  MaxTouch = 2
  MaxRuns = 1
INVARIANTS
  CollectivesMatch
  LeaveTogether
  ParsAgree
  FinalSnapshotConsistent
  StopWithinIt1
