SPECIFICATION Spec
CONSTANTS
  Procs = {0, 1}
  Dirs = {"x"}
  NProc <- NX
  NLoc <- OneCell
  NGhost <- OneCell
  IP <- IPX
  Root = 0
  DtValues = {1, 2}
  DSnap = 2
  Isave = 2
  Nt = 2
  MaxRuns = 2
  IresetTstart = 2
  Asked = {1}
INVARIANTS
  NumberTellsTime
  VarWhole
  LostToKills
  CellsFromOwner
  ReadOneState
  ResumeOneState
PROPERTIES
  RunsEnd
CHECK_DEADLOCK FALSE
