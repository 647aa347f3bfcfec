SPECIFICATION Spec
CONSTANTS
  RingDensity = 3  MaxNew = 2
  Calls <- OneOrTwoNulls
INVARIANTS SeparatricesInv LinesComplete NoEdgeOverGap
CHECK_DEADLOCK FALSE
