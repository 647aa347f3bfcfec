SPECIFICATION Spec
CONSTANTS
  NP = 3
  Program <- OutputSnap
INVARIANTS
  EndsBalanced
CHECK_DEADLOCK FALSE
