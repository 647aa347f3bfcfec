SPECIFICATION FairSpec
CONSTANTS
  NP = 3  Width = 2  MaxMove = 1  NMig = 1  MPar = 2  MaxCalls = 2  EagerCounts = TRUE  Eager = FALSE
  p1 = p1  p2 = p2  p3 = p3
  Particles <- ThreeParticles
  Starts <- ThreeStarts
INVARIANTS OnePlace WithinLimits AtHome
PROPERTY Termination
CHECK_DEADLOCK FALSE
