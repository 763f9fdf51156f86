CONSTANTS
  u1 = u1
  u2 = u2
  u3 = u3
  Keys <- MCKeys
  MaxKeys = 2
  Word = 8
  Policies <- MCWidestThresholds
  PressureUnit = 1
  MaxTime = 3
  MaxEvents = 4
  MaxQueries = 1
SPECIFICATION Spec
PROPERTY ImplementsReference
CHECK_DEADLOCK FALSE
