CONSTANTS
  u1 = u1
  u2 = u2
  u3 = u3
  Keys <- MCKeys
  MaxKeys = 2
  Word = 16
  Policies <- MCPolicies
  PressureUnit = 2
  MaxTime = 2
  MaxEvents = 5
  MaxQueries = 1
SPECIFICATION Spec
INVARIANTS TypeOK StalenessExact PolicyHonoured Conserved SameAnswers
PROPERTIES VersionsAdvance ImplementsReference
CHECK_DEADLOCK FALSE
