SPECIFICATION Spec
CONSTANTS
  EventKeys = {1, 2}
  CohortKeys = {1}
  ColdKey = 9
  SourceTimes = {0, 1, 2, 3, 4}
  ValStart = 1
  ValEnd = 2
  TestStart = 4
  PhaseSpecs <- MCPhases
  PressureUnit = 20
  StressPressure = 17
  NormalPressure = 7
  GridU <- MCGridU
  GridB <- MCGridB
  Candidates <- MCCandidates
  Adaptive <- MCAdaptive
INVARIANT QuotaIsSpread
INVARIANT OutputComparable
INVARIANT ActuatorSign
CHECK_DEADLOCK FALSE
