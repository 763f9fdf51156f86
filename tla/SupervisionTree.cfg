\* A tool whose leader starts a helper process; the deadline strikes.
CONSTANTS
  Executions = 1
  FourDigits = 9
  Overlap = FALSE
  Crashes = FALSE
  Children = {"tool"}
  Changes = 0
  Raising = {}
SPECIFICATION Spec
INVARIANT TreeTerminated
CHECK_DEADLOCK FALSE
