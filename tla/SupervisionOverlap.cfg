\* Two calls of execute for one run directory at the same time, no crash.
CONSTANTS
  Executions = 2
  FourDigits = 9
  Overlap = TRUE
  Crashes = FALSE
  Children = {"engine"}
  Changes = 0
  Raising = {}
SPECIFICATION Spec
PROPERTY RecordsPermanent
CHECK_DEADLOCK FALSE
