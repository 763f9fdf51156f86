\* Three calls of execute, one after the other, when only attempt numbers up to
\* 1 have four digits: the third call meets a directory it cannot see.
CONSTANTS
  Executions = 3
  FourDigits = 1
  Overlap = FALSE
  Crashes = FALSE
  Children = {"engine"}
  Changes = 0
  Raising = {}
SPECIFICATION Spec
PROPERTY RecordsPermanent
CHECK_DEADLOCK FALSE
