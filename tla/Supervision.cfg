\* Two calls of execute, one after the other, each of which may crash and leave
\* its engine behind; the input changes once; the first may lose its child to an
\* exception of communicate.
CONSTANTS
  Executions = 2
  FourDigits = 9
  Overlap = FALSE
  Crashes = TRUE
  Children = {"engine", "tool"}
  Changes = 1
  Raising = {1}
SPECIFICATION LiveSpec
INVARIANTS TypeOK CompletedHasOwnReceipt CompletedIsSealed CompletedBindsInput
           ReceiptMeansAllRows
PROPERTIES RecordsPermanent AlwaysReturns
CHECK_DEADLOCK FALSE
