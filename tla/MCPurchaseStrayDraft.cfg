SPECIFICATION Spec
CONSTANTS
  c1 = c1
  c2 = c2
  Call = {c1}
  Paths <- OnlyReceipt
  NonDeductible = {}
  MaxForeign = 0
  MaxFaults = 1
INVARIANT
  FailureLeavesNoDraft
CHECK_DEADLOCK FALSE
