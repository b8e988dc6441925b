SPECIFICATION Spec
CONSTANTS
  c1 = c1
  c2 = c2
  Call = {c1}
  Paths <- OnlyBank
  NonDeductible = {}
  MaxForeign = 1
  MaxFaults = 1
INVARIANT
  BankDriftIsHeld
CHECK_DEADLOCK FALSE
