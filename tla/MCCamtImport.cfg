SPECIFICATION FairSpec
CONSTANTS
  c1 = c1
  c2 = c2
  p1 = p1
  p2 = p2
  k1 = k1
  NoKey = NoKey
  User = User
  None = None
  Call = {c1, c2}
  Process = {p1, p2}
  ProcOf <- SpreadProcOf
  Entries = 2
  KeyOf <- TwinLegs
  MaxDown = 1
  MaxForeign = 1
  MaxFaults = 2
INVARIANTS
  ImportedOnce
  ReportIsTrue
PROPERTIES
  ImplementsPlanRun
  EveryExecuteEnds
CHECK_DEADLOCK FALSE
