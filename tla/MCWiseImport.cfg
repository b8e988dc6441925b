SPECIFICATION FairSpec
CONSTANTS
  c1 = c1
  c2 = c2
  p1 = p1
  Call = {c1, c2}
  Process = {p1}
  ProcOf <- OneProcess
  StatementRows = 2
  WithFee = {2}
  Transfer = {2}
  Own = {2}
  MaxDown = 1
  MaxForeign = 1
  MaxFaults = 1
INVARIANTS
  LegOncePerProcess
  ReportIsTrue
PROPERTY
  EveryExecuteEnds
CHECK_DEADLOCK FALSE
