SPECIFICATION Spec
CONSTANTS
  c1 = c1
  c2 = c2
  Call = {c1, c2}
  MaxForeign = 2
  MaxFaults = 1
INVARIANTS
  ReportIsTrue
PROPERTIES
  MovementIsKept
  NotBookedTwice
CHECK_DEADLOCK FALSE
