SPECIFICATION Spec
CONSTANTS
  c1 = c1
  c2 = c2
  c3 = c3
  c4 = c4
  p1 = p1
  p2 = p2
  p3 = p3
  p4 = p4
  None = None
  Call = {c1, c2, c3, c4}
  Process = {p1, p2, p3}
  ProcOf <- QueueProcOf
  PidOf <- ReusedPid
  MayExpire = TRUE
  MaxDown = 2
  MaxFaults = 1
INVARIANTS
  InProcessFifo

PROPERTIES
  LiveOwnerKeepsFile
CHECK_DEADLOCK FALSE
