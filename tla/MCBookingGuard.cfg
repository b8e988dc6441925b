SPECIFICATION FairSpec
CONSTANTS
  c1 = c1
  c2 = c2
  c3 = c3
  p1 = p1
  p2 = p2
  k1 = k1
  NoId = NoId
  Call = {c1, c2, c3}
  Process = {p1, p2}
  ProcOf <- MixedProcOf
  Connection = {k1}
  ConnectionOf <- OneConnection
  Confirming = {c1, c3}
  MaxDown = 1
  MaxForeign = 1
  MaxFaults = 2
INVARIANTS
  OneLiveJournal
  NothingBookedOver
  OutcomeIsTrue
PROPERTIES
  UsesLock
  EveryBookingEnds
CHECK_DEADLOCK FALSE
