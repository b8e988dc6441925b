SPECIFICATION Spec
CONSTANTS
  d1 = d1
  d2 = d2
  e1 = e1
  e2 = e2
  s1 = s1
  s2 = s2
  None = None
  Call = {d1, d2, e1, e2, s1, s2}
  DryRun = {d1, d2}
  Execute = {e1, e2}
  Switch = {s1, s2}
  ReadOnly = {d2}
  Index = {0, 1}
  TargetOf <- Targets
  WantOf <- Wanted
  DomainOf <- Domains
  StartIndex = 0
  Verified = {1}
  MaxActive = 1
  MaxTombs = 1
  MaxFaults = 1
INVARIANTS
  MutationKeepsItsConnection
  PlanRunsOnceWhereReviewed
  ResultKeepsItsProof
  CacheShowsSettledWrites
PROPERTIES
  NoRequestAfterSwitch
CHECK_DEADLOCK FALSE
