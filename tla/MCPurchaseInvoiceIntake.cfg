SPECIFICATION FairSpec
CONSTANTS
  c1 = c1
  c2 = c2
  Call = {c1, c2}
  Paths <- EveryPair
  NonDeductible = {c1}
  MaxForeign = 1
  MaxFaults = 2
INVARIANTS
  IntakeOnce
  RegisteredAsReviewed
  OutcomeIsTrue
PROPERTY
  EveryIntakeEnds
CHECK_DEADLOCK FALSE
