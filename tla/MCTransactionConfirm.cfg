SPECIFICATION FairSpec
CONSTANTS
  c1 = c1
  c2 = c2
  p1 = p1
  i1 = i1
  i2 = i2
  Call = {c1, c2}
  Process = {p1}
  ProcOf <- PairProcOf
  ann = ann
  bob = bob
  Client = {ann, bob}
  NoClient = NoClient
  Untouched = Untouched
  Invoice = {i1, i2}
  LinkedOf <- PairLinks
  AutoFix = {c1, c2}
  Reassign = {c1}
  Reviewed = {c2}
  MaxForeign = 1
  MaxFaults = 1
INVARIANTS
  ReceiptUnderInvoiceClient
  NoSecondRegistration
  ReviewedBooksWhatWasApproved
  FailureIsTrue
PROPERTIES
  RollbackSparesForeignWrite
  EveryConfirmSettles
CHECK_DEADLOCK FALSE
