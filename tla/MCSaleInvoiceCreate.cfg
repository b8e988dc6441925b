SPECIFICATION FairSaleSpec
CONSTANTS
  c1 = c1
  c2 = c2
  c3 = c3
  anna = anna
  bert = bert
  Sale = {c1, c2, c3}
  EventOf <- OneEvent
  Customer = {anna, bert}
  CustomerOf <- TwoCustomers
  Inline = {c2, c3}
  KnownClients <- AnnaKnown
  Capacity = 2
  MaxOutside = 1
  MaxErrors = 2
INVARIANTS
  GuardRemembers
  NoSecondInvoice
  ReportIsTrue
PROPERTY
  EveryCreateEnds
CHECK_DEADLOCK FALSE
