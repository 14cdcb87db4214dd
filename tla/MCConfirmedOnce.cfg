SPECIFICATION Spec
CONSTANTS
  i1 = i1
  i2 = i2
  p1 = p1
  p2 = p2
  p3 = p3
  m1 = m1
  m2 = m2
  Invoices = {i1}
  Confirmations = {p1, p2}
  Acceptances = {}
  InvoiceOf <- MCInvoiceOfSecond
  Sanctioned = {}
  AcceptedAtStart = {i1}
  ReferenceFloor = 0
  OneAtATime = FALSE
  MaxFailures = 0
  MaxYear = 1
CHECK_DEADLOCK FALSE
INVARIANTS
  ConfirmedOnce
