SPECIFICATION FairSpec
CONSTANTS
  i1 = i1
  i2 = i2
  p1 = p1
  p2 = p2
  p3 = p3
  m1 = m1
  m2 = m2
  Invoices = {i1, i2}
  Confirmations = {p1, p2, p3}
  Acceptances = {m1, m2}
  InvoiceOf <- MCInvoiceOfIsolated
  Sanctioned = {p2}
  AcceptedAtStart = {i2}
  ReferenceFloor = 1
  OneAtATime = TRUE
  MaxFailures = 1
  MaxYear = 2
CHECK_DEADLOCK FALSE
INVARIANTS
  ReferencesDistinct
  PublishedOnce
PROPERTIES
  ConfirmedIsPublished
  AcceptedIsAnnounced
