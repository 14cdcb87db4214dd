SPECIFICATION Spec
CONSTANTS
  inv1 = inv1
  ref1 = ref1
  o1 = o1
  o2 = o2
  c1 = c1
  b1 = b1
  b2 = b2
  a1 = a1
  w1 = w1
  w2 = w2
  Invoices = {inv1}
  References = {ref1}
  Cards = {c1}
  Orders = {o1}
  Transfers = {}
  Approvals = {a1}
  Webhooks = {}
  InvoiceOf <- MCInvoiceOf
  OrderOf <- MCOrderOf
  EventOf <- MCEventOf
  ReferenceOf <- MCReferenceOf
  AmountOf <- MCAmountOf
  FinalTransfers = {}
  Total = 2
  OneAtATime = TRUE
  MaxFailures = 0
CHECK_DEADLOCK FALSE
PROPERTIES
  NothingTakenWhenFinal
