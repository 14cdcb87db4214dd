SPECIFICATION FairSpec
CONSTANTS
  i1 = i1
  i2 = i2
  i3 = i3
  n1 = n1
  n2 = n2
  Invoices = {i1, i2, i3}
  Free = {i3}
  Sanctioned = {i1}
  Broken = {i2}
  Issued = {i2, i3}
  Notes = {n1, n2}
  InvoiceOf <- MCInvoiceOf
  Publishing = {i1}
  Limit = 3
  MaxFailures = 1
CHECK_DEADLOCK FALSE
INVARIANTS
  TypeOK
  OncePerFailure
  BooksAgree
PROPERTIES
  IssuedIsRegistered
  RecognizedIsReversed
