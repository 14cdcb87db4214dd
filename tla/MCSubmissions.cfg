SPECIFICATION FairSpec
CONSTANTS
  s1 = s1
  s2 = s2
  r1 = r1
  w1 = w1
  acc1 = acc1
  ta1 = ta1
  ta2 = ta2
  pub1 = pub1
  a1 = a1
  a2 = a2
  Submitted = {s1, s2}
  Returned = {r1}
  Withdrawn = {w1}
  Accepted = {acc1}
  Eligibility = {ta1, ta2}
  Published = {pub1}
  Invoiceable <- MCInvoiceable
  Eligible = {ta1}
  Approved = {ta1}
  Authors = {a1, a2}
  AuthorOf <- MCAuthorOf
  ConfirmedAs = {"ACTIVE", "PENDING", "FINAL"}
  OneAtATime = TRUE
  MaxHandled = 3
  MaxFailures = 1
CHECK_DEADLOCK FALSE
INVARIANTS
  TypeOK
  DeletedTogether
  CreditedIsFinal
  EligibilityOfAuthor
  CreditedOncePerDelivery
  RefundIsCredited
PROPERTIES
  ConfirmedIsKept
  WithdrawnIsClosed
  PublicationConfirms
  ApprovalIsApplied
