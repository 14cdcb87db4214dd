------------------------- MODULE SubmissionsProofs -------------------------
(* Proofs about the messages of one submission, for any set of messages and   *)
(* any number of failures. What holds of overlapping handlers too is proved   *)
(* first; the rest needs that one message is handled at a time.               *)
EXTENDS Submissions, TLAPS

Notices == Withdrawn \cup Eligibility

-----------------------------------------------------------------------------
(* The invariant that every interleaving of the handlers keeps.               *)

\* Only these messages get to these steps.
Fits(m, step) ==
  /\ step \in {"new", "creating", "created", "restoring", "same author?",
               "reset eligibility", "find author", "write author"} => m \in Submitted
  /\ step \in {"edit", "write manuscript"} => m \in Submitted \cup Accepted
  /\ step \in {"notice", "payments", "credit", "finalize", "save credit note",
               "refund"} => m \in Notices
  /\ step \in {"write eligible", "write approved", "decide", "decided",
               "activate"} => m \in Eligibility
  /\ step = "announce" => m \in Eligibility \cup Accepted
  /\ step \in {"accepted", "date", "load accepted", "accept active",
               "accept date"} => m \in Accepted
  /\ step \in {"publish", "published", "publish transaction",
               "publish date"} => m \in Published
  /\ step = "auto confirm" => m \in Accepted \cup Published

KindInv == \A m \in Messages : Fits(m, pc[m])

\* How far a handler is with its rows.
RowInv ==
  \A m \in Messages :
    /\ pc[m] \notin {"creating", "deleting", "restoring"} => row[m] = 0
    /\ pc[m] = "creating" => row[m] <= 2

\* An item comes after its invoice, and a handler deletes and restores only
\* what has been saved.
StoredInv ==
  /\ "invoice_items" \in stored => "invoices" \in stored
  /\ \A m \in Messages :
       /\ pc[m] = "creating" /\ row[m] > 0 => "invoices" \in stored
       /\ pc[m] \in {"find invoice", "find transaction", "deleting", "restoring"} =>
            {"articles", "invoice_items"} \subseteq stored
       /\ pc[m] \in {"deleting", "restoring"} => stored = Tables

\* A credit note was inserted by this delivery, or paid for by a failure.
CreditInv ==
  \A m \in Notices : \/ creditNotes[m] <= failures
                     \/ /\ pc[m] \in {"refund", "done"}
                        /\ creditNotes[m] <= 1 + failures

\* The payment that a handler has seen is there, and so is the credit note of
\* a refund that is about to be asked for.
RefundInv ==
  /\ \A m \in Messages : /\ held[m].paid => paid
                         /\ pc[m] = "refund" =>
                              held[m].paid /\ (creditNotes[m] > 0 \/ m \in unnoticed)
  /\ RefundIsCredited

GeneralInv == TypeOK /\ KindInv /\ RowInv /\ StoredInv /\ CreditInv /\ RefundInv

-----------------------------------------------------------------------------
(* What else holds when the handlers do not overlap.                          *)

\* The steps at which a handler is going to write an invoice it has loaded.
Loaded == {"find transaction", "deleting", "restoring", "accept active",
           "accept date", "publish transaction", "publish date"}

Alone == \A m, n \in Messages : InFlight(m) /\ InFlight(n) => m = n

Credited == \E m \in Notices : creditNotes[m] > 0

\* The object held is as old as the row, unless the payer acted in between.
HeldInv ==
  \A m \in Messages :
    /\ pc[m] \in Loaded \cup {"payments"} /\ m \notin overlapped =>
         held[m].invoice.status = invoice.status
    /\ pc[m] \in Loaded /\ Credited => held[m].invoice.status = "FINAL"
    /\ pc[m] = "find transaction" /\ ~Restoring(m) => held[m].invoice.status = "DRAFT"
    /\ pc[m] = "deleting" => held[m].invoice.status = "DRAFT"

FinalInv ==
  /\ CreditedIsFinal
  /\ \A m \in Messages : pc[m] = "save credit note" => invoice.status = "FINAL"

\* A published article's transaction is active from its second step on.
PublishedInv ==
  \A m \in Published : pc[m] \in {"publish date", "auto confirm"} => transaction = "ACTIVE"

\* A withdrawal deletes an invoice that was a draft when it came.
WithdrawnInv ==
  \A m \in Withdrawn :
    /\ pc[m] \in {"find manuscript", "find invoice", "find transaction"}
         /\ m \notin overlapped => invoice.status = "DRAFT"
    /\ pc[m] = "deleting" => {RowOrder[k] : k \in 1..row[m]} \subseteq deleted

SequentialInv == GeneralInv /\ Alone /\ HeldInv /\ FinalInv /\ PublishedInv /\ WithdrawnInv

-----------------------------------------------------------------------------
(* Types. The parts of TypeOK: what the handlers hold, the tables, the rest.  *)

PcValues == {"idle", "again", "done"} \cup Steps

LocalsOK == /\ pc \in [Messages -> PcValues]
            /\ held \in [Messages -> Objects]
            /\ row \in [Messages -> 0..3]
            /\ overlapped \subseteq Messages

RowsOK == /\ stored \subseteq Tables /\ deleted \subseteq stored
          /\ manuscript \in Manuscript
          /\ invoice \in Invoice
          /\ transaction \in Transaction

RestOK == /\ creditNotes \in [Notices -> Nat]
          /\ paid \in BOOLEAN
          /\ refunds \subseteq Notices
          /\ failures \in 0..MaxFailures
          /\ unnoticed \subseteq Messages
          /\ eligibleAuthor \in Authors

LEMMA TypeParts == /\ TypeOK <=> LocalsOK /\ RowsOK /\ RestOK
                   /\ TypeOK' <=> LocalsOK' /\ RowsOK' /\ RestOK'
BY DEF TypeOK, LocalsOK, RowsOK, RestOK, Notices, PcValues

LEMMA KindsOfMessages == /\ Notices \subseteq Messages
                         /\ Submitted \subseteq Messages /\ Accepted \subseteq Messages
                         /\ Eligibility \subseteq Notices /\ Withdrawn \subseteq Notices
                         /\ Published \subseteq Messages
BY DEF Notices, Messages

LEMMA NobodyType == Nobody \in Authors
BY MessageAssumption DEF Nobody

LEMMA NothingType == Nothing \in Objects /\ Nothing.paid = FALSE
BY NobodyType DEF Nothing, Objects, NewManuscript, NewInvoice, Manuscript, Invoice, Transaction

LEMMA TypeInit == Init => TypeOK
  <1> SUFFICES ASSUME Init PROVE TypeOK
    OBVIOUS
  <1>1. manuscript \in Manuscript /\ invoice \in Invoice /\ transaction \in Transaction
    BY NobodyType
    DEF Init, NewManuscript, NewInvoice, Manuscript, Invoice, Transaction
  <1>2. /\ held \in [Messages -> Objects] /\ eligibleAuthor \in Authors
        /\ pc \in [Messages -> {"idle", "again", "done"} \cup Steps]
        /\ creditNotes \in [Withdrawn \cup Eligibility -> Nat]
        /\ row \in [Messages -> 0..3]
    BY NothingType, NobodyType DEF Init
  <1>3. failures \in 0..MaxFailures
    BY MessageAssumption DEF Init
  <1> QED
    BY <1>1, <1>2, <1>3 DEF Init, TypeOK

LEMMA KeepOK ==
  ASSUME LocalsOK, NEW m \in Messages, NEW step \in PcValues,
         Goto(m, step), UNCHANGED locals
  PROVE  LocalsOK'
BY DEF LocalsOK, Goto, locals

LEMMA LeaveOK ==
  ASSUME LocalsOK, NEW m \in Messages, NEW how \in PcValues, Leave(m, how)
  PROVE  LocalsOK'
BY NothingType DEF LocalsOK, Leave, Goto

LEMMA HoldExisting ==
  ASSUME LocalsOK, NEW m \in Messages, NEW x \in Manuscript, NEW step \in PcValues,
         Goto(m, step), Hold(m, "existing", x)
  PROVE  /\ LocalsOK' /\ row' = row /\ overlapped' = overlapped
         /\ held'[m].paid = held[m].paid
         /\ \A n \in Messages \ {m} : held'[n] = held[n]
BY DEF LocalsOK, Goto, Hold, Objects

LEMMA HoldManuscript ==
  ASSUME LocalsOK, NEW m \in Messages, NEW x \in Manuscript, NEW step \in PcValues,
         Goto(m, step), Hold(m, "manuscript", x)
  PROVE  /\ LocalsOK' /\ row' = row /\ overlapped' = overlapped
         /\ held'[m].paid = held[m].paid
         /\ \A n \in Messages \ {m} : held'[n] = held[n]
BY DEF LocalsOK, Goto, Hold, Objects

LEMMA HoldInvoice ==
  ASSUME LocalsOK, NEW m \in Messages, NEW x \in Invoice, NEW step \in PcValues,
         Goto(m, step), Hold(m, "invoice", x)
  PROVE  /\ LocalsOK' /\ row' = row /\ overlapped' = overlapped
         /\ held'[m].paid = held[m].paid /\ held'[m].invoice = x
         /\ \A n \in Messages \ {m} : held'[n] = held[n]
BY DEF LocalsOK, Goto, Hold, Objects

LEMMA HoldTransaction ==
  ASSUME LocalsOK, NEW m \in Messages, NEW x \in Transaction, NEW step \in PcValues,
         Goto(m, step), Hold(m, "transaction", x)
  PROVE  /\ LocalsOK' /\ row' = row /\ overlapped' = overlapped
         /\ held'[m].paid = held[m].paid /\ held'[m].invoice = held[m].invoice
         /\ \A n \in Messages \ {m} : held'[n] = held[n]
BY DEF LocalsOK, Goto, Hold, Objects

LEMMA HoldPaid ==
  ASSUME LocalsOK, NEW m \in Messages, NEW x \in BOOLEAN, NEW step \in PcValues,
         Goto(m, step), Hold(m, "paid", x)
  PROVE  /\ LocalsOK' /\ row' = row /\ overlapped' = overlapped
         /\ held'[m].paid = x /\ held'[m].invoice = held[m].invoice
         /\ \A n \in Messages \ {m} : held'[n] = held[n]
BY DEF LocalsOK, Goto, Hold, Objects

\* Every action moves one handler, or none, to a step and keeps what it holds.
LEMMA LocalsReceives ==
  ASSUME GeneralInv, NEW m \in Messages, Receives(m)
  PROVE  LocalsOK'
  <1> USE DEF Steps, PcValues
  <1>0. LocalsOK /\ manuscript \in Manuscript
    BY TypeParts DEF GeneralInv, RowsOK
  <1>1. CASE ReceiveSubmission(m)
    BY <1>0, <1>1, KeepOK, HoldExisting DEF ReceiveSubmission, Receive
  <1>2. CASE ReceiveReturned(m)
    BY <1>0, <1>2, KeepOK DEF ReceiveReturned, Receive
  <1>3. CASE ReceiveNotice(m)
    BY <1>0, <1>3, KeepOK DEF ReceiveNotice, Receive
  <1>4. CASE ReceiveAcceptance(m)
    BY <1>0, <1>4, KeepOK, HoldExisting DEF ReceiveAcceptance, Receive
  <1>5. CASE ReceivePublication(m)
    BY <1>0, <1>5, KeepOK, HoldManuscript DEF ReceivePublication, Receive
  <1> QED
    BY <1>1, <1>2, <1>3, <1>4, <1>5 DEF Receives

\* The handlers' steps, by what they do: read, write rows of four tables in
\* turn, or write one row.
Reading(m) ==
  \/ FindManuscript(m) \/ FindInvoice(m) \/ FindTransaction(m) \/ ReadToEdit(m)
  \/ FindAuthor(m) \/ FindNoticedInvoice(m) \/ FindPayments(m) \/ Credit(m)
  \/ ReadToDecide(m) \/ LoadAccepted(m) \/ PublishedInvoice(m)

Deciding(m) ==
  \/ Created(m) \/ Decide(m) \/ Announce(m) \/ AcceptedTransaction(m) \/ AcceptedForFree(m)

RowByRow(m) == SaveRow(m) \/ LoseItem(m) \/ DeleteRow(m) \/ RestoreRow(m)

WritingManuscript(m) ==
  \/ CreateManuscript(m) \/ EditManuscript(m) \/ CompareAuthor(m) \/ ResetEligibility(m)
  \/ WriteAuthor(m) \/ WriteEligible(m) \/ WriteApproved(m) \/ MarkAsPublished(m)

WritingInvoice(m) ==
  Finalize(m) \/ DateOnly(m) \/ DateAccepted(m) \/ AutoConfirm(m) \/ DatePublished(m)

Activating(m) == Activate(m) \/ ActivateAccepted(m) \/ ActivatePublished(m)

Crediting(m) == SaveCreditNote(m) \/ LoseCreditNote(m) \/ Refund(m)

Stopping(m) == Fail(m) \/ Swallow(m) \/ Redeliver(m)

Paying == ConfirmInvoice \/ PayInvoice

LEMMA NextParts ==
  ASSUME Next
  PROVE  \/ Paying
         \/ \E m \in Messages :
              \/ Receives(m) \/ Reading(m) \/ Deciding(m) \/ RowByRow(m)
              \/ WritingManuscript(m) \/ WritingInvoice(m) \/ Activating(m)
              \/ Crediting(m) \/ Stopping(m)
BY Zenon DEF Next, Handle, Reading, Deciding, RowByRow, WritingManuscript, WritingInvoice,
       Activating, Crediting, Stopping, Paying

LEMMA LocalsReading ==
  ASSUME GeneralInv, NEW m \in Messages, Reading(m)
  PROVE  LocalsOK'
  <1> USE DEF Steps, PcValues
  <1>0. /\ LocalsOK /\ manuscript \in Manuscript /\ invoice \in Invoice
        /\ transaction \in Transaction /\ paid \in BOOLEAN
    BY TypeParts DEF GeneralInv, RowsOK, RestOK
  <1>1. CASE FindManuscript(m)
    BY <1>0, <1>1, HoldManuscript, LeaveOK DEF FindManuscript, AfterLeft
  <1>2. CASE FindInvoice(m)
    BY <1>0, <1>2, HoldInvoice, LeaveOK DEF FindInvoice
  <1>3. CASE FindTransaction(m)
    BY <1>0, <1>3, HoldTransaction, LeaveOK DEF FindTransaction, AfterLeft
  <1>4. CASE ReadToEdit(m) \/ FindAuthor(m) \/ ReadToDecide(m)
    BY <1>0, <1>4, HoldManuscript DEF ReadToEdit, FindAuthor, ReadToDecide
  <1>5. CASE FindNoticedInvoice(m) \/ Credit(m) \/ LoadAccepted(m) \/ PublishedInvoice(m)
    BY <1>0, <1>5, HoldInvoice, LeaveOK
    DEF FindNoticedInvoice, Credit, LoadAccepted, PublishedInvoice
  <1>6. CASE FindPayments(m)
    BY <1>0, <1>6, HoldPaid DEF FindPayments
  <1> QED
    BY <1>1, <1>2, <1>3, <1>4, <1>5, <1>6 DEF Reading

LEMMA RowOK ==
  ASSUME LocalsOK, NEW m \in Messages, NEW x \in 0..3, row' = [row EXCEPT ![m] = x],
         UNCHANGED <<held, overlapped>>,
         UNCHANGED pc \/ \E step \in PcValues : Goto(m, step)
  PROVE  LocalsOK'
BY DEF LocalsOK, Goto

LEMMA LocalsRowByRow ==
  ASSUME GeneralInv, NEW m \in Messages, RowByRow(m)
  PROVE  LocalsOK'
  <1>0. /\ LocalsOK /\ row[m] \in 0..3 /\ (pc[m] = "creating" => row[m] <= 2)
        /\ {"created", "edit", "done"} \subseteq PcValues
    BY TypeParts DEF GeneralInv, RowInv, LocalsOK, PcValues, Steps
  <1>1. row[m] < 3 => row[m] + 1 \in 0..3
    BY <1>0
  <1>2. CASE SaveRow(m)
    BY <1>0, <1>1, <1>2, RowOK DEF SaveRow
  <1>3. CASE LoseItem(m)
    <2>1. row[m] < 3 /\ row' = [row EXCEPT ![m] = row[m] + 1]
      BY <1>0, <1>3 DEF LoseItem
    <2> QED
      BY <1>0, <1>1, <1>3, <2>1, RowOK DEF LoseItem
  <1>4. CASE DeleteRow(m)
    BY <1>0, <1>1, <1>4, RowOK, LeaveOK DEF DeleteRow, NextRow
  <1>5. CASE RestoreRow(m)
    BY <1>0, <1>1, <1>5, RowOK DEF RestoreRow, NextRow
  <1> QED
    BY <1>2, <1>3, <1>4, <1>5 DEF RowByRow

LEMMA LocalsNext ==
  ASSUME GeneralInv, Next
  PROVE  LocalsOK'
  <1> USE DEF Steps, PcValues
  <1>0. LocalsOK
    BY TypeParts DEF GeneralInv
  <1>1. CASE Paying
    BY <1>0, <1>1 DEF Paying, ConfirmInvoice, PayInvoice, Acted, LocalsOK
  <1>2. ASSUME NEW m \in Messages, Deciding(m)
        PROVE  LocalsOK'
    BY <1>0, <1>2, KeepOK, LeaveOK
    DEF Deciding, Created, Decide, Announce, AcceptedTransaction, AcceptedForFree, Keep
  <1>3. ASSUME NEW m \in Messages, WritingManuscript(m)
        PROVE  LocalsOK'
    BY <1>0, <1>3, KeepOK, LeaveOK
    DEF WritingManuscript, CreateManuscript, EditManuscript, CompareAuthor, ResetEligibility,
        WriteAuthor, WriteEligible, WriteApproved, MarkAsPublished, Keep
  <1>4. ASSUME NEW m \in Messages, WritingInvoice(m)
        PROVE  LocalsOK'
    BY <1>0, <1>4, KeepOK, LeaveOK
    DEF WritingInvoice, Finalize, DateOnly, DateAccepted, AutoConfirm, DatePublished, Keep
  <1>5. ASSUME NEW m \in Messages, Activating(m)
        PROVE  LocalsOK'
    BY <1>0, <1>5, KeepOK, LeaveOK
    DEF Activating, Activate, ActivateAccepted, ActivatePublished, Keep
  <1>6. ASSUME NEW m \in Messages, Crediting(m)
        PROVE  LocalsOK'
    BY <1>0, <1>6, KeepOK, LeaveOK
    DEF Crediting, SaveCreditNote, LoseCreditNote, Refund, AfterCredit, Keep
  <1>7. ASSUME NEW m \in Messages, Stopping(m)
        PROVE  LocalsOK'
    BY <1>0, <1>7, KeepOK, LeaveOK
    DEF Stopping, Fail, Swallow, Redeliver, Keep
  <1> QED
    BY <1>1, <1>2, <1>3, <1>4, <1>5, <1>6, <1>7, NextParts, LocalsReceives,
       LocalsReading, LocalsRowByRow

LEMMA ReadsOnly ==
  ASSUME NEW m \in Messages, Receives(m) \/ Reading(m) \/ Deciding(m)
  PROVE  Reads
  <1>1. CASE Receives(m)
    BY <1>1 DEF Receives, ReceiveSubmission, ReceiveReturned, ReceiveNotice,
                ReceiveAcceptance, ReceivePublication
  <1>2. CASE Reading(m)
    BY <1>2 DEF Reading, FindManuscript, FindInvoice, FindTransaction, ReadToEdit,
                FindAuthor, FindNoticedInvoice, FindPayments, Credit, ReadToDecide,
                LoadAccepted, PublishedInvoice
  <1>3. CASE Deciding(m)
    BY <1>3 DEF Deciding, Created, Decide, Announce, AcceptedTransaction, AcceptedForFree
  <1> QED
    BY <1>1, <1>2, <1>3

LEMMA HeldType ==
  ASSUME LocalsOK, NEW m \in Messages
  PROVE  /\ held[m].manuscript \in Manuscript /\ held[m].invoice \in Invoice
         /\ held[m].transaction \in Transaction /\ held[m].paid \in BOOLEAN
BY DEF LocalsOK, Objects

LEMMA ManuscriptEdits ==
  ASSUME NEW x \in Manuscript, NEW a \in Authors, NEW b \in BOOLEAN
  PROVE  /\ [x EXCEPT !.author = a] \in Manuscript
         /\ [x EXCEPT !.taEligible = b] \in Manuscript
         /\ [x EXCEPT !.taFundingApproved = b] \in Manuscript
         /\ x.author \in Authors /\ NewManuscript(a) \in Manuscript
BY DEF Manuscript, NewManuscript

LEMMA InvoiceEdits ==
  ASSUME NEW x \in Invoice, NEW s \in {"DRAFT", "ACTIVE", "PENDING", "FINAL"}
  PROVE  /\ [x EXCEPT !.accepted = TRUE] \in Invoice
         /\ [x EXCEPT !.accepted = TRUE].status = x.status
         /\ [x EXCEPT !.status = s] \in Invoice
         /\ [x EXCEPT !.status = s].status = s
BY DEF Invoice

\* What the handlers write back, row by row.
LEMMA RowsRowByRow ==
  ASSUME GeneralInv, NEW m \in Messages, RowByRow(m)
  PROVE  RowsOK' /\ stored \subseteq stored'
  <1>0. /\ RowsOK /\ row[m] \in 0..3 /\ (pc[m] = "creating" => row[m] <= 2)
        /\ (pc[m] \in {"deleting", "restoring"} => stored = Tables)
        /\ held[m].manuscript \in Manuscript /\ held[m].invoice \in Invoice
        /\ held[m].transaction \in Transaction
    BY TypeParts, HeldType DEF GeneralInv, RowInv, StoredInv, LocalsOK
  <1>1. CASE SaveRow(m)
    <2>1. SaveOrder[row[m] + 1] \in Tables
      <3>1. row[m] \in {0, 1, 2}
        BY <1>0, <1>1 DEF SaveRow
      <3> QED
        BY <3>1 DEF SaveOrder, Tables
    <2> QED
      BY <1>0, <1>1, <2>1 DEF SaveRow, RowsOK
  <1>2. CASE LoseItem(m)
    BY <1>0, <1>2 DEF LoseItem, RowsOK, rows
  <1>3. RowOrder[row[m] + 1] \in Tables
    <2>1. row[m] \in {0, 1, 2, 3}
      BY <1>0
    <2> QED
      BY <2>1 DEF RowOrder, Tables
  <1>4. CASE DeleteRow(m)
    BY <1>0, <1>3, <1>4 DEF DeleteRow, WriteBack, RowsOK
  <1>5. CASE RestoreRow(m)
    BY <1>0, <1>3, <1>5 DEF RestoreRow, WriteBack, RowsOK
  <1> QED
    BY <1>1, <1>2, <1>4, <1>5 DEF RowByRow

LEMMA RowsNext ==
  ASSUME GeneralInv, Next
  PROVE  RowsOK' /\ stored \subseteq stored'
  <1>0. /\ RowsOK /\ LocalsOK
        /\ manuscript \in Manuscript /\ invoice \in Invoice
    BY TypeParts DEF GeneralInv, RowsOK
  <1>a. \A s \in ConfirmedAs \cup {"FINAL"} : [invoice EXCEPT !.status = s] \in Invoice
    <2>1. ConfirmedAs \cup {"FINAL"} \subseteq {"DRAFT", "ACTIVE", "PENDING", "FINAL"}
      BY MessageAssumption
    <2> QED
      BY <1>0, <2>1, InvoiceEdits
  <1>1. CASE Paying
    <2>1. PICK s \in ConfirmedAs \cup {"FINAL"} : invoice' = [invoice EXCEPT !.status = s]
      BY <1>1 DEF Paying, ConfirmInvoice, PayInvoice
    <2>2. invoice' \in Invoice
      BY <1>a, <2>1
    <2> QED
      BY <1>0, <1>1, <2>2 DEF Paying, ConfirmInvoice, PayInvoice, RowsOK
  <1>2. ASSUME NEW m \in Messages, Receives(m) \/ Reading(m) \/ Deciding(m)
        PROVE  RowsOK' /\ stored \subseteq stored'
    BY <1>0, <1>2, ReadsOnly DEF Reads, rows, RowsOK
  <1>3. ASSUME NEW m \in Messages, WritingManuscript(m)
        PROVE  RowsOK' /\ stored \subseteq stored'
    <2>1. pc[m] \in {"new", "write manuscript", "write author"} => AuthorOf[m] \in Authors
      BY MessageAssumption DEF GeneralInv, KindInv, Fits
    <2>2. held[m].manuscript \in Manuscript
      BY <1>0, HeldType
    <2>3. \A b \in BOOLEAN : /\ [manuscript EXCEPT !.taEligible = b] \in Manuscript
                             /\ [manuscript EXCEPT !.taFundingApproved = b] \in Manuscript
      BY <1>0 DEF Manuscript
    <2>4. CASE CreateManuscript(m)
      BY <1>0, <2>1, <2>4, ManuscriptEdits DEF CreateManuscript, RowsOK, Tables
    <2>5. CASE EditManuscript(m) \/ WriteAuthor(m) \/ MarkAsPublished(m)
      BY <1>0, <2>1, <2>2, <2>5, ManuscriptEdits
      DEF EditManuscript, WriteAuthor, MarkAsPublished, RowsOK
    <2>6. CASE CompareAuthor(m) \/ ResetEligibility(m) \/ WriteEligible(m) \/ WriteApproved(m)
      <3>1. (m \in Eligible) \in BOOLEAN /\ (m \in Approved) \in BOOLEAN
        OBVIOUS
      <3> QED
        BY <1>0, <2>3, <2>6, <3>1
        DEF CompareAuthor, ResetEligibility, WriteEligible, WriteApproved, RowsOK
    <2> QED
      BY <1>3, <2>4, <2>5, <2>6 DEF WritingManuscript
  <1>4. ASSUME NEW m \in Messages, WritingInvoice(m)
        PROVE  RowsOK' /\ stored \subseteq stored'
    <2>1. held[m].invoice \in Invoice
      BY <1>0, HeldType
    <2>2. invoice' \in Invoice /\ UNCHANGED <<stored, deleted, manuscript, transaction>>
      <3>1. CASE AutoConfirm(m)
        <4>1. CASE UNCHANGED invoice
          BY <1>0, <3>1, <4>1 DEF AutoConfirm
        <4>2. CASE ~UNCHANGED invoice
          <5>1. PICK s \in ConfirmedAs \cup {"FINAL"} : invoice' = [invoice EXCEPT !.status = s]
            BY <3>1, <4>2 DEF AutoConfirm
          <5> QED
            BY <1>a, <3>1, <5>1 DEF AutoConfirm
        <4> QED
          BY <4>1, <4>2
      <3>2. CASE Finalize(m)
        <4>1. [held[m].invoice EXCEPT !.status = "FINAL"] \in Invoice
          BY <2>1, InvoiceEdits
        <4> QED
          BY <3>2, <4>1 DEF Finalize
      <3>3. CASE DateOnly(m) \/ DateAccepted(m) \/ DatePublished(m)
        <4>1. /\ [invoice EXCEPT !.accepted = TRUE] \in Invoice
              /\ [held[m].invoice EXCEPT !.accepted = TRUE] \in Invoice
          BY <1>0, <2>1, InvoiceEdits
        <4> QED
          BY <1>0, <2>1, <3>3, <4>1 DEF DateOnly, DateAccepted, DatePublished
      <3> QED
        BY <1>4, <3>1, <3>2, <3>3 DEF WritingInvoice
    <2> QED
      BY <1>0, <2>2 DEF RowsOK
  <1>5. ASSUME NEW m \in Messages, Activating(m)
        PROVE  RowsOK' /\ stored \subseteq stored'
    BY <1>0, <1>5
    DEF Activating, Activate, ActivateAccepted, ActivatePublished, RowsOK, Transaction
  <1>6. ASSUME NEW m \in Messages, Crediting(m) \/ Stopping(m)
        PROVE  RowsOK' /\ stored \subseteq stored'
    BY <1>0, <1>6
    DEF Crediting, SaveCreditNote, LoseCreditNote, Refund, Stopping, Fail, Swallow,
        Redeliver, RowsOK, rows
  <1> QED
    BY <1>1, <1>2, <1>3, <1>4, <1>5, <1>6, NextParts, RowsRowByRow

LEMMA GotoFits ==
  ASSUME pc \in [Messages -> PcValues], KindInv, NEW m \in Messages, NEW step,
         Goto(m, step), Fits(m, step)
  PROVE  KindInv'
<1>1. \A n \in Messages : pc'[n] = IF n = m THEN step ELSE pc[n]
  BY DEF Goto
<1> QED
  BY <1>1 DEF KindInv, Fits

LEMMA FitsNext ==
  ASSUME GeneralInv, Next
  PROVE  KindInv'
  <1> USE DEF Notices
  <1>0. /\ KindInv /\ pc \in [Messages -> PcValues]
        /\ \A m \in Messages : Fits(m, "done") /\ Fits(m, "idle") /\ Fits(m, "again")
    BY TypeParts DEF GeneralInv, LocalsOK, Fits
  <1>1. CASE Paying
    BY <1>0, <1>1 DEF Paying, ConfirmInvoice, PayInvoice, KindInv, Fits
  <1>2. ASSUME NEW m \in Messages, Receives(m)
        PROVE  KindInv'
    BY <1>0, <1>2, GotoFits
    DEF Receives, ReceiveSubmission, ReceiveReturned, ReceiveNotice, ReceiveAcceptance,
        ReceivePublication, Receive, Fits
  <1>3. ASSUME NEW m \in Messages, Reading(m)
        PROVE  KindInv'
    <2>1. Fits(m, pc[m])
      BY <1>0 DEF KindInv
    <2>2. CASE FindManuscript(m) \/ FindInvoice(m) \/ FindTransaction(m)
      BY <1>0, <2>1, <2>2, GotoFits
      DEF FindManuscript, FindInvoice, FindTransaction, AfterLeft, Leave, Restoring, Fits
    <2>3. CASE ReadToEdit(m) \/ FindAuthor(m) \/ LoadAccepted(m) \/ PublishedInvoice(m)
      BY <1>0, <2>1, <2>3, GotoFits
      DEF ReadToEdit, FindAuthor, LoadAccepted, PublishedInvoice, Leave, Fits
    <2>4. CASE FindNoticedInvoice(m) \/ FindPayments(m) \/ Credit(m) \/ ReadToDecide(m)
      BY <1>0, <2>1, <2>4, GotoFits
      DEF FindNoticedInvoice, FindPayments, Credit, ReadToDecide, Leave, Fits
    <2> QED
      BY <1>3, <2>2, <2>3, <2>4 DEF Reading
  <1>4. ASSUME NEW m \in Messages, Deciding(m)
        PROVE  KindInv'
    <2>1. Fits(m, pc[m])
      BY <1>0 DEF KindInv
    <2> QED
      BY <1>0, <1>4, <2>1, GotoFits
      DEF Deciding, Created, Decide, Announce, AcceptedTransaction, AcceptedForFree,
          Keep, Leave, Fits
  <1>5. ASSUME NEW m \in Messages, RowByRow(m)
        PROVE  KindInv'
    <2>1. Fits(m, pc[m])
      BY <1>0 DEF KindInv
    <2>2. UNCHANGED pc => KindInv'
      BY <1>0 DEF KindInv, Fits
    <2> QED
      BY <1>0, <1>5, <2>1, <2>2, GotoFits
      DEF RowByRow, SaveRow, LoseItem, DeleteRow, RestoreRow, NextRow, Leave, Fits
  <1>6. ASSUME NEW m \in Messages, WritingManuscript(m)
        PROVE  KindInv'
    <2>1. Fits(m, pc[m])
      BY <1>0 DEF KindInv
    <2> QED
      BY <1>0, <1>6, <2>1, GotoFits
      DEF WritingManuscript, CreateManuscript, EditManuscript, CompareAuthor,
          ResetEligibility, WriteAuthor, WriteEligible, WriteApproved, MarkAsPublished,
          Keep, Leave, Fits
  <1>7. ASSUME NEW m \in Messages, WritingInvoice(m) \/ Activating(m)
        PROVE  KindInv'
    <2>1. Fits(m, pc[m])
      BY <1>0 DEF KindInv
    <2> QED
      BY <1>0, <1>7, <2>1, GotoFits
      DEF WritingInvoice, Finalize, DateOnly, DateAccepted, AutoConfirm, DatePublished,
          Activating, Activate, ActivateAccepted, ActivatePublished, Keep, Leave, Fits
  <1>8. ASSUME NEW m \in Messages, Crediting(m) \/ Stopping(m)
        PROVE  KindInv'
    <2>1. Fits(m, pc[m])
      BY <1>0 DEF KindInv
    <2> QED
      BY <1>0, <1>8, <2>1, GotoFits
      DEF Crediting, SaveCreditNote, LoseCreditNote, Refund, AfterCredit, Stopping, Fail,
          Swallow, Redeliver, Keep, Leave, Fits
  <1> QED
    BY <1>1, <1>2, <1>3, <1>4, <1>5, <1>6, <1>7, <1>8, NextParts

\* Only RowByRow moves the counter of rows; who leaves or goes on sets it to 0.
LEMMA RowStep ==
  ASSUME LocalsOK, RowInv, NEW m \in Messages, NEW step, Goto(m, step),
         \/ row' = [row EXCEPT ![m] = 0]
         \/ row' = row /\ pc[m] \notin {"creating", "deleting", "restoring"}
  PROVE  RowInv'
<1>1. \A n \in Messages : row'[n] = IF n = m THEN 0 ELSE row[n]
  BY DEF LocalsOK, RowInv
<1>2. \A n \in Messages \ {m} : pc'[n] = pc[n]
  BY DEF Goto, LocalsOK
<1> QED
  BY <1>1, <1>2 DEF RowInv

LEMMA RowsInOrder ==
  ASSUME GeneralInv, NEW m \in Messages, RowByRow(m)
  PROVE  RowInv'
  <1>0. LocalsOK /\ RowInv /\ row[m] \in 0..3 /\ (pc[m] = "creating" => row[m] <= 2)
    BY TypeParts DEF GeneralInv, LocalsOK, RowInv
  <1>1. ASSUME NEW x \in 0..3, row' = [row EXCEPT ![m] = x], UNCHANGED pc,
               pc[m] \in {"deleting", "restoring"} \/ (pc[m] = "creating" /\ x <= 2)
        PROVE  RowInv'
    BY <1>0, <1>1 DEF RowInv, LocalsOK
  <1>2. CASE SaveRow(m)
    <2>1. CASE row[m] < 2
      BY <1>0, <1>1, <1>2, <2>1 DEF SaveRow
    <2>2. CASE ~(row[m] < 2)
      BY <1>0, <1>2, <2>2, RowStep DEF SaveRow
    <2> QED
      BY <2>1, <2>2
  <1>3. CASE LoseItem(m)
    <2>1. row[m] = 1
      <3>1. row[m] \in {0, 1, 2}
        BY <1>0, <1>3 DEF LoseItem
      <3> QED
        BY <1>3, <3>1 DEF LoseItem, SaveOrder
    <2> QED
      BY <1>1, <1>3, <2>1 DEF LoseItem
  <1>4. CASE DeleteRow(m) \/ RestoreRow(m)
    <2>1. CASE row[m] < 3
      <3>1. row[m] + 1 \in 0..3
        BY <1>0, <2>1
      <3>2. /\ row' = [row EXCEPT ![m] = row[m] + 1] /\ UNCHANGED pc
            /\ pc[m] \in {"deleting", "restoring"}
        BY <1>4, <2>1 DEF DeleteRow, RestoreRow, NextRow
      <3> QED
        BY <1>0, <3>1, <3>2 DEF RowInv, LocalsOK
    <2>2. CASE ~(row[m] < 3)
      BY <1>0, <1>4, <2>2, RowStep DEF DeleteRow, RestoreRow, NextRow, Leave
    <2> QED
      BY <2>1, <2>2
  <1> QED
    BY <1>2, <1>3, <1>4 DEF RowByRow

LEMMA RowNext ==
  ASSUME GeneralInv, Next
  PROVE  RowInv'
  <1> USE DEF Keep, Leave, Hold, locals
  <1>0. LocalsOK /\ RowInv
    BY TypeParts DEF GeneralInv
  <1>1. CASE Paying
    BY <1>0, <1>1 DEF Paying, ConfirmInvoice, PayInvoice, RowInv
  <1>2. ASSUME NEW m \in Messages, Receives(m)
        PROVE  RowInv'
    BY <1>0, <1>2, RowStep
    DEF Receives, ReceiveSubmission, ReceiveReturned, ReceiveNotice, ReceiveAcceptance,
        ReceivePublication, Receive
  <1>3. ASSUME NEW m \in Messages, Reading(m) \/ Deciding(m)
        PROVE  RowInv'
    <2>1. CASE Reading(m)
      BY <1>0, <2>1, RowStep
      DEF Reading, FindManuscript, FindInvoice, FindTransaction, ReadToEdit, FindAuthor,
          LoadAccepted, PublishedInvoice, FindNoticedInvoice, FindPayments, Credit,
          ReadToDecide
    <2>2. CASE Deciding(m)
      BY <1>0, <2>2, RowStep
      DEF Deciding, Created, Decide, Announce, AcceptedTransaction, AcceptedForFree
    <2> QED
      BY <1>3, <2>1, <2>2
  <1>4. ASSUME NEW m \in Messages, WritingManuscript(m)
        PROVE  RowInv'
    BY <1>0, <1>4, RowStep
    DEF WritingManuscript, CreateManuscript, EditManuscript, CompareAuthor,
        ResetEligibility, WriteAuthor, WriteEligible, WriteApproved, MarkAsPublished
  <1>5. ASSUME NEW m \in Messages, WritingInvoice(m) \/ Activating(m)
        PROVE  RowInv'
    BY <1>0, <1>5, RowStep
    DEF WritingInvoice, Finalize, DateOnly, DateAccepted, AutoConfirm, DatePublished,
        Activating, Activate, ActivateAccepted, ActivatePublished
  <1>6. ASSUME NEW m \in Messages, Crediting(m)
        PROVE  RowInv'
    BY <1>0, <1>6, RowStep
    DEF Crediting, SaveCreditNote, LoseCreditNote, Refund, AfterCredit
  <1>7. ASSUME NEW m \in Messages, Stopping(m)
        PROVE  RowInv'
    BY <1>0, <1>7, RowStep DEF Stopping, Fail, Swallow, Redeliver
  <1> QED
    BY <1>1, <1>2, <1>3, <1>4, <1>5, <1>6, <1>7, NextParts, RowsInOrder

-----------------------------------------------------------------------------
(* StoredInv.                                                                 *)

\* A handler gets to these steps only from the one before.
Storing == {"creating", "find invoice", "find transaction", "deleting", "restoring"}

LEMMA StoredStep ==
  ASSUME LocalsOK, StoredInv, NEW m \in Messages, NEW step, Goto(m, step),
         step \notin Storing, UNCHANGED stored,
         \A n \in Messages \ {m} : row'[n] = row[n]
  PROVE  StoredInv'
<1>1. \A n \in Messages : pc'[n] = IF n = m THEN step ELSE pc[n]
  BY DEF Goto, LocalsOK
<1> QED
  BY <1>1 DEF StoredInv, Storing

LEMMA StoredRowByRow ==
  ASSUME GeneralInv, NEW m \in Messages, RowByRow(m)
  PROVE  StoredInv'
  <1>0. /\ LocalsOK /\ StoredInv /\ row[m] \in 0..3 /\ (pc[m] = "creating" => row[m] <= 2)
        /\ RowsOK' /\ stored \subseteq stored'
    BY TypeParts, RowsRowByRow DEF GeneralInv, LocalsOK, RowInv
  <1>1. \A n \in Messages \ {m} : pc'[n] = pc[n] /\ row'[n] = row[n]
    BY <1>0
    DEF RowByRow, SaveRow, LoseItem, DeleteRow, RestoreRow, NextRow, Leave, Goto, LocalsOK
  <1>2. ASSUME NEW n \in Messages \ {m}
        PROVE  /\ pc'[n] = "creating" /\ row'[n] > 0 => "invoices" \in stored'
               /\ pc'[n] \in {"find invoice", "find transaction", "deleting", "restoring"} =>
                    {"articles", "invoice_items"} \subseteq stored'
               /\ pc'[n] \in {"deleting", "restoring"} => stored' = Tables
    BY <1>0, <1>1, <1>2 DEF StoredInv, RowsOK
  <1>3. CASE SaveRow(m)
    <2>1. row[m] \in {0, 1, 2}
      BY <1>0, <1>3 DEF SaveRow
    <2>2. SaveOrder[1] = "invoices" /\ SaveOrder[2] = "invoice_items"
          /\ SaveOrder[3] = "transactions"
      BY DEF SaveOrder
    <2>3. "invoices" \in stored'
      <3>1. CASE row[m] = 0
        BY <1>3, <2>2, <3>1 DEF SaveRow
      <3>2. CASE row[m] > 0
        BY <1>0, <1>3, <3>2 DEF SaveRow, StoredInv
      <3> QED
        BY <2>1, <3>1, <3>2
    <2>4. pc'[m] \in {"creating", "created"}
      BY <1>0, <1>3 DEF SaveRow, Goto, LocalsOK
    <2> QED
      BY <1>2, <2>3, <2>4 DEF StoredInv
  <1>4. CASE LoseItem(m)
    <2>1. row[m] = 1
      <3>1. row[m] \in {0, 1, 2}
        BY <1>0, <1>4 DEF LoseItem
      <3> QED
        BY <1>4, <3>1 DEF LoseItem, SaveOrder
    <2>2. "invoices" \in stored'
      <3>1. pc[m] = "creating" /\ row[m] > 0
        BY <1>4, <2>1 DEF LoseItem
      <3>2. stored' = stored
        BY <1>4 DEF LoseItem, rows
      <3> QED
        BY <1>0, <3>1, <3>2 DEF StoredInv
    <2>3. pc'[m] = "creating"
      BY <1>4 DEF LoseItem
    <2> QED
      BY <1>2, <2>2, <2>3 DEF StoredInv
  <1>5. CASE DeleteRow(m) \/ RestoreRow(m)
    <2>1. stored = Tables /\ stored' = Tables
      BY <1>0, <1>5 DEF DeleteRow, RestoreRow, StoredInv, RowsOK
    <2>2. {"articles", "invoices", "invoice_items"} \subseteq stored'
      BY <2>1 DEF Tables
    <2> QED
      BY <2>1, <2>2 DEF StoredInv
  <1> QED
    BY <1>3, <1>4, <1>5 DEF RowByRow

LEMMA StoredNext ==
  ASSUME GeneralInv, Next
  PROVE  StoredInv'
  <1> USE DEF Keep, Leave, Hold, locals, Storing
  <1>0. LocalsOK /\ StoredInv
    BY TypeParts DEF GeneralInv
  <1>1. CASE Paying
    BY <1>0, <1>1 DEF Paying, ConfirmInvoice, PayInvoice, StoredInv
  <1>2. ASSUME NEW m \in Messages, Receives(m)
        PROVE  StoredInv'
    <2>1. UNCHANGED <<stored, row>>
      BY <1>2, ReadsOnly
      DEF Reads, rows, Receives, ReceiveSubmission, ReceiveReturned, ReceiveNotice,
          ReceiveAcceptance, ReceivePublication
    <2> QED
      BY <1>0, <1>2, <2>1, StoredStep
      DEF Receives, ReceiveSubmission, ReceiveReturned, ReceiveNotice, ReceiveAcceptance,
          ReceivePublication, Receive
  <1>3. ASSUME NEW m \in Messages, Reading(m) \/ Deciding(m)
        PROVE  StoredInv'
    <2>1. UNCHANGED stored
      BY <1>3, ReadsOnly DEF Reads, rows
    <2>2. \A n \in Messages : row'[n] = row[n] \/ n = m
      BY <1>0, <1>3
      DEF LocalsOK, Reading, FindManuscript, FindInvoice, FindTransaction, ReadToEdit,
          FindAuthor, LoadAccepted, PublishedInvoice, FindNoticedInvoice, FindPayments,
          Credit, ReadToDecide, Deciding, Created, Decide, Announce, AcceptedTransaction,
          AcceptedForFree
    <2>3. ASSUME Goto(m, "find invoice"), {"articles", "invoice_items"} \subseteq stored
          PROVE  StoredInv'
      BY <1>0, <2>1, <2>2, <2>3 DEF StoredInv, Goto, LocalsOK
    <2>4. ASSUME Goto(m, "find transaction"), pc[m] = "find invoice"
          PROVE  StoredInv'
      BY <1>0, <2>1, <2>2, <2>4 DEF StoredInv, Goto, LocalsOK
    <2>5. ASSUME NEW step \in {"deleting", "restoring"}, Goto(m, step),
                 pc[m] = "find transaction", "transactions" \in stored
          PROVE  StoredInv'
      <3>1. stored = Tables
        BY <1>0, <2>5, TypeParts DEF StoredInv, GeneralInv, RowsOK, Tables
      <3> QED
        BY <1>0, <2>1, <2>2, <2>5, <3>1 DEF StoredInv, Goto, LocalsOK
    <2>6. CASE FindManuscript(m) \/ FindInvoice(m) \/ FindTransaction(m)
      BY <1>0, <2>1, <2>2, <2>3, <2>4, <2>5, <2>6, StoredStep
      DEF FindManuscript, FindInvoice, FindTransaction, AfterLeft
    <2>7. CASE \/ ReadToEdit(m) \/ FindAuthor(m) \/ LoadAccepted(m) \/ PublishedInvoice(m)
               \/ FindNoticedInvoice(m) \/ Credit(m) \/ ReadToDecide(m)
      BY <1>0, <2>1, <2>2, <2>7, StoredStep
      DEF ReadToEdit, FindAuthor, LoadAccepted, PublishedInvoice, FindNoticedInvoice,
          Credit, ReadToDecide
    <2>8. CASE FindPayments(m) \/ Deciding(m)
      BY <1>0, <2>1, <2>2, <2>8, StoredStep
      DEF FindPayments, Deciding, Created, Decide, Announce, AcceptedTransaction,
          AcceptedForFree
    <2> QED
      BY <1>3, <2>6, <2>7, <2>8 DEF Reading
  <1>4. ASSUME NEW m \in Messages, WritingManuscript(m)
        PROVE  StoredInv'
    <2>1. \A n \in Messages \ {m} : row'[n] = row[n]
      BY <1>0, <1>4
      DEF LocalsOK, WritingManuscript, CreateManuscript, EditManuscript, CompareAuthor,
          ResetEligibility, WriteAuthor, WriteEligible, WriteApproved, MarkAsPublished
    <2>2. CASE CreateManuscript(m)
      <3>1. CASE "articles" \in stored
        BY <1>0, <2>1, <2>2, <3>1, StoredStep DEF CreateManuscript
      <3>2. CASE "articles" \notin stored
        <4>1. /\ stored' = stored \cup {"articles"} /\ Goto(m, "creating")
              /\ row'[m] = 0
          BY <2>2, <3>2 DEF CreateManuscript, GeneralInv, RowInv
        <4>2. \A n \in Messages \ {m} : pc'[n] = pc[n]
          BY <1>0, <4>1 DEF Goto, LocalsOK
        <4>3. \A n \in Messages : pc[n] \notin {"deleting", "restoring"}
          BY <1>0, <3>2 DEF StoredInv, Tables
        <4>4. pc'[m] = "creating"
          BY <1>0, <4>1 DEF Goto, LocalsOK
        <4>5. \A n \in Messages : pc'[n] \notin {"deleting", "restoring"}
          BY <4>2, <4>3, <4>4
        <4>6. \A n \in Messages : pc'[n] \notin {"find invoice", "find transaction"}
          BY <1>0, <3>2, <4>2, <4>4 DEF StoredInv
        <4>7. \A n \in Messages : pc'[n] = "creating" /\ row'[n] > 0 => "invoices" \in stored'
          <5> SUFFICES ASSUME NEW n \in Messages, pc'[n] = "creating", row'[n] > 0
                       PROVE  "invoices" \in stored'
            OBVIOUS
          <5>1. n # m
            BY <4>1
          <5>2. pc[n] = "creating" /\ row[n] > 0
            BY <2>1, <4>2, <5>1
          <5> QED
            BY <1>0, <4>1, <5>2 DEF StoredInv
        <4> QED
          BY <1>0, <4>1, <4>5, <4>6, <4>7 DEF StoredInv
      <3> QED
        BY <3>1, <3>2
    <2>3. CASE \/ EditManuscript(m) \/ CompareAuthor(m) \/ ResetEligibility(m) \/ WriteAuthor(m)
               \/ WriteEligible(m) \/ WriteApproved(m) \/ MarkAsPublished(m)
      BY <1>0, <2>1, <2>3, StoredStep
      DEF EditManuscript, CompareAuthor, ResetEligibility, WriteAuthor, WriteEligible,
          WriteApproved, MarkAsPublished
    <2> QED
      BY <1>4, <2>2, <2>3 DEF WritingManuscript
  <1>5. ASSUME NEW m \in Messages, WritingInvoice(m) \/ Activating(m)
        PROVE  StoredInv'
    <2>1. \A n \in Messages \ {m} : row'[n] = row[n]
      BY <1>0, <1>5
      DEF LocalsOK, WritingInvoice, Finalize, DateOnly, DateAccepted, AutoConfirm,
          DatePublished, Activating, Activate, ActivateAccepted, ActivatePublished
    <2> QED
      BY <1>0, <1>5, <2>1, StoredStep
      DEF WritingInvoice, Finalize, DateOnly, DateAccepted, AutoConfirm, DatePublished,
          Activating, Activate, ActivateAccepted, ActivatePublished
  <1>6. ASSUME NEW m \in Messages, Crediting(m) \/ Stopping(m)
        PROVE  StoredInv'
    <2>1. UNCHANGED stored /\ \A n \in Messages \ {m} : row'[n] = row[n]
      BY <1>0, <1>6
      DEF LocalsOK, rows, Crediting, SaveCreditNote, LoseCreditNote, Refund, AfterCredit,
          Stopping, Fail, Swallow, Redeliver
    <2> QED
      BY <1>0, <1>6, <2>1, StoredStep
      DEF Crediting, SaveCreditNote, LoseCreditNote, Refund, AfterCredit, Stopping, Fail,
          Swallow, Redeliver
  <1> QED
    BY <1>1, <1>2, <1>3, <1>4, <1>5, <1>6, NextParts, StoredRowByRow

-----------------------------------------------------------------------------
(* Credit notes, payments and refunds.                                        *)

Silent(m) ==
  \/ Receives(m) \/ Reading(m) \/ Deciding(m) \/ RowByRow(m)
  \/ WritingManuscript(m) \/ WritingInvoice(m) \/ Activating(m)

\* What all steps have in common that do not credit or stop.
SilentStep(m) ==
  /\ pc[m] \notin {"refund", "done"} /\ pc'[m] # "refund"
  /\ \A n \in Messages \ {m} : pc'[n] = pc[n]
  /\ UNCHANGED world
  /\ failures' \in 0..MaxFailures /\ failures <= failures'
  /\ unnoticed \subseteq unnoticed' /\ unnoticed' \subseteq Messages
  /\ eligibleAuthor' \in Authors

LEMMA SilentSteps ==
  ASSUME GeneralInv, NEW m \in Messages, Silent(m)
  PROVE  SilentStep(m)
  <1> USE DEF Keep, Leave, SilentStep
  <1>0. /\ pc \in [Messages -> PcValues] /\ LocalsOK /\ RestOK
        /\ failures \in 0..MaxFailures /\ MaxFailures \in Nat
        /\ unnoticed \subseteq Messages /\ eligibleAuthor \in Authors
        /\ Nobody \in Authors /\ manuscript.author \in Authors
    BY TypeParts, NobodyType, ManuscriptEdits, MessageAssumption
    DEF GeneralInv, LocalsOK, RestOK, RowsOK
  <1>1. ASSUME NEW step, Goto(m, step), step # "refund"
        PROVE  pc'[m] # "refund" /\ \A n \in Messages \ {m} : pc'[n] = pc[n]
    BY <1>0, <1>1 DEF Goto
  <1>2. UNCHANGED <<failures, history>> =>
          /\ failures' \in 0..MaxFailures /\ failures <= failures'
          /\ unnoticed \subseteq unnoticed' /\ unnoticed' \subseteq Messages
          /\ eligibleAuthor' \in Authors
    BY <1>0 DEF history
  <1>3. CASE Receives(m)
    BY <1>0, <1>1, <1>2, <1>3, ReadsOnly
    DEF Reads, Receives, ReceiveSubmission, ReceiveReturned, ReceiveNotice,
        ReceiveAcceptance, ReceivePublication, Receive
  <1>4. CASE Reading(m)
    <2>1. UNCHANGED <<world, failures, history>>
      BY <1>4, ReadsOnly DEF Reads
    <2> QED
      BY <1>0, <1>1, <1>2, <1>4, <2>1
      DEF Reading, FindManuscript, FindInvoice, FindTransaction, ReadToEdit, FindAuthor,
          LoadAccepted, PublishedInvoice, FindNoticedInvoice, FindPayments, Credit,
          ReadToDecide, AfterLeft
  <1>5. CASE Deciding(m)
    <2>1. UNCHANGED <<world, failures, history>>
      BY <1>5, ReadsOnly DEF Reads
    <2> QED
      BY <1>0, <1>1, <1>2, <1>5, <2>1
      DEF Deciding, Created, Decide, Announce, AcceptedTransaction, AcceptedForFree
  <1>6. CASE RowByRow(m)
    <2>1. CASE LoseItem(m)
      BY <1>0, <2>1 DEF LoseItem
    <2>2. CASE SaveRow(m) \/ DeleteRow(m) \/ RestoreRow(m)
      BY <1>0, <1>1, <1>2, <2>2 DEF SaveRow, DeleteRow, RestoreRow, NextRow, Writes
    <2> QED
      BY <1>6, <2>1, <2>2 DEF RowByRow
  <1>7. CASE WritingManuscript(m)
    <2>a. UNCHANGED <<failures, unnoticed>> /\ eligibleAuthor' \in Authors =>
            /\ failures' \in 0..MaxFailures /\ failures <= failures'
            /\ unnoticed \subseteq unnoticed' /\ unnoticed' \subseteq Messages
      BY <1>0
    <2>1. CASE ResetEligibility(m)
      BY <1>0, <1>1, <2>1, <2>a DEF ResetEligibility
    <2>2. CASE WriteEligible(m)
      BY <1>0, <1>1, <2>2, <2>a DEF WriteEligible
    <2>3. CASE \/ CreateManuscript(m) \/ EditManuscript(m) \/ CompareAuthor(m)
               \/ WriteAuthor(m) \/ WriteApproved(m) \/ MarkAsPublished(m)
      BY <1>0, <1>1, <1>2, <2>3
      DEF CreateManuscript, EditManuscript, CompareAuthor, WriteAuthor, WriteApproved,
          MarkAsPublished, Writes
    <2> QED
      BY <1>7, <2>1, <2>2, <2>3 DEF WritingManuscript
  <1>8. CASE WritingInvoice(m) \/ Activating(m)
    BY <1>0, <1>1, <1>2, <1>8
    DEF WritingInvoice, Finalize, DateOnly, DateAccepted, AutoConfirm, DatePublished,
        Activating, Activate, ActivateAccepted, ActivatePublished, Writes
  <1> QED
    BY <1>3, <1>4, <1>5, <1>6, <1>7, <1>8 DEF Silent

\* A handler holds only a payment that it has read, and only its own.
LEMMA SilentHolds ==
  ASSUME GeneralInv, NEW m \in Messages, Silent(m)
  PROVE  /\ held'[m].paid => held[m].paid \/ paid
         /\ \A n \in Messages \ {m} : held'[n] = held[n]
  <1> USE DEF Keep, locals, PcValues, Steps
  <1>0. /\ LocalsOK /\ manuscript \in Manuscript /\ invoice \in Invoice
        /\ transaction \in Transaction /\ paid \in BOOLEAN
    BY TypeParts DEF GeneralInv, RowsOK, RestOK
  <1>1. ASSUME NEW how, Leave(m, how)
        PROVE  ~held'[m].paid /\ \A n \in Messages \ {m} : held'[n] = held[n]
    BY <1>0, <1>1, NothingType DEF Leave, LocalsOK
  <1>2. CASE Receives(m)
    BY <1>0, <1>2, HoldExisting, HoldManuscript
    DEF Receives, ReceiveSubmission, ReceiveReturned, ReceiveNotice, ReceiveAcceptance,
        ReceivePublication, Receive
  <1>3. CASE Reading(m)
    <2>1. CASE FindManuscript(m)
      BY <1>0, <1>1, <2>1, HoldManuscript DEF FindManuscript
    <2>2. CASE FindInvoice(m)
      BY <1>0, <1>1, <2>2, HoldInvoice DEF FindInvoice
    <2>3. CASE FindTransaction(m)
      BY <1>0, <1>1, <2>3, HoldTransaction DEF FindTransaction
    <2>4. CASE ReadToEdit(m) \/ FindAuthor(m) \/ ReadToDecide(m)
      BY <1>0, <2>4, HoldManuscript DEF ReadToEdit, FindAuthor, ReadToDecide
    <2>5. CASE FindNoticedInvoice(m) \/ Credit(m) \/ LoadAccepted(m) \/ PublishedInvoice(m)
      BY <1>0, <1>1, <2>5, HoldInvoice
      DEF FindNoticedInvoice, Credit, LoadAccepted, PublishedInvoice
    <2>6. CASE FindPayments(m)
      BY <1>0, <2>6, HoldPaid DEF FindPayments
    <2> QED
      BY <1>3, <2>1, <2>2, <2>3, <2>4, <2>5, <2>6 DEF Reading
  <1>4. CASE Deciding(m)
    BY <1>1, <1>4
    DEF Deciding, Created, Decide, Announce, AcceptedTransaction, AcceptedForFree
  <1>5. CASE RowByRow(m)
    BY <1>1, <1>5 DEF RowByRow, SaveRow, LoseItem, DeleteRow, RestoreRow, NextRow
  <1>6. CASE WritingManuscript(m)
    BY <1>1, <1>6
    DEF WritingManuscript, CreateManuscript, EditManuscript, CompareAuthor,
        ResetEligibility, WriteAuthor, WriteEligible, WriteApproved, MarkAsPublished
  <1>7. CASE WritingInvoice(m) \/ Activating(m)
    BY <1>1, <1>7
    DEF WritingInvoice, Finalize, DateOnly, DateAccepted, AutoConfirm, DatePublished,
        Activating, Activate, ActivateAccepted, ActivatePublished
  <1> QED
    BY <1>2, <1>3, <1>4, <1>5, <1>6, <1>7 DEF Silent

LEMMA SilentMoney ==
  ASSUME GeneralInv, NEW m \in Messages, Silent(m)
  PROVE  RestOK' /\ CreditInv' /\ RefundInv'
  <1>0. /\ SilentStep(m) /\ RestOK /\ CreditInv /\ RefundInv /\ Notices \subseteq Messages
        /\ creditNotes' = creditNotes /\ paid' = paid /\ refunds' = refunds
    BY SilentSteps, TypeParts, KindsOfMessages DEF GeneralInv, SilentStep, world
  <1>1. RestOK'
    BY <1>0 DEF RestOK, SilentStep
  <1>2. CreditInv'
    <2> SUFFICES ASSUME NEW n \in Notices
                 PROVE  \/ creditNotes[n] <= failures'
                        \/ pc'[n] \in {"refund", "done"} /\ creditNotes[n] <= 1 + failures'
      BY <1>0 DEF CreditInv
    <2>1. creditNotes[n] \in Nat /\ failures \in Nat /\ failures' \in Nat
      BY <1>0, MessageAssumption DEF RestOK, SilentStep
    <2>2. failures <= failures' /\ (n # m => pc'[n] = pc[n]) /\ pc[m] \notin {"refund", "done"}
      BY <1>0 DEF SilentStep
    <2>3. \/ creditNotes[n] <= failures
          \/ pc[n] \in {"refund", "done"} /\ creditNotes[n] <= 1 + failures
      BY <1>0 DEF CreditInv
    <2> QED
      BY <2>1, <2>2, <2>3
  <1>3. RefundInv'
    <2>1. RefundIsCredited'
      BY <1>0 DEF RefundInv, RefundIsCredited, SilentStep
    <2>2. ASSUME NEW n \in Messages
          PROVE  /\ held'[n].paid => paid'
                 /\ pc'[n] = "refund" => held'[n].paid /\ (creditNotes'[n] > 0 \/ n \in unnoticed')
      <3>1. CASE n = m
        BY <1>0, <3>1, SilentHolds DEF RefundInv, SilentStep
      <3>2. CASE n # m
        BY <1>0, <2>2, <3>2, SilentHolds DEF RefundInv, SilentStep
      <3> QED
        BY <3>1, <3>2
    <2> QED
      BY <2>1, <2>2 DEF RefundInv
  <1> QED
    BY <1>1, <1>2, <1>3

\* A credit note is inserted, or lost, before the refund is asked for.
LEMMA CreditingMoney ==
  ASSUME GeneralInv, NEW m \in Messages, Crediting(m)
  PROVE  RestOK' /\ CreditInv' /\ RefundInv'
  <1> USE DEF Keep, Leave, locals
  <1>a. m \in Notices
    <2>1. pc[m] \in {"save credit note", "refund"}
      BY DEF Crediting, SaveCreditNote, LoseCreditNote, Refund
    <2> QED
      BY <2>1 DEF GeneralInv, KindInv, Fits
  <1>0. /\ LocalsOK /\ RestOK /\ CreditInv /\ RefundInv /\ Notices \subseteq Messages
        /\ failures \in Nat /\ MaxFailures \in Nat
        /\ creditNotes \in [Notices -> Nat] /\ creditNotes[m] \in Nat
        /\ m \in Notices /\ Nothing.paid = FALSE
    BY <1>a, TypeParts, KindsOfMessages, MessageAssumption, NothingType
    DEF GeneralInv, RestOK
  <1>1. /\ \A n \in Messages \ {m} : pc'[n] = pc[n] /\ held'[n] = held[n]
        /\ pc'[m] \in {"refund", "done"}
        /\ held'[m].paid => held[m].paid
        /\ pc'[m] = "refund" => held'[m].paid
    BY <1>0 DEF Crediting, SaveCreditNote, LoseCreditNote, Refund, AfterCredit, Goto, LocalsOK
  <1>2. CASE SaveCreditNote(m)
    <2>1. /\ creditNotes' = [creditNotes EXCEPT ![m] = creditNotes[m] + 1]
          /\ paid' = paid /\ refunds' = refunds /\ failures' = failures
          /\ unnoticed' = unnoticed /\ eligibleAuthor' = eligibleAuthor
          /\ creditNotes[m] <= failures
      BY <1>0, <1>2 DEF SaveCreditNote, history, CreditInv
    <2>2. creditNotes'[m] > 0 /\ creditNotes'[m] <= 1 + failures'
      BY <1>0, <2>1
    <2>3. \A n \in Notices \ {m} : creditNotes'[n] = creditNotes[n]
      BY <1>0, <2>1
    <2>4. RestOK'
      BY <1>0, <2>1 DEF RestOK
    <2>5. CreditInv'
      BY <1>0, <1>1, <2>1, <2>2, <2>3 DEF CreditInv
    <2>6. RefundIsCredited'
      BY <1>0, <2>1, <2>2, <2>3 DEF RefundInv, RefundIsCredited, RestOK
    <2>7. \A n \in Messages \ {m} : pc[n] = "refund" => n \in Notices
      BY DEF GeneralInv, KindInv, Fits
    <2>8. RefundInv'
      BY <1>0, <1>1, <2>1, <2>2, <2>3, <2>6, <2>7 DEF RefundInv
    <2> QED
      BY <2>4, <2>5, <2>8
  <1>3. CASE LoseCreditNote(m)
    <2>1. /\ creditNotes' = creditNotes /\ paid' = paid /\ refunds' = refunds
          /\ failures < MaxFailures /\ failures' = failures + 1
          /\ unnoticed' = unnoticed \cup {m} /\ eligibleAuthor' = eligibleAuthor
      BY <1>3 DEF LoseCreditNote, world
    <2>2. RestOK'
      BY <1>0, <2>1 DEF RestOK
    <2>3. CreditInv'
      <3> SUFFICES ASSUME NEW n \in Notices
                   PROVE  creditNotes[n] <= failures'
        BY <2>1 DEF CreditInv
      <3>1. creditNotes[n] <= 1 + failures /\ creditNotes[n] \in Nat
        BY <1>0 DEF CreditInv
      <3> QED
        BY <1>0, <2>1, <3>1
    <2>4. RefundIsCredited'
      BY <1>0, <2>1 DEF RefundInv, RefundIsCredited
    <2>5. RefundInv'
      BY <1>0, <1>1, <2>1, <2>4 DEF RefundInv
    <2> QED
      BY <2>2, <2>3, <2>5
  <1>4. CASE Refund(m)
    <2>1. /\ creditNotes' = creditNotes /\ paid' = paid /\ refunds' = refunds \cup {m}
          /\ failures' = failures /\ unnoticed' = unnoticed
          /\ eligibleAuthor' = eligibleAuthor /\ pc[m] = "refund" /\ pc'[m] = "done"
      BY <1>0, <1>4 DEF Refund, history, Goto, LocalsOK
    <2>2. RestOK'
      BY <1>0, <2>1 DEF RestOK
    <2>3. CreditInv'
      BY <1>0, <1>1, <2>1 DEF CreditInv
    <2>4. paid /\ (creditNotes[m] > 0 \/ m \in unnoticed)
      BY <1>0, <2>1 DEF RefundInv
    <2>5. RefundIsCredited'
      BY <1>0, <2>1, <2>4 DEF RefundInv, RefundIsCredited
    <2>6. RefundInv'
      BY <1>0, <1>1, <2>1, <2>5 DEF RefundInv
    <2> QED
      BY <2>2, <2>3, <2>6
  <1> QED
    BY <1>2, <1>3, <1>4 DEF Crediting

LEMMA StoppingMoney ==
  ASSUME GeneralInv, NEW m \in Messages, Stopping(m)
  PROVE  RestOK' /\ CreditInv' /\ RefundInv'
  <1> USE DEF Keep, Leave, locals
  <1>0. /\ LocalsOK /\ RestOK /\ CreditInv /\ RefundInv /\ Notices \subseteq Messages
        /\ failures \in Nat /\ MaxFailures \in Nat /\ Nothing.paid = FALSE
    BY TypeParts, KindsOfMessages, MessageAssumption, NothingType DEF GeneralInv, RestOK
  <1>1. /\ \A n \in Messages \ {m} : pc'[n] = pc[n] /\ held'[n] = held[n]
        /\ pc'[m] # "refund" /\ (held'[m].paid => held[m].paid)
    BY <1>0 DEF Stopping, Fail, Swallow, Redeliver, Goto, LocalsOK
  <1>2. /\ creditNotes' = creditNotes /\ paid' = paid /\ refunds' = refunds
        /\ failures < MaxFailures /\ failures' = failures + 1
        /\ unnoticed' \in {unnoticed, unnoticed \cup {m}} /\ eligibleAuthor' = eligibleAuthor
    BY DEF Stopping, Fail, Swallow, Redeliver, Failing, world, history
  <1>3. RestOK'
    BY <1>0, <1>2 DEF RestOK
  <1>4. CreditInv'
    <2> SUFFICES ASSUME NEW n \in Notices
                 PROVE  creditNotes[n] <= failures'
      BY <1>2 DEF CreditInv
    <2>1. creditNotes[n] <= 1 + failures /\ creditNotes[n] \in Nat
      BY <1>0 DEF CreditInv, RestOK
    <2> QED
      BY <1>0, <1>2, <2>1
  <1>5. RefundIsCredited'
    BY <1>0, <1>2 DEF RefundInv, RefundIsCredited
  <1>6. RefundInv'
    BY <1>0, <1>1, <1>2, <1>5 DEF RefundInv
  <1> QED
    BY <1>3, <1>4, <1>6

LEMMA MoneyNext ==
  ASSUME GeneralInv, Next
  PROVE  RestOK' /\ CreditInv' /\ RefundInv'
  <1>0. RestOK /\ CreditInv /\ RefundInv
    BY TypeParts DEF GeneralInv
  <1>1. CASE Paying
    <2>1. /\ UNCHANGED <<creditNotes, refunds, pc, held, failures, unnoticed, eligibleAuthor>>
          /\ paid' = paid \/ paid' = TRUE
      BY <1>1 DEF Paying, ConfirmInvoice, PayInvoice, world, history
    <2> QED
      BY <1>0, <2>1 DEF RestOK, CreditInv, RefundInv, RefundIsCredited
  <1>2. ASSUME NEW m \in Messages, Silent(m)
        PROVE  RestOK' /\ CreditInv' /\ RefundInv'
    BY <1>2, SilentMoney
  <1>3. ASSUME NEW m \in Messages, Crediting(m) \/ Stopping(m)
        PROVE  RestOK' /\ CreditInv' /\ RefundInv'
    BY <1>3, CreditingMoney, StoppingMoney
  <1> QED
    BY <1>1, <1>2, <1>3, NextParts DEF Silent

-----------------------------------------------------------------------------
(* The invariant of every interleaving, and what it says.                     *)

LEMMA GeneralInit == Init => GeneralInv
  <1> SUFFICES ASSUME Init PROVE GeneralInv
    OBVIOUS
  <1>1. /\ stored = {} /\ failures = 0 /\ refunds = {}
        /\ \A m \in Messages : pc[m] = "idle" /\ row[m] = 0 /\ held[m] = Nothing
        /\ \A m \in Notices : creditNotes[m] = 0
    BY DEF Init, Notices
  <1>2. KindInv /\ RowInv /\ StoredInv
    BY <1>1 DEF KindInv, Fits, RowInv, StoredInv
  <1>3. CreditInv /\ RefundInv
    BY <1>1, NothingType DEF CreditInv, RefundInv, RefundIsCredited
  <1> QED
    BY <1>2, <1>3, TypeInit DEF GeneralInv

LEMMA GeneralNext == GeneralInv /\ [Next]_vars => GeneralInv'
  <1> SUFFICES ASSUME GeneralInv, [Next]_vars
               PROVE  GeneralInv'
    OBVIOUS
  <1>1. CASE Next
    BY <1>1, LocalsNext, RowsNext, MoneyNext, FitsNext, RowNext, StoredNext, TypeParts
    DEF GeneralInv
  <1>2. CASE UNCHANGED vars
    <2> USE <1>2 DEF vars, rows, world, locals, history, GeneralInv
    <2>1. TypeOK' /\ KindInv' /\ RowInv'
      BY DEF TypeOK, KindInv, RowInv
    <2>2. StoredInv' /\ CreditInv' /\ RefundInv'
      BY DEF StoredInv, CreditInv, RefundInv, RefundIsCredited
    <2> QED
      BY <2>1, <2>2
  <1> QED
    BY <1>1, <1>2

\* Rows, handlers and what they hold keep their types, for any messages and
\* whether or not their handlers overlap.
THEOREM TypeCorrect == Spec => []TypeOK
<1>1. GeneralInv => TypeOK
  BY DEF GeneralInv
<1> QED
  BY GeneralInit, GeneralNext, <1>1, PTL DEF Spec

\* A message inserts a second credit note only if it was delivered again, in
\* every interleaving of CreateCreditNote with the other handlers.
THEOREM CreditedOnceCorrect == Spec => []CreditedOncePerDelivery
<1>1. GeneralInv => CreditedOncePerDelivery
  <2> SUFFICES ASSUME GeneralInv, NEW m \in Notices
               PROVE  creditNotes[m] <= 1 + failures
    BY TypeParts DEF CreditedOncePerDelivery, GeneralInv, RestOK
  <2>1. creditNotes[m] \in Nat /\ failures \in Nat
    BY TypeParts, MessageAssumption DEF GeneralInv, RestOK
  <2> QED
    BY <2>1 DEF GeneralInv, CreditInv
<1> QED
  BY GeneralInit, GeneralNext, <1>1, PTL DEF Spec

\* The e-mail that asks for a refund has a payment and a credit note behind it,
\* unless the left of CreditNoteRepo.save was the one nobody looked at.
THEOREM RefundIsCreditedCorrect == Spec => []RefundIsCredited
<1>1. GeneralInv => RefundIsCredited
  BY DEF GeneralInv, RefundInv
<1> QED
  BY GeneralInit, GeneralNext, <1>1, PTL DEF Spec

-----------------------------------------------------------------------------
(* One handler at a time.                                                     *)

\* The handler that takes a step is the one in flight, and moves no other.
LEMMA OthersStay ==
  ASSUME GeneralInv, NEW m \in Messages, Silent(m) \/ Crediting(m) \/ Stopping(m)
  PROVE  \A n \in Messages \ {m} : pc'[n] = pc[n]
  <1>1. CASE Silent(m)
    BY <1>1, SilentSteps DEF SilentStep
  <1>2. CASE Crediting(m) \/ Stopping(m)
    <2>1. pc \in [Messages -> PcValues]
      BY TypeParts DEF GeneralInv, LocalsOK
    <2> QED
      BY <1>2, <2>1
      DEF Crediting, SaveCreditNote, LoseCreditNote, Refund, AfterCredit, Stopping, Fail,
          Swallow, Redeliver, Keep, Leave, Goto
  <1> QED
    BY <1>1, <1>2

LEMMA ActorInFlight ==
  ASSUME NEW m \in Messages, Silent(m) \/ Crediting(m) \/ Stopping(m)
  PROVE  Receives(m) \/ Redeliver(m) \/ InFlight(m)
  <1> USE DEF InFlight, Steps
  <1>1. CASE Reading(m)
    BY <1>1
    DEF Reading, FindManuscript, FindInvoice, FindTransaction, ReadToEdit, FindAuthor,
        LoadAccepted, PublishedInvoice, FindNoticedInvoice, FindPayments, Credit,
        ReadToDecide
  <1>2. CASE Deciding(m)
    BY <1>2 DEF Deciding, Created, Decide, Announce, AcceptedTransaction, AcceptedForFree
  <1>3. CASE RowByRow(m)
    BY <1>3 DEF RowByRow, SaveRow, LoseItem, DeleteRow, RestoreRow
  <1>4. CASE WritingManuscript(m)
    BY <1>4
    DEF WritingManuscript, CreateManuscript, EditManuscript, CompareAuthor,
        ResetEligibility, WriteAuthor, WriteEligible, WriteApproved, MarkAsPublished
  <1>5. CASE WritingInvoice(m) \/ Activating(m)
    BY <1>5
    DEF WritingInvoice, Finalize, DateOnly, DateAccepted, AutoConfirm, DatePublished,
        Activating, Activate, ActivateAccepted, ActivatePublished
  <1>6. CASE Crediting(m) \/ Stopping(m)
    BY <1>6
    DEF Crediting, SaveCreditNote, LoseCreditNote, Refund, Stopping, Fail, Swallow
  <1> QED
    BY <1>1, <1>2, <1>3, <1>4, <1>5, <1>6 DEF Silent

LEMMA OnlyActor ==
  ASSUME OneAtATime, GeneralInv, Alone, NEW m \in Messages,
         Silent(m) \/ Crediting(m) \/ Fail(m) \/ Swallow(m)
  PROVE  \A n \in Messages \ {m} : ~InFlight(n) /\ ~InFlight(n)' /\ pc'[n] = pc[n]
  <1>1. \A n \in Messages \ {m} : pc'[n] = pc[n]
    BY OthersStay DEF Stopping
  <1>2. \A n \in Messages \ {m} : ~InFlight(n)
    <2>1. CASE InFlight(m)
      BY <2>1 DEF Alone
    <2>2. CASE Receives(m)
      BY <2>2
      DEF Receives, ReceiveSubmission, ReceiveReturned, ReceiveNotice, ReceiveAcceptance,
          ReceivePublication, Receive
    <2>3. Redeliver(m) => ~Silent(m) /\ ~Crediting(m) /\ ~Fail(m) /\ ~Swallow(m)
      <3>1. Silent(m) => pc[m] # "done"
        BY SilentSteps DEF SilentStep
      <3>2. Crediting(m) \/ Fail(m) \/ Swallow(m) => pc[m] # "done"
        BY DEF Crediting, SaveCreditNote, LoseCreditNote, Refund, Fail, Swallow, InFlight, Steps
      <3> QED
        BY <3>1, <3>2 DEF Redeliver
    <2> QED
      BY <2>1, <2>2, <2>3, ActorInFlight DEF Stopping
  <1> QED
    BY <1>1, <1>2 DEF InFlight

LEMMA AloneNext ==
  ASSUME OneAtATime, GeneralInv, Alone, Next
  PROVE  Alone'
  <1>1. CASE Paying
    BY <1>1 DEF Paying, ConfirmInvoice, PayInvoice, Alone, InFlight
  <1>2. ASSUME NEW m \in Messages, Silent(m) \/ Crediting(m) \/ Fail(m) \/ Swallow(m)
        PROVE  Alone'
    BY <1>2, OnlyActor DEF Alone
  <1>3. ASSUME NEW m \in Messages, Redeliver(m)
        PROVE  Alone'
    <2>1. pc \in [Messages -> PcValues]
      BY TypeParts DEF GeneralInv, LocalsOK
    <2>2. ~InFlight(m)'
      BY <1>3, <2>1 DEF Redeliver, Goto, InFlight, Steps
    <2>3. \A n \in Messages \ {m} : pc'[n] = pc[n]
      BY <1>3, OthersStay DEF Stopping
    <2> QED
      BY <2>2, <2>3 DEF Alone, InFlight
  <1> QED
    BY <1>1, <1>2, <1>3, NextParts DEF Silent, Stopping

\* So a step keeps the invariant if it keeps the part of its own handler.
Mine(m) ==
  /\ pc[m] \in Loaded \cup {"payments"} /\ m \notin overlapped =>
       held[m].invoice.status = invoice.status
  /\ pc[m] \in Loaded /\ Credited => held[m].invoice.status = "FINAL"
  /\ pc[m] = "find transaction" /\ ~Restoring(m) => held[m].invoice.status = "DRAFT"
  /\ pc[m] = "deleting" => held[m].invoice.status = "DRAFT"
  /\ pc[m] = "save credit note" => invoice.status = "FINAL"
  /\ m \in Published /\ pc[m] \in {"publish date", "auto confirm"} => transaction = "ACTIVE"
  /\ m \in Withdrawn =>
       /\ pc[m] \in {"find manuscript", "find invoice", "find transaction"}
            /\ m \notin overlapped => invoice.status = "DRAFT"
       /\ pc[m] = "deleting" => {RowOrder[k] : k \in 1..row[m]} \subseteq deleted

LEMMA MineOfAll ==
  ASSUME SequentialInv, NEW m \in Messages
  PROVE  Mine(m) /\ CreditedIsFinal
BY DEF SequentialInv, HeldInv, FinalInv, PublishedInv, WithdrawnInv, Mine

LEMMA NotInFlight ==
  ASSUME NEW m \in Messages, ~InFlight(m)'
  PROVE  Mine(m)'
BY DEF Mine, InFlight, Steps, Loaded

LEMMA FromMine ==
  ASSUME GeneralInv', Alone', CreditedIsFinal', \A m \in Messages : Mine(m)'
  PROVE  SequentialInv'
BY KindsOfMessages
DEF SequentialInv, HeldInv, FinalInv, PublishedInv, WithdrawnInv, Mine

LEMMA CreditedMeansFinal ==
  /\ TypeOK => (CreditedIsFinal <=> (Credited => invoice.status = "FINAL"))
  /\ TypeOK' => (CreditedIsFinal' <=> (Credited' => invoice'.status = "FINAL"))
BY TypeParts DEF CreditedIsFinal, Credited, RestOK

\* Where a handler is that has nothing to say for itself.
Special == Loaded \cup {"payments", "save credit note", "auto confirm",
                        "find manuscript", "find invoice"}

LEMMA NothingSpecial ==
  ASSUME NEW m \in Messages, pc'[m] \notin Special
  PROVE  Mine(m)'
BY DEF Mine, Special, Loaded

LEMMA MineReceives ==
  ASSUME GeneralInv, NEW m \in Messages, Receives(m)
  PROVE  Mine(m)'
  <1> USE DEF Special, Loaded
  <1>0. pc \in [Messages -> PcValues]
    BY TypeParts DEF GeneralInv, LocalsOK
  <1>1. CASE ReceiveReturned(m)
    <2>1. pc'[m] = "find manuscript" /\ m \notin Withdrawn
      BY <1>0, <1>1, MessageAssumption DEF ReceiveReturned, Receive, Goto
    <2> QED
      BY <2>1 DEF Mine
  <1>2. CASE ReceiveSubmission(m)
    <2>1. pc'[m] \in {"find manuscript", "new", "done"} /\ m \notin Withdrawn
      BY <1>0, <1>2, MessageAssumption DEF ReceiveSubmission, Receive, Goto
    <2> QED
      BY <2>1 DEF Mine
  <1>3. CASE ReceiveNotice(m) \/ ReceiveAcceptance(m) \/ ReceivePublication(m)
    <2>1. pc'[m] \in {"notice", "idle", "done", "edit", "publish"}
      BY <1>0, <1>3 DEF ReceiveNotice, ReceiveAcceptance, ReceivePublication, Receive, Goto
    <2> QED
      BY <2>1, NothingSpecial
  <1> QED
    BY <1>1, <1>2, <1>3 DEF Receives

LEMMA MineReading ==
  ASSUME GeneralInv, GeneralInv', NEW m \in Messages, Mine(m), CreditedIsFinal, Reading(m)
  PROVE  Mine(m)'
  <1> USE DEF Steps, PcValues
  <1>0. /\ LocalsOK /\ manuscript \in Manuscript /\ invoice \in Invoice
        /\ transaction \in Transaction /\ paid \in BOOLEAN
        /\ UNCHANGED <<invoice, transaction, deleted>> /\ Credited' = Credited
        /\ (Credited => invoice.status = "FINAL")
    BY TypeParts, ReadsOnly, CreditedMeansFinal
    DEF GeneralInv, RowsOK, RestOK, Reads, rows, world, Credited
  <1>1. ASSUME NEW step, Goto(m, step)
        PROVE  pc'[m] = step
    BY <1>0, <1>1 DEF Goto, LocalsOK
  <1>2. ASSUME NEW how \in {"done", "idle"}, Leave(m, how)
        PROVE  Mine(m)'
    BY <1>0, <1>1, <1>2, NothingSpecial DEF Leave, Special, Loaded
  <1>3. CASE FindManuscript(m)
    <2>1. CASE {"articles", "invoice_items"} \subseteq stored
      <3>1. pc'[m] = "find invoice" /\ overlapped' = overlapped /\ pc[m] = "find manuscript"
        BY <1>0, <1>1, <1>3, <2>1, HoldManuscript DEF FindManuscript
      <3> QED
        BY <1>0, <3>1 DEF Mine, Loaded
    <2>2. CASE ~({"articles", "invoice_items"} \subseteq stored)
      BY <1>2, <1>3, <2>2 DEF FindManuscript, AfterLeft
    <2> QED
      BY <2>1, <2>2
  <1>4. CASE FindInvoice(m)
    <2>1. CASE ~Restoring(m) /\ invoice.status # "DRAFT"
      BY <1>2, <1>4, <2>1 DEF FindInvoice
    <2>2. CASE ~(~Restoring(m) /\ invoice.status # "DRAFT")
      <3>1. /\ pc'[m] = "find transaction" /\ overlapped' = overlapped
            /\ pc[m] = "find invoice" /\ held'[m].invoice = invoice
        BY <1>0, <1>1, <1>4, <2>2, HoldInvoice DEF FindInvoice
      <3> QED
        BY <1>0, <2>2, <3>1 DEF Mine, Loaded
    <2> QED
      BY <2>1, <2>2
  <1>5. CASE FindTransaction(m)
    <2>1. ASSUME Goto(m, IF Restoring(m) THEN "restoring" ELSE "deleting"),
                 Hold(m, "transaction", transaction)
          PROVE  Mine(m)'
      <3>1. /\ pc'[m] = (IF Restoring(m) THEN "restoring" ELSE "deleting")
            /\ overlapped' = overlapped /\ row' = row
            /\ held'[m].invoice = held[m].invoice
        BY <1>0, <1>1, <2>1, HoldTransaction
      <3>2. row'[m] = 0 /\ pc[m] = "find transaction"
        BY <1>5, <3>1 DEF FindTransaction, GeneralInv, RowInv
      <3>3. {RowOrder[k] : k \in 1..row'[m]} \subseteq deleted'
        <4>1. 1..0 = {}
          OBVIOUS
        <4>2. row'[m] = 0
          BY <3>2
        <4> QED
          BY <4>1, <4>2
      <3>4. pc'[m] \in {"restoring", "deleting"} /\ (pc'[m] = "deleting" => ~Restoring(m))
        BY <3>1
      <3> QED
        BY <1>0, <3>1, <3>2, <3>3, <3>4 DEF Mine, Loaded
    <2> QED
      BY <1>2, <1>5, <2>1 DEF FindTransaction, AfterLeft
  <1>6. CASE ReadToEdit(m) \/ FindAuthor(m) \/ ReadToDecide(m)
    <2>1. pc'[m] \in {"write manuscript", "write author", "decided"}
      BY <1>1, <1>6 DEF ReadToEdit, FindAuthor, ReadToDecide
    <2> QED
      BY <2>1, NothingSpecial DEF Special, Loaded
  <1>7. CASE FindNoticedInvoice(m) \/ LoadAccepted(m) \/ PublishedInvoice(m)
    <2>1. ASSUME NEW step \in {"payments", "accept active", "publish transaction"},
                 Goto(m, step), Hold(m, "invoice", invoice)
          PROVE  Mine(m)'
      <3>1. pc'[m] = step /\ overlapped' = overlapped /\ held'[m].invoice = invoice
        BY <1>0, <1>1, <2>1, HoldInvoice
      <3> QED
        BY <1>0, <2>1, <3>1 DEF Mine, Loaded
    <2> QED
      BY <1>2, <1>7, <2>1 DEF FindNoticedInvoice, LoadAccepted, PublishedInvoice
  <1>8. CASE Credit(m)
    <2>1. Goto(m, "finalize") => Mine(m)'
      BY <1>1, NothingSpecial DEF Special, Loaded
    <2> QED
      BY <1>2, <1>8, <2>1 DEF Credit
  <1>9. CASE FindPayments(m)
    <2>1. /\ pc'[m] = (IF m \in Eligibility THEN "write eligible"
                       ELSE IF held[m].invoice.status # "DRAFT" THEN "credit"
                       ELSE "find manuscript")
          /\ overlapped' = overlapped /\ pc[m] = "payments"
      BY <1>0, <1>1, <1>9, HoldPaid DEF FindPayments
    <2>2. CASE pc'[m] \in {"write eligible", "credit"}
      BY <2>2, NothingSpecial DEF Special, Loaded
    <2>3. CASE pc'[m] = "find manuscript" /\ held[m].invoice.status = "DRAFT"
      BY <1>0, <2>1, <2>3 DEF Mine, Loaded
    <2> QED
      BY <2>1, <2>2, <2>3
  <1> QED
    BY <1>3, <1>4, <1>5, <1>6, <1>7, <1>8, <1>9 DEF Reading

LEMMA MineDeciding ==
  ASSUME GeneralInv, NEW m \in Messages, Mine(m), Deciding(m)
  PROVE  Mine(m)'
  <1> USE DEF Keep, Leave, Special, Loaded
  <1>0. pc \in [Messages -> PcValues] /\ Fits(m, pc[m])
    BY TypeParts DEF GeneralInv, LocalsOK, KindInv
  <1>1. CASE Decide(m)
    <2>1. pc'[m] \in {"activate", "find manuscript", "done", "idle"} /\ m \notin Withdrawn
      <3>1. m \in Eligibility
        BY <1>0, <1>1 DEF Decide, Fits
      <3> QED
        BY <1>0, <1>1, <3>1, MessageAssumption DEF Decide, Goto
    <2> QED
      BY <2>1 DEF Mine
  <1>2. CASE AcceptedForFree(m)
    <2>1. pc'[m] = "auto confirm" /\ m \notin Published
      BY <1>0, <1>2, MessageAssumption DEF AcceptedForFree, Goto
    <2> QED
      BY <2>1 DEF Mine
  <1>3. CASE Created(m) \/ Announce(m) \/ AcceptedTransaction(m)
    <2>1. pc'[m] \in {"done", "idle", "date", "load accepted"}
      BY <1>0, <1>3 DEF Created, Announce, AcceptedTransaction, Goto
    <2> QED
      BY <2>1, NothingSpecial
  <1> QED
    BY <1>1, <1>2, <1>3 DEF Deciding

\* A row of an invoice that is written back has the status it had, and a
\* credited invoice stays FINAL.
LEMMA MineRowByRow ==
  ASSUME GeneralInv, GeneralInv', NEW m \in Messages, Mine(m), CreditedIsFinal, RowByRow(m)
  PROVE  /\ Mine(m)' /\ CreditedIsFinal'
         /\ m \notin overlapped => invoice'.status = invoice.status
  <1>0. /\ pc \in [Messages -> PcValues] /\ row \in [Messages -> 0..3]
        /\ (Credited => invoice.status = "FINAL")
        /\ (CreditedIsFinal' <=> (Credited' => invoice'.status = "FINAL"))
    BY TypeParts, CreditedMeansFinal DEF GeneralInv, LocalsOK
  <1>a. Credited' = Credited
    BY SilentSteps DEF Silent, SilentStep, world, Credited
  <1>1. CASE SaveRow(m) \/ LoseItem(m)
    <2>1. pc'[m] \in {"creating", "created"} /\ invoice' = invoice
      BY <1>0, <1>1 DEF SaveRow, LoseItem, Goto, rows
    <2> QED
      BY <1>0, <1>a, <2>1, NothingSpecial DEF Special, Loaded
  <1>2. CASE DeleteRow(m) \/ RestoreRow(m)
    <2>1. /\ invoice' = invoice \/ invoice' = held[m].invoice
          /\ pc[m] \in {"deleting", "restoring"}
      BY <1>2 DEF DeleteRow, RestoreRow, WriteBack
    <2>2. Credited' => invoice'.status = "FINAL"
      BY <1>0, <1>a, <2>1 DEF Mine, Loaded
    <2>3. m \notin overlapped => invoice'.status = invoice.status
      BY <2>1 DEF Mine, Loaded
    <2>4. CASE row[m] < 3
      <3>1. /\ pc' = pc /\ held' = held /\ overlapped' = overlapped
            /\ row'[m] = row[m] + 1 /\ row[m] \in 0..2
        BY <1>0, <1>2, <2>4 DEF DeleteRow, RestoreRow, NextRow
      <3>2. ASSUME pc[m] = "deleting", m \in Withdrawn
            PROVE  {RowOrder[k] : k \in 1..row'[m]} \subseteq deleted'
        <4>1. deleted' = deleted \cup {RowOrder[row[m] + 1]}
          BY <1>2, <3>2 DEF DeleteRow, RestoreRow
        <4>2. {RowOrder[k] : k \in 1..row[m]} \subseteq deleted
          BY <3>2 DEF Mine
        <4>3. 1..row'[m] = (1..row[m]) \cup {row[m] + 1}
          BY <3>1
        <4> QED
          BY <4>1, <4>2, <4>3
      <3> QED
        BY <1>0, <1>a, <2>1, <2>2, <2>3, <3>1, <3>2 DEF Mine, Loaded
    <2>5. CASE ~(row[m] < 3)
      <3>1. pc'[m] \in {"done", "edit"}
        BY <1>0, <1>2, <2>5 DEF DeleteRow, RestoreRow, NextRow, Leave, Goto
      <3> QED
        BY <1>0, <2>2, <2>3, <3>1, NothingSpecial DEF Special, Loaded
    <2> QED
      BY <2>4, <2>5
  <1> QED
    BY <1>1, <1>2 DEF RowByRow

LEMMA MineWritingManuscript ==
  ASSUME GeneralInv, GeneralInv', NEW m \in Messages, CreditedIsFinal, WritingManuscript(m)
  PROVE  /\ Mine(m)' /\ CreditedIsFinal' /\ invoice' = invoice /\ deleted' = deleted
  <1> USE DEF Keep, Leave
  <1>0. pc \in [Messages -> PcValues]
    BY TypeParts DEF GeneralInv, LocalsOK
  <1>1. UNCHANGED <<invoice, deleted>>
    BY DEF WritingManuscript, CreateManuscript, EditManuscript, CompareAuthor,
           ResetEligibility, WriteAuthor, WriteEligible, WriteApproved, MarkAsPublished
  <1>2. pc'[m] \in {"idle", "creating", "same author?", "accepted", "done",
                    "reset eligibility", "find author", "write approved", "credit",
                    "decide", "published"}
    BY <1>0
    DEF WritingManuscript, CreateManuscript, EditManuscript, CompareAuthor,
        ResetEligibility, WriteAuthor, WriteEligible, WriteApproved, MarkAsPublished, Goto
  <1>3. CreditedIsFinal'
    BY <1>1, SilentSteps DEF Silent, SilentStep, world, CreditedIsFinal
  <1> QED
    BY <1>1, <1>2, <1>3, NothingSpecial DEF Special, Loaded

LEMMA MineWritingInvoice ==
  ASSUME GeneralInv, GeneralInv', NEW m \in Messages, Mine(m), CreditedIsFinal,
         WritingInvoice(m)
  PROVE  /\ Mine(m)' /\ CreditedIsFinal' /\ deleted' = deleted
         /\ Confirmed /\ m \notin overlapped => Confirmed'
  <1> USE DEF Keep, Leave, Loaded
  <1>0. /\ pc \in [Messages -> PcValues] /\ invoice \in Invoice /\ held[m].invoice \in Invoice
        /\ (Credited => invoice.status = "FINAL")
        /\ (CreditedIsFinal' <=> (Credited' => invoice'.status = "FINAL"))
    BY TypeParts, HeldType, CreditedMeansFinal DEF GeneralInv, LocalsOK, RowsOK
  <1>a. Credited' = Credited
    BY SilentSteps DEF Silent, SilentStep, world, Credited
  <1>1. CASE Finalize(m)
    <2>1. pc'[m] = "save credit note" /\ invoice'.status = "FINAL" /\ deleted' = deleted
      BY <1>0, <1>1, InvoiceEdits DEF Finalize, Goto
    <2> QED
      BY <1>0, <2>1 DEF Mine, Confirmed
  <1>2. CASE DateOnly(m)
    <2>1. pc'[m] = "done" /\ invoice'.status = invoice.status /\ deleted' = deleted
      BY <1>0, <1>2, InvoiceEdits DEF DateOnly, Goto
    <2> QED
      BY <1>0, <1>a, <2>1, NothingSpecial DEF Special, Confirmed
  <1>3. CASE DateAccepted(m)
    <2>1. /\ pc'[m] = "announce" /\ invoice'.status = held[m].invoice.status
          /\ deleted' = deleted /\ pc[m] = "accept date"
      BY <1>0, <1>3, InvoiceEdits DEF DateAccepted, Goto
    <2>2. Mine(m)'
      BY <2>1, NothingSpecial DEF Special
    <2> QED
      BY <1>0, <1>a, <2>1, <2>2 DEF Mine, Confirmed
  <1>4. CASE AutoConfirm(m)
    <2>1. pc'[m] \in {"done", "idle"} /\ deleted' = deleted
      BY <1>0, <1>4 DEF AutoConfirm, Goto
    <2>2. invoice' = invoice \/ invoice.status = "DRAFT"
      BY <1>4 DEF AutoConfirm, Confirmable
    <2> QED
      BY <1>0, <1>a, <2>1, <2>2, NothingSpecial DEF Special, Confirmed
  <1>5. CASE DatePublished(m)
    <2>1. /\ pc'[m] \in {"auto confirm", "done"} /\ deleted' = deleted
          /\ transaction' = transaction /\ pc[m] = "publish date" /\ m \in Published
          /\ invoice'.status \in {invoice.status, held[m].invoice.status}
      <3>1. m \in Published
        BY <1>5 DEF DatePublished, GeneralInv, KindInv, Fits
      <3> QED
        BY <1>0, <1>5, <3>1, InvoiceEdits DEF DatePublished, Goto
    <2>2. transaction = "ACTIVE"
      BY <2>1 DEF Mine
    <2>3. Mine(m)'
      BY <2>1, <2>2, MessageAssumption DEF Mine
    <2> QED
      BY <1>0, <1>a, <2>1, <2>3 DEF Mine, Confirmed
  <1> QED
    BY <1>1, <1>2, <1>3, <1>4, <1>5 DEF WritingInvoice

LEMMA MineActivating ==
  ASSUME GeneralInv, GeneralInv', NEW m \in Messages, Mine(m), CreditedIsFinal,
         Activating(m)
  PROVE  /\ Mine(m)' /\ CreditedIsFinal' /\ invoice' = invoice /\ deleted' = deleted
  <1> USE DEF Keep, Leave, Loaded
  <1>0. pc \in [Messages -> PcValues]
    BY TypeParts DEF GeneralInv, LocalsOK
  <1>1. UNCHANGED <<invoice, deleted>>
    BY DEF Activating, Activate, ActivateAccepted, ActivatePublished
  <1>2. UNCHANGED creditNotes
    BY SilentSteps DEF Silent, SilentStep, world
  <1>3. CreditedIsFinal'
    BY <1>1, <1>2 DEF CreditedIsFinal
  <1>4. CASE ActivateAccepted(m)
    <2>1. pc[m] = "accept active" /\ pc'[m] = "accept date" /\ UNCHANGED <<held, overlapped>>
      BY <1>0, <1>4 DEF ActivateAccepted, Goto, locals
    <2> QED
      BY <1>1, <1>2, <1>3, <2>1 DEF Mine, Credited
  <1>5. CASE ActivatePublished(m) /\ pc'[m] # "done"
    <2>1. /\ pc[m] = "publish transaction" /\ pc'[m] = "publish date"
          /\ UNCHANGED <<held, overlapped>> /\ transaction' = "ACTIVE"
      BY <1>0, <1>5 DEF ActivatePublished, Goto, locals
    <2> QED
      BY <1>1, <1>2, <1>3, <2>1 DEF Mine, Credited
  <1>6. CASE Activate(m) \/ pc'[m] = "done"
    <2>1. pc'[m] \in {"announce", "idle", "done"}
      BY <1>0, <1>6 DEF Activate, Goto
    <2> QED
      BY <1>1, <1>3, <2>1, NothingSpecial DEF Special
  <1> QED
    BY <1>4, <1>5, <1>6 DEF Activating

LEMMA MineCrediting ==
  ASSUME GeneralInv, GeneralInv', NEW m \in Messages, Mine(m), CreditedIsFinal,
         Crediting(m)
  PROVE  /\ Mine(m)' /\ CreditedIsFinal' /\ invoice' = invoice /\ deleted' = deleted
  <1>0. /\ pc \in [Messages -> PcValues]
        /\ (Credited => invoice.status = "FINAL")
        /\ (CreditedIsFinal' <=> (Credited' => invoice'.status = "FINAL"))
    BY TypeParts, CreditedMeansFinal DEF GeneralInv, LocalsOK
  <1>1. UNCHANGED <<invoice, deleted>>
    BY DEF Crediting, SaveCreditNote, LoseCreditNote, Refund, rows
  <1>2. pc'[m] \in {"refund", "done"}
    BY <1>0
    DEF Crediting, SaveCreditNote, LoseCreditNote, Refund, AfterCredit, Keep, Leave, Goto
  <1>3. creditNotes' = creditNotes \/ pc[m] = "save credit note"
    BY DEF Crediting, SaveCreditNote, LoseCreditNote, Refund, world
  <1>4. CreditedIsFinal'
    BY <1>0, <1>1, <1>3 DEF Mine, Credited
  <1> QED
    BY <1>1, <1>2, <1>4, NothingSpecial DEF Special, Loaded

LEMMA MineStopping ==
  ASSUME GeneralInv, NEW m \in Messages, CreditedIsFinal, Stopping(m)
  PROVE  /\ Mine(m)' /\ CreditedIsFinal' /\ invoice' = invoice /\ deleted' = deleted
  <1>0. pc \in [Messages -> PcValues]
    BY TypeParts DEF GeneralInv, LocalsOK
  <1>1. UNCHANGED <<invoice, deleted, creditNotes>>
    BY DEF Stopping, Fail, Swallow, Redeliver, rows, world
  <1>2. pc'[m] \in {"again", "done", "published", "idle"}
    BY <1>0 DEF Stopping, Fail, Swallow, Redeliver, Keep, Leave, Goto
  <1> QED
    BY <1>1, <1>2, NothingSpecial DEF Special, Loaded, CreditedIsFinal

\* The payer: what was loaded before is out of date now, and known to be.
LEMMA MinePaying ==
  ASSUME GeneralInv, GeneralInv', NEW m \in Messages, Mine(m), CreditedIsFinal, Paying
  PROVE  /\ Mine(m)' /\ CreditedIsFinal' /\ deleted' = deleted
         /\ Confirmed => Confirmed'
  <1>0. /\ invoice \in Invoice /\ (Credited => invoice.status = "FINAL")
        /\ (CreditedIsFinal' <=> (Credited' => invoice'.status = "FINAL"))
    BY TypeParts, CreditedMeansFinal DEF GeneralInv, RowsOK
  <1>1. /\ UNCHANGED <<pc, held, row, deleted, transaction, creditNotes>>
        /\ overlapped' = {n \in Messages : InFlight(n)}
        /\ \/ invoice.status = "DRAFT"
           \/ invoice.status = "ACTIVE" /\ invoice'.status = "FINAL"
    BY <1>0, InvoiceEdits DEF Paying, ConfirmInvoice, PayInvoice, Acted, Confirmable, world
  <1>2. pc[m] \in Special => m \in overlapped'
    BY <1>1 DEF Special, Loaded, InFlight, Steps
  <1>3. CreditedIsFinal'
    BY <1>0, <1>1 DEF Credited
  <1>4. Credited' = Credited /\ ~Credited
    BY <1>0, <1>1 DEF Credited
  <1>5. pc[m] \notin {"save credit note"}
    BY <1>0, <1>1 DEF Mine
  <1>6. Mine(m)'
    <2>1. CASE pc[m] \notin Special
      BY <1>1, <2>1, NothingSpecial
    <2>2. CASE pc[m] \in Special
      <3>1. /\ pc'[m] = pc[m] /\ held'[m] = held[m] /\ row'[m] = row[m]
            /\ deleted' = deleted /\ transaction' = transaction /\ m \in overlapped'
        BY <1>1, <1>2, <2>2
      <3> QED
        BY <1>4, <1>5, <3>1 DEF Mine
    <2> QED
      BY <2>1, <2>2
  <1> QED
    BY <1>0, <1>1, <1>3, <1>6 DEF Confirmed

LEMMA SequentialInit == Init => SequentialInv
  <1> SUFFICES ASSUME Init PROVE SequentialInv
    OBVIOUS
  <1>1. \A m \in Messages : pc[m] = "idle"
    BY DEF Init
  <1>2. /\ GeneralInv /\ \A m \in DOMAIN creditNotes : creditNotes[m] = 0
    BY GeneralInit DEF Init
  <1>3. Alone /\ HeldInv
    BY <1>1 DEF Alone, InFlight, Steps, HeldInv, Loaded
  <1>4. FinalInv
    <2>1. \A m \in DOMAIN creditNotes : ~(creditNotes[m] > 0)
      BY <1>2
    <2> QED
      BY <1>1, <2>1 DEF FinalInv, CreditedIsFinal
  <1>5. PublishedInv /\ WithdrawnInv
    BY <1>1, KindsOfMessages DEF PublishedInv, WithdrawnInv, Messages
  <1> QED
    BY <1>2, <1>3, <1>4, <1>5 DEF SequentialInv

\* A step of a handler, with what it leaves behind.
LEMMA ActorKeeps ==
  ASSUME SequentialInv, GeneralInv', NEW m \in Messages,
         Silent(m) \/ Crediting(m) \/ Stopping(m)
  PROVE  Mine(m)' /\ CreditedIsFinal'
  <1>0. Mine(m) /\ CreditedIsFinal /\ GeneralInv
    BY MineOfAll DEF SequentialInv
  <1>1. CASE Receives(m)
    <2>1. UNCHANGED <<invoice, creditNotes>>
      BY <1>1, ReadsOnly DEF Reads, rows, world
    <2> QED
      BY <1>0, <1>1, <2>1, MineReceives DEF CreditedIsFinal
  <1>2. CASE Reading(m) \/ Deciding(m)
    <2>1. UNCHANGED <<invoice, creditNotes>>
      BY <1>2, ReadsOnly DEF Reads, rows, world
    <2> QED
      BY <1>0, <1>2, <2>1, MineReading, MineDeciding DEF CreditedIsFinal
  <1>3. CASE RowByRow(m) \/ WritingManuscript(m) \/ WritingInvoice(m)
    BY <1>0, <1>3, MineRowByRow, MineWritingManuscript, MineWritingInvoice
  <1>4. CASE Activating(m) \/ Crediting(m) \/ Stopping(m)
    BY <1>0, <1>4, MineActivating, MineCrediting, MineStopping
  <1> QED
    BY <1>1, <1>2, <1>3, <1>4 DEF Silent

LEMMA SequentialNext ==
  ASSUME OneAtATime
  PROVE  SequentialInv /\ [Next]_vars => SequentialInv'
  <1> SUFFICES ASSUME SequentialInv, [Next]_vars
               PROVE  SequentialInv'
    OBVIOUS
  <1>0. GeneralInv /\ GeneralInv' /\ Alone
    BY GeneralNext DEF SequentialInv
  <1>1. CASE UNCHANGED vars
    <2> USE <1>1 DEF vars, rows, world, locals, history
    <2>1. Alone'
      BY <1>0 DEF Alone, InFlight
    <2>2. CreditedIsFinal' /\ \A m \in Messages : Mine(m)'
      BY MineOfAll DEF Mine, Credited, CreditedIsFinal, SequentialInv, FinalInv
    <2> QED
      BY <1>0, <2>1, <2>2, FromMine
  <1>2. CASE Paying
    <2>1. Next => Alone'
      BY <1>0, AloneNext
    <2>2. Next
      BY <1>2 DEF Next, Paying
    <2>3. CreditedIsFinal' /\ \A m \in Messages : Mine(m)'
      <3>1. \A m \in Messages : Mine(m)'
        BY <1>0, <1>2, MineOfAll, MinePaying
      <3>2. CreditedIsFinal'
        <4>1. CASE \E m \in Messages : TRUE
          BY <1>0, <1>2, <4>1, MineOfAll, MinePaying
        <4>2. CASE Messages = {}
          BY <1>0, <4>2, TypeParts, KindsOfMessages DEF GeneralInv, RestOK, CreditedIsFinal
        <4> QED
          BY <4>1, <4>2
      <3> QED
        BY <3>1, <3>2
    <2> QED
      BY <1>0, <2>1, <2>2, <2>3, FromMine
  <1>3. ASSUME OneAtATime, NEW m \in Messages, Silent(m) \/ Crediting(m) \/ Stopping(m), Next
        PROVE  SequentialInv'
    <2>1. Mine(m)' /\ CreditedIsFinal'
      BY <1>0, <1>3, ActorKeeps
    <2>2. Alone'
      BY <1>0, <1>3, AloneNext
    <2>3. CASE Redeliver(m)
      <3>1. \A n \in Messages \ {m} : pc'[n] = pc[n]
        BY <1>0, <1>3, OthersStay
      <3>2. UNCHANGED <<rows, world, locals>>
        BY <2>3 DEF Redeliver
      <3>3. \A n \in Messages \ {m} : Mine(n)'
        BY <3>1, <3>2, MineOfAll DEF Mine, rows, world, locals, Credited
      <3> QED
        BY <1>0, <2>1, <2>2, <3>3, FromMine
    <2>4. CASE ~Redeliver(m)
      <3>1. \A n \in Messages \ {m} : Mine(n)'
        BY <1>0, <1>3, <2>4, OnlyActor, NotInFlight DEF Stopping
      <3> QED
        BY <1>0, <2>1, <2>2, <3>1, FromMine
    <2> QED
      BY <2>3, <2>4
  <1> QED
    BY <1>1, <1>2, <1>3, NextParts DEF Silent

\* An invoice with a credit note stays FINAL: no whole-row write of an older
\* object, by any handler, the payer or a redelivery, brings another status back.
THEOREM CreditedIsFinalCorrect ==
  ASSUME OneAtATime
  PROVE  Spec => []CreditedIsFinal
<1>1. SequentialInv => CreditedIsFinal
  BY DEF SequentialInv, FinalInv
<1>2. SequentialInv /\ [Next]_vars => SequentialInv'
  BY SequentialNext
<1> QED
  BY SequentialInit, <1>1, <1>2, PTL DEF Spec

\* A confirmed invoice, issued or PENDING, becomes no draft again and is not
\* deleted, unless the payer acted while a handler held the invoice it had loaded before.
THEOREM ConfirmedIsKeptCorrect ==
  ASSUME OneAtATime
  PROVE  Spec => ConfirmedIsKept
<1>1. SequentialInv /\ SequentialInv' /\ [Next]_vars =>
        [overlapped = {} /\ Confirmed => Confirmed' /\ deleted' \subseteq deleted]_vars
  <2> SUFFICES ASSUME SequentialInv, SequentialInv', Next, overlapped = {}, Confirmed
               PROVE  Confirmed' /\ deleted' \subseteq deleted
    OBVIOUS
  <2>0. GeneralInv /\ GeneralInv' /\ CreditedIsFinal /\ \A m \in Messages : Mine(m)
    BY MineOfAll DEF SequentialInv, FinalInv
  <2>1. CASE Paying
    <3>1. invoice \in Invoice
      BY <2>0, TypeParts DEF GeneralInv, RowsOK
    <3> QED
      BY <2>1, <3>1, InvoiceEdits DEF Paying, ConfirmInvoice, PayInvoice, Confirmable, Confirmed
  <2>2. ASSUME NEW m \in Messages, Receives(m) \/ Reading(m) \/ Deciding(m)
        PROVE  Confirmed' /\ deleted' \subseteq deleted
    BY <2>2, ReadsOnly DEF Reads, rows, Confirmed
  <2>3. ASSUME NEW m \in Messages, RowByRow(m)
        PROVE  Confirmed' /\ deleted' \subseteq deleted
    <3>1. Confirmed'
      BY <2>0, <2>3, MineRowByRow DEF Confirmed
    <3>2. ~DeleteRow(m)
      BY <2>0 DEF DeleteRow, Mine, Loaded, Confirmed
    <3>3. deleted' \subseteq deleted
      BY <2>3, <3>2 DEF RowByRow, SaveRow, LoseItem, RestoreRow, rows
    <3> QED
      BY <3>1, <3>3
  <2>4. ASSUME NEW m \in Messages, WritingManuscript(m) \/ WritingInvoice(m)
        PROVE  Confirmed' /\ deleted' \subseteq deleted
    BY <2>0, <2>4, MineWritingManuscript, MineWritingInvoice DEF Confirmed
  <2>5. ASSUME NEW m \in Messages, Activating(m) \/ Crediting(m) \/ Stopping(m)
        PROVE  Confirmed' /\ deleted' \subseteq deleted
    BY <2>0, <2>5, MineActivating, MineCrediting, MineStopping DEF Confirmed
  <2> QED
    BY <2>1, <2>2, <2>3, <2>4, <2>5, NextParts
<1>2. SequentialInv /\ [Next]_vars => SequentialInv'
  BY SequentialNext
<1> QED
  BY SequentialInit, <1>1, <1>2, PTL DEF Spec, ConfirmedIsKept

LEMMA StepOfOne ==
  ASSUME GeneralInv, NEW m \in Messages, Next, pc'[m] # pc[m]
  PROVE  Silent(m) \/ Crediting(m) \/ Stopping(m)
  <1>1. ~Paying
    BY DEF Paying, ConfirmInvoice, PayInvoice
  <1>2. ASSUME NEW n \in Messages, Silent(n) \/ Crediting(n) \/ Stopping(n)
        PROVE  n = m
    BY <1>2, OthersStay
  <1> QED
    BY <1>1, <1>2, NextParts DEF Silent

\* A publication that runs to its end leaves the invoice confirmed, issued or
\* PENDING for a sanctioned country, whatever the payer did in between.
THEOREM PublicationConfirmsCorrect ==
  ASSUME OneAtATime
  PROVE  Spec => PublicationConfirms
<1>1. SequentialInv /\ [Next]_vars =>
        [\A m \in Published :
           pc[m] = "auto confirm" /\ pc'[m] = "done" /\ m \notin unnoticed' => Confirmed']_vars
  <2> SUFFICES ASSUME SequentialInv, Next, NEW m \in Published,
                      pc[m] = "auto confirm", pc'[m] = "done", m \notin unnoticed'
               PROVE  Confirmed'
    OBVIOUS
  <2>0. GeneralInv /\ transaction = "ACTIVE" /\ invoice \in Invoice /\ m \in Messages
    BY TypeParts, KindsOfMessages DEF SequentialInv, GeneralInv, RowsOK, PublishedInv
  <2>1. Silent(m) \/ Crediting(m) \/ Stopping(m)
    BY <2>0, StepOfOne
  <2>2. AutoConfirm(m)
    <3>1. ~Stopping(m)
      BY <2>0, MessageAssumption DEF Stopping, Fail, Swallow, Redeliver, Leave, Goto, GeneralInv, TypeOK
    <3>2. ~Crediting(m)
      BY DEF Crediting, SaveCreditNote, LoseCreditNote, Refund
    <3>3. ~Receives(m) /\ ~Reading(m) /\ ~Deciding(m)
      BY DEF Receives, ReceiveSubmission, ReceiveReturned, ReceiveNotice, ReceiveAcceptance,
             ReceivePublication, Receive, Reading, FindManuscript, FindInvoice,
             FindTransaction, ReadToEdit, FindAuthor, LoadAccepted, PublishedInvoice,
             FindNoticedInvoice, FindPayments, Credit, ReadToDecide, Deciding, Created,
             Decide, Announce, AcceptedTransaction, AcceptedForFree
    <3>4. ~RowByRow(m) /\ ~WritingManuscript(m) /\ ~Activating(m)
      BY DEF RowByRow, SaveRow, LoseItem, DeleteRow, RestoreRow, WritingManuscript,
             CreateManuscript, EditManuscript, CompareAuthor, ResetEligibility, WriteAuthor,
             WriteEligible, WriteApproved, MarkAsPublished, Activating, Activate,
             ActivateAccepted, ActivatePublished
    <3> QED
      BY <2>1, <3>1, <3>2, <3>3, <3>4
      DEF Silent, WritingInvoice, Finalize, DateOnly, DateAccepted, DatePublished
  <2>3. CASE Confirmable
    <3>1. PICK s \in ConfirmedAs \cup {"FINAL"} : invoice' = [invoice EXCEPT !.status = s]
      BY <2>2, <2>3 DEF AutoConfirm
    <3>2. s \in {"ACTIVE", "PENDING", "FINAL"}
      BY <3>1, MessageAssumption
    <3> QED
      BY <2>0, <3>1, <3>2, InvoiceEdits DEF Confirmed
  <2>4. CASE ~Confirmable
    <3>1. invoice' = invoice /\ invoice.status # "DRAFT"
      BY <2>0, <2>2, <2>4 DEF AutoConfirm, Confirmable
    <3> QED
      BY <2>0, <3>1 DEF Confirmed, Invoice
  <2> QED
    BY <2>3, <2>4
<1>2. SequentialInv /\ [Next]_vars => SequentialInv'
  BY SequentialNext
<1> QED
  BY SequentialInit, <1>1, <1>2, PTL DEF Spec, PublicationConfirms

\* A withdrawal that ends has credited the invoice or deleted the draft, unless
\* the article was accepted and not yet confirmed, or the payer was faster.
THEOREM WithdrawnIsClosedCorrect ==
  ASSUME OneAtATime
  PROVE  Spec => WithdrawnIsClosed
<1>1. SequentialInv /\ SequentialInv' /\ [Next]_vars =>
        [\A m \in Withdrawn :
           InFlight(m) /\ pc'[m] = "done" =>
             \/ creditNotes'[m] > 0 \/ m \in unnoticed'
             \/ deleted' = stored'
             \/ transaction = "ACTIVE" /\ ~Confirmed
             \/ m \in overlapped /\ Confirmed]_vars
  <2> SUFFICES ASSUME SequentialInv, SequentialInv', Next, NEW m \in Withdrawn,
                      InFlight(m), pc'[m] = "done"
               PROVE  \/ creditNotes'[m] > 0 \/ m \in unnoticed'
                      \/ deleted' = stored'
                      \/ transaction = "ACTIVE" /\ ~Confirmed
                      \/ m \in overlapped /\ Confirmed
    OBVIOUS
  <2> USE DEF Goto
  <2>0. /\ GeneralInv /\ GeneralInv' /\ Mine(m) /\ m \in Messages /\ m \in Notices
        /\ pc \in [Messages -> PcValues] /\ Fits(m, pc[m]) /\ invoice \in Invoice
    BY MineOfAll, TypeParts, KindsOfMessages
    DEF SequentialInv, GeneralInv, LocalsOK, RowsOK, KindInv
  <2>1. m \notin Submitted \cup Eligibility \cup Accepted \cup Published
    BY MessageAssumption
  <2>2. Silent(m) \/ Crediting(m) \/ Stopping(m)
    <3>1. pc'[m] # pc[m]
      BY DEF InFlight, Steps
    <3> QED
      BY <2>0, <3>1, StepOfOne
  <2>3. CASE Crediting(m)
    <3>1. CASE SaveCreditNote(m)
      <4>1. creditNotes' = [creditNotes EXCEPT ![m] = creditNotes[m] + 1]
        BY <3>1 DEF SaveCreditNote
      <4>2. creditNotes \in [Notices -> Nat]
        BY <2>0, TypeParts DEF GeneralInv, RestOK
      <4> QED
        BY <2>0, <4>1, <4>2
    <3>2. CASE LoseCreditNote(m)
      BY <3>2 DEF LoseCreditNote
    <3>3. CASE Refund(m)
      <4>1. pc[m] = "refund" /\ UNCHANGED <<creditNotes, unnoticed>>
        BY <3>3 DEF Refund, history
      <4>2. creditNotes[m] > 0 \/ m \in unnoticed
        BY <2>0, <4>1 DEF GeneralInv, RefundInv
      <4> QED
        BY <4>1, <4>2
    <3> QED
      BY <2>3, <3>1, <3>2, <3>3 DEF Crediting
  <2>4. CASE Stopping(m)
    BY <2>0, <2>1, <2>4
    DEF Stopping, Fail, Swallow, Redeliver, Keep, Leave, InFlight, Steps
  <2>5. CASE Receives(m)
    BY <2>5
    DEF Receives, ReceiveSubmission, ReceiveReturned, ReceiveNotice, ReceiveAcceptance,
        ReceivePublication, Receive, InFlight, Steps
  <2>6. CASE Reading(m)
    <3>1. ~Restoring(m) /\ AfterLeft(m) = "idle"
      BY <2>1 DEF Restoring, AfterLeft
    <3>2. CASE FindManuscript(m)
      BY <2>0, <3>1, <3>2 DEF FindManuscript, Leave
    <3>3. CASE FindInvoice(m)
      <4>1. pc[m] = "find invoice" /\ invoice.status # "DRAFT"
        BY <2>0, <3>1, <3>3 DEF FindInvoice
      <4> QED
        BY <2>0, <4>1 DEF Mine, Confirmed, Invoice
    <3>4. CASE FindTransaction(m)
      <4>1. pc[m] = "find transaction" /\ transaction = "ACTIVE"
        BY <2>0, <3>1, <3>4 DEF FindTransaction, Leave
      <4> QED
        BY <2>0, <4>1 DEF Mine, Confirmed
    <3>5. CASE ~(FindManuscript(m) \/ FindInvoice(m) \/ FindTransaction(m))
      <4>1. ~PublishedInvoice(m)
        BY <2>0, <2>1 DEF PublishedInvoice, Fits
      <4> QED
        BY <2>0, <2>6, <3>5, <4>1
        DEF Reading, ReadToEdit, FindAuthor, LoadAccepted, FindNoticedInvoice, FindPayments,
            Credit, ReadToDecide, Leave
    <3> QED
      BY <3>2, <3>3, <3>4, <3>5
  <2>7. CASE Deciding(m)
    BY <2>0, <2>1, <2>7
    DEF Deciding, Created, Decide, Announce, AcceptedTransaction, AcceptedForFree, Keep, Fits
  <2>8. CASE RowByRow(m)
    <3>1. ~SaveRow(m) /\ ~LoseItem(m) /\ ~RestoreRow(m)
      BY <2>0, <2>1 DEF SaveRow, LoseItem, RestoreRow, Fits
    <3>2. DeleteRow(m)
      BY <2>8, <3>1 DEF RowByRow
    <3>3. row[m] = 3
      <4>1. row[m] \in 0..3
        BY <2>0, TypeParts DEF GeneralInv, LocalsOK
      <4>2. ~(row[m] < 3)
        BY <2>0, <3>2 DEF DeleteRow, NextRow
      <4> QED
        BY <4>1, <4>2
    <3>4. {RowOrder[k] : k \in 1..3} \subseteq deleted
      BY <2>0, <3>2, <3>3 DEF DeleteRow, Mine
    <3>5. deleted' = deleted \cup {RowOrder[4]} /\ stored' = stored /\ stored = Tables
      <4>1. stored = Tables
        BY <2>0, <3>2 DEF DeleteRow, GeneralInv, StoredInv
      <4>2. stored' = stored /\ deleted' = deleted \cup {RowOrder[row[m] + 1]}
        BY <3>2 DEF DeleteRow, WriteBack
      <4> QED
        BY <3>3, <4>1, <4>2
    <3>6. {RowOrder[k] : k \in 1..3} \cup {RowOrder[4]} = Tables
      <4>1. 1..3 = {1, 2, 3}
        OBVIOUS
      <4>2. /\ RowOrder[1] = "transactions" /\ RowOrder[2] = "invoices"
            /\ RowOrder[3] = "invoice_items" /\ RowOrder[4] = "articles"
        BY DEF RowOrder
      <4> QED
        BY <4>1, <4>2 DEF Tables
    <3>7. deleted' \subseteq stored'
      BY <2>0, TypeParts DEF GeneralInv, RowsOK
    <3> QED
      BY <3>4, <3>5, <3>6, <3>7
  <2>9. CASE WritingManuscript(m) \/ WritingInvoice(m) \/ Activating(m)
    BY <2>0, <2>1, <2>9
    DEF WritingManuscript, CreateManuscript, EditManuscript, CompareAuthor, ResetEligibility,
        WriteAuthor, WriteEligible, WriteApproved, MarkAsPublished, WritingInvoice, Finalize,
        DateOnly, DateAccepted, AutoConfirm, DatePublished, Activating, Activate,
        ActivateAccepted, ActivatePublished, Keep, Leave, Fits
  <2> QED
    BY <2>2, <2>3, <2>4, <2>5, <2>6, <2>7, <2>8, <2>9 DEF Silent
<1>2. SequentialInv /\ [Next]_vars => SequentialInv'
  BY SequentialNext
<1> QED
  BY SequentialInit, <1>1, <1>2, PTL DEF Spec, WithdrawnIsClosed

-----------------------------------------------------------------------------
(* What a state at rest shows: the draft deleted as a whole or not at all, and *)
(* the eligibility of the author it was decided for.                           *)

\* The steps between the first read of the deletion, or of its undoing, and the
\* last of its four writes.
Removing == {"find manuscript", "find invoice", "find transaction", "deleting", "restoring"}

\* Such a message deletes or restores the draft at every delivery.
Undertakes(m) == \/ m \in Submitted \cup Returned \cup Withdrawn
                 \/ m \in Approved /\ invoice.accepted

\* Where it has not come to the end of that.
Pending == Removing \cup {"again", "notice", "payments", "write eligible",
                         "write approved", "decide", "decided"}

Owing(m) == Undertakes(m) /\ pc[m] \in Pending

\* Some of the rows are deleted and others not only while a message still owes
\* the rest.
TogetherInv ==
  transaction = "DRAFT" /\ unnoticed = {} =>
    deleted \in {{}, stored} \/ \E m \in Messages : Owing(m)

\* The steps with an eligibility that may not be the author's.
Unsettled == {"same author?", "reset eligibility"}

Justified == manuscript.taEligible =>
               \/ eligibleAuthor = manuscript.author
               \/ \E m \in Accepted : AuthorOf[m] = manuscript.author

AuthorInv ==
  failures = 0 =>
    Justified \/ \E m \in Messages : pc[m] \in Unsettled

\* Nothing is deleted before all is stored, and no invoice is confirmed whose
\* transaction is a draft.
TablesInv == /\ deleted # {} => stored = Tables
             /\ invoice.status # "DRAFT" => transaction = "ACTIVE"

\* What a handler holds is the row, as no other handler runs, but for the status
\* the payer changes.
FreshInv(m) ==
  /\ pc[m] \in {"find invoice", "find transaction", "deleting", "restoring",
                "write manuscript", "write author", "publish", "decided"} =>
       held[m].manuscript = manuscript
  /\ m \in Submitted /\ pc[m] \in Removing \cup {"edit", "write manuscript"} =>
       held[m].existing.author = manuscript.author
  /\ pc[m] \in Loaded \cup {"finalize"} => held[m].invoice.accepted = invoice.accepted
  /\ pc[m] \in Loaded \cup {"payments", "write eligible", "write approved"} =>
       held[m].invoice.status = "DRAFT" \/ transaction = "ACTIVE"
  /\ pc[m] \in {"deleting", "restoring"} => held[m].transaction = transaction

\* How the handler got to its step.
PathInv(m) ==
  /\ pc[m] \in Removing => Undertakes(m)
  /\ pc[m] = "same author?" /\ held[m].existing.author = AuthorOf[m] /\ failures = 0 => Justified
  /\ pc[m] \in {"find author", "write author"} => ~manuscript.taEligible
  /\ pc[m] = "finalize" => transaction = "ACTIVE"
  /\ pc[m] \in {"write approved", "decide", "decided"} /\ m \in Eligible => manuscript.taEligible
  /\ pc[m] \in {"decide", "decided"} => manuscript.taFundingApproved = (m \in Approved)
  /\ pc[m] = "deleting" => {RowOrder[k] : k \in 1..row[m]} \subseteq deleted
  /\ pc[m] = "restoring" => {RowOrder[k] : k \in 1..row[m]} \cap deleted = {}

RestInv == /\ TablesInv /\ TogetherInv /\ AuthorInv
           /\ \A m \in Messages : FreshInv(m) /\ PathInv(m)

\* What a handler reads replaces one of its objects, and no other.
LEMMA HeldObjects ==
  ASSUME LocalsOK, NEW m \in Messages, NEW x
  PROVE  /\ Hold(m, "existing", x) => held'[m].existing = x
         /\ Hold(m, "manuscript", x) =>
              held'[m].manuscript = x /\ held'[m].existing = held[m].existing
         /\ Hold(m, "invoice", x) =>
              /\ held'[m].invoice = x /\ held'[m].manuscript = held[m].manuscript
              /\ held'[m].existing = held[m].existing
         /\ Hold(m, "transaction", x) =>
              /\ held'[m].transaction = x /\ held'[m].manuscript = held[m].manuscript
              /\ held'[m].existing = held[m].existing /\ held'[m].invoice = held[m].invoice
         /\ Hold(m, "paid", x) => held'[m].invoice = held[m].invoice
BY DEF LocalsOK, Hold, Objects

\* Where a handler is that has nothing to remember.
Watched == Removing \cup Loaded \cup
           {"edit", "write manuscript", "same author?", "find author", "write author",
            "payments", "write eligible", "write approved", "decide", "decided",
            "finalize", "publish"}

LEMMA NotWatched ==
  ASSUME NEW m \in Messages, pc'[m] \notin Watched
  PROVE  FreshInv(m)' /\ PathInv(m)'
BY DEF FreshInv, PathInv, Watched, Removing, Loaded

LEMMA NoneWritten == {RowOrder[k] : k \in 1..0} = {}
  <1>1. 1..0 = {}
    OBVIOUS
  <1> QED
    BY <1>1

LEMMA OwnReceives ==
  ASSUME GeneralInv, NEW m \in Messages, Receives(m)
  PROVE  FreshInv(m)' /\ PathInv(m)'
  <1> USE DEF Watched, Removing, Loaded
  <1>0. LocalsOK /\ pc \in [Messages -> PcValues] /\ manuscript' = manuscript
    BY TypeParts, ReadsOnly DEF GeneralInv, LocalsOK, Reads, rows
  <1>1. CASE ReceiveSubmission(m)
    <2>1. CASE Receive(m, "find manuscript") /\ Hold(m, "existing", manuscript)
      <3>1. pc'[m] = "find manuscript" /\ held'[m].existing = manuscript /\ m \in Submitted
        BY <1>0, <1>1, <2>1, HeldObjects DEF ReceiveSubmission, Receive, Goto
      <3> QED
        BY <1>0, <3>1 DEF FreshInv, PathInv, Undertakes
    <2>2. CASE Receive(m, IF m \in Invoiceable THEN "new" ELSE "done")
      <3>1. pc'[m] \in {"new", "done"}
        BY <1>0, <2>2 DEF Receive, Goto
      <3> QED
        BY <3>1, NotWatched
    <2> QED
      BY <1>1, <2>1, <2>2 DEF ReceiveSubmission
  <1>2. CASE ReceiveReturned(m)
    <2>1. pc'[m] = "find manuscript" /\ m \in Returned /\ m \notin Submitted
      BY <1>0, <1>2, MessageAssumption DEF ReceiveReturned, Receive, Goto
    <2> QED
      BY <2>1 DEF FreshInv, PathInv, Undertakes
  <1>3. CASE ReceiveNotice(m)
    <2>1. pc'[m] \in {"notice", "idle"}
      BY <1>0, <1>3 DEF ReceiveNotice, Receive, Goto
    <2> QED
      BY <2>1, NotWatched
  <1>4. CASE ReceiveAcceptance(m)
    <2>1. pc'[m] \in {"done", "idle", "edit"} /\ m \notin Submitted
      BY <1>0, <1>4, MessageAssumption DEF ReceiveAcceptance, Receive, Goto
    <2> QED
      BY <2>1 DEF FreshInv, PathInv
  <1>5. CASE ReceivePublication(m)
    <2>1. CASE Receive(m, "publish") /\ Hold(m, "manuscript", manuscript)
      <3>1. pc'[m] = "publish" /\ held'[m].manuscript = manuscript
        BY <1>0, <2>1, HeldObjects DEF Receive, Goto
      <3> QED
        BY <1>0, <3>1 DEF FreshInv, PathInv
    <2>2. CASE Receive(m, "idle")
      <3>1. pc'[m] = "idle"
        BY <1>0, <2>2 DEF Receive, Goto
      <3> QED
        BY <3>1, NotWatched
    <2> QED
      BY <1>5, <2>1, <2>2 DEF ReceivePublication
  <1> QED
    BY <1>1, <1>2, <1>3, <1>4, <1>5 DEF Receives

LEMMA OwnReading ==
  ASSUME GeneralInv, TablesInv, NEW m \in Messages, FreshInv(m), PathInv(m), Reading(m)
  PROVE  FreshInv(m)' /\ PathInv(m)'
  <1> USE DEF Watched, Removing, Loaded
  <1>0. /\ LocalsOK /\ pc \in [Messages -> PcValues]
        /\ UNCHANGED <<stored, deleted, manuscript, invoice, transaction, failures>>
        /\ invoice.status = "DRAFT" \/ transaction = "ACTIVE"
        /\ Undertakes(m)' <=> Undertakes(m)
    BY TypeParts, ReadsOnly DEF GeneralInv, LocalsOK, Reads, rows, TablesInv, Undertakes
  <1>1. ASSUME NEW step, Goto(m, step)
        PROVE  pc'[m] = step
    BY <1>0, <1>1 DEF Goto
  <1>2. ASSUME NEW how \in {"done", "idle"}, Leave(m, how)
        PROVE  FreshInv(m)' /\ PathInv(m)'
    BY <1>1, <1>2, NotWatched DEF Leave
  <1>3. CASE FindManuscript(m)
    <2>1. CASE {"articles", "invoice_items"} \subseteq stored
      <3>1. /\ pc'[m] = "find invoice" /\ pc[m] = "find manuscript"
            /\ held'[m].manuscript = manuscript /\ held'[m].existing = held[m].existing
        BY <1>0, <1>1, <1>3, <2>1, HeldObjects DEF FindManuscript
      <3> QED
        BY <1>0, <3>1 DEF FreshInv, PathInv
    <2>2. CASE ~({"articles", "invoice_items"} \subseteq stored)
      BY <1>2, <1>3, <2>2 DEF FindManuscript, AfterLeft
    <2> QED
      BY <2>1, <2>2
  <1>4. CASE FindInvoice(m)
    <2>1. CASE ~Restoring(m) /\ invoice.status # "DRAFT"
      BY <1>2, <1>4, <2>1 DEF FindInvoice
    <2>2. CASE ~(~Restoring(m) /\ invoice.status # "DRAFT")
      <3>1. /\ pc'[m] = "find transaction" /\ pc[m] = "find invoice"
            /\ held'[m].invoice = invoice /\ held'[m].manuscript = held[m].manuscript
            /\ held'[m].existing = held[m].existing
        BY <1>0, <1>1, <1>4, <2>2, HeldObjects DEF FindInvoice
      <3> QED
        BY <1>0, <3>1 DEF FreshInv, PathInv
    <2> QED
      BY <2>1, <2>2
  <1>5. CASE FindTransaction(m)
    <2>1. ASSUME Goto(m, IF Restoring(m) THEN "restoring" ELSE "deleting"),
                 Hold(m, "transaction", transaction)
          PROVE  FreshInv(m)' /\ PathInv(m)'
      <3>1. /\ pc'[m] \in {"restoring", "deleting"} /\ pc[m] = "find transaction"
            /\ held'[m].transaction = transaction /\ row'[m] = row[m]
            /\ held'[m].invoice = held[m].invoice
            /\ held'[m].manuscript = held[m].manuscript
            /\ held'[m].existing = held[m].existing
        BY <1>0, <1>1, <1>5, <2>1, HeldObjects DEF FindTransaction, Hold
      <3>2. row'[m] = 0
        BY <3>1 DEF GeneralInv, RowInv
      <3>3. {RowOrder[k] : k \in 1..row'[m]} = {}
        BY <3>2, NoneWritten
      <3>4. FreshInv(m)'
        BY <1>0, <3>1 DEF FreshInv
      <3>5. PathInv(m)'
        BY <1>0, <3>1, <3>3 DEF PathInv
      <3> QED
        BY <3>4, <3>5
    <2> QED
      BY <1>2, <1>5, <2>1 DEF FindTransaction, AfterLeft
  <1>6. CASE ReadToEdit(m)
    <2>1. /\ pc'[m] = "write manuscript" /\ pc[m] = "edit"
          /\ held'[m].manuscript = manuscript /\ held'[m].existing = held[m].existing
      BY <1>0, <1>1, <1>6, HeldObjects DEF ReadToEdit
    <2> QED
      BY <1>0, <2>1 DEF FreshInv, PathInv
  <1>7. CASE FindAuthor(m)
    <2>1. /\ pc'[m] = "write author" /\ pc[m] = "find author"
          /\ held'[m].manuscript = manuscript
      BY <1>0, <1>1, <1>7, HeldObjects DEF FindAuthor
    <2> QED
      BY <1>0, <2>1 DEF FreshInv, PathInv
  <1>8. CASE ReadToDecide(m)
    <2>1. /\ pc'[m] = "decided" /\ pc[m] = "decide" /\ held'[m].manuscript = manuscript
      BY <1>0, <1>1, <1>8, HeldObjects DEF ReadToDecide
    <2> QED
      BY <1>0, <2>1 DEF FreshInv, PathInv
  <1>9. CASE FindNoticedInvoice(m) \/ LoadAccepted(m) \/ PublishedInvoice(m)
    <2>1. ASSUME NEW step \in {"payments", "accept active", "publish transaction"},
                 Goto(m, step), Hold(m, "invoice", invoice)
          PROVE  FreshInv(m)' /\ PathInv(m)'
      <3>1. pc'[m] = step /\ held'[m].invoice = invoice
        BY <1>0, <1>1, <2>1, HeldObjects
      <3> QED
        BY <1>0, <2>1, <3>1 DEF FreshInv, PathInv
    <2> QED
      BY <1>2, <1>9, <2>1 DEF FindNoticedInvoice, LoadAccepted, PublishedInvoice
  <1>10. CASE Credit(m)
    <2>1. CASE invoice.status = "DRAFT"
      BY <1>2, <1>10, <2>1 DEF Credit
    <2>2. CASE invoice.status # "DRAFT"
      <3>1. pc'[m] = "finalize" /\ held'[m].invoice = invoice
        BY <1>0, <1>1, <1>10, <2>2, HeldObjects DEF Credit
      <3> QED
        BY <1>0, <2>2, <3>1 DEF FreshInv, PathInv
    <2> QED
      BY <2>1, <2>2
  <1>11. CASE FindPayments(m)
    <2>1. /\ pc'[m] = (IF m \in Eligibility THEN "write eligible"
                       ELSE IF held[m].invoice.status # "DRAFT" THEN "credit"
                       ELSE "find manuscript")
          /\ held'[m].invoice = held[m].invoice /\ pc[m] = "payments"
      BY <1>0, <1>1, <1>11, HeldObjects DEF FindPayments
    <2>2. CASE pc'[m] = "write eligible"
      BY <1>0, <2>1, <2>2 DEF FreshInv, PathInv
    <2>3. CASE pc'[m] = "credit"
      BY <2>3, NotWatched
    <2>4. CASE pc'[m] = "find manuscript"
      <3>1. m \in Withdrawn /\ m \notin Submitted
        BY <2>1, <2>4, MessageAssumption DEF GeneralInv, KindInv, Fits, Notices
      <3> QED
        BY <2>4, <3>1 DEF FreshInv, PathInv, Undertakes
    <2> QED
      BY <2>1, <2>2, <2>3, <2>4
  <1> QED
    BY <1>3, <1>4, <1>5, <1>6, <1>7, <1>8, <1>9, <1>10, <1>11 DEF Reading

LEMMA OwnDeciding ==
  ASSUME GeneralInv, NEW m \in Messages, FreshInv(m), PathInv(m), Deciding(m)
  PROVE  FreshInv(m)' /\ PathInv(m)'
  <1> USE DEF Keep, Leave, Watched, Removing, Loaded
  <1>0. pc \in [Messages -> PcValues] /\ Fits(m, pc[m]) /\ invoice' = invoice
    BY TypeParts, ReadsOnly DEF GeneralInv, LocalsOK, KindInv, Reads, rows
  <1>1. CASE Decide(m)
    <2>1. /\ pc[m] = "decided" /\ m \in Eligibility
          /\ pc'[m] \in {"activate", "find manuscript", "done", "idle"}
          /\ pc'[m] = "find manuscript" =>
               Decision(held[m].manuscript, invoice.status, invoice.accepted) = "Delete"
      BY <1>0, <1>1 DEF Decide, Fits, Goto
    <2>2. CASE pc'[m] # "find manuscript"
      BY <2>1, <2>2, NotWatched
    <2>3. CASE pc'[m] = "find manuscript"
      <3>1. invoice.accepted /\ held[m].manuscript.taFundingApproved
        BY <2>1, <2>3 DEF Decision
      <3>2. m \in Approved
        BY <2>1, <3>1 DEF FreshInv, PathInv
      <3>3. m \notin Submitted
        BY <2>1, MessageAssumption
      <3> QED
        BY <1>0, <2>3, <3>1, <3>2, <3>3 DEF FreshInv, PathInv, Undertakes
    <2> QED
      BY <2>2, <2>3
  <1>2. CASE Created(m) \/ Announce(m) \/ AcceptedTransaction(m) \/ AcceptedForFree(m)
    <2>1. pc'[m] \in {"done", "idle", "date", "load accepted", "auto confirm"}
      BY <1>0, <1>2 DEF Created, Announce, AcceptedTransaction, AcceptedForFree, Goto
    <2> QED
      BY <2>1, NotWatched
  <1> QED
    BY <1>1, <1>2 DEF Deciding

\* No step takes back an activation or an acceptance.
Lasting == /\ transaction = "ACTIVE" => transaction' = "ACTIVE"
           /\ invoice.accepted => invoice'.accepted

LEMMA OwnRowByRow ==
  ASSUME GeneralInv, GeneralInv', TablesInv, NEW m \in Messages, FreshInv(m), PathInv(m),
         RowByRow(m)
  PROVE  FreshInv(m)' /\ PathInv(m)' /\ TablesInv' /\ Lasting
  <1>0. /\ pc \in [Messages -> PcValues] /\ row \in [Messages -> 0..3]
        /\ stored' \subseteq Tables /\ RowsOK
    BY TypeParts DEF GeneralInv, LocalsOK, RowsOK
  <1>1. CASE SaveRow(m) \/ LoseItem(m)
    <2>1. /\ pc'[m] \in {"creating", "created"} /\ stored \subseteq stored'
          /\ UNCHANGED <<invoice, transaction, deleted>>
      BY <1>0, <1>1 DEF SaveRow, LoseItem, Goto, rows
    <2>2. TablesInv' /\ Lasting
      BY <1>0, <2>1 DEF TablesInv, Lasting
    <2> QED
      BY <2>1, <2>2, NotWatched DEF Watched, Removing, Loaded
  <1>2. CASE DeleteRow(m) \/ RestoreRow(m)
    <2>0. pc[m] \in {"deleting", "restoring"} /\ stored' = stored /\ failures' = failures
      BY <1>2 DEF DeleteRow, RestoreRow, WriteBack, Writes
    <2>1. /\ invoice' \in {invoice, held[m].invoice}
          /\ transaction' = transaction /\ manuscript' = manuscript
      <3>1. /\ invoice' \in {invoice, held[m].invoice}
            /\ transaction' \in {transaction, held[m].transaction}
            /\ manuscript' \in {manuscript, held[m].manuscript}
        BY <1>2 DEF DeleteRow, RestoreRow, WriteBack
      <3>2. held[m].transaction = transaction /\ held[m].manuscript = manuscript
        BY <2>0 DEF FreshInv
      <3> QED
        BY <3>1, <3>2
    <2>2. /\ invoice'.accepted = invoice.accepted
          /\ invoice'.status = "DRAFT" \/ transaction = "ACTIVE"
      BY <2>0, <2>1 DEF FreshInv, Loaded, TablesInv
    <2>3. TablesInv' /\ Lasting
      <3>1. stored = Tables
        BY <2>0 DEF GeneralInv, StoredInv
      <3> QED
        BY <2>0, <2>1, <2>2, <3>1 DEF TablesInv, Lasting
    <2>4. Undertakes(m)'
      BY <2>0, <2>2 DEF PathInv, Removing, Undertakes
    <2>5. CASE row[m] < 3
      <3>1. /\ pc' = pc /\ held' = held
            /\ row'[m] = row[m] + 1 /\ row[m] \in 0..2
        BY <1>0, <1>2, <2>5 DEF DeleteRow, RestoreRow, NextRow
      <3>2. FreshInv(m)'
        BY <2>0, <2>1, <2>2, <3>1 DEF FreshInv, Loaded, Removing
      <3>3. {RowOrder[k] : k \in 1..row'[m]} =
              {RowOrder[k] : k \in 1..row[m]} \cup {RowOrder[row[m] + 1]}
        <4>1. 1..row'[m] = (1..row[m]) \cup {row[m] + 1}
          BY <3>1
        <4> QED
          BY <4>1
      <3>4. pc[m] = "deleting" => {RowOrder[k] : k \in 1..row'[m]} \subseteq deleted'
        <4> SUFFICES ASSUME pc[m] = "deleting"
                     PROVE  {RowOrder[k] : k \in 1..row'[m]} \subseteq deleted'
          OBVIOUS
        <4>1. deleted' = deleted \cup {RowOrder[row[m] + 1]}
          BY <1>2 DEF DeleteRow, RestoreRow
        <4>2. {RowOrder[k] : k \in 1..row[m]} \subseteq deleted
          BY DEF PathInv
        <4> QED
          BY <3>3, <4>1, <4>2
      <3>5. pc[m] = "restoring" => {RowOrder[k] : k \in 1..row'[m]} \cap deleted' = {}
        <4> SUFFICES ASSUME pc[m] = "restoring"
                     PROVE  {RowOrder[k] : k \in 1..row'[m]} \cap deleted' = {}
          OBVIOUS
        <4>1. deleted' = deleted \ {RowOrder[row[m] + 1]}
          BY <1>2 DEF DeleteRow, RestoreRow
        <4>2. {RowOrder[k] : k \in 1..row[m]} \cap deleted = {}
          BY DEF PathInv
        <4> QED
          BY <3>3, <4>1, <4>2
      <3>6. PathInv(m)'
        BY <2>0, <2>4, <3>1, <3>4, <3>5 DEF PathInv
      <3> QED
        BY <2>3, <3>2, <3>6
    <2>6. CASE ~(row[m] < 3)
      <3>1. CASE DeleteRow(m)
        <4>1. pc'[m] = "done"
          BY <1>0, <2>6, <3>1 DEF DeleteRow, NextRow, Leave, Goto
        <4> QED
          BY <2>3, <4>1, NotWatched DEF Watched, Removing, Loaded
      <3>2. CASE RestoreRow(m)
        <4>1. pc'[m] = "edit" /\ held' = held
          BY <1>0, <2>6, <3>2 DEF RestoreRow, NextRow, Goto
        <4>2. FreshInv(m)'
          BY <2>0, <2>1, <4>1 DEF FreshInv, Loaded, Removing
        <4>3. PathInv(m)'
          BY <4>1 DEF PathInv, Removing
        <4> QED
          BY <2>3, <4>2, <4>3
      <3> QED
        BY <1>2, <3>1, <3>2
    <2> QED
      BY <2>5, <2>6
  <1> QED
    BY <1>1, <1>2 DEF RowByRow

LEMMA OwnWritingManuscript ==
  ASSUME GeneralInv, GeneralInv', TablesInv, AuthorInv, Alone, NEW m \in Messages,
         FreshInv(m), PathInv(m), WritingManuscript(m)
  PROVE  FreshInv(m)' /\ PathInv(m)' /\ TablesInv' /\ Lasting
  <1> USE DEF Keep, locals
  <1>0. /\ pc \in [Messages -> PcValues] /\ stored' \subseteq Tables
        /\ manuscript \in Manuscript /\ held[m].manuscript \in Manuscript
    BY TypeParts, HeldType DEF GeneralInv, LocalsOK, RowsOK
  <1>1. TablesInv' /\ Lasting
    <2>1. /\ UNCHANGED <<invoice, deleted, transaction>> /\ stored \subseteq stored'
      BY DEF WritingManuscript, CreateManuscript, EditManuscript, CompareAuthor,
             ResetEligibility, WriteAuthor, WriteEligible, WriteApproved, MarkAsPublished
    <2> QED
      BY <1>0, <2>1 DEF TablesInv, Lasting
  <1>2. CASE EditManuscript(m)
    <2>1. /\ pc[m] = "write manuscript" /\ held' = held
          /\ manuscript' = [held[m].manuscript EXCEPT !.author = AuthorOf[m]]
          /\ pc'[m] \in {"same author?", "accepted"}
          /\ pc'[m] = "same author?" => m \in Submitted
          /\ UNCHANGED <<failures, eligibleAuthor>>
      BY <1>0, <1>2 DEF EditManuscript, Goto, Writes, history
    <2>2. CASE pc'[m] = "accepted"
      BY <1>1, <2>2, NotWatched DEF Watched, Removing, Loaded
    <2>3. CASE pc'[m] = "same author?"
      <3>1. /\ held[m].manuscript = manuscript
            /\ held[m].existing.author = manuscript.author
        BY <2>1, <2>3 DEF FreshInv
      <3>2. held[m].existing.author = AuthorOf[m] /\ failures = 0 => Justified'
        <4> SUFFICES ASSUME held[m].existing.author = AuthorOf[m], failures = 0
                     PROVE  Justified'
          OBVIOUS
        <4>1. manuscript' = manuscript
          BY <1>0, <2>1, <3>1 DEF Manuscript
        <4>2. Justified
          <5>1. InFlight(m) /\ pc[m] \notin Unsettled
            BY <2>1 DEF InFlight, Steps, Unsettled
          <5>2. \A n \in Messages : pc[n] \in Unsettled => InFlight(n)
            BY DEF Unsettled, InFlight, Steps
          <5>3. ~\E n \in Messages : pc[n] \in Unsettled
            BY <5>1, <5>2 DEF Alone
          <5> QED
            BY <5>3 DEF AuthorInv
        <4> QED
          BY <2>1, <4>1, <4>2 DEF Justified
      <3>3. PathInv(m)'
        BY <2>1, <2>3, <3>2 DEF PathInv, Removing
      <3>4. FreshInv(m)'
        BY <2>3 DEF FreshInv, Removing, Loaded
      <3> QED
        BY <1>1, <3>3, <3>4
    <2> QED
      BY <2>1, <2>2, <2>3
  <1>3. CASE ResetEligibility(m)
    <2>1. pc'[m] = "find author" /\ ~manuscript'.taEligible
      BY <1>0, <1>3 DEF ResetEligibility, Goto, Manuscript
    <2> QED
      BY <1>1, <2>1 DEF FreshInv, PathInv, Removing, Loaded
  <1>4. CASE WriteEligible(m)
    <2>1. /\ pc[m] = "write eligible" /\ pc'[m] = "write approved" /\ held' = held
          /\ manuscript'.taEligible = (m \in Eligible)
          /\ UNCHANGED <<invoice, transaction>>
      BY <1>0, <1>4 DEF WriteEligible, Goto, Manuscript
    <2> QED
      BY <1>1, <2>1 DEF FreshInv, PathInv, Removing, Loaded
  <1>5. CASE WriteApproved(m)
    <2>1. /\ pc[m] = "write approved" /\ pc'[m] \in {"credit", "decide"}
          /\ manuscript'.taFundingApproved = (m \in Approved)
          /\ manuscript'.taEligible = manuscript.taEligible
      BY <1>0, <1>5 DEF WriteApproved, Goto, Manuscript
    <2>2. CASE pc'[m] = "credit"
      BY <1>1, <2>2, NotWatched DEF Watched, Removing, Loaded
    <2>3. CASE pc'[m] = "decide"
      BY <1>1, <2>1, <2>3 DEF FreshInv, PathInv, Removing, Loaded
    <2> QED
      BY <2>1, <2>2, <2>3
  <1>6. CASE CreateManuscript(m) \/ CompareAuthor(m) \/ WriteAuthor(m) \/ MarkAsPublished(m)
    <2>1. pc'[m] \in {"idle", "creating", "done", "reset eligibility", "published"}
      BY <1>0, <1>6
      DEF CreateManuscript, CompareAuthor, WriteAuthor, MarkAsPublished, Goto, Leave
    <2> QED
      BY <1>1, <2>1, NotWatched DEF Watched, Removing, Loaded
  <1> QED
    BY <1>2, <1>3, <1>4, <1>5, <1>6 DEF WritingManuscript

LEMMA OwnWritingInvoice ==
  ASSUME GeneralInv, GeneralInv', TablesInv, NEW m \in Messages, FreshInv(m), PathInv(m),
         WritingInvoice(m)
  PROVE  FreshInv(m)' /\ PathInv(m)' /\ TablesInv' /\ Lasting
  <1> USE DEF Keep
  <1>0. /\ pc \in [Messages -> PcValues] /\ invoice \in Invoice /\ held[m].invoice \in Invoice
        /\ UNCHANGED <<stored, deleted, transaction>>
    BY TypeParts, HeldType
    DEF GeneralInv, LocalsOK, RowsOK, WritingInvoice, Finalize, DateOnly, DateAccepted,
        AutoConfirm, DatePublished
  <1>1. pc'[m] \in {"save credit note", "done", "announce", "idle", "auto confirm"}
    BY <1>0
    DEF WritingInvoice, Finalize, DateOnly, DateAccepted, AutoConfirm, DatePublished, Goto,
        Leave
  <1>2. \/ invoice'.status = "DRAFT"
        \/ transaction = "ACTIVE"
    <2>1. CASE Finalize(m)
      BY <2>1 DEF Finalize, PathInv
    <2>2. CASE DateOnly(m)
      BY <1>0, <2>2, InvoiceEdits DEF DateOnly, TablesInv
    <2>3. CASE DateAccepted(m) \/ DatePublished(m)
      <3>1. held[m].invoice.status = "DRAFT" \/ transaction = "ACTIVE"
        BY <2>3 DEF DateAccepted, DatePublished, FreshInv, Loaded
      <3>2. [held[m].invoice EXCEPT !.accepted = TRUE].status = held[m].invoice.status
        BY <1>0 DEF Invoice
      <3>3. invoice' \in {invoice, [held[m].invoice EXCEPT !.accepted = TRUE]}
        BY <2>3 DEF DateAccepted, DatePublished
      <3> QED
        BY <3>1, <3>2, <3>3 DEF TablesInv
    <2>4. CASE AutoConfirm(m)
      BY <1>0, <2>4 DEF AutoConfirm, Confirmable, TablesInv
    <2> QED
      BY <2>1, <2>2, <2>3, <2>4 DEF WritingInvoice
  <1>3. invoice.accepted => invoice'.accepted
    <2>1. \A x \in Invoice : \A s \in {"DRAFT", "ACTIVE", "PENDING", "FINAL"} :
            /\ [x EXCEPT !.status = s].accepted = x.accepted
            /\ [x EXCEPT !.accepted = TRUE].accepted
      BY DEF Invoice
    <2>2. CASE Finalize(m)
      BY <1>0, <2>1, <2>2 DEF Finalize, FreshInv
    <2>3. CASE DateOnly(m) \/ DateAccepted(m) \/ DatePublished(m)
      BY <1>0, <2>1, <2>3 DEF DateOnly, DateAccepted, DatePublished
    <2>4. CASE AutoConfirm(m)
      <3>1. \/ invoice' = invoice
            \/ \E s \in ConfirmedAs \cup {"FINAL"} : invoice' = [invoice EXCEPT !.status = s]
        BY <2>4 DEF AutoConfirm
      <3>2. ConfirmedAs \cup {"FINAL"} \subseteq {"DRAFT", "ACTIVE", "PENDING", "FINAL"}
        BY MessageAssumption
      <3>3. ASSUME NEW s \in {"DRAFT", "ACTIVE", "PENDING", "FINAL"},
                   invoice' = [invoice EXCEPT !.status = s]
            PROVE  invoice'.accepted = invoice.accepted
        BY <1>0, <3>3 DEF Invoice
      <3> QED
        BY <3>1, <3>2, <3>3
    <2> QED
      BY <2>2, <2>3, <2>4 DEF WritingInvoice
  <1>4. TablesInv' /\ Lasting
    BY <1>0, <1>2, <1>3 DEF TablesInv, Lasting
  <1> QED
    BY <1>1, <1>4, NotWatched DEF Watched, Removing, Loaded

LEMMA OwnActivating ==
  ASSUME GeneralInv, TablesInv, NEW m \in Messages, FreshInv(m), PathInv(m), Activating(m)
  PROVE  FreshInv(m)' /\ PathInv(m)' /\ TablesInv' /\ Lasting
  <1> USE DEF Keep, locals
  <1>0. /\ pc \in [Messages -> PcValues]
        /\ UNCHANGED <<stored, deleted, invoice>>
        /\ transaction' = "ACTIVE" \/ transaction' = transaction
    BY TypeParts
    DEF GeneralInv, LocalsOK, Activating, Activate, ActivateAccepted, ActivatePublished
  <1>1. TablesInv' /\ Lasting
    BY <1>0 DEF TablesInv, Lasting
  <1>2. ASSUME NEW step \in {"accept date", "publish date"}, pc'[m] = step,
               pc[m] \in {"accept active", "publish transaction"}, held' = held,
               transaction' = "ACTIVE"
        PROVE  FreshInv(m)' /\ PathInv(m)'
    BY <1>0, <1>2 DEF FreshInv, PathInv, Removing, Loaded
  <1>3. CASE ActivateAccepted(m)
    <2>1. pc'[m] = "accept date"
      BY <1>0, <1>3 DEF ActivateAccepted, Goto
    <2> QED
      BY <1>1, <1>2, <1>3, <2>1 DEF ActivateAccepted
  <1>4. CASE ActivatePublished(m)
    <2>1. CASE "transactions" \in stored
      <3>1. pc'[m] = "publish date"
        BY <1>0, <1>4, <2>1 DEF ActivatePublished, Goto
      <3> QED
        BY <1>1, <1>2, <1>4, <2>1, <3>1 DEF ActivatePublished
    <2>2. CASE "transactions" \notin stored
      <3>1. pc'[m] = "done"
        BY <1>0, <1>4, <2>2 DEF ActivatePublished, Leave, Goto
      <3> QED
        BY <1>1, <3>1, NotWatched DEF Watched, Removing, Loaded
    <2> QED
      BY <2>1, <2>2
  <1>5. CASE Activate(m)
    <2>1. pc'[m] \in {"announce", "idle"}
      BY <1>0, <1>5 DEF Activate, Goto, Leave
    <2> QED
      BY <1>1, <2>1, NotWatched DEF Watched, Removing, Loaded
  <1> QED
    BY <1>3, <1>4, <1>5 DEF Activating

LEMMA OwnCreditingStopping ==
  ASSUME GeneralInv, TablesInv, NEW m \in Messages, Crediting(m) \/ Stopping(m)
  PROVE  FreshInv(m)' /\ PathInv(m)' /\ TablesInv' /\ Lasting
  <1>0. pc \in [Messages -> PcValues]
    BY TypeParts DEF GeneralInv, LocalsOK
  <1>1. UNCHANGED rows
    BY DEF Crediting, SaveCreditNote, LoseCreditNote, Refund, Stopping, Fail, Swallow,
           Redeliver
  <1>2. TablesInv' /\ Lasting
    BY <1>1 DEF TablesInv, Lasting, rows
  <1>3. pc'[m] \in {"refund", "done", "again", "published", "idle"}
    BY <1>0
    DEF Crediting, SaveCreditNote, LoseCreditNote, Refund, AfterCredit, Stopping, Fail,
        Swallow, Redeliver, Keep, Leave, Goto
  <1> QED
    BY <1>2, <1>3, NotWatched DEF Watched, Removing, Loaded

\* The payer changes only the status, of an invoice whose transaction is active.
LEMMA OwnPaying ==
  ASSUME GeneralInv, RestInv, Paying
  PROVE  RestInv'
  <1>0. invoice \in Invoice /\ TablesInv /\ TogetherInv /\ AuthorInv
    BY TypeParts DEF GeneralInv, RowsOK, RestInv
  <1>1. /\ UNCHANGED <<stored, deleted, manuscript, transaction, pc, held, row, failures,
                       unnoticed, eligibleAuthor>>
        /\ \E s \in ConfirmedAs \cup {"FINAL"} : invoice' = [invoice EXCEPT !.status = s]
        /\ transaction = "ACTIVE"
    BY <1>0, MessageAssumption
    DEF Paying, ConfirmInvoice, PayInvoice, Confirmable, history, TablesInv
  <1>2. invoice'.accepted = invoice.accepted
    BY <1>0, <1>1 DEF Invoice
  <1>3. TablesInv' /\ TogetherInv'
    BY <1>0, <1>1 DEF TablesInv, TogetherInv
  <1>4. AuthorInv' /\ (Justified' <=> Justified)
    <2>1. Justified' <=> Justified
      BY <1>1 DEF Justified
    <2> QED
      BY <1>0, <1>1, <2>1 DEF AuthorInv
  <1>5. ASSUME NEW m \in Messages
        PROVE  FreshInv(m)' /\ PathInv(m)'
    <2>1. FreshInv(m) /\ PathInv(m)
      BY DEF RestInv
    <2>2. FreshInv(m)'
      BY <1>1, <1>2, <2>1 DEF FreshInv
    <2>3. PathInv(m)'
      BY <1>1, <1>2, <1>4, <2>1 DEF PathInv, Undertakes
    <2> QED
      BY <2>2, <2>3
  <1> QED
    BY <1>3, <1>4, <1>5 DEF RestInv

\* A message that owes a deletion, or its undoing, comes back to it at every
\* delivery while the transaction is a draft.
LEMMA Onward ==
  ASSUME GeneralInv, TablesInv, NEW m \in Messages, FreshInv(m), PathInv(m), Owing(m),
         stored = Tables, transaction = "DRAFT", unnoticed' = {},
         Silent(m) \/ Crediting(m) \/ Stopping(m), ~DeleteRow(m), ~RestoreRow(m)
  PROVE  pc'[m] \in Pending
  <1> USE DEF Pending, Removing, Keep
  <1>0. /\ pc \in [Messages -> PcValues] /\ Fits(m, pc[m]) /\ pc[m] \in Pending
        /\ {"articles", "invoice_items", "transactions"} \subseteq stored
        /\ invoice.status = "DRAFT"
        /\ m \notin Accepted \cup Published
        /\ m \in Eligibility => m \in Approved /\ m \in Eligible /\ invoice.accepted
    <2>1. pc \in [Messages -> PcValues] /\ Fits(m, pc[m])
      BY TypeParts DEF GeneralInv, LocalsOK, KindInv
    <2>2. invoice.status = "DRAFT"
      BY DEF TablesInv
    <2>3. /\ m \notin Accepted \cup Published
          /\ m \in Eligibility => m \in Approved /\ m \in Eligible /\ invoice.accepted
      BY MessageAssumption DEF Owing, Undertakes
    <2> QED
      BY <2>1, <2>2, <2>3 DEF Owing, Tables
  <1>1. ASSUME NEW step, Goto(m, step)
        PROVE  pc'[m] = step
    BY <1>0, <1>1 DEF Goto
  <1>2. CASE Receives(m)
    <2>1. ReceiveSubmission(m) \/ ReceiveReturned(m) \/ ReceiveNotice(m)
      BY <1>0, <1>2 DEF Receives, ReceiveAcceptance, ReceivePublication
    <2>2. CASE ReceiveSubmission(m)
      BY <1>0, <1>1, <2>2 DEF ReceiveSubmission, Receive
    <2>3. CASE ReceiveReturned(m)
      BY <1>1, <2>3 DEF ReceiveReturned, Receive
    <2>4. CASE ReceiveNotice(m)
      BY <1>0, <1>1, <2>4 DEF ReceiveNotice, Receive
    <2> QED
      BY <2>1, <2>2, <2>3, <2>4
  <1>3. CASE Reading(m)
    <2>1. CASE FindManuscript(m)
      BY <1>0, <1>1, <2>1 DEF FindManuscript
    <2>2. CASE FindInvoice(m)
      BY <1>0, <1>1, <2>2 DEF FindInvoice
    <2>3. CASE FindTransaction(m)
      <3>1. Goto(m, IF Restoring(m) THEN "restoring" ELSE "deleting")
        BY <1>0, <2>3 DEF FindTransaction
      <3> QED
        BY <1>1, <3>1
    <2>4. CASE ReadToDecide(m) \/ FindNoticedInvoice(m)
      BY <1>1, <2>4 DEF ReadToDecide, FindNoticedInvoice
    <2>5. CASE FindPayments(m)
      <3>1. held[m].invoice.status = "DRAFT"
        BY <2>5 DEF FindPayments, FreshInv
      <3>2. pc'[m] \in {"write eligible", "find manuscript"}
        BY <1>1, <2>5, <3>1 DEF FindPayments
      <3> QED
        BY <3>2
    <2>6. CASE \/ ReadToEdit(m) \/ FindAuthor(m) \/ Credit(m) \/ LoadAccepted(m)
               \/ PublishedInvoice(m)
      BY <1>0, <2>6 DEF ReadToEdit, FindAuthor, Credit, LoadAccepted, PublishedInvoice
    <2> QED
      BY <1>3, <2>1, <2>2, <2>3, <2>4, <2>5, <2>6 DEF Reading
  <1>4. CASE Deciding(m)
    <2>1. CASE Decide(m)
      <3>1. pc[m] = "decided" /\ m \in Eligibility
        BY <1>0, <2>1 DEF Decide, Fits
      <3>2. held[m].manuscript.taEligible /\ held[m].manuscript.taFundingApproved
        BY <1>0, <3>1 DEF FreshInv, PathInv
      <3>3. Decision(held[m].manuscript, invoice.status, invoice.accepted) = "Delete"
        BY <1>0, <3>1, <3>2 DEF Decision
      <3>4. Goto(m, "find manuscript")
        BY <2>1, <3>3 DEF Decide
      <3> QED
        BY <1>1, <3>4
    <2>2. CASE Created(m) \/ Announce(m) \/ AcceptedTransaction(m) \/ AcceptedForFree(m)
      BY <1>0, <2>2 DEF Created, Announce, AcceptedTransaction, AcceptedForFree
    <2> QED
      BY <1>4, <2>1, <2>2 DEF Deciding
  <1>5. CASE RowByRow(m)
    BY <1>0, <1>5 DEF RowByRow, SaveRow, LoseItem
  <1>6. CASE WritingManuscript(m)
    <2>1. CASE WriteEligible(m)
      BY <1>1, <2>1 DEF WriteEligible
    <2>2. CASE WriteApproved(m)
      <3>1. held[m].invoice.status = "DRAFT"
        BY <2>2 DEF WriteApproved, FreshInv
      <3>2. pc'[m] = "decide"
        BY <1>1, <2>2, <3>1 DEF WriteApproved
      <3> QED
        BY <3>2
    <2>3. CASE \/ CreateManuscript(m) \/ EditManuscript(m) \/ CompareAuthor(m)
               \/ ResetEligibility(m) \/ WriteAuthor(m) \/ MarkAsPublished(m)
      BY <1>0, <2>3
      DEF CreateManuscript, EditManuscript, CompareAuthor, ResetEligibility, WriteAuthor,
          MarkAsPublished
    <2> QED
      BY <1>6, <2>1, <2>2, <2>3 DEF WritingManuscript
  <1>7. CASE WritingInvoice(m) \/ Activating(m) \/ Crediting(m)
    BY <1>0, <1>7
    DEF WritingInvoice, Finalize, DateOnly, DateAccepted, AutoConfirm, DatePublished,
        Activating, Activate, ActivateAccepted, ActivatePublished, Crediting,
        SaveCreditNote, LoseCreditNote, Refund
  <1>8. CASE Stopping(m)
    <2>1. ~Redeliver(m) /\ ~Swallow(m)
      BY <1>0 DEF Redeliver, Swallow
    <2> QED
      BY <1>1, <1>8, <2>1 DEF Stopping, Fail, Leave
  <1> QED
    BY <1>2, <1>3, <1>4, <1>5, <1>6, <1>7, <1>8 DEF Silent

LEMMA AllRows == {RowOrder[k] : k \in 1..3} \cup {RowOrder[4]} = Tables
  <1>1. 1..3 = {1, 2, 3}
    OBVIOUS
  <1>2. /\ RowOrder[1] = "transactions" /\ RowOrder[2] = "invoices"
        /\ RowOrder[3] = "invoice_items" /\ RowOrder[4] = "articles"
    BY DEF RowOrder
  <1> QED
    BY <1>1, <1>2 DEF Tables

\* The last row makes the deletion, or its undoing, complete.
LEMMA LastRow ==
  ASSUME GeneralInv, GeneralInv', NEW m \in Messages, PathInv(m),
         DeleteRow(m) \/ RestoreRow(m), ~(row[m] < 3)
  PROVE  deleted' \in {{}, stored'}
  <1>1. row[m] = 3 /\ deleted \subseteq Tables /\ deleted' \subseteq stored'
    BY TypeParts DEF GeneralInv, LocalsOK, RowsOK
  <1>2. stored' = Tables
    BY DEF DeleteRow, RestoreRow, WriteBack, GeneralInv, StoredInv
  <1>3. CASE DeleteRow(m)
    <2>1. {RowOrder[k] : k \in 1..3} \subseteq deleted /\ deleted' = deleted \cup {RowOrder[4]}
      BY <1>1, <1>3 DEF DeleteRow, PathInv
    <2> QED
      BY <1>1, <1>2, <2>1, AllRows
  <1>4. CASE RestoreRow(m)
    <2>1. {RowOrder[k] : k \in 1..3} \cap deleted = {} /\ deleted' = deleted \ {RowOrder[4]}
      BY <1>1, <1>4 DEF RestoreRow, PathInv
    <2> QED
      BY <1>1, <2>1, AllRows
  <1> QED
    BY <1>3, <1>4

LEMMA NotRemoving ==
  ASSUME NEW m \in Messages, Silent(m) \/ Crediting(m) \/ Stopping(m),
         ~DeleteRow(m), ~RestoreRow(m)
  PROVE  deleted' = deleted
  <1>1. CASE Receives(m) \/ Reading(m) \/ Deciding(m)
    BY <1>1, ReadsOnly DEF Reads, rows
  <1>2. CASE RowByRow(m)
    BY <1>2 DEF RowByRow, SaveRow, LoseItem, rows
  <1>3. CASE WritingManuscript(m)
    BY <1>3
    DEF WritingManuscript, CreateManuscript, EditManuscript, CompareAuthor,
        ResetEligibility, WriteAuthor, WriteEligible, WriteApproved, MarkAsPublished
  <1>4. CASE WritingInvoice(m) \/ Activating(m)
    BY <1>4
    DEF WritingInvoice, Finalize, DateOnly, DateAccepted, AutoConfirm, DatePublished,
        Activating, Activate, ActivateAccepted, ActivatePublished
  <1>5. CASE Crediting(m) \/ Stopping(m)
    BY <1>5
    DEF Crediting, SaveCreditNote, LoseCreditNote, Refund, Stopping, Fail, Swallow,
        Redeliver, rows
  <1> QED
    BY <1>1, <1>2, <1>3, <1>4, <1>5 DEF Silent

LEMMA UnnoticedGrows ==
  ASSUME GeneralInv, NEW m \in Messages, Silent(m) \/ Crediting(m) \/ Stopping(m)
  PROVE  unnoticed \subseteq unnoticed'
  <1>1. CASE Silent(m)
    BY <1>1, SilentSteps DEF SilentStep
  <1>2. CASE Crediting(m) \/ Stopping(m)
    BY <1>2
    DEF Crediting, SaveCreditNote, LoseCreditNote, Refund, Stopping, Fail, Swallow,
        Redeliver, history
  <1> QED
    BY <1>1, <1>2

LEMMA TogetherStep ==
  ASSUME GeneralInv, GeneralInv', TablesInv, TogetherInv, Lasting, Next,
         NEW m \in Messages, FreshInv(m), PathInv(m), PathInv(m)',
         Silent(m) \/ Crediting(m) \/ Stopping(m)
  PROVE  TogetherInv'
  <1> SUFFICES ASSUME transaction' = "DRAFT", unnoticed' = {}, deleted' \notin {{}, stored'}
               PROVE  \E n \in Messages : Owing(n)'
    BY DEF TogetherInv
  <1>0. /\ transaction = "DRAFT" /\ unnoticed = {}
        /\ \A n \in Messages : Undertakes(n) => Undertakes(n)'
    <2>1. transaction \in Transaction
      BY TypeParts DEF GeneralInv, RowsOK
    <2>2. transaction = "DRAFT"
      BY <2>1 DEF Transaction, Lasting
    <2> QED
      BY <2>2, UnnoticedGrows DEF Lasting, Undertakes
  <1>1. CASE DeleteRow(m) \/ RestoreRow(m)
    <2>1. row[m] < 3
      BY <1>1, LastRow
    <2>2. pc' = pc /\ pc[m] \in {"deleting", "restoring"}
      BY <1>1, <2>1 DEF DeleteRow, RestoreRow, NextRow
    <2>3. Undertakes(m)'
      BY <2>2 DEF PathInv, Removing
    <2> QED
      BY <2>2, <2>3 DEF Owing, Pending, Removing
  <1>2. CASE ~(DeleteRow(m) \/ RestoreRow(m))
    <2>1. deleted' = deleted
      BY <1>2, NotRemoving
    <2>2. stored = Tables /\ stored' = stored
      <3>1. stored \subseteq stored' /\ stored' \subseteq Tables
        BY RowsNext DEF RowsOK
      <3> QED
        BY <2>1, <3>1 DEF TablesInv
    <2>3. PICK n \in Messages : Owing(n)
      BY <1>0, <2>1, <2>2 DEF TogetherInv
    <2>4. CASE n = m
      <3>1. pc'[m] \in Pending
        BY <1>0, <1>2, <2>2, <2>3, <2>4, Onward
      <3> QED
        BY <1>0, <2>3, <2>4, <3>1 DEF Owing
    <2>5. CASE n # m
      <3>1. pc'[n] = pc[n]
        BY <2>3, <2>5, OthersStay
      <3> QED
        BY <1>0, <2>3, <3>1 DEF Owing
    <2> QED
      BY <2>4, <2>5
  <1> QED
    BY <1>1, <1>2

\* Only these steps write another manuscript than the one that is there.
LEMMA ManuscriptStays ==
  ASSUME NEW m \in Messages, FreshInv(m), Silent(m) \/ Crediting(m), ~WritingManuscript(m)
  PROVE  /\ manuscript' = manuscript /\ eligibleAuthor' = eligibleAuthor
         /\ pc[m] \notin Unsettled
  <1> USE DEF Unsettled
  <1>1. CASE Receives(m)
    <2>1. pc[m] \in {"idle", "again"}
      BY <1>1
      DEF Receives, ReceiveSubmission, ReceiveReturned, ReceiveNotice, ReceiveAcceptance,
          ReceivePublication, Receive
    <2> QED
      BY <1>1, <2>1, ReadsOnly DEF Reads, rows, history
  <1>2. CASE Reading(m)
    <2>1. pc[m] \notin Unsettled
      BY <1>2
      DEF Reading, FindManuscript, FindInvoice, FindTransaction, ReadToEdit, FindAuthor,
          FindNoticedInvoice, FindPayments, Credit, ReadToDecide, LoadAccepted,
          PublishedInvoice
    <2> QED
      BY <1>2, <2>1, ReadsOnly DEF Reads, rows, history
  <1>3. CASE Deciding(m)
    <2>1. pc[m] \notin Unsettled
      BY <1>3 DEF Deciding, Created, Decide, Announce, AcceptedTransaction, AcceptedForFree
    <2> QED
      BY <1>3, <2>1, ReadsOnly DEF Reads, rows, history
  <1>4. CASE RowByRow(m)
    <2>1. pc[m] \in {"creating", "deleting", "restoring"} /\ eligibleAuthor' = eligibleAuthor
      BY <1>4 DEF RowByRow, SaveRow, LoseItem, DeleteRow, RestoreRow, Writes, history
    <2>2. manuscript' \in {manuscript, held[m].manuscript}
      BY <1>4 DEF RowByRow, SaveRow, LoseItem, DeleteRow, RestoreRow, WriteBack, rows
    <2>3. pc[m] \in {"deleting", "restoring"} => held[m].manuscript = manuscript
      BY DEF FreshInv
    <2>4. pc[m] = "creating" => manuscript' = manuscript
      BY <1>4 DEF RowByRow, SaveRow, LoseItem, DeleteRow, RestoreRow, rows
    <2> QED
      BY <2>1, <2>2, <2>3, <2>4
  <1>5. CASE WritingInvoice(m)
    BY <1>5
    DEF WritingInvoice, Finalize, DateOnly, DateAccepted, AutoConfirm, DatePublished, Writes,
        history
  <1>6. CASE Activating(m)
    BY <1>6 DEF Activating, Activate, ActivateAccepted, ActivatePublished, Writes, history
  <1>7. CASE Crediting(m)
    BY <1>7 DEF Crediting, SaveCreditNote, LoseCreditNote, Refund, rows, history
  <1> QED
    BY <1>1, <1>2, <1>3, <1>4, <1>5, <1>6, <1>7 DEF Silent

\* A new author loses the eligibility before the handler of the message ends.
LEMMA AuthorStep ==
  ASSUME OneAtATime, GeneralInv, Alone, AuthorInv, NEW m \in Messages, FreshInv(m),
         PathInv(m), Silent(m) \/ Crediting(m) \/ Stopping(m)
  PROVE  AuthorInv'
  <1> SUFFICES ASSUME failures' = 0, ~(pc'[m] \in Unsettled)
               PROVE  Justified'
    BY DEF AuthorInv
  <1>0. /\ pc \in [Messages -> PcValues] /\ failures \in Nat
        /\ manuscript \in Manuscript /\ held[m].manuscript \in Manuscript
    BY TypeParts, HeldType, MessageAssumption DEF GeneralInv, LocalsOK, RowsOK, RestOK
  <1>1. ~Stopping(m)
    <2>1. Stopping(m) => failures' = failures + 1
      BY DEF Stopping, Fail, Swallow, Redeliver, Failing
    <2> QED
      BY <1>0, <2>1
  <1>2. failures = 0
    <2>1. CASE Silent(m)
      <3>1. failures <= failures'
        BY <2>1, SilentSteps DEF SilentStep
      <3> QED
        BY <1>0, <3>1
    <2>2. CASE Crediting(m)
      <3>1. failures' \in {failures, failures + 1}
        BY <2>2 DEF Crediting, SaveCreditNote, LoseCreditNote, Refund
      <3> QED
        BY <1>0, <3>1
    <2> QED
      BY <1>1, <2>1, <2>2
  <1>3. Justified \/ pc[m] \in Unsettled
    <2>1. \A n \in Messages \ {m} : ~InFlight(n)
      BY <1>1, OnlyActor
    <2>2. \A n \in Messages : pc[n] \in Unsettled => InFlight(n)
      BY DEF Unsettled, InFlight, Steps
    <2> QED
      BY <1>2, <2>1, <2>2 DEF AuthorInv
  <1>4. CASE ~WritingManuscript(m)
    BY <1>1, <1>3, <1>4, ManuscriptStays DEF Justified
  <1>5. CASE WritingManuscript(m)
    <2> USE DEF Keep
    <2>1. CASE CreateManuscript(m)
      <3>1. manuscript' = manuscript \/ ~manuscript'.taEligible
        BY <2>1 DEF CreateManuscript, NewManuscript
      <3>2. eligibleAuthor' = eligibleAuthor /\ pc[m] = "new"
        BY <2>1 DEF CreateManuscript, Writes, history
      <3> QED
        BY <1>3, <3>1, <3>2 DEF Justified, Unsettled
    <2>2. CASE EditManuscript(m)
      <3>1. m \in Accepted
        <4>1. m \notin Submitted
          BY <1>0, <2>2 DEF EditManuscript, Goto, Unsettled
        <4>2. m \in Submitted \cup Accepted
          BY <2>2 DEF EditManuscript, GeneralInv, KindInv, Fits
        <4> QED
          BY <4>1, <4>2
      <3>2. manuscript'.author = AuthorOf[m]
        BY <1>0, <2>2 DEF EditManuscript, Manuscript
      <3> QED
        BY <3>1, <3>2 DEF Justified
    <2>3. CASE CompareAuthor(m)
      <3>1. held[m].existing.author = AuthorOf[m]
        BY <1>0, <2>3 DEF CompareAuthor, Goto, Unsettled
      <3>2. UNCHANGED <<manuscript, eligibleAuthor>> /\ pc[m] = "same author?"
        BY <2>3, <3>1 DEF CompareAuthor, Writes, history
      <3> QED
        BY <1>2, <3>1, <3>2 DEF PathInv, Justified
    <2>4. CASE ResetEligibility(m)
      <3>1. ~manuscript'.taEligible
        BY <1>0, <2>4 DEF ResetEligibility, Manuscript
      <3> QED
        BY <3>1 DEF Justified
    <2>5. CASE WriteAuthor(m)
      <3>1. ~held[m].manuscript.taEligible
        BY <2>5 DEF WriteAuthor, FreshInv, PathInv
      <3>2. manuscript'.taEligible = held[m].manuscript.taEligible
        BY <1>0, <2>5 DEF WriteAuthor, Manuscript
      <3> QED
        BY <3>1, <3>2 DEF Justified
    <2>6. CASE WriteEligible(m)
      <3>1. /\ manuscript'.taEligible = (m \in Eligible)
            /\ manuscript'.author = manuscript.author
            /\ m \in Eligible => eligibleAuthor' = manuscript.author
        BY <1>0, <2>6 DEF WriteEligible, Manuscript
      <3> QED
        BY <3>1 DEF Justified
    <2>7. CASE WriteApproved(m)
      <3>1. /\ manuscript'.taEligible = manuscript.taEligible
            /\ manuscript'.author = manuscript.author
            /\ eligibleAuthor' = eligibleAuthor /\ pc[m] = "write approved"
        BY <1>0, <2>7 DEF WriteApproved, Manuscript, Writes, history
      <3> QED
        BY <1>3, <3>1 DEF Justified, Unsettled
    <2>8. CASE MarkAsPublished(m)
      <3>1. /\ manuscript' = manuscript /\ eligibleAuthor' = eligibleAuthor
            /\ pc[m] = "publish"
        BY <2>8 DEF MarkAsPublished, FreshInv, Writes, history
      <3> QED
        BY <1>3, <3>1 DEF Justified, Unsettled
    <2> QED
      BY <1>5, <2>1, <2>2, <2>3, <2>4, <2>5, <2>6, <2>7, <2>8 DEF WritingManuscript
  <1> QED
    BY <1>4, <1>5

\* What the handler that takes a step leaves behind.
LEMMA OwnStep ==
  ASSUME SequentialInv, GeneralInv', RestInv, NEW m \in Messages,
         Silent(m) \/ Crediting(m) \/ Stopping(m)
  PROVE  FreshInv(m)' /\ PathInv(m)' /\ TablesInv' /\ Lasting
  <1>0. /\ GeneralInv /\ Alone /\ TablesInv /\ AuthorInv
        /\ FreshInv(m) /\ PathInv(m)
    BY DEF SequentialInv, RestInv
  <1>1. CASE Receives(m) \/ Reading(m) \/ Deciding(m)
    <2>1. TablesInv' /\ Lasting
      BY <1>0, <1>1, ReadsOnly DEF Reads, rows, TablesInv, Lasting
    <2> QED
      BY <1>0, <1>1, <2>1, OwnReceives, OwnReading, OwnDeciding
  <1>2. CASE RowByRow(m) \/ WritingManuscript(m)
    BY <1>0, <1>2, OwnRowByRow, OwnWritingManuscript
  <1>3. CASE WritingInvoice(m) \/ Activating(m)
    BY <1>0, <1>3, OwnWritingInvoice, OwnActivating
  <1>4. CASE Crediting(m) \/ Stopping(m)
    BY <1>0, <1>4, OwnCreditingStopping
  <1> QED
    BY <1>1, <1>2, <1>3, <1>4 DEF Silent

\* The handlers that are not running have nothing to remember; those that are
\* learn nothing from a redelivery.
LEMMA OthersOwn ==
  ASSUME OneAtATime, SequentialInv, RestInv, NEW m \in Messages,
         Silent(m) \/ Crediting(m) \/ Stopping(m)
  PROVE  \A n \in Messages \ {m} : FreshInv(n)' /\ PathInv(n)'
  <1>0. GeneralInv /\ Alone
    BY DEF SequentialInv
  <1> SUFFICES ASSUME NEW n \in Messages \ {m}
               PROVE  FreshInv(n)' /\ PathInv(n)'
    OBVIOUS
  <1>1. CASE Redeliver(m)
    <2>1. pc'[n] = pc[n]
      BY <1>0, OthersStay
    <2>2. /\ UNCHANGED <<stored, deleted, manuscript, invoice, transaction, held, row,
                         eligibleAuthor>>
          /\ failures' # 0
      <3>1. failures \in Nat
        BY <1>0, TypeParts, MessageAssumption DEF GeneralInv, RestOK
      <3> QED
        BY <1>1, <3>1 DEF Redeliver, Failing, rows, locals, history
    <2>3. FreshInv(n) /\ PathInv(n)
      BY DEF RestInv
    <2>4. FreshInv(n)'
      BY <2>1, <2>2, <2>3 DEF FreshInv
    <2>5. PathInv(n)'
      BY <2>1, <2>2, <2>3 DEF PathInv, Undertakes
    <2> QED
      BY <2>4, <2>5
  <1>2. CASE ~Redeliver(m)
    <2>1. ~InFlight(n)'
      BY <1>0, <1>2, OnlyActor DEF Stopping
    <2>2. pc'[n] \notin Watched
      BY <2>1 DEF InFlight, Steps, Watched, Removing, Loaded
    <2> QED
      BY <2>2, NotWatched
  <1> QED
    BY <1>1, <1>2

LEMMA RestInit == Init => RestInv
  <1> SUFFICES ASSUME Init PROVE RestInv
    OBVIOUS
  <1>1. \A m \in Messages : pc[m] = "idle"
    BY DEF Init
  <1>2. TablesInv /\ TogetherInv
    BY DEF Init, NewInvoice, TablesInv, TogetherInv
  <1>3. AuthorInv
    BY DEF Init, NewManuscript, AuthorInv, Justified
  <1>4. \A m \in Messages : FreshInv(m) /\ PathInv(m)
    BY <1>1 DEF FreshInv, PathInv, Removing, Loaded
  <1> QED
    BY <1>2, <1>3, <1>4 DEF RestInv

LEMMA RestNext ==
  ASSUME OneAtATime
  PROVE  SequentialInv /\ GeneralInv' /\ RestInv /\ [Next]_vars => RestInv'
  <1> SUFFICES ASSUME SequentialInv, GeneralInv', RestInv, [Next]_vars
               PROVE  RestInv'
    OBVIOUS
  <1>0. GeneralInv /\ Alone
    BY DEF SequentialInv
  <1>1. CASE UNCHANGED vars
    <2>1. UNCHANGED <<stored, deleted, manuscript, invoice, transaction, pc, held, row,
                      failures, unnoticed, eligibleAuthor>>
      BY <1>1 DEF vars, rows, locals, history
    <2>2. TablesInv' /\ TogetherInv' /\ AuthorInv'
      BY <2>1 DEF RestInv, TablesInv, TogetherInv, Owing, Undertakes, AuthorInv, Justified
    <2>3. ASSUME NEW m \in Messages
          PROVE  FreshInv(m)' /\ PathInv(m)'
      <3>1. FreshInv(m) /\ PathInv(m)
        BY DEF RestInv
      <3>2. FreshInv(m)'
        BY <2>1, <3>1 DEF FreshInv
      <3>3. PathInv(m)'
        BY <2>1, <3>1 DEF PathInv, Undertakes, Justified
      <3> QED
        BY <3>2, <3>3
    <2> QED
      BY <2>2, <2>3 DEF RestInv
  <1>2. CASE Paying
    BY <1>0, <1>2, OwnPaying
  <1>3. ASSUME Next, NEW m \in Messages, Silent(m) \/ Crediting(m) \/ Stopping(m)
        PROVE  RestInv'
    <2>1. FreshInv(m)' /\ PathInv(m)' /\ TablesInv' /\ Lasting
      BY <1>3, OwnStep
    <2>2. \A n \in Messages \ {m} : FreshInv(n)' /\ PathInv(n)'
      BY <1>3, OthersOwn
    <2>3. /\ TablesInv /\ TogetherInv /\ AuthorInv /\ FreshInv(m) /\ PathInv(m)
      BY DEF RestInv
    <2>4. TogetherInv'
      BY <1>0, <1>3, <2>1, <2>3, TogetherStep
    <2>5. AuthorInv'
      BY <1>0, <1>3, <2>3, AuthorStep
    <2> QED
      BY <2>1, <2>2, <2>4, <2>5 DEF RestInv
  <1> QED
    BY <1>1, <1>2, <1>3, NextParts DEF Silent

\* Both invariants hold together in every state.
LEMMA RestInvariance ==
  ASSUME OneAtATime
  PROVE  Spec => [](SequentialInv /\ RestInv)
<1>1. SequentialInv /\ RestInv /\ [Next]_vars => (SequentialInv /\ RestInv)'
  BY SequentialNext, RestNext DEF SequentialInv
<1> QED
  BY SequentialInit, RestInit, <1>1, PTL DEF Spec

\* A submission that is not accepted is deleted with all its rows or not at all
\* in every state at rest, however its deletions and restorations were cut short
\* and repeated: while some rows are deleted and others not, a message that will
\* delete or restore the rest is still due.
THEOREM DeletedTogetherCorrect ==
  ASSUME OneAtATime
  PROVE  Spec => []DeletedTogether
<1>1. SequentialInv /\ RestInv => DeletedTogether
  <2> SUFFICES ASSUME RestInv, AtRest, transaction = "DRAFT", unnoticed = {},
                      deleted \notin {{}, stored}
               PROVE  FALSE
    BY DEF DeletedTogether
  <2>1. PICK m \in Messages : Owing(m)
    BY DEF RestInv, TogetherInv
  <2>2. pc[m] \in Pending /\ pc[m] \in {"idle", "done"}
    BY <2>1 DEF Owing, AtRest
  <2> QED
    BY <2>2 DEF Pending, Removing
<1> QED
  BY RestInvariance, <1>1, PTL

\* As long as no delivery has failed, the eligibility in the manuscript's row is
\* the one of its author, or of one an acceptance named, in every state at rest.
THEOREM EligibilityOfAuthorCorrect ==
  ASSUME OneAtATime
  PROVE  Spec => []EligibilityOfAuthor
<1>1. SequentialInv /\ RestInv => EligibilityOfAuthor
  <2> SUFFICES ASSUME RestInv, AtRest, failures = 0
               PROVE  Justified
    BY DEF EligibilityOfAuthor, Justified
  <2>1. ~\E m \in Messages : pc[m] \in Unsettled
    BY DEF AtRest, Unsettled
  <2> QED
    BY <2>1 DEF RestInv, AuthorInv
<1> QED
  BY RestInvariance, <1>1, PTL
=============================================================================
