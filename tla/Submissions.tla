---------------------------- MODULE Submissions ----------------------------
(* The life of one submission's billing under the editorial messages of the *)
(* queue: SubmissionEventsHandler, the soft deletion of drafts and its      *)
(* undoing, SubmissionWithdrawn with CreateCreditNote, acceptances,         *)
(* decisions on transformative agreements (TA), and EpicOnArticlePublished. *)
(* A message comes again until its handler returns; each handler writes     *)
(* whole rows from objects it read before, and no two writes are atomic.    *)
(* Domain events (see DomainEvents), prices and waivers are left out.       *)
EXTENDS Naturals, FiniteSets, Sequences

CONSTANTS Submitted,     \* SubmissionSubmitted, -Edited and -RevisionSubmitted
          Returned,      \* -QualityCheckRTCd, -ScreeningRTCd, -ScreeningVoid
          Withdrawn,     \* SubmissionWithdrawn, SubmissionRejected
          Accepted,      \* SubmissionPeerReviewCycleCheckPassed, -QualityCheckPassed
          Eligibility,   \* ManuscriptTAEligibilityUpdated
          Published,     \* ArticlePublished
          Invoiceable,   \* submissions and acceptances of a paid article type
          Eligible,      \* decisions FullCoverage or Discount
          Approved,      \* decisions FullCoverage, Resolved
          Authors, AuthorOf,  \* the corresponding author a message names
          ConfirmedAs,   \* statuses a confirmation may give: FINAL for a total of 0,
                         \* PENDING for a payer from a sanctioned country
          OneAtATime,    \* is one message handled at a time?
          MaxHandled,    \* bound on the messages handled, decisions not counted
          MaxFailures    \* bound on failures and repeated deliveries

Messages == Submitted \cup Returned \cup Withdrawn \cup Accepted \cup Eligibility \cup Published

ASSUME MessageAssumption ==
  /\ IsFiniteSet(Messages)
  /\ Returned \cap Submitted = {}
  /\ Withdrawn \cap (Submitted \cup Returned) = {}
  /\ Accepted \cap (Submitted \cup Returned \cup Withdrawn) = {}
  /\ Eligibility \cap (Submitted \cup Returned \cup Withdrawn \cup Accepted) = {}
  /\ Published \cap (Submitted \cup Returned \cup Withdrawn \cup Accepted \cup Eligibility) = {}
  /\ Invoiceable \subseteq Submitted \cup Accepted
  /\ Approved \subseteq Eligible /\ Eligible \subseteq Eligibility
  /\ Authors # {}
  /\ AuthorOf \in [Submitted \cup Accepted -> Authors]
  /\ ConfirmedAs \subseteq {"ACTIVE", "PENDING", "FINAL"}
  /\ OneAtATime \in BOOLEAN /\ MaxHandled \in Nat /\ MaxFailures \in Nat

VARIABLES stored,       \* the tables that hold the submission's row
          deleted,      \* those whose row is marked as deleted
          manuscript,   \* the row in articles
          invoice,      \* the row in invoices
          transaction,  \* the status of the row in transactions
          creditNotes,  \* how many credit notes a message has inserted
          paid,         \* is there a payment?
          refunds,      \* the messages that asked for a refund
          pc,           \* where the handler of every message is
          held,         \* the objects it holds
          row,          \* how many rows it has written
          failures,
          overlapped,   \* history: the handlers during which the payer acted
          unnoticed,    \* history: messages one of whose failures was swallowed
          eligibleAuthor  \* history: the author taEligible was set for

rows == <<stored, deleted, manuscript, invoice, transaction>>
world == <<creditNotes, paid, refunds>>
locals == <<held, row, overlapped>>
history == <<unnoticed, eligibleAuthor>>
vars == <<rows, world, pc, locals, failures, history>>

Tables == {"articles", "invoices", "invoice_items", "transactions"}

Manuscript == [author : Authors, taEligible : BOOLEAN, taFundingApproved : BOOLEAN]
Invoice    == [status : {"DRAFT", "ACTIVE", "PENDING", "FINAL"}, accepted : BOOLEAN]
Transaction == {"DRAFT", "ACTIVE"}
Objects == [existing : Manuscript, manuscript : Manuscript, invoice : Invoice,
            transaction : Transaction, paid : BOOLEAN]

Steps ==
  {"new", "creating", "created", "find manuscript", "find invoice",
   "find transaction", "deleting", "restoring", "edit", "write manuscript",
   "same author?", "reset eligibility", "find author", "write author",
   "notice", "payments", "credit", "finalize", "save credit note", "refund",
   "write eligible", "write approved", "decide", "decided", "activate",
   "announce", "accepted", "date", "load accepted", "accept active",
   "accept date", "publish", "published", "publish transaction",
   "publish date", "auto confirm"}

InFlight(m) == pc[m] \in Steps
AtRest == \A m \in Messages : pc[m] \in {"idle", "done"}

NewManuscript(a) == [author |-> a, taEligible |-> FALSE, taFundingApproved |-> FALSE]
NewInvoice == [status |-> "DRAFT", accepted |-> FALSE]

Nobody == CHOOSE a \in Authors : TRUE
Nothing == [existing |-> NewManuscript(Nobody), manuscript |-> NewManuscript(Nobody),
            invoice |-> NewInvoice, transaction |-> "DRAFT", paid |-> FALSE]

TypeOK == /\ stored \subseteq Tables /\ deleted \subseteq stored
          /\ manuscript \in Manuscript
          /\ invoice \in Invoice
          /\ transaction \in Transaction
          /\ creditNotes \in [Withdrawn \cup Eligibility -> Nat]
          /\ paid \in BOOLEAN
          /\ refunds \subseteq Withdrawn \cup Eligibility
          /\ pc \in [Messages -> {"idle", "again", "done"} \cup Steps]
          /\ held \in [Messages -> Objects]
          /\ row \in [Messages -> 0..3]
          /\ failures \in 0..MaxFailures
          /\ overlapped \subseteq Messages
          /\ unnoticed \subseteq Messages
          /\ eligibleAuthor \in Authors

Init == /\ stored = {} /\ deleted = {}
        /\ manuscript = NewManuscript(Nobody)
        /\ invoice = NewInvoice
        /\ transaction = "DRAFT"
        /\ creditNotes = [m \in Withdrawn \cup Eligibility |-> 0]
        /\ paid = FALSE /\ refunds = {}
        /\ pc = [m \in Messages |-> "idle"]
        /\ held = [m \in Messages |-> Nothing]
        /\ row = [m \in Messages |-> 0]
        /\ failures = 0
        /\ overlapped = {} /\ unnoticed = {} /\ eligibleAuthor = Nobody

-----------------------------------------------------------------------------
(* A handler runs from step to step; it returns ("done") or throws by itself  *)
(* ("idle": the message is due again) or by a failure in the middle ("again"). *)

Goto(m, step) == pc' = [pc EXCEPT ![m] = step]

Hold(m, object, value) == /\ held' = [held EXCEPT ![m][object] = value]
                          /\ UNCHANGED <<row, overlapped>>

Keep(m, step) == Goto(m, step) /\ UNCHANGED locals

Leave(m, how) == /\ Goto(m, how)
                 /\ held' = [held EXCEPT ![m] = Nothing]
                 /\ row' = [row EXCEPT ![m] = 0]
                 /\ overlapped' = overlapped \ {m}

Reads == UNCHANGED <<rows, world, failures, history>>
Writes == UNCHANGED <<world, failures, history>>

Handled == {m \in Messages : pc[m] # "idle"}

\* The queue hands out a message that is not settled, again and again.
Receive(m, step) == /\ pc[m] \in {"idle", "again"}
                    /\ OneAtATime => \A n \in Messages : ~InFlight(n)
                    /\ m \in Eligibility \/ Cardinality(Handled \ {m}) < MaxHandled
                    /\ Goto(m, step)

-----------------------------------------------------------------------------
(* SubmissionSubmitted, SubmissionEdited and SubmissionRevisionSubmitted.     *)

ReceiveSubmission(m) ==
  /\ m \in Submitted
  /\ \/ /\ "articles" \in stored
        /\ Receive(m, "find manuscript")
        /\ Hold(m, "existing", manuscript)
     \/ /\ "articles" \notin stored
        /\ Receive(m, IF m \in Invoiceable THEN "new" ELSE "done")
        /\ UNCHANGED locals
  /\ Reads

CreateManuscript(m) ==
  /\ pc[m] = "new"
  /\ IF "articles" \in stored
     THEN Leave(m, "idle") /\ UNCHANGED <<stored, manuscript>>
     ELSE /\ stored' = stored \cup {"articles"}
          /\ manuscript' = NewManuscript(AuthorOf[m])
          /\ Keep(m, "creating")
  /\ UNCHANGED <<deleted, invoice, transaction>>
  /\ Writes

SaveOrder == <<"invoices", "invoice_items", "transactions">>

\* CreateTransaction saves three rows one after the other. Every execution makes
\* new ids: a second one would be a second invoice, the redelivery never gets here.
SaveRow(m) ==
  LET table == SaveOrder[row[m] + 1] IN
  /\ pc[m] = "creating"
  /\ stored' = stored \cup {table}
  /\ IF row[m] < 2 THEN row' = [row EXCEPT ![m] = row[m] + 1] /\ UNCHANGED <<pc, held, overlapped>>
                   ELSE Goto(m, "created") /\ row' = [row EXCEPT ![m] = 0] /\ UNCHANGED <<held, overlapped>>
  /\ UNCHANGED <<deleted, manuscript, invoice, transaction>>
  /\ Writes

\* InvoiceItemRepo.save returns the error of its insert as a left: ignored.
LoseItem(m) ==
  /\ pc[m] = "creating" /\ SaveOrder[row[m] + 1] = "invoice_items"
  /\ failures < MaxFailures
  /\ failures' = failures + 1
  /\ unnoticed' = unnoticed \cup {m}
  /\ row' = [row EXCEPT ![m] = row[m] + 1]
  /\ UNCHANGED <<rows, world, pc, held, overlapped, eligibleAuthor>>

\* Waivers, the state of the reminders, InvoiceDraftCreated.
Created(m) == pc[m] = "created" /\ Leave(m, "done") /\ Reads

-----------------------------------------------------------------------------
(* SoftDeleteDraftInvoice and RestoreSoftDeleteDraftTransaction read the same *)
(* rows in the same order.                                                    *)

Restoring(m) == m \in Submitted \cap Invoiceable

\* What the caller does with a left: the TA decision ignores the deletion's.
AfterLeft(m) == IF m \in Eligibility THEN "done" ELSE "idle"

ReceiveReturned(m) ==
  m \in Returned /\ Receive(m, "find manuscript") /\ UNCHANGED locals /\ Reads

FindManuscript(m) ==
  /\ pc[m] = "find manuscript"
  /\ IF {"articles", "invoice_items"} \subseteq stored
     THEN Goto(m, "find invoice") /\ Hold(m, "manuscript", manuscript)
     ELSE Leave(m, AfterLeft(m))
  /\ Reads

\* Mutant: the deletion is undone with a new draft.
FindInvoiceAsNew(m) ==
  /\ pc[m] = "find invoice"
  /\ IF ~Restoring(m) /\ invoice.status # "DRAFT"
     THEN Leave(m, "done")
     ELSE Goto(m, "find transaction") /\ Hold(m, "invoice", NewInvoice)
  /\ Reads

FindInvoice(m) ==
  /\ pc[m] = "find invoice"
  /\ IF ~Restoring(m) /\ invoice.status # "DRAFT"
     THEN Leave(m, "done")
     ELSE Goto(m, "find transaction") /\ Hold(m, "invoice", invoice)
  /\ Reads

FindTransaction(m) ==
  /\ pc[m] = "find transaction"
  /\ \/ /\ "transactions" \notin stored
        /\ Leave(m, AfterLeft(m))
     \/ /\ "transactions" \in stored
        /\ ~Restoring(m) /\ transaction = "ACTIVE"
        /\ Leave(m, "done")
     \/ /\ "transactions" \in stored
        /\ Restoring(m) \/ transaction # "ACTIVE"
        /\ Goto(m, IF Restoring(m) THEN "restoring" ELSE "deleting")
        /\ Hold(m, "transaction", transaction)
  /\ Reads

\* Mutant: the article is forgotten.
RowOrderNoArticle == <<"transactions", "invoices", "invoice_items", "invoice_items">>

RowOrder == <<"transactions", "invoices", "invoice_items", "articles">>

\* A repository writes the whole row back from the object it was given.
WriteBack(m, table) ==
  /\ transaction' = IF table = "transactions" THEN held[m].transaction ELSE transaction
  /\ invoice' = IF table = "invoices" THEN held[m].invoice ELSE invoice
  /\ manuscript' = IF table = "articles" THEN held[m].manuscript ELSE manuscript
  /\ UNCHANGED stored

\* Mutant: one row too many.
NextRowTooFar(m, afterLast) == row' = [row EXCEPT ![m] = row[m] + 1] /\ UNCHANGED <<pc, held, overlapped>>

NextRow(m, afterLast) ==
  IF row[m] < 3 THEN row' = [row EXCEPT ![m] = row[m] + 1] /\ UNCHANGED <<pc, held, overlapped>>
                ELSE afterLast

DeleteRow(m) ==
  LET table == RowOrder[row[m] + 1] IN
  /\ pc[m] = "deleting"
  /\ deleted' = deleted \cup {table}
  /\ WriteBack(m, table)
  /\ NextRow(m, Leave(m, "done"))
  /\ Writes

RestoreRow(m) ==
  LET table == RowOrder[row[m] + 1] IN
  /\ pc[m] = "restoring"
  /\ deleted' = deleted \ {table}
  /\ WriteBack(m, table)
  /\ NextRow(m, Goto(m, "edit") /\ row' = [row EXCEPT ![m] = 0] /\ UNCHANGED <<held, overlapped>>)
  /\ Writes

-----------------------------------------------------------------------------
(* The rest of an invoiceable submission: the author may have changed.        *)

ReadToEdit(m) == /\ pc[m] = "edit"
                 /\ Goto(m, "write manuscript")
                 /\ Hold(m, "manuscript", manuscript)
                 /\ Reads

\* EditManuscript, from updateManuscript, for submissions and acceptances.
EditManuscript(m) ==
  /\ pc[m] = "write manuscript"
  /\ manuscript' = [held[m].manuscript EXCEPT !.author = AuthorOf[m]]
  /\ Keep(m, IF m \in Submitted THEN "same author?" ELSE "accepted")
  /\ UNCHANGED <<stored, deleted, invoice, transaction>>
  /\ Writes

\* Mutant: the comparison is with the row just written.
CompareAuthorWritten(m) ==
  /\ pc[m] = "same author?"
  /\ IF manuscript.author = AuthorOf[m]
     THEN Leave(m, "done") /\ UNCHANGED manuscript
     ELSE /\ manuscript' = [manuscript EXCEPT !.taFundingApproved = FALSE]
          /\ Keep(m, "reset eligibility")
  /\ UNCHANGED <<stored, deleted, invoice, transaction>>
  /\ Writes

\* The comparison is with the author the first read saw; a new author loses
\* the approval at once and the eligibility in the next statement.
CompareAuthor(m) ==
  /\ pc[m] = "same author?"
  /\ IF held[m].existing.author = AuthorOf[m]
     THEN Leave(m, "done") /\ UNCHANGED manuscript
     ELSE /\ manuscript' = [manuscript EXCEPT !.taFundingApproved = FALSE]
          /\ Keep(m, "reset eligibility")
  /\ UNCHANGED <<stored, deleted, invoice, transaction>>
  /\ Writes

ResetEligibility(m) ==
  /\ pc[m] = "reset eligibility"
  /\ manuscript' = [manuscript EXCEPT !.taEligible = FALSE]
  /\ eligibleAuthor' = Nobody
  /\ Keep(m, "find author")
  /\ UNCHANGED <<stored, deleted, invoice, transaction, world, failures, unnoticed>>

\* UpdateManuscriptAuthor; ApplyWaivers after it.
FindAuthor(m) == /\ pc[m] = "find author"
                 /\ Goto(m, "write author")
                 /\ Hold(m, "manuscript", manuscript)
                 /\ Reads

WriteAuthor(m) ==
  /\ pc[m] = "write author"
  /\ manuscript' = [held[m].manuscript EXCEPT !.author = AuthorOf[m]]
  /\ Leave(m, "done")
  /\ UNCHANGED <<stored, deleted, invoice, transaction>>
  /\ Writes

-----------------------------------------------------------------------------
(* SubmissionWithdrawn (and SubmissionRejected), ManuscriptTAEligibilityUpdated *)
(* read the invoice and its payments, and may credit it.                      *)

ReceiveNotice(m) ==
  /\ m \in Withdrawn \cup Eligibility
  /\ Receive(m, IF {"articles", "invoice_items"} \subseteq stored THEN "notice" ELSE "idle")
  /\ UNCHANGED locals
  /\ Reads

FindNoticedInvoice(m) == /\ pc[m] = "notice"
                         /\ Goto(m, "payments")
                         /\ Hold(m, "invoice", invoice)
                         /\ Reads

\* Mutant: only a paid invoice is credited.
FindPaymentsCreditPaid(m) ==
  /\ pc[m] = "payments"
  /\ Goto(m, IF m \in Eligibility THEN "write eligible"
             ELSE IF held[m].invoice.status # "DRAFT" /\ paid THEN "credit" ELSE "find manuscript")
  /\ Hold(m, "paid", paid)
  /\ Reads

FindPayments(m) ==
  /\ pc[m] = "payments"
  /\ Goto(m, IF m \in Eligibility THEN "write eligible"
             ELSE IF held[m].invoice.status # "DRAFT" THEN "credit" ELSE "find manuscript")
  /\ Hold(m, "paid", paid)
  /\ Reads

\* CreateCreditNote, createDraft FALSE: the invoice is read again.
Credit(m) ==
  /\ pc[m] = "credit"
  /\ IF invoice.status = "DRAFT"
     THEN Leave(m, "idle")
     ELSE Goto(m, "finalize") /\ Hold(m, "invoice", invoice)
  /\ Reads

\* Mutant: the invoice is written back, but not marked as final.
FinalizeUnmarked(m) ==
  /\ pc[m] = "finalize"
  /\ invoice' = held[m].invoice
  /\ Keep(m, "save credit note")
  /\ UNCHANGED <<stored, deleted, manuscript, transaction>>
  /\ Writes

\* Mutant: the refund is asked for before the credit note is saved.
FinalizeThenRefund(m) ==
  /\ pc[m] = "finalize"
  /\ invoice' = [held[m].invoice EXCEPT !.status = "FINAL"]
  /\ Keep(m, IF held[m].paid THEN "refund" ELSE "save credit note")
  /\ UNCHANGED <<stored, deleted, manuscript, transaction>>
  /\ Writes

Finalize(m) ==
  /\ pc[m] = "finalize"
  /\ invoice' = [held[m].invoice EXCEPT !.status = "FINAL"]
  /\ Keep(m, "save credit note")
  /\ UNCHANGED <<stored, deleted, manuscript, transaction>>
  /\ Writes

\* Mutant: without a payment the handler ends in an error.
AfterCreditThrows(m) == IF held[m].paid THEN Keep(m, "refund") ELSE Leave(m, "idle")

AfterCredit(m) == IF held[m].paid THEN Keep(m, "refund") ELSE Leave(m, "done")

SaveCreditNote(m) ==
  /\ pc[m] = "save credit note"
  /\ creditNotes' = [creditNotes EXCEPT ![m] = creditNotes[m] + 1]
  /\ AfterCredit(m)
  /\ UNCHANGED <<rows, paid, refunds, failures, history>>

\* CreditNoteRepo.save answers with a left when its insert fails: not looked at.
LoseCreditNote(m) ==
  /\ pc[m] = "save credit note"
  /\ failures < MaxFailures
  /\ failures' = failures + 1
  /\ unnoticed' = unnoticed \cup {m}
  /\ AfterCredit(m)
  /\ UNCHANGED <<rows, world, eligibleAuthor>>

\* The e-mail that asks for the refund.
Refund(m) == /\ pc[m] = "refund"
             /\ refunds' = refunds \cup {m}
             /\ Leave(m, "done")
             /\ UNCHANGED <<rows, creditNotes, paid, failures, history>>

WriteEligible(m) ==
  /\ pc[m] = "write eligible"
  /\ manuscript' = [manuscript EXCEPT !.taEligible = m \in Eligible]
  /\ eligibleAuthor' = IF m \in Eligible THEN manuscript.author ELSE Nobody
  /\ Keep(m, "write approved")
  /\ UNCHANGED <<stored, deleted, invoice, transaction, world, failures, unnoticed>>

WriteApproved(m) ==
  /\ pc[m] = "write approved"
  /\ manuscript' = [manuscript EXCEPT !.taFundingApproved = m \in Approved]
  /\ Keep(m, IF held[m].invoice.status \in {"ACTIVE", "FINAL"} /\ m \in Approved
             THEN "credit" ELSE "decide")
  /\ UNCHANGED <<stored, deleted, invoice, transaction>>
  /\ Writes

\* UpdateTransactionOnTADecision
ReadToDecide(m) == /\ pc[m] = "decide"
                   /\ Goto(m, "decided")
                   /\ Hold(m, "manuscript", manuscript)
                   /\ Reads

\* Mutant: nobody thought of an approval.
DecisionNoDelete(flags, status, accepted) ==
  IF flags.taEligible
  THEN CASE flags.taFundingApproved -> "undefined"
         [] accepted /\ status # "ACTIVE" /\ ~flags.taFundingApproved -> "Activate"
         [] OTHER -> "Ignore"
  ELSE IF accepted THEN "Activate" ELSE "undefined"

Decision(flags, status, accepted) ==
  IF flags.taEligible
  THEN CASE accepted /\ flags.taFundingApproved -> "Delete"
         [] ~accepted /\ flags.taFundingApproved -> "undefined"
         [] accepted /\ status # "ACTIVE" /\ ~flags.taFundingApproved -> "Activate"
         [] OTHER -> "Ignore"
  ELSE IF accepted THEN "Activate" ELSE "undefined"

\* No decision: the use case returns undefined, the handler throws on isLeft.
Decide(m) ==
  /\ pc[m] = "decided"
  /\ LET decision == Decision(held[m].manuscript, invoice.status, invoice.accepted) IN
     \/ decision = "Activate" /\ Keep(m, "activate")
     \/ decision = "Delete" /\ Keep(m, "find manuscript")
     \/ decision = "Ignore" /\ Leave(m, "done")
     \/ decision = "undefined" /\ Leave(m, "idle")
  /\ Reads

\* SetTransactionStatusToActive: dateAccepted is there, or nothing was decided.
Activate(m) ==
  /\ pc[m] = "activate"
  /\ IF "transactions" \in stored
     THEN transaction' = "ACTIVE" /\ Keep(m, "announce")
     ELSE Leave(m, "idle") /\ UNCHANGED transaction
  /\ UNCHANGED <<stored, deleted, manuscript, invoice>>
  /\ Writes

\* The InvoiceCreated event and the invitation to pay.
Announce(m) == /\ pc[m] = "announce"
               /\ m \in Accepted => "ACTIVE" \in ConfirmedAs
               /\ Leave(m, "done")
               /\ Reads

-----------------------------------------------------------------------------
(* SubmissionPeerReviewCycleCheckPassed and SubmissionQualityCheckPassed.     *)

\* An article of a free type: the deletion is called without a context, which
\* Authorize reads: it throws, at every delivery.
ReceiveAcceptance(m) ==
  /\ m \in Accepted
  /\ \/ "articles" \notin stored /\ Receive(m, "done") /\ UNCHANGED locals
     \/ /\ "articles" \in stored
        /\ "invoice_items" \notin stored \/ m \notin Invoiceable
        /\ Receive(m, "idle") /\ UNCHANGED locals
     \/ /\ {"articles", "invoice_items"} \subseteq stored /\ m \in Invoiceable
        /\ IF "invoices" \in deleted
           THEN Receive(m, "done") /\ UNCHANGED locals
           ELSE Receive(m, "edit") /\ Hold(m, "existing", manuscript)
  /\ Reads

AcceptedTransaction(m) ==
  /\ pc[m] = "accepted"
  /\ IF "transactions" \notin stored THEN Leave(m, "idle")
     ELSE IF transaction # "DRAFT" THEN Leave(m, "done")
     ELSE Keep(m, IF held[m].existing.taEligible THEN "date" ELSE "load accepted")
  /\ Reads

\* Eligible for an agreement: only the column dateAccepted.
DateOnly(m) == /\ pc[m] = "date"
               /\ invoice' = [invoice EXCEPT !.accepted = TRUE]
               /\ Leave(m, "done")
               /\ UNCHANGED <<stored, deleted, manuscript, transaction>>
               /\ Writes

\* UpdateTransactionOnAcceptManuscript
LoadAccepted(m) == /\ pc[m] = "load accepted"
                   /\ Goto(m, "accept active")
                   /\ Hold(m, "invoice", invoice)
                   /\ Reads

ActivateAccepted(m) == /\ pc[m] = "accept active"
                       /\ transaction' = "ACTIVE"
                       /\ Keep(m, "accept date")
                       /\ UNCHANGED <<stored, deleted, manuscript, invoice>>
                       /\ Writes

DateAccepted(m) == /\ pc[m] = "accept date"
                   /\ invoice' = [held[m].invoice EXCEPT !.accepted = TRUE]
                   /\ Keep(m, "announce")
                   /\ UNCHANGED <<stored, deleted, manuscript, transaction>>
                   /\ Writes

\* Nothing to pay: the invoice is confirmed in the author's place.
AcceptedForFree(m) == /\ pc[m] = "announce" /\ m \in Accepted
                      /\ "FINAL" \in ConfirmedAs
                      /\ Keep(m, "auto confirm")
                      /\ Reads

Confirmable == transaction = "ACTIVE" /\ invoice.status = "DRAFT"

\* ConfirmInvoice (see InvoiceConfirmation), here in one step. For a publication
\* the payer's country is the author's, which may be a sanctioned one.
AutoConfirm(m) ==
  /\ pc[m] = "auto confirm"
  /\ IF Confirmable
     THEN /\ \E s \in IF m \in Accepted THEN {"FINAL"} ELSE ConfirmedAs :
               invoice' = [invoice EXCEPT !.status = s]
          /\ Leave(m, "done")
     ELSE /\ Leave(m, IF m \in Accepted THEN "idle" ELSE "done")
          /\ UNCHANGED invoice
  /\ UNCHANGED <<stored, deleted, manuscript, transaction>>
  /\ Writes

-----------------------------------------------------------------------------
(* ArticlePublished: EpicOnArticlePublished. It does not look at deleted.     *)

ReceivePublication(m) ==
  /\ m \in Published
  /\ IF "articles" \in stored
     THEN Receive(m, "publish") /\ Hold(m, "manuscript", manuscript)
     ELSE Receive(m, "idle") /\ UNCHANGED locals
  /\ Reads

MarkAsPublished(m) ==
  /\ pc[m] = "publish"
  /\ manuscript' = held[m].manuscript
  /\ Keep(m, "published")
  /\ UNCHANGED <<stored, deleted, invoice, transaction>>
  /\ Writes

PublishedInvoice(m) ==
  /\ pc[m] = "published"
  /\ IF "invoice_items" \in stored
     THEN Goto(m, "publish transaction") /\ Hold(m, "invoice", invoice)
     ELSE Leave(m, "done")
  /\ Reads

\* Mutant: the transaction stays a draft.
ActivatePublishedNot(m) ==
  /\ pc[m] = "publish transaction"
  /\ IF "transactions" \in stored THEN Keep(m, "publish date") ELSE Leave(m, "done")
  /\ UNCHANGED rows
  /\ Writes

ActivatePublished(m) ==
  /\ pc[m] = "publish transaction"
  /\ IF "transactions" \in stored
     THEN transaction' = "ACTIVE" /\ Keep(m, "publish date")
     ELSE Leave(m, "done") /\ UNCHANGED transaction
  /\ UNCHANGED <<stored, deleted, manuscript, invoice>>
  /\ Writes

DatePublished(m) ==
  /\ pc[m] = "publish date"
  /\ invoice' = IF held[m].invoice.accepted THEN invoice
                ELSE [held[m].invoice EXCEPT !.accepted = TRUE]
  /\ IF held[m].invoice.status = "DRAFT" THEN Keep(m, "auto confirm") ELSE Leave(m, "done")
  /\ UNCHANGED <<stored, deleted, manuscript, transaction>>
  /\ Writes

-----------------------------------------------------------------------------
(* The payer, by the web application, at any time; what goes wrong.           *)

Acted == overlapped' = {m \in Messages : InFlight(m)}

ConfirmInvoice ==
  /\ Confirmable
  /\ \E s \in ConfirmedAs : invoice' = [invoice EXCEPT !.status = s]
  /\ Acted
  /\ UNCHANGED <<stored, deleted, manuscript, transaction, world, pc, held, row, failures,
                 history>>

PayInvoice ==
  /\ invoice.status = "ACTIVE"
  /\ invoice' = [invoice EXCEPT !.status = "FINAL"]
  /\ paid' = TRUE
  /\ Acted
  /\ UNCHANGED <<stored, deleted, manuscript, transaction, creditNotes, refunds, pc,
                 held, row, failures, history>>

Failing == failures < MaxFailures /\ failures' = failures + 1

\* A statement throws, or the process ends: the message comes again.
Fail(m) == /\ InFlight(m) /\ Failing
           /\ Leave(m, "again")
           /\ UNCHANGED <<rows, world, history>>

\* Failures the code catches: in the deletion after a TA decision, and in the
\* whole of EpicOnArticlePublished once it has the manuscript.
Swallow(m) ==
  /\ InFlight(m) /\ Failing
  /\ \/ /\ m \in Eligibility
        /\ pc[m] \in {"find manuscript", "find invoice", "find transaction", "deleting"}
        /\ Leave(m, "done")
     \/ m \in Published /\ pc[m] # "publish" /\ Leave(m, "done")
     \/ pc[m] = "publish" /\ Keep(m, "published")
  /\ unnoticed' = unnoticed \cup {m}
  /\ UNCHANGED <<rows, world, eligibleAuthor>>

\* The queue delivers once more what was handled.
Redeliver(m) == /\ pc[m] = "done" /\ Failing
                /\ Goto(m, "idle")
                /\ UNCHANGED <<rows, world, locals, history>>

Receives(m) ==
  \/ ReceiveSubmission(m) \/ ReceiveReturned(m) \/ ReceiveNotice(m)
  \/ ReceiveAcceptance(m) \/ ReceivePublication(m)

Handle(m) ==
  \/ CreateManuscript(m) \/ SaveRow(m) \/ Created(m)
  \/ FindManuscript(m) \/ FindInvoice(m) \/ FindTransaction(m)
  \/ DeleteRow(m) \/ RestoreRow(m)
  \/ ReadToEdit(m) \/ EditManuscript(m) \/ CompareAuthor(m)
  \/ ResetEligibility(m) \/ FindAuthor(m) \/ WriteAuthor(m)
  \/ FindNoticedInvoice(m) \/ FindPayments(m)
  \/ Credit(m) \/ Finalize(m) \/ SaveCreditNote(m) \/ Refund(m)
  \/ WriteEligible(m) \/ WriteApproved(m) \/ ReadToDecide(m) \/ Decide(m)
  \/ Activate(m) \/ Announce(m)
  \/ AcceptedTransaction(m) \/ DateOnly(m) \/ LoadAccepted(m)
  \/ ActivateAccepted(m) \/ DateAccepted(m) \/ AcceptedForFree(m) \/ AutoConfirm(m)
  \/ MarkAsPublished(m) \/ PublishedInvoice(m) \/ ActivatePublished(m) \/ DatePublished(m)

Next == \/ \E m \in Messages : \/ Receives(m) \/ Handle(m)
                               \/ LoseItem(m) \/ LoseCreditNote(m)
                               \/ Fail(m) \/ Swallow(m) \/ Redeliver(m)
        \/ ConfirmInvoice \/ PayInvoice

Spec == Init /\ [][Next]_vars

\* A handler runs to its end, and the queue hands out an approval that is not
\* settled again and again, whatever else it hands out in between. The other
\* messages may never arrive, and the payer may never come.
Fairness == /\ WF_vars(\E m \in Messages : Handle(m))
            /\ \A m \in Approved : SF_vars(Receives(m))

FairSpec == Spec /\ Fairness

-----------------------------------------------------------------------------
(* Properties.                                                                *)

\* Confirmed is issued, or, for a sanctioned country, PENDING until somebody looks.
Confirmed == invoice.status # "DRAFT"

\* A submission not yet accepted is deleted with all its rows or not at all,
\* when no delivery is pending and no failure was hidden (SoftDeleteDraftInvoice,
\* its undoing and CreateTransaction write four rows without a transaction).
DeletedTogether ==
  AtRest /\ transaction = "DRAFT" /\ unnoticed = {} => deleted \in {{}, stored}

\* An invoice with a credit note is FINAL, for good: no whole-row write of an
\* object loaded before the credit note brings an older status back.
CreditedIsFinal ==
  (\E m \in DOMAIN creditNotes : creditNotes[m] > 0) => invoice.status = "FINAL"

\* A confirmed invoice, PENDING or issued, is not made a draft again nor deleted,
\* except by a handler that loaded it before the payer acted (delete and restore
\* write status too).
ConfirmedIsKept ==
  [][overlapped = {} /\ Confirmed => Confirmed' /\ deleted' \subseteq deleted]_vars

\* When no delivery failed, the eligibility for an agreement holds for the author
\* it was decided for, unless an acceptance named another one: a submission
\* message with a new author takes it away (CompareAuthor, ResetEligibility).
EligibilityOfAuthor ==
  AtRest /\ failures = 0 /\ manuscript.taEligible =>
    \/ eligibleAuthor = manuscript.author
    \/ \E m \in Accepted : AuthorOf[m] = manuscript.author

\* A message inserts a second credit note only if it was delivered again: each
\* one beyond the first cost a failure (nothing looks for an existing one).
CreditedOncePerDelivery ==
  \A m \in DOMAIN creditNotes : creditNotes[m] <= 1 + failures

\* A refund is asked for only when money came in, and names a credit note that
\* was inserted, unless the error of the insert was the one nobody looked at.
RefundIsCredited ==
  \A m \in refunds : paid /\ (creditNotes[m] > 0 \/ m \in unnoticed)

\* A withdrawal is over only when nothing is left to pay for: credited, deleted,
\* or, between acceptance and confirmation, left to the payer's confirmation.
WithdrawnIsClosed ==
  [][\A m \in Withdrawn :
       InFlight(m) /\ pc'[m] = "done" =>
         \/ creditNotes'[m] > 0 \/ m \in unnoticed'
         \/ deleted' = stored'
         \/ transaction = "ACTIVE" /\ ~Confirmed
         \/ m \in overlapped /\ Confirmed]_vars

\* The publication of an article with an invoice leaves that invoice confirmed,
\* deleted or not, when no failure was hidden: issued, or PENDING when its author
\* is from a sanctioned country.
PublicationConfirms ==
  [][\A m \in Published :
       pc[m] = "auto confirm" /\ pc'[m] = "done" /\ m \notin unnoticed' => Confirmed']_vars

\* An approval is applied in the end once the article is accepted: the queue
\* repeats the one that came before the acceptance, which made the handler throw.
\* The draft is deleted or the invoice credited, unless the transaction was active
\* before it was issued: then the deletion does nothing, and the payer is asked. A
\* PENDING invoice, neither a draft nor issued, is left alone for the same reason.
ApprovalIsApplied ==
  \A m \in Approved :
    (pc[m] # "done" /\ invoice.accepted /\ "transactions" \in stored) ~>
      /\ pc[m] = "done"
      /\ deleted = stored \/ creditNotes[m] > 0 \/ transaction = "ACTIVE" \/ m \in unnoticed
=============================================================================
