-------------------------- MODULE ErpRegistration --------------------------
(* The registration of invoices, revenue recognitions, credit notes,         *)
(* payments and reversals in NetSuite. One scheduler (schedulerLoader) runs   *)
(* five jobs for ever, one after the other; each selects the rows that have   *)
(* no ERP reference and publishes them one by one. In between, payers,        *)
(* editors and administrators act on the same invoices. A call to the ERP and *)
(* the saving of its reference are two steps, and each of them may fail.      *)
EXTENDS Naturals, FiniteSets

CONSTANTS Invoices,
          Free,        \* invoices whose total is 0: confirmed as FINAL, not sent
          Sanctioned,  \* invoices whose payer may be from a sanctioned country
          Broken,      \* invoices with no payer, address or catalog to publish
          Issued,      \* bound: the invoices confirmed before the first round
          Notes,       \* bound: the credit notes that may be made
          InvoiceOf,   \* the invoice each of them is for
          Publishing,  \* bound: those whose article may be published
          Limit,       \* LIMIT of the selections that have one (25)
          MaxFailures  \* bound on the failures of calls and the restarts

ASSUME InvoiceAssumption == /\ IsFiniteSet(Invoices)
                            /\ Invoices # {}
                            /\ Free \subseteq Invoices
                            /\ Sanctioned \subseteq Invoices
                            /\ Broken \subseteq Invoices
                            /\ Issued \subseteq Invoices
                            /\ IsFiniteSet(Notes) /\ Notes \cap Invoices = {}
                            /\ InvoiceOf \in [Notes -> Invoices]
                            /\ Publishing \subseteq Invoices
                            /\ Limit \in Nat \ {0}
                            /\ MaxFailures \in Nat

VARIABLES status,      \* the row of every invoice
          creditNote,  \* every credit note, by its reason
          paid,        \* invoices with a COMPLETED payment
          published,   \* invoices of an article with a publication date
          documents,   \* how many documents of each kind the ERP has
          reference,   \* the rows of erp_references
          job,         \* the job the scheduler is at
          batch,       \* the rows it has selected and not done: invoices or notes
          pc,          \* where it is in the publishing of one of them
          held,        \* the objects it holds
          failures,
          lost,        \* history: invoices in the ERP whose answer was lost
          reopened     \* history: FINAL invoices a job has overwritten

rows == <<status, creditNote, paid, published>>
scheduler == <<job, batch, pc, held>>
history == <<lost, reopened>>
vars == <<rows, documents, reference, scheduler, failures, history>>

Kinds == {"invoice", "recognition", "creditNote", "payment", "reversal"}

\* Mutant: the queue is not cloned for the next round.
NextJobOnce == [invoice |-> "recognition", recognition |-> "creditNote",
                creditNote |-> "payment", payment |-> "reversal",
                reversal |-> "none"]

\* The queue of jobs, in its order; after the last one comes the next round.
NextJob == [invoice |-> "recognition", recognition |-> "creditNote",
            creditNote |-> "payment", payment |-> "reversal",
            reversal |-> "invoice"]

\* "object Object" is String({ err }): what a failed reversal has as reference.
Values == {"none", "registered", "NON_INVOICEABLE", "NONEXISTENT_INVOICE",
           "BAD_DEBT", "object Object"}

Statuses == {"DRAFT", "ACTIVE", "PENDING", "FINAL"}
Steps == {"update", "register", "save", "write back"}

\* Credit notes have documents and references of their own.
Entities == Invoices \cup Notes

Nothing == [row |-> CHOOSE i \in Invoices : TRUE, status |-> "DRAFT",
            confirmation |-> "none", value |-> "none"]

TypeOK == /\ status \in [Invoices -> Statuses]
          /\ creditNote \in [Notes -> {"none", "announced", "bad-debt", "other"}]
          /\ paid \subseteq Invoices /\ published \subseteq Invoices
          /\ documents \in [Kinds -> [Entities -> Nat]]
          /\ reference \in [Kinds -> [Entities -> Values]]
          /\ job \in Kinds /\ batch \subseteq Entities
          /\ pc \in {"select", "next"} \cup Steps
          /\ held \in [row : Entities, status : Statuses,
                       confirmation : Values, value : Values]
          /\ failures \in 0..MaxFailures
          /\ lost \subseteq Invoices /\ reopened \subseteq Invoices

\* The statuses a confirmation may give.
Confirmed(i) == IF i \in Free THEN {"FINAL"}
                ELSE IF i \in Sanctioned THEN {"ACTIVE", "PENDING"} ELSE {"ACTIVE"}

Init == /\ status \in [Invoices -> Statuses]
        /\ \A i \in Invoices : status[i] \in IF i \in Issued THEN Confirmed(i) ELSE {"DRAFT"}
        /\ creditNote = [n \in Notes |-> "none"]
        /\ paid = {} /\ published = {}
        /\ documents = [k \in Kinds |-> [e \in Entities |-> 0]]
        /\ reference = [k \in Kinds |-> [e \in Entities |-> "none"]]
        /\ job = "invoice" /\ batch = {} /\ pc = "select" /\ held = Nothing
        /\ failures = 0 /\ lost = {} /\ reopened = {}

-----------------------------------------------------------------------------
(* What others do to the same rows (InvoiceConfirmation, Payments and         *)
(* Submissions have the details).                                             *)

Saved(n) == creditNote[n] \in {"bad-debt", "other"}

Credited(i) == \E n \in Notes : InvoiceOf[n] = i /\ Saved(n)

Others == UNCHANGED <<documents, reference, scheduler, failures, history>>

ConfirmInvoice(i) ==
  /\ status[i] = "DRAFT"
  /\ \E s \in Confirmed(i) : status' = [status EXCEPT ![i] = s]
  /\ UNCHANGED <<creditNote, paid, published>>
  /\ Others

CompletePayment(i) ==
  /\ status[i] = "ACTIVE" /\ i \notin paid
  /\ paid' = paid \cup {i}
  /\ status' = [status EXCEPT ![i] = "FINAL"]
  /\ UNCHANGED <<creditNote, published>>
  /\ Others

\* The invoice of a credit note is FINAL first; the note is saved later. That
\* the invoice has a credit note already is not looked at.
MarkAsFinal(n) ==
  /\ creditNote[n] = "none"
  /\ status[InvoiceOf[n]] # "DRAFT"
  /\ status' = [status EXCEPT ![InvoiceOf[n]] = "FINAL"]
  /\ creditNote' = [creditNote EXCEPT ![n] = "announced"]
  /\ UNCHANGED <<paid, published>>
  /\ Others

SaveCreditNote(n) ==
  /\ creditNote[n] = "announced"
  /\ \E reason \in {"bad-debt", "other"} :
       creditNote' = [creditNote EXCEPT ![n] = reason]
  /\ UNCHANGED <<status, paid, published>>
  /\ Others

PublishArticle(i) ==
  /\ i \in Publishing \ published
  /\ published' = published \cup {i}
  /\ UNCHANGED <<status, creditNote, paid>>
  /\ Others

-----------------------------------------------------------------------------
(* The selection of every job, and the loop over what it has selected.        *)

\* The invoice a selected row is about: a reversal is selected by a credit note.
InvoiceIn(r) == IF r \in Notes THEN InvoiceOf[r] ELSE r

\* What the document of a row, and its reference, belong to.
Entity(k, r) == IF k = "reversal" THEN InvoiceIn(r) ELSE r

Registered(k, e) == reference[k][e] # "none"

Issuable(i) == status[i] \in {"ACTIVE", "FINAL"} /\ ~Credited(i)

ReadyForRegistration(i) == i \in Invoices /\ Issuable(i)

ReadyForRecognition(i) == /\ i \in Invoices /\ Issuable(i)
                          /\ reference["invoice"][i] = "registered"
                          /\ i \in published

ReadyPayment(i) == i \in paid /\ reference["invoice"][i] = "registered"

\* Mutant: an invoice that is FINAL counts as one that is not.
ReadyForReversalActive(n) == /\ n \in Notes /\ Saved(n)
                             /\ status[InvoiceOf[n]] = "ACTIVE"
                             /\ Registered("creditNote", n)
                             /\ Registered("recognition", InvoiceOf[n])

\* Mutant: the join with the reference of the recognition is left out.
ReadyForReversalUnrecognized(n) == /\ n \in Notes /\ Saved(n)
                                   /\ status[InvoiceOf[n]] = "FINAL"
                                   /\ Registered("creditNote", n)

\* One row for every credit note in the join, so that an invoice with two of
\* them is selected twice.
ReadyForReversal(n) == /\ n \in Notes /\ Saved(n)
                       /\ status[InvoiceOf[n]] = "FINAL"
                       /\ Registered("creditNote", n)
                       /\ Registered("recognition", InvoiceOf[n])

Ready(k, r) == /\ ~Registered(k, Entity(k, r))
               /\ k = "invoice" => ReadyForRegistration(r)
               /\ k = "recognition" => ReadyForRecognition(r)
               /\ k = "creditNote" => r \in Notes /\ Saved(r)
               /\ k = "payment" => ReadyPayment(r)
               /\ k = "reversal" => ReadyForReversal(r)

Limited == {"invoice", "recognition", "payment"}

\* Rows come in any order: a selection with a limit may be any part that fits.
Select ==
  /\ pc = "select" /\ pc' = "next"
  /\ LET R == {r \in Entities : Ready(job, r)}
     IN /\ batch' \in SUBSET R
        /\ batch' # R => job \in Limited /\ Cardinality(batch') = Limit
        /\ job \in Limited => Cardinality(batch') <= Limit
  /\ UNCHANGED <<rows, documents, reference, job, held, failures, history>>

EndJob == /\ pc = "next" /\ batch = {}
          /\ job' = NextJob[job] /\ pc' = "select"
          /\ UNCHANGED <<rows, documents, reference, batch, held, failures, history>>

\* Mutant: the first error ends the job instead of being collected.
GiveUpAtOnce(r) == batch' = {} /\ pc' = "next" /\ held' = Nothing

\* An error is pushed to the list and the loop goes on with the next row.
GiveUp(r) == batch' = batch \ {r} /\ pc' = "next" /\ held' = Nothing

Finish(r) == batch' = batch \ {r} /\ pc' = "next" /\ held' = Nothing

-----------------------------------------------------------------------------
(* The five use cases, up to the first write or call.                         *)

Load(r, value) == [row |-> r, status |-> status[InvoiceIn(r)],
                   confirmation |-> reference["invoice"][InvoiceIn(r)], value |-> value]

Starts(k, r) == job = k /\ pc = "next" /\ r \in batch

Reads == UNCHANGED <<rows, documents, reference, job, failures, history>>

\* Payer, address and catalog are read first; without them the use case ends.
UnlessBroken(r) ==
  \/ InvoiceIn(r) \in Broken /\ GiveUp(r)
  \/ /\ InvoiceIn(r) \notin Broken
     /\ pc' = "update" /\ held' = Load(r, "registered") /\ UNCHANGED batch

\* Only the total is looked at before.
PublishInvoiceToErp(i) ==
  /\ Starts("invoice", i)
  /\ \/ /\ i \in Free
        /\ pc' = "save" /\ held' = Load(i, "NON_INVOICEABLE") /\ UNCHANGED batch
     \/ i \notin Free /\ UnlessBroken(i)
  /\ Reads

\* An invoice with a reference has a payer, an address and a total above 0, and
\* one that is credited after its selection is credited after its publication.
PublishRevenueRecognitionToErp(i) ==
  /\ Starts("recognition", i)
  /\ pc' = "update" /\ held' = Load(i, "registered") /\ UNCHANGED batch
  /\ Reads

PublishCreditNoteToErp(n) ==
  /\ Starts("creditNote", n)
  /\ UnlessBroken(n)
  /\ Reads

PublishPaymentToErp(i) ==
  /\ Starts("payment", i)
  /\ pc' = "register" /\ held' = Load(i, "registered") /\ UNCHANGED batch
  /\ Reads

\* The reason is that of a credit note of the invoice, whichever comes first; a
\* reversal that is there already, by another row, is not looked for.
PublishRevenueRecognitionReversal(n) ==
  /\ Starts("reversal", n)
  /\ \E first \in Notes :
       /\ InvoiceOf[first] = InvoiceIn(n) /\ Saved(first)
       /\ \/ /\ creditNote[first] = "bad-debt"
             /\ pc' = "save" /\ held' = Load(n, "BAD_DEBT")
          \/ /\ creditNote[first] # "bad-debt"
             /\ pc' = "register" /\ held' = Load(n, "registered")
  /\ UNCHANGED batch
  /\ Reads

-----------------------------------------------------------------------------
(* Their writes and calls, with the invoice they hold.                        *)

\* The whole row is written from the object that was loaded.
WriteInvoice(i) ==
  /\ status' = [status EXCEPT ![i] = held.status]
  /\ reopened' = IF status[i] = "FINAL" /\ held.status # "FINAL"
                   THEN reopened \cup {i} ELSE reopened
  /\ UNCHANGED <<creditNote, paid, published, documents, reference, job,
                 failures, lost>>

\* A credit note of an invoice that the ERP does not have, by its reference.
Nonexistent == /\ job = "creditNote"
               /\ held.confirmation \in {"none", "NON_INVOICEABLE"}

UpdateInvoice(r) ==
  /\ pc = "update" /\ held.row = r
  /\ WriteInvoice(InvoiceIn(r))
  /\ \/ /\ Nonexistent
        /\ pc' = "save" /\ held' = [held EXCEPT !.value = "NONEXISTENT_INVOICE"]
     \/ /\ ~Nonexistent
        /\ pc' = "register" /\ UNCHANGED held
  /\ UNCHANGED batch

\* Mutant: nothing asks the ERP for the document first.
FoundNever(e) == FALSE

\* getExistingRevenueRecognition, and the payment with the same refName.
Found(e) == \/ job = "recognition" /\ documents[job][e] = 1
            \/ job = "payment" /\ documents[job][e] > 0

Create(e) == documents' = IF Found(e) THEN documents
                          ELSE [documents EXCEPT ![job][e] = @ + 1]

RegisterInErp(r) ==
  /\ pc = "register" /\ held.row = r
  /\ Create(Entity(job, r))
  /\ pc' = "save"
  /\ UNCHANGED <<rows, reference, job, batch, held, failures, history>>

Lose(i) == lost' = IF job = "invoice" /\ i \notin Free THEN lost \cup {i} ELSE lost

\* The call throws, before or after the ERP has made the document (a credit
\* note is made and patched by two calls). A reversal's error is its result.
RegistrationFails(r) ==
  /\ pc = "register" /\ held.row = r
  /\ failures < MaxFailures /\ failures' = failures + 1
  /\ \/ UNCHANGED <<documents, lost>>
     \/ Create(Entity(job, r)) /\ Lose(InvoiceIn(r))
  /\ \/ job # "reversal" /\ GiveUp(r)
     \/ /\ job = "reversal" /\ pc' = "save"
        /\ held' = [held EXCEPT !.value = "object Object"]
        /\ UNCHANGED batch
  /\ UNCHANGED <<rows, reference, job, reopened>>

\* After the saving, or its failure: a reversal writes the invoice back.
AfterSave(r) ==
  \/ /\ job = "reversal" /\ held.value # "BAD_DEBT"
     /\ pc' = "write back" /\ UNCHANGED <<batch, held>>
  \/ /\ ~(job = "reversal" /\ held.value # "BAD_DEBT")
     /\ Finish(r)

\* The table has no key: a second reversal of an invoice adds a second row. Of
\* the two values the newer one is kept, the selections ask only if there is one.
SaveReference(r) ==
  /\ pc = "save" /\ held.row = r
  /\ reference' = [reference EXCEPT ![job][Entity(job, r)] = held.value]
  /\ AfterSave(r)
  /\ UNCHANGED <<rows, documents, job, failures, history>>

\* The left of save is ignored, or is the error of this row: never tried again
\* in this round, and the row has no reference in the next.
SaveFails(r) ==
  /\ pc = "save" /\ held.row = r
  /\ failures < MaxFailures /\ failures' = failures + 1
  /\ Lose(InvoiceIn(r))
  /\ AfterSave(r)
  /\ UNCHANGED <<rows, documents, reference, job, reopened>>

WriteBack(r) == /\ pc = "write back" /\ held.row = r
                /\ WriteInvoice(InvoiceIn(r))
                /\ Finish(r)

\* The process stops; the next one begins with the first job. What it had
\* asked the ERP for may have been done.
Restart ==
  /\ pc # "select"
  /\ failures < MaxFailures /\ failures' = failures + 1
  /\ \/ pc # "save" /\ UNCHANGED <<documents, lost>>
     \/ pc = "register" /\ Create(Entity(job, held.row)) /\ Lose(InvoiceIn(held.row))
     \/ pc = "save" /\ UNCHANGED documents /\ Lose(InvoiceIn(held.row))
  /\ job' = "invoice" /\ batch' = {} /\ pc' = "select" /\ held' = Nothing
  /\ UNCHANGED <<rows, reference, reopened>>

-----------------------------------------------------------------------------
Processing(r) ==
  \/ PublishInvoiceToErp(r) \/ PublishRevenueRecognitionToErp(r)
  \/ PublishCreditNoteToErp(r) \/ PublishPaymentToErp(r)
  \/ PublishRevenueRecognitionReversal(r)
  \/ UpdateInvoice(r) \/ RegisterInErp(r) \/ SaveReference(r) \/ WriteBack(r)

Failing(r) == RegistrationFails(r) \/ SaveFails(r)

Running == Select \/ EndJob \/ \E r \in Entities : Processing(r) \/ Failing(r)

Acting == \/ \E i \in Invoices : ConfirmInvoice(i) \/ CompletePayment(i) \/ PublishArticle(i)
          \/ \E n \in Notes : MarkAsFinal(n) \/ SaveCreditNote(n)

Next == Running \/ Restart \/ Acting

Spec == Init /\ [][Next]_vars

\* The scheduler goes on (setIntervalAsync); nobody else has to.
FairSpec == Spec /\ WF_vars(Running)

-----------------------------------------------------------------------------
RegisteredNotes(i) == {n \in Notes : InvoiceOf[n] = i /\ Registered("creditNote", n)}

\* No document is made twice without a failure in between, however often the
\* jobs come by: at most one more than the failures. A revenue recognition and
\* a payment, which are looked up before, are never made twice at all. Only a
\* reversal may come once for every credit note of the invoice in the ERP: the
\* join selects one row for each, and nothing looks for the first reversal.
OncePerFailure ==
  /\ \A e \in Entities :
       /\ \A k \in Kinds \ {"reversal"} : documents[k][e] <= 1 + failures
       /\ documents["recognition"][e] <= 1 /\ documents["payment"][e] <= 1
  /\ \A i \in Invoices :
       documents["reversal"][i] <= Cardinality(RegisteredNotes(i)) + failures

\* The books agree with the references: whatever depends on an invoice in the
\* ERP is there only if the invoice is, a reversal only if there is something
\* to reverse, and a credit note is given up as one of an invoice the ERP does
\* not have only if it has none, or has lost the answer that it has.
BooksAgree ==
  /\ \A i \in Invoices :
       /\ \A k \in {"recognition", "payment", "reversal"} :
            documents[k][i] > 0 => documents["invoice"][i] > 0
       /\ documents["reversal"][i] > 0 =>
            /\ documents["recognition"][i] > 0
            /\ \E n \in RegisteredNotes(i) : documents["creditNote"][n] > 0
  /\ \A n \in Notes :
       /\ documents["creditNote"][n] > 0 => documents["invoice"][InvoiceOf[n]] > 0
       /\ reference["creditNote"][n] = "NONEXISTENT_INVOICE" =>
            documents["invoice"][InvoiceOf[n]] = 0 \/ InvoiceOf[n] \in lost
  /\ \A k \in Kinds, e \in Entities : reference[k][e] = "registered" => documents[k][e] > 0

\* Every issued invoice that can be published gets its reference, or is
\* credited first, whatever fails for other invoices of the same batch; and so
\* does the payment of one that has it. (With more broken invoices than Limit
\* this is false: they may fill every selection.)
IssuedIsRegistered ==
  \A i \in Invoices \ (Broken \ Free) :
    /\ status[i] \in {"ACTIVE", "FINAL"} ~> Registered("invoice", i) \/ Credited(i)
    /\ ReadyPayment(i) ~> Registered("payment", i)

\* Recognized revenue of a credited invoice gets its reversal in the end (or the
\* reference that a failed call or a bad debt leaves in its place), unless a job
\* has written an old status over FINAL: then it never does.
RecognizedIsReversed ==
  \A i \in Invoices :
    Credited(i) /\ Registered("recognition", i) ~>
      Registered("reversal", i) \/ i \in reopened
=============================================================================
