------------------------ MODULE InvoiceConfirmation ------------------------
(* How an invoice leaves the draft state: the ConfirmInvoice use case, run  *)
(* by payers and administrators, and UpdateTransactionOnAcceptManuscript,   *)
(* run for queue messages, which confirms an invoice of total 0 itself.     *)
(* Each process is one execution; a step lies between two awaits.  Writes   *)
(* store whole rows, so a row is overwritten by an object read earlier.     *)
EXTENDS InvoiceAggregate, FiniteSets, FiniteSetsExt, Sequences

CONSTANTS Invoices,
          Confirmations,      \* executions of ConfirmInvoice
          Acceptances,        \* deliveries of an acceptance message
          InvoiceOf,          \* the invoice of every execution
          Sanctioned,         \* executions whose payer's country is sanctioned
          AcceptedAtStart,    \* invoices accepted before the first step
          ReferenceFloor,     \* configurations.invoiceReferenceNumber
          OneAtATime,         \* are executions on one invoice kept apart?
          MaxFailures,        \* bound on failing queries
          MaxYear             \* bound on fiscal years

Processes == Confirmations \cup Acceptances

ASSUME ProcessAssumption ==
  /\ InvoiceOf \in [Processes -> Invoices]
  /\ Confirmations \cap Acceptances = {}
ASSUME BoundAssumption ==
  /\ ReferenceFloor \in Nat /\ MaxFailures \in Nat /\ MaxYear \in Nat \ {0}
  /\ OneAtATime \in BOOLEAN
ASSUME FiniteAssumption == IsFiniteSet(Invoices)

VARIABLES invoices,       \* table invoices
          transactions,   \* status of the transaction of every invoice
          total,          \* 0 for a fully discounted invoice, otherwise 1
          payers,         \* the executions that stored a payer of the invoice
          pc,             \* where every execution is
          invoice,        \* the Invoice object an execution holds
          itemsTotal,     \* total of the items it has loaded
          lastNumber,     \* the last invoice number it has read
          year,           \* the current fiscal year
          failures,       \* how many queries have failed
          overlapped      \* history: two executions numbered at the same time

VARIABLES handlersMap, markedAggregates, domainEvents, raised, dispatched

EventClasses == {"InvoiceCreated", "InvoiceConfirmed",
                 "InvoiceMovedToPending", "InvoiceFinalized"}

\* The object an acceptance loads is not the one its confirmation loads.
Objects == Processes \X {"acceptance", "confirmation"}

\* Subscriptions are left out: no handler is registered.
D == INSTANCE DomainEvents
       WITH Aggregates <- Objects, Ids <- Invoices,
            IdOf <- [o \in Objects |-> InvoiceOf[o[1]]],
            Handlers <- {}

dispatcher ==
  <<handlersMap, markedAggregates, domainEvents, raised, dispatched>>
tables == <<invoices, transactions, total, payers>>
locals == <<invoice, itemsTotal, lastNumber>>
world  == <<year, failures, overlapped>>
vars   == <<tables, pc, locals, world, dispatcher>>

ConfirmSteps == {"loaded", "checked", "priced", "payer saved", "number read",
                 "number written", "reread", "numbered", "marked", "written"}
AcceptSteps  == {"draft seen", "accept loaded", "activated", "waivers removed",
                 "waivers applied", "date written", "announced", "auto confirm"}
Ended        == {"done", "skipped", "rejected", "failed"}
Steps        == {"idle"} \cup ConfirmSteps \cup AcceptSteps \cup Ended

InFlight(r) == pc[r] \in ConfirmSteps \cup AcceptSteps

TablesTypeOK == /\ invoices \in [Invoices -> Invoice]
                /\ transactions \in [Invoices -> {"DRAFT", "ACTIVE"}]
                /\ total \in [Invoices -> 0..1]
                /\ payers \in [Invoices -> SUBSET Processes]

ProcessesTypeOK == /\ pc \in [Processes -> Steps]
                   /\ invoice \in [Processes -> Invoice]
                   /\ itemsTotal \in [Processes -> 0..1]
                   /\ lastNumber \in [Processes -> Nat]

WorldTypeOK == /\ year \in 1..MaxYear
               /\ failures \in 0..MaxFailures
               /\ overlapped \in BOOLEAN

TypeOK == TablesTypeOK /\ ProcessesTypeOK /\ WorldTypeOK /\ D!DispatcherTypeOK

Init == /\ invoices = [i \in Invoices |-> DraftInvoice(i \in AcceptedAtStart)]
        /\ transactions =
             [i \in Invoices |-> IF i \in AcceptedAtStart THEN "ACTIVE" ELSE "DRAFT"]
        /\ total \in [Invoices -> 0..1]
        /\ payers = [i \in Invoices |-> {}]
        /\ pc = [r \in Processes |-> "idle"]
        /\ invoice = [r \in Processes |-> DraftInvoice(FALSE)]
        /\ itemsTotal = [r \in Processes |-> 0]
        /\ lastNumber = [r \in Processes |-> 0]
        /\ year = 1
        /\ failures = 0
        /\ overlapped = FALSE
        /\ D!DispatcherInit

-----------------------------------------------------------------------------
Goto(r, step) == pc' = [pc EXCEPT ![r] = step]

\* Under OneAtATime an execution starts only when no other runs on its
\* invoice.  Nothing in the code enforces this.
MayStart(r) ==
  OneAtATime => \A q \in Processes \ {r} : InvoiceOf[q] = InvoiceOf[r] => ~InFlight(q)

\* The repository's update: the whole row, from the object.
Update(i, inv) == invoices' = [invoices EXCEPT ![i] = ToPersistence(inv)]

\* An execution ends and drops the objects it holds.
Finish(r, step) ==
  /\ Goto(r, step)
  /\ invoice' = [invoice EXCEPT ![r] = DraftInvoice(FALSE)]
  /\ itemsTotal' = [itemsTotal EXCEPT ![r] = 0]
  /\ lastNumber' = [lastNumber EXCEPT ![r] = 0]

Keep(r, inv) == invoice' = [invoice EXCEPT ![r] = inv]
Object(r)    == <<r, "confirmation">>

-----------------------------------------------------------------------------
\* ConfirmInvoice, one action between two awaits.

GetInvoiceDetails(r) ==
  /\ \/ r \in Confirmations /\ pc[r] = "idle" /\ MayStart(r)
     \/ pc[r] = "auto confirm"
  /\ Keep(r, invoices[InvoiceOf[r]])
  /\ Goto(r, "loaded")
  /\ UNCHANGED <<tables, itemsTotal, lastNumber, world, dispatcher>>

\* Mutant: the transaction is not looked at.
ConfirmUnaccepted(r) ==
  /\ pc[r] = "loaded"
  /\ \/ invoice[r].status = "DRAFT" /\ Goto(r, "checked") /\ UNCHANGED locals
     \/ invoice[r].status # "DRAFT" /\ Finish(r, "rejected")
  /\ UNCHANGED <<tables, world, dispatcher>>

\* Mutant: the invoice's status is not looked at.
ConfirmAgain(r) ==
  /\ pc[r] = "loaded"
  /\ \/ transactions[InvoiceOf[r]] = "ACTIVE" /\ Goto(r, "checked") /\ UNCHANGED locals
     \/ transactions[InvoiceOf[r]] = "DRAFT" /\ Finish(r, "rejected")
  /\ UNCHANGED <<tables, world, dispatcher>>

\* The invoice was loaded before the transaction is read.
ShouldConfirmInvoice(r) ==
  /\ pc[r] = "loaded"
  /\ \/ /\ transactions[InvoiceOf[r]] = "ACTIVE"
        /\ invoice[r].status = "DRAFT"
        /\ Goto(r, "checked")
        /\ UNCHANGED locals
     \/ /\ \/ transactions[InvoiceOf[r]] = "DRAFT"
           \/ invoice[r].status # "DRAFT"
        /\ Finish(r, "rejected")
  /\ UNCHANGED <<tables, world, dispatcher>>

\* Before the payer is saved, and again once a number is assigned.
GetInvoiceItems(r) ==
  /\ \/ pc[r] = "checked" /\ Goto(r, "priced")
     \/ pc[r] = "reread"  /\ Goto(r, "numbered")
  /\ itemsTotal' = [itemsTotal EXCEPT ![r] = total[InvoiceOf[r]]]
  /\ UNCHANGED <<tables, invoice, lastNumber, world, dispatcher>>

\* createAddress, createPayer and applyVatToInvoice
SavePayer(r) ==
  /\ pc[r] = "priced"
  /\ payers' = [payers EXCEPT ![InvoiceOf[r]] = @ \cup {r}]
  /\ Goto(r, "payer saved")
  /\ UNCHANGED <<invoices, transactions, total, locals, world, dispatcher>>

\* An invoice that will wait for the sanctions check gets no number yet.
WaitsForCheck(r) == r \in Sanctioned /\ itemsTotal[r] > 0

SkipNumber(r) ==
  /\ pc[r] = "payer saved"
  /\ WaitsForCheck(r)
  /\ Goto(r, "numbered")
  /\ UNCHANGED <<tables, locals, world, dispatcher>>

\* getCurrentInvoiceNumber: the largest number issued in the fiscal year.
CurrentInvoiceNumber ==
  Max({0, ReferenceFloor} \cup
      {invoices[i].invoiceNumber : i \in {j \in Invoices : invoices[j].dateIssued = year}})

\* From the read of the last number until the invoice is issued with its own.
Numbering(q) ==
  pc[q] \in {"number read", "number written", "reread", "numbered", "marked"}

ReadLastNumber(r) ==
  /\ pc[r] = "payer saved"
  /\ ~WaitsForCheck(r)
  /\ lastNumber' = [lastNumber EXCEPT ![r] = CurrentInvoiceNumber]
  /\ overlapped' = (overlapped \/ \E q \in Processes : Numbering(q))
  /\ Goto(r, "number read")
  /\ UNCHANGED <<tables, invoice, itemsTotal, year, failures, dispatcher>>

WriteNumber(r) ==
  LET numbered == AssignInvoiceNumber(invoice[r], lastNumber[r])
  IN  /\ pc[r] = "number read"
      /\ Keep(r, numbered)
      /\ Update(InvoiceOf[r], numbered)
      /\ Goto(r, "number written")
      /\ UNCHANGED <<transactions, total, payers, itemsTotal, lastNumber, world,
                     dispatcher>>

\* update answers with the row as it is by now.
RereadInvoice(r) ==
  /\ pc[r] = "number written"
  /\ Keep(r, invoices[InvoiceOf[r]])
  /\ Goto(r, "reread")
  /\ UNCHANGED <<tables, itemsTotal, lastNumber, world, dispatcher>>

\* nextStatus and the mutator it selects; the event is raised before the write.
MarkAs(r, inv, class) ==
  /\ Keep(r, inv)
  /\ D!AddDomainEvent(Object(r), class)
  /\ Goto(r, "marked")

UpdateInvoiceStatus(r) ==
  /\ pc[r] = "numbered"
  /\ \/ /\ itemsTotal[r] = 0
        /\ MarkAs(r, MarkAsFinal(invoice[r], year), "InvoiceFinalized")
     \/ /\ itemsTotal[r] > 0 /\ r \in Sanctioned
        /\ MarkAs(r, MarkAsPending(invoice[r]), "InvoiceMovedToPending")
     \/ /\ itemsTotal[r] > 0 /\ r \notin Sanctioned
        /\ invoice[r].status # "ACTIVE"
        /\ MarkAs(r, MarkAsActive(invoice[r], year), "InvoiceConfirmed")
     \/ /\ itemsTotal[r] > 0 /\ r \notin Sanctioned
        /\ invoice[r].status = "ACTIVE"
        /\ Goto(r, "written")
        /\ UNCHANGED <<invoice, dispatcher>>
  /\ UNCHANGED <<tables, itemsTotal, lastNumber, world>>

WriteStatus(r) ==
  /\ pc[r] = "marked"
  /\ Update(InvoiceOf[r], invoice[r])
  /\ Goto(r, "written")
  /\ UNCHANGED <<transactions, total, payers, locals, world, dispatcher>>

\* Mutant: the use case ends without the dispatch.
EndUndispatched(r) ==
  /\ pc[r] = "written"
  /\ Finish(r, "done")
  /\ UNCHANGED <<tables, world, dispatcher>>

DispatchEvents(r) ==
  /\ pc[r] = "written"
  /\ D!DispatchEventsForAggregate(InvoiceOf[r])
  /\ Finish(r, "done")
  /\ UNCHANGED <<tables, world>>

-----------------------------------------------------------------------------
\* The handler of an acceptance message and UpdateTransactionOnAcceptManuscript.

\* The handler drops the message unless the transaction is a draft.
ReceiveAcceptance(r) ==
  /\ r \in Acceptances
  /\ pc[r] = "idle"
  /\ MayStart(r)
  /\ \/ transactions[InvoiceOf[r]] = "DRAFT" /\ Goto(r, "draft seen")
     \/ transactions[InvoiceOf[r]] # "DRAFT" /\ Goto(r, "skipped")
  /\ UNCHANGED <<tables, locals, world, dispatcher>>

LoadAccepted(r) ==
  /\ pc[r] = "draft seen"
  /\ Keep(r, invoices[InvoiceOf[r]])
  /\ Goto(r, "accept loaded")
  /\ UNCHANGED <<tables, itemsTotal, lastNumber, world, dispatcher>>

ActivateTransaction(r) ==
  /\ pc[r] = "accept loaded"
  /\ transactions' = [transactions EXCEPT ![InvoiceOf[r]] = "ACTIVE"]
  /\ Goto(r, "activated")
  /\ UNCHANGED <<invoices, total, payers, locals, world, dispatcher>>

\* calculateWaivers removes the waivers, then applies those of today, if any;
\* it swallows the failure of either query.
RemoveWaivers(r) ==
  /\ pc[r] = "activated"
  /\ \/ /\ total' = [total EXCEPT ![InvoiceOf[r]] = 1]
        /\ Goto(r, "waivers removed")
        /\ UNCHANGED failures
     \/ /\ failures < MaxFailures
        /\ failures' = failures + 1
        /\ Goto(r, "waivers applied")
        /\ UNCHANGED total
  /\ UNCHANGED <<invoices, transactions, payers, locals, year, overlapped,
                 dispatcher>>

ApplyWaivers(r) ==
  /\ pc[r] = "waivers removed"
  /\ \E t \in 0..1 : total' = [total EXCEPT ![InvoiceOf[r]] = t]
  /\ Goto(r, "waivers applied")
  /\ UNCHANGED <<invoices, transactions, payers, locals, world, dispatcher>>

\* updateInvoiceDateAccepted writes the whole row from the object loaded
\* before the transaction was activated.
WriteDateAccepted(r) ==
  LET dated == [invoice[r] EXCEPT !.accepted = TRUE]
  IN  /\ pc[r] = "waivers applied"
      /\ Keep(r, dated)
      /\ Update(InvoiceOf[r], dated)
      /\ Goto(r, "date written")
      /\ UNCHANGED <<transactions, total, payers, itemsTotal, lastNumber, world,
                     dispatcher>>

\* Mutant: the event is raised and not dispatched.
RaiseCreatedOnly(r) ==
  /\ pc[r] = "date written"
  /\ D!AddDomainEvent(<<r, "acceptance">>, "InvoiceCreated")
  /\ Goto(r, "announced")
  /\ UNCHANGED <<tables, locals, world>>

AnnounceInvoice(r) ==
  /\ pc[r] = "date written"
  /\ D!RaiseAndDispatch(<<r, "acceptance">>, "InvoiceCreated")
  /\ Goto(r, "announced")
  /\ UNCHANGED <<tables, locals, world>>

\* An invoice with nothing to pay is confirmed here, by ConfirmInvoice.
CheckTotal(r) ==
  /\ pc[r] = "announced"
  /\ \/ /\ total[InvoiceOf[r]] = 0
        /\ Goto(r, "auto confirm")
        /\ UNCHANGED locals
     \/ /\ total[InvoiceOf[r]] > 0
        /\ Finish(r, "done")
  /\ UNCHANGED <<tables, world, dispatcher>>

-----------------------------------------------------------------------------
\* A query fails: the execution ends with what it has written so far, and its
\* object stays marked.
Fail(r) ==
  /\ InFlight(r)
  /\ pc[r] \notin {"activated", "waivers removed"}
  /\ failures < MaxFailures
  /\ failures' = failures + 1
  /\ Goto(r, "failed")
  /\ itemsTotal' = [itemsTotal EXCEPT ![r] = 0]
  /\ lastNumber' = [lastNumber EXCEPT ![r] = 0]
  /\ UNCHANGED <<tables, invoice, year, overlapped, dispatcher>>

\* The process restarts: executions end where they are, and everything in
\* memory is gone.
LocalsReset == /\ invoice' = [r \in Processes |-> DraftInvoice(FALSE)]
               /\ itemsTotal' = [r \in Processes |-> 0]
               /\ lastNumber' = [r \in Processes |-> 0]

Restart ==
  /\ \E r \in Processes : InFlight(r)
  /\ failures < MaxFailures
  /\ failures' = failures + 1
  /\ pc' = [r \in Processes |-> IF InFlight(r) THEN "failed" ELSE pc[r]]
  /\ LocalsReset
  /\ markedAggregates' = <<>>
  /\ domainEvents' = [o \in Objects |-> <<>>]
  /\ UNCHANGED <<tables, year, overlapped, handlersMap, raised, dispatched>>

NewFiscalYear ==
  /\ year < MaxYear
  /\ year' = year + 1
  /\ UNCHANGED <<tables, pc, locals, failures, overlapped, dispatcher>>

ConfirmStep(r) ==
  \/ GetInvoiceDetails(r)   \/ ShouldConfirmInvoice(r) \/ GetInvoiceItems(r)
  \/ SavePayer(r)           \/ SkipNumber(r)           \/ ReadLastNumber(r)
  \/ WriteNumber(r)         \/ RereadInvoice(r)        \/ UpdateInvoiceStatus(r)
  \/ WriteStatus(r)         \/ DispatchEvents(r)

AcceptStep(r) ==
  \/ ReceiveAcceptance(r)   \/ LoadAccepted(r)         \/ ActivateTransaction(r)
  \/ RemoveWaivers(r)       \/ ApplyWaivers(r)         \/ WriteDateAccepted(r)
  \/ AnnounceInvoice(r)     \/ CheckTotal(r)

Next == \/ \E r \in Processes : ConfirmStep(r) \/ AcceptStep(r) \/ Fail(r)
        \/ Restart
        \/ NewFiscalYear

Spec == Init /\ [][Next]_vars

\* A started execution goes on: every await is answered.
FairSpec ==
  /\ Spec
  /\ \A r \in Processes : WF_vars(InFlight(r) /\ (ConfirmStep(r) \/ AcceptStep(r)))
-----------------------------------------------------------------------------
\* An invoice leaves the draft state only after its manuscript was accepted
\* and its payer was stored, whatever runs at the same time: the subscribers
\* of its events and the ERP exports look both up.
ConfirmedIsBillable ==
  \A i \in Invoices : invoices[i].status # "DRAFT" =>
    transactions[i] = "ACTIVE" /\ payers[i] # {}

\* The issue date belongs to the status: an active or final invoice has one, a
\* draft has none, also after an execution overwrote the row of another.
IssueDateMatchesStatus ==
  \A i \in Invoices :
    /\ invoices[i].status \in {"ACTIVE", "FINAL"} => invoices[i].dateIssued # 0
    /\ invoices[i].status = "DRAFT" => invoices[i].dateIssued = 0

\* Two invoices never carry the same reference number, over failed attempts
\* that left a number behind and over the start of a fiscal year, as long as
\* no two executions number an invoice at the same time.
ReferencesDistinct ==
  ~overlapped =>
    \A i, j \in Invoices :
      (i # j /\ invoices[i].reference # NoReference)
        => invoices[i].reference # invoices[j].reference

\* An execution on this invoice has failed.
Failed(i) == \E q \in Processes : InvoiceOf[q] = i /\ pc[q] = "failed"

Confirming == {"InvoiceConfirmed", "InvoiceMovedToPending", "InvoiceFinalized"}

\* The confirmations of an invoice that subscribers were told of.
Published(i) ==
  {k \in DOMAIN dispatched : /\ dispatched[k].event.class \in Confirming
                             /\ InvoiceOf[dispatched[k].event.source[1]] = i}

\* With executions on one invoice kept apart, its confirmation is published at
\* most once, whichever attempts fail before one succeeds: the event of a
\* failed attempt takes the place of the one of its retry.
PublishedOnce ==
  OneAtATime => \A i \in Invoices : Cardinality(Published(i)) <= 1

\* Unless an execution on it fails, a confirmed invoice is published in the end.
ConfirmedIsPublished ==
  \A i \in Invoices :
    (invoices[i].status # "DRAFT") ~> (Failed(i) \/ Published(i) # {})

\* With executions on one invoice kept apart and none of them failing, an
\* accepted invoice is announced in the end.
AcceptedIsAnnounced ==
  \A i \in Invoices \ AcceptedAtStart :
    (transactions[i] = "ACTIVE") ~>
      ( \/ Failed(i) \/ ~OneAtATime
        \/ \E k \in DOMAIN dispatched :
             /\ dispatched[k].event.class = "InvoiceCreated"
             /\ InvoiceOf[dispatched[k].event.source[1]] = i )

\* "Invoice with reference number ... cannot be confirmed a second time."
\* (confirmInvoiceErrors.ts): one invoice is confirmed by one execution.
ConfirmedOnce ==
  \A r, q \in Confirmations :
    (InvoiceOf[r] = InvoiceOf[q] /\ pc[r] = "done" /\ pc[q] = "done") => r = q
=============================================================================
