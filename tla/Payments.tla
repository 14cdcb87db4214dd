------------------------------ MODULE Payments ------------------------------
(* How an invoice is paid: RecordPayment for cards, PayPal orders and bank  *)
(* transfers, the approval of a PayPal order, PayPal's webhook, and the     *)
(* AfterPaymentCompleted subscription that makes the invoice final.  Each   *)
(* process is one execution; a step lies between two awaits.  A row of the  *)
(* payments table is named by the request that created it.                  *)
EXTENDS InvoiceAggregate, FiniteSets, FiniteSetsExt, Sequences

CONSTANTS Invoices, References,
          Cards, Orders, Transfers,  \* executions of RecordPayment, by method
          Approvals,                 \* executions of PayPalPaymentApproved
          Webhooks,                  \* executions of PayPalProcessFinished
          InvoiceOf,                 \* the invoice of every request
          OrderOf,                   \* the order of every approval and webhook
          EventOf,                   \* what a webhook says of the order's capture
          ReferenceOf, AmountOf,     \* of every bank transfer
          FinalTransfers,            \* transfers that mark the invoice as paid
          Total,                     \* invoiceTotal
          OneAtATime,                \* are requests kept apart, and webhooks?
          MaxFailures                \* bound on failing queries

Requests    == Cards \cup Orders \cup Transfers
Completions == (Requests \cup Webhooks) \X {"completion"}
Processes   == Requests \cup Approvals \cup Webhooks \cup Completions

ASSUME PaymentAssumption ==
  /\ InvoiceOf \in [Requests -> Invoices]
  /\ OrderOf \in [Approvals \cup Webhooks -> Orders]
  /\ EventOf \in [Webhooks -> {"COMPLETED", "FAILED", "OTHER"}]
  /\ ReferenceOf \in [Transfers -> References]
  /\ Total \in Nat \ {0} /\ AmountOf \in [Transfers -> 1..Total]
  /\ FinalTransfers \subseteq Transfers
  /\ OneAtATime \in BOOLEAN /\ MaxFailures \in Nat
ASSUME DisjointAssumption ==
  /\ IsFiniteSet(Requests)
  /\ Cards \cap Orders = {} /\ Cards \cap Transfers = {} /\ Orders \cap Transfers = {}
  /\ Requests \cap (Approvals \cup Webhooks) = {} /\ Approvals \cap Webhooks = {}
  /\ Completions \cap (Requests \cup Approvals \cup Webhooks) = {}
  /\ Requests \cap Invoices = {}

VARIABLES invoices,   \* the status of every row of the table invoices
          payments,   \* table payments
          charges,    \* the requests whose card was charged, at Braintree
          orders,     \* the orders, at PayPal
          pc,         \* where every execution is
          held,       \* the Payment object an execution holds, and its row
          unsaved,    \* requests whose CreatePayment ended in a left
          failures    \* how many queries have failed

VARIABLES handlersMap, markedAggregates, domainEvents, raised, dispatched

EventClasses == {"PaymentCompleted", "InvoicePaymentAdded", "InvoiceFinalized"}

\* An object is named by the execution that loads it and its identity.
Objects == {<<r, r>> : r \in Requests} \cup ((Orders \cup Webhooks) \X Orders)
             \cup (Completions \X Invoices)

\* The one subscription modelled is called by the actions that dispatch.
D == INSTANCE DomainEvents
       WITH Aggregates <- Objects, Ids <- Requests \cup Invoices,
            IdOf <- [o \in Objects |-> o[2]], Handlers <- {}

dispatcher ==
  <<handlersMap, markedAggregates, domainEvents, raised, dispatched>>
tables    == <<invoices, payments>>
providers == <<charges, orders>>
vars == <<tables, providers, pc, held, unsaved, failures, dispatcher>>

\* What the providers, or the bank's statement, call a payment.
ForeignId == ({"charge"} \X Cards) \cup ({"order", "capture"} \X Orders)
               \cup ({"reference"} \X References)
NoId == <<"none">>

PaymentStatus == {"CREATED", "PENDING", "COMPLETED", "FAILED"}
Payment   == [status : PaymentStatus, foreignPaymentId : ForeignId]
NoPayment == [status |-> "NONE", foreignPaymentId |-> NoId]
NoObject  == <<"none", NoPayment>>

RequestSteps    == {"unused", "loaded", "payable", "paid", "absent", "inserted",
                    "saved", "replacing", "replaced"}
ApprovalSteps   == {"captured", "approving"}
WebhookSteps    == {"received", "stored"}
CompletionSteps == {"notified", "final", "finalized", "not stored"}
InFlightSteps   == RequestSteps \cup ApprovalSteps \cup WebhookSteps \cup CompletionSteps
Steps == {"idle", "done", "rejected", "lost", "failed"} \cup InFlightSteps

InFlight(p) == pc[p] \in InFlightSteps

TypeOK == /\ invoices \in [Invoices -> InvoiceStatus]
          /\ payments \in [Requests -> Payment \cup {NoPayment}]
          /\ charges \subseteq Cards
          /\ orders \in [Orders -> {"none", "created", "captured", "settled",
                                    "denied", "refunded"}]
          /\ pc \in [Processes -> Steps]
          /\ held \in [Processes -> {NoObject} \cup (Requests \X (Payment \cup {NoPayment}))]
          /\ unsaved \subseteq Requests
          /\ failures \in 0..MaxFailures
          /\ D!DispatcherTypeOK

Init == /\ invoices = [i \in Invoices |-> "ACTIVE"]
        /\ payments = [r \in Requests |-> NoPayment]
        /\ charges = {}
        /\ orders = [o \in Orders |-> "none"]
        /\ pc = [p \in Processes |-> "idle"]
        /\ held = [p \in Processes |-> NoObject]
        /\ unsaved = {}
        /\ failures = 0
        /\ D!DispatcherInit

-----------------------------------------------------------------------------
Goto(p, step) == pc' = [pc EXCEPT ![p] = step]
Hold(p, row, payment) == held' = [held EXCEPT ![p] = <<row, payment>>]
Row(p) == held[p][1]

\* The repository's updatePayment: the whole row, from the object held.
UpdatePayment(row, payment) == payments' = [payments EXCEPT ![row] = payment]

\* Under OneAtATime requests and approvals do not overlap each other, nor do
\* webhooks; one of each may.  Nothing in the code enforces this.
MayStart(p) ==
  OneAtATime =>
    \A q \in (IF p \in Webhooks THEN Webhooks ELSE Requests \cup Approvals) : ~InFlight(q)

\* getPaymentsByInvoiceId
PaymentsOf(i) == {r \in Requests : InvoiceOf[r] = i /\ payments[r] # NoPayment}

SameMethod(r, s) == \E M \in {Cards, Orders, Transfers} : r \in M /\ s \in M
Amount(r)  == IF r \in Transfers THEN AmountOf[r] ELSE Total
IsFinal(r) == r \in Transfers => r \in FinalTransfers

PaidTotal(i) ==
  MapThenSumSet(Amount, {r \in PaymentsOf(i) : payments[r].status = "COMPLETED"})

\* Mutant: an order counts as paid.
PaidDetails(r) ==
  [status |-> "COMPLETED",
   foreignPaymentId |-> IF r \in Cards THEN <<"charge", r>>
                        ELSE IF r \in Orders THEN <<"order", r>>
                        ELSE <<"reference", ReferenceOf[r]>>]

\* The strategies' answer: an order is created, the rest is paid at once.
PaymentDetails(r) ==
  [status |-> IF r \in Orders THEN "CREATED" ELSE "COMPLETED",
   foreignPaymentId |-> IF r \in Cards THEN <<"charge", r>>
                        ELSE IF r \in Orders THEN <<"order", r>>
                        ELSE <<"reference", ReferenceOf[r]>>]

\* Dispatched events of a payment start AfterPaymentCompleted, which runs on
\* its own from its first await.
Notify(p, row, step) ==
  LET h == <<p, "completion">>
  IN  IF dispatched' # dispatched
        THEN /\ pc' = [pc EXCEPT ![p] = step, ![h] = "notified"]
             /\ Hold(h, row, NoPayment)
        ELSE Goto(p, step) /\ UNCHANGED held

-----------------------------------------------------------------------------
\* RecordPayment and, for bank transfers, its resolver.

\* Mutant: the reference is not looked up.
AcceptReference(r) ==
  /\ r \in Transfers /\ pc[r] = "idle" /\ MayStart(r)
  /\ Goto(r, "unused")
  /\ UNCHANGED <<tables, providers, held, unsaved, failures, dispatcher>>

\* bankTransferPayment asks first whether the reference is in use.
CheckReference(r) ==
  /\ r \in Transfers /\ pc[r] = "idle" /\ MayStart(r)
  /\ \/ /\ \A s \in Requests :
             payments[s].foreignPaymentId # PaymentDetails(r).foreignPaymentId
        /\ Goto(r, "unused")
     \/ /\ \E s \in Requests :
             payments[s].foreignPaymentId = PaymentDetails(r).foreignPaymentId
        /\ Goto(r, "rejected")
  /\ UNCHANGED <<tables, providers, held, unsaved, failures, dispatcher>>

\* The status the check below looks at is the one loaded here.
AttachInvoice(r) ==
  /\ \/ r \in Transfers /\ pc[r] = "unused"
     \/ r \in Cards \cup Orders /\ pc[r] = "idle" /\ MayStart(r)
  /\ \/ invoices[InvoiceOf[r]] = "ACTIVE" /\ Goto(r, "loaded")
     \/ invoices[InvoiceOf[r]] # "ACTIVE" /\ Goto(r, "rejected")
  /\ UNCHANGED <<tables, providers, held, unsaved, failures, dispatcher>>

Payable(i) ==
  /\ \A s \in PaymentsOf(i) : payments[s].status # "PENDING"
  /\ PaidTotal(i) < Total

\* Mutant: pending payments are not looked at.
PayDespitePending(r) ==
  /\ pc[r] = "loaded"
  /\ \/ PaidTotal(InvoiceOf[r]) < Total /\ Goto(r, "payable")
     \/ PaidTotal(InvoiceOf[r]) >= Total /\ Goto(r, "rejected")
  /\ UNCHANGED <<tables, providers, held, unsaved, failures, dispatcher>>

\* attachExistingPayments and shouldPayInvoice
ShouldPayInvoice(r) ==
  /\ pc[r] = "loaded"
  /\ \/ Payable(InvoiceOf[r]) /\ Goto(r, "payable")
     \/ ~Payable(InvoiceOf[r]) /\ Goto(r, "rejected")
  /\ UNCHANGED <<tables, providers, held, unsaved, failures, dispatcher>>

\* makePayment of the selected strategy: the card is charged, or the order
\* created; a bank transfer was made before.
Pay(r) ==
  /\ pc[r] = "payable"
  /\ charges' = charges \cup ({r} \cap Cards)
  /\ orders' = [o \in Orders |-> IF o = r THEN "created" ELSE orders[o]]
  /\ Goto(r, "paid")
  /\ UNCHANGED <<tables, held, unsaved, failures, dispatcher>>

\* The payments attachPaymentIfExists looks for; it takes the first of them.
ExistingPayments(r) ==
  {s \in PaymentsOf(InvoiceOf[r]) : payments[s].status = "CREATED" /\ SameMethod(r, s)}

\* Mutant: no payment is ever created.
AttachAlways(r) ==
  /\ pc[r] = "paid"
  /\ Goto(r, "saved")
  /\ UNCHANGED <<tables, providers, held, unsaved, failures, dispatcher>>

AttachPaymentIfExists(r) ==
  /\ pc[r] = "paid"
  /\ \/ ExistingPayments(r) = {} /\ Goto(r, "absent")
     \/ ExistingPayments(r) # {} /\ Goto(r, "saved")
  /\ UNCHANGED <<tables, providers, held, unsaved, failures, dispatcher>>

SavePayment(r) ==
  /\ pc[r] = "absent"
  /\ UpdatePayment(r, PaymentDetails(r))
  /\ Goto(r, "inserted")
  /\ UNCHANGED <<invoices, providers, held, unsaved, failures, dispatcher>>

\* Mutant: the event is raised and not dispatched.
SetEventsOnly(r) ==
  /\ pc[r] = "inserted"
  /\ IF PaymentDetails(r).status = "COMPLETED"
       THEN D!AddDomainEvent(<<r, r>>, "PaymentCompleted")
       ELSE UNCHANGED dispatcher
  /\ Goto(r, "saved")
  /\ UNCHANGED <<tables, providers, held, unsaved, failures>>

\* The payment is read back; a completed one raises its event and every one is
\* dispatched.
SetAndDispatchEvents(r) ==
  /\ pc[r] = "inserted"
  /\ IF PaymentDetails(r).status = "COMPLETED"
       THEN D!RaiseAndDispatch(<<r, r>>, "PaymentCompleted")
       ELSE D!DispatchEventsForAggregate(r)
  /\ Notify(r, r, "saved")
  /\ UNCHANGED <<tables, providers, unsaved, failures>>

\* Whatever became of CreatePayment, savePayment executes its chain a second
\* time and reads the payments again: it finds a PayPal payment it has created.
AttachPaymentAgain(r) ==
  /\ pc[r] = "saved"
  /\ \/ /\ ExistingPayments(r) = {}
        /\ Goto(r, IF r \in unsaved THEN "failed" ELSE "done")
        /\ UNCHANGED held
     \/ \E s \in ExistingPayments(r) :
          /\ Hold(r, s, PaymentDetails(r))
          /\ Goto(r, "replacing")
  /\ UNCHANGED <<tables, providers, unsaved, failures, dispatcher>>

ReplacePayment(r) ==
  /\ pc[r] = "replacing"
  /\ UpdatePayment(Row(r), held[r][2])
  /\ Goto(r, "replaced")
  /\ UNCHANGED <<invoices, providers, held, unsaved, failures, dispatcher>>

\* updatePayment answers with the row as it is by now.
DispatchReplaced(r) ==
  /\ pc[r] = "replaced"
  /\ IF payments[Row(r)].status = "COMPLETED"
       THEN D!RaiseAndDispatch(<<r, Row(r)>>, "PaymentCompleted")
       ELSE D!DispatchEventsForAggregate(Row(r))
  /\ Notify(r, Row(r), IF r \in unsaved THEN "failed" ELSE "done")
  /\ UNCHANGED <<tables, providers, unsaved, failures>>

-----------------------------------------------------------------------------
\* PayPal: the payer approved the order; a capture is settled, or denied, and
\* may be refunded or reversed.  PayPalPaymentApproved captures, then records.

CaptureMoney(a) ==
  LET o == OrderOf[a]
  IN  /\ a \in Approvals /\ pc[a] = "idle" /\ MayStart(a)
      /\ pc[o] = "done"
      /\ \/ /\ orders[o] = "created"
            /\ orders' = [orders EXCEPT ![o] = "captured"]
            /\ Goto(a, "captured")
         \/ /\ orders[o] # "created"
            /\ Goto(a, "rejected")
            /\ UNCHANGED orders
      /\ UNCHANGED <<tables, charges, held, unsaved, failures, dispatcher>>

\* The payments of the invoice that carry this foreign id.
PaymentsWith(id) == {s \in Requests : payments[s].foreignPaymentId = id}

\* Mutant: the capture's id is missing.
AttachWithoutProof(a) ==
  /\ pc[a] = "captured"
  /\ \/ /\ PaymentsWith(<<"order", OrderOf[a]>>) = {}
        /\ Goto(a, "lost")
        /\ UNCHANGED held
     \/ \E s \in PaymentsWith(<<"order", OrderOf[a]>>) :
          /\ Hold(a, s, [status |-> "PENDING", foreignPaymentId |-> NoId])
          /\ Goto(a, "approving")
  /\ UNCHANGED <<tables, providers, unsaved, failures, dispatcher>>

\* attachPayment and updatePaymentStatus, which throws when there is no payment
\* with the order's id; the capture's id takes its place.
AttachPayment(a) ==
  /\ pc[a] = "captured"
  /\ \/ /\ PaymentsWith(<<"order", OrderOf[a]>>) = {}
        /\ Goto(a, "lost")
        /\ UNCHANGED held
     \/ \E s \in PaymentsWith(<<"order", OrderOf[a]>>) :
          /\ Hold(a, s, [status |-> "PENDING",
                         foreignPaymentId |-> <<"capture", OrderOf[a]>>])
          /\ Goto(a, "approving")
  /\ UNCHANGED <<tables, providers, unsaved, failures, dispatcher>>

SavePaymentChanges(a) ==
  /\ pc[a] = "approving"
  /\ UpdatePayment(Row(a), held[a][2])
  /\ Goto(a, "done")
  /\ UNCHANGED <<invoices, providers, held, unsaved, failures, dispatcher>>

Settle(o) ==
  /\ \/ orders[o] = "captured" /\ \E s \in {"settled", "denied"} :
                                    orders' = [orders EXCEPT ![o] = s]
     \/ orders[o] = "settled" /\ orders' = [orders EXCEPT ![o] = "refunded"]
  /\ UNCHANGED <<tables, charges, pc, held, unsaved, failures, dispatcher>>

\* Has PayPal this event to tell?
Occurred(event, o) ==
  \/ event = "COMPLETED" /\ orders[o] \in {"settled", "refunded"}
  \/ event = "FAILED" /\ orders[o] \in {"denied", "refunded"}
  \/ event = "OTHER" /\ orders[o] \notin {"none", "created"}

\* PayPalProcessFinished.  A delivery that finds no pending payment with the
\* capture's id is answered 500; it changes nothing and comes again.
UpdatePaymentStatus(w) ==
  LET o == OrderOf[w]
      e == EventOf[w]
  IN  /\ w \in Webhooks /\ pc[w] = "idle" /\ MayStart(w)
      /\ Occurred(e, o)
      /\ \E s \in PaymentsWith(<<"capture", o>>) :
           /\ payments[s].status = "PENDING"
           /\ Hold(w, s, [payments[s] EXCEPT !.status = IF e = "OTHER" THEN @ ELSE e])
           /\ IF e = "COMPLETED"
                THEN D!AddDomainEvent(<<w, s>>, "PaymentCompleted")
                ELSE UNCHANGED dispatcher
      /\ Goto(w, "received")
      /\ UNCHANGED <<tables, providers, unsaved, failures>>

\* Mutant: the new status is not written.
ForgetPaymentStatus(w) ==
  /\ pc[w] = "received"
  /\ Goto(w, "stored")
  /\ UNCHANGED <<tables, providers, held, unsaved, failures, dispatcher>>

SavePaymentStatus(w) ==
  /\ pc[w] = "received"
  /\ UpdatePayment(Row(w), held[w][2])
  /\ Goto(w, "stored")
  /\ UNCHANGED <<invoices, providers, held, unsaved, failures, dispatcher>>

DispatchEvents(w) ==
  /\ pc[w] = "stored"
  /\ D!DispatchEventsForAggregate(Row(w))
  /\ Notify(w, Row(w), "done")
  /\ UNCHANGED <<tables, providers, unsaved, failures>>

-----------------------------------------------------------------------------
\* AfterPaymentCompleted

\* paymentAdded and markAsFinal
FinalEvents == <<"InvoicePaymentAdded", "InvoiceFinalized">>

\* Mutant: every payment is taken for the last one.
FinalizeAnyway(h) ==
  /\ pc[h] = "notified"
  /\ D!AddDomainEvents(<<h, InvoiceOf[Row(h)]>>, FinalEvents)
  /\ Goto(h, "final")
  /\ UNCHANGED <<tables, providers, held, unsaved, failures>>

\* The mutators raise their events right after the invoice is loaded.  Without
\* the final payment nothing is written.
OnPaymentCompleted(h) ==
  LET i == InvoiceOf[Row(h)]
  IN  /\ pc[h] = "notified"
      /\ \/ /\ IsFinal(Row(h))
            /\ D!AddDomainEvents(<<h, i>>, FinalEvents)
            /\ Goto(h, "final")
         \/ /\ ~IsFinal(Row(h))
            /\ D!RaiseAndDispatch(<<h, i>>, "InvoicePaymentAdded")
            /\ Goto(h, "done")
      /\ UNCHANGED <<tables, providers, held, unsaved, failures>>

\* A failure of the update is logged, and the events are dispatched anyway.
UpdateInvoice(h) ==
  /\ pc[h] = "final"
  /\ \/ /\ invoices' = [invoices EXCEPT ![InvoiceOf[Row(h)]] = "FINAL"]
        /\ Goto(h, "finalized")
        /\ UNCHANGED failures
     \/ /\ failures < MaxFailures
        /\ failures' = failures + 1
        /\ Goto(h, "not stored")
        /\ UNCHANGED invoices
  /\ UNCHANGED <<payments, providers, held, unsaved, dispatcher>>

DispatchInvoiceEvents(h) ==
  /\ pc[h] \in {"finalized", "not stored"}
  /\ D!DispatchEventsForAggregate(InvoiceOf[Row(h)])
  /\ Goto(h, IF pc[h] = "finalized" THEN "done" ELSE "failed")
  /\ UNCHANGED <<tables, providers, held, unsaved, failures>>

-----------------------------------------------------------------------------
\* A query or a provider's call fails.  CreatePayment answers with a left, and
\* its caller goes on; elsewhere the execution ends.
Fail(p) ==
  /\ failures < MaxFailures
  /\ failures' = failures + 1
  /\ \/ /\ pc[p] \in {"paid", "absent", "inserted"}
        /\ unsaved' = unsaved \cup {p}
        /\ Goto(p, "saved")
     \/ /\ InFlight(p)
        /\ pc[p] \notin {"paid", "absent", "inserted", "final", "finalized", "not stored"}
        /\ Goto(p, "failed")
        /\ UNCHANGED unsaved
  /\ UNCHANGED <<tables, providers, held, dispatcher>>

\* The process restarts: executions end where they are, and everything in
\* memory is gone.
Restart ==
  /\ \E p \in Processes : InFlight(p)
  /\ failures < MaxFailures
  /\ failures' = failures + 1
  /\ pc' = [p \in Processes |-> IF InFlight(p) THEN "failed" ELSE pc[p]]
  /\ markedAggregates' = <<>>
  /\ domainEvents' = [o \in Objects |-> <<>>]
  /\ UNCHANGED <<tables, providers, held, unsaved, handlersMap, raised, dispatched>>

RequestStep(r) ==
  \/ CheckReference(r) \/ AttachInvoice(r)         \/ ShouldPayInvoice(r)
  \/ Pay(r)            \/ AttachPaymentIfExists(r) \/ SavePayment(r)
  \/ SetAndDispatchEvents(r) \/ AttachPaymentAgain(r)
  \/ ReplacePayment(r)       \/ DispatchReplaced(r)

ApprovalStep(a) == CaptureMoney(a) \/ AttachPayment(a) \/ SavePaymentChanges(a)

WebhookStep(w) == UpdatePaymentStatus(w) \/ SavePaymentStatus(w) \/ DispatchEvents(w)

CompletionStep(h) ==
  OnPaymentCompleted(h) \/ UpdateInvoice(h) \/ DispatchInvoiceEvents(h)

Next == \/ \E r \in Requests : RequestStep(r)
        \/ \E a \in Approvals : ApprovalStep(a)
        \/ \E w \in Webhooks : WebhookStep(w)
        \/ \E h \in Completions : CompletionStep(h)
        \/ \E p \in Processes : Fail(p)
        \/ \E o \in Orders : Settle(o)
        \/ Restart

Spec == Init /\ [][Next]_vars

\* Every await is answered, and PayPal repeats a webhook until it is answered
\* with 200.
FairSpec ==
  /\ Spec
  /\ \A r \in Requests : WF_vars(InFlight(r) /\ RequestStep(r))
  /\ \A a \in Approvals : WF_vars(InFlight(a) /\ ApprovalStep(a))
  /\ \A w \in Webhooks : WF_vars(WebhookStep(w))
  /\ \A h \in Completions : WF_vars(CompletionStep(h))
-----------------------------------------------------------------------------
\* A completed payment stands for money that moved, whichever rows the
\* executions overwrite: its foreign id names a charged card, a capture PayPal
\* settled, or the transfer's reference.
CompletedHasMoney ==
  \A r \in Requests : payments[r].status = "COMPLETED" =>
    LET id == payments[r].foreignPaymentId
    IN  \/ r \in Cards /\ id = <<"charge", r>> /\ r \in charges
        \/ r \in Orders /\ \E o \in Orders :
             /\ id = <<"capture", o>> /\ InvoiceOf[o] = InvoiceOf[r]
             /\ orders[o] \in {"settled", "refunded"}
        \/ r \in Transfers /\ id = <<"reference", ReferenceOf[r]>>

\* An invoice becomes final only for a payment that was to be the last one and
\* whose money moved, also when requests and webhooks race and rows are
\* overwritten.
FinalHasCause ==
  \A i \in Invoices : invoices[i] = "FINAL" =>
    \E r \in Requests :
      /\ InvoiceOf[r] = i
      /\ IsFinal(r)
      /\ \/ r \in charges
         \/ r \in Orders /\ orders[r] \in {"settled", "refunded"}
         \/ r \in Transfers /\ payments[r].status = "COMPLETED"

InvoiceFor(p) == IF p \in Requests THEN InvoiceOf[p]
                 ELSE IF p \in Approvals \cup Webhooks THEN InvoiceOf[OrderOf[p]]
                 ELSE InvoiceOf[IF p[1] \in Webhooks THEN OrderOf[p[1]] ELSE p[1]]

\* An execution for this invoice has failed.
Failed(i) == \E p \in Processes : pc[p] \in {"failed", "lost"} /\ InvoiceFor(p) = i

\* With requests kept apart, two payments never carry the same foreign id, so
\* an approval or a webhook finds the payment it is about, and a bank reference
\* is used once.
ForeignIdsDistinct ==
  OneAtATime =>
    \A r, s \in Requests :
      (r # s /\ payments[r] # NoPayment)
        => payments[r].foreignPaymentId # payments[s].foreignPaymentId

\* With requests kept apart, a card is charged only while no other charge or
\* capture stands for the invoice and the transfers do not cover it, unless an
\* execution has failed, or lost its payment, after the money moved.
ChargedOnlyIfUnpaid ==
  [][OneAtATime =>
       \A c \in charges' \ charges :
         LET i == InvoiceOf[c]
         IN  \/ Failed(i)
             \/ /\ \A d \in charges : InvoiceOf[d] # i
                /\ \A o \in Orders : InvoiceOf[o] = i =>
                     orders[o] \notin {"captured", "settled"}
                /\ PaidTotal(i) < Total]_vars

\* With requests kept apart, a capture for which no payment is found belongs to
\* an order whose id a later order has replaced.
LostCaptureWasReplaced ==
  OneAtATime =>
    \A a \in Approvals : pc[a] = "lost" =>
      \E o \in Orders : /\ o # OrderOf[a] /\ InvoiceOf[o] = InvoiceOf[OrderOf[a]]
                        /\ orders[o] # "none"

\* A recorded capture that PayPal settles, and tells of, is completed in the
\* end, unless an execution for its invoice fails; the webhook may well come
\* before the approval has stored the capture's id.
RecordedCaptureSettles ==
  \A r \in Orders, w \in Webhooks :
    ( /\ payments[r].foreignPaymentId = <<"capture", OrderOf[w]>>
      /\ orders[OrderOf[w]] = "settled" /\ EventOf[w] = "COMPLETED" )
      ~> (Failed(InvoiceOf[r]) \/ payments[r].status \in {"COMPLETED", "FAILED"})

\* An invoice whose last payment is completed becomes final in the end, unless
\* an execution for it fails.
PaidBecomesFinal ==
  \A r \in Requests :
    (payments[r].status = "COMPLETED" /\ IsFinal(r))
      ~> (Failed(InvoiceOf[r]) \/ invoices[InvoiceOf[r]] = "FINAL")

\* "Invoice with reference number ... has already been paid."
\* (recordPaymentErrors.ts): no money is taken for a final invoice.
NothingTakenWhenFinal ==
  [][\A o \in Orders :
       (orders[o] = "created" /\ orders'[o] = "captured")
         => invoices[InvoiceOf[o]] # "FINAL"]_vars
=============================================================================
