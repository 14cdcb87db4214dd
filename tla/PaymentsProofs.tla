--------------------------- MODULE PaymentsProofs ---------------------------
(* Proofs about payments: the types, and that a completed payment and a     *)
(* final invoice have money behind them, for any requests, approvals and    *)
(* webhooks, whether or not they overlap, fail or are cut off; and, when    *)
(* they do not overlap, that foreign ids are distinct, that a capture is    *)
(* lost only for a replaced order, and that no card pays a paid invoice.    *)
EXTENDS Payments, TLAPS, FiniteSetTheorems, WellFoundedInduction

P == INSTANCE DomainEventsProofs
       WITH Aggregates <- Objects, Ids <- Requests \cup Invoices,
            IdOf <- [o \in Objects |-> o[2]], Handlers <- {}

-----------------------------------------------------------------------------
(* The inductive invariant.                                                   *)

Settled(o) == orders[o] \in {"settled", "refunded"}

\* A payment that row r holds, or that is going to be written to it: only an
\* order waits for its payer, the ids of PayPal are those of orders of the same
\* invoice, and a completed payment has its money.
Sound(r, payment) ==
  /\ payment.status = "CREATED" => r \in Orders
  /\ \A o \in Orders :
       payment.foreignPaymentId \in {<<"order", o>>, <<"capture", o>>} =>
         r \in Orders /\ InvoiceOf[o] = InvoiceOf[r]
  /\ payment.status = "COMPLETED" =>
       \/ r \in Cards /\ payment.foreignPaymentId = <<"charge", r>> /\ r \in charges
       \/ r \in Orders /\ \E o \in Orders :
            /\ payment.foreignPaymentId = <<"capture", o>>
            /\ InvoiceOf[o] = InvoiceOf[r] /\ Settled(o)
       \/ r \in Transfers /\ payment.foreignPaymentId = <<"reference", ReferenceOf[r]>>

RowInv == \A r \in Requests : Sound(r, payments[r])

\* The money behind the row of request r has moved, for good.
Caused(r) ==
  \/ r \in charges
  \/ r \in Orders /\ \E o \in Orders : InvoiceOf[o] = InvoiceOf[r] /\ Settled(o)
  \/ r \in Transfers /\ payments[r].status = "COMPLETED"

\* An event that waits under the name of a payment was raised for its money.
EventInv == \A o \in Objects : domainEvents[o] # <<>> /\ o[2] \in Requests => Caused(o[2])

\* The steps at which an execution holds a payment that it is going to write,
\* and those at which it holds the name of a row.
Writing   == {"replacing", "approving", "received"}
Finishing == {"final", "finalized", "not stored"}
Replacing == {"replacing", "replaced"}
Holding   == Writing \cup Replacing \cup CompletionSteps \cup {"stored"}

\* Every kind of execution has its own steps.
KindOf(p) == /\ pc[p] \in RequestSteps => p \in Requests
             /\ pc[p] \in ApprovalSteps => p \in Approvals
             /\ pc[p] \in WebhookSteps => p \in Webhooks
             /\ pc[p] \in CompletionSteps => p \in Completions

\* An order is at PayPal once its request has paid, and a card is charged; the
\* row of a transfer is completed from its insertion on.
ProgressOf(p) ==
  /\ p \in Orders /\ pc[p] \in {"idle", "unused", "loaded", "payable"} => orders[p] = "none"
  /\ p \in Cards /\ pc[p] \in {"paid", "absent", "inserted"} => p \in charges
  /\ p \in Transfers /\ pc[p] = "inserted" => payments[p].status = "COMPLETED"

\* What is going to be written is sound, and goes to the row of an order.
HeldOf(p) ==
  /\ pc[p] \in Holding => Row(p) \in Requests
  /\ pc[p] \in Replacing => p \in Orders
  /\ pc[p] \in Writing \cup Replacing => Row(p) \in Orders
  /\ pc[p] \in Writing => Sound(Row(p), held[p][2])

\* The invoice is looked at because of a payment, and finalized because of the
\* last one.
CauseOf(p) == /\ pc[p] \in CompletionSteps => Caused(Row(p))
              /\ pc[p] \in Finishing => IsFinal(Row(p))

ProcessInv == \A p \in Processes : KindOf(p) /\ ProgressOf(p) /\ HeldOf(p) /\ CauseOf(p)

IInv == TypeOK /\ D!MarkedUnique /\ RowInv /\ EventInv /\ ProcessInv /\ FinalHasCause

-----------------------------------------------------------------------------
(* What the dispatcher's operations keep, from DomainEventsProofs.            *)

DispatcherOK == D!DispatcherTypeOK /\ D!MarkedUnique

LEMMA SameDispatcher ==
  /\ D!DispatcherTypeOK <=> P!DispatcherTypeOK
  /\ D!MarkedUnique <=> P!MarkedUnique
  /\ D!DispatcherTypeOK' <=> P!DispatcherTypeOK'
  /\ D!MarkedUnique' <=> P!MarkedUnique'
BY DEF D!DispatcherTypeOK, P!DispatcherTypeOK, D!MarkedUnique, P!MarkedUnique,
       D!Event, P!Event

\* A step that leaves the dispatcher alone.
LEMMA DispatcherQuiet ==
  ASSUME DispatcherOK, UNCHANGED dispatcher
  PROVE  DispatcherOK' /\ UNCHANGED domainEvents
<1>1. UNCHANGED <<handlersMap, markedAggregates, domainEvents, raised, dispatched>>
  BY DEF dispatcher
<1>2. D!DispatcherTypeOK'
  BY <1>1 DEF DispatcherOK, D!DispatcherTypeOK
<1>3. D!MarkedUnique'
  BY <1>1 DEF DispatcherOK, D!MarkedUnique
<1> QED BY <1>1, <1>2, <1>3 DEF DispatcherOK

\* A step that raises events, with or without a dispatch.
LEMMA DispatcherRaises ==
  ASSUME DispatcherOK, NEW a \in Objects, NEW c \in EventClasses,
         NEW cs \in Seq(EventClasses),
         D!AddDomainEvent(a, c) \/ D!AddDomainEvents(a, cs) \/ D!RaiseAndDispatch(a, c)
  PROVE  /\ DispatcherOK'
         /\ \A o \in Objects : domainEvents'[o] # <<>> => o = a \/ domainEvents[o] # <<>>
<1>1. P!AddDomainEvent(a, c) \/ P!AddDomainEvents(a, cs) \/ P!RaiseAndDispatch(a, c)
  <2>1. CASE D!AddDomainEvent(a, c)
    BY <2>1 DEF D!AddDomainEvent, P!AddDomainEvent, D!MarkAggregateForDispatch,
         P!MarkAggregateForDispatch, D!PlacesOf, P!PlacesOf
  <2>2. CASE D!AddDomainEvents(a, cs)
    BY <2>2 DEF D!AddDomainEvents, P!AddDomainEvents, D!MarkAggregateForDispatch,
         P!MarkAggregateForDispatch, D!PlacesOf, P!PlacesOf
  <2>3. CASE D!RaiseAndDispatch(a, c)
    BY <2>3 DEF D!RaiseAndDispatch, P!RaiseAndDispatch, D!MarkAggregateForDispatch,
         P!MarkAggregateForDispatch, D!PlacesOf, P!PlacesOf, D!Dispatch, P!Dispatch,
         D!RemoveAt, P!RemoveAt
  <2> QED BY <2>1, <2>2, <2>3
<1>2. P!DispatcherTypeOK /\ P!MarkedUnique
  BY SameDispatcher DEF DispatcherOK
<1>3. P!DispatcherTypeOK' /\ P!MarkedUnique'
  BY <1>1, <1>2, P!AddDomainEventKeeps, P!AddDomainEventsKeeps, P!RaiseAndDispatchKeeps
<1>4. \A o \in Objects : domainEvents'[o] # <<>> => o = a \/ domainEvents[o] # <<>>
  BY <1>1, <1>2, P!RaisedEvents
<1> QED BY <1>3, <1>4, SameDispatcher DEF DispatcherOK

\* A step that dispatches.
LEMMA DispatcherDispatches ==
  ASSUME DispatcherOK, NEW id, D!DispatchEventsForAggregate(id)
  PROVE  /\ DispatcherOK'
         /\ \A o \in Objects : domainEvents'[o] # <<>> => domainEvents[o] # <<>>
         /\ dispatched' # dispatched =>
              \E o \in Objects : o[2] = id /\ domainEvents[o] # <<>>
<1>1. P!DispatchEventsForAggregate(id)
  BY DEF D!DispatchEventsForAggregate, P!DispatchEventsForAggregate,
         D!FindMarkedAggregateByID, P!FindMarkedAggregateByID,
         D!FirstMarkedAggregate, P!FirstMarkedAggregate,
         D!DispatchAggregateEvents, P!DispatchAggregateEvents,
         D!Dispatch, P!Dispatch, D!PlacesOf, P!PlacesOf,
         D!dispatcherVars, P!dispatcherVars, D!RemoveAt, P!RemoveAt
<1>2. P!DispatcherTypeOK /\ P!MarkedUnique
  BY SameDispatcher DEF DispatcherOK
<1>3. P!DispatcherTypeOK' /\ P!MarkedUnique'
  BY <1>1, <1>2, P!DispatchEventsForAggregateKeeps
<1>4. /\ \A o \in Objects : domainEvents'[o] # <<>> => domainEvents[o] # <<>>
      /\ dispatched' # dispatched =>
           \E o \in Objects : [x \in Objects |-> x[2]][o] = id /\ domainEvents[o] # <<>>
  BY <1>1, <1>2, P!DispatchedEvents
<1> QED BY <1>3, <1>4, SameDispatcher DEF DispatcherOK

-----------------------------------------------------------------------------
(* What stays true of the money.                                              *)

\* Charges and settled captures stay, and so do the rows of transfers.
Grows == /\ charges \subseteq charges'
         /\ \A o \in Orders : Settled(o) => Settled(o)'
         /\ \A b \in Transfers : payments[b].status = "COMPLETED" =>
                                   payments'[b].status = "COMPLETED"

LEMMA SoundGrows ==
  ASSUME Grows, NEW r, NEW payment, Sound(r, payment)
  PROVE  Sound(r, payment)'
BY DEF Grows, Sound

LEMMA CausedGrows ==
  ASSUME Grows, NEW r, Caused(r)
  PROVE  Caused(r)'
BY DEF Grows, Caused

\* An order does not come back to the state before its creation.
Uncreated(p) == p \in Orders /\ orders[p] = "none" => orders'[p] = "none"

\* An execution that does not move keeps what is known of it.
LEMMA OthersKeep ==
  ASSUME Grows, NEW q \in Processes, pc'[q] = pc[q], held'[q] = held[q], Uncreated(q),
         KindOf(q), ProgressOf(q), HeldOf(q), CauseOf(q)
  PROVE  KindOf(q)' /\ ProgressOf(q)' /\ HeldOf(q)' /\ CauseOf(q)'
<1>1. KindOf(q)'
  BY DEF KindOf
<1>2. ProgressOf(q)'
  BY DEF ProgressOf, Grows, Uncreated
<1>3. PICK r, payment : r = Row(q) /\ payment = held[q][2] /\ Row(q)' = r /\ held'[q][2] = payment
  BY DEF Row
<1>4. HeldOf(q)'
  <2>1. pc[q] \in Writing => Sound(r, payment)'
    BY <1>3, SoundGrows DEF HeldOf
  <2>2. pc[q] \in Writing => Sound(Row(q), held[q][2])'
    BY <1>3, <2>1 DEF Sound
  <2> QED BY <1>3, <2>2 DEF HeldOf
<1>5. CauseOf(q)'
  <2>1. pc[q] \in CompletionSteps => Caused(r)'
    BY <1>3, CausedGrows DEF CauseOf
  <2>2. pc[q] \in CompletionSteps => Caused(Row(q))'
    BY <1>3, <2>1 DEF Caused
  <2> QED BY <1>3, <2>2 DEF CauseOf, IsFinal
<1> QED BY <1>1, <1>2, <1>4, <1>5

\* Rows and events keep their cause, and so does a final invoice.
LEMMA RowKeeps ==
  ASSUME Grows, NEW r \in Requests, Sound(r, payments[r]), payments'[r] = payments[r]
  PROVE  Sound(r, payments[r])'
BY DEF Sound, Grows

LEMMA FinalKeeps ==
  ASSUME Grows, FinalHasCause, UNCHANGED invoices
  PROVE  FinalHasCause'
BY DEF FinalHasCause, Grows, Settled, IsFinal

-----------------------------------------------------------------------------
(* The frame of a step: what remains to be shown of one.                      *)

HeldValues == {NoObject} \cup (Requests \X (Payment \cup {NoPayment}))
OrderStates == {"none", "created", "captured", "settled", "denied", "refunded"}

LEMMA Types ==
  ASSUME TypeOK
  PROVE  /\ invoices \in [Invoices -> InvoiceStatus]
         /\ payments \in [Requests -> Payment \cup {NoPayment}]
         /\ charges \subseteq Cards
         /\ orders \in [Orders -> OrderStates]
         /\ pc \in [Processes -> Steps]
         /\ held \in [Processes -> HeldValues]
         /\ unsaved \subseteq Requests
         /\ failures \in 0..MaxFailures
         /\ D!DispatcherTypeOK
BY DEF TypeOK, HeldValues, OrderStates

LEMMA TypesNext ==
  ASSUME invoices' \in [Invoices -> InvoiceStatus],
         payments' \in [Requests -> Payment \cup {NoPayment}],
         charges' \subseteq Cards,
         orders' \in [Orders -> OrderStates],
         pc' \in [Processes -> Steps],
         held' \in [Processes -> HeldValues],
         unsaved' \subseteq Requests,
         failures' \in 0..MaxFailures,
         D!DispatcherTypeOK'
  PROVE  TypeOK'
BY DEF TypeOK, HeldValues, OrderStates

LEMMA Kinds ==
  /\ Requests \subseteq Processes /\ Approvals \subseteq Processes
  /\ Webhooks \subseteq Processes /\ Completions \subseteq Processes
  /\ \A p \in Requests \cup Webhooks : <<p, "completion">> \in Completions /\ <<p, "completion">> # p
  /\ Requests \cap Approvals = {} /\ Requests \cap Webhooks = {}
  /\ Requests \cap Completions = {} /\ Approvals \cap Webhooks = {}
  /\ Approvals \cap Completions = {} /\ Webhooks \cap Completions = {}
<1>1. /\ Requests \subseteq Processes /\ Approvals \subseteq Processes
      /\ Webhooks \subseteq Processes /\ Completions \subseteq Processes
  BY DEF Processes
<1>2. \A p \in Requests \cup Webhooks : <<p, "completion">> \in Completions
  BY DEF Completions
<1> HIDE DEF Completions, Requests
<1>3. \A p \in Requests \cup Webhooks : <<p, "completion">> # p
  BY <1>2, DisjointAssumption
<1> QED BY <1>1, <1>2, <1>3, DisjointAssumption

\* Only the executions in M move.
OnlyMoves(M) ==
  \A q \in Processes \ M : pc'[q] = pc[q] /\ held'[q] = held[q] /\ Uncreated(q)

\* What is known of them is all there is to show.
LEMMA MoveKeeps ==
  ASSUME IInv, Grows, NEW M, OnlyMoves(M),
         \A p \in M : KindOf(p)' /\ ProgressOf(p)' /\ HeldOf(p)' /\ CauseOf(p)'
  PROVE  ProcessInv'
<1>1. ASSUME NEW q \in Processes
      PROVE  KindOf(q)' /\ ProgressOf(q)' /\ HeldOf(q)' /\ CauseOf(q)'
  <2>1. CASE q \in M
    BY <2>1
  <2>2. CASE q \notin M
    <3>1. pc'[q] = pc[q] /\ held'[q] = held[q] /\ Uncreated(q)
      BY <2>2 DEF OnlyMoves
    <3>2. KindOf(q) /\ ProgressOf(q) /\ HeldOf(q) /\ CauseOf(q)
      BY DEF IInv, ProcessInv
    <3> QED BY <3>1, <3>2, OthersKeep
  <2> QED BY <2>1, <2>2
<1> QED BY <1>1 DEF ProcessInv

LEMMA NothingMoved ==
  ASSUME UNCHANGED <<payments, charges, orders>>
  PROVE  Grows /\ \A q : Uncreated(q)
BY DEF Grows, Uncreated, Settled

LEMMA RowsKeep ==
  ASSUME IInv, Grows, UNCHANGED payments
  PROVE  RowInv'
BY RowKeeps DEF IInv, RowInv

LEMMA EventsKeep ==
  ASSUME IInv, Grows,
         \A o \in Objects : domainEvents'[o] # <<>> =>
           domainEvents[o] # <<>> \/ (o[2] \in Requests => Caused(o[2])')
  PROVE  EventInv'
<1> SUFFICES ASSUME NEW o \in Objects, domainEvents'[o] # <<>>, o[2] \in Requests
             PROVE  Caused(o[2])'
  BY DEF EventInv
<1>1. CASE domainEvents[o] # <<>>
  BY <1>1, CausedGrows DEF IInv, EventInv
<1> QED BY <1>1

\* Where an execution goes.
LEMMA GotoFacts ==
  ASSUME TypeOK, NEW p \in Processes, NEW step \in Steps, Goto(p, step)
  PROVE  /\ pc' \in [Processes -> Steps]
         /\ pc'[p] = step
         /\ \A q \in Processes \ {p} : pc'[q] = pc[q]
BY Types DEF Goto

\* A step that changes the place of one execution, and what it holds.
LEMMA LocalStep ==
  ASSUME IInv, NEW p \in Processes, NEW step \in Steps, Goto(p, step),
         UNCHANGED <<tables, providers>>,
         held' \in [Processes -> HeldValues],
         \A q \in Processes \ {p} : held'[q] = held[q],
         unsaved' \subseteq Requests, failures' \in 0..MaxFailures, DispatcherOK',
         \A o \in Objects : domainEvents'[o] # <<>> =>
           domainEvents[o] # <<>> \/ (o[2] \in Requests => Caused(o[2])'),
         KindOf(p)' /\ ProgressOf(p)' /\ HeldOf(p)' /\ CauseOf(p)'
  PROVE  IInv'
<1>1. UNCHANGED <<invoices, payments, charges, orders>>
  BY DEF tables, providers
<1>2. Grows /\ \A q : Uncreated(q)
  BY <1>1, NothingMoved
<1>3. TypeOK
  BY DEF IInv
<1>4. /\ pc' \in [Processes -> Steps]
      /\ \A q \in Processes \ {p} : pc'[q] = pc[q]
  BY <1>3, GotoFacts
<1>5. TypeOK'
  BY <1>1, <1>3, <1>4, Types, TypesNext DEF DispatcherOK
<1>6. ProcessInv'
  <2>1. OnlyMoves({p})
    BY <1>2, <1>4 DEF OnlyMoves
  <2>2. \A q \in {p} : KindOf(q)' /\ ProgressOf(q)' /\ HeldOf(q)' /\ CauseOf(q)'
    OBVIOUS
  <2> QED BY <1>2, <2>1, <2>2, MoveKeeps
<1>7. RowInv'
  BY <1>1, <1>2, RowsKeep
<1>8. EventInv'
  BY <1>2, EventsKeep
<1>9. FinalHasCause'
  BY <1>1, <1>2, FinalKeeps DEF IInv
<1> QED BY <1>5, <1>6, <1>7, <1>8, <1>9 DEF IInv, DispatcherOK

\* A step that only changes the place of one execution.
LEMMA QuietStep ==
  ASSUME IInv, NEW p \in Processes, NEW step \in Steps, Goto(p, step),
         UNCHANGED <<tables, providers, held, dispatcher>>,
         unsaved' \subseteq Requests, failures' \in 0..MaxFailures,
         KindOf(p)' /\ ProgressOf(p)' /\ HeldOf(p)' /\ CauseOf(p)'
  PROVE  IInv'
<1>1. DispatcherOK /\ held \in [Processes -> HeldValues]
  BY Types DEF IInv, DispatcherOK
<1>2. DispatcherOK' /\ UNCHANGED domainEvents
  BY <1>1, DispatcherQuiet
<1> QED BY <1>1, <1>2, LocalStep

-----------------------------------------------------------------------------
(* What an execution needs where it goes.                                     *)

Ended     == {"done", "rejected", "lost", "failed"}
Preparing == {"unused", "loaded", "payable"}
Paying    == {"paid", "absent", "inserted", "saved"}

LEMMA StepSets ==
  /\ Ended \cup Preparing \cup Paying \cup Holding \subseteq Steps
  /\ Ended \cap (RequestSteps \cup ApprovalSteps \cup WebhookSteps \cup CompletionSteps) = {}
  /\ Ended \cap Holding = {} /\ Writing \subseteq Holding /\ Replacing \subseteq Holding
  /\ (Preparing \cup Paying) \cap Holding = {}
  /\ Preparing \cup Paying \cup Replacing \subseteq RequestSteps
  /\ RequestSteps \cap ApprovalSteps = {} /\ RequestSteps \cap WebhookSteps = {}
  /\ RequestSteps \cap CompletionSteps = {} /\ ApprovalSteps \cap WebhookSteps = {}
  /\ ApprovalSteps \cap CompletionSteps = {} /\ WebhookSteps \cap CompletionSteps = {}
  /\ CompletionSteps \subseteq Holding /\ Finishing \subseteq CompletionSteps
BY DEF Ended, Preparing, Paying, Holding, Writing, Replacing, Finishing, Steps, InFlightSteps,
       RequestSteps, ApprovalSteps, WebhookSteps, CompletionSteps

\* The end needs nothing.
LEMMA AtEnd ==
  ASSUME NEW p \in Processes, pc'[p] \in Ended
  PROVE  KindOf(p)' /\ ProgressOf(p)' /\ HeldOf(p)' /\ CauseOf(p)'
<1>1. KindOf(p)'
  BY StepSets DEF KindOf
<1>2. ProgressOf(p)'
  BY DEF ProgressOf, Ended
<1>3. HeldOf(p)'
  BY StepSets DEF HeldOf
<1>4. CauseOf(p)'
  BY StepSets DEF CauseOf
<1> QED BY <1>1, <1>2, <1>3, <1>4

\* Before and after the payment a request holds nothing.
LEMMA AtRequest ==
  ASSUME NEW r \in Requests, pc'[r] \in Preparing \cup Paying, ProgressOf(r)'
  PROVE  KindOf(r)' /\ ProgressOf(r)' /\ HeldOf(r)' /\ CauseOf(r)'
<1>1. KindOf(r)'
  BY StepSets DEF KindOf
<1>2. HeldOf(r)'
  BY StepSets DEF HeldOf
<1>3. CauseOf(r)'
  BY StepSets DEF CauseOf
<1> QED BY <1>1, <1>2, <1>3

\* The invariant of one execution, and the types.
LEMMA Known ==
  ASSUME IInv, NEW p \in Processes
  PROVE  /\ KindOf(p) /\ ProgressOf(p) /\ HeldOf(p) /\ CauseOf(p)
         /\ TypeOK /\ DispatcherOK
         /\ unsaved \subseteq Requests /\ failures \in 0..MaxFailures
         /\ held \in [Processes -> HeldValues]
BY Types DEF IInv, ProcessInv, DispatcherOK

-----------------------------------------------------------------------------
(* The steps of RecordPayment.                                                *)

LEMMA RequestMoves ==
  ASSUME IInv, NEW r \in Requests, NEW step \in Ended \cup Preparing \cup Paying,
         Goto(r, step),
         UNCHANGED <<tables, providers, held, unsaved, failures, dispatcher>>,
         ProgressOf(r)'
  PROVE  IInv'
<1>1. r \in Processes /\ step \in Steps
  BY Kinds, StepSets
<1>2. TypeOK /\ unsaved' \subseteq Requests /\ failures' \in 0..MaxFailures
  BY <1>1, Known
<1>3. pc'[r] = step
  BY <1>1, <1>2, GotoFacts
<1>4. KindOf(r)' /\ ProgressOf(r)' /\ HeldOf(r)' /\ CauseOf(r)'
  BY <1>1, <1>3, AtEnd, AtRequest
<1> QED BY <1>1, <1>2, <1>4, QuietStep

\* On the way to the payment no order exists.
LEMMA PreparingProgress ==
  ASSUME IInv, NEW r \in Requests,
         pc[r] \in {"idle", "unused", "loaded"}, pc'[r] \in Ended \cup Preparing,
         UNCHANGED <<tables, providers>>
  PROVE  ProgressOf(r)'
<1>1. ProgressOf(r)
  BY Kinds, Known
<1> QED BY <1>1 DEF ProgressOf, Ended, Preparing, providers

LEMMA CheckReferenceStep ==
  ASSUME IInv, NEW r \in Requests, CheckReference(r)
  PROVE  IInv'
<1>1. /\ pc[r] \in {"idle", "unused", "loaded"}
      /\ UNCHANGED <<tables, providers, held, unsaved, failures, dispatcher>>
  BY DEF CheckReference
<1>2. PICK step \in Ended \cup Preparing : Goto(r, step)
  BY DEF CheckReference, Ended, Preparing
<1>3. pc'[r] = step
  BY <1>2, Kinds, Known, StepSets, GotoFacts
<1> QED BY <1>1, <1>2, <1>3, PreparingProgress, RequestMoves

LEMMA AttachInvoiceStep ==
  ASSUME IInv, NEW r \in Requests, AttachInvoice(r)
  PROVE  IInv'
<1>1. /\ pc[r] \in {"idle", "unused", "loaded"}
      /\ UNCHANGED <<tables, providers, held, unsaved, failures, dispatcher>>
  BY DEF AttachInvoice
<1>2. PICK step \in Ended \cup Preparing : Goto(r, step)
  BY DEF AttachInvoice, Ended, Preparing
<1>3. pc'[r] = step
  BY <1>2, Kinds, Known, StepSets, GotoFacts
<1> QED BY <1>1, <1>2, <1>3, PreparingProgress, RequestMoves

LEMMA ShouldPayInvoiceStep ==
  ASSUME IInv, NEW r \in Requests, ShouldPayInvoice(r)
  PROVE  IInv'
<1>1. /\ pc[r] \in {"idle", "unused", "loaded"}
      /\ UNCHANGED <<tables, providers, held, unsaved, failures, dispatcher>>
  BY DEF ShouldPayInvoice
<1>2. PICK step \in Ended \cup Preparing : Goto(r, step)
  BY DEF ShouldPayInvoice, Ended, Preparing
<1>3. pc'[r] = step
  BY <1>2, Kinds, Known, StepSets, GotoFacts
<1> QED BY <1>1, <1>2, <1>3, PreparingProgress, RequestMoves

LEMMA AttachPaymentIfExistsStep ==
  ASSUME IInv, NEW r \in Requests, AttachPaymentIfExists(r)
  PROVE  IInv'
<1>1. /\ pc[r] = "paid"
      /\ UNCHANGED <<tables, providers, held, unsaved, failures, dispatcher>>
  BY DEF AttachPaymentIfExists
<1>2. PICK step \in {"absent", "saved"} : Goto(r, step)
  BY DEF AttachPaymentIfExists
<1>3. step \in Paying
  BY DEF Paying
<1>4. pc'[r] = step
  BY <1>2, <1>3, Kinds, Known, StepSets, GotoFacts
<1>5. ProgressOf(r)'
  <2>1. ProgressOf(r)
    BY Kinds, Known
  <2> QED BY <1>1, <1>4, <2>1 DEF ProgressOf, providers
<1> QED BY <1>1, <1>2, <1>3, <1>5, RequestMoves

\* makePayment: the card is charged, the order created.
LEMMA PayStep ==
  ASSUME IInv, NEW r \in Requests, Pay(r)
  PROVE  IInv'
<1>1. /\ pc[r] = "payable"
      /\ charges' = charges \cup ({r} \cap Cards)
      /\ orders' = [o \in Orders |-> IF o = r THEN "created" ELSE orders[o]]
      /\ Goto(r, "paid")
      /\ UNCHANGED <<invoices, payments, held, unsaved, failures, dispatcher>>
  BY DEF Pay, tables
<1>2. r \in Processes /\ "paid" \in Steps /\ "paid" \in Paying
  BY Kinds, StepSets DEF Paying
<1>3. ProgressOf(r) /\ TypeOK /\ DispatcherOK
  BY <1>2, Known
<1>4. r \in Orders => orders[r] = "none"
  BY <1>1, <1>3 DEF ProgressOf
<1>5. orders \in [Orders -> OrderStates]
  BY <1>3, Types
<1>6. Grows
  BY <1>1, <1>4 DEF Grows, Settled
<1>7. /\ pc' \in [Processes -> Steps] /\ pc'[r] = "paid"
      /\ \A q \in Processes \ {r} : pc'[q] = pc[q]
  BY <1>1, <1>2, <1>3, GotoFacts
<1>8. DispatcherOK' /\ UNCHANGED domainEvents
  BY <1>1, <1>3, DispatcherQuiet
<1>9. TypeOK'
  <2>1. orders' \in [Orders -> OrderStates]
    BY <1>1, <1>5 DEF OrderStates
  <2>2. charges' \subseteq Cards
    BY <1>1, <1>3, Types
  <2> QED BY <1>1, <1>3, <1>7, <1>8, <2>1, <2>2, Types, TypesNext DEF DispatcherOK
<1>10. ProcessInv'
  <2>1. OnlyMoves({r})
    BY <1>1, <1>5, <1>7 DEF OnlyMoves, Uncreated
  <2>2. ProgressOf(r)'
    BY <1>1, <1>7 DEF ProgressOf
  <2>3. KindOf(r)' /\ ProgressOf(r)' /\ HeldOf(r)' /\ CauseOf(r)'
    BY <1>2, <1>7, <2>2, AtRequest
  <2> QED BY <1>6, <2>1, <2>3, MoveKeeps
<1>11. RowInv'
  BY <1>1, <1>6, RowsKeep
<1>12. EventInv'
  BY <1>6, <1>8, EventsKeep
<1>13. FinalHasCause'
  BY <1>1, <1>6, FinalKeeps DEF IInv
<1> QED BY <1>8, <1>9, <1>10, <1>11, <1>12, <1>13 DEF IInv, DispatcherOK

-----------------------------------------------------------------------------
(* Writing a row, and telling AfterPaymentCompleted of it.                    *)

LEMMA WriteStep ==
  ASSUME IInv, NEW p \in Processes, NEW step \in Steps, Goto(p, step),
         NEW row \in Requests, NEW payment \in Payment \cup {NoPayment},
         UpdatePayment(row, payment),
         Sound(row, payment), row \in Transfers => payment.status = "COMPLETED",
         UNCHANGED <<invoices, providers, held, unsaved, failures, dispatcher>>,
         KindOf(p)' /\ ProgressOf(p)' /\ HeldOf(p)' /\ CauseOf(p)'
  PROVE  IInv'
<1>1. TypeOK /\ DispatcherOK
  BY Known
<1>2. UNCHANGED <<invoices, charges, orders, held, unsaved, failures>>
  BY DEF providers
<1>3. /\ payments \in [Requests -> Payment \cup {NoPayment}]
      /\ payments' = [payments EXCEPT ![row] = payment]
  BY <1>1, Types DEF UpdatePayment
<1>4. /\ payments' \in [Requests -> Payment \cup {NoPayment}]
      /\ payments'[row] = payment
      /\ \A r \in Requests : r # row => payments'[r] = payments[r]
  BY <1>3
<1>5. Grows
  <2>1. Transfers \subseteq Requests
    BY DEF Requests
  <2> QED BY <1>2, <1>4, <2>1 DEF Grows, Settled
<1>6. /\ pc' \in [Processes -> Steps]
      /\ \A q \in Processes \ {p} : pc'[q] = pc[q]
  BY <1>1, GotoFacts
<1>7. DispatcherOK' /\ UNCHANGED domainEvents
  BY <1>1, DispatcherQuiet
<1>8. TypeOK'
  BY <1>1, <1>2, <1>4, <1>6, <1>7, Types, TypesNext DEF DispatcherOK
<1>9. ProcessInv'
  <2>1. OnlyMoves({p})
    BY <1>2, <1>6 DEF OnlyMoves, Uncreated
  <2> QED BY <1>5, <2>1, MoveKeeps
<1>10. RowInv'
  <2> SUFFICES ASSUME NEW r \in Requests PROVE Sound(r, payments[r])'
    BY DEF RowInv
  <2>1. CASE r = row
    BY <1>2, <1>4, <2>1 DEF Sound, Settled
  <2>2. CASE r # row
    BY <1>4, <1>5, <2>2, RowKeeps DEF IInv, RowInv
  <2> QED BY <2>1, <2>2
<1>11. EventInv'
  BY <1>5, <1>7, EventsKeep
<1>12. FinalHasCause'
  BY <1>2, <1>5, FinalKeeps DEF IInv
<1> QED BY <1>7, <1>8, <1>9, <1>10, <1>11, <1>12 DEF IInv, DispatcherOK

\* A dispatch that reached the subscription starts its execution, which then
\* holds the name of the row.
LEMMA NotifyStep ==
  ASSUME IInv, NEW p \in Requests \cup Webhooks, NEW row \in Requests,
         NEW step \in Ended \cup {"saved"}, Notify(p, row, step),
         step = "saved" => p \in Requests,
         UNCHANGED <<tables, providers, unsaved, failures>>, DispatcherOK',
         \A o \in Objects : domainEvents'[o] # <<>> =>
           domainEvents[o] # <<>> \/ (o[2] \in Requests => Caused(o[2])'),
         dispatched' # dispatched => Caused(row)
  PROVE  IInv'
<1> DEFINE h == <<p, "completion">>
<1>1. /\ p \in Processes /\ h \in Processes /\ h \in Completions /\ h # p
      /\ step \in Steps /\ "saved" \in Paying
  BY Kinds, StepSets DEF Paying
<1> HIDE DEF h
<1>2. TypeOK /\ DispatcherOK /\ held \in [Processes -> HeldValues]
  BY <1>1, Known
<1>3. unsaved' \subseteq Requests /\ failures' \in 0..MaxFailures
  BY <1>1, Known
<1>4. ASSUME pc'[p] = step
      PROVE  KindOf(p)' /\ ProgressOf(p)' /\ HeldOf(p)' /\ CauseOf(p)'
  <2>1. CASE step \in Ended
    BY <1>1, <1>4, <2>1, AtEnd
  <2>2. CASE step = "saved"
    <3>1. ProgressOf(p)'
      BY <1>4, <2>2 DEF ProgressOf
    <3> QED BY <1>1, <1>4, <2>2, <3>1, AtRequest
  <2> QED BY <2>1, <2>2
<1>5. CASE dispatched' = dispatched
  <2>1. Goto(p, step) /\ UNCHANGED held
    BY <1>5 DEF Notify
  <2>2. pc'[p] = step
    BY <1>1, <1>2, <2>1, GotoFacts
  <2> QED BY <1>1, <1>2, <1>3, <1>4, <2>1, <2>2, LocalStep
<1>6. CASE dispatched' # dispatched
  <2>1. /\ pc' = [pc EXCEPT ![p] = step, ![h] = "notified"]
        /\ held' = [held EXCEPT ![h] = <<row, NoPayment>>]
    BY <1>6 DEF Notify, Hold, h
  <2>2. /\ pc \in [Processes -> Steps] /\ "notified" \in Steps
        /\ "notified" \in CompletionSteps /\ "notified" \notin Finishing
    BY <1>2, Types DEF Steps, InFlightSteps, CompletionSteps, Finishing
  <2>3. /\ pc' \in [Processes -> Steps] /\ pc'[p] = step /\ pc'[h] = "notified"
        /\ \A q \in Processes \ {p, h} : pc'[q] = pc[q]
    BY <1>1, <2>1, <2>2
  <2>4. <<row, NoPayment>> \in HeldValues
    BY DEF HeldValues
  <2>5. /\ held' \in [Processes -> HeldValues] /\ held'[h] = <<row, NoPayment>>
        /\ \A q \in Processes \ {h} : held'[q] = held[q]
    BY <1>1, <1>2, <2>1, <2>4
  <2>6. Grows /\ (\A q : Uncreated(q)) /\ UNCHANGED <<invoices, payments, charges, orders>>
    BY NothingMoved DEF tables, providers
  <2>7. KindOf(h)' /\ ProgressOf(h)' /\ HeldOf(h)' /\ CauseOf(h)'
    <3>1. KindOf(h)'
      BY <1>1, <2>2, <2>3, StepSets DEF KindOf
    <3>2. ProgressOf(h)'
      BY <2>3 DEF ProgressOf
    <3>3. Row(h)' = row
      BY <2>5 DEF Row
    <3>4. HeldOf(h)'
      BY <2>3, <3>3 DEF HeldOf, Writing, Replacing
    <3>5. Caused(row)'
      BY <1>6, <2>6, CausedGrows
    <3>6. Caused(Row(h))'
      BY <3>3, <3>5 DEF Caused
    <3>7. CauseOf(h)'
      BY <2>2, <2>3, <3>6 DEF CauseOf
    <3> QED BY <3>1, <3>2, <3>4, <3>7
  <2>8. OnlyMoves({p, h})
    BY <2>3, <2>5, <2>6 DEF OnlyMoves
  <2>9. ProcessInv'
    <3>1. \A q \in {p, h} : KindOf(q)' /\ ProgressOf(q)' /\ HeldOf(q)' /\ CauseOf(q)'
      BY <1>4, <2>3, <2>7
    <3> QED BY <2>6, <2>8, <3>1, MoveKeeps
  <2>10. TypeOK'
    BY <1>2, <1>3, <2>3, <2>5, <2>6, Types, TypesNext DEF DispatcherOK
  <2>11. RowInv' /\ EventInv' /\ FinalHasCause'
    BY <2>6, RowsKeep, EventsKeep, FinalKeeps DEF IInv
  <2> QED BY <2>9, <2>10, <2>11 DEF IInv, DispatcherOK
<1> QED BY <1>5, <1>6

\* An execution takes hold of a payment it is going to write.
LEMMA HoldStep ==
  ASSUME IInv, NEW p \in Processes, NEW step \in Writing, Goto(p, step),
         NEW row \in Orders, NEW payment \in Payment, Hold(p, row, payment),
         Sound(row, payment),
         step = "replacing" => p \in Orders,
         step = "approving" => p \in Approvals,
         step = "received" => p \in Webhooks,
         UNCHANGED <<tables, providers, unsaved, failures>>, DispatcherOK',
         \A o \in Objects : domainEvents'[o] # <<>> =>
           domainEvents[o] # <<>> \/ (o[2] \in Requests => Caused(o[2])')
  PROVE  IInv'
<1>1. /\ step \in Steps /\ step \in Holding /\ step \notin CompletionSteps
      /\ row \in Requests
  BY StepSets DEF Writing, CompletionSteps, Requests
<1>2. TypeOK /\ held \in [Processes -> HeldValues]
  BY Known
<1>3. pc'[p] = step
  BY <1>1, <1>2, GotoFacts
<1>4. held' = [held EXCEPT ![p] = <<row, payment>>] /\ <<row, payment>> \in HeldValues
  BY <1>1 DEF Hold, HeldValues
<1>5. /\ held' \in [Processes -> HeldValues]
      /\ held'[p] = <<row, payment>>
      /\ \A q \in Processes \ {p} : held'[q] = held[q]
  BY <1>2, <1>4
<1>6. KindOf(p)'
  BY <1>3, StepSets DEF KindOf, Writing, Replacing, RequestSteps, ApprovalSteps,
                        WebhookSteps, CompletionSteps, Requests
<1>7. ProgressOf(p)'
  BY <1>3 DEF ProgressOf, Writing
<1>8. HeldOf(p)'
  <2>1. Row(p)' = row /\ held'[p][2] = payment
    BY <1>5 DEF Row
  <2>2. Sound(row, payment)'
    BY DEF Sound, Settled, providers
  <2>3. Sound(Row(p), held[p][2])'
    BY <2>1, <2>2 DEF Sound
  <2>4. pc'[p] \in Replacing => p \in Orders
    BY <1>3 DEF Writing, Replacing
  <2> QED BY <1>1, <2>1, <2>3, <2>4 DEF HeldOf
<1>9. CauseOf(p)'
  BY <1>1, <1>3, StepSets DEF CauseOf
<1>10. unsaved' \subseteq Requests /\ failures' \in 0..MaxFailures
  BY Known
<1> QED BY <1>1, <1>5, <1>6, <1>7, <1>8, <1>9, <1>10, LocalStep

-----------------------------------------------------------------------------
(* The steps of RecordPayment that write and dispatch.                        *)

LEMMA DetailsOf ==
  ASSUME NEW r \in Requests
  PROVE  /\ PaymentDetails(r) \in Payment
         /\ PaymentDetails(r).status = IF r \in Orders THEN "CREATED" ELSE "COMPLETED"
         /\ PaymentDetails(r).foreignPaymentId =
              IF r \in Cards THEN <<"charge", r>>
              ELSE IF r \in Orders THEN <<"order", r>>
              ELSE <<"reference", ReferenceOf[r]>>
<1> DEFINE id == IF r \in Cards THEN <<"charge", r>>
                 ELSE IF r \in Orders THEN <<"order", r>>
                 ELSE <<"reference", ReferenceOf[r]>>
           status == IF r \in Orders THEN "CREATED" ELSE "COMPLETED"
<1>1. id \in ForeignId
  BY PaymentAssumption DEF ForeignId, Requests
<1>2. status \in PaymentStatus
  BY DEF PaymentStatus
<1>3. PaymentDetails(r) = [status |-> status, foreignPaymentId |-> id]
  BY DEF PaymentDetails
<1> HIDE DEF id, status
<1>4. PaymentDetails(r) \in Payment
  BY <1>1, <1>2, <1>3 DEF Payment
<1>5. PaymentDetails(r).status = status /\ PaymentDetails(r).foreignPaymentId = id
  BY <1>3
<1> QED BY <1>4, <1>5 DEF id, status

\* What a request writes is sound in its own row once its card is charged.
LEMMA DetailsSound ==
  ASSUME NEW r \in Requests, r \in Cards => r \in charges
  PROVE  Sound(r, PaymentDetails(r))
<1>1. /\ r \in Cards \/ r \in Orders \/ r \in Transfers
      /\ ~(r \in Cards /\ r \in Orders)
      /\ ~(r \in Cards /\ r \in Transfers)
      /\ ~(r \in Orders /\ r \in Transfers)
  BY DisjointAssumption DEF Requests
<1>2. CASE r \in Cards
  <2>1. /\ PaymentDetails(r).status = "COMPLETED"
        /\ PaymentDetails(r).foreignPaymentId = <<"charge", r>>
    BY <1>1, <1>2, DetailsOf
  <2> QED BY <1>2, <2>1 DEF Sound
<1>3. CASE r \in Orders
  <2>1. /\ PaymentDetails(r).status = "CREATED"
        /\ PaymentDetails(r).foreignPaymentId = <<"order", r>>
    BY <1>1, <1>3, DetailsOf
  <2> QED BY <1>3, <2>1 DEF Sound
<1>4. CASE r \in Transfers
  <2>1. /\ PaymentDetails(r).status = "COMPLETED"
        /\ PaymentDetails(r).foreignPaymentId = <<"reference", ReferenceOf[r]>>
    BY <1>1, <1>4, DetailsOf
  <2> QED BY <1>4, <2>1 DEF Sound
<1> QED BY <1>1, <1>2, <1>3, <1>4

\* An order may replace another one of its invoice.
LEMMA OrderSound ==
  ASSUME NEW r \in Orders, NEW s \in Orders, InvoiceOf[s] = InvoiceOf[r]
  PROVE  Sound(s, PaymentDetails(r))
<1>1. r \in Requests /\ r \notin Cards
  BY DisjointAssumption DEF Requests
<1>2. /\ PaymentDetails(r).status = "CREATED"
      /\ PaymentDetails(r).foreignPaymentId = <<"order", r>>
  BY <1>1, DetailsOf
<1> QED BY <1>2 DEF Sound

LEMMA SavePaymentStep ==
  ASSUME IInv, NEW r \in Requests, SavePayment(r)
  PROVE  IInv'
<1>1. /\ pc[r] = "absent"
      /\ UpdatePayment(r, PaymentDetails(r))
      /\ Goto(r, "inserted")
      /\ UNCHANGED <<invoices, providers, held, unsaved, failures, dispatcher>>
  BY DEF SavePayment
<1>2. r \in Processes /\ "inserted" \in Steps /\ "inserted" \in Paying
  BY Kinds, StepSets DEF Paying
<1>3. TypeOK /\ ProgressOf(r)
  BY <1>2, Known
<1>4. Sound(r, PaymentDetails(r)) /\ PaymentDetails(r) \in Payment
  BY <1>1, <1>3, DetailsOf, DetailsSound DEF ProgressOf
<1>5. r \in Transfers => PaymentDetails(r).status = "COMPLETED"
  BY DetailsOf, DisjointAssumption
<1>6. pc'[r] = "inserted"
  BY <1>1, <1>2, <1>3, GotoFacts
<1>7. ProgressOf(r)'
  <2>1. payments'[r] = PaymentDetails(r)
    BY <1>1, <1>3, Types DEF UpdatePayment
  <2> QED BY <1>1, <1>3, <1>5, <1>6, <2>1 DEF ProgressOf, providers
<1>8. KindOf(r)' /\ ProgressOf(r)' /\ HeldOf(r)' /\ CauseOf(r)'
  BY <1>2, <1>6, <1>7, AtRequest
<1> QED BY <1>1, <1>2, <1>4, <1>5, <1>8, WriteStep

LEMMA SetAndDispatchEventsStep ==
  ASSUME IInv, NEW r \in Requests, SetAndDispatchEvents(r)
  PROVE  IInv'
<1>1. /\ pc[r] = "inserted"
      /\ IF PaymentDetails(r).status = "COMPLETED"
           THEN D!RaiseAndDispatch(<<r, r>>, "PaymentCompleted")
           ELSE D!DispatchEventsForAggregate(r)
      /\ Notify(r, r, "saved")
      /\ UNCHANGED <<tables, providers, unsaved, failures>>
  BY DEF SetAndDispatchEvents
<1>2. ProgressOf(r) /\ DispatcherOK
  BY Kinds, Known
<1>3. CASE PaymentDetails(r).status = "COMPLETED"
  <2>1. Caused(r)
    BY <1>1, <1>2, <1>3, DetailsOf DEF ProgressOf, Caused, Requests
  <2>2. Caused(r)'
    BY <1>1, <2>1 DEF Caused, Settled, tables, providers
  <2>3. /\ <<r, r>> \in Objects /\ "PaymentCompleted" \in EventClasses
        /\ <<>> \in Seq(EventClasses)
    BY DEF Objects, EventClasses
  <2>4. /\ DispatcherOK'
        /\ \A o \in Objects : domainEvents'[o] # <<>> =>
                                o = <<r, r>> \/ domainEvents[o] # <<>>
    BY <1>1, <1>2, <1>3, <2>3, DispatcherRaises
  <2>5. \A o \in Objects : domainEvents'[o] # <<>> =>
          domainEvents[o] # <<>> \/ (o[2] \in Requests => Caused(o[2])')
    <3> SUFFICES ASSUME NEW o \in Objects, o = <<r, r>>
                 PROVE  Caused(o[2])'
      BY <2>4
    <3>1. o[2] = r
      OBVIOUS
    <3> QED BY <2>2, <3>1 DEF Caused
  <2> QED BY <1>1, <2>1, <2>4, <2>5, NotifyStep
<1>4. CASE PaymentDetails(r).status # "COMPLETED"
  <2>1. /\ DispatcherOK'
        /\ \A o \in Objects : domainEvents'[o] # <<>> => domainEvents[o] # <<>>
        /\ dispatched' # dispatched =>
             \E o \in Objects : o[2] = r /\ domainEvents[o] # <<>>
    BY <1>1, <1>2, <1>4, DispatcherDispatches
  <2>2. dispatched' # dispatched => Caused(r)
    BY <2>1 DEF IInv, EventInv
  <2> QED BY <1>1, <2>1, <2>2, NotifyStep
<1> QED BY <1>3, <1>4

\* The existing payment of an order's invoice is an order's.
LEMMA ExistingOrders ==
  ASSUME IInv, NEW r \in Requests, NEW s \in ExistingPayments(r)
  PROVE  s \in Orders /\ r \in Orders /\ InvoiceOf[s] = InvoiceOf[r]
<1>1. /\ s \in Requests /\ InvoiceOf[s] = InvoiceOf[r]
      /\ payments[s].status = "CREATED" /\ SameMethod(r, s)
  BY DEF ExistingPayments, PaymentsOf
<1>2. s \in Orders
  BY <1>1 DEF IInv, RowInv, Sound
<1>3. r \in Orders
  BY <1>1, <1>2, DisjointAssumption DEF SameMethod
<1> QED BY <1>1, <1>2, <1>3

LEMMA AttachPaymentAgainStep ==
  ASSUME IInv, NEW r \in Requests, AttachPaymentAgain(r)
  PROVE  IInv'
<1>1. UNCHANGED <<tables, providers, unsaved, failures, dispatcher>> /\ pc[r] = "saved"
  BY DEF AttachPaymentAgain
<1>2. r \in Processes /\ TypeOK /\ DispatcherOK /\ held \in [Processes -> HeldValues]
  BY Kinds, Known
<1>3. CASE UNCHANGED held /\ Goto(r, IF r \in unsaved THEN "failed" ELSE "done")
  <2>1. PICK step \in Ended : Goto(r, step)
    BY <1>3 DEF Ended
  <2>2. pc'[r] = step
    BY <1>2, <2>1, StepSets, GotoFacts
  <2>3. ProgressOf(r)'
    BY <2>2 DEF ProgressOf, Ended
  <2> QED BY <1>1, <1>3, <2>1, <2>3, RequestMoves
<1>4. ASSUME NEW s \in ExistingPayments(r), Hold(r, s, PaymentDetails(r)), Goto(r, "replacing")
      PROVE  IInv'
  <2>1. s \in Orders /\ r \in Orders /\ InvoiceOf[s] = InvoiceOf[r] /\ s \in Requests
    BY ExistingOrders DEF Requests
  <2>2. Sound(s, PaymentDetails(r)) /\ PaymentDetails(r) \in Payment
    BY <2>1, OrderSound, DetailsOf
  <2>3. DispatcherOK' /\ UNCHANGED domainEvents
    BY <1>1, <1>2, DispatcherQuiet
  <2>4. "replacing" \in Writing
    BY DEF Writing
  <2> QED BY <1>1, <1>2, <1>4, <2>1, <2>2, <2>3, <2>4, HoldStep
<1> QED BY <1>3, <1>4 DEF AttachPaymentAgain

LEMMA ReplacePaymentStep ==
  ASSUME IInv, NEW r \in Requests, ReplacePayment(r)
  PROVE  IInv'
<1>1. /\ pc[r] = "replacing"
      /\ UpdatePayment(Row(r), held[r][2])
      /\ Goto(r, "replaced")
      /\ UNCHANGED <<invoices, providers, held, unsaved, failures, dispatcher>>
  BY DEF ReplacePayment
<1>2. r \in Processes /\ "replaced" \in Steps /\ "replaced" \in Replacing
  BY Kinds, StepSets DEF Replacing
<1>3. TypeOK /\ HeldOf(r) /\ held \in [Processes -> HeldValues]
  BY <1>2, Known
<1>4. PICK row, payment : row = Row(r) /\ payment = held[r][2]
  OBVIOUS
<1>5. row \in Orders /\ r \in Orders /\ Sound(row, payment)
  BY <1>1, <1>3, <1>4 DEF HeldOf, Writing, Replacing
<1>6. payment \in Payment \cup {NoPayment}
  BY <1>2, <1>3, <1>4 DEF HeldValues, NoObject
<1>7. row \in Requests /\ row \notin Transfers
  BY <1>5, DisjointAssumption DEF Requests
<1>8. pc'[r] = "replaced"
  BY <1>1, <1>2, <1>3, GotoFacts
<1>9. KindOf(r)'
  BY <1>2, <1>8, StepSets DEF KindOf
<1>10. ProgressOf(r)'
  BY <1>8 DEF ProgressOf
<1>11. HeldOf(r)'
  <2>1. Row(r)' = row
    BY <1>1, <1>4 DEF Row
  <2> QED BY <1>5, <1>7, <1>8, <2>1 DEF HeldOf, Writing
<1>12. CauseOf(r)'
  BY <1>2, <1>8, StepSets DEF CauseOf
<1>13. UpdatePayment(row, payment)
  BY <1>1, <1>4
<1> QED BY <1>1, <1>2, <1>5, <1>6, <1>7, <1>9, <1>10, <1>11, <1>12, <1>13, WriteStep

\* A completed row has its cause.
LEMMA CompletedCaused ==
  ASSUME IInv, NEW row \in Requests, payments[row].status = "COMPLETED"
  PROVE  Caused(row)
BY DEF IInv, RowInv, Sound, Caused

LEMMA DispatchReplacedStep ==
  ASSUME IInv, NEW r \in Requests, DispatchReplaced(r)
  PROVE  IInv'
<1>1. PICK row, step :
        /\ row = Row(r)
        /\ step = IF r \in unsaved THEN "failed" ELSE "done"
  OBVIOUS
<1>2. /\ pc[r] = "replaced"
      /\ IF payments[row].status = "COMPLETED"
           THEN D!RaiseAndDispatch(<<r, row>>, "PaymentCompleted")
           ELSE D!DispatchEventsForAggregate(row)
      /\ Notify(r, row, step)
      /\ UNCHANGED <<tables, providers, unsaved, failures>>
  BY <1>1 DEF DispatchReplaced
<1>3. HeldOf(r) /\ DispatcherOK
  BY Kinds, Known
<1>4. row \in Orders /\ r \in Orders /\ row \in Requests /\ step \in Ended
  BY <1>1, <1>2, <1>3 DEF HeldOf, Replacing, Requests, Ended
<1>5. CASE payments[row].status = "COMPLETED"
  <2>1. Caused(row)
    BY <1>4, <1>5, CompletedCaused
  <2>2. Caused(row)'
    BY <1>2, <2>1 DEF Caused, Settled, tables, providers
  <2>3. /\ <<r, row>> \in Objects /\ "PaymentCompleted" \in EventClasses
        /\ <<>> \in Seq(EventClasses)
    BY <1>4 DEF Objects, EventClasses
  <2>4. /\ DispatcherOK'
        /\ \A o \in Objects : domainEvents'[o] # <<>> =>
                                o = <<r, row>> \/ domainEvents[o] # <<>>
    BY <1>2, <1>3, <1>5, <2>3, DispatcherRaises
  <2>5. \A o \in Objects : domainEvents'[o] # <<>> =>
          domainEvents[o] # <<>> \/ (o[2] \in Requests => Caused(o[2])')
    <3> SUFFICES ASSUME NEW o \in Objects, o = <<r, row>>
                 PROVE  Caused(o[2])'
      BY <2>4
    <3>1. o[2] = row
      OBVIOUS
    <3> QED BY <2>2, <3>1 DEF Caused
  <2> QED BY <1>2, <1>4, <2>1, <2>4, <2>5, NotifyStep
<1>6. CASE payments[row].status # "COMPLETED"
  <2>1. /\ DispatcherOK'
        /\ \A o \in Objects : domainEvents'[o] # <<>> => domainEvents[o] # <<>>
        /\ dispatched' # dispatched =>
             \E o \in Objects : o[2] = row /\ domainEvents[o] # <<>>
    BY <1>2, <1>3, <1>6, DispatcherDispatches
  <2>2. dispatched' # dispatched => Caused(row)
    BY <1>4, <2>1 DEF IInv, EventInv
  <2> QED BY <1>2, <1>4, <2>1, <2>2, NotifyStep
<1> QED BY <1>5, <1>6

-----------------------------------------------------------------------------
(* The approval of an order, and PayPal's own steps.                          *)

\* Nothing is known of an execution that holds nothing and is no request.
LEMMA AtRest ==
  ASSUME NEW p \in Approvals, pc'[p] = "captured"
  PROVE  KindOf(p)' /\ ProgressOf(p)' /\ HeldOf(p)' /\ CauseOf(p)'
<1>1. "captured" \in ApprovalSteps /\ "captured" \notin Holding
  BY DEF ApprovalSteps, Holding, Writing, Replacing, CompletionSteps
<1>2. KindOf(p)'
  BY <1>1, StepSets DEF KindOf
<1>3. ProgressOf(p)'
  BY DEF ProgressOf
<1>4. HeldOf(p)'
  BY <1>1, StepSets DEF HeldOf
<1>5. CauseOf(p)'
  BY <1>1, StepSets DEF CauseOf
<1> QED BY <1>2, <1>3, <1>4, <1>5

\* An order that moves on stays created, and settled once it is.
LEMMA OrderStep ==
  ASSUME IInv, NEW o \in Orders, orders[o] # "none", NEW state \in OrderStates \ {"none"},
         orders' = [orders EXCEPT ![o] = state],
         Settled(o) => state \in {"settled", "refunded"},
         UNCHANGED <<tables, charges>>
  PROVE  /\ Grows /\ (\A q : Uncreated(q))
         /\ orders' \in [Orders -> OrderStates]
         /\ UNCHANGED <<invoices, payments>>
<1>1. orders \in [Orders -> OrderStates]
  BY Types DEF IInv
<1>2. UNCHANGED <<invoices, payments>>
  BY DEF tables
<1>3. Grows
  BY <1>1, <1>2 DEF Grows, Settled
<1>4. ASSUME NEW q PROVE Uncreated(q)
  BY <1>1 DEF Uncreated
<1>5. orders' \in [Orders -> OrderStates]
  BY <1>1
<1> QED BY <1>2, <1>3, <1>4, <1>5

LEMMA CaptureMoneyStep ==
  ASSUME IInv, NEW a \in Approvals, CaptureMoney(a)
  PROVE  IInv'
<1>1. UNCHANGED <<tables, charges, held, unsaved, failures, dispatcher>>
  BY DEF CaptureMoney
<1>2. /\ a \in Processes /\ OrderOf[a] \in Orders
      /\ TypeOK /\ DispatcherOK /\ held \in [Processes -> HeldValues]
  BY Kinds, Known, PaymentAssumption
<1>3. CASE Goto(a, "rejected") /\ UNCHANGED orders
  <2>1. "rejected" \in Steps /\ "rejected" \in Ended
    BY StepSets DEF Ended
  <2>2. pc'[a] = "rejected"
    BY <1>2, <1>3, <2>1, GotoFacts
  <2>3. KindOf(a)' /\ ProgressOf(a)' /\ HeldOf(a)' /\ CauseOf(a)'
    BY <1>2, <2>1, <2>2, AtEnd
  <2>4. unsaved' \subseteq Requests /\ failures' \in 0..MaxFailures
    BY <1>1, <1>2, Known
  <2>5. UNCHANGED providers
    BY <1>1, <1>3 DEF providers
  <2> QED BY <1>1, <1>2, <1>3, <2>1, <2>3, <2>4, <2>5, QuietStep
<1>4. CASE /\ orders[OrderOf[a]] = "created"
           /\ orders' = [orders EXCEPT ![OrderOf[a]] = "captured"]
           /\ Goto(a, "captured")
  <2>1. "captured" \in Steps /\ "captured" \in OrderStates
    BY DEF Steps, InFlightSteps, ApprovalSteps, OrderStates
  <2>2. /\ pc' \in [Processes -> Steps] /\ pc'[a] = "captured"
        /\ \A q \in Processes \ {a} : pc'[q] = pc[q]
    BY <1>2, <1>4, <2>1, GotoFacts
  <2>3. /\ Grows /\ (\A q : Uncreated(q))
        /\ orders' \in [Orders -> OrderStates]
        /\ UNCHANGED <<invoices, payments>>
    <3>1. ~Settled(OrderOf[a])
      BY <1>4 DEF Settled
    <3> QED BY <1>1, <1>2, <1>4, <2>1, <3>1, OrderStep
  <2>4. DispatcherOK' /\ UNCHANGED domainEvents
    BY <1>1, <1>2, DispatcherQuiet
  <2>5. TypeOK'
    BY <1>1, <1>2, <2>2, <2>3, <2>4, Types, TypesNext DEF DispatcherOK
  <2>6. ProcessInv'
    <3>1. OnlyMoves({a})
      BY <1>1, <2>2, <2>3 DEF OnlyMoves
    <3>2. KindOf(a)' /\ ProgressOf(a)' /\ HeldOf(a)' /\ CauseOf(a)'
      BY <2>2, AtRest
    <3> QED BY <2>3, <3>1, <3>2, MoveKeeps
  <2>7. RowInv' /\ EventInv' /\ FinalHasCause'
    BY <2>3, <2>4, RowsKeep, EventsKeep, FinalKeeps DEF IInv
  <2> QED BY <2>4, <2>5, <2>6, <2>7 DEF IInv, DispatcherOK
<1> QED BY <1>3, <1>4 DEF CaptureMoney

LEMMA SettleStep ==
  ASSUME IInv, NEW o \in Orders, Settle(o)
  PROVE  IInv'
<1>1. UNCHANGED <<tables, charges, pc, held, unsaved, failures, dispatcher>>
  BY DEF Settle
<1>2. PICK state \in {"settled", "denied", "refunded"} :
        /\ orders[o] # "none"
        /\ orders' = [orders EXCEPT ![o] = state]
        /\ Settled(o) => state \in {"settled", "refunded"}
  BY DEF Settle, Settled
<1>3. state \in OrderStates \ {"none"}
  BY DEF OrderStates
<1>4. /\ Grows /\ (\A q : Uncreated(q))
      /\ orders' \in [Orders -> OrderStates]
      /\ UNCHANGED <<invoices, payments>>
  BY <1>1, <1>2, <1>3, OrderStep
<1>5. TypeOK /\ DispatcherOK
  BY DEF IInv, TypeOK, DispatcherOK
<1>6. DispatcherOK' /\ UNCHANGED domainEvents
  BY <1>1, <1>5, DispatcherQuiet
<1>7. TypeOK'
  BY <1>1, <1>4, <1>5, <1>6, Types, TypesNext DEF DispatcherOK
<1>8. ProcessInv'
  <2>1. OnlyMoves({})
    BY <1>1, <1>4 DEF OnlyMoves
  <2> QED BY <1>4, <2>1, MoveKeeps
<1>9. RowInv' /\ EventInv' /\ FinalHasCause'
  BY <1>4, <1>6, RowsKeep, EventsKeep, FinalKeeps DEF IInv
<1> QED BY <1>6, <1>7, <1>8, <1>9 DEF IInv, DispatcherOK

\* The payment found by an id of PayPal is an order's, of the same invoice.
LEMMA FoundOrders ==
  ASSUME IInv, NEW o \in Orders, NEW s,
         s \in PaymentsWith(<<"order", o>>) \/ s \in PaymentsWith(<<"capture", o>>)
  PROVE  s \in Orders /\ s \in Requests /\ InvoiceOf[o] = InvoiceOf[s]
<1>1. s \in Requests /\ payments[s].foreignPaymentId \in {<<"order", o>>, <<"capture", o>>}
  BY DEF PaymentsWith
<1> QED BY <1>1 DEF IInv, RowInv, Sound

LEMMA AttachPaymentStep ==
  ASSUME IInv, NEW a \in Approvals, AttachPayment(a)
  PROVE  IInv'
<1>1. UNCHANGED <<tables, providers, unsaved, failures, dispatcher>>
  BY DEF AttachPayment
<1>2. /\ a \in Processes /\ OrderOf[a] \in Orders /\ TypeOK /\ DispatcherOK
  BY Kinds, Known, PaymentAssumption
<1>3. CASE Goto(a, "lost") /\ UNCHANGED held
  <2>1. "lost" \in Steps /\ "lost" \in Ended
    BY StepSets DEF Ended
  <2>2. pc'[a] = "lost"
    BY <1>2, <1>3, <2>1, GotoFacts
  <2>3. KindOf(a)' /\ ProgressOf(a)' /\ HeldOf(a)' /\ CauseOf(a)'
    BY <1>2, <2>1, <2>2, AtEnd
  <2>4. unsaved' \subseteq Requests /\ failures' \in 0..MaxFailures
    BY <1>1, <1>2, Known
  <2> QED BY <1>1, <1>2, <1>3, <2>1, <2>3, <2>4, QuietStep
<1>4. ASSUME NEW s \in PaymentsWith(<<"order", OrderOf[a]>>),
             Hold(a, s, [status |-> "PENDING",
                         foreignPaymentId |-> <<"capture", OrderOf[a]>>]),
             Goto(a, "approving")
      PROVE  IInv'
  <2>1. PICK payment : payment = [status |-> "PENDING",
                                  foreignPaymentId |-> <<"capture", OrderOf[a]>>]
    OBVIOUS
  <2>2. s \in Orders /\ InvoiceOf[OrderOf[a]] = InvoiceOf[s]
    BY <1>2, FoundOrders
  <2>3. payment \in Payment
    <3>1. <<"capture", OrderOf[a]>> \in ForeignId /\ "PENDING" \in PaymentStatus
      BY <1>2 DEF ForeignId, PaymentStatus
    <3> QED BY <2>1, <3>1 DEF Payment
  <2>4. Sound(s, payment)
    <3>1. payment.status = "PENDING" /\ payment.foreignPaymentId = <<"capture", OrderOf[a]>>
      BY <2>1
    <3> QED BY <2>2, <3>1 DEF Sound
  <2>5. DispatcherOK' /\ UNCHANGED domainEvents
    BY <1>1, <1>2, DispatcherQuiet
  <2>6. Hold(a, s, payment) /\ "approving" \in Writing
    BY <1>4, <2>1 DEF Writing
  <2> QED BY <1>1, <1>2, <1>4, <2>2, <2>3, <2>4, <2>5, <2>6, HoldStep
<1> QED BY <1>3, <1>4 DEF AttachPayment

\* The row an execution is going to write, and what it writes there.
LEMMA WritingFacts ==
  ASSUME IInv, NEW p \in Processes, pc[p] \in Writing
  PROVE  \E row \in Orders, payment \in Payment \cup {NoPayment} :
           /\ row = Row(p) /\ payment = held[p][2]
           /\ row \in Requests /\ row \notin Transfers /\ Sound(row, payment)
<1>1. HeldOf(p) /\ held \in [Processes -> HeldValues]
  BY Known
<1>2. PICK row, payment : row = Row(p) /\ payment = held[p][2]
  OBVIOUS
<1>3. row \in Orders /\ Sound(row, payment)
  BY <1>1, <1>2 DEF HeldOf
<1>4. payment \in Payment \cup {NoPayment}
  BY <1>1, <1>2 DEF HeldValues, NoObject
<1>5. row \in Requests /\ row \notin Transfers
  BY <1>3, DisjointAssumption DEF Requests
<1> QED BY <1>2, <1>3, <1>4, <1>5

LEMMA SavePaymentChangesStep ==
  ASSUME IInv, NEW a \in Approvals, SavePaymentChanges(a)
  PROVE  IInv'
<1>1. /\ pc[a] \in Writing
      /\ UpdatePayment(Row(a), held[a][2])
      /\ Goto(a, "done")
      /\ UNCHANGED <<invoices, providers, held, unsaved, failures, dispatcher>>
  BY DEF SavePaymentChanges, Writing
<1>2. a \in Processes /\ "done" \in Steps /\ "done" \in Ended
  BY Kinds, StepSets DEF Ended
<1>3. PICK row \in Orders, payment \in Payment \cup {NoPayment} :
        /\ row = Row(a) /\ payment = held[a][2]
        /\ row \in Requests /\ row \notin Transfers /\ Sound(row, payment)
  BY <1>1, <1>2, WritingFacts
<1>4. pc'[a] = "done"
  BY <1>1, <1>2, Known, GotoFacts
<1>5. KindOf(a)' /\ ProgressOf(a)' /\ HeldOf(a)' /\ CauseOf(a)'
  BY <1>2, <1>4, AtEnd
<1>6. UpdatePayment(row, payment)
  BY <1>1, <1>3
<1> QED BY <1>1, <1>2, <1>3, <1>5, <1>6, WriteStep

-----------------------------------------------------------------------------
(* PayPal's webhook.                                                          *)

LEMMA UpdatePaymentStatusStep ==
  ASSUME IInv, NEW w \in Webhooks, UpdatePaymentStatus(w)
  PROVE  IInv'
<1>1. PICK o, e : o = OrderOf[w] /\ e = EventOf[w]
  OBVIOUS
<1>2. /\ w \in Processes /\ o \in Orders /\ e \in {"COMPLETED", "FAILED", "OTHER"}
      /\ TypeOK /\ DispatcherOK
  BY <1>1, Kinds, Known, PaymentAssumption
<1>3. PICK s \in PaymentsWith(<<"capture", o>>) :
        /\ Occurred(e, o)
        /\ payments[s].status = "PENDING"
        /\ Hold(w, s, [payments[s] EXCEPT !.status = IF e = "OTHER" THEN @ ELSE e])
        /\ IF e = "COMPLETED"
             THEN D!AddDomainEvent(<<w, s>>, "PaymentCompleted")
             ELSE UNCHANGED dispatcher
        /\ Goto(w, "received")
        /\ UNCHANGED <<tables, providers, unsaved, failures>>
  BY <1>1 DEF UpdatePaymentStatus
<1>4. s \in Orders /\ s \in Requests /\ InvoiceOf[o] = InvoiceOf[s]
  BY <1>2, FoundOrders
<1>5. /\ payments[s] \in Payment /\ payments[s].foreignPaymentId = <<"capture", o>>
  BY <1>2, <1>3, <1>4, Types DEF PaymentsWith, NoPayment
<1>6. PICK status \in PaymentStatus : status = IF e = "OTHER" THEN "PENDING" ELSE e
  BY <1>2 DEF PaymentStatus
<1>7. PICK payment \in Payment :
        /\ payment = [payments[s] EXCEPT !.status = IF e = "OTHER" THEN @ ELSE e]
        /\ payment.status = status /\ payment.foreignPaymentId = <<"capture", o>>
  <2>1. [payments[s] EXCEPT !.status = IF e = "OTHER" THEN @ ELSE e] =
          [payments[s] EXCEPT !.status = status]
    BY <1>3, <1>5, <1>6 DEF Payment
  <2>2. /\ [payments[s] EXCEPT !.status = status] \in Payment
        /\ [payments[s] EXCEPT !.status = status].status = status
        /\ [payments[s] EXCEPT !.status = status].foreignPaymentId = <<"capture", o>>
    BY <1>5 DEF Payment
  <2> QED BY <2>1, <2>2
<1>8. status = "COMPLETED" => Settled(o)
  BY <1>3, <1>6 DEF Occurred, Settled
<1>9. Sound(s, payment)
  BY <1>2, <1>4, <1>6, <1>7, <1>8 DEF Sound
<1>10. /\ DispatcherOK'
       /\ \A x \in Objects : domainEvents'[x] # <<>> =>
            domainEvents[x] # <<>> \/ (x[2] \in Requests => Caused(x[2])')
  <2>1. CASE e = "COMPLETED"
    <3>1. /\ <<w, s>> \in Objects /\ "PaymentCompleted" \in EventClasses
          /\ <<>> \in Seq(EventClasses)
      BY <1>4 DEF Objects, EventClasses
    <3>2. /\ DispatcherOK'
          /\ \A x \in Objects : domainEvents'[x] # <<>> =>
                                  x = <<w, s>> \/ domainEvents[x] # <<>>
      BY <1>2, <1>3, <2>1, <3>1, DispatcherRaises
    <3>3. Caused(s)'
      BY <1>2, <1>3, <1>4, <1>6, <1>8, <2>1 DEF Caused, Settled, providers
    <3>4. ASSUME NEW x \in Objects, x = <<w, s>> PROVE Caused(x[2])'
      <4>1. x[2] = s
        BY <3>4
      <4> QED BY <3>3, <4>1 DEF Caused
    <3> QED BY <3>2, <3>4
  <2>2. CASE e # "COMPLETED"
    BY <1>2, <1>3, <2>2, DispatcherQuiet
  <2> QED BY <2>1, <2>2
<1>11. Hold(w, s, payment) /\ "received" \in Writing
  BY <1>3, <1>7 DEF Writing
<1> QED BY <1>2, <1>3, <1>4, <1>9, <1>10, <1>11, HoldStep

LEMMA SavePaymentStatusStep ==
  ASSUME IInv, NEW w \in Webhooks, SavePaymentStatus(w)
  PROVE  IInv'
<1>1. /\ pc[w] \in Writing
      /\ UpdatePayment(Row(w), held[w][2])
      /\ Goto(w, "stored")
      /\ UNCHANGED <<invoices, providers, held, unsaved, failures, dispatcher>>
  BY DEF SavePaymentStatus, Writing
<1>2. /\ w \in Processes /\ "stored" \in Steps /\ "stored" \in WebhookSteps
      /\ "stored" \notin Writing /\ "stored" \notin Replacing
  BY Kinds DEF Steps, InFlightSteps, WebhookSteps, Writing, Replacing
<1>3. PICK row \in Orders, payment \in Payment \cup {NoPayment} :
        /\ row = Row(w) /\ payment = held[w][2]
        /\ row \in Requests /\ row \notin Transfers /\ Sound(row, payment)
  BY <1>1, <1>2, WritingFacts
<1>4. pc'[w] = "stored"
  BY <1>1, <1>2, Known, GotoFacts
<1>5. KindOf(w)'
  BY <1>2, <1>4, StepSets DEF KindOf
<1>6. ProgressOf(w)'
  BY <1>4 DEF ProgressOf
<1>7. HeldOf(w)'
  <2>1. Row(w)' = row
    BY <1>1, <1>3 DEF Row
  <2> QED BY <1>2, <1>3, <1>4, <2>1 DEF HeldOf
<1>8. CauseOf(w)'
  BY <1>2, <1>4, StepSets DEF CauseOf
<1>9. UpdatePayment(row, payment)
  BY <1>1, <1>3
<1> QED BY <1>1, <1>2, <1>3, <1>5, <1>6, <1>7, <1>8, <1>9, WriteStep

LEMMA DispatchEventsStep ==
  ASSUME IInv, NEW w \in Webhooks, DispatchEvents(w)
  PROVE  IInv'
<1>1. PICK row : row = Row(w)
  OBVIOUS
<1>2. /\ pc[w] = "stored"
      /\ D!DispatchEventsForAggregate(row)
      /\ Notify(w, row, "done")
      /\ UNCHANGED <<tables, providers, unsaved, failures>>
  BY <1>1 DEF DispatchEvents
<1>3. HeldOf(w) /\ DispatcherOK
  BY Kinds, Known
<1>4. row \in Requests /\ "done" \in Ended
  BY <1>1, <1>2, <1>3 DEF HeldOf, Holding, Ended
<1>5. /\ DispatcherOK'
      /\ \A o \in Objects : domainEvents'[o] # <<>> => domainEvents[o] # <<>>
      /\ dispatched' # dispatched =>
           \E o \in Objects : o[2] = row /\ domainEvents[o] # <<>>
  BY <1>2, <1>3, DispatcherDispatches
<1>6. dispatched' # dispatched => Caused(row)
  BY <1>4, <1>5 DEF IInv, EventInv
<1> QED BY <1>2, <1>4, <1>5, <1>6, NotifyStep

-----------------------------------------------------------------------------
(* AfterPaymentCompleted.                                                     *)

\* One more failure is within the bound.
LEMMA FailureCounted ==
  ASSUME IInv, failures < MaxFailures, failures' = failures + 1
  PROVE  failures' \in 0..MaxFailures
<1>1. MaxFailures \in Nat
  BY PaymentAssumption
<1>2. failures \in 0..MaxFailures
  BY DEF IInv, TypeOK
<1> QED BY <1>1, <1>2

\* What an execution of the subscription knows of its row.
LEMMA CompletionFacts ==
  ASSUME IInv, NEW h \in Completions, pc[h] \in CompletionSteps
  PROVE  /\ h \in Processes /\ Row(h) \in Requests /\ InvoiceOf[Row(h)] \in Invoices
         /\ Caused(Row(h))
         /\ pc[h] \in Finishing => IsFinal(Row(h))
         /\ TypeOK /\ DispatcherOK /\ held \in [Processes -> HeldValues]
<1>1. h \in Processes
  BY Kinds
<1>2. HeldOf(h) /\ CauseOf(h)
  BY <1>1, Known
<1>3. Row(h) \in Requests
  BY <1>2, StepSets DEF HeldOf
<1> QED BY <1>1, <1>2, <1>3, Known, PaymentAssumption DEF CauseOf

\* An execution of the subscription goes on with its row.
LEMMA AtFinishing ==
  ASSUME IInv, NEW h \in Completions, pc[h] \in CompletionSteps,
         pc'[h] \in Finishing, IsFinal(Row(h)),
         UNCHANGED <<payments, providers, held>>
  PROVE  KindOf(h)' /\ ProgressOf(h)' /\ HeldOf(h)' /\ CauseOf(h)'
<1>1. Row(h) \in Requests /\ Caused(Row(h))
  BY CompletionFacts
<1>2. PICK row : row = Row(h) /\ row = Row(h)'
  BY DEF Row
<1>3. KindOf(h)'
  BY StepSets DEF KindOf
<1>4. ProgressOf(h)'
  BY DEF ProgressOf, Finishing
<1>5. HeldOf(h)'
  BY <1>1, <1>2 DEF HeldOf, Finishing, Writing, Replacing
<1>6. Caused(row)'
  BY <1>1, <1>2 DEF Caused, Settled, providers
<1>7. Caused(Row(h))'
  BY <1>2, <1>6 DEF Caused
<1>8. CauseOf(h)'
  BY <1>2, <1>7 DEF CauseOf, IsFinal
<1> QED BY <1>3, <1>4, <1>5, <1>8

\* The events of an invoice are no events of a payment.
LEMMA InvoiceObject ==
  ASSUME NEW h \in Completions, NEW i \in Invoices
  PROVE  /\ <<h, i>> \in Objects
         /\ \A o \in Objects : o = <<h, i>> => o[2] \notin Requests
BY DisjointAssumption DEF Objects

LEMMA OnPaymentCompletedStep ==
  ASSUME IInv, NEW h \in Completions, OnPaymentCompleted(h)
  PROVE  IInv'
<1>1. PICK i : i = InvoiceOf[Row(h)]
  OBVIOUS
<1>2. /\ pc[h] = "notified" /\ pc[h] \in CompletionSteps
      /\ UNCHANGED <<tables, providers, held, unsaved, failures>>
  BY DEF OnPaymentCompleted, CompletionSteps
<1>3. /\ h \in Processes /\ i \in Invoices
      /\ TypeOK /\ DispatcherOK /\ held \in [Processes -> HeldValues]
  BY <1>1, <1>2, CompletionFacts
<1>4. unsaved' \subseteq Requests /\ failures' \in 0..MaxFailures
  BY <1>2, <1>3, Known
<1>5. /\ <<h, i>> \in Objects
      /\ \A o \in Objects : o = <<h, i>> => o[2] \notin Requests
  BY <1>3, InvoiceObject
<1>6. /\ "InvoicePaymentAdded" \in EventClasses /\ FinalEvents \in Seq(EventClasses)
      /\ <<>> \in Seq(EventClasses)
  BY DEF EventClasses, FinalEvents
<1>7. CASE /\ IsFinal(Row(h))
           /\ D!AddDomainEvents(<<h, i>>, FinalEvents)
           /\ Goto(h, "final")
  <2>1. "final" \in Steps /\ "final" \in Finishing
    BY DEF Steps, InFlightSteps, CompletionSteps, Finishing
  <2>2. pc'[h] = "final"
    BY <1>3, <1>7, <2>1, GotoFacts
  <2>3. KindOf(h)' /\ ProgressOf(h)' /\ HeldOf(h)' /\ CauseOf(h)'
    BY <1>2, <1>7, <2>1, <2>2, AtFinishing DEF tables
  <2>4. /\ DispatcherOK'
        /\ \A o \in Objects : domainEvents'[o] # <<>> =>
                                o = <<h, i>> \/ domainEvents[o] # <<>>
    BY <1>3, <1>5, <1>6, <1>7, DispatcherRaises
  <2> QED BY <1>2, <1>3, <1>4, <1>5, <1>7, <2>1, <2>3, <2>4, LocalStep
<1>8. CASE D!RaiseAndDispatch(<<h, i>>, "InvoicePaymentAdded") /\ Goto(h, "done")
  <2>1. "done" \in Steps /\ "done" \in Ended
    BY StepSets DEF Ended
  <2>2. pc'[h] = "done"
    BY <1>3, <1>8, <2>1, GotoFacts
  <2>3. KindOf(h)' /\ ProgressOf(h)' /\ HeldOf(h)' /\ CauseOf(h)'
    BY <1>3, <2>1, <2>2, AtEnd
  <2>4. /\ DispatcherOK'
        /\ \A o \in Objects : domainEvents'[o] # <<>> =>
                                o = <<h, i>> \/ domainEvents[o] # <<>>
    BY <1>3, <1>5, <1>6, <1>8, DispatcherRaises
  <2> QED BY <1>2, <1>3, <1>4, <1>5, <1>8, <2>1, <2>3, <2>4, LocalStep
<1> QED BY <1>1, <1>7, <1>8 DEF OnPaymentCompleted

LEMMA UpdateInvoiceStep ==
  ASSUME IInv, NEW h \in Completions, UpdateInvoice(h)
  PROVE  IInv'
<1>1. PICK row, i : row = Row(h) /\ i = InvoiceOf[row]
  OBVIOUS
<1>2. /\ pc[h] = "final" /\ pc[h] \in CompletionSteps /\ pc[h] \in Finishing
      /\ UNCHANGED <<payments, providers, held, unsaved, dispatcher>>
  BY DEF UpdateInvoice, CompletionSteps, Finishing
<1>3. /\ h \in Processes /\ row \in Requests /\ i \in Invoices
      /\ Caused(row) /\ IsFinal(row) /\ IsFinal(Row(h))
      /\ TypeOK /\ DispatcherOK /\ held \in [Processes -> HeldValues]
  BY <1>1, <1>2, CompletionFacts
<1>4. DispatcherOK' /\ UNCHANGED domainEvents
  BY <1>2, <1>3, DispatcherQuiet
<1>5. "finalized" \in Steps /\ "not stored" \in Steps
      /\ "finalized" \in Finishing /\ "not stored" \in Finishing
  BY DEF Steps, InFlightSteps, CompletionSteps, Finishing
<1>6. CASE /\ failures < MaxFailures
           /\ failures' = failures + 1
           /\ Goto(h, "not stored")
           /\ UNCHANGED invoices
  <2>1. pc'[h] = "not stored"
    BY <1>3, <1>5, <1>6, GotoFacts
  <2>2. KindOf(h)' /\ ProgressOf(h)' /\ HeldOf(h)' /\ CauseOf(h)'
    BY <1>2, <1>3, <1>5, <2>1, AtFinishing
  <2>3. unsaved' \subseteq Requests /\ failures' \in 0..MaxFailures
    BY <1>2, <1>3, <1>6, Known, FailureCounted
  <2> QED BY <1>2, <1>3, <1>4, <1>5, <1>6, <2>2, <2>3, LocalStep DEF tables
<1>7. CASE /\ invoices' = [invoices EXCEPT ![i] = "FINAL"]
           /\ Goto(h, "finalized")
           /\ UNCHANGED failures
  <2>1. /\ pc' \in [Processes -> Steps] /\ pc'[h] = "finalized"
        /\ \A q \in Processes \ {h} : pc'[q] = pc[q]
    BY <1>3, <1>5, <1>7, GotoFacts
  <2>2. UNCHANGED <<payments, charges, orders, held, unsaved, failures>>
    BY <1>2, <1>7 DEF providers
  <2>3. Grows /\ \A q : Uncreated(q)
    BY <2>2, NothingMoved
  <2>4. KindOf(h)' /\ ProgressOf(h)' /\ HeldOf(h)' /\ CauseOf(h)'
    BY <1>2, <1>3, <1>5, <2>1, AtFinishing
  <2>5. ProcessInv'
    <3>1. OnlyMoves({h})
      BY <2>1, <2>2, <2>3 DEF OnlyMoves
    <3> QED BY <2>3, <2>4, <3>1, MoveKeeps
  <2>6. invoices \in [Invoices -> InvoiceStatus] /\ charges \subseteq Requests
    BY <1>3, Types DEF Requests
  <2>7. TypeOK'
    <3>1. invoices' \in [Invoices -> InvoiceStatus]
      BY <1>7, <2>6 DEF InvoiceStatus
    <3> QED BY <1>3, <1>4, <2>1, <2>2, <3>1, Types, TypesNext DEF DispatcherOK
  <2>8. FinalHasCause'
    <3> SUFFICES ASSUME NEW j \in Invoices, invoices'[j] = "FINAL"
                 PROVE  \E r \in Requests :
                          /\ InvoiceOf[r] = j /\ IsFinal(r)
                          /\ \/ r \in charges
                             \/ r \in Orders /\ orders[r] \in {"settled", "refunded"}
                             \/ r \in Transfers /\ payments[r].status = "COMPLETED"
      BY <2>2 DEF FinalHasCause, IsFinal
    <3>1. CASE j # i
      BY <1>7, <2>6, <3>1 DEF IInv, FinalHasCause
    <3>2. CASE j = i
      <4>1. CASE row \in charges
        BY <1>1, <1>3, <3>2, <4>1
      <4>2. CASE row \in Transfers /\ payments[row].status = "COMPLETED"
        BY <1>1, <1>3, <3>2, <4>2
      <4>3. ASSUME NEW o \in Orders, InvoiceOf[o] = InvoiceOf[row], Settled(o)
            PROVE  \E r \in Requests :
                     /\ InvoiceOf[r] = j /\ IsFinal(r)
                     /\ r \in Orders /\ orders[r] \in {"settled", "refunded"}
        <5>1. o \in Requests /\ IsFinal(o)
          BY DisjointAssumption DEF Requests, IsFinal
        <5> QED BY <1>1, <3>2, <4>3, <5>1 DEF Settled
      <4> QED BY <1>3, <4>1, <4>2, <4>3 DEF Caused
    <3> QED BY <3>1, <3>2
  <2>9. RowInv' /\ EventInv'
    BY <1>4, <2>2, <2>3, RowsKeep, EventsKeep
  <2> QED BY <1>4, <2>5, <2>7, <2>8, <2>9 DEF IInv, DispatcherOK
<1> QED BY <1>1, <1>6, <1>7 DEF UpdateInvoice

LEMMA DispatchInvoiceEventsStep ==
  ASSUME IInv, NEW h \in Completions, DispatchInvoiceEvents(h)
  PROVE  IInv'
<1>1. /\ pc[h] \in CompletionSteps
      /\ D!DispatchEventsForAggregate(InvoiceOf[Row(h)])
      /\ UNCHANGED <<tables, providers, held, unsaved, failures>>
  BY DEF DispatchInvoiceEvents, CompletionSteps
<1>2. PICK step \in Ended : Goto(h, step)
  BY DEF DispatchInvoiceEvents, Ended
<1>3. /\ h \in Processes /\ step \in Steps
      /\ TypeOK /\ DispatcherOK /\ held \in [Processes -> HeldValues]
  BY <1>1, CompletionFacts, StepSets
<1>4. pc'[h] = step
  BY <1>2, <1>3, GotoFacts
<1>5. KindOf(h)' /\ ProgressOf(h)' /\ HeldOf(h)' /\ CauseOf(h)'
  BY <1>3, <1>4, AtEnd
<1>6. /\ DispatcherOK'
      /\ \A o \in Objects : domainEvents'[o] # <<>> => domainEvents[o] # <<>>
  BY <1>1, <1>3, DispatcherDispatches
<1>7. unsaved' \subseteq Requests /\ failures' \in 0..MaxFailures
  BY <1>1, <1>3, Known
<1> QED BY <1>1, <1>2, <1>3, <1>5, <1>6, <1>7, LocalStep

-----------------------------------------------------------------------------
(* Failures and restarts.                                                     *)

LEMMA FailStep ==
  ASSUME IInv, NEW p \in Processes, Fail(p)
  PROVE  IInv'
<1>1. /\ failures < MaxFailures /\ failures' = failures + 1
      /\ UNCHANGED <<tables, providers, held, dispatcher>>
  BY DEF Fail
<1>0. failures' \in 0..MaxFailures
  BY <1>1, FailureCounted
<1>2. TypeOK /\ KindOf(p) /\ unsaved \subseteq Requests
  BY Known
<1>3. CASE /\ pc[p] \in {"paid", "absent", "inserted"}
           /\ unsaved' = unsaved \cup {p}
           /\ Goto(p, "saved")
  <2>1. "saved" \in Steps /\ "saved" \in Paying
    BY StepSets DEF Paying
  <2>2. pc'[p] = "saved"
    BY <1>2, <1>3, <2>1, GotoFacts
  <2>3. p \in Requests
    BY <1>2, <1>3, StepSets DEF KindOf, Paying
  <2>4. ProgressOf(p)'
    BY <2>2 DEF ProgressOf
  <2>5. KindOf(p)' /\ ProgressOf(p)' /\ HeldOf(p)' /\ CauseOf(p)'
    BY <2>1, <2>2, <2>3, <2>4, AtRequest
  <2>6. unsaved' \subseteq Requests
    BY <1>2, <1>3, <2>3
  <2> QED BY <1>0, <1>1, <1>3, <2>1, <2>5, <2>6, QuietStep
<1>4. CASE Goto(p, "failed") /\ UNCHANGED unsaved
  <2>1. "failed" \in Steps /\ "failed" \in Ended
    BY StepSets DEF Ended
  <2>2. pc'[p] = "failed"
    BY <1>2, <1>4, <2>1, GotoFacts
  <2>3. KindOf(p)' /\ ProgressOf(p)' /\ HeldOf(p)' /\ CauseOf(p)'
    BY <2>1, <2>2, AtEnd
  <2> QED BY <1>0, <1>1, <1>2, <1>4, <2>1, <2>3, QuietStep
<1> QED BY <1>3, <1>4 DEF Fail

LEMMA RestartStep == IInv /\ Restart => IInv'
<1> SUFFICES ASSUME IInv, Restart PROVE IInv'
  OBVIOUS
<1>1. /\ failures < MaxFailures /\ failures' = failures + 1
      /\ pc' = [p \in Processes |-> IF InFlight(p) THEN "failed" ELSE pc[p]]
      /\ markedAggregates' = <<>>
      /\ domainEvents' = [o \in Objects |-> <<>>]
      /\ UNCHANGED <<invoices, payments, charges, orders, held, unsaved>>
      /\ UNCHANGED <<handlersMap, raised, dispatched>>
  BY DEF Restart, tables, providers
<1>2. TypeOK /\ D!DispatcherTypeOK
  BY Types DEF IInv
<1>3. Grows /\ \A q : Uncreated(q)
  BY <1>1, NothingMoved
<1>4. D!DispatcherTypeOK' /\ D!MarkedUnique'
  <2>1. D!DispatcherTypeOK'
    BY <1>1, <1>2 DEF D!DispatcherTypeOK
  <2>2. D!MarkedUnique'
    BY <1>1 DEF D!MarkedUnique
  <2> QED BY <2>1, <2>2
<1>5. pc \in [Processes -> Steps] /\ "failed" \in Steps /\ "failed" \in Ended
  BY <1>2, Types, StepSets DEF Ended
<1>6. TypeOK'
  <2>1. failures' \in 0..MaxFailures
    BY <1>1, FailureCounted
  <2>2. pc' \in [Processes -> Steps]
    BY <1>1, <1>5
  <2> QED BY <1>1, <1>2, <1>4, <2>1, <2>2, Types, TypesNext
<1>7. ProcessInv'
  <2> DEFINE M == {p \in Processes : InFlight(p)}
  <2>1. OnlyMoves(M)
    BY <1>1, <1>3 DEF OnlyMoves
  <2>2. ASSUME NEW p \in M
        PROVE  KindOf(p)' /\ ProgressOf(p)' /\ HeldOf(p)' /\ CauseOf(p)'
    <3>1. p \in Processes /\ pc'[p] \in Ended
      BY <1>1, <1>5
    <3> QED BY <3>1, AtEnd
  <2> HIDE DEF M
  <2> QED BY <1>3, <2>1, <2>2, MoveKeeps
<1>8. RowInv' /\ FinalHasCause'
  BY <1>1, <1>3, RowsKeep, FinalKeeps DEF IInv
<1>9. EventInv'
  BY <1>1 DEF EventInv
<1> QED BY <1>4, <1>6, <1>7, <1>8, <1>9 DEF IInv

-----------------------------------------------------------------------------
LEMMA IInvInit == Init => IInv
<1> SUFFICES ASSUME Init PROVE IInv
  OBVIOUS
<1>1. /\ invoices = [i \in Invoices |-> "ACTIVE"]
      /\ payments = [r \in Requests |-> NoPayment]
      /\ charges = {}
      /\ orders = [o \in Orders |-> "none"]
      /\ pc = [p \in Processes |-> "idle"]
      /\ held = [p \in Processes |-> NoObject]
      /\ unsaved = {}
      /\ failures = 0
      /\ D!DispatcherInit
  BY DEF Init
<1>2. DispatcherOK
  <2>1. D!DispatcherTypeOK
    BY <1>1 DEF D!DispatcherInit, D!DispatcherTypeOK
  <2>2. D!MarkedUnique
    BY <1>1 DEF D!DispatcherInit, D!MarkedUnique
  <2> QED BY <2>1, <2>2 DEF DispatcherOK
<1>3. TypeOK
  <2>1. failures \in 0..MaxFailures
    BY <1>1, PaymentAssumption
  <2>2. /\ invoices \in [Invoices -> InvoiceStatus]
        /\ payments \in [Requests -> Payment \cup {NoPayment}]
        /\ charges \subseteq Cards /\ unsaved \subseteq Requests
    BY <1>1 DEF InvoiceStatus
  <2>3. /\ orders \in [Orders -> {"none", "created", "captured", "settled",
                                  "denied", "refunded"}]
        /\ pc \in [Processes -> Steps]
    BY <1>1 DEF Steps
  <2>4. held \in [Processes -> {NoObject} \cup (Requests \X (Payment \cup {NoPayment}))]
    BY <1>1
  <2> QED BY <1>2, <2>1, <2>2, <2>3, <2>4 DEF TypeOK, DispatcherOK
<1>4. RowInv
  <2> SUFFICES ASSUME NEW r \in Requests PROVE Sound(r, NoPayment)
    BY <1>1 DEF RowInv
  <2>1. NoPayment.status = "NONE" /\ NoPayment.foreignPaymentId = <<"none">>
    BY DEF NoPayment, NoId
  <2>2. \A o \in Orders : <<"none">> # <<"order", o>> /\ <<"none">> # <<"capture", o>>
    OBVIOUS
  <2> QED BY <2>1, <2>2 DEF Sound
<1>5. EventInv
  BY <1>1 DEF EventInv, D!DispatcherInit
<1>6. ProcessInv
  <2> SUFFICES ASSUME NEW p \in Processes
               PROVE  KindOf(p) /\ ProgressOf(p) /\ HeldOf(p) /\ CauseOf(p)
    BY DEF ProcessInv
  <2>1. pc[p] = "idle"
    BY <1>1
  <2>2. KindOf(p)
    BY <2>1 DEF KindOf, RequestSteps, ApprovalSteps, WebhookSteps, CompletionSteps
  <2>3. ProgressOf(p)
    BY <1>1, <2>1 DEF ProgressOf
  <2>4. HeldOf(p)
    BY <2>1 DEF HeldOf, Holding, Writing, Replacing, CompletionSteps
  <2>5. CauseOf(p)
    BY <2>1 DEF CauseOf, CompletionSteps, Finishing
  <2> QED BY <2>2, <2>3, <2>4, <2>5
<1>7. FinalHasCause
  BY <1>1 DEF FinalHasCause
<1> QED BY <1>2, <1>3, <1>4, <1>5, <1>6, <1>7 DEF IInv, DispatcherOK

LEMMA IInvNext == IInv /\ [Next]_vars => IInv'
<1> SUFFICES ASSUME IInv, [Next]_vars PROVE IInv'
  OBVIOUS
<1>1. ASSUME NEW r \in Requests, RequestStep(r) PROVE IInv'
  BY <1>1, CheckReferenceStep, AttachInvoiceStep, ShouldPayInvoiceStep, PayStep,
     AttachPaymentIfExistsStep, SavePaymentStep, SetAndDispatchEventsStep,
     AttachPaymentAgainStep, ReplacePaymentStep, DispatchReplacedStep DEF RequestStep
<1>2. ASSUME NEW a \in Approvals, ApprovalStep(a) PROVE IInv'
  BY <1>2, CaptureMoneyStep, AttachPaymentStep, SavePaymentChangesStep DEF ApprovalStep
<1>3. ASSUME NEW w \in Webhooks, WebhookStep(w) PROVE IInv'
  BY <1>3, UpdatePaymentStatusStep, SavePaymentStatusStep, DispatchEventsStep
     DEF WebhookStep
<1>4. ASSUME NEW h \in Completions, CompletionStep(h) PROVE IInv'
  BY <1>4, OnPaymentCompletedStep, UpdateInvoiceStep, DispatchInvoiceEventsStep
     DEF CompletionStep
<1>5. ASSUME NEW p \in Processes, Fail(p) PROVE IInv'
  BY <1>5, FailStep
<1>6. ASSUME NEW o \in Orders, Settle(o) PROVE IInv'
  BY <1>6, SettleStep
<1>7. CASE UNCHANGED vars
  <2>1. /\ UNCHANGED <<invoices, payments, charges, orders, pc, held, unsaved, failures>>
        /\ UNCHANGED dispatcher
    BY <1>7 DEF vars, tables, providers
  <2>2. TypeOK /\ DispatcherOK
    BY DEF IInv, TypeOK, DispatcherOK
  <2>3. DispatcherOK' /\ UNCHANGED domainEvents
    BY <2>1, <2>2, DispatcherQuiet
  <2>4. Grows /\ \A q : Uncreated(q)
    BY <2>1, NothingMoved
  <2>5. TypeOK'
    BY <2>1, <2>2, <2>3, Types, TypesNext DEF DispatcherOK
  <2>6. ProcessInv'
    <3>1. OnlyMoves({})
      BY <2>1, <2>4 DEF OnlyMoves
    <3> QED BY <2>4, <3>1, MoveKeeps
  <2>7. RowInv' /\ EventInv' /\ FinalHasCause'
    BY <2>1, <2>3, <2>4, RowsKeep, EventsKeep, FinalKeeps DEF IInv
  <2> QED BY <2>3, <2>5, <2>6, <2>7 DEF IInv, DispatcherOK
<1> QED BY <1>1, <1>2, <1>3, <1>4, <1>5, <1>6, <1>7, RestartStep DEF Next

\* The invariant holds in every behaviour.
THEOREM Invariance == Spec => []IInv
BY IInvInit, IInvNext, PTL DEF Spec

-----------------------------------------------------------------------------
\* Tables, providers, executions and dispatcher keep their types.
THEOREM TypeCorrect == Spec => []TypeOK
<1>1. IInv => TypeOK
  BY DEF IInv
<1> QED BY Invariance, <1>1, PTL

\* A completed payment stands for money that moved, whichever rows the
\* executions overwrite.
THEOREM CompletedHasMoneyCorrect == Spec => []CompletedHasMoney
<1>1. IInv => CompletedHasMoney
  BY DEF IInv, RowInv, Sound, Settled, CompletedHasMoney
<1> QED BY Invariance, <1>1, PTL

\* An invoice becomes final only because of its last payment, whose money moved.
THEOREM FinalHasCauseCorrect == Spec => []FinalHasCause
<1>1. IInv => FinalHasCause
  BY DEF IInv
<1> QED BY Invariance, <1>1, PTL

-----------------------------------------------------------------------------
(* Sums of amounts.  MapThenSumSet is a recursive function over subsets.      *)

Pick(s) == CHOOSE x \in s : TRUE

Summed(s, iter) == IF s = {} THEN 0 ELSE Amount(Pick(s)) + iter[s \ {Pick(s)}]

Sums(S) == CHOOSE iter : iter = [s \in SUBSET S |-> Summed(s, iter)]

\* The sum is the value of that function at the whole set.
LEMMA SumUnfolds ==
  ASSUME NEW S
  PROVE  MapThenSumSet(Amount, S) = Sums(S)[S]
BY DEF MapThenSumSet, MapThenFoldSet, Sums, Summed, Pick

\* A set of numbers has a least one: what is proved of all numbers by looking
\* at the first that fails.
LEMMA LeastNumber ==
  ASSUME NEW B \in SUBSET Nat, B # {}
  PROVE  \E m \in B : \A n \in Nat : n < m => n \notin B
<1> DEFINE R == OpToRel(<, Nat)
<1>1. IsWellFoundedOn(R, Nat)
  BY NatLessThanWellFounded
<1>2. PICK m \in B : \A n \in B : ~(<<n, m>> \in R)
  <2> HIDE DEF R
  <2> QED BY <1>1, WFMin
<1> QED BY <1>2 DEF OpToRel

LEMMA PickSmaller ==
  ASSUME NEW s, IsFiniteSet(s), s # {}
  PROVE  /\ Pick(s) \in s
         /\ IsFiniteSet(s \ {Pick(s)})
         /\ Cardinality(s) \in Nat \ {0}
         /\ Cardinality(s \ {Pick(s)}) = Cardinality(s) - 1
<1>1. Pick(s) \in s
  BY DEF Pick
<1> QED BY <1>1, FS_RemoveElement, FS_CardinalityType, FS_EmptySet

\* The recursion has a solution: there is one on the subsets of any size.
LEMMA SumsExist ==
  ASSUME NEW S, IsFiniteSet(S)
  PROVE  \E iter : iter = [s \in SUBSET S |-> Summed(s, iter)]
<1> DEFINE Small(n)   == {s \in SUBSET S : Cardinality(s) <= n}
           Solves(h, n) == h = [s \in Small(n) |-> Summed(s, h)]
           Bad == {n \in Nat : ~ \E h : Solves(h, n)}
<1>1. \A s \in SUBSET S : IsFiniteSet(s) /\ Cardinality(s) \in Nat
  BY FS_Subset, FS_CardinalityType
<1>2. Bad = {}
  <2> SUFFICES ASSUME Bad # {} PROVE FALSE
    OBVIOUS
  <2>1. PICK m \in Bad : \A n \in Nat : n < m => n \notin Bad
    <3>1. Bad \in SUBSET Nat
      OBVIOUS
    <3> HIDE DEF Bad
    <3> QED BY <3>1, LeastNumber
  <2>2. CASE m = 0
    <3> DEFINE h == [s \in Small(0) |-> 0]
    <3>1. \A s \in Small(0) : s = {}
      BY <1>1, FS_EmptySet
    <3>2. Solves(h, 0)
      BY <3>1 DEF Summed
    <3> QED BY <2>1, <2>2, <3>2
  <2>3. CASE m # 0
    <3>1. m - 1 \in Nat /\ m - 1 < m /\ m \in Nat
      BY <2>1, <2>3
    <3>2. PICK h : Solves(h, m - 1)
      BY <2>1, <3>1
    <3> DEFINE g == [s \in Small(m) |-> Summed(s, h)]
    <3>3. \A s \in Small(m) : s # {} => s \ {Pick(s)} \in Small(m - 1) /\ s \ {Pick(s)} \in Small(m)
      BY <1>1, <3>1, PickSmaller
    <3>4. \A s \in Small(m - 1) : g[s] = h[s]
      <4>1. \A s \in Small(m - 1) : s \in Small(m)
        BY <1>1, <3>1
      <4> HIDE DEF Small
      <4> QED BY <3>2, <4>1
    <3> HIDE DEF Small
    <3>5. \A s \in Small(m) : Summed(s, h) = Summed(s, g)
      <4> HIDE DEF g
      <4> QED BY <3>3, <3>4 DEF Summed
    <3>6. Solves(g, m)
      <4>1. g = [s \in Small(m) |-> Summed(s, h)]
        OBVIOUS
      <4> HIDE DEF g
      <4> QED BY <3>5, <4>1
    <3> QED BY <2>1, <3>6
  <2> QED BY <2>2, <2>3
<1>3. Cardinality(S) \in Nat
  BY FS_CardinalityType
<1>4. PICK h : Solves(h, Cardinality(S))
  BY <1>2, <1>3
<1>5. Small(Cardinality(S)) = SUBSET S
  BY <1>3, FS_Subset
<1> HIDE DEF Small
<1> QED BY <1>4, <1>5

\* A sum of natural numbers is one, and no less than any of them.
LEMMA SumBounds ==
  ASSUME NEW S, IsFiniteSet(S), \A r \in S : Amount(r) \in Nat
  PROVE  /\ MapThenSumSet(Amount, S) \in Nat
         /\ \A r \in S : Amount(r) <= MapThenSumSet(Amount, S)
<1> DEFINE sums == Sums(S)
           Bounds(s) == sums[s] \in Nat /\ \A r \in s : Amount(r) <= sums[s]
           Bad == {n \in Nat : \E s \in SUBSET S : Cardinality(s) = n /\ ~Bounds(s)}
<1>1. sums = [s \in SUBSET S |-> Summed(s, sums)]
  BY SumsExist DEF Sums
<1>2. \A s \in SUBSET S : sums[s] = Summed(s, sums)
  <2> HIDE DEF sums
  <2> QED BY <1>1
<1> HIDE DEF sums
<1>3. \A s \in SUBSET S : IsFiniteSet(s) /\ Cardinality(s) \in Nat
  BY FS_Subset, FS_CardinalityType
<1>4. Bad = {}
  <2> SUFFICES ASSUME Bad # {} PROVE FALSE
    OBVIOUS
  <2>1. PICK m \in Bad : \A n \in Nat : n < m => n \notin Bad
    <3>1. Bad \in SUBSET Nat
      OBVIOUS
    <3> HIDE DEF Bad
    <3> QED BY <3>1, LeastNumber
  <2>2. PICK s \in SUBSET S : Cardinality(s) = m /\ ~Bounds(s)
    BY <2>1
  <2>3. CASE s = {}
    BY <1>2, <2>2, <2>3 DEF Summed
  <2>4. CASE s # {}
    <3> DEFINE x == Pick(s)
               t == s \ {x}
    <3>1. x \in s /\ t \in SUBSET S /\ m \in Nat \ {0} /\ Cardinality(t) = m - 1
      BY <1>3, <2>2, <2>4, PickSmaller
    <3>2. Bounds(t)
      <4>1. m - 1 \in Nat /\ m - 1 < m
        BY <3>1
      <4>2. m - 1 \notin Bad
        BY <2>1, <4>1
      <4> QED BY <3>1, <4>1, <4>2
    <3>3. sums[s] = Amount(x) + sums[t]
      BY <1>2, <2>4 DEF Summed
    <3>4. Amount(x) \in Nat
      BY <3>1
    <3>5. \A r \in s : r = x \/ r \in t
      OBVIOUS
    <3>6. \A r \in t : Amount(r) \in Nat
      BY <3>1
    <3> HIDE DEF x, t
    <3>7. Bounds(s)
      BY <3>2, <3>3, <3>4, <3>5, <3>6
    <3> QED BY <2>2, <3>7
  <2> QED BY <2>3, <2>4
<1>5. Cardinality(S) \in Nat
  BY <1>3
<1>6. Bounds(S)
  BY <1>4, <1>5
<1> QED BY <1>6, SumUnfolds DEF sums
-----------------------------------------------------------------------------
(* Requests kept apart: the inductive invariant.                              *)

Status(r) == payments[r].status
Id(r)     == payments[r].foreignPaymentId

\* An order's id and the id of its capture are about the same order.
About(id) == IF id[1] = "capture" THEN <<"order", id[2]>> ELSE id

\* No two rows are about the same charge, order or reference.
Distinct == \A r, s \in Requests : r # s /\ payments[r] # NoPayment => About(Id(r)) # About(Id(s))

\* An invoice waits for at most one payer.
OneOpen == \A r, s \in Requests :
             (Status(r) = "CREATED" /\ Status(s) = "CREATED" /\ InvoiceOf[r] = InvoiceOf[s]) => r = s

\* At most one request or approval is under way, and at most one webhook.
Apart ==
  /\ \A p, q \in Requests \cup Approvals : InFlight(p) /\ InFlight(q) => p = q
  /\ \A v, w \in Webhooks : InFlight(v) /\ InFlight(w) => v = w

Uncaptured == {"none", "created"}
Returned   == {"denied", "refunded"}

\* The row r is the open one of order o, or records its capture.
OpenFor(r, o)  == payments[r] = PaymentDetails(o) /\ orders[o] # "none"
Captures(r, o) == /\ Id(r) = <<"capture", o>>
                  /\ Status(r) \in {"PENDING", "COMPLETED", "FAILED"}
                  /\ orders[o] \notin Uncaptured
                  /\ Status(r) = "FAILED" => orders[o] \in Returned

\* Whatever overwrites a row, this is what it may hold.
RowOf(r) ==
  payments[r] # NoPayment =>
    /\ r \notin Orders => payments[r] = PaymentDetails(r)
    /\ r \in Orders => \E o \in Orders : InvoiceOf[o] = InvoiceOf[r] /\ (OpenFor(r, o) \/ Captures(r, o))

\* No row is about what request r pays with.
Fresh(r) == \A s \in Requests : About(Id(s)) # PaymentDetails(r).foreignPaymentId

\* A later order has taken the place of order o.
Replaced(o) == \E q \in Orders : q # o /\ InvoiceOf[q] = InvoiceOf[o] /\ orders[q] # "none"

\* An approval of order o finds a row, or the order was replaced.
Placed(o) == Replaced(o) \/ \E s \in Requests : Id(s) = <<"order", o>>

Looking == {"unused", "loaded", "payable", "paid", "absent"}
Bought  == {"paid", "absent", "inserted", "saved", "replacing", "replaced"}

\* Its own row exists from "inserted" on, and nothing is about it before.
Unwritten(r) == /\ pc[r] \in Looking \cup {"idle"} => payments[r] = NoPayment
                /\ pc[r] \in Looking => Fresh(r)
                /\ pc[r] = "inserted" => payments[r] = PaymentDetails(r)
                /\ pc[r] = "saved" => payments[r] = PaymentDetails(r) \/ Fresh(r)

\* What was found when it was decided to pay is still so.
Decided(r) == pc[r] = "payable" => Payable(InvoiceOf[r])

\* An order that was created at PayPal gets a row, its own or an open one.
OpensRow(r) ==
  /\ pc[r] \in Bought => orders[r] # "none"
  /\ pc[r] = "absent" => \A s \in Requests : InvoiceOf[s] = InvoiceOf[r] => Status(s) # "CREATED"
  /\ pc[r] = "saved" /\ r \notin unsaved => ExistingPayments(r) # {}
  /\ pc[r] = "done" /\ orders[r] = "created" => Placed(r)

Replaces(r) ==
  /\ pc[r] = "replacing" =>
       /\ held[r][2] = PaymentDetails(r)
       /\ Status(Row(r)) = "CREATED" /\ InvoiceOf[Row(r)] = InvoiceOf[r]
       /\ \A s \in Requests \ {Row(r)} : About(Id(s)) # <<"order", r>>
  /\ pc[r] = "replaced" => payments[Row(r)] = PaymentDetails(r)

\* The money of a card is recorded, or is going to be, or the execution failed.
Charged(r) == r \in charges => \/ payments[r] # NoPayment
                               \/ pc[r] \in {"paid", "absent", "failed"}
                               \/ pc[r] = "saved" /\ r \in unsaved

RequestOf(r) == /\ Unwritten(r) /\ Decided(r) /\ Charged(r)
                /\ r \in Orders => OpensRow(r) /\ Replaces(r)

ApprovalOf(a) ==
  /\ pc[a] \in ApprovalSteps => orders[OrderOf[a]] \notin Uncaptured
  /\ pc[a] = "captured" => Placed(OrderOf[a])
  /\ pc[a] = "approving" =>
       /\ payments[Row(a)] = PaymentDetails(OrderOf[a])
       /\ held[a][2] = [status |-> "PENDING", foreignPaymentId |-> <<"capture", OrderOf[a]>>]
  /\ pc[a] = "lost" => Replaced(OrderOf[a])

\* The row a webhook is going to overwrite stays as the webhook has found it.
WebhookOf(w) ==
  pc[w] = "received" =>
    /\ Status(Row(w)) = "PENDING" /\ Id(Row(w)) = <<"capture", OrderOf[w]>>
    /\ held[w][2].foreignPaymentId = <<"capture", OrderOf[w]>>
    /\ held[w][2].status \in {"PENDING", "COMPLETED", "FAILED"}
    /\ held[w][2].status = "FAILED" => orders[OrderOf[w]] \in Returned

\* A capture that PayPal has not given back is recorded, or its approval is
\* under way, or failed.
CaptureOf(o) ==
  orders[o] \in {"captured", "settled"} =>
    \/ \E s \in Requests : Id(s) = <<"capture", o>>
    \/ \E a \in Approvals : OrderOf[a] = o /\ pc[a] \in ApprovalSteps \cup {"failed", "lost"}

IsoInv == /\ Apart /\ Distinct /\ OneOpen
          /\ \A r \in Requests : RowOf(r) /\ RequestOf(r)
          /\ \A a \in Approvals : ApprovalOf(a)
          /\ \A w \in Webhooks : WebhookOf(w)
          /\ \A o \in Orders : CaptureOf(o)

-----------------------------------------------------------------------------
(* What the rows hold.                                                        *)

\* The rows and the ids they may have, told apart.
LEMMA RowTypes ==
  ASSUME IInv, NEW r \in Requests
  PROVE  /\ payments[r] \in Payment \cup {NoPayment}
         /\ payments[r] # NoPayment => Status(r) \in PaymentStatus /\ Id(r) \in ForeignId
         /\ payments[r] = NoPayment => Status(r) = "NONE" /\ Id(r) = NoId
<1>1. payments[r] \in Payment \cup {NoPayment}
  BY Types DEF IInv
<1> QED BY <1>1 DEF Status, Id, Payment, NoPayment

LEMMA AboutFacts ==
  /\ About(NoId) = NoId
  /\ \A x : /\ About(<<"order", x>>) = <<"order", x>> /\ About(<<"capture", x>>) = <<"order", x>>
            /\ About(<<"charge", x>>) = <<"charge", x>>
            /\ About(<<"reference", x>>) = <<"reference", x>>
            /\ NoId # <<"order", x>> /\ NoId # <<"charge", x>> /\ NoId # <<"reference", x>>
            /\ NoId # <<"capture", x>>
  /\ \A x, y : /\ <<"order", x>> # <<"charge", y>> /\ <<"order", x>> # <<"reference", y>>
               /\ <<"charge", x>> # <<"reference", y>> /\ <<"capture", x>> # <<"order", y>>
               /\ <<"capture", x>> # <<"charge", y>> /\ <<"capture", x>> # <<"reference", y>>
               /\ <<"order", x>> = <<"order", y>> => x = y
               /\ <<"charge", x>> = <<"charge", y>> => x = y
               /\ <<"capture", x>> = <<"capture", y>> => x = y
<1>1. ASSUME NEW x PROVE NoId # <<"order", x>> /\ NoId # <<"charge", x>> /\ NoId # <<"reference", x>>
                         /\ NoId # <<"capture", x>>
  <2>1. NoId[1] = "none" /\ <<"order", x>>[1] = "order" /\ <<"charge", x>>[1] = "charge"
        /\ <<"reference", x>>[1] = "reference" /\ <<"capture", x>>[1] = "capture"
    BY DEF NoId
  <2> QED BY <2>1
<1>2. About(NoId) = NoId
  BY DEF About, NoId
<1> QED BY <1>1, <1>2 DEF About

\* What a request pays with, by method.
LEMMA Details ==
  /\ \A o \in Orders : /\ PaymentDetails(o).status = "CREATED"
                       /\ PaymentDetails(o).foreignPaymentId = <<"order", o>>
  /\ \A c \in Cards : /\ PaymentDetails(c).status = "COMPLETED"
                      /\ PaymentDetails(c).foreignPaymentId = <<"charge", c>>
  /\ \A b \in Transfers : /\ PaymentDetails(b).status = "COMPLETED"
                          /\ PaymentDetails(b).foreignPaymentId = <<"reference", ReferenceOf[b]>>
  /\ \A r \in Requests : /\ PaymentDetails(r) \in Payment
                         /\ PaymentDetails(r) # NoPayment
                         /\ About(PaymentDetails(r).foreignPaymentId) = PaymentDetails(r).foreignPaymentId
<1>1. \A r \in Requests : /\ r \in Cards \/ r \in Orders \/ r \in Transfers
                          /\ r \in Cards => r \notin Orders /\ r \notin Transfers
                          /\ r \in Orders => r \notin Cards /\ r \notin Transfers
  BY DisjointAssumption DEF Requests
<1>2. Orders \subseteq Requests /\ Cards \subseteq Requests /\ Transfers \subseteq Requests
  BY DEF Requests
<1>3. \A r \in Requests :
        /\ PaymentDetails(r) \in Payment
        /\ PaymentDetails(r).status = IF r \in Orders THEN "CREATED" ELSE "COMPLETED"
        /\ PaymentDetails(r).foreignPaymentId =
             IF r \in Cards THEN <<"charge", r>>
             ELSE IF r \in Orders THEN <<"order", r>>
             ELSE <<"reference", ReferenceOf[r]>>
  BY DetailsOf
<1>4. \A r \in Requests : PaymentDetails(r) # NoPayment
  <2>1. NoPayment.status = "NONE"
    BY DEF NoPayment
  <2> QED BY <1>3, <2>1
<1>5. ASSUME NEW r \in Requests
      PROVE  About(PaymentDetails(r).foreignPaymentId) = PaymentDetails(r).foreignPaymentId
  <2>1. PICK id : id = PaymentDetails(r).foreignPaymentId
    OBVIOUS
  <2>2. id = <<"charge", r>> \/ id = <<"order", r>> \/ id = <<"reference", ReferenceOf[r]>>
    BY <1>3, <2>1
  <2>3. About(id) = id
    BY <2>2, AboutFacts
  <2> QED BY <2>1, <2>3
<1> QED BY <1>1, <1>2, <1>3, <1>4, <1>5

\* The row of an order is open for one, or records a capture; no other row is
\* about an order.
LEMMA OrderRows ==
  ASSUME IInv, NEW r \in Requests, RowOf(r), NEW o
  PROVE  /\ Status(r) = "CREATED" => r \in Orders /\ \E q \in Orders : Id(r) = <<"order", q>>
         /\ Id(r) = <<"order", o>> =>
              /\ o \in Orders /\ r \in Orders /\ InvoiceOf[o] = InvoiceOf[r]
              /\ OpenFor(r, o) /\ Status(r) = "CREATED" /\ payments[r] # NoPayment
         /\ Id(r) = <<"capture", o>> =>
              /\ o \in Orders /\ r \in Orders /\ InvoiceOf[o] = InvoiceOf[r]
              /\ Captures(r, o) /\ Status(r) # "CREATED" /\ payments[r] # NoPayment
         /\ About(Id(r)) = <<"order", o>> => Id(r) = <<"order", o>> \/ Id(r) = <<"capture", o>>
<1>1. CASE payments[r] = NoPayment
  BY <1>1, RowTypes, AboutFacts
<1>2. CASE payments[r] # NoPayment /\ r \notin Orders
  <2>1. payments[r] = PaymentDetails(r) /\ (r \in Cards \/ r \in Transfers)
    BY <1>2 DEF RowOf, Requests
  <2> QED BY <2>1, Details, AboutFacts DEF Status, Id
<1>3. CASE payments[r] # NoPayment /\ r \in Orders
  <2>1. PICK q \in Orders : InvoiceOf[q] = InvoiceOf[r] /\ (OpenFor(r, q) \/ Captures(r, q))
    BY <1>3 DEF RowOf
  <2>2. CASE OpenFor(r, q)
    <3>1. Status(r) = "CREATED" /\ Id(r) = <<"order", q>>
      BY <2>2, Details DEF OpenFor, Status, Id
    <3> QED BY <1>3, <2>1, <2>2, <3>1, AboutFacts
  <2>3. CASE Captures(r, q)
    <3>1. Id(r) = <<"capture", q>> /\ Status(r) # "CREATED"
      BY <2>3 DEF Captures
    <3> QED BY <1>3, <2>1, <2>3, <3>1, AboutFacts
  <2> QED BY <2>1, <2>2, <2>3
<1> QED BY <1>1, <1>2, <1>3

-----------------------------------------------------------------------------
(* What a step leaves alone.                                                  *)

\* Only the status of pending rows changes.
RowsSettle ==
  \A s \in Requests : /\ Id(s)' = Id(s)
                      /\ Status(s) # "PENDING" => payments'[s] = payments[s]

\* An order comes into being, is captured, and is given back, in this order.
OrdersGo ==
  \A o \in Orders : /\ orders[o] # "none" => orders'[o] # "none"
                    /\ orders[o] \notin Uncaptured => orders'[o] \notin Uncaptured
                    /\ orders[o] \in Returned => orders'[o] \in Returned

LEMMA NothingChanged ==
  ASSUME UNCHANGED <<payments, orders>>
  PROVE  RowsSettle /\ OrdersGo
BY DEF RowsSettle, OrdersGo, Id

LEMMA ReplacedStays ==
  ASSUME OrdersGo, NEW o, Replaced(o)
  PROVE  Replaced(o)'
BY DEF OrdersGo, Replaced

LEMMA PlacedStays ==
  ASSUME OrdersGo, RowsSettle, NEW o, Placed(o)
  PROVE  Placed(o)'
BY ReplacedStays DEF RowsSettle, Placed

\* The total only depends on the completed rows of the invoice.
Completed(i) == {r \in PaymentsOf(i) : payments[r].status = "COMPLETED"}

LEMMA TotalOf ==
  ASSUME NEW i
  PROVE  /\ PaidTotal(i) = Sums(Completed(i))[Completed(i)]
         /\ PaidTotal(i)' = Sums(Completed(i)')[Completed(i)']
<1>1. PaidTotal(i) = MapThenSumSet(Amount, Completed(i))
  BY DEF PaidTotal, Completed
<1>2. PaidTotal(i)' = MapThenSumSet(Amount, Completed(i)')
  BY DEF PaidTotal, Completed
<1>3. MapThenSumSet(Amount, Completed(i)) = Sums(Completed(i))[Completed(i)]
  BY SumUnfolds
<1>4. MapThenSumSet(Amount, Completed(i)') = Sums(Completed(i)')[Completed(i)']
  BY SumUnfolds
<1> QED BY <1>1, <1>2, <1>3, <1>4

\* A webhook changes no row of an invoice without pending payments.
LEMMA PayableStays ==
  ASSUME IInv, RowsSettle, NEW i, Payable(i)
  PROVE  Payable(i)' /\ PaidTotal(i)' = PaidTotal(i)
<1>1. \A s \in PaymentsOf(i) : Status(s) # "PENDING"
  BY DEF Payable, Status
<1>2. \A s \in Requests : InvoiceOf[s] = i => payments'[s] = payments[s]
  <2> SUFFICES ASSUME NEW s \in Requests, InvoiceOf[s] = i PROVE payments'[s] = payments[s]
    OBVIOUS
  <2>1. Status(s) # "PENDING"
    BY <1>1, RowTypes DEF PaymentsOf
  <2> QED BY <2>1 DEF RowsSettle
<1>3. PaymentsOf(i)' = PaymentsOf(i)
  BY <1>2 DEF PaymentsOf
<1>4. Completed(i)' = Completed(i)
  BY <1>2, <1>3 DEF Completed, PaymentsOf
<1>5. PaidTotal(i)' = PaidTotal(i)
  BY <1>4, TotalOf
<1>6. PaidTotal(i)' < Total
  BY <1>5 DEF Payable
<1>7. \A s \in PaymentsOf(i)' : payments'[s].status # "PENDING"
  BY <1>1, <1>2, <1>3 DEF PaymentsOf, Status
<1> QED BY <1>5, <1>6, <1>7 DEF Payable

-----------------------------------------------------------------------------
(* What is known of an execution that does not move.                          *)

\* Execution q stays where it is.
Stays(q) == /\ pc'[q] = pc[q] /\ held'[q] = held[q]
            /\ q \in unsaved' <=> q \in unsaved

LEMMA StepNames ==
  /\ Looking \subseteq InFlightSteps /\ Bought \subseteq InFlightSteps
  /\ Looking \cup Bought \subseteq RequestSteps
  /\ ApprovalSteps \subseteq InFlightSteps /\ WebhookSteps \subseteq InFlightSteps
  /\ "received" \in WebhookSteps /\ "inserted" \in InFlightSteps
  /\ {"idle", "done", "rejected", "lost", "failed"} \cap InFlightSteps = {}
BY DEF Looking, Bought, InFlightSteps, RequestSteps, ApprovalSteps, WebhookSteps, CompletionSteps

LEMMA UnwrittenStays ==
  ASSUME IInv, RowsSettle, NEW q \in Requests, pc'[q] = pc[q], Unwritten(q)
  PROVE  Unwritten(q)'
<1>1. payments[q] = NoPayment => payments'[q] = NoPayment
  BY RowTypes DEF RowsSettle
<1>2. Fresh(q) => Fresh(q)'
  <2> SUFFICES ASSUME Fresh(q), NEW s \in Requests
               PROVE  About(Id(s))' # PaymentDetails(q).foreignPaymentId
    BY DEF Fresh, PaymentDetails
  <2>1. Id(s)' = Id(s)
    BY DEF RowsSettle
  <2>2. About(Id(s))' = About(Id(s))
    BY <2>1 DEF About
  <2> QED BY <2>2 DEF Fresh
<1>3. payments[q] = PaymentDetails(q) => payments'[q] = PaymentDetails(q)
  <2>1. PaymentDetails(q).status # "PENDING"
    BY Details DEF Requests
  <2> QED BY <2>1 DEF RowsSettle, Status
<1>4. PaymentDetails(q)' = PaymentDetails(q)
  BY DEF PaymentDetails
<1> QED BY <1>1, <1>2, <1>3, <1>4 DEF Unwritten

LEMMA DecidedStays ==
  ASSUME IInv, RowsSettle, NEW q \in Requests, pc'[q] = pc[q], Decided(q)
  PROVE  Decided(q)'
<1>1. Payable(InvoiceOf[q]) => Payable(InvoiceOf[q])'
  BY PayableStays
<1> QED BY <1>1 DEF Decided

LEMMA ChargedStays ==
  ASSUME IInv, RowsSettle, NEW q \in Requests, Stays(q), q \in charges' <=> q \in charges,
         Charged(q)
  PROVE  Charged(q)'
<1>1. payments[q] # NoPayment => payments'[q] # NoPayment
  BY RowTypes, AboutFacts DEF RowsSettle, Status, Id, NoPayment, ForeignId
<1> QED BY <1>1 DEF Charged, Stays

LEMMA OpenRowStays ==
  ASSUME IInv, RowsSettle, NEW s \in Requests
  PROVE  /\ Status(s) = "CREATED" => payments'[s] = payments[s] /\ Status(s)' = "CREATED"
         /\ \A o \in Orders : payments[s] = PaymentDetails(o) => payments'[s] = PaymentDetails(o)
BY Details DEF RowsSettle, Status

LEMMA OpensRowStays ==
  ASSUME IInv, RowsSettle, OrdersGo, NEW q \in Orders, Stays(q),
         orders'[q] = "created" => orders[q] = "created",
         \A s \in Requests : Status(s)' = "CREATED" => Status(s) = "CREATED",
         OpensRow(q)
  PROVE  OpensRow(q)'
<1>1. q \in Requests
  BY DEF Requests
<1>2. ExistingPayments(q) # {} => ExistingPayments(q)' # {}
  <2> SUFFICES ASSUME NEW s \in ExistingPayments(q) PROVE s \in ExistingPayments(q)'
    OBVIOUS
  <2>1. s \in Requests /\ InvoiceOf[s] = InvoiceOf[q] /\ Status(s) = "CREATED" /\ SameMethod(q, s)
        /\ payments[s] # NoPayment
    BY DEF ExistingPayments, PaymentsOf, Status
  <2>2. payments'[s] = payments[s]
    BY <2>1, OpenRowStays
  <2> QED BY <2>1, <2>2 DEF ExistingPayments, PaymentsOf, Status, SameMethod
<1>3. Placed(q) => Placed(q)'
  BY PlacedStays
<1>4. pc[q] \in Bought => orders'[q] # "none"
  BY DEF OrdersGo, OpensRow
<1> QED BY <1>2, <1>3, <1>4 DEF OpensRow, Stays

LEMMA ReplacesStays ==
  ASSUME IInv, RowsSettle, NEW q \in Orders, Stays(q), Replaces(q)
  PROVE  Replaces(q)'
<1>1. q \in Processes /\ HeldOf(q) /\ Row(q)' = Row(q)
  BY Kinds, Known DEF Requests, Stays, Row
<1>2. CASE pc[q] = "replacing"
  <2>1. Row(q) \in Requests
    BY <1>1, <1>2 DEF HeldOf, Holding, Replacing
  <2>2. Status(Row(q))' = "CREATED"
    <3>1. payments'[Row(q)].status = "CREATED"
      BY <1>2, <2>1, OpenRowStays DEF Replaces, Status
    <3> QED BY <1>1, <3>1 DEF Status
  <2>3. \A s \in Requests \ {Row(q)} : About(Id(s))' # <<"order", q>>
    <3> SUFFICES ASSUME NEW s \in Requests \ {Row(q)} PROVE About(Id(s))' # <<"order", q>>
      OBVIOUS
    <3>1. Id(s)' = Id(s)
      BY DEF RowsSettle
    <3>2. About(Id(s))' = About(Id(s))
      BY <3>1 DEF About
    <3> QED BY <1>2, <3>2 DEF Replaces
  <2>4. held'[q][2] = PaymentDetails(q)' /\ InvoiceOf[Row(q)'] = InvoiceOf[q]
    BY <1>1, <1>2 DEF Replaces, Stays, PaymentDetails
  <2>5. pc'[q] = "replacing"
    BY <1>2 DEF Stays
  <2> QED BY <1>1, <2>2, <2>3, <2>4, <2>5 DEF Replaces
<1>3. CASE pc[q] = "replaced"
  <2>1. Row(q) \in Requests
    BY <1>1, <1>3 DEF HeldOf, Holding, Replacing
  <2>2. payments'[Row(q)] = PaymentDetails(q)
    BY <1>3, <2>1, OpenRowStays DEF Replaces
  <2>3. payments'[Row(q)'] = PaymentDetails(q)'
    BY <1>1, <2>2 DEF PaymentDetails
  <2> QED BY <1>3, <2>3 DEF Replaces, Stays
<1>4. CASE pc[q] \notin {"replacing", "replaced"}
  BY <1>4 DEF Replaces, Stays
<1> QED BY <1>2, <1>3, <1>4

\* While rows settle, every request keeps what is known of it.
LEMMA RequestStays ==
  ASSUME IInv, RowsSettle, OrdersGo, NEW q \in Requests, Stays(q), RequestOf(q),
         q \in charges' <=> q \in charges,
         q \in Orders /\ orders'[q] = "created" => orders[q] = "created",
         \A s \in Requests : Status(s)' = "CREATED" => Status(s) = "CREATED"
  PROVE  RequestOf(q)'
<1>1. Unwritten(q)' /\ Decided(q)' /\ Charged(q)'
  BY UnwrittenStays, DecidedStays, ChargedStays DEF RequestOf, Stays
<1>2. q \in Orders => OpensRow(q)' /\ Replaces(q)'
  BY OpensRowStays, ReplacesStays DEF RequestOf
<1> QED BY <1>1, <1>2 DEF RequestOf

LEMMA ApprovalStays ==
  ASSUME IInv, RowsSettle, OrdersGo, NEW a \in Approvals, Stays(a), ApprovalOf(a)
  PROVE  ApprovalOf(a)'
<1>1. a \in Processes /\ HeldOf(a) /\ Row(a)' = Row(a) /\ OrderOf[a] \in Orders
  BY Kinds, Known, PaymentAssumption DEF Stays, Row
<1>2. pc'[a] = "lost" => Replaced(OrderOf[a])'
  BY ReplacedStays DEF ApprovalOf, Stays
<1>3. pc'[a] = "captured" => Placed(OrderOf[a])'
  BY PlacedStays DEF ApprovalOf, Stays
<1>4. pc'[a] \in ApprovalSteps => orders'[OrderOf[a]] \notin Uncaptured
  BY <1>1 DEF ApprovalOf, Stays, OrdersGo
<1>5. ASSUME pc'[a] = "approving" PROVE payments'[Row(a)'] = PaymentDetails(OrderOf[a])'
  <2>1. pc[a] = "approving"
    BY <1>5 DEF Stays
  <2>2. Row(a) \in Requests
    BY <1>1, <2>1 DEF HeldOf, Holding, Writing
  <2>3. payments'[Row(a)] = PaymentDetails(OrderOf[a])
    BY <1>1, <2>1, <2>2, OpenRowStays DEF ApprovalOf
  <2> QED BY <1>1, <2>3 DEF PaymentDetails
<1>6. pc'[a] = "approving" =>
        held'[a][2] = [status |-> "PENDING", foreignPaymentId |-> <<"capture", OrderOf[a]>>]
  BY DEF ApprovalOf, Stays
<1> QED BY <1>2, <1>3, <1>4, <1>5, <1>6 DEF ApprovalOf

\* A webhook finds its row as it was, while no other one writes it.
LEMMA WebhookStays ==
  ASSUME IInv, OrdersGo, NEW w \in Webhooks, Stays(w), WebhookOf(w),
         \A s \in Requests : Status(s) = "PENDING" => payments'[s] = payments[s]
  PROVE  WebhookOf(w)'
<1> SUFFICES ASSUME pc'[w] = "received" PROVE WebhookOf(w)'
  BY DEF WebhookOf
<1>1. w \in Processes /\ HeldOf(w) /\ Row(w)' = Row(w) /\ OrderOf[w] \in Orders /\ pc[w] = "received"
  BY Kinds, Known, PaymentAssumption DEF Stays, Row
<1>2. Row(w) \in Requests
  BY <1>1 DEF HeldOf, Holding, Writing
<1>3. Status(Row(w)) = "PENDING" /\ Id(Row(w)) = <<"capture", OrderOf[w]>>
  BY <1>1 DEF WebhookOf
<1>4. payments'[Row(w)'] = payments[Row(w)]
  BY <1>1, <1>2, <1>3
<1>5. Status(Row(w))' = "PENDING" /\ Id(Row(w))' = <<"capture", OrderOf[w]>>
  BY <1>3, <1>4 DEF Status, Id
<1>6. held'[w] = held[w]
  BY DEF Stays
<1>7. held[w][2].status = "FAILED" => orders'[OrderOf[w]] \in Returned
  BY <1>1 DEF WebhookOf, OrdersGo
<1> QED BY <1>1, <1>5, <1>6, <1>7 DEF WebhookOf

-----------------------------------------------------------------------------
(* The frame of a step: what remains to be shown of one.                      *)

Actors == Requests \cup Approvals \cup Webhooks

\* A step by which nobody starts keeps executions apart.
LEMMA ApartIfNoneStarts ==
  ASSUME Apart, \A q \in Actors : InFlight(q)' => InFlight(q)
  PROVE  Apart'
BY DEF Apart, Actors

\* An execution may only start when no other one of its kind is under way.
LEMMA ApartWhenStarting ==
  ASSUME Apart, OneAtATime, NEW p \in Actors, InFlight(p) \/ MayStart(p),
         \A q \in Actors \ {p} : Stays(q)
  PROVE  Apart'
<1>1. \A q \in Actors \ {p} : InFlight(q)' <=> InFlight(q)
  BY DEF InFlight, Stays
<1>2. CASE p \in Webhooks
  <2>1. p \notin Requests \cup Approvals
    BY <1>2, Kinds
  <2>2. \A q \in Webhooks \ {p} : ~InFlight(q)
    BY <1>2 DEF Apart, MayStart
  <2> QED BY <1>1, <2>1, <2>2 DEF Apart, Actors
<1>3. CASE p \in Requests \cup Approvals
  <2>1. p \notin Webhooks
    BY <1>3, Kinds
  <2>2. \A q \in (Requests \cup Approvals) \ {p} : ~InFlight(q)
    BY <1>3, <2>1 DEF Apart, MayStart
  <2> QED BY <1>1, <2>1, <2>2 DEF Apart, Actors
<1> QED BY <1>2, <1>3 DEF Actors

\* An approval has captured the money and not recorded it yet, or never will.
Answering == ApprovalSteps \cup {"failed", "lost"}

LEMMA CaptureStays ==
  ASSUME NEW o \in Orders, CaptureOf(o),
         orders'[o] \in {"captured", "settled"} => orders[o] \in {"captured", "settled"},
         \A s \in Requests : Id(s) = <<"capture", o>> => Id(s)' = <<"capture", o>>,
         \A a \in Approvals : pc[a] \in Answering =>
           \/ pc'[a] \in Answering
           \/ OrderOf[a] = o => \E s \in Requests : Id(s)' = <<"capture", o>>
  PROVE  CaptureOf(o)'
BY DEF CaptureOf, Answering

\* A step by which at most the status of pending rows changes.
LEMMA SettlingStep ==
  ASSUME IInv, IsoInv, RowsSettle, OrdersGo, Apart', NEW M,
         \A q \in (Requests \cup Approvals) \ M : Stays(q),
         \A q \in Requests \ M : /\ q \in charges' <=> q \in charges
                                 /\ q \in Orders /\ orders'[q] = "created" => orders[q] = "created",
         \A s \in Requests : RowOf(s)' /\ (Status(s)' = "CREATED" => Status(s) = "CREATED"),
         \A q \in M : /\ q \in Requests => RequestOf(q)'
                      /\ q \in Approvals => ApprovalOf(q)',
         \A w \in Webhooks : WebhookOf(w)',
         \A o \in Orders : CaptureOf(o)'
  PROVE  IsoInv'
<1>1. \A q \in Requests : RequestOf(q)'
  <2> SUFFICES ASSUME NEW q \in Requests PROVE RequestOf(q)'
    OBVIOUS
  <2>1. CASE q \in M
    BY <2>1
  <2>2. CASE q \notin M
    <3>1. RequestOf(q) /\ Stays(q)
      BY <2>2 DEF IsoInv
    <3> QED BY <2>2, <3>1, RequestStays
  <2> QED BY <2>1, <2>2
<1>2. \A a \in Approvals : ApprovalOf(a)'
  <2> SUFFICES ASSUME NEW a \in Approvals PROVE ApprovalOf(a)'
    OBVIOUS
  <2>1. CASE a \in M
    BY <2>1
  <2>2. CASE a \notin M
    <3>1. ApprovalOf(a) /\ Stays(a)
      BY <2>2 DEF IsoInv
    <3> QED BY <3>1, ApprovalStays
  <2> QED BY <2>1, <2>2
<1>3. Distinct'
  <2> SUFFICES ASSUME NEW r \in Requests, NEW s \in Requests, r # s, payments'[r] # NoPayment
               PROVE  About(Id(r))' # About(Id(s))'
    BY DEF Distinct
  <2>1. Id(r)' = Id(r) /\ Id(s)' = Id(s)
    BY DEF RowsSettle
  <2>2. payments[r] # NoPayment
    BY RowTypes DEF RowsSettle
  <2>3. About(Id(r))' = About(Id(r)) /\ About(Id(s))' = About(Id(s))
    BY <2>1 DEF About
  <2> QED BY <2>2, <2>3 DEF IsoInv, Distinct
<1>4. OneOpen'
  BY DEF IsoInv, OneOpen
<1> QED BY <1>1, <1>2, <1>3, <1>4 DEF IsoInv

\* A step that changes no row, order or charge.
LEMMA SilentStep ==
  ASSUME IInv, IsoInv, UNCHANGED <<payments, charges, orders>>, Apart', NEW M,
         \A q \in Actors \ M : Stays(q),
         \A q \in M : /\ q \in Requests => RequestOf(q)'
                      /\ q \in Approvals => ApprovalOf(q)' /\ (pc[q] \in Answering => pc'[q] \in Answering)
                      /\ q \in Webhooks => WebhookOf(q)'
  PROVE  IsoInv'
<1>1. RowsSettle /\ OrdersGo
  BY NothingChanged
<1>2. \A s \in Requests : RowOf(s)' /\ (Status(s)' = "CREATED" => Status(s) = "CREATED")
  <2> SUFFICES ASSUME NEW s \in Requests PROVE RowOf(s)' /\ Status(s)' = Status(s)
    OBVIOUS
  <2>1. RowOf(s)
    BY DEF IsoInv
  <2> QED BY <2>1 DEF RowOf, OpenFor, Captures, Id, Status, PaymentDetails
<1>3. \A w \in Webhooks : WebhookOf(w)'
  <2> SUFFICES ASSUME NEW w \in Webhooks PROVE WebhookOf(w)'
    OBVIOUS
  <2>1. CASE w \in M
    BY <2>1
  <2>2. CASE w \notin M
    <3>1. WebhookOf(w) /\ Stays(w)
      BY <2>2 DEF IsoInv, Actors
    <3> QED BY <1>1, <3>1, WebhookStays
  <2> QED BY <2>1, <2>2
<1>4. \A o \in Orders : CaptureOf(o)'
  <2> SUFFICES ASSUME NEW o \in Orders PROVE CaptureOf(o)'
    OBVIOUS
  <2>1. CaptureOf(o)
    BY DEF IsoInv
  <2>2. \A a \in Approvals : pc[a] \in Answering => pc'[a] \in Answering
    BY DEF Actors, Stays
  <2>3. \A s \in Requests : Id(s) = <<"capture", o>> => Id(s)' = <<"capture", o>>
    BY DEF Id
  <2> QED BY <2>1, <2>2, <2>3, CaptureStays
<1> QED BY <1>1, <1>2, <1>3, <1>4, SettlingStep DEF Actors

\* A request or approval writes a row of its own, or an open one.
LEMMA WritingStep ==
  ASSUME IInv, IsoInv, OneAtATime, UNCHANGED <<charges, orders>>,
         NEW p \in Requests \cup Approvals, InFlight(p), \A q \in Actors \ {p} : Stays(q),
         NEW row \in Requests, NEW payment \in Payment, UpdatePayment(row, payment),
         (row = p /\ payments[row] = NoPayment) \/ Status(row) = "CREATED",
         RowOf(row)',
         \A s \in Requests \ {row} : About(Id(s)) # About(payment.foreignPaymentId),
         payment.status = "CREATED" =>
           \A s \in Requests : (Status(s) = "CREATED" /\ InvoiceOf[s] = InvoiceOf[row]) => s = row,
         \A o \in Orders : orders[o] = "created" /\ Placed(o) => Placed(o)',
         p \in Requests => RequestOf(p)',
         p \in Approvals => /\ ApprovalOf(p)'
                            /\ \A o \in Orders : OrderOf[p] = o /\ pc[p] \in Answering =>
                                 \E s \in Requests : Id(s)' = <<"capture", o>>
  PROVE  IsoInv'
<1>1. /\ payments' = [payments EXCEPT ![row] = payment]
      /\ payments \in [Requests -> Payment \cup {NoPayment}]
  BY Types DEF IInv, UpdatePayment
<1>2. payments'[row] = payment /\ \A s \in Requests \ {row} : payments'[s] = payments[s]
  BY <1>1
<1>3. payment # NoPayment
  BY DEF Payment, NoPayment, PaymentStatus
<1>4. p \in Actors /\ OrdersGo
  BY DEF Actors, OrdersGo
<1>5. Apart'
  BY <1>4, ApartWhenStarting DEF IsoInv
<1>6. \A q \in (Requests \cup Approvals) \ {p} : ~InFlight(q)
  BY DEF IsoInv, Apart
<1>7. ASSUME NEW s \in Requests
      PROVE  /\ Status(s) = "PENDING" => payments'[s] = payments[s]
             /\ payments[s] # NoPayment => payments'[s] # NoPayment
             /\ s # row => Id(s)' = Id(s) /\ Status(s)' = Status(s)
             /\ s = row => Id(s)' = payment.foreignPaymentId /\ Status(s)' = payment.status
             /\ \A o : Id(s) = <<"capture", o>> => Id(s)' = <<"capture", o>>
  <2>1. CASE s # row
    BY <1>2, <2>1 DEF Id, Status
  <2>2. CASE s = row
    <3>1. RowOf(s)
      BY DEF IsoInv
    <3>2. Status(s) # "PENDING" /\ \A o : Id(s) # <<"capture", o>>
      <4>1. CASE payments[row] = NoPayment
        BY <2>2, <4>1, RowTypes, AboutFacts
      <4>2. CASE Status(row) = "CREATED"
        BY <2>2, <3>1, <4>2, OrderRows
      <4> QED BY <4>1, <4>2
    <3> QED BY <1>2, <1>3, <2>2, <3>2 DEF Id, Status
  <2> QED BY <2>1, <2>2
<1>8. \A q \in Requests : RequestOf(q)'
  <2> SUFFICES ASSUME NEW q \in Requests, q # p PROVE RequestOf(q)'
    OBVIOUS
  <2>1. ~InFlight(q) /\ Stays(q) /\ RequestOf(q)
    BY <1>6 DEF IsoInv, Actors
  <2>2. pc[q] \notin Looking \cup Bought /\ pc'[q] = pc[q] /\ pc[q] # "inserted"
    BY <2>1, StepNames DEF InFlight, Stays
  <2>3. q = row => payments[q] # NoPayment
    BY RowTypes DEF NoPayment, Status
  <2>4. Unwritten(q)'
    BY <1>2, <2>1, <2>2, <2>3 DEF Unwritten, RequestOf, Looking, Bought
  <2>5. Decided(q)'
    BY <2>2 DEF Decided, Looking
  <2>6. Charged(q)'
    BY <1>7, <2>1, <2>2 DEF Charged, RequestOf, Stays
  <2>7. q \in Orders => OpensRow(q)'
    BY <2>1, <2>2 DEF OpensRow, RequestOf, Looking, Bought
  <2>8. q \in Orders => Replaces(q)'
    BY <2>2 DEF Replaces, Bought
  <2> QED BY <2>4, <2>5, <2>6, <2>7, <2>8 DEF RequestOf
<1>9. \A a \in Approvals : ApprovalOf(a)'
  <2> SUFFICES ASSUME NEW a \in Approvals, a # p PROVE ApprovalOf(a)'
    OBVIOUS
  <2>1. ~InFlight(a) /\ Stays(a) /\ ApprovalOf(a)
    BY <1>6 DEF IsoInv, Actors
  <2>2. pc'[a] \notin ApprovalSteps /\ pc'[a] = pc[a]
    BY <2>1, StepNames DEF InFlight, Stays
  <2>3. Replaced(OrderOf[a]) => Replaced(OrderOf[a])'
    BY <1>4, ReplacedStays
  <2> QED BY <2>1, <2>2, <2>3 DEF ApprovalOf, ApprovalSteps
<1>10. \A w \in Webhooks : WebhookOf(w)'
  <2> SUFFICES ASSUME NEW w \in Webhooks PROVE WebhookOf(w)'
    OBVIOUS
  <2>1. WebhookOf(w) /\ Stays(w)
    BY Kinds DEF IsoInv, Actors
  <2> QED BY <1>4, <1>7, <2>1, WebhookStays
<1>11. \A o \in Orders : CaptureOf(o)'
  <2> SUFFICES ASSUME NEW o \in Orders PROVE CaptureOf(o)'
    OBVIOUS
  <2>1. CaptureOf(o)
    BY DEF IsoInv
  <2>2. \A a \in Approvals : pc[a] \in Answering =>
           \/ pc'[a] \in Answering
           \/ OrderOf[a] = o => \E s \in Requests : Id(s)' = <<"capture", o>>
    BY DEF Actors, Stays
  <2> QED BY <1>7, <2>1, <2>2, CaptureStays
<1>12. \A s \in Requests : RowOf(s)'
  <2> SUFFICES ASSUME NEW s \in Requests, s # row PROVE RowOf(s)'
    OBVIOUS
  <2>1. RowOf(s) /\ payments'[s] = payments[s] /\ Id(s)' = Id(s) /\ Status(s)' = Status(s)
    BY <1>2, <1>7 DEF IsoInv
  <2> QED BY <2>1 DEF RowOf, OpenFor, Captures, PaymentDetails
<1>13. Distinct'
  <2> SUFFICES ASSUME NEW r \in Requests, NEW s \in Requests, r # s, payments'[r] # NoPayment
               PROVE  About(Id(r)') # About(Id(s)')
    BY DEF Distinct, About
  <2>1. CASE r = row
    BY <1>7, <2>1
  <2>2. CASE s = row
    BY <1>7, <2>2
  <2>3. CASE r # row /\ s # row
    BY <1>2, <1>7, <2>3 DEF IsoInv, Distinct
  <2> QED BY <2>1, <2>2, <2>3
<1>14. OneOpen'
  <2> SUFFICES ASSUME NEW r \in Requests, NEW s \in Requests, Status(r)' = "CREATED",
                      Status(s)' = "CREATED", InvoiceOf[r] = InvoiceOf[s]
               PROVE  r = s
    BY DEF OneOpen
  <2> QED BY <1>7 DEF IsoInv, OneOpen
<1> QED BY <1>5, <1>8, <1>9, <1>10, <1>11, <1>12, <1>13, <1>14 DEF IsoInv

-----------------------------------------------------------------------------
(* How an execution moves.                                                    *)

LEMMA GoesAlone ==
  ASSUME IInv, NEW p \in Actors, NEW step \in Steps, Goto(p, step), UNCHANGED unsaved
  PROVE  /\ pc'[p] = step
         /\ UNCHANGED held => \A q \in Actors \ {p} : Stays(q)
         /\ \A row, payment : Hold(p, row, payment) =>
              held'[p] = <<row, payment>> /\ \A q \in Actors \ {p} : Stays(q)
<1>1. Actors \subseteq Processes
  BY Kinds DEF Actors
<1>2. pc'[p] = step /\ \A q \in Processes \ {p} : pc'[q] = pc[q]
  BY <1>1, Known, GotoFacts
<1>3. ASSUME NEW row, NEW payment, Hold(p, row, payment)
      PROVE  held'[p] = <<row, payment>> /\ \A q \in Processes \ {p} : held'[q] = held[q]
  BY <1>1, <1>3, Known DEF Hold
<1> QED BY <1>1, <1>2, <1>3 DEF Stays

\* A dispatch may start an execution, of another kind.
LEMMA NotifiesAlone ==
  ASSUME IInv, NEW p \in Requests \cup Webhooks, NEW row, NEW step \in Steps, Notify(p, row, step),
         UNCHANGED unsaved
  PROVE  /\ pc'[p] = step /\ held'[p] = held[p]
         /\ \A q \in Actors \ {p} : Stays(q)
<1> DEFINE h == <<p, "completion">>
<1>1. /\ h \in Completions /\ h \notin Actors /\ Actors \subseteq Processes /\ h # p
      /\ p \in Actors /\ h \in Processes
  BY Kinds DEF Actors
<1> HIDE DEF h
<1>2. pc \in [Processes -> Steps] /\ held \in [Processes -> HeldValues]
  BY <1>1, Known, Types
<1>3. CASE dispatched' # dispatched
  <2>1. /\ pc' = [pc EXCEPT ![p] = step, ![h] = "notified"]
        /\ held' = [held EXCEPT ![h] = <<row, NoPayment>>]
    BY <1>3 DEF Notify, Hold, h
  <2>2. pc'[p] = step /\ \A q \in Actors \ {p} : pc'[q] = pc[q]
    BY <1>1, <1>2, <2>1
  <2>3. \A q \in Actors : held'[q] = held[q]
    BY <1>1, <1>2, <2>1
  <2> QED BY <1>1, <2>2, <2>3 DEF Stays
<1>4. CASE dispatched' = dispatched
  <2>1. Goto(p, step) /\ UNCHANGED held
    BY <1>4 DEF Notify
  <2> QED BY <1>1, <2>1, GoesAlone
<1> QED BY <1>3, <1>4

\* A silent step of one execution.
LEMMA SilentMove ==
  ASSUME IInv, IsoInv, OneAtATime, UNCHANGED <<payments, charges, orders>>,
         NEW p \in Actors, InFlight(p) \/ MayStart(p), \A q \in Actors \ {p} : Stays(q),
         p \in Requests => RequestOf(p)',
         p \in Approvals => ApprovalOf(p)' /\ (pc[p] \in Answering => pc'[p] \in Answering),
         p \in Webhooks => WebhookOf(p)'
  PROVE  IsoInv'
<1>1. Apart'
  BY ApartWhenStarting DEF IsoInv
<1> DEFINE M == {p}
<1>2. \A q \in Actors \ M : Stays(q)
  OBVIOUS
<1>3. \A q \in M : /\ q \in Requests => RequestOf(q)'
                   /\ q \in Approvals => ApprovalOf(q)' /\ (pc[q] \in Answering => pc'[q] \in Answering)
                   /\ q \in Webhooks => WebhookOf(q)'
  OBVIOUS
<1> HIDE DEF M
<1> QED BY <1>1, <1>2, <1>3, SilentStep

LEMMA OnlyCardsCharged ==
  ASSUME IInv
  PROVE  charges \subseteq Cards /\ \A o \in Orders : o \notin charges
BY DisjointAssumption, Types DEF IInv

-----------------------------------------------------------------------------
(* RecordPayment looks before it pays.                                        *)

\* Until it has paid, nothing of a request is written or charged.
LEMMA NotBoughtYet ==
  ASSUME IInv, IsoInv, NEW r \in Requests, pc[r] \in {"idle", "unused", "loaded", "payable"}
  PROVE  payments[r] = NoPayment /\ r \notin charges
<1>1. payments[r] = NoPayment
  BY DEF IsoInv, RequestOf, Unwritten, Looking
<1>2. Charged(r)
  BY DEF IsoInv, RequestOf
<1> QED BY <1>1, <1>2 DEF Charged

LEMMA LookingStep ==
  ASSUME IInv, IsoInv, OneAtATime, NEW r \in Requests,
         pc[r] \in {"idle", "unused", "loaded"}, InFlight(r) \/ MayStart(r),
         NEW step \in {"unused", "loaded", "payable", "rejected"}, Goto(r, step),
         step # "rejected" => Fresh(r), step = "payable" => Payable(InvoiceOf[r]),
         UNCHANGED <<tables, providers, held, unsaved>>
  PROVE  IsoInv'
<1>1. /\ r \in Actors /\ step \in Steps /\ UNCHANGED <<payments, charges, orders>>
      /\ r \notin Approvals /\ r \notin Webhooks
  BY Kinds, StepSets DEF Actors, tables, providers, Preparing, Ended
<1>2. pc'[r] = step /\ \A q \in Actors \ {r} : Stays(q)
  BY <1>1, GoesAlone
<1>3. payments[r] = NoPayment /\ r \notin charges
  BY NotBoughtYet
<1>4. Fresh(r) => Fresh(r)'
  BY <1>1 DEF Fresh, About, Id, PaymentDetails
<1>5. Payable(InvoiceOf[r]) => Payable(InvoiceOf[r])'
  BY <1>1, NothingChanged, PayableStays
<1>6. Unwritten(r)'
  BY <1>1, <1>2, <1>3, <1>4 DEF Unwritten, Looking
<1>7. Decided(r)'
  BY <1>2, <1>5 DEF Decided
<1>8. Charged(r)'
  BY <1>1, <1>3 DEF Charged
<1>9. OpensRow(r)' /\ Replaces(r)'
  BY <1>2 DEF OpensRow, Replaces, Bought
<1>10. RequestOf(r)'
  BY <1>6, <1>7, <1>8, <1>9 DEF RequestOf
<1> QED BY <1>1, <1>2, <1>10, SilentMove

LEMMA CheckReferenceIso ==
  ASSUME IInv, IsoInv, OneAtATime, NEW r \in Requests, CheckReference(r)
  PROVE  IsoInv'
<1>1. /\ r \in Transfers /\ pc[r] = "idle" /\ MayStart(r)
      /\ UNCHANGED <<tables, providers, held, unsaved>>
  BY DEF CheckReference
<1>2. CASE Goto(r, "rejected")
  BY <1>1, <1>2, LookingStep
<1>3. CASE /\ Goto(r, "unused")
           /\ \A s \in Requests : payments[s].foreignPaymentId # PaymentDetails(r).foreignPaymentId
  <2>1. PaymentDetails(r).foreignPaymentId = <<"reference", ReferenceOf[r]>>
    BY <1>1, Details
  <2>2. ASSUME NEW s \in Requests PROVE About(Id(s)) # PaymentDetails(r).foreignPaymentId
    <3>1. Id(s) # <<"reference", ReferenceOf[r]>>
      BY <1>3, <2>1 DEF Id
    <3> QED BY <2>1, <3>1, AboutFacts DEF About
  <2>3. Fresh(r)
    BY <2>2 DEF Fresh
  <2> QED BY <1>1, <1>3, <2>3, LookingStep
<1> QED BY <1>2, <1>3 DEF CheckReference

\* Nothing is about a card or an order that was not paid with.
LEMMA NewIsFresh ==
  ASSUME IInv, IsoInv, NEW r \in Cards \cup Orders, pc[r] = "idle"
  PROVE  Fresh(r)
<1>1. r \in Requests /\ r \in Processes
  BY Kinds DEF Requests
<1>2. payments[r] = NoPayment
  BY <1>1, NotBoughtYet
<1> SUFFICES ASSUME NEW s \in Requests, About(Id(s)) = PaymentDetails(r).foreignPaymentId
             PROVE  FALSE
  BY DEF Fresh
<1>3. RowOf(s)
  BY DEF IsoInv
<1>4. CASE r \in Orders
  <2>1. PaymentDetails(r).foreignPaymentId = <<"order", r>>
    BY <1>4, Details
  <2>2. OpenFor(s, r) \/ Captures(s, r)
    BY <1>3, <2>1, OrderRows
  <2>3. orders[r] = "none"
    BY <1>1, <1>4, Known DEF ProgressOf
  <2> QED BY <2>2, <2>3 DEF OpenFor, Captures, Uncaptured
<1>5. CASE r \in Cards
  <2>1. PaymentDetails(r).foreignPaymentId = <<"charge", r>>
    BY <1>5, Details
  <2>2. Id(s) = <<"charge", r>>
    BY <2>1, AboutFacts DEF About
  <2>3. payments[s] # NoPayment
    BY <2>2, RowTypes, AboutFacts
  <2>4. CASE s \in Orders
    <3>1. PICK o \in Orders : OpenFor(s, o) \/ Captures(s, o)
      BY <1>3, <2>3, <2>4 DEF RowOf
    <3>2. Id(s) = <<"order", o>> \/ Id(s) = <<"capture", o>>
      BY <3>1, Details DEF OpenFor, Captures, Id
    <3> QED BY <2>2, <3>2, AboutFacts
  <2>5. CASE s \notin Orders
    <3>1. payments[s] = PaymentDetails(s) /\ (s \in Cards \/ s \in Transfers)
      BY <1>3, <2>3, <2>5 DEF RowOf, Requests
    <3>2. s = r
      BY <2>2, <3>1, Details, AboutFacts DEF Id
    <3> QED BY <1>2, <2>3, <3>2
  <2> QED BY <2>4, <2>5
<1> QED BY <1>4, <1>5

LEMMA AttachInvoiceIso ==
  ASSUME IInv, IsoInv, OneAtATime, NEW r \in Requests, AttachInvoice(r)
  PROVE  IsoInv'
<1>1. UNCHANGED <<tables, providers, held, unsaved>>
  BY DEF AttachInvoice
<1>2. PICK step \in {"loaded", "rejected"} : Goto(r, step)
  BY DEF AttachInvoice
<1>3. CASE r \in Transfers /\ pc[r] = "unused"
  <2>1. Fresh(r) /\ InFlight(r)
    BY <1>3, StepNames DEF IsoInv, RequestOf, Unwritten, Looking, InFlight
  <2> QED BY <1>1, <1>2, <1>3, <2>1, LookingStep
<1>4. CASE r \in Cards \cup Orders /\ pc[r] = "idle" /\ MayStart(r)
  <2>1. Fresh(r)
    BY <1>4, NewIsFresh
  <2> QED BY <1>1, <1>2, <1>4, <2>1, LookingStep
<1> QED BY <1>3, <1>4 DEF AttachInvoice

LEMMA ShouldPayInvoiceIso ==
  ASSUME IInv, IsoInv, OneAtATime, NEW r \in Requests, ShouldPayInvoice(r)
  PROVE  IsoInv'
<1>1. pc[r] = "loaded" /\ UNCHANGED <<tables, providers, held, unsaved>>
  BY DEF ShouldPayInvoice
<1>2. Fresh(r) /\ InFlight(r)
  BY <1>1, StepNames DEF IsoInv, RequestOf, Unwritten, Looking, InFlight
<1>3. CASE Payable(InvoiceOf[r]) /\ Goto(r, "payable")
  BY <1>1, <1>2, <1>3, LookingStep
<1>4. CASE Goto(r, "rejected")
  BY <1>1, <1>2, <1>4, LookingStep
<1> QED BY <1>3, <1>4 DEF ShouldPayInvoice

-----------------------------------------------------------------------------
(* RecordPayment pays and records.                                            *)

\* While rows stay and orders go on, rows keep their shape.
LEMMA RowsShape ==
  ASSUME IsoInv, OrdersGo, UNCHANGED payments, NEW s \in Requests
  PROVE  RowOf(s)' /\ Status(s)' = Status(s) /\ Id(s)' = Id(s)
<1>1. RowOf(s)
  BY DEF IsoInv
<1>2. \A o \in Orders : OpenFor(s, o) => OpenFor(s, o)'
  BY DEF OpenFor, OrdersGo, PaymentDetails
<1>3. \A o \in Orders : Captures(s, o) => Captures(s, o)'
  BY DEF Captures, OrdersGo, Id, Status
<1>4. payments[s] = PaymentDetails(s) => payments'[s] = PaymentDetails(s)'
  BY DEF PaymentDetails
<1> QED BY <1>1, <1>2, <1>3, <1>4 DEF RowOf, Status, Id

\* A step that changes orders, and perhaps charges.
LEMMA OrderingStep ==
  ASSUME IInv, IsoInv, UNCHANGED payments, OrdersGo, Apart', NEW M,
         \A q \in Actors \ M : Stays(q), M \cap Webhooks = {},
         \A q \in Requests \ M : /\ q \in charges' <=> q \in charges
                                 /\ q \in Orders /\ orders'[q] = "created" => orders[q] = "created",
         \A q \in M : /\ q \in Requests => RequestOf(q)'
                      /\ q \in Approvals => ApprovalOf(q)',
         \A o \in Orders : CaptureOf(o)'
  PROVE  IsoInv'
<1>1. \A s \in Requests : RowOf(s)' /\ (Status(s)' = "CREATED" => Status(s) = "CREATED")
  BY RowsShape
<1>2. RowsSettle
  BY DEF RowsSettle, Id
<1>3. \A w \in Webhooks : WebhookOf(w)'
  <2> SUFFICES ASSUME NEW w \in Webhooks PROVE WebhookOf(w)'
    OBVIOUS
  <2>1. WebhookOf(w) /\ Stays(w)
    BY DEF IsoInv, Actors
  <2> QED BY <2>1, WebhookStays
<1>4. \A q \in (Requests \cup Approvals) \ M : Stays(q)
  BY DEF Actors
<1> QED BY <1>1, <1>2, <1>3, <1>4, SettlingStep

LEMMA PayIso ==
  ASSUME IInv, IsoInv, OneAtATime, NEW r \in Requests, Pay(r)
  PROVE  IsoInv'
<1>1. /\ pc[r] = "payable" /\ Goto(r, "paid")
      /\ charges' = charges \cup ({r} \cap Cards)
      /\ orders' = [o \in Orders |-> IF o = r THEN "created" ELSE orders[o]]
      /\ UNCHANGED <<payments, held, unsaved>>
  BY DEF Pay, tables
<1>2. /\ r \in Actors /\ "paid" \in Steps /\ r \notin Approvals /\ r \notin Webhooks /\ r \in Processes
      /\ InFlight(r)
  BY <1>1, Kinds, StepSets, StepNames DEF Actors, Paying, InFlight, Looking
<1>3. pc'[r] = "paid" /\ \A q \in Actors \ {r} : Stays(q)
  BY <1>1, <1>2, GoesAlone
<1>4. r \in Orders => orders[r] = "none"
  BY <1>1, <1>2, Known DEF ProgressOf
<1>5. OrdersGo /\ \A o \in Orders : o # r => orders'[o] = orders[o]
  BY <1>1, <1>4 DEF OrdersGo, Uncaptured, Returned
<1>6. Apart'
  BY <1>2, <1>3, ApartWhenStarting DEF IsoInv
<1>7. RequestOf(r)'
  <2>1. payments[r] = NoPayment /\ Fresh(r)
    BY <1>1 DEF IsoInv, RequestOf, Unwritten, Looking
  <2>2. Fresh(r)'
    BY <1>1, <2>1 DEF Fresh, About, Id, PaymentDetails
  <2>3. Unwritten(r)'
    BY <1>1, <1>3, <2>1, <2>2 DEF Unwritten
  <2>4. Decided(r)' /\ Charged(r)'
    BY <1>3 DEF Decided, Charged
  <2>5. r \in Orders => OpensRow(r)'
    BY <1>1, <1>3 DEF OpensRow
  <2>6. Replaces(r)'
    BY <1>3 DEF Replaces
  <2> QED BY <2>3, <2>4, <2>5, <2>6 DEF RequestOf
<1>8. \A o \in Orders : CaptureOf(o)'
  <2> SUFFICES ASSUME NEW o \in Orders PROVE CaptureOf(o)'
    OBVIOUS
  <2>1. orders'[o] \in {"captured", "settled"} => orders[o] \in {"captured", "settled"}
    BY <1>1, <1>5
  <2>2. \A a \in Approvals : pc'[a] = pc[a]
    BY <1>2, <1>3 DEF Actors, Stays
  <2>3. \A s \in Requests : Id(s)' = Id(s)
    BY <1>1 DEF Id
  <2>4. CaptureOf(o)
    BY DEF IsoInv
  <2> QED BY <2>1, <2>2, <2>3, <2>4, CaptureStays
<1> DEFINE M == {r}
<1>9. (\A q \in Actors \ M : Stays(q)) /\ M \cap Webhooks = {}
  BY <1>2, <1>3
<1>10. \A q \in Requests \ M : /\ q \in charges' <=> q \in charges
                               /\ q \in Orders /\ orders'[q] = "created" => orders[q] = "created"
  BY <1>1, <1>5
<1>11. \A q \in M : (q \in Requests => RequestOf(q)') /\ (q \in Approvals => ApprovalOf(q)')
  BY <1>2, <1>7
<1>12. UNCHANGED payments
  BY <1>1
<1> HIDE DEF M
<1> QED BY <1>5, <1>6, <1>8, <1>9, <1>10, <1>11, <1>12, OrderingStep

LEMMA ExistingRows ==
  ASSUME IInv, IsoInv, NEW r \in Requests
  PROVE  /\ r \notin Orders => ExistingPayments(r) = {}
         /\ r \in Orders =>
              \A s \in Requests : s \in ExistingPayments(r) <=>
                                    InvoiceOf[s] = InvoiceOf[r] /\ Status(s) = "CREATED"
<1>1. r \notin Orders => ExistingPayments(r) = {}
  BY ExistingOrders
<1>2. ASSUME r \in Orders, NEW s \in Requests
      PROVE  s \in ExistingPayments(r) <=> InvoiceOf[s] = InvoiceOf[r] /\ Status(s) = "CREATED"
  <2>1. s \in ExistingPayments(r) => InvoiceOf[s] = InvoiceOf[r] /\ Status(s) = "CREATED"
    BY DEF ExistingPayments, PaymentsOf, Status
  <2>2. ASSUME InvoiceOf[s] = InvoiceOf[r], Status(s) = "CREATED" PROVE s \in ExistingPayments(r)
    <3>1. RowOf(s)
      BY DEF IsoInv
    <3>2. s \in Orders /\ payments[s] # NoPayment
      BY <2>2, <3>1, OrderRows, RowTypes
    <3> QED BY <1>2, <2>2, <3>2 DEF ExistingPayments, PaymentsOf, Status, SameMethod
  <2> QED BY <2>1, <2>2
<1> QED BY <1>1, <1>2

LEMMA AttachPaymentIfExistsIso ==
  ASSUME IInv, IsoInv, OneAtATime, NEW r \in Requests, AttachPaymentIfExists(r)
  PROVE  IsoInv'
<1>1. pc[r] = "paid" /\ UNCHANGED <<payments, charges, orders, held, unsaved>>
  BY DEF AttachPaymentIfExists, tables, providers
<1>2. PICK step \in {"absent", "saved"} :
        Goto(r, step) /\ (step = "absent" <=> ExistingPayments(r) = {})
  BY DEF AttachPaymentIfExists
<1>3. /\ r \in Actors /\ step \in Steps /\ r \notin Approvals /\ r \notin Webhooks /\ InFlight(r)
  BY <1>1, Kinds, StepSets, StepNames DEF Actors, Paying, InFlight, Looking
<1>4. pc'[r] = step /\ \A q \in Actors \ {r} : Stays(q)
  BY <1>1, <1>2, <1>3, GoesAlone
<1>5. payments[r] = NoPayment /\ Fresh(r) /\ (r \in Orders => orders[r] # "none")
  BY <1>1 DEF IsoInv, RequestOf, Unwritten, Looking, OpensRow, Bought
<1>6. Fresh(r)'
  BY <1>1, <1>5 DEF Fresh, About, Id, PaymentDetails
<1>7. Unwritten(r)'
  BY <1>1, <1>2, <1>4, <1>5, <1>6 DEF Unwritten
<1>8. Decided(r)' /\ Replaces(r)'
  BY <1>2, <1>4 DEF Decided, Replaces
<1>9. Charged(r)'
  BY <1>1, <1>2, <1>4, ExistingRows, OnlyCardsCharged DEF Charged
<1>10. ExistingPayments(r)' = ExistingPayments(r)
  BY <1>1 DEF ExistingPayments, PaymentsOf, SameMethod
<1>11. r \in Orders => OpensRow(r)'
  <2> SUFFICES ASSUME r \in Orders PROVE OpensRow(r)'
    OBVIOUS
  <2>1. step = "absent" => \A s \in Requests : InvoiceOf[s] = InvoiceOf[r] => Status(s)' # "CREATED"
    BY <1>1, <1>2, ExistingRows DEF Status
  <2> QED BY <1>1, <1>2, <1>4, <1>5, <1>10, <2>1 DEF OpensRow
<1>12. RequestOf(r)'
  BY <1>7, <1>8, <1>9, <1>11 DEF RequestOf
<1> QED BY <1>1, <1>3, <1>4, <1>12, SilentMove

LEMMA SavePaymentIso ==
  ASSUME IInv, IsoInv, OneAtATime, NEW r \in Requests, SavePayment(r)
  PROVE  IsoInv'
<1>1. /\ pc[r] = "absent" /\ UpdatePayment(r, PaymentDetails(r)) /\ Goto(r, "inserted")
      /\ UNCHANGED <<charges, orders, held, unsaved>>
  BY DEF SavePayment, providers
<1>2. /\ r \in Actors /\ "inserted" \in Steps /\ r \notin Approvals /\ InFlight(r)
  BY <1>1, Kinds, StepSets, StepNames DEF Actors, Paying, InFlight, Looking
<1>3. pc'[r] = "inserted" /\ \A q \in Actors \ {r} : Stays(q)
  BY <1>1, <1>2, GoesAlone
<1>4. /\ payments[r] = NoPayment /\ Fresh(r)
      /\ r \in Orders => /\ orders[r] # "none"
                         /\ \A s \in Requests : InvoiceOf[s] = InvoiceOf[r] => Status(s) # "CREATED"
  BY <1>1 DEF IsoInv, RequestOf, Unwritten, Looking, OpensRow, Bought
<1>5. payments'[r] = PaymentDetails(r) /\ \A s \in Requests \ {r} : payments'[s] = payments[s]
  <2>1. payments \in [Requests -> Payment \cup {NoPayment}]
    BY Types DEF IInv
  <2> QED BY <1>1, <2>1 DEF UpdatePayment
<1>6. payments'[r] # NoPayment /\ payments'[r] = PaymentDetails(r)'
  BY <1>5, Details DEF PaymentDetails
<1>7. RequestOf(r)'
  <2>1. Unwritten(r)' /\ Charged(r)' /\ Decided(r)' /\ Replaces(r)'
    BY <1>3, <1>6 DEF Unwritten, Charged, Decided, Replaces, Looking
  <2>2. r \in Orders => OpensRow(r)'
    BY <1>1, <1>3, <1>4 DEF OpensRow
  <2> QED BY <2>1, <2>2 DEF RequestOf
<1>8. RowOf(r)'
  BY <1>1, <1>4, <1>6 DEF RowOf, OpenFor
<1>9. \A s \in Requests \ {r} : About(Id(s)) # About(PaymentDetails(r).foreignPaymentId)
  BY <1>4, Details DEF Fresh
<1>10. PaymentDetails(r).status = "CREATED" =>
         \A s \in Requests : (Status(s) = "CREATED" /\ InvoiceOf[s] = InvoiceOf[r]) => s = r
  BY <1>4, DetailsOf
<1>11. ASSUME NEW o \in Orders, Placed(o) PROVE Placed(o)'
  <2>1. CASE Replaced(o)
    BY <1>1, <2>1 DEF Placed, Replaced
  <2>2. CASE \E s \in Requests : Id(s) = <<"order", o>>
    <3>1. PICK s \in Requests : Id(s) = <<"order", o>>
      BY <2>2
    <3>2. s # r
      BY <1>4, <3>1, RowTypes, AboutFacts
    <3> QED BY <1>5, <3>1, <3>2 DEF Placed, Id
  <2> QED BY <1>11, <2>1, <2>2 DEF Placed
<1>12. PaymentDetails(r) \in Payment
  BY Details
<1> QED BY <1>1, <1>2, <1>3, <1>4, <1>7, <1>8, <1>9, <1>10, <1>11, <1>12, WritingStep

LEMMA SetAndDispatchEventsIso ==
  ASSUME IInv, IsoInv, OneAtATime, NEW r \in Requests, SetAndDispatchEvents(r)
  PROVE  IsoInv'
<1>1. pc[r] = "inserted" /\ Notify(r, r, "saved") /\ UNCHANGED <<payments, charges, orders, unsaved>>
  BY DEF SetAndDispatchEvents, tables, providers
<1>2. /\ r \in Actors /\ "saved" \in Steps /\ r \notin Approvals /\ r \notin Webhooks /\ InFlight(r)
  BY <1>1, Kinds, StepSets, StepNames DEF Actors, Paying, InFlight
<1>3. pc'[r] = "saved" /\ \A q \in Actors \ {r} : Stays(q)
  BY <1>1, <1>2, NotifiesAlone
<1>4. payments[r] = PaymentDetails(r) /\ payments[r] # NoPayment /\ (r \in Orders => orders[r] # "none")
  BY <1>1, Details DEF IsoInv, RequestOf, Unwritten, OpensRow, Bought
<1>5. Unwritten(r)'
  BY <1>1, <1>3, <1>4 DEF Unwritten, Looking, PaymentDetails
<1>6. Decided(r)' /\ Replaces(r)' /\ Charged(r)'
  BY <1>1, <1>3, <1>4 DEF Decided, Replaces, Charged
<1>7. r \in Orders => OpensRow(r)'
  <2> SUFFICES ASSUME r \in Orders PROVE OpensRow(r)'
    OBVIOUS
  <2>1. r \in ExistingPayments(r)
    BY <1>4, Details, ExistingRows DEF Status
  <2>2. ExistingPayments(r)' = ExistingPayments(r)
    BY <1>1 DEF ExistingPayments, PaymentsOf, SameMethod
  <2> QED BY <1>1, <1>3, <1>4, <2>1, <2>2 DEF OpensRow
<1>8. RequestOf(r)'
  BY <1>5, <1>6, <1>7 DEF RequestOf
<1> QED BY <1>1, <1>2, <1>3, <1>8, SilentMove

LEMMA AttachPaymentAgainIso ==
  ASSUME IInv, IsoInv, OneAtATime, NEW r \in Requests, AttachPaymentAgain(r)
  PROVE  IsoInv'
<1>1. pc[r] = "saved" /\ UNCHANGED <<payments, charges, orders, unsaved>>
  BY DEF AttachPaymentAgain, tables, providers
<1>2. /\ r \in Actors /\ r \notin Approvals /\ r \notin Webhooks /\ InFlight(r)
  BY <1>1, Kinds, StepNames DEF Actors, InFlight, Bought
<1>3. Charged(r) /\ Unwritten(r) /\ (r \in Orders => OpensRow(r))
  BY DEF IsoInv, RequestOf
<1>4. CASE /\ ExistingPayments(r) = {} /\ UNCHANGED held
           /\ Goto(r, IF r \in unsaved THEN "failed" ELSE "done")
  <2>1. PICK step \in {"failed", "done"} : step = (IF r \in unsaved THEN "failed" ELSE "done")
    OBVIOUS
  <2>2. step \in Steps
    BY StepSets DEF Ended
  <2>3. pc'[r] = step /\ \A q \in Actors \ {r} : Stays(q)
    BY <1>1, <1>2, <1>4, <2>1, <2>2, GoesAlone
  <2>4. Unwritten(r)' /\ Decided(r)' /\ Replaces(r)'
    BY <2>3 DEF Unwritten, Decided, Replaces, Looking
  <2>5. Charged(r)'
    BY <1>1, <1>3, <2>1, <2>3 DEF Charged
  <2>6. r \in Orders => OpensRow(r)'
    BY <1>1, <1>3, <1>4, <2>1, <2>3 DEF OpensRow, Bought
  <2>7. RequestOf(r)'
    BY <2>4, <2>5, <2>6 DEF RequestOf
  <2> QED BY <1>1, <1>2, <2>3, <2>7, SilentMove
<1>5. ASSUME NEW s \in ExistingPayments(r), Hold(r, s, PaymentDetails(r)), Goto(r, "replacing")
      PROVE  IsoInv'
  <2>1. /\ r \in Orders /\ s \in Requests /\ InvoiceOf[s] = InvoiceOf[r] /\ Status(s) = "CREATED"
    BY <1>5, ExistingRows DEF ExistingPayments, PaymentsOf, Status
  <2>2. "replacing" \in Steps
    BY StepSets DEF Replacing
  <2>3. /\ pc'[r] = "replacing" /\ held'[r] = <<s, PaymentDetails(r)>>
        /\ \A q \in Actors \ {r} : Stays(q)
    BY <1>1, <1>2, <1>5, <2>2, GoesAlone
  <2>4. \A t \in Requests \ {s} : About(Id(t)) # <<"order", r>>
    <3>1. PaymentDetails(r).foreignPaymentId = <<"order", r>> /\ PaymentDetails(r).status = "CREATED"
      BY <2>1, Details
    <3>2. CASE payments[r] = PaymentDetails(r)
      <4>1. Status(r) = "CREATED" /\ Id(r) = <<"order", r>> /\ payments[r] # NoPayment
        BY <3>1, <3>2, Details DEF Status, Id
      <4>2. r = s
        BY <2>1, <4>1 DEF IsoInv, OneOpen
      <4> QED BY <4>1, <4>2, AboutFacts DEF IsoInv, Distinct
    <3>3. CASE Fresh(r)
      BY <3>1, <3>3 DEF Fresh
    <3> QED BY <1>1, <1>3, <3>2, <3>3 DEF Unwritten
  <2>5. Unwritten(r)' /\ Decided(r)'
    BY <2>3 DEF Unwritten, Decided, Looking
  <2>6. Charged(r)'
    BY <1>1, <2>1, OnlyCardsCharged DEF Charged
  <2>7. OpensRow(r)'
    BY <1>1, <1>3, <2>1, <2>3 DEF OpensRow, Bought
  <2>8. Replaces(r)'
    <3>1. Row(r)' = s /\ held'[r][2] = PaymentDetails(r)'
      BY <2>3 DEF Row, PaymentDetails
    <3>2. Status(Row(r))' = "CREATED"
      BY <1>1, <2>1, <3>1 DEF Status
    <3>3. \A t \in Requests \ {s} : About(Id(t))' # <<"order", r>>
      BY <1>1, <2>4 DEF About, Id
    <3> QED BY <2>1, <2>3, <3>1, <3>2, <3>3 DEF Replaces
  <2>9. RequestOf(r)'
    BY <2>5, <2>6, <2>7, <2>8 DEF RequestOf
  <2> QED BY <1>1, <1>2, <2>3, <2>9, SilentMove
<1> QED BY <1>4, <1>5 DEF AttachPaymentAgain

\* An execution that replaces a row does so for an order.
LEMMA ReplacingFacts ==
  ASSUME IInv, IsoInv, NEW r \in Requests, pc[r] \in {"replacing", "replaced"}
  PROVE  /\ r \in Orders /\ Row(r) \in Orders /\ Row(r) \in Requests /\ orders[r] # "none"
         /\ r \notin charges
         /\ Replaces(r)
<1>1. r \in Processes
  BY Kinds
<1>2. HeldOf(r)
  BY <1>1, Known
<1>3. r \in Orders /\ Row(r) \in Orders /\ Row(r) \in Requests
  BY <1>2 DEF HeldOf, Replacing, Holding
<1>4. OpensRow(r) /\ Replaces(r)
  BY <1>3 DEF IsoInv, RequestOf
<1> QED BY <1>3, <1>4, OnlyCardsCharged DEF OpensRow, Bought

LEMMA ReplacePaymentIso ==
  ASSUME IInv, IsoInv, OneAtATime, NEW r \in Requests, ReplacePayment(r)
  PROVE  IsoInv'
<1>1. /\ pc[r] = "replacing" /\ UpdatePayment(Row(r), held[r][2]) /\ Goto(r, "replaced")
      /\ UNCHANGED <<charges, orders, held, unsaved>>
  BY DEF ReplacePayment, providers
<1>2. /\ r \in Actors /\ "replaced" \in Steps /\ r \notin Approvals /\ InFlight(r)
  BY <1>1, Kinds, StepSets, StepNames DEF Actors, Replacing, InFlight, Bought
<1>3. pc'[r] = "replaced" /\ \A q \in Actors \ {r} : Stays(q)
  BY <1>1, <1>2, GoesAlone
<1>4. PICK row \in Orders : row = Row(r) /\ row \in Requests
  BY <1>1, ReplacingFacts
<1>5. /\ r \in Orders /\ orders[r] # "none" /\ r \notin charges
      /\ held[r][2] = PaymentDetails(r)
      /\ Status(row) = "CREATED" /\ InvoiceOf[row] = InvoiceOf[r]
      /\ \A s \in Requests \ {row} : About(Id(s)) # <<"order", r>>
  BY <1>1, <1>4, ReplacingFacts DEF Replaces
<1>6. UpdatePayment(row, PaymentDetails(r))
  BY <1>1, <1>4, <1>5
<1>7. payments'[row] = PaymentDetails(r) /\ \A s \in Requests \ {row} : payments'[s] = payments[s]
  <2>1. payments \in [Requests -> Payment \cup {NoPayment}]
    BY Types DEF IInv
  <2> QED BY <1>4, <1>6, <2>1 DEF UpdatePayment
<1>8. /\ PaymentDetails(r) \in Payment /\ PaymentDetails(r).foreignPaymentId = <<"order", r>>
      /\ About(PaymentDetails(r).foreignPaymentId) = <<"order", r>>
  BY <1>5, Details
<1>9. RequestOf(r)'
  <2>1. Unwritten(r)' /\ Decided(r)'
    BY <1>3 DEF Unwritten, Decided, Looking
  <2>2. Charged(r)'
    BY <1>1, <1>5 DEF Charged
  <2>3. OpensRow(r)'
    BY <1>1, <1>3, <1>5 DEF OpensRow
  <2>4. Row(r)' = row
    BY <1>1, <1>4 DEF Row
  <2>5. Replaces(r)'
    BY <1>3, <1>7, <2>4 DEF Replaces, PaymentDetails
  <2> QED BY <2>1, <2>2, <2>3, <2>5 DEF RequestOf
<1>10. RowOf(row)'
  <2>1. OpenFor(row, r)'
    BY <1>1, <1>5, <1>7 DEF OpenFor, PaymentDetails
  <2> QED BY <1>4, <1>5, <2>1 DEF RowOf
<1>11. \A s \in Requests \ {row} : About(Id(s)) # About(PaymentDetails(r).foreignPaymentId)
  BY <1>5, <1>8
<1>12. \A s \in Requests : (Status(s) = "CREATED" /\ InvoiceOf[s] = InvoiceOf[row]) => s = row
  BY <1>4, <1>5 DEF IsoInv, OneOpen
<1>13. ASSUME NEW o \in Orders, Placed(o) PROVE Placed(o)'
  <2>1. CASE Replaced(o)
    BY <1>1, <2>1 DEF Placed, Replaced
  <2>2. ASSUME NEW s \in Requests, Id(s) = <<"order", o>> PROVE Placed(o)'
    <3>1. CASE s # row
      BY <1>7, <2>2, <3>1 DEF Placed, Id
    <3>2. CASE s = row /\ o = r
      BY <1>4, <1>7, <1>8, <3>2 DEF Placed, Id
    <3>3. CASE s = row /\ o # r
      <4>1. RowOf(s)
        BY DEF IsoInv
      <4>2. InvoiceOf[o] = InvoiceOf[r]
        BY <1>5, <2>2, <3>3, <4>1, OrderRows
      <4> QED BY <1>1, <1>5, <3>3, <4>2 DEF Placed, Replaced
    <3> QED BY <3>1, <3>2, <3>3
  <2> QED BY <1>13, <2>1, <2>2 DEF Placed
<1> QED BY <1>1, <1>2, <1>3, <1>4, <1>5, <1>6, <1>8, <1>9, <1>10, <1>11, <1>12, <1>13, WritingStep

LEMMA DispatchReplacedIso ==
  ASSUME IInv, IsoInv, OneAtATime, NEW r \in Requests, DispatchReplaced(r)
  PROVE  IsoInv'
<1>1. PICK step \in {"failed", "done"} :
        /\ pc[r] = "replaced" /\ Notify(r, Row(r), step)
        /\ UNCHANGED <<payments, charges, orders, unsaved>>
  BY DEF DispatchReplaced, tables, providers
<1>2. /\ r \in Actors /\ step \in Steps /\ r \notin Approvals /\ r \notin Webhooks /\ InFlight(r)
  BY <1>1, Kinds, StepSets, StepNames DEF Actors, Ended, InFlight, Bought
<1>3. pc'[r] = step /\ \A q \in Actors \ {r} : Stays(q)
  BY <1>1, <1>2, NotifiesAlone
<1>4. PICK row \in Requests : row = Row(r) /\ payments[row] = PaymentDetails(r)
  BY <1>1, ReplacingFacts DEF Replaces
<1>5. r \in Orders /\ r \notin charges
  BY <1>1, ReplacingFacts
<1>6. Id(row) = <<"order", r>>
  BY <1>4, <1>5, Details DEF Id
<1>7. Unwritten(r)' /\ Decided(r)' /\ Replaces(r)'
  BY <1>3 DEF Unwritten, Decided, Replaces, Looking
<1>8. Charged(r)'
  BY <1>1, <1>5 DEF Charged
<1>9. OpensRow(r)'
  <2>1. Placed(r)'
    BY <1>1, <1>6 DEF Placed, Id
  <2> QED BY <1>3, <2>1 DEF OpensRow, Bought
<1>10. RequestOf(r)'
  BY <1>7, <1>8, <1>9 DEF RequestOf
<1> QED BY <1>1, <1>2, <1>3, <1>10, SilentMove

-----------------------------------------------------------------------------
(* PayPal, approvals and webhooks.                                            *)

LEMMA CaptureMoneyIso ==
  ASSUME IInv, IsoInv, OneAtATime, NEW a \in Approvals, CaptureMoney(a)
  PROVE  IsoInv'
<1>1. PICK o \in Orders : o = OrderOf[a]
  BY PaymentAssumption
<1>2. /\ pc[a] = "idle" /\ MayStart(a) /\ pc[o] = "done"
      /\ UNCHANGED <<payments, charges, held, unsaved>>
  BY <1>1 DEF CaptureMoney, tables
<1>3. /\ a \in Actors /\ a \notin Requests /\ a \notin Webhooks /\ o \in Requests
      /\ {"captured", "rejected"} \subseteq Steps
  BY Kinds DEF Actors, Requests, Steps, InFlightSteps, ApprovalSteps
<1>4. CASE Goto(a, "rejected") /\ UNCHANGED orders
  <2>1. pc'[a] = "rejected" /\ \A q \in Actors \ {a} : Stays(q)
    BY <1>2, <1>3, <1>4, GoesAlone
  <2>2. ApprovalOf(a)'
    BY <2>1 DEF ApprovalOf, ApprovalSteps
  <2>3. pc[a] \notin Answering
    BY <1>2 DEF Answering, ApprovalSteps
  <2> QED BY <1>2, <1>3, <1>4, <2>1, <2>2, <2>3, SilentMove
<1>5. CASE /\ orders[o] = "created" /\ Goto(a, "captured")
           /\ orders' = [orders EXCEPT ![o] = "captured"]
  <2>1. pc'[a] = "captured" /\ \A q \in Actors \ {a} : Stays(q)
    BY <1>2, <1>3, <1>5, GoesAlone
  <2>2. orders'[o] = "captured" /\ \A q \in Orders : q # o => orders'[q] = orders[q]
    <3>1. orders \in [Orders -> OrderStates]
      BY Types DEF IInv
    <3> QED BY <1>5, <3>1
  <2>3. OrdersGo
    BY <1>5, <2>2 DEF OrdersGo, Uncaptured, Returned
  <2>4. Apart'
    BY <1>2, <1>3, <2>1, ApartWhenStarting DEF IsoInv
  <2>5. Placed(o)
    BY <1>2, <1>3, <1>5 DEF IsoInv, RequestOf, OpensRow
  <2>6. RowsSettle
    BY <1>2 DEF RowsSettle, Id
  <2>7. Placed(o)'
    BY <2>3, <2>5, <2>6, PlacedStays
  <2>8. ApprovalOf(a)'
    BY <1>1, <2>1, <2>2, <2>7 DEF ApprovalOf, Uncaptured
  <2>9. \A q \in Orders : CaptureOf(q)'
    <3> SUFFICES ASSUME NEW q \in Orders PROVE CaptureOf(q)'
      OBVIOUS
    <3>1. CASE q = o
      BY <1>1, <2>1, <3>1 DEF CaptureOf, ApprovalSteps
    <3>2. CASE q # o
      <4>1. \A s \in Requests : Id(s)' = Id(s)
        BY <1>2 DEF Id
      <4>2. \A b \in Approvals : pc[b] \in Answering => pc'[b] \in Answering
        BY <2>1 DEF Actors, Stays, Answering, ApprovalSteps
      <4>3. CaptureOf(q)
        BY DEF IsoInv
      <4> QED BY <2>2, <3>2, <4>1, <4>2, <4>3, CaptureStays
    <3> QED BY <3>1, <3>2
  <2> DEFINE M == {a}
  <2>10. (\A q \in Actors \ M : Stays(q)) /\ M \cap Webhooks = {}
    BY <1>3, <2>1
  <2>11. \A q \in Requests \ M : /\ q \in charges' <=> q \in charges
                                 /\ q \in Orders /\ orders'[q] = "created" => orders[q] = "created"
    BY <1>2, <2>2
  <2>12. \A q \in M : (q \in Requests => RequestOf(q)') /\ (q \in Approvals => ApprovalOf(q)')
    BY <1>3, <2>8
  <2>13. UNCHANGED payments
    BY <1>2
  <2> HIDE DEF M
  <2> QED BY <2>3, <2>4, <2>9, <2>10, <2>11, <2>12, <2>13, OrderingStep
<1> QED BY <1>1, <1>4, <1>5 DEF CaptureMoney

LEMMA SettleIso ==
  ASSUME IInv, IsoInv, OneAtATime, NEW o \in Orders, Settle(o)
  PROVE  IsoInv'
<1>1. UNCHANGED <<payments, charges, pc, held, unsaved>>
  BY DEF Settle, tables
<1>2. PICK state \in {"settled", "denied", "refunded"} :
        /\ orders' = [orders EXCEPT ![o] = state]
        /\ \/ orders[o] = "captured" /\ state \in {"settled", "denied"}
           \/ orders[o] = "settled" /\ state = "refunded"
  <2>1. CASE orders[o] = "settled" /\ orders' = [orders EXCEPT ![o] = "refunded"]
    BY <2>1
  <2>2. CASE /\ orders[o] = "captured"
             /\ \E s \in {"settled", "denied"} : orders' = [orders EXCEPT ![o] = s]
    BY <2>2
  <2> QED BY <2>1, <2>2 DEF Settle
<1>3. orders'[o] = state /\ \A q \in Orders : q # o => orders'[q] = orders[q]
  <2>1. orders \in [Orders -> OrderStates]
    BY Types DEF IInv
  <2> QED BY <1>2, <2>1
<1>4. OrdersGo
  BY <1>2, <1>3 DEF OrdersGo, Uncaptured, Returned
<1>5. \A q \in Actors : Stays(q)
  BY <1>1 DEF Stays
<1>6. Apart'
  BY <1>5, ApartIfNoneStarts DEF IsoInv, InFlight, Stays
<1>7. \A q \in Orders : CaptureOf(q)'
  <2> SUFFICES ASSUME NEW q \in Orders PROVE CaptureOf(q)'
    OBVIOUS
  <2>1. \A s \in Requests : Id(s)' = Id(s)
    BY <1>1 DEF Id
  <2>2. orders'[q] \in {"captured", "settled"} => orders[q] \in {"captured", "settled"}
    BY <1>2, <1>3
  <2>3. CaptureOf(q)
    BY DEF IsoInv
  <2>4. \A a \in Approvals : pc'[a] = pc[a]
    BY <1>1
  <2> QED BY <2>1, <2>2, <2>3, <2>4, CaptureStays
<1>8. \A q \in Orders : orders'[q] = "created" => orders[q] = "created"
  BY <1>2, <1>3
<1> DEFINE M == {}
<1>9. /\ \A q \in Actors \ M : Stays(q)
      /\ M \cap Webhooks = {}
      /\ \A q \in M : (q \in Requests => RequestOf(q)') /\ (q \in Approvals => ApprovalOf(q)')
  BY <1>5
<1>10. \A q \in Requests \ M : /\ q \in charges' <=> q \in charges
                               /\ q \in Orders /\ orders'[q] = "created" => orders[q] = "created"
  BY <1>1, <1>8
<1>11. UNCHANGED payments
  BY <1>1
<1> HIDE DEF M
<1> QED BY <1>4, <1>6, <1>7, <1>9, <1>10, <1>11, OrderingStep

LEMMA AttachPaymentIso ==
  ASSUME IInv, IsoInv, OneAtATime, NEW a \in Approvals, AttachPayment(a)
  PROVE  IsoInv'
<1>1. PICK o \in Orders : o = OrderOf[a]
  BY PaymentAssumption
<1>2. pc[a] = "captured" /\ UNCHANGED <<payments, charges, orders, unsaved>>
  BY DEF AttachPayment, tables, providers
<1>3. /\ a \in Actors /\ a \notin Requests /\ a \notin Webhooks /\ InFlight(a)
      /\ {"approving", "lost"} \subseteq Steps
  BY <1>2, Kinds, StepNames DEF Actors, Steps, InFlightSteps, ApprovalSteps, InFlight
<1>4. orders[o] \notin Uncaptured /\ Placed(o)
  BY <1>1, <1>2 DEF IsoInv, ApprovalOf, ApprovalSteps
<1>5. CASE PaymentsWith(<<"order", o>>) = {} /\ Goto(a, "lost") /\ UNCHANGED held
  <2>1. pc'[a] = "lost" /\ \A q \in Actors \ {a} : Stays(q)
    BY <1>2, <1>3, <1>5, GoesAlone
  <2>2. Replaced(o)
    BY <1>4, <1>5 DEF Placed, PaymentsWith, Id
  <2>3. Replaced(o)'
    BY <1>2, <2>2 DEF Replaced
  <2>4. ApprovalOf(a)'
    BY <1>1, <2>1, <2>3 DEF ApprovalOf, ApprovalSteps
  <2>5. pc'[a] \in Answering
    BY <2>1 DEF Answering
  <2> QED BY <1>2, <1>3, <2>1, <2>4, <2>5, SilentMove
<1>6. ASSUME NEW s \in PaymentsWith(<<"order", o>>), Goto(a, "approving"),
             Hold(a, s, [status |-> "PENDING", foreignPaymentId |-> <<"capture", o>>])
      PROVE  IsoInv'
  <2>1. /\ pc'[a] = "approving"
        /\ held'[a] = <<s, [status |-> "PENDING", foreignPaymentId |-> <<"capture", o>>]>>
        /\ \A q \in Actors \ {a} : Stays(q)
    BY <1>2, <1>3, <1>6, GoesAlone
  <2>2. s \in Requests /\ Id(s) = <<"order", o>>
    BY DEF PaymentsWith, Id
  <2>3. payments[s] = PaymentDetails(o)
    BY <2>2, OrderRows DEF IsoInv, OpenFor
  <2>4. Row(a)' = s
    BY <2>1 DEF Row
  <2>5. payments'[Row(a)'] = PaymentDetails(o)'
    BY <1>2, <2>3, <2>4 DEF PaymentDetails
  <2>6. ApprovalOf(a)'
    BY <1>1, <1>2, <1>4, <2>1, <2>5 DEF ApprovalOf
  <2>7. pc'[a] \in Answering
    BY <2>1 DEF Answering, ApprovalSteps
  <2> QED BY <1>2, <1>3, <2>1, <2>6, <2>7, SilentMove
<1> QED BY <1>1, <1>5, <1>6 DEF AttachPayment

LEMMA SavePaymentChangesIso ==
  ASSUME IInv, IsoInv, OneAtATime, NEW a \in Approvals, SavePaymentChanges(a)
  PROVE  IsoInv'
<1>1. PICK o \in Orders : o = OrderOf[a]
  BY PaymentAssumption
<1>2. /\ pc[a] = "approving" /\ UpdatePayment(Row(a), held[a][2]) /\ Goto(a, "done")
      /\ UNCHANGED <<charges, orders, held, unsaved>>
  BY DEF SavePaymentChanges, providers
<1>3. /\ a \in Actors /\ a \notin Requests /\ InFlight(a) /\ "done" \in Steps /\ a \in Processes
      /\ pc[a] \in ApprovalSteps
  BY <1>2, Kinds, StepNames DEF Actors, Steps, ApprovalSteps, InFlight
<1>4. pc'[a] = "done" /\ \A q \in Actors \ {a} : Stays(q)
  BY <1>2, <1>3, GoesAlone
<1>5. PICK row \in Requests : row = Row(a)
  BY <1>2, <1>3, Known DEF HeldOf, Holding, Writing
<1> DEFINE capture == [status |-> "PENDING", foreignPaymentId |-> <<"capture", o>>]
<1>6. /\ payments[row] = PaymentDetails(o) /\ held[a][2] = capture
      /\ orders[o] \notin Uncaptured
  BY <1>1, <1>2, <1>3, <1>5 DEF IsoInv, ApprovalOf
<1>7. /\ capture \in Payment /\ capture.status = "PENDING"
      /\ capture.foreignPaymentId = <<"capture", o>>
  BY DEF Payment, PaymentStatus, ForeignId
<1> HIDE DEF capture
<1>8. UpdatePayment(row, capture)
  BY <1>2, <1>5, <1>6
<1>9. payments'[row] = capture /\ \A s \in Requests \ {row} : payments'[s] = payments[s]
  <2>1. payments \in [Requests -> Payment \cup {NoPayment}]
    BY Types DEF IInv
  <2> QED BY <1>8, <2>1 DEF UpdatePayment
<1>10. Status(row) = "CREATED" /\ Id(row) = <<"order", o>> /\ payments[row] # NoPayment
  BY <1>6, Details DEF Status, Id, Requests
<1>11. row \in Orders /\ InvoiceOf[o] = InvoiceOf[row]
  BY <1>10, OrderRows DEF IsoInv
<1>12. RowOf(row)'
  <2>1. Captures(row, o)'
    BY <1>2, <1>6, <1>7, <1>9 DEF Captures, Id, Status
  <2> QED BY <1>11, <2>1 DEF RowOf
<1>13. \A s \in Requests \ {row} : About(Id(s)) # About(capture.foreignPaymentId)
  BY <1>7, <1>10, AboutFacts DEF IsoInv, Distinct
<1>14. ASSUME NEW q \in Orders, orders[q] = "created", Placed(q) PROVE Placed(q)'
  <2>1. q # o
    BY <1>6, <1>14 DEF Uncaptured
  <2>2. CASE Replaced(q)
    BY <1>2, <2>2 DEF Placed, Replaced
  <2>3. ASSUME NEW s \in Requests, Id(s) = <<"order", q>> PROVE Placed(q)'
    <3>1. s # row
      BY <1>10, <2>1, <2>3, AboutFacts
    <3> QED BY <1>9, <2>3, <3>1 DEF Placed, Id
  <2> QED BY <1>14, <2>2, <2>3 DEF Placed
<1>15. ApprovalOf(a)'
  BY <1>4 DEF ApprovalOf, ApprovalSteps
<1>16. \E s \in Requests : Id(s)' = <<"capture", o>>
  BY <1>7, <1>9 DEF Id
<1> QED BY <1>1, <1>2, <1>3, <1>4, <1>7, <1>8, <1>10, <1>12, <1>13, <1>14, <1>15, <1>16, WritingStep

LEMMA UpdatePaymentStatusIso ==
  ASSUME IInv, IsoInv, OneAtATime, NEW w \in Webhooks, UpdatePaymentStatus(w)
  PROVE  IsoInv'
<1>1. PICK o, e : o = OrderOf[w] /\ e = EventOf[w]
  OBVIOUS
<1>2. /\ pc[w] = "idle" /\ MayStart(w) /\ Occurred(e, o) /\ Goto(w, "received")
      /\ UNCHANGED <<payments, charges, orders, unsaved>>
  BY <1>1 DEF UpdatePaymentStatus, tables, providers
<1>3. /\ w \in Actors /\ w \notin Requests /\ w \notin Approvals /\ "received" \in Steps
      /\ e \in {"COMPLETED", "FAILED", "OTHER"}
  BY <1>1, Kinds, PaymentAssumption DEF Actors, Steps, InFlightSteps, WebhookSteps
<1>4. PICK s \in PaymentsWith(<<"capture", o>>) :
        /\ payments[s].status = "PENDING"
        /\ Hold(w, s, [payments[s] EXCEPT !.status = IF e = "OTHER" THEN @ ELSE e])
  BY <1>1 DEF UpdatePaymentStatus
<1>5. s \in Requests /\ Id(s) = <<"capture", o>> /\ Status(s) = "PENDING"
  BY <1>4 DEF PaymentsWith, Id, Status
<1>6. PICK row, payment : /\ row = s
                          /\ payment = [payments[s] EXCEPT !.status = IF e = "OTHER" THEN @ ELSE e]
  OBVIOUS
<1>7. /\ pc'[w] = "received" /\ held'[w] = <<row, payment>>
      /\ \A q \in Actors \ {w} : Stays(q)
  BY <1>2, <1>3, <1>4, <1>6, GoesAlone
<1>8. /\ payment.foreignPaymentId = <<"capture", o>>
      /\ payment.status \in {"PENDING", "COMPLETED", "FAILED"}
      /\ payment.status = "FAILED" => e = "FAILED"
  <2>1. payments[s] \in Payment
    BY <1>5, RowTypes
  <2>2. payment.foreignPaymentId = Id(s) /\ payment.status = IF e = "OTHER" THEN Status(s) ELSE e
    BY <1>6, <2>1 DEF Payment, Id, Status
  <2> QED BY <1>3, <1>5, <2>2
<1>9. e = "FAILED" => orders[o] \in Returned
  BY <1>2 DEF Occurred, Returned
<1>10. Row(w)' = row /\ held'[w][2] = payment
  BY <1>7 DEF Row
<1>11. Status(Row(w))' = "PENDING" /\ Id(Row(w))' = <<"capture", o>>
  BY <1>2, <1>5, <1>6, <1>10 DEF Status, Id
<1>12. WebhookOf(w)'
  BY <1>1, <1>2, <1>8, <1>9, <1>10, <1>11 DEF WebhookOf
<1> QED BY <1>2, <1>3, <1>7, <1>12, SilentMove

LEMMA SavePaymentStatusIso ==
  ASSUME IInv, IsoInv, OneAtATime, NEW w \in Webhooks, SavePaymentStatus(w)
  PROVE  IsoInv'
<1>1. /\ pc[w] = "received" /\ UpdatePayment(Row(w), held[w][2]) /\ Goto(w, "stored")
      /\ UNCHANGED <<charges, orders, held, unsaved>>
  BY DEF SavePaymentStatus, providers
<1>2. /\ w \in Actors /\ w \notin Requests /\ w \notin Approvals /\ "stored" \in Steps /\ w \in Processes
      /\ InFlight(w)
  BY <1>1, Kinds, StepNames DEF Actors, Steps, InFlightSteps, WebhookSteps, InFlight
<1>3. pc'[w] = "stored" /\ \A q \in Actors \ {w} : Stays(q)
  BY <1>1, <1>2, GoesAlone
<1>4. PICK o \in Orders : o = OrderOf[w]
  BY PaymentAssumption
<1>5. PICK row, payment : row \in Requests /\ row = Row(w) /\ payment = held[w][2]
  BY <1>1, <1>2, Known DEF HeldOf, Holding, Writing
<1>6. /\ Status(row) = "PENDING" /\ Id(row) = <<"capture", o>>
      /\ payment.foreignPaymentId = <<"capture", o>>
      /\ payment.status \in {"PENDING", "COMPLETED", "FAILED"}
      /\ payment.status = "FAILED" => orders[o] \in Returned
  BY <1>1, <1>4, <1>5 DEF IsoInv, WebhookOf
<1>7. payments'[row] = payment /\ \A s \in Requests \ {row} : payments'[s] = payments[s]
  <2>1. payments \in [Requests -> Payment \cup {NoPayment}]
    BY Types DEF IInv
  <2> QED BY <1>1, <1>5, <2>1 DEF UpdatePayment
<1>8. \A s \in Requests : /\ Id(s)' = Id(s) /\ (Status(s)' = "CREATED" => Status(s) = "CREATED")
                          /\ Status(s) # "PENDING" => payments'[s] = payments[s]
  BY <1>6, <1>7 DEF Id, Status
<1>9. RowsSettle /\ OrdersGo
  BY <1>1, <1>8 DEF RowsSettle, OrdersGo
<1>10. Apart'
  BY <1>2, <1>3, ApartWhenStarting DEF IsoInv
<1>11. \A s \in Requests : RowOf(s)'
  <2> SUFFICES ASSUME NEW s \in Requests PROVE RowOf(s)'
    OBVIOUS
  <2>1. RowOf(s)
    BY DEF IsoInv
  <2>2. CASE s = row
    <3>1. s \in Orders /\ InvoiceOf[o] = InvoiceOf[s] /\ orders[o] \notin Uncaptured
      BY <1>6, <2>1, <2>2, OrderRows DEF Captures
    <3>2. Captures(s, o)'
      BY <1>1, <1>6, <1>7, <2>2, <3>1 DEF Captures, Id, Status
    <3> QED BY <3>1, <3>2 DEF RowOf
  <2>3. CASE s # row
    <3>1. payments'[s] = payments[s] /\ Id(s)' = Id(s) /\ Status(s)' = Status(s)
      BY <1>7, <2>3 DEF Id, Status
    <3> QED BY <1>1, <2>1, <3>1 DEF RowOf, OpenFor, Captures, PaymentDetails
  <2> QED BY <2>2, <2>3
<1>12. \A v \in Webhooks : WebhookOf(v)'
  <2> SUFFICES ASSUME NEW v \in Webhooks PROVE WebhookOf(v)'
    OBVIOUS
  <2>1. v # w => pc'[v] = pc[v] /\ ~InFlight(v)
    BY <1>2, <1>3 DEF IsoInv, Apart, Actors, Stays
  <2>2. pc'[v] # "received"
    BY <1>3, <2>1, StepNames DEF InFlight
  <2> QED BY <2>2 DEF WebhookOf
<1>13. \A q \in Orders : CaptureOf(q)'
  <2> SUFFICES ASSUME NEW q \in Orders PROVE CaptureOf(q)'
    OBVIOUS
  <2>1. \A a \in Approvals : pc'[a] = pc[a]
    BY <1>2, <1>3 DEF Actors, Stays
  <2>2. CaptureOf(q)
    BY DEF IsoInv
  <2> QED BY <1>1, <1>8, <2>1, <2>2, CaptureStays
<1> DEFINE M == {w}
<1>14. /\ \A q \in (Requests \cup Approvals) \ M : Stays(q)
       /\ \A q \in M : (q \in Requests => RequestOf(q)') /\ (q \in Approvals => ApprovalOf(q)')
  BY <1>2, <1>3 DEF Actors
<1>15. \A q \in Requests \ M : /\ q \in charges' <=> q \in charges
                               /\ q \in Orders /\ orders'[q] = "created" => orders[q] = "created"
  BY <1>1
<1> HIDE DEF M
<1> QED BY <1>8, <1>9, <1>10, <1>11, <1>12, <1>13, <1>14, <1>15, SettlingStep

LEMMA DispatchEventsIso ==
  ASSUME IInv, IsoInv, OneAtATime, NEW w \in Webhooks, DispatchEvents(w)
  PROVE  IsoInv'
<1>1. /\ pc[w] = "stored" /\ Notify(w, Row(w), "done")
      /\ UNCHANGED <<payments, charges, orders, unsaved>>
  BY DEF DispatchEvents, tables, providers
<1>2. /\ w \in Actors /\ w \notin Requests /\ w \notin Approvals /\ "done" \in Steps /\ InFlight(w)
  BY <1>1, Kinds DEF Actors, Steps, InFlightSteps, WebhookSteps, InFlight
<1>3. pc'[w] = "done" /\ \A q \in Actors \ {w} : Stays(q)
  BY <1>1, <1>2, NotifiesAlone
<1>4. WebhookOf(w)'
  BY <1>3 DEF WebhookOf
<1> QED BY <1>1, <1>2, <1>3, <1>4, SilentMove

-----------------------------------------------------------------------------
(* AfterPaymentCompleted, failures and restarts.                              *)

\* A completion moves nobody else and writes no payment.
LEMMA CompletionIso ==
  ASSUME IInv, IsoInv, OneAtATime, NEW h \in Completions, CompletionStep(h)
  PROVE  IsoInv'
<1>1. /\ UNCHANGED <<payments, charges, orders, held, unsaved>>
      /\ \E step : Goto(h, step)
  <2>1. CASE OnPaymentCompleted(h)
    BY <2>1 DEF OnPaymentCompleted, tables, providers
  <2>2. CASE UpdateInvoice(h)
    BY <2>2 DEF UpdateInvoice, providers
  <2>3. CASE DispatchInvoiceEvents(h)
    BY <2>3 DEF DispatchInvoiceEvents, tables, providers
  <2> QED BY <2>1, <2>2, <2>3 DEF CompletionStep
<1>2. h \notin Actors /\ Actors \subseteq Processes
  BY Kinds DEF Actors
<1>3. pc \in [Processes -> Steps]
  BY Types DEF IInv
<1> HIDE DEF Actors
<1>4. \A q \in Actors : pc'[q] = pc[q]
  BY <1>1, <1>2, <1>3 DEF Goto
<1>5. \A q \in Actors : Stays(q)
  BY <1>1, <1>4 DEF Stays
<1>6. Apart'
  BY <1>4, ApartIfNoneStarts DEF IsoInv, InFlight
<1> DEFINE M == {}
<1>7. /\ \A q \in Actors \ M : Stays(q)
      /\ \A q \in M : /\ q \in Requests => RequestOf(q)'
                      /\ q \in Approvals => ApprovalOf(q)' /\ (pc[q] \in Answering => pc'[q] \in Answering)
                      /\ q \in Webhooks => WebhookOf(q)'
  BY <1>5
<1>8. UNCHANGED <<payments, charges, orders>>
  BY <1>1
<1> HIDE DEF M
<1> QED BY <1>6, <1>7, <1>8, SilentStep

\* Where an execution fails, nothing more is asked of it.
LEMMA FailedIso ==
  ASSUME NEW q \in Actors, pc'[q] = "failed"
  PROVE  RequestOf(q)' /\ ApprovalOf(q)' /\ WebhookOf(q)' /\ pc'[q] \in Answering
<1>1. Unwritten(q)' /\ Decided(q)' /\ Charged(q)' /\ OpensRow(q)' /\ Replaces(q)'
  BY DEF Unwritten, Decided, Charged, OpensRow, Replaces, Looking, Bought
<1>2. ApprovalOf(q)' /\ WebhookOf(q)' /\ pc'[q] \in Answering
  BY DEF ApprovalOf, WebhookOf, ApprovalSteps, Answering
<1> QED BY <1>1, <1>2 DEF RequestOf

LEMMA FailIso ==
  ASSUME IInv, IsoInv, OneAtATime, NEW p \in Processes, Fail(p)
  PROVE  IsoInv'
<1>1. UNCHANGED <<payments, charges, orders, held>>
  BY DEF Fail, tables, providers
<1>2. pc \in [Processes -> Steps] /\ Actors \subseteq Processes
  BY Kinds, Types DEF IInv, Actors
<1>3. CASE InFlight(p) /\ Goto(p, "failed") /\ UNCHANGED unsaved
  <2>1. pc'[p] = "failed" /\ \A q \in Processes \ {p} : pc'[q] = pc[q]
    BY <1>2, <1>3, StepSets DEF Goto
  <2>2. \A q \in Actors \ {p} : Stays(q)
    BY <1>1, <1>2, <1>3, <2>1 DEF Stays
  <2>3. Apart'
    <3>1. \A q \in Actors : InFlight(q)' => InFlight(q)
      BY <1>3, <2>2 DEF InFlight, Stays
    <3> QED BY <3>1, ApartIfNoneStarts DEF IsoInv
  <2> DEFINE M == {p} \cap Actors
  <2>4. (\A q \in Actors \ M : Stays(q)) /\ \A q \in M : q \in Actors /\ q = p
    BY <2>2
  <2> HIDE DEF M
  <2>5. \A q \in M : /\ q \in Requests => RequestOf(q)'
                     /\ q \in Approvals => ApprovalOf(q)' /\ (pc[q] \in Answering => pc'[q] \in Answering)
                     /\ q \in Webhooks => WebhookOf(q)'
    BY <2>1, <2>4, FailedIso
  <2>6. UNCHANGED <<payments, charges, orders>>
    BY <1>1
  <2> QED BY <2>3, <2>4, <2>5, <2>6, SilentStep
<1>4. CASE /\ pc[p] \in {"paid", "absent", "inserted"} /\ Goto(p, "saved")
           /\ unsaved' = unsaved \cup {p}
  <2>1. p \in Requests
    BY <1>4, Known, StepSets DEF KindOf, Paying
  <2>2. /\ p \in Actors /\ p \notin Approvals /\ p \notin Webhooks /\ InFlight(p) /\ "saved" \in Steps
    BY <1>4, <2>1, Kinds, StepNames, StepSets DEF Actors, InFlight, Looking, Paying
  <2>3. pc'[p] = "saved" /\ \A q \in Processes \ {p} : pc'[q] = pc[q]
    BY <1>2, <1>4, <2>2 DEF Goto
  <2>4. \A q \in Actors \ {p} : Stays(q)
    BY <1>1, <1>2, <1>4, <2>3 DEF Stays
  <2>5. Unwritten(p) /\ (p \in Orders => OpensRow(p))
    BY <2>1 DEF IsoInv, RequestOf
  <2>6. payments[p] = PaymentDetails(p) \/ Fresh(p)
    BY <1>4, <2>5 DEF Unwritten, Looking
  <2>7. Fresh(p) => Fresh(p)'
    BY <1>1 DEF Fresh, About, Id, PaymentDetails
  <2>8. Unwritten(p)'
    BY <1>1, <2>3, <2>6, <2>7 DEF Unwritten, Looking, PaymentDetails
  <2>9. Decided(p)' /\ Replaces(p)' /\ Charged(p)'
    BY <1>4, <2>3 DEF Decided, Replaces, Charged
  <2>10. p \in Orders => OpensRow(p)'
    BY <1>1, <1>4, <2>3, <2>5 DEF OpensRow, Bought
  <2>11. RequestOf(p)'
    BY <2>8, <2>9, <2>10 DEF RequestOf
  <2> QED BY <1>1, <2>2, <2>4, <2>11, SilentMove
<1> QED BY <1>3, <1>4 DEF Fail

LEMMA RestartIso ==
  ASSUME IInv, IsoInv, OneAtATime, Restart
  PROVE  IsoInv'
<1>1. /\ UNCHANGED <<payments, charges, orders, held, unsaved>>
      /\ pc' = [p \in Processes |-> IF InFlight(p) THEN "failed" ELSE pc[p]]
  BY DEF Restart, tables, providers
<1>2. Actors \subseteq Processes
  BY Kinds DEF Actors
<1>3. \A q \in Actors : pc'[q] = IF InFlight(q) THEN "failed" ELSE pc[q]
  BY <1>1, <1>2
<1> DEFINE M == {q \in Actors : InFlight(q)}
<1>4. (\A q \in Actors \ M : Stays(q)) /\ \A q \in M : q \in Actors /\ pc'[q] = "failed"
  BY <1>1, <1>3 DEF Stays
<1>5. Apart'
  <2>1. \A q \in Actors : InFlight(q)' => InFlight(q)
    BY <1>3, StepNames DEF InFlight
  <2> QED BY <2>1, ApartIfNoneStarts DEF IsoInv
<1> HIDE DEF M
<1>6. \A q \in M : /\ q \in Requests => RequestOf(q)'
                   /\ q \in Approvals => ApprovalOf(q)' /\ (pc[q] \in Answering => pc'[q] \in Answering)
                   /\ q \in Webhooks => WebhookOf(q)'
  BY <1>4, FailedIso
<1>7. UNCHANGED <<payments, charges, orders>>
  BY <1>1
<1> QED BY <1>4, <1>5, <1>6, <1>7, SilentStep

-----------------------------------------------------------------------------
(* The invariant of requests kept apart.                                      *)

LEMMA IsoInvInit == Init => IsoInv
<1> SUFFICES ASSUME Init PROVE IsoInv
  OBVIOUS
<1>1. /\ payments = [r \in Requests |-> NoPayment] /\ charges = {}
      /\ orders = [o \in Orders |-> "none"] /\ pc = [p \in Processes |-> "idle"]
  BY DEF Init
<1>2. Actors \subseteq Processes
  BY Kinds DEF Actors
<1>3. \A q \in Actors : pc[q] = "idle" /\ ~InFlight(q)
  BY <1>1, <1>2, StepNames DEF InFlight
<1>4. Apart
  BY <1>3 DEF Apart, Actors
<1>5. \A r \in Requests : payments[r] = NoPayment /\ Status(r) = "NONE"
  BY <1>1 DEF Status, NoPayment
<1>6. Distinct /\ OneOpen /\ \A r \in Requests : RowOf(r)
  BY <1>5 DEF Distinct, OneOpen, RowOf
<1>7. \A r \in Requests : RequestOf(r)
  BY <1>1, <1>3, <1>5 DEF RequestOf, Unwritten, Decided, Charged, OpensRow, Replaces, Looking,
                          Bought, Actors
<1>8. (\A a \in Approvals : ApprovalOf(a)) /\ \A w \in Webhooks : WebhookOf(w)
  BY <1>3 DEF ApprovalOf, WebhookOf, ApprovalSteps, Actors
<1>9. \A o \in Orders : CaptureOf(o)
  BY <1>1 DEF CaptureOf
<1> QED BY <1>4, <1>6, <1>7, <1>8, <1>9 DEF IsoInv

LEMMA IsoInvNext == OneAtATime /\ IInv /\ IsoInv /\ [Next]_vars => IsoInv'
<1> SUFFICES ASSUME OneAtATime, IInv, IsoInv, [Next]_vars PROVE IsoInv'
  OBVIOUS
<1>1. ASSUME NEW r \in Requests, RequestStep(r) PROVE IsoInv'
  BY <1>1, CheckReferenceIso, AttachInvoiceIso, ShouldPayInvoiceIso, PayIso,
     AttachPaymentIfExistsIso, SavePaymentIso, SetAndDispatchEventsIso, AttachPaymentAgainIso,
     ReplacePaymentIso, DispatchReplacedIso DEF RequestStep
<1>2. ASSUME NEW a \in Approvals, ApprovalStep(a) PROVE IsoInv'
  BY <1>2, CaptureMoneyIso, AttachPaymentIso, SavePaymentChangesIso DEF ApprovalStep
<1>3. ASSUME NEW w \in Webhooks, WebhookStep(w) PROVE IsoInv'
  BY <1>3, UpdatePaymentStatusIso, SavePaymentStatusIso, DispatchEventsIso DEF WebhookStep
<1>4. ASSUME NEW h \in Completions, CompletionStep(h) PROVE IsoInv'
  BY <1>4, CompletionIso
<1>5. ASSUME NEW p \in Processes, Fail(p) PROVE IsoInv'
  BY <1>5, FailIso
<1>6. ASSUME NEW o \in Orders, Settle(o) PROVE IsoInv'
  BY <1>6, SettleIso
<1>7. CASE UNCHANGED vars
  <2>1. UNCHANGED <<payments, charges, orders, pc, held, unsaved>>
    BY <1>7 DEF vars, tables, providers
  <2>2. \A q \in Actors : Stays(q)
    BY <2>1 DEF Stays
  <2>3. Apart'
    BY <2>1, ApartIfNoneStarts DEF IsoInv, InFlight
  <2> DEFINE M == {}
  <2>4. /\ \A q \in Actors \ M : Stays(q)
        /\ \A q \in M : /\ q \in Requests => RequestOf(q)'
                        /\ q \in Approvals => ApprovalOf(q)' /\ (pc[q] \in Answering => pc'[q] \in Answering)
                        /\ q \in Webhooks => WebhookOf(q)'
    BY <2>2
  <2>5. UNCHANGED <<payments, charges, orders>>
    BY <2>1
  <2> HIDE DEF M
  <2> QED BY <2>3, <2>4, <2>5, SilentStep
<1> QED BY <1>1, <1>2, <1>3, <1>4, <1>5, <1>6, <1>7, RestartIso DEF Next

\* When requests are kept apart, it holds in every behaviour.
THEOREM IsoInvariance == Spec => [](OneAtATime => IsoInv)
<1>1. Init => (OneAtATime => IsoInv)
  BY IsoInvInit
<1>2. IInv /\ (OneAtATime => IsoInv) /\ [Next]_vars => (OneAtATime => IsoInv)'
  BY IsoInvNext
<1> QED BY Invariance, <1>1, <1>2, PTL DEF Spec

\* With requests kept apart, two payments never carry the same foreign id.
THEOREM ForeignIdsDistinctCorrect == Spec => []ForeignIdsDistinct
<1>1. (OneAtATime => IsoInv) => ForeignIdsDistinct
  BY DEF IsoInv, Distinct, ForeignIdsDistinct, Id
<1> QED BY IsoInvariance, <1>1, PTL

\* With requests kept apart, a capture for which no payment is found belongs to
\* an order whose id a later order has replaced.
THEOREM LostCaptureWasReplacedCorrect == Spec => []LostCaptureWasReplaced
<1>1. (OneAtATime => IsoInv) => LostCaptureWasReplaced
  BY DEF IsoInv, ApprovalOf, Replaced, LostCaptureWasReplaced
<1> QED BY IsoInvariance, <1>1, PTL

-----------------------------------------------------------------------------
(* A card is charged only while nothing else pays for the invoice.            *)

\* Only makePayment charges cards.
LEMMA OnlyPayCharges ==
  ASSUME [Next]_vars, charges' # charges
  PROVE  \E r \in Requests : Pay(r)
<1>1. ASSUME NEW r \in Requests, RequestStep(r) PROVE Pay(r)
  BY <1>1 DEF RequestStep, CheckReference, AttachInvoice, ShouldPayInvoice, AttachPaymentIfExists,
              SavePayment, SetAndDispatchEvents, AttachPaymentAgain, ReplacePayment,
              DispatchReplaced, providers
<1>2. \A a \in Approvals : ~ApprovalStep(a)
  BY DEF ApprovalStep, CaptureMoney, AttachPayment, SavePaymentChanges, providers
<1>3. \A w \in Webhooks : ~WebhookStep(w)
  BY DEF WebhookStep, UpdatePaymentStatus, SavePaymentStatus, DispatchEvents, providers
<1>4. \A h \in Completions : ~CompletionStep(h)
  BY DEF CompletionStep, OnPaymentCompleted, UpdateInvoice, DispatchInvoiceEvents, providers
<1>5. (\A p \in Processes : ~Fail(p)) /\ ~Restart
  BY DEF Fail, Restart, providers
<1>6. \A o \in Orders : ~Settle(o)
  BY DEF Settle
<1>7. ~UNCHANGED vars
  BY DEF vars, providers
<1> QED BY <1>1, <1>2, <1>3, <1>4, <1>5, <1>6, <1>7 DEF Next

\* A completed payment of the whole sum covers the invoice.
LEMMA TotalCovers ==
  ASSUME IInv, NEW i, NEW r \in Requests, InvoiceOf[r] = i, Status(r) = "COMPLETED",
         r \notin Transfers
  PROVE  ~(PaidTotal(i) < Total)
<1>1. Completed(i) \subseteq Requests /\ r \in Completed(i)
  BY RowTypes DEF Completed, PaymentsOf, Status, NoPayment
<1>2. IsFiniteSet(Completed(i))
  BY <1>1, DisjointAssumption, FS_Subset
<1>3. \A s \in Requests : Amount(s) \in Nat
  BY PaymentAssumption DEF Amount
<1>4. MapThenSumSet(Amount, Completed(i)) \in Nat /\ Amount(r) <= MapThenSumSet(Amount, Completed(i))
  BY <1>1, <1>2, <1>3, SumBounds
<1>5. PaidTotal(i) \in Nat /\ Amount(r) <= PaidTotal(i)
  BY <1>4, SumUnfolds, TotalOf
<1>6. Amount(r) = Total /\ Total \in Nat
  BY PaymentAssumption DEF Amount
<1> QED BY <1>5, <1>6

LEMMA ChargeStep ==
  ASSUME OneAtATime, IInv, IsoInv, [Next]_vars, NEW c \in charges' \ charges, ~Failed(InvoiceOf[c])
  PROVE  /\ \A d \in charges : InvoiceOf[d] # InvoiceOf[c]
         /\ \A o \in Orders : InvoiceOf[o] = InvoiceOf[c] => orders[o] \notin {"captured", "settled"}
         /\ PaidTotal(InvoiceOf[c]) < Total
<1>1. PICK r \in Requests : Pay(r)
  BY OnlyPayCharges
<1>2. c = r /\ c \in Cards /\ pc[c] = "payable"
  BY <1>1 DEF Pay
<1>3. c \in Requests /\ InFlight(c)
  BY <1>1, <1>2, StepNames DEF InFlight, Looking
<1>4. Payable(InvoiceOf[c])
  BY <1>2, <1>3 DEF IsoInv, RequestOf, Decided
<1>5. PaidTotal(InvoiceOf[c]) < Total
  BY <1>4 DEF Payable
<1>6. ASSUME NEW d \in charges, InvoiceOf[d] = InvoiceOf[c] PROVE FALSE
  <2>1. d \in Cards /\ d \in Requests /\ d # c
    BY <1>6, OnlyCardsCharged DEF Requests
  <2>2. ~InFlight(d)
    BY <1>3, <2>1 DEF IsoInv, Apart
  <2>3. pc[d] # "failed"
    BY <1>6, <2>1, Kinds DEF Failed, InvoiceFor
  <2>4. payments[d] # NoPayment
    <3>1. Charged(d)
      BY <2>1 DEF IsoInv, RequestOf
    <3> QED BY <2>2, <2>3, <3>1, StepNames DEF Charged, InFlight, Looking, Bought
  <2>5. Status(d) = "COMPLETED" /\ d \notin Transfers
    <3>1. RowOf(d) /\ d \notin Orders /\ d \notin Transfers
      BY <2>1, DisjointAssumption DEF IsoInv
    <3> QED BY <2>1, <2>4, <3>1, Details DEF RowOf, Status
  <2> QED BY <1>5, <1>6, <2>1, <2>5, TotalCovers
<1>7. ASSUME NEW o \in Orders, InvoiceOf[o] = InvoiceOf[c], orders[o] \in {"captured", "settled"}
      PROVE FALSE
  <2>1. CASE \E s \in Requests : Id(s) = <<"capture", o>>
    <3>1. PICK s \in Requests : Id(s) = <<"capture", o>>
      BY <2>1
    <3>2. /\ s \in Orders /\ InvoiceOf[s] = InvoiceOf[o] /\ Captures(s, o) /\ payments[s] # NoPayment
      BY <3>1, OrderRows DEF IsoInv
    <3>3. Status(s) # "FAILED"
      BY <1>7, <3>2 DEF Captures, Returned
    <3>4. Status(s) # "PENDING"
      BY <1>4, <1>7, <3>2 DEF Payable, PaymentsOf, Status
    <3>5. Status(s) = "COMPLETED" /\ s \notin Transfers
      BY <3>2, <3>3, <3>4, DisjointAssumption DEF Captures
    <3> QED BY <1>5, <1>7, <3>2, <3>5, TotalCovers
  <2>2. CASE \E a \in Approvals : OrderOf[a] = o /\ pc[a] \in ApprovalSteps \cup {"failed", "lost"}
    <3>1. PICK a \in Approvals : OrderOf[a] = o /\ pc[a] \in ApprovalSteps \cup {"failed", "lost"}
      BY <2>2
    <3>2. a \in Processes /\ a \notin Requests /\ a # c
      BY <1>3, Kinds
    <3>3. pc[a] \notin {"failed", "lost"}
      BY <1>7, <3>1, <3>2 DEF Failed, InvoiceFor
    <3>4. InFlight(a)
      BY <3>1, <3>3, StepNames DEF InFlight
    <3> QED BY <1>3, <3>2, <3>4 DEF IsoInv, Apart
  <2>3. CaptureOf(o)
    BY DEF IsoInv
  <2> QED BY <1>7, <2>1, <2>2, <2>3 DEF CaptureOf
<1> QED BY <1>5, <1>6, <1>7

\* With requests kept apart, a card is charged only while no other charge or
\* capture stands for the invoice and the transfers do not cover it, unless an
\* execution has failed, or lost its payment, after the money moved.
THEOREM ChargedOnlyIfUnpaidCorrect == Spec => ChargedOnlyIfUnpaid
<1> DEFINE OK == OneAtATime =>
              \A c \in charges' \ charges :
                LET i == InvoiceOf[c]
                IN  \/ Failed(i)
                    \/ /\ \A d \in charges : InvoiceOf[d] # i
                       /\ \A o \in Orders : InvoiceOf[o] = i =>
                            orders[o] \notin {"captured", "settled"}
                       /\ PaidTotal(i) < Total
<1>1. IInv /\ (OneAtATime => IsoInv) /\ [Next]_vars => OK
  BY ChargeStep
<1>2. ChargedOnlyIfUnpaid <=> [][OK]_vars
  BY DEF ChargedOnlyIfUnpaid
<1> HIDE DEF OK
<1> QED BY Invariance, IsoInvariance, <1>1, <1>2, PTL DEF Spec

=============================================================================
