--------------------- MODULE InvoiceConfirmationProofs ---------------------
(* Proofs about the confirmation of invoices under any number of invoices,  *)
(* executions, failures, restarts and fiscal years.                         *)
EXTENDS InvoiceConfirmation, TLAPS, WellFoundedInduction

P == INSTANCE DomainEventsProofs
       WITH Aggregates <- Objects, Ids <- Invoices,
            IdOf <- [o \in Objects |-> InvoiceOf[o[1]]],
            Handlers <- {}

-----------------------------------------------------------------------------
\* A bounded set of naturals has a largest element.
LEMMA MaxOfBounded ==
  ASSUME NEW S \in SUBSET Nat, S # {}, NEW b \in Nat, \A x \in S : x <= b
  PROVE  Max(S) \in S /\ \A x \in S : x <= Max(S)
<1> DEFINE U == {u \in Nat : \A x \in S : x <= u}
           R == OpToRel(<, Nat)
<1>1. PICK m \in U : \A u \in U : ~(<<u, m>> \in R)
  <2>1. U \subseteq Nat /\ U # {}
    OBVIOUS
  <2>2. IsWellFoundedOn(R, Nat)
    BY NatLessThanWellFounded
  <2> HIDE DEF U, R
  <2> QED BY <2>1, <2>2, WFMin
<1>2. \A u \in U : ~(u < m)
  BY <1>1 DEF OpToRel
<1>3. m \in S
  <2> SUFFICES ASSUME m \notin S PROVE FALSE
    OBVIOUS
  <2>1. PICK x \in S : TRUE
    OBVIOUS
  <2>2. m > 0 /\ m - 1 \in Nat
    BY <2>1
  <2>3. \A y \in S : y <= m - 1
    BY <2>2
  <2> QED BY <1>2, <2>2, <2>3
<1>4. \A x \in S : m >= x
  OBVIOUS
<1>5. Max(S) \in S /\ \A x \in S : Max(S) >= x
  BY <1>3, <1>4 DEF Max
<1> QED BY <1>5

-----------------------------------------------------------------------------
\* What the dispatcher's operations keep, from DomainEventsProofs.
DispatcherOK == D!DispatcherTypeOK /\ D!MarkedUnique

LEMMA DispatcherQuiet ==
  DispatcherOK /\ UNCHANGED dispatcher => DispatcherOK'
BY DEF DispatcherOK, dispatcher, D!DispatcherTypeOK, D!MarkedUnique

LEMMA SameDispatcher ==
  /\ D!DispatcherTypeOK <=> P!DispatcherTypeOK
  /\ D!MarkedUnique <=> P!MarkedUnique
  /\ D!DispatcherTypeOK' <=> P!DispatcherTypeOK'
  /\ D!MarkedUnique' <=> P!MarkedUnique'
BY DEF D!DispatcherTypeOK, P!DispatcherTypeOK, D!MarkedUnique, P!MarkedUnique,
       D!Event, P!Event

LEMMA DispatcherRaises ==
  ASSUME DispatcherOK, NEW o \in Objects, NEW c \in EventClasses,
         D!AddDomainEvent(o, c)
  PROVE  DispatcherOK'
<1>1. P!AddDomainEvent(o, c)
  BY DEF D!AddDomainEvent, P!AddDomainEvent, D!MarkAggregateForDispatch,
         P!MarkAggregateForDispatch, D!PlacesOf, P!PlacesOf
<1> QED BY <1>1, SameDispatcher, P!AddDomainEventKeeps DEF DispatcherOK

LEMMA DispatcherDispatches ==
  ASSUME DispatcherOK, NEW i \in Invoices, D!DispatchEventsForAggregate(i)
  PROVE  DispatcherOK'
<1>1. P!DispatchEventsForAggregate(i)
  BY DEF D!DispatchEventsForAggregate, P!DispatchEventsForAggregate,
         D!FindMarkedAggregateByID, P!FindMarkedAggregateByID,
         D!FirstMarkedAggregate, P!FirstMarkedAggregate,
         D!DispatchAggregateEvents, P!DispatchAggregateEvents,
         D!Dispatch, P!Dispatch, D!PlacesOf, P!PlacesOf,
         D!dispatcherVars, P!dispatcherVars, D!RemoveAt, P!RemoveAt
<1> QED BY <1>1, SameDispatcher, P!DispatchEventsForAggregateKeeps DEF DispatcherOK

LEMMA DispatcherAnnounces ==
  ASSUME DispatcherOK, NEW o \in Objects, NEW c \in EventClasses,
         D!RaiseAndDispatch(o, c)
  PROVE  DispatcherOK'
<1>1. P!RaiseAndDispatch(o, c)
  BY DEF D!RaiseAndDispatch, P!RaiseAndDispatch, D!MarkAggregateForDispatch,
         P!MarkAggregateForDispatch, D!PlacesOf, P!PlacesOf, D!Dispatch, P!Dispatch,
         D!RemoveAt, P!RemoveAt
<1> QED BY <1>1, SameDispatcher, P!RaiseAndDispatchKeeps DEF DispatcherOK

-----------------------------------------------------------------------------
\* The issue date of an object or a row agrees with its status.
Dated(inv) == /\ inv.status \in {"ACTIVE", "FINAL"} => inv.dateIssued # 0
              /\ inv.status = "DRAFT" => inv.dateIssued = 0

\* The mutators return invoices and keep dates and statuses in agreement.
LEMMA WithReferenceKeeps ==
  ASSUME NEW inv \in Invoice
  PROVE  /\ WithReference(inv) \in Invoice
         /\ WithReference(inv).status = inv.status
         /\ WithReference(inv).dateIssued = inv.dateIssued
         /\ WithReference(inv).invoiceNumber = inv.invoiceNumber
<1>1. PersistentReferenceNumber(inv) \in Nat \X Nat
  BY DEF PersistentReferenceNumber, ComputeReferenceNumber, NoReference, Invoice
<1> QED BY <1>1 DEF WithReference, Invoice

LEMMA MutatorsKeep ==
  ASSUME NEW inv \in Invoice, NEW n \in Nat, NEW now \in Nat \ {0}, Dated(inv)
  PROVE  /\ AssignInvoiceNumber(inv, n) \in Invoice
         /\ AssignInvoiceNumber(inv, n).status = inv.status
         /\ Dated(AssignInvoiceNumber(inv, n))
         /\ MarkAsActive(inv, now) \in Invoice /\ Dated(MarkAsActive(inv, now))
         /\ MarkAsPending(inv) \in Invoice /\ Dated(MarkAsPending(inv))
         /\ MarkAsFinal(inv, now) \in Invoice /\ Dated(MarkAsFinal(inv, now))
<1>1. n + 1 \in Nat
  OBVIOUS
<1>2. /\ AssignInvoiceNumber(inv, n) \in Invoice
      /\ AssignInvoiceNumber(inv, n).status = inv.status
      /\ Dated(AssignInvoiceNumber(inv, n))
  BY <1>1 DEF AssignInvoiceNumber, Invoice, Dated
<1>3. MarkAsPending(inv) \in Invoice /\ Dated(MarkAsPending(inv))
  BY DEF MarkAsPending, Invoice, InvoiceStatus, Dated
<1>4. MarkAsActive(inv, now) \in Invoice /\ Dated(MarkAsActive(inv, now))
  <2> DEFINE active == [inv EXCEPT !.status = "ACTIVE", !.dateIssued = now]
  <2>1. active \in Invoice /\ active.status = "ACTIVE" /\ active.dateIssued = now
    BY DEF Invoice, InvoiceStatus
  <2> QED BY <2>1, WithReferenceKeeps DEF MarkAsActive, Dated
<1>5. MarkAsFinal(inv, now) \in Invoice /\ Dated(MarkAsFinal(inv, now))
  <2> DEFINE final == [inv EXCEPT !.status = "FINAL",
                                  !.dateIssued = IF @ = 0 THEN now ELSE @]
  <2>1. final \in Invoice /\ final.status = "FINAL" /\ final.dateIssued # 0
    BY DEF Invoice, InvoiceStatus
  <2> QED BY <2>1, WithReferenceKeeps DEF MarkAsFinal, Dated
<1> QED BY <1>2, <1>3, <1>4, <1>5

LEMMA DraftInvoiceTyped ==
  ASSUME NEW b \in BOOLEAN
  PROVE  DraftInvoice(b) \in Invoice /\ Dated(DraftInvoice(b))
BY DEF DraftInvoice, Invoice, InvoiceStatus, NoReference, Dated

-----------------------------------------------------------------------------
\* What a subscriber looks up exists.
Billable(i) == transactions[i] = "ACTIVE" /\ payers[i] # {}

\* An invoice as a row may hold it, or an object of that row's invoice.
Sound(i, inv) == /\ inv \in Invoice
                 /\ Dated(inv)
                 /\ inv.status # "DRAFT" => Billable(i)

\* The numbers of the rows have a bound, so one of them is the largest.
NumbersBounded == \E b \in Nat : \A i \in Invoices : invoices[i].invoiceNumber <= b

RowsSound == /\ \A i \in Invoices : Sound(i, invoices[i])
             /\ NumbersBounded

ObjectsSound == \A r \in Processes : Sound(InvoiceOf[r], invoice[r])

\* What an execution has ascertained by the step it is at.
AfterCheck == ConfirmSteps \ {"loaded"}
AfterPayer == AfterCheck \ {"checked", "priced"}

StagesSound ==
  \A r \in Processes :
    /\ pc[r] \in AfterCheck => transactions[InvoiceOf[r]] = "ACTIVE"
    /\ pc[r] \in AfterPayer => payers[InvoiceOf[r]] # {}

\* The inductive invariant.
IInv == /\ TablesTypeOK /\ ProcessesTypeOK /\ WorldTypeOK
        /\ DispatcherOK
        /\ RowsSound
        /\ ObjectsSound
        /\ StagesSound

LEMMA IInvInit == Init => IInv
<1> SUFFICES ASSUME Init PROVE IInv
  OBVIOUS
<1>1. /\ \A i \in Invoices : /\ DraftInvoice(i \in AcceptedAtStart) \in Invoice
                             /\ Dated(DraftInvoice(i \in AcceptedAtStart))
                             /\ DraftInvoice(i \in AcceptedAtStart).status = "DRAFT"
                             /\ DraftInvoice(i \in AcceptedAtStart).invoiceNumber = 0
      /\ DraftInvoice(FALSE) \in Invoice
      /\ Dated(DraftInvoice(FALSE))
      /\ DraftInvoice(FALSE).status = "DRAFT"
  BY DEF DraftInvoice, Invoice, InvoiceStatus, NoReference, Dated
<1>2. /\ \A i \in Invoices : invoices[i] = DraftInvoice(i \in AcceptedAtStart)
      /\ \A r \in Processes : invoice[r] = DraftInvoice(FALSE)
  BY Zenon DEF Init
<1>3. TablesTypeOK /\ ProcessesTypeOK /\ WorldTypeOK
  <2>1. TablesTypeOK
    <3>1. invoices \in [Invoices -> Invoice]
      BY <1>1, Zenon DEF Init
    <3>2. transactions \in [Invoices -> {"DRAFT", "ACTIVE"}]
      BY DEF Init
    <3>3. total \in [Invoices -> 0..1] /\ payers \in [Invoices -> SUBSET Processes]
      BY DEF Init
    <3> QED BY <3>1, <3>2, <3>3 DEF TablesTypeOK
  <2>2. ProcessesTypeOK
    <3>1. pc \in [Processes -> Steps]
      BY DEF Init, Steps
    <3>2. invoice \in [Processes -> Invoice]
      BY <1>1 DEF Init
    <3>3. itemsTotal \in [Processes -> 0..1] /\ lastNumber \in [Processes -> Nat]
      BY DEF Init
    <3> QED BY <3>1, <3>2, <3>3 DEF ProcessesTypeOK
  <2>3. WorldTypeOK
    <3>1. year = 1 /\ failures = 0 /\ overlapped \in BOOLEAN
      BY DEF Init
    <3> QED BY <3>1, BoundAssumption DEF WorldTypeOK
  <2> QED BY <2>1, <2>2, <2>3
<1>4. DispatcherOK
  <2>1. D!DispatcherInit
    BY DEF Init
  <2>2. D!DispatcherTypeOK
    BY <2>1 DEF D!DispatcherInit, D!DispatcherTypeOK
  <2>3. D!MarkedUnique
    BY <2>1 DEF D!DispatcherInit, D!MarkedUnique
  <2> QED BY <2>2, <2>3 DEF DispatcherOK
<1>5. RowsSound /\ ObjectsSound
  <2>1. \A i \in Invoices : invoices[i].invoiceNumber = 0
    BY <1>1, <1>2, Zenon
  <2>2. NumbersBounded
    BY <2>1 DEF NumbersBounded
  <2> QED BY <1>1, <1>2, <2>2, Zenon DEF RowsSound, ObjectsSound, Sound
<1>6. StagesSound
  BY DEF Init, StagesSound, AfterCheck, AfterPayer, ConfirmSteps
<1> QED BY <1>3, <1>4, <1>5, <1>6 DEF IInv

-----------------------------------------------------------------------------
\* Storing a sound object keeps the rows sound; keeping one, the objects; and
\* so does the end of an execution.
LEMMA UpdateSound ==
  ASSUME IInv, NEW i \in Invoices, NEW inv, Sound(i, inv), Update(i, inv),
         UNCHANGED <<transactions, payers>>
  PROVE  invoices' \in [Invoices -> Invoice] /\ RowsSound'
<1>1. /\ ToPersistence(inv) \in Invoice
      /\ ToPersistence(inv).status = inv.status
      /\ ToPersistence(inv).dateIssued = inv.dateIssued
      /\ ToPersistence(inv).invoiceNumber = inv.invoiceNumber
      /\ inv.invoiceNumber \in Nat
  BY WithReferenceKeeps DEF ToPersistence, Sound, Invoice
<1>2. Sound(i, ToPersistence(inv))
  BY <1>1 DEF Sound, Dated
<1>3. invoices' = [invoices EXCEPT ![i] = ToPersistence(inv)]
  BY DEF Update
<1>4. invoices \in [Invoices -> Invoice]
  BY DEF IInv, TablesTypeOK
<1>5. \A j \in Invoices : Sound(j, invoices'[j])
  BY <1>2, <1>3, <1>4 DEF IInv, RowsSound
<1>6. NumbersBounded'
  <2>1. PICK b \in Nat : \A j \in Invoices : invoices[j].invoiceNumber <= b
    BY DEF IInv, RowsSound, NumbersBounded
  <2>2. \A j \in Invoices : invoices[j].invoiceNumber \in Nat
    BY <1>4 DEF Invoice
  <2>3. \A j \in Invoices : invoices'[j].invoiceNumber <= b + inv.invoiceNumber
    BY <1>1, <1>3, <1>4, <2>1, <2>2
  <2>4. b + inv.invoiceNumber \in Nat
    BY <1>1
  <2> QED BY <2>3, <2>4 DEF NumbersBounded
<1> QED BY <1>1, <1>3, <1>4, <1>5, <1>6 DEF RowsSound, Sound, Billable

LEMMA KeepSound ==
  ASSUME IInv, NEW r \in Processes, NEW inv, Sound(InvoiceOf[r], inv), Keep(r, inv),
         UNCHANGED <<transactions, payers>>
  PROVE  invoice' \in [Processes -> Invoice] /\ ObjectsSound'
<1>1. invoice' = [invoice EXCEPT ![r] = inv] /\ invoice \in [Processes -> Invoice]
  BY DEF Keep, IInv, ProcessesTypeOK
<1>2. \A q \in Processes : Sound(InvoiceOf[q], invoice'[q])
  BY <1>1 DEF IInv, ObjectsSound
<1> QED BY <1>1, <1>2 DEF ObjectsSound, Sound, Billable

LEMMA FinishSound ==
  ASSUME IInv, NEW r \in Processes, NEW step \in Ended, Finish(r, step),
         UNCHANGED <<transactions, payers>>
  PROVE  ProcessesTypeOK' /\ ObjectsSound' /\ StagesSound'
<1>1. /\ DraftInvoice(FALSE) \in Invoice
      /\ Dated(DraftInvoice(FALSE))
      /\ DraftInvoice(FALSE).status = "DRAFT"
  BY DraftInvoiceTyped DEF DraftInvoice
<1>2. Sound(InvoiceOf[r], DraftInvoice(FALSE))
  BY <1>1 DEF Sound
<1>3. Keep(r, DraftInvoice(FALSE))
  BY DEF Finish, Keep
<1>4. invoice' \in [Processes -> Invoice] /\ ObjectsSound'
  BY <1>2, <1>3, KeepSound
<1>5. ProcessesTypeOK'
  <2>1. pc' \in [Processes -> Steps]
    BY DEF IInv, ProcessesTypeOK, Finish, Goto, Steps
  <2>2. itemsTotal' \in [Processes -> 0..1]
    BY DEF IInv, ProcessesTypeOK, Finish
  <2>3. lastNumber' \in [Processes -> Nat]
    BY DEF IInv, ProcessesTypeOK, Finish
  <2> QED BY <1>4, <2>1, <2>2, <2>3 DEF ProcessesTypeOK
<1>6. StagesSound'
  BY DEF IInv, ProcessesTypeOK, StagesSound, Finish, Goto, Ended, AfterCheck,
         AfterPayer, ConfirmSteps
<1> QED BY <1>4, <1>5, <1>6

\* A step that touches neither rows nor objects keeps both sound.
LEMMA SoundUnchanged ==
  ASSUME IInv, UNCHANGED <<invoices, invoice, transactions, payers>>
  PROVE  RowsSound' /\ ObjectsSound'
BY DEF IInv, RowsSound, NumbersBounded, ObjectsSound, Sound, Billable

-----------------------------------------------------------------------------
\* An execution goes to a step whose requirements are met.
Progressed == \A i \in Invoices : /\ transactions[i] = "ACTIVE" => transactions'[i] = "ACTIVE"
                                  /\ payers[i] # {} => payers'[i] # {}

LEMMA GotoSound ==
  ASSUME IInv, Progressed, NEW r \in Processes, NEW step \in Steps, Goto(r, step),
         step \in AfterCheck => transactions'[InvoiceOf[r]] = "ACTIVE",
         step \in AfterPayer => payers'[InvoiceOf[r]] # {}
  PROVE  pc' \in [Processes -> Steps] /\ StagesSound'
<1>1. pc \in [Processes -> Steps] /\ pc' = [pc EXCEPT ![r] = step]
  BY DEF IInv, ProcessesTypeOK, Goto
<1>2. \A q \in Processes : InvoiceOf[q] \in Invoices
  BY ProcessAssumption
<1>3. \A q \in Processes : q # r => pc'[q] = pc[q]
  BY <1>1
<1>4. pc'[r] = step
  BY <1>1
<1> QED BY <1>1, <1>2, <1>3, <1>4 DEF IInv, StagesSound, Progressed

LEMMA NothingLost == UNCHANGED <<transactions, payers>> => Progressed
BY DEF Progressed

\* What a step from a stage may rely on.
LEMMA StageFacts ==
  ASSUME IInv, NEW r \in Processes
  PROVE  /\ InvoiceOf[r] \in Invoices
         /\ Sound(InvoiceOf[r], invoice[r])
         /\ Sound(InvoiceOf[r], invoices[InvoiceOf[r]])
         /\ pc[r] \in AfterCheck => transactions[InvoiceOf[r]] = "ACTIVE"
         /\ pc[r] \in AfterPayer => payers[InvoiceOf[r]] # {}
<1>1. InvoiceOf[r] \in Invoices
  BY ProcessAssumption
<1> QED BY <1>1 DEF IInv, RowsSound, ObjectsSound, StagesSound

-----------------------------------------------------------------------------
\* The steps of ConfirmInvoice keep the invariant.
LEMMA GetInvoiceDetailsStep ==
  ASSUME IInv, NEW r \in Processes, GetInvoiceDetails(r)
  PROVE  IInv'
<1> USE DEF GetInvoiceDetails
<1>1. UNCHANGED <<tables, itemsTotal, lastNumber, world, dispatcher>>
  OBVIOUS
<1>2. invoice' \in [Processes -> Invoice] /\ ObjectsSound'
  BY StageFacts, KeepSound, <1>1 DEF tables
<1>3. pc' \in [Processes -> Steps] /\ StagesSound'
  <2>1. "loaded" \in Steps /\ "loaded" \notin AfterCheck /\ "loaded" \notin AfterPayer
    BY DEF Steps, ConfirmSteps, AfterCheck, AfterPayer
  <2> QED BY <2>1, GotoSound, NothingLost, <1>1 DEF tables
<1>4. TablesTypeOK' /\ ProcessesTypeOK' /\ WorldTypeOK'
  BY <1>1, <1>2, <1>3 DEF IInv, TablesTypeOK, ProcessesTypeOK, WorldTypeOK, tables, world
<1>5. RowsSound'
  BY <1>1 DEF IInv, RowsSound, NumbersBounded, Sound, Billable, tables
<1>6. DispatcherOK'
  BY <1>1, DispatcherQuiet DEF IInv
<1> QED BY <1>2, <1>3, <1>4, <1>5, <1>6 DEF IInv

\* A step that only moves on, under UNCHANGED of everything but totals.
LEMMA MoveOnStep ==
  ASSUME IInv, NEW r \in Processes, NEW step \in Steps, Goto(r, step),
         UNCHANGED <<invoices, transactions, payers, invoice, dispatcher>>,
         step \in AfterCheck => transactions[InvoiceOf[r]] = "ACTIVE",
         step \in AfterPayer => payers[InvoiceOf[r]] # {},
         total' \in [Invoices -> 0..1], itemsTotal' \in [Processes -> 0..1],
         lastNumber' \in [Processes -> Nat], WorldTypeOK'
  PROVE  IInv'
<1>1. pc' \in [Processes -> Steps] /\ StagesSound'
  BY GotoSound, NothingLost
<1>2. RowsSound' /\ ObjectsSound'
  BY SoundUnchanged
<1>3. TablesTypeOK' /\ ProcessesTypeOK'
  BY <1>1 DEF IInv, TablesTypeOK, ProcessesTypeOK
<1>4. DispatcherOK'
  BY DispatcherQuiet DEF IInv
<1> QED BY <1>1, <1>2, <1>3, <1>4 DEF IInv

\* An execution that ends changes no table, except through a dispatch nothing.
LEMMA FinishStep ==
  ASSUME IInv, NEW r \in Processes, NEW step \in Ended, Finish(r, step),
         UNCHANGED <<tables, world>>, DispatcherOK'
  PROVE  IInv'
<1>1. ProcessesTypeOK' /\ ObjectsSound' /\ StagesSound'
  BY FinishSound DEF tables
<1>2. TablesTypeOK' /\ WorldTypeOK' /\ RowsSound'
  BY DEF IInv, TablesTypeOK, WorldTypeOK, RowsSound, NumbersBounded, Sound, Billable, tables, world
<1> QED BY <1>1, <1>2 DEF IInv

LEMMA ShouldConfirmInvoiceStep ==
  ASSUME IInv, NEW r \in Processes, ShouldConfirmInvoice(r)
  PROVE  IInv'
<1>1. UNCHANGED <<tables, world, dispatcher>>
  BY DEF ShouldConfirmInvoice
<1>2. CASE transactions[InvoiceOf[r]] = "ACTIVE" /\ Goto(r, "checked") /\ UNCHANGED locals
  <2>1. "checked" \in Steps /\ "checked" \notin AfterPayer
    BY DEF Steps, ConfirmSteps, AfterPayer
  <2>2. /\ total' \in [Invoices -> 0..1]
        /\ itemsTotal' \in [Processes -> 0..1]
        /\ lastNumber' \in [Processes -> Nat]
        /\ WorldTypeOK'
    BY <1>1, <1>2 DEF IInv, TablesTypeOK, ProcessesTypeOK, WorldTypeOK, tables, locals, world
  <2> QED BY <1>1, <1>2, <2>1, <2>2, MoveOnStep DEF tables, locals
<1>3. CASE Finish(r, "rejected")
  <2>1. DispatcherOK'
    BY <1>1, DispatcherQuiet DEF IInv
  <2> QED BY <1>1, <1>3, <2>1, FinishStep DEF Ended
<1> QED BY <1>2, <1>3 DEF ShouldConfirmInvoice

LEMMA GetInvoiceItemsStep ==
  ASSUME IInv, NEW r \in Processes, GetInvoiceItems(r)
  PROVE  IInv'
<1>1. /\ UNCHANGED <<tables, invoice, lastNumber, world, dispatcher>>
      /\ itemsTotal' = [itemsTotal EXCEPT ![r] = total[InvoiceOf[r]]]
  BY DEF GetInvoiceItems
<1>2. /\ total' \in [Invoices -> 0..1]
      /\ itemsTotal' \in [Processes -> 0..1]
      /\ lastNumber' \in [Processes -> Nat]
      /\ WorldTypeOK'
  BY <1>1, StageFacts DEF IInv, TablesTypeOK, ProcessesTypeOK, WorldTypeOK, tables, world
<1>3. PICK step \in {"priced", "numbered"} :
        /\ Goto(r, step)
        /\ pc[r] \in AfterCheck
        /\ step \in AfterPayer => pc[r] \in AfterPayer
  BY DEF GetInvoiceItems, ConfirmSteps, AfterCheck, AfterPayer
<1>4. step \in Steps
  BY <1>3 DEF Steps, ConfirmSteps
<1> QED BY <1>1, <1>2, <1>3, <1>4, StageFacts, MoveOnStep DEF tables

LEMMA SavePayerStep ==
  ASSUME IInv, NEW r \in Processes, SavePayer(r)
  PROVE  IInv'
<1> USE DEF SavePayer
<1>1. UNCHANGED <<invoices, transactions, total, locals, world, dispatcher>>
  OBVIOUS
<1>2. /\ payers' \in [Invoices -> SUBSET Processes]
      /\ payers'[InvoiceOf[r]] # {}
      /\ \A i \in Invoices : payers[i] # {} => payers'[i] # {}
  BY StageFacts DEF IInv, TablesTypeOK
<1>3. Progressed
  BY <1>1, <1>2 DEF Progressed
<1>4. pc' \in [Processes -> Steps] /\ StagesSound'
  <2>1. "payer saved" \in Steps /\ pc[r] \in AfterCheck
    BY DEF Steps, ConfirmSteps, AfterCheck
  <2> QED BY <1>1, <1>2, <1>3, <2>1, StageFacts, GotoSound
<1>5. TablesTypeOK' /\ ProcessesTypeOK' /\ WorldTypeOK'
  BY <1>1, <1>2, <1>4 DEF IInv, TablesTypeOK, ProcessesTypeOK, WorldTypeOK, locals, world
<1>6. RowsSound' /\ ObjectsSound'
  BY <1>1, <1>2, StageFacts DEF IInv, RowsSound, NumbersBounded, ObjectsSound, Sound, Billable, locals
<1>7. DispatcherOK'
  BY <1>1, DispatcherQuiet DEF IInv
<1> QED BY <1>4, <1>5, <1>6, <1>7 DEF IInv

LEMMA SkipNumberStep ==
  ASSUME IInv, NEW r \in Processes, SkipNumber(r)
  PROVE  IInv'
<1>1. UNCHANGED <<tables, locals, world, dispatcher>> /\ Goto(r, "numbered")
  BY DEF SkipNumber
<1>2. "numbered" \in Steps /\ pc[r] \in AfterCheck /\ pc[r] \in AfterPayer
  BY DEF SkipNumber, Steps, ConfirmSteps, AfterCheck, AfterPayer
<1>3. /\ total' \in [Invoices -> 0..1]
      /\ itemsTotal' \in [Processes -> 0..1]
      /\ lastNumber' \in [Processes -> Nat]
      /\ WorldTypeOK'
  BY <1>1 DEF IInv, TablesTypeOK, ProcessesTypeOK, WorldTypeOK, tables, locals, world
<1> QED BY <1>1, <1>2, <1>3, StageFacts, MoveOnStep DEF tables, locals

\* The last number read is a natural number.
LEMMA CurrentNumberTyped ==
  ASSUME IInv
  PROVE  CurrentInvoiceNumber \in Nat
<1> DEFINE Issued  == {invoices[i].invoiceNumber :
                         i \in {j \in Invoices : invoices[j].dateIssued = year}}
           Numbers == {0, ReferenceFloor} \cup Issued
<1>1. PICK b \in Nat : \A i \in Invoices : invoices[i].invoiceNumber <= b
  BY DEF IInv, RowsSound, NumbersBounded
<1>2. \A i \in Invoices : invoices[i].invoiceNumber \in Nat
  BY DEF IInv, TablesTypeOK, Invoice
<1>3. Numbers \in SUBSET Nat /\ Numbers # {}
  BY <1>2, BoundAssumption
<1>4. \A x \in Numbers : x <= b + ReferenceFloor
  <2>1. \A x \in Issued : x \in Nat /\ x <= b
    BY <1>1, <1>2
  <2>2. \A x \in Numbers : x \in Issued \/ x = 0 \/ x = ReferenceFloor
    OBVIOUS
  <2> HIDE DEF Numbers, Issued
  <2> QED BY <2>1, <2>2, BoundAssumption
<1>5. b + ReferenceFloor \in Nat
  BY BoundAssumption
<1> HIDE DEF Numbers
<1>6. Max(Numbers) \in Numbers
  BY <1>3, <1>4, <1>5, MaxOfBounded
<1>7. CurrentInvoiceNumber = Max(Numbers)
  BY DEF CurrentInvoiceNumber, Numbers
<1> QED BY <1>3, <1>6, <1>7

LEMMA ReadLastNumberStep ==
  ASSUME IInv, NEW r \in Processes, ReadLastNumber(r)
  PROVE  IInv'
<1>1. /\ UNCHANGED <<tables, invoice, itemsTotal, year, failures, dispatcher>>
      /\ lastNumber' = [lastNumber EXCEPT ![r] = CurrentInvoiceNumber]
      /\ Goto(r, "number read")
  BY DEF ReadLastNumber
<1>2. "number read" \in Steps /\ pc[r] \in AfterCheck /\ pc[r] \in AfterPayer
  BY DEF ReadLastNumber, Steps, ConfirmSteps, AfterCheck, AfterPayer
<1>3. /\ total' \in [Invoices -> 0..1]
      /\ itemsTotal' \in [Processes -> 0..1]
      /\ lastNumber' \in [Processes -> Nat]
  BY <1>1, CurrentNumberTyped DEF IInv, TablesTypeOK, ProcessesTypeOK, tables
<1>4. WorldTypeOK'
  <2>1. overlapped' = (overlapped \/ \E q \in Processes : Numbering(q))
    BY DEF ReadLastNumber
  <2>2. overlapped' \in BOOLEAN
    BY <2>1, Zenon
  <2> QED BY <1>1, <2>2 DEF IInv, WorldTypeOK
<1> QED BY <1>1, <1>2, <1>3, <1>4, StageFacts, MoveOnStep DEF tables

\* A step that stores an object and keeps it, or one of the two.
LEMMA StoreStep ==
  ASSUME IInv, NEW r \in Processes, NEW step \in Steps, Goto(r, step),
         RowsSound', ObjectsSound', DispatcherOK',
         invoices' \in [Invoices -> Invoice], invoice' \in [Processes -> Invoice],
         UNCHANGED <<transactions, total, payers, itemsTotal, lastNumber, world>>,
         step \in AfterCheck => transactions[InvoiceOf[r]] = "ACTIVE",
         step \in AfterPayer => payers[InvoiceOf[r]] # {}
  PROVE  IInv'
<1>1. pc' \in [Processes -> Steps] /\ StagesSound'
  BY GotoSound, NothingLost
<1>2. TablesTypeOK' /\ ProcessesTypeOK' /\ WorldTypeOK'
  BY <1>1 DEF IInv, TablesTypeOK, ProcessesTypeOK, WorldTypeOK, world
<1> QED BY <1>1, <1>2 DEF IInv

LEMMA WriteNumberStep ==
  ASSUME IInv, NEW r \in Processes, WriteNumber(r)
  PROVE  IInv'
<1> DEFINE numbered == AssignInvoiceNumber(invoice[r], lastNumber[r])
<1>1. /\ Keep(r, numbered)
      /\ Update(InvoiceOf[r], numbered)
      /\ Goto(r, "number written")
      /\ UNCHANGED <<transactions, total, payers, itemsTotal, lastNumber, world, dispatcher>>
  BY DEF WriteNumber
<1>2. "number written" \in Steps /\ pc[r] \in AfterCheck /\ pc[r] \in AfterPayer
  BY DEF WriteNumber, Steps, ConfirmSteps, AfterCheck, AfterPayer
<1>3. Sound(InvoiceOf[r], numbered)
  <2>1. Sound(InvoiceOf[r], invoice[r]) /\ lastNumber[r] \in Nat
    BY StageFacts DEF IInv, ProcessesTypeOK
  <2>2. 1 \in Nat \ {0}
    OBVIOUS
  <2> HIDE DEF numbered
  <2>3. /\ numbered \in Invoice
        /\ numbered.status = invoice[r].status
        /\ Dated(numbered)
    BY <2>1, <2>2, MutatorsKeep DEF Sound, numbered
  <2> QED BY <2>1, <2>3 DEF Sound
<1> HIDE DEF numbered
<1>4. /\ invoices' \in [Invoices -> Invoice] /\ RowsSound'
      /\ invoice' \in [Processes -> Invoice] /\ ObjectsSound'
  BY <1>1, <1>3, StageFacts, UpdateSound, KeepSound
<1>5. DispatcherOK'
  BY <1>1, DispatcherQuiet DEF IInv
<1> QED BY <1>1, <1>2, <1>4, <1>5, StageFacts, StoreStep

LEMMA RereadInvoiceStep ==
  ASSUME IInv, NEW r \in Processes, RereadInvoice(r)
  PROVE  IInv'
<1>1. /\ Keep(r, invoices[InvoiceOf[r]])
      /\ Goto(r, "reread")
      /\ UNCHANGED <<tables, itemsTotal, lastNumber, world, dispatcher>>
  BY DEF RereadInvoice
<1>2. "reread" \in Steps /\ pc[r] \in AfterCheck /\ pc[r] \in AfterPayer
  BY DEF RereadInvoice, Steps, ConfirmSteps, AfterCheck, AfterPayer
<1>3. invoice' \in [Processes -> Invoice] /\ ObjectsSound'
  BY <1>1, StageFacts, KeepSound DEF tables
<1>4. invoices' \in [Invoices -> Invoice] /\ RowsSound'
  BY <1>1 DEF IInv, TablesTypeOK, RowsSound, NumbersBounded, Sound, Billable, tables
<1>5. DispatcherOK'
  BY <1>1, DispatcherQuiet DEF IInv
<1> QED BY <1>1, <1>2, <1>3, <1>4, <1>5, StageFacts, StoreStep DEF tables

LEMMA UpdateInvoiceStatusStep ==
  ASSUME IInv, NEW r \in Processes, UpdateInvoiceStatus(r)
  PROVE  IInv'
<1>1. UNCHANGED <<tables, itemsTotal, lastNumber, world>>
  BY DEF UpdateInvoiceStatus
<1>2. pc[r] \in AfterCheck /\ pc[r] \in AfterPayer
  BY DEF UpdateInvoiceStatus, ConfirmSteps, AfterCheck, AfterPayer
<1>3. Billable(InvoiceOf[r])
  BY <1>2, StageFacts DEF Billable
<1>4. invoices' \in [Invoices -> Invoice] /\ RowsSound'
  BY <1>1 DEF IInv, TablesTypeOK, RowsSound, NumbersBounded, Sound, Billable, tables
<1>5. ASSUME NEW inv \in Invoice, Dated(inv), NEW c \in EventClasses, MarkAs(r, inv, c)
      PROVE  IInv'
  <2>1. Keep(r, inv) /\ D!AddDomainEvent(Object(r), c) /\ Goto(r, "marked")
    BY <1>5 DEF MarkAs
  <2>2. "marked" \in Steps
    BY DEF Steps, ConfirmSteps
  <2>3. invoice' \in [Processes -> Invoice] /\ ObjectsSound'
    <3>1. Sound(InvoiceOf[r], inv)
      BY <1>3, <1>5 DEF Sound
    <3> QED BY <1>1, <2>1, <3>1, KeepSound DEF tables
  <2>4. DispatcherOK'
    <3>1. Object(r) \in Objects
      BY DEF Object, Objects
    <3> QED BY <2>1, <3>1, DispatcherRaises DEF IInv
  <2> QED BY <1>1, <1>2, <1>4, <2>1, <2>2, <2>3, <2>4, StageFacts, StoreStep DEF tables
<1>6. /\ MarkAsFinal(invoice[r], year) \in Invoice /\ Dated(MarkAsFinal(invoice[r], year))
      /\ MarkAsPending(invoice[r]) \in Invoice /\ Dated(MarkAsPending(invoice[r]))
      /\ MarkAsActive(invoice[r], year) \in Invoice /\ Dated(MarkAsActive(invoice[r], year))
  <2>1. invoice[r] \in Invoice /\ Dated(invoice[r])
    BY StageFacts DEF Sound
  <2>2. year \in Nat \ {0} /\ 0 \in Nat
    BY BoundAssumption DEF IInv, WorldTypeOK
  <2> QED BY <2>1, <2>2, MutatorsKeep
<1>7. {"InvoiceConfirmed", "InvoiceMovedToPending", "InvoiceFinalized"} \subseteq EventClasses
  BY DEF EventClasses
<1>8. CASE Goto(r, "written") /\ UNCHANGED <<invoice, dispatcher>>
  <2>1. "written" \in Steps
    BY DEF Steps, ConfirmSteps
  <2>2. /\ total' \in [Invoices -> 0..1]
        /\ itemsTotal' \in [Processes -> 0..1]
        /\ lastNumber' \in [Processes -> Nat]
        /\ WorldTypeOK'
    BY <1>1 DEF IInv, TablesTypeOK, ProcessesTypeOK, WorldTypeOK, tables, world
  <2> QED BY <1>1, <1>2, <1>8, <2>1, <2>2, StageFacts, MoveOnStep DEF tables
<1> QED BY <1>5, <1>6, <1>7, <1>8 DEF UpdateInvoiceStatus

LEMMA WriteStatusStep ==
  ASSUME IInv, NEW r \in Processes, WriteStatus(r)
  PROVE  IInv'
<1>1. /\ Update(InvoiceOf[r], invoice[r])
      /\ Goto(r, "written")
      /\ UNCHANGED <<transactions, total, payers, locals, world, dispatcher>>
  BY DEF WriteStatus
<1>2. "written" \in Steps /\ pc[r] \in AfterCheck /\ pc[r] \in AfterPayer
  BY DEF WriteStatus, Steps, ConfirmSteps, AfterCheck, AfterPayer
<1>3. invoices' \in [Invoices -> Invoice] /\ RowsSound'
  BY <1>1, StageFacts, UpdateSound
<1>4. invoice' \in [Processes -> Invoice] /\ ObjectsSound'
  BY <1>1 DEF IInv, ProcessesTypeOK, ObjectsSound, Sound, Billable, locals
<1>5. DispatcherOK'
  BY <1>1, DispatcherQuiet DEF IInv
<1> QED BY <1>1, <1>2, <1>3, <1>4, <1>5, StageFacts, StoreStep DEF locals

LEMMA DispatchEventsStep ==
  ASSUME IInv, NEW r \in Processes, DispatchEvents(r)
  PROVE  IInv'
<1>1. DispatcherOK'
  BY StageFacts, DispatcherDispatches DEF DispatchEvents, IInv
<1>2. Finish(r, "done") /\ UNCHANGED <<tables, world>> /\ "done" \in Ended
  BY DEF DispatchEvents, Ended
<1> QED BY <1>1, <1>2, FinishStep

-----------------------------------------------------------------------------
\* The steps of an acceptance keep the invariant: none of them is at a stage
\* of ConfirmInvoice.
LEMMA AcceptStages ==
  \A step \in AcceptSteps : step \in Steps /\ step \notin AfterCheck /\ step \notin AfterPayer
BY DEF Steps, AcceptSteps, ConfirmSteps, AfterCheck, AfterPayer

LEMMA AcceptMoveStep ==
  ASSUME IInv, NEW r \in Processes, NEW step \in AcceptSteps \cup {"skipped", "failed"},
         Goto(r, step),
         UNCHANGED <<invoices, transactions, payers, invoice, dispatcher>>,
         total' \in [Invoices -> 0..1], itemsTotal' \in [Processes -> 0..1],
         lastNumber' \in [Processes -> Nat], WorldTypeOK'
  PROVE  IInv'
<1>1. step \in Steps /\ step \notin AfterCheck /\ step \notin AfterPayer
  BY AcceptStages DEF Steps, Ended, ConfirmSteps, AfterCheck, AfterPayer
<1> QED BY <1>1, MoveOnStep

\* The types of what a step leaves alone.
LEMMA TypesLeft ==
  ASSUME IInv
  PROVE  /\ UNCHANGED total => total' \in [Invoices -> 0..1]
         /\ UNCHANGED itemsTotal => itemsTotal' \in [Processes -> 0..1]
         /\ UNCHANGED lastNumber => lastNumber' \in [Processes -> Nat]
         /\ UNCHANGED world => WorldTypeOK'
BY DEF IInv, TablesTypeOK, ProcessesTypeOK, WorldTypeOK, world

LEMMA FailureCounted ==
  ASSUME WorldTypeOK, UNCHANGED <<year, overlapped>>,
         failures' = failures \/ (failures' = failures + 1 /\ failures < MaxFailures)
  PROVE  WorldTypeOK'
<1>1. failures' \in 0..MaxFailures
  BY BoundAssumption DEF WorldTypeOK
<1> QED BY <1>1 DEF WorldTypeOK

LEMMA ReceiveAcceptanceStep ==
  ASSUME IInv, NEW r \in Processes, ReceiveAcceptance(r)
  PROVE  IInv'
<1>1. UNCHANGED <<tables, locals, world, dispatcher>>
  BY DEF ReceiveAcceptance
<1>2. PICK step \in AcceptSteps \cup {"skipped", "failed"} : Goto(r, step)
  BY DEF ReceiveAcceptance, AcceptSteps
<1> QED BY <1>1, <1>2, TypesLeft, AcceptMoveStep DEF tables, locals

LEMMA LoadAcceptedStep ==
  ASSUME IInv, NEW r \in Processes, LoadAccepted(r)
  PROVE  IInv'
<1>1. /\ Keep(r, invoices[InvoiceOf[r]])
      /\ Goto(r, "accept loaded")
      /\ UNCHANGED <<tables, itemsTotal, lastNumber, world, dispatcher>>
  BY DEF LoadAccepted
<1>2. "accept loaded" \in AcceptSteps
  BY DEF AcceptSteps
<1>3. invoice' \in [Processes -> Invoice] /\ ObjectsSound'
  BY <1>1, StageFacts, KeepSound DEF tables
<1>4. invoices' \in [Invoices -> Invoice] /\ RowsSound'
  BY <1>1 DEF IInv, TablesTypeOK, RowsSound, NumbersBounded, Sound, Billable, tables
<1>5. DispatcherOK'
  BY <1>1, DispatcherQuiet DEF IInv
<1> QED BY <1>1, <1>2, <1>3, <1>4, <1>5, AcceptStages, StoreStep DEF tables

LEMMA ActivateTransactionStep ==
  ASSUME IInv, NEW r \in Processes, ActivateTransaction(r)
  PROVE  IInv'
<1>1. /\ transactions' = [transactions EXCEPT ![InvoiceOf[r]] = "ACTIVE"]
      /\ Goto(r, "activated")
      /\ UNCHANGED <<invoices, total, payers, locals, world, dispatcher>>
  BY DEF ActivateTransaction
<1>2. transactions \in [Invoices -> {"DRAFT", "ACTIVE"}]
  BY DEF IInv, TablesTypeOK
<1>3. /\ transactions' \in [Invoices -> {"DRAFT", "ACTIVE"}]
      /\ \A i \in Invoices : transactions[i] = "ACTIVE" => transactions'[i] = "ACTIVE"
  BY <1>1, <1>2
<1>4. Progressed
  BY <1>1, <1>3 DEF Progressed
<1>5. pc' \in [Processes -> Steps] /\ StagesSound'
  <2>1. "activated" \in AcceptSteps
    BY DEF AcceptSteps
  <2> QED BY <1>1, <1>4, <2>1, AcceptStages, GotoSound
<1>6. TablesTypeOK' /\ ProcessesTypeOK' /\ WorldTypeOK'
  BY <1>1, <1>3, <1>5 DEF IInv, TablesTypeOK, ProcessesTypeOK, WorldTypeOK, locals, world
<1>7. RowsSound' /\ ObjectsSound'
  <2>1. \A i \in Invoices : Billable(i) => Billable(i)'
    BY <1>1, <1>3 DEF Billable
  <2>2. \A r1 \in Processes : InvoiceOf[r1] \in Invoices
    BY ProcessAssumption
  <2>3. UNCHANGED <<invoices, invoice>>
    BY <1>1 DEF locals
  <2>4. RowsSound'
    BY <2>1, <2>3 DEF IInv, RowsSound, NumbersBounded, Sound
  <2>5. ObjectsSound'
    BY <2>1, <2>2, <2>3 DEF IInv, ObjectsSound, Sound
  <2> QED BY <2>4, <2>5
<1>8. DispatcherOK'
  BY <1>1, DispatcherQuiet DEF IInv
<1> QED BY <1>5, <1>6, <1>7, <1>8 DEF IInv

LEMMA RemoveWaiversStep ==
  ASSUME IInv, NEW r \in Processes, RemoveWaivers(r)
  PROVE  IInv'
<1>1. UNCHANGED <<invoices, transactions, payers, locals, year, overlapped, dispatcher>>
  BY DEF RemoveWaivers
<1>2. PICK step \in AcceptSteps \cup {"skipped", "failed"} : Goto(r, step)
  BY DEF RemoveWaivers, AcceptSteps
<1>3. total' \in [Invoices -> 0..1]
  <2>1. total' = total \/ total' = [total EXCEPT ![InvoiceOf[r]] = 1]
    BY DEF RemoveWaivers
  <2> QED BY <2>1 DEF IInv, TablesTypeOK
<1>4. WorldTypeOK'
  <2>1. failures' = failures \/ (failures' = failures + 1 /\ failures < MaxFailures)
    BY DEF RemoveWaivers
  <2> QED BY <1>1, <2>1, FailureCounted DEF IInv
<1> QED BY <1>1, <1>2, <1>3, <1>4, TypesLeft, AcceptMoveStep DEF locals

LEMMA ApplyWaiversStep ==
  ASSUME IInv, NEW r \in Processes, ApplyWaivers(r)
  PROVE  IInv'
<1>1. /\ UNCHANGED <<invoices, transactions, payers, locals, world, dispatcher>>
      /\ Goto(r, "waivers applied")
  BY DEF ApplyWaivers
<1>2. "waivers applied" \in AcceptSteps
  BY DEF AcceptSteps
<1>3. total' \in [Invoices -> 0..1]
  BY StageFacts DEF ApplyWaivers, IInv, TablesTypeOK
<1> QED BY <1>1, <1>2, <1>3, TypesLeft, AcceptMoveStep DEF locals

LEMMA WriteDateAcceptedStep ==
  ASSUME IInv, NEW r \in Processes, WriteDateAccepted(r)
  PROVE  IInv'
<1> DEFINE dated == [invoice[r] EXCEPT !.accepted = TRUE]
<1>1. /\ Keep(r, dated)
      /\ Update(InvoiceOf[r], dated)
      /\ Goto(r, "date written")
      /\ UNCHANGED <<transactions, total, payers, itemsTotal, lastNumber, world, dispatcher>>
  BY DEF WriteDateAccepted
<1>2. "date written" \in AcceptSteps
  BY DEF AcceptSteps
<1>3. Sound(InvoiceOf[r], dated)
  <2>1. dated \in Invoice /\ dated.status = invoice[r].status
                         /\ dated.dateIssued = invoice[r].dateIssued
    BY StageFacts DEF Sound, Invoice
  <2> HIDE DEF dated
  <2> QED BY <2>1, StageFacts DEF Sound, Dated
<1> HIDE DEF dated
<1>4. /\ invoices' \in [Invoices -> Invoice] /\ RowsSound'
      /\ invoice' \in [Processes -> Invoice] /\ ObjectsSound'
  BY <1>1, <1>3, StageFacts, UpdateSound, KeepSound
<1>5. DispatcherOK'
  BY <1>1, DispatcherQuiet DEF IInv
<1> QED BY <1>1, <1>2, <1>4, <1>5, AcceptStages, StoreStep

LEMMA AnnounceInvoiceStep ==
  ASSUME IInv, NEW r \in Processes, AnnounceInvoice(r)
  PROVE  IInv'
<1>1. /\ D!RaiseAndDispatch(<<r, "acceptance">>, "InvoiceCreated")
      /\ Goto(r, "announced")
      /\ UNCHANGED <<tables, locals, world>>
  BY DEF AnnounceInvoice
<1>2. "announced" \in AcceptSteps
  BY DEF AcceptSteps
<1>3. RowsSound' /\ ObjectsSound'
  BY <1>1, SoundUnchanged DEF tables, locals
<1>4. DispatcherOK'
  <2>1. <<r, "acceptance">> \in Objects /\ "InvoiceCreated" \in EventClasses
    BY DEF Objects, EventClasses
  <2> QED BY <1>1, <2>1, DispatcherAnnounces DEF IInv
<1>5. invoices' \in [Invoices -> Invoice] /\ invoice' \in [Processes -> Invoice]
  BY <1>1 DEF IInv, TablesTypeOK, ProcessesTypeOK, tables, locals
<1> QED BY <1>1, <1>2, <1>3, <1>4, <1>5, AcceptStages, StoreStep DEF tables, locals

LEMMA CheckTotalStep ==
  ASSUME IInv, NEW r \in Processes, CheckTotal(r)
  PROVE  IInv'
<1>1. UNCHANGED <<tables, world, dispatcher>>
  BY DEF CheckTotal
<1>2. CASE Goto(r, "auto confirm") /\ UNCHANGED locals
  <2>1. "auto confirm" \in AcceptSteps
    BY DEF AcceptSteps
  <2> QED BY <1>1, <1>2, <2>1, TypesLeft, AcceptMoveStep DEF tables, locals
<1>3. CASE Finish(r, "done")
  <2>1. DispatcherOK'
    BY <1>1, DispatcherQuiet DEF IInv
  <2> QED BY <1>1, <1>3, <2>1, FinishStep DEF Ended
<1> QED BY <1>2, <1>3 DEF CheckTotal

-----------------------------------------------------------------------------
\* Failures, restarts and the calendar keep the invariant.
LEMMA FailStep ==
  ASSUME IInv, NEW r \in Processes, Fail(r)
  PROVE  IInv'
<1>1. /\ UNCHANGED <<tables, invoice, year, overlapped, dispatcher>>
      /\ Goto(r, "failed")
  BY DEF Fail
<1>2. /\ itemsTotal' \in [Processes -> 0..1]
      /\ lastNumber' \in [Processes -> Nat]
  <2>1. /\ itemsTotal' = [itemsTotal EXCEPT ![r] = 0]
        /\ lastNumber' = [lastNumber EXCEPT ![r] = 0]
    BY DEF Fail
  <2> QED BY <2>1 DEF IInv, ProcessesTypeOK
<1>3. WorldTypeOK'
  <2>1. failures' = failures + 1 /\ failures < MaxFailures
    BY DEF Fail
  <2> QED BY <1>1, <2>1, FailureCounted DEF IInv
<1>4. UNCHANGED <<invoices, transactions, payers, invoice, dispatcher, total>>
  BY <1>1 DEF tables
<1> QED BY <1>1, <1>2, <1>3, <1>4, TypesLeft, AcceptMoveStep

LEMMA RestartStep == IInv /\ Restart => IInv'
<1> SUFFICES ASSUME IInv, Restart PROVE IInv'
  OBVIOUS
<1>1. /\ UNCHANGED <<tables, year, overlapped, handlersMap, raised, dispatched>>
      /\ markedAggregates' = <<>>
      /\ domainEvents' = [o \in Objects |-> <<>>]
      /\ invoice' = [r \in Processes |-> DraftInvoice(FALSE)]
      /\ itemsTotal' = [r \in Processes |-> 0]
      /\ lastNumber' = [r \in Processes |-> 0]
      /\ pc' = [r \in Processes |-> IF InFlight(r) THEN "failed" ELSE pc[r]]
  BY DEF Restart, LocalsReset
<1>2. pc' \in [Processes -> Steps] /\ StagesSound'
  <2>1. pc \in [Processes -> Steps] /\ "failed" \in Steps
    BY DEF IInv, ProcessesTypeOK, Steps, Ended
  <2>2. \A r \in Processes : pc'[r] \notin AfterCheck /\ pc'[r] \notin AfterPayer
    BY <1>1 DEF InFlight, ConfirmSteps, AfterCheck, AfterPayer
  <2> QED BY <1>1, <2>1, <2>2 DEF StagesSound
<1>3. /\ DraftInvoice(FALSE) \in Invoice
      /\ Dated(DraftInvoice(FALSE))
      /\ DraftInvoice(FALSE).status = "DRAFT"
  BY DraftInvoiceTyped DEF DraftInvoice
<1>4. \A r \in Processes : invoice'[r] = DraftInvoice(FALSE)
  BY <1>1, Zenon
<1>5. invoice' \in [Processes -> Invoice]
  BY <1>1, <1>3, Zenon
<1>6. ObjectsSound'
  BY <1>3, <1>4, Zenon DEF ObjectsSound, Sound
<1>7. itemsTotal' \in [Processes -> 0..1] /\ lastNumber' \in [Processes -> Nat]
  <2>1. itemsTotal' = [r \in Processes |-> 0] /\ lastNumber' = [r \in Processes |-> 0]
    BY <1>1
  <2> QED BY <2>1
<1>8. UNCHANGED <<invoices, transactions, total, payers>>
  BY <1>1 DEF tables
<1>9. RowsSound' /\ TablesTypeOK'
  BY <1>8 DEF IInv, TablesTypeOK, RowsSound, NumbersBounded, Sound, Billable
<1>10. WorldTypeOK'
  <2>1. failures' = failures + 1 /\ failures < MaxFailures /\ UNCHANGED <<year, overlapped>>
    BY DEF Restart
  <2> QED BY <2>1, BoundAssumption DEF IInv, WorldTypeOK
<1>11. DispatcherOK'
  <2>1. /\ UNCHANGED <<handlersMap, raised, dispatched>>
        /\ markedAggregates' = <<>>
        /\ domainEvents' = [o \in Objects |-> <<>>]
    BY <1>1
  <2>2. D!DispatcherTypeOK'
    BY <2>1 DEF IInv, DispatcherOK, D!DispatcherTypeOK
  <2>3. D!MarkedUnique'
    BY <2>1 DEF D!MarkedUnique
  <2> QED BY <2>2, <2>3 DEF DispatcherOK
<1> QED BY <1>2, <1>5, <1>6, <1>7, <1>9, <1>10, <1>11 DEF IInv, ProcessesTypeOK

LEMMA NewFiscalYearStep == IInv /\ NewFiscalYear => IInv'
<1> SUFFICES ASSUME IInv, NewFiscalYear PROVE IInv'
  OBVIOUS
<1>1. UNCHANGED <<tables, pc, locals, failures, overlapped, dispatcher>>
  BY DEF NewFiscalYear
<1>2. WorldTypeOK'
  BY <1>1, BoundAssumption DEF NewFiscalYear, IInv, WorldTypeOK
<1>3. TablesTypeOK' /\ ProcessesTypeOK' /\ StagesSound'
  BY <1>1 DEF IInv, TablesTypeOK, ProcessesTypeOK, StagesSound, tables, locals
<1>4. RowsSound' /\ ObjectsSound'
  BY <1>1, SoundUnchanged DEF tables, locals
<1>5. DispatcherOK'
  BY <1>1, DispatcherQuiet DEF IInv
<1> QED BY <1>2, <1>3, <1>4, <1>5 DEF IInv

LEMMA IInvNext == IInv /\ [Next]_vars => IInv'
<1> SUFFICES ASSUME IInv, [Next]_vars PROVE IInv'
  OBVIOUS
<1>1. ASSUME NEW r \in Processes, ConfirmStep(r)
      PROVE  IInv'
  BY <1>1, GetInvoiceDetailsStep, ShouldConfirmInvoiceStep, GetInvoiceItemsStep,
     SavePayerStep, SkipNumberStep, ReadLastNumberStep, WriteNumberStep,
     RereadInvoiceStep, UpdateInvoiceStatusStep, WriteStatusStep, DispatchEventsStep
     DEF ConfirmStep
<1>2. ASSUME NEW r \in Processes, AcceptStep(r)
      PROVE  IInv'
  BY <1>2, ReceiveAcceptanceStep, LoadAcceptedStep, ActivateTransactionStep,
     RemoveWaiversStep, ApplyWaiversStep, WriteDateAcceptedStep, AnnounceInvoiceStep,
     CheckTotalStep DEF AcceptStep
<1>3. ASSUME NEW r \in Processes, Fail(r)
      PROVE  IInv'
  BY <1>3, FailStep
<1>4. CASE UNCHANGED vars
  <2>1. UNCHANGED <<tables, pc, locals, world, dispatcher>>
    BY <1>4 DEF vars
  <2>2. TablesTypeOK' /\ ProcessesTypeOK' /\ WorldTypeOK' /\ StagesSound'
    BY <2>1 DEF IInv, TablesTypeOK, ProcessesTypeOK, WorldTypeOK, StagesSound,
                tables, locals, world
  <2>3. RowsSound' /\ ObjectsSound'
    BY <2>1, SoundUnchanged DEF tables, locals
  <2>4. DispatcherOK'
    BY <2>1, DispatcherQuiet DEF IInv
  <2> QED BY <2>2, <2>3, <2>4 DEF IInv
<1> QED BY <1>1, <1>2, <1>3, <1>4, RestartStep, NewFiscalYearStep DEF Next

\* The invariant holds in every behaviour.
THEOREM Invariance == Spec => []IInv
BY IInvInit, IInvNext, PTL DEF Spec

-----------------------------------------------------------------------------
\* Tables, executions and dispatcher keep their types.
THEOREM TypeCorrect == Spec => []TypeOK
<1>1. IInv => TypeOK
  BY DEF IInv, TypeOK, DispatcherOK
<1> QED BY Invariance, <1>1, PTL

\* A confirmed invoice belongs to an accepted manuscript and has a payer, also
\* when confirmations of one invoice race each other and its acceptance.
THEOREM BillableCorrect == Spec => []ConfirmedIsBillable
<1>1. IInv => ConfirmedIsBillable
  BY DEF IInv, RowsSound, Sound, Billable, ConfirmedIsBillable
<1> QED BY Invariance, <1>1, PTL

\* Status and issue date of a row agree, whichever writes overwrite it.
THEOREM IssueDateCorrect == Spec => []IssueDateMatchesStatus
<1>1. IInv => IssueDateMatchesStatus
  BY DEF IInv, RowsSound, Sound, Dated, IssueDateMatchesStatus
<1> QED BY Invariance, <1>1, PTL

=============================================================================
