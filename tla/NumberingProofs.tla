-------------------------- MODULE NumberingProofs --------------------------
(* ReferencesDistinct and PublishedOnce, for any invoices, executions,       *)
(* failures and fiscal years, when executions on one invoice are kept apart. *)
EXTENDS InvoiceConfirmationProofs, FiniteSetTheorems

-----------------------------------------------------------------------------
(* The inductive invariant, beside IInv.                                     *)

(* With one execution at a time on an invoice, ...                           *)
Apart ==
  \A r, q \in Processes :
    InFlight(r) /\ InFlight(q) /\ InvoiceOf[r] = InvoiceOf[q] => r = q

(* ... the object it holds is the row, until it writes one of the two, ...   *)
Holding == {"loaded", "checked", "priced", "payer saved", "number read", "reread",
            "numbered", "accept loaded", "activated", "waivers removed",
            "waivers applied"}

HeldInv == \A r \in Processes : pc[r] \in Holding => invoice[r] = invoices[InvoiceOf[r]]

(* ... and the row is a draft until the status is written.                   *)
DraftInv ==
  \A r \in Processes :
    pc[r] \in AfterCheck \ {"written"} => invoices[InvoiceOf[r]].status = "DRAFT"

(* A reference is that of the number and the issue date beside it.           *)
Referenced(inv) ==
  inv.reference # NoReference =>
    inv.dateIssued # 0 /\ inv.reference = <<inv.invoiceNumber, inv.dateIssued>>

ReferencedInv ==
  /\ \A i \in Invoices : Referenced(invoices[i])
  /\ \A r \in Processes : Referenced(invoice[r])

(* Nothing is issued in a fiscal year to come.                               *)
YearInv ==
  /\ \A i \in Invoices : invoices[i].dateIssued <= year
  /\ \A r \in Processes : invoice[r].dateIssued <= year

(* An execution is numbering until its invoice is issued, or waits for the   *)
(* sanctions check after all.                                                *)
Issuing(r) ==
  \/ pc[r] \in {"number read", "number written", "reread"}
  \/ pc[r] = "numbered" /\ ~WaitsForCheck(r)
  \/ pc[r] = "marked" /\ invoice[r].dateIssued # 0

NumberedInv ==
  \A r \in Processes :
    Issuing(r) /\ pc[r] \in {"number written", "reread", "numbered"} =>
      invoices[InvoiceOf[r]].invoiceNumber = lastNumber[r] + 1

SoleIssuing == \A r, q \in Processes : Issuing(r) /\ Issuing(q) => r = q

(* No other invoice has the number that is being given.                      *)
Fresh(r, j) ==
  IF pc[r] = "marked"
  THEN invoices[j].dateIssued = invoice[r].dateIssued =>
         invoices[j].invoiceNumber # invoice[r].invoiceNumber
  ELSE invoices[j].dateIssued = year => invoices[j].invoiceNumber <= lastNumber[r]

FreshInv ==
  \A r \in Processes : Issuing(r) =>
    \A j \in Invoices : j # InvoiceOf[r] => Fresh(r, j)

DistinctInv ==
  \A i, j \in Invoices :
    i # j /\ invoices[i].dateIssued # 0 /\ invoices[i].dateIssued = invoices[j].dateIssued
      => invoices[i].invoiceNumber # invoices[j].invoiceNumber

RowInv       == Apart /\ HeldInv /\ DraftInv /\ ReferencedInv /\ YearInv /\ NumberedInv
NumberingInv == ~overlapped => SoleIssuing /\ FreshInv /\ DistinctInv

-----------------------------------------------------------------------------
(* Rows, objects and mutators.                                               *)

LEMMA Facts ==
  ASSUME IInv
  PROVE  /\ \A r \in Processes : /\ InvoiceOf[r] \in Invoices
                                 /\ invoice[r] \in Invoice /\ Dated(invoice[r])
                                 /\ lastNumber[r] \in Nat /\ itemsTotal[r] \in 0..1
         /\ \A i \in Invoices : invoices[i] \in Invoice /\ Dated(invoices[i])
         /\ year \in Nat /\ year >= 1
  BY ProcessAssumption, BoundAssumption
     DEF IInv, ObjectsSound, RowsSound, Sound, ProcessesTypeOK, WorldTypeOK

LEMMA Columns ==
  ASSUME NEW inv \in Invoice
  PROVE  /\ inv.invoiceNumber \in Nat /\ inv.dateIssued \in Nat
         /\ inv.status \in InvoiceStatus
  BY DEF Invoice

LEMMA WithReferenceFields ==
  ASSUME NEW inv \in Invoice, Referenced(inv)
  PROVE  /\ WithReference(inv).status = inv.status
         /\ WithReference(inv).dateIssued = inv.dateIssued
         /\ WithReference(inv).invoiceNumber = inv.invoiceNumber
         /\ Referenced(WithReference(inv))
  <1> DEFINE ref == PersistentReferenceNumber(inv)
  <1>1. ref # NoReference => inv.dateIssued # 0 /\ ref = <<inv.invoiceNumber, inv.dateIssued>>
    BY DEF PersistentReferenceNumber, ComputeReferenceNumber, Referenced
  <1>2. WithReference(inv).reference = ref
    BY DEF WithReference, Invoice
  <1> HIDE DEF ref
  <1> QED
    BY <1>1, <1>2, WithReferenceKeeps DEF Referenced

LEMMA MutatorFields ==
  ASSUME NEW inv \in Invoice, Dated(inv), inv.status = "DRAFT", Referenced(inv),
         NEW n \in Nat, NEW now \in Nat
  PROVE  /\ LET numbered == AssignInvoiceNumber(inv, n)
            IN  /\ numbered \in Invoice /\ Referenced(numbered)
                /\ numbered.status = "DRAFT" /\ numbered.dateIssued = 0
                /\ numbered.invoiceNumber = n + 1
         /\ LET active == MarkAsActive(inv, now)
            IN  Referenced(active) /\ active.dateIssued = now
                                   /\ active.invoiceNumber = inv.invoiceNumber
         /\ LET final == MarkAsFinal(inv, now)
            IN  Referenced(final) /\ final.dateIssued = now
                                  /\ final.invoiceNumber = inv.invoiceNumber
         /\ LET pending == MarkAsPending(inv)
            IN  Referenced(pending) /\ pending.dateIssued = 0
  <1>1. inv.dateIssued = 0 /\ inv.reference = NoReference
    BY DEF Dated, Referenced
  <1>2. n + 1 \in Nat
    OBVIOUS
  <1>3. /\ AssignInvoiceNumber(inv, n) \in Invoice
        /\ AssignInvoiceNumber(inv, n).reference = NoReference
        /\ AssignInvoiceNumber(inv, n).status = "DRAFT"
        /\ AssignInvoiceNumber(inv, n).dateIssued = 0
        /\ AssignInvoiceNumber(inv, n).invoiceNumber = n + 1
    BY <1>1, <1>2 DEF AssignInvoiceNumber, Invoice
  <1>4. ASSUME NEW status \in InvoiceStatus
        PROVE  LET marked == WithReference([inv EXCEPT !.status = status, !.dateIssued = now])
               IN  Referenced(marked) /\ marked.dateIssued = now
                                      /\ marked.invoiceNumber = inv.invoiceNumber
    <2> DEFINE dated == [inv EXCEPT !.status = status, !.dateIssued = now]
    <2>1. /\ dated \in Invoice /\ dated.reference = NoReference
          /\ dated.dateIssued = now /\ dated.invoiceNumber = inv.invoiceNumber
      BY <1>1, <1>4 DEF Invoice
    <2> HIDE DEF dated
    <2>2. Referenced(dated)
      BY <2>1 DEF Referenced
    <2>3. /\ Referenced(WithReference(dated))
          /\ WithReference(dated).dateIssued = now
          /\ WithReference(dated).invoiceNumber = inv.invoiceNumber
      BY <2>1, <2>2, WithReferenceFields
    <2> QED
      BY <2>3 DEF dated
  <1>5. /\ MarkAsPending(inv).reference = NoReference
        /\ MarkAsPending(inv).dateIssued = 0
    BY <1>1 DEF MarkAsPending, Invoice
  <1>6. "ACTIVE" \in InvoiceStatus /\ "FINAL" \in InvoiceStatus
    BY DEF InvoiceStatus
  <1>7. MarkAsFinal(inv, now) = WithReference([inv EXCEPT !.status = "FINAL", !.dateIssued = now])
    BY <1>1 DEF MarkAsFinal
  <1> QED
    BY <1>3, <1>4, <1>5, <1>6, <1>7 DEF MarkAsActive, Referenced

LEMMA LargestNumber ==
  ASSUME IInv
  PROVE  /\ CurrentInvoiceNumber \in Nat
         /\ \A j \in Invoices : invoices[j].dateIssued = year
              => invoices[j].invoiceNumber <= CurrentInvoiceNumber
  <1> DEFINE Issued  == {invoices[i].invoiceNumber :
                           i \in {j \in Invoices : invoices[j].dateIssued = year}}
             Numbers == {0, ReferenceFloor} \cup Issued
  <1>1. PICK b \in Nat : \A i \in Invoices : invoices[i].invoiceNumber <= b
    BY DEF IInv, RowsSound, NumbersBounded
  <1>2. \A i \in Invoices : invoices[i].invoiceNumber \in Nat
    BY Facts, Columns
  <1>3. Numbers \in SUBSET Nat /\ Numbers # {}
    BY <1>2, BoundAssumption
  <1>4. \A x \in Numbers : x <= b + ReferenceFloor
    <2>1. \A x \in Issued : x \in Nat /\ x <= b
      BY <1>1, <1>2
    <2>2. \A x \in Numbers : x \in Issued \/ x = 0 \/ x = ReferenceFloor
      OBVIOUS
    <2> HIDE DEF Numbers, Issued
    <2> QED
      BY <2>1, <2>2, BoundAssumption
  <1>5. b + ReferenceFloor \in Nat
    BY BoundAssumption
  <1>6. \A j \in Invoices : invoices[j].dateIssued = year => invoices[j].invoiceNumber \in Numbers
    OBVIOUS
  <1>7. CurrentInvoiceNumber = Max(Numbers)
    BY DEF CurrentInvoiceNumber
  <1> HIDE DEF Numbers
  <1>8. \A x \in Numbers : x <= Max(Numbers)
    BY <1>3, <1>4, <1>5, MaxOfBounded
  <1> QED
    BY <1>6, <1>7, <1>8, CurrentNumberTyped

-----------------------------------------------------------------------------
(* A step of one execution: the others and the other rows stay.              *)

Act(r) == ConfirmStep(r) \/ AcceptStep(r) \/ Fail(r)

Row(r) == invoices[InvoiceOf[r]]

Framed(r) ==
  /\ year' = year
  /\ overlapped => overlapped'
  /\ \A q \in Processes \ {r} :
       /\ pc'[q] = pc[q] /\ invoice'[q] = invoice[q]
       /\ lastNumber'[q] = lastNumber[q] /\ itemsTotal'[q] = itemsTotal[q]
  /\ \A j \in Invoices : j # InvoiceOf[r] => invoices'[j] = invoices[j]
  /\ InFlight(r) \/ invoices' = invoices
  /\ pc'[r] \in Steps

LEMMA Frame ==
  ASSUME IInv, NEW r \in Processes, Act(r)
  PROVE  Framed(r)
  <1> USE DEF Framed, Goto, Keep, Finish, Update, tables, locals, world
  <1>1. /\ pc \in [Processes -> Steps] /\ invoice \in [Processes -> Invoice]
        /\ itemsTotal \in [Processes -> 0..1] /\ lastNumber \in [Processes -> Nat]
        /\ invoices \in [Invoices -> Invoice] /\ InvoiceOf[r] \in Invoices
    BY Facts DEF IInv, ProcessesTypeOK, TablesTypeOK
  <1>2. /\ ConfirmSteps \cup AcceptSteps \subseteq Steps
        /\ Ended \subseteq Steps
        /\ ConfirmSteps = {"loaded", "checked", "priced", "payer saved", "number read",
                           "number written", "reread", "numbered", "marked", "written"}
        /\ AcceptSteps = {"draft seen", "accept loaded", "activated", "waivers removed",
                          "waivers applied", "date written", "announced", "auto confirm"}
        /\ Ended = {"done", "skipped", "rejected", "failed"}
    BY DEF Steps, ConfirmSteps, AcceptSteps, Ended
  <1>3. CASE GetInvoiceDetails(r)
    BY <1>1, <1>2, <1>3 DEF GetInvoiceDetails
  <1>4. CASE ShouldConfirmInvoice(r)
    BY <1>1, <1>2, <1>4 DEF ShouldConfirmInvoice
  <1>5. CASE GetInvoiceItems(r)
    BY <1>1, <1>2, <1>5 DEF GetInvoiceItems
  <1>6. CASE SavePayer(r)
    BY <1>1, <1>2, <1>6 DEF SavePayer
  <1>7. CASE SkipNumber(r)
    BY <1>1, <1>2, <1>7 DEF SkipNumber
  <1>8. CASE ActivateTransaction(r)
    BY <1>1, <1>2, <1>8 DEF ActivateTransaction
  <1>9. CASE ReadLastNumber(r)
    BY <1>1, <1>2, <1>9 DEF ReadLastNumber
  <1>10. CASE WriteNumber(r)
    BY <1>1, <1>2, <1>10 DEF WriteNumber, InFlight
  <1>11. CASE RereadInvoice(r)
    BY <1>1, <1>2, <1>11 DEF RereadInvoice
  <1>12. CASE UpdateInvoiceStatus(r)
    BY <1>1, <1>2, <1>12 DEF UpdateInvoiceStatus, MarkAs
  <1>13. CASE WriteStatus(r)
    BY <1>1, <1>2, <1>13 DEF WriteStatus, InFlight
  <1>14. CASE DispatchEvents(r)
    BY <1>1, <1>2, <1>14 DEF DispatchEvents
  <1>15. CASE ReceiveAcceptance(r)
    BY <1>1, <1>2, <1>15 DEF ReceiveAcceptance
  <1>16. CASE LoadAccepted(r)
    BY <1>1, <1>2, <1>16 DEF LoadAccepted
  <1>17. CASE RemoveWaivers(r)
    BY <1>1, <1>2, <1>17 DEF RemoveWaivers
  <1>18. CASE ApplyWaivers(r)
    BY <1>1, <1>2, <1>18 DEF ApplyWaivers
  <1>19. CASE WriteDateAccepted(r)
    <2>1. PICK inv : /\ Keep(r, inv)
                     /\ Update(InvoiceOf[r], inv)
      BY <1>19, Zenon DEF WriteDateAccepted
    <2>2. /\ pc[r] = "waivers applied"
          /\ Goto(r, "date written")
          /\ UNCHANGED <<transactions, total, payers, itemsTotal, lastNumber, world,
                         dispatcher>>
      BY <1>19 DEF WriteDateAccepted
    <2> QED
      BY <1>1, <1>2, <2>1, <2>2 DEF InFlight
  <1>20. CASE AnnounceInvoice(r)
    BY <1>1, <1>2, <1>20 DEF AnnounceInvoice
  <1>21. CASE CheckTotal(r)
    BY <1>1, <1>2, <1>21 DEF CheckTotal
  <1>22. CASE Fail(r)
    BY <1>1, <1>2, <1>22 DEF Fail
  <1> QED
    BY <1>3, <1>4, <1>5, <1>6, <1>7, <1>8, <1>9, <1>10, <1>11, <1>12, <1>13, <1>14,
       <1>15, <1>16, <1>17, <1>18, <1>19, <1>20, <1>21, <1>22
       DEF Act, ConfirmStep, AcceptStep

LEMMA InFlightSteps ==
  ASSUME NEW r \in Processes
  PROVE  /\ pc[r] \in AfterCheck => InFlight(r)
         /\ pc[r] \in Holding => InFlight(r)
         /\ Issuing(r) => pc[r] \in AfterCheck \ {"written"} /\ InFlight(r)
  BY DEF InFlight, AfterCheck, Holding, Issuing, ConfirmSteps, AcceptSteps

(* An execution that is apart from r in flight sees nothing of r's step.     *)
LEMMA Bystanders ==
  ASSUME IInv, Apart, NEW r \in Processes, Act(r), NEW q \in Processes, q # r
  PROVE  /\ pc'[q] = pc[q] /\ invoice'[q] = invoice[q]
         /\ lastNumber'[q] = lastNumber[q] /\ itemsTotal'[q] = itemsTotal[q]
         /\ InFlight(q)' = InFlight(q)
         /\ WaitsForCheck(q)' = WaitsForCheck(q)
         /\ Issuing(q)' = Issuing(q)
         /\ InFlight(q) => Row(q)' = Row(q)
  <1>1. /\ pc'[q] = pc[q] /\ invoice'[q] = invoice[q]
        /\ lastNumber'[q] = lastNumber[q] /\ itemsTotal'[q] = itemsTotal[q]
    BY Frame DEF Framed
  <1>2. InFlight(q)' = InFlight(q) /\ WaitsForCheck(q)' = WaitsForCheck(q)
    BY <1>1 DEF InFlight, WaitsForCheck
  <1>3. Issuing(q)' = Issuing(q)
    BY <1>1, <1>2 DEF Issuing
  <1>4. InFlight(q) => Row(q)' = Row(q)
    <2>1. CASE InFlight(r)
      BY <2>1, Frame, Facts DEF Framed, Row, Apart
    <2>2. CASE invoices' = invoices
      BY <2>2 DEF Row
    <2> QED
      BY <2>1, <2>2, Frame DEF Framed
  <1> QED
    BY <1>1, <1>2, <1>3, <1>4

LEMMA ApartStep ==
  ASSUME OneAtATime, IInv, Apart, NEW r \in Processes, Act(r)
  PROVE  Apart'
  <1>1. InFlight(r) \/ \A q \in Processes \ {r} : InvoiceOf[q] = InvoiceOf[r] => ~InFlight(q)
    <2>1. CASE InFlight(r)
      BY <2>1
    <2>2. CASE GetInvoiceDetails(r) \/ ReceiveAcceptance(r)
      BY <2>2 DEF GetInvoiceDetails, ReceiveAcceptance, MayStart, InFlight, AcceptSteps
    <2>3. CASE Act(r) /\ ~GetInvoiceDetails(r) /\ ~ReceiveAcceptance(r)
      BY <2>3 DEF Act, ConfirmStep, AcceptStep, InFlight, ConfirmSteps, AcceptSteps,
         ShouldConfirmInvoice, GetInvoiceItems, SavePayer, SkipNumber, ReadLastNumber,
         WriteNumber, RereadInvoice, UpdateInvoiceStatus, WriteStatus, DispatchEvents,
         LoadAccepted, ActivateTransaction, RemoveWaivers, ApplyWaivers,
         WriteDateAccepted, AnnounceInvoice, CheckTotal, Fail
    <2> QED
      BY <2>1, <2>2, <2>3
  <1>2. \A q \in Processes \ {r} : InFlight(q)' = InFlight(q)
    BY Bystanders
  <1> QED
    BY <1>1, <1>2 DEF Apart

-----------------------------------------------------------------------------
(* What the invariants say of one execution, its row and its object.         *)

InOrder(inv) == Referenced(inv) /\ inv.dateIssued <= year

Own(r) ==
  /\ pc[r] \in Holding => invoice[r] = Row(r)
  /\ pc[r] \in AfterCheck \ {"written"} => Row(r).status = "DRAFT"
  /\ Issuing(r) /\ pc[r] \in {"number written", "reread", "numbered"} =>
       Row(r).invoiceNumber = lastNumber[r] + 1
  /\ InOrder(Row(r))
  /\ InOrder(invoice[r])

LEMMA OwnOf ==
  ASSUME IInv, RowInv, NEW r \in Processes
  PROVE  Own(r)
  BY Facts DEF RowInv, HeldInv, DraftInv, NumberedInv, ReferencedInv, YearInv, Own,
               Row, InOrder

LEMMA PersistedInOrder ==
  ASSUME NEW inv \in Invoice, InOrder(inv)
  PROVE  /\ InOrder(ToPersistence(inv))
         /\ ToPersistence(inv).status = inv.status
         /\ ToPersistence(inv).invoiceNumber = inv.invoiceNumber
         /\ ToPersistence(inv).dateIssued = inv.dateIssued
  BY WithReferenceFields DEF InOrder, ToPersistence

(* Steps that leave rows and objects alone.                                  *)
LEMMA OwnQuiet ==
  ASSUME IInv, RowInv, NEW r \in Processes, UNCHANGED <<invoices, locals, year>>,
         pc'[r] \in Holding => pc[r] \in Holding,
         pc'[r] \in AfterCheck \ {"written"} => Row(r).status = "DRAFT",
         Issuing(r)' => Issuing(r) \/ pc'[r] = "number read",
         pc'[r] \in {"number written", "reread", "numbered"} =>
           pc[r] \in {"number written", "reread", "numbered"} \/ ~Issuing(r)'
  PROVE  Own(r)'
  BY OwnOf DEF Own, Row, InOrder, locals, Referenced

(* Steps after which an execution has no more obligations than an object.    *)
LEMMA OwnLoose ==
  ASSUME NEW r \in Processes, year' = year,
         InOrder(Row(r)'), InOrder(invoice'[r]),
         pc'[r] \notin Holding, pc'[r] \notin AfterCheck \ {"written"}
  PROVE  Own(r)'
  BY DEF Own, InOrder, Referenced, Row, Issuing, AfterCheck, ConfirmSteps

LEMMA StepSets ==
  /\ Holding = {"loaded", "checked", "priced", "payer saved", "number read", "reread",
                "numbered", "accept loaded", "activated", "waivers removed",
                "waivers applied"}
  /\ AfterCheck \ {"written"} = {"checked", "priced", "payer saved", "number read",
                                 "number written", "reread", "numbered", "marked"}
  BY DEF Holding, AfterCheck, ConfirmSteps

LEMMA FinishOwn ==
  ASSUME IInv, RowInv, NEW r \in Processes, NEW step \in Ended, Finish(r, step),
         UNCHANGED <<invoices, year>>
  PROVE  Own(r)'
  <1>1. InOrder(DraftInvoice(FALSE))
    BY Facts DEF InOrder, Referenced, DraftInvoice
  <1>2. /\ invoice'[r] = DraftInvoice(FALSE)
        /\ pc'[r] = step
    BY DEF Finish, Goto, IInv, ProcessesTypeOK
  <1>3. InOrder(Row(r)')
    BY OwnOf DEF Own, Row
  <1>4. step \notin Holding /\ step \notin AfterCheck \ {"written"}
    BY StepSets DEF Ended
  <1> QED
    BY <1>1, <1>2, <1>3, <1>4, OwnLoose

LEMMA PcAfter ==
  ASSUME IInv, NEW r \in Processes, NEW step, Goto(r, step)
  PROVE  pc'[r] = step
  BY DEF IInv, ProcessesTypeOK, Goto

LEMMA QuietSteps ==
  ASSUME IInv, RowInv, NEW r \in Processes,
         \/ SavePayer(r) \/ SkipNumber(r) \/ ReceiveAcceptance(r)
         \/ ActivateTransaction(r) \/ RemoveWaivers(r) \/ ApplyWaivers(r)
         \/ AnnounceInvoice(r)
  PROVE  Own(r)'
  <1>1. UNCHANGED <<invoices, locals, year>>
    BY DEF SavePayer, SkipNumber, ReceiveAcceptance, ActivateTransaction, RemoveWaivers,
           ApplyWaivers, AnnounceInvoice, tables, world
  <1>2. WaitsForCheck(r)' = WaitsForCheck(r)
    BY <1>1 DEF WaitsForCheck, locals
  <1>3. CASE SavePayer(r)
    <2>1. pc[r] = "priced" /\ pc'[r] = "payer saved"
      BY <1>3, PcAfter DEF SavePayer
    <2> QED
      BY <1>1, <2>1, OwnQuiet, OwnOf, StepSets DEF Issuing, Own
  <1>4. CASE SkipNumber(r)
    <2>1. pc[r] = "payer saved" /\ pc'[r] = "numbered" /\ WaitsForCheck(r)
      BY <1>4, PcAfter DEF SkipNumber
    <2>2. ~Issuing(r)'
      BY <1>2, <2>1 DEF Issuing
    <2> QED
      BY <1>1, <2>1, <2>2, OwnQuiet, OwnOf, StepSets DEF Own
  <1>5. CASE ReceiveAcceptance(r)
    <2>1. pc'[r] \in {"draft seen", "skipped"}
      BY <1>5, PcAfter DEF ReceiveAcceptance
    <2> QED
      BY <1>1, <2>1, OwnQuiet, StepSets DEF Issuing
  <1>6. CASE ActivateTransaction(r)
    <2>1. pc[r] = "accept loaded" /\ pc'[r] = "activated"
      BY <1>6, PcAfter DEF ActivateTransaction
    <2> QED
      BY <1>1, <2>1, OwnQuiet, StepSets DEF Issuing
  <1>7. CASE RemoveWaivers(r)
    <2>1. pc[r] = "activated" /\ pc'[r] \in {"waivers removed", "waivers applied"}
      BY <1>7, PcAfter DEF RemoveWaivers
    <2> QED
      BY <1>1, <2>1, OwnQuiet, StepSets DEF Issuing
  <1>8. CASE ApplyWaivers(r)
    <2>1. pc[r] = "waivers removed" /\ pc'[r] = "waivers applied"
      BY <1>8, PcAfter DEF ApplyWaivers
    <2> QED
      BY <1>1, <2>1, OwnQuiet, StepSets DEF Issuing
  <1>9. CASE AnnounceInvoice(r)
    <2>1. pc'[r] = "announced"
      BY <1>9, PcAfter DEF AnnounceInvoice
    <2> QED
      BY <1>1, <2>1, OwnQuiet, StepSets DEF Issuing
  <1> QED
    BY <1>3, <1>4, <1>5, <1>6, <1>7, <1>8, <1>9

(* An execution loads the row of its invoice.                                *)
LEMMA LoadingSteps ==
  ASSUME IInv, RowInv, NEW r \in Processes,
         GetInvoiceDetails(r) \/ RereadInvoice(r) \/ LoadAccepted(r)
  PROVE  Own(r)'
  <1>1. /\ Keep(r, Row(r))
        /\ UNCHANGED <<invoices, itemsTotal, lastNumber, year>>
    BY DEF GetInvoiceDetails, RereadInvoice, LoadAccepted, tables, world, Row
  <1>2. invoice'[r] = Row(r) /\ Row(r)' = Row(r)
    BY <1>1 DEF Keep, IInv, ProcessesTypeOK, Row
  <1>3. InOrder(Row(r))' /\ InOrder(invoice[r])'
    BY <1>1, <1>2, OwnOf DEF Own, InOrder, Referenced
  <1>4. CASE pc'[r] \in {"loaded", "accept loaded"}
    BY <1>2, <1>3, <1>4, StepSets DEF Own, Issuing
  <1>5. CASE RereadInvoice(r)
    <2>1. pc[r] = "number written" /\ pc'[r] = "reread"
      BY <1>5, PcAfter DEF RereadInvoice
    <2>2. Row(r).status = "DRAFT" /\ Row(r).invoiceNumber = lastNumber[r] + 1
      BY <2>1, OwnOf, StepSets DEF Own, Issuing
    <2> QED
      BY <1>1, <1>2, <1>3, <2>1, <2>2 DEF Own
  <1> QED
    BY <1>4, <1>5, PcAfter DEF GetInvoiceDetails, LoadAccepted

LEMMA ShouldConfirmInvoiceOwn ==
  ASSUME IInv, RowInv, NEW r \in Processes, ShouldConfirmInvoice(r)
  PROVE  Own(r)'
  <1>1. CASE Finish(r, "rejected")
    BY <1>1, FinishOwn DEF ShouldConfirmInvoice, tables, world, Ended
  <1>2. CASE invoice[r].status = "DRAFT" /\ Goto(r, "checked") /\ UNCHANGED locals
    <2>1. /\ pc[r] = "loaded" /\ pc'[r] = "checked"
          /\ UNCHANGED <<invoices, locals, year>>
      BY <1>2, PcAfter DEF ShouldConfirmInvoice, tables, world
    <2>2. Row(r).status = "DRAFT"
      BY <1>2, <2>1, OwnOf, StepSets DEF Own
    <2> QED
      BY <2>1, <2>2, OwnQuiet, StepSets DEF Issuing
  <1> QED
    BY <1>1, <1>2 DEF ShouldConfirmInvoice

LEMMA CheckTotalOwn ==
  ASSUME IInv, RowInv, NEW r \in Processes, CheckTotal(r)
  PROVE  Own(r)'
  <1>1. CASE Finish(r, "done")
    BY <1>1, FinishOwn DEF CheckTotal, tables, world, Ended
  <1>2. CASE Goto(r, "auto confirm") /\ UNCHANGED locals
    <2>1. pc'[r] = "auto confirm" /\ UNCHANGED <<invoices, locals, year>>
      BY <1>2, PcAfter DEF CheckTotal, tables, world
    <2> QED
      BY <2>1, OwnQuiet, StepSets DEF Issuing
  <1> QED
    BY <1>1, <1>2 DEF CheckTotal

LEMMA DispatchEventsOwn ==
  ASSUME IInv, RowInv, NEW r \in Processes, DispatchEvents(r)
  PROVE  Own(r)'
  BY FinishOwn DEF DispatchEvents, tables, world, Ended

LEMMA GetInvoiceItemsOwn ==
  ASSUME IInv, RowInv, NEW r \in Processes, GetInvoiceItems(r)
  PROVE  Own(r)'
  <1>1. UNCHANGED <<invoices, invoice, lastNumber, year>>
    BY DEF GetInvoiceItems, tables, world
  <1>2. InOrder(Row(r))' /\ InOrder(invoice[r])' /\ Row(r)' = Row(r)
    BY <1>1, OwnOf DEF Own, InOrder, Referenced, Row
  <1>3. CASE pc[r] = "checked" /\ pc'[r] = "priced"
    BY <1>1, <1>2, <1>3, OwnOf, StepSets DEF Own
  <1>4. CASE pc[r] = "reread" /\ pc'[r] = "numbered"
    BY <1>1, <1>2, <1>4, OwnOf, StepSets DEF Own, Issuing
  <1> QED
    BY <1>3, <1>4, PcAfter DEF GetInvoiceItems

LEMMA ReadLastNumberOwn ==
  ASSUME IInv, RowInv, NEW r \in Processes, ReadLastNumber(r)
  PROVE  Own(r)'
  <1>1. /\ pc[r] = "payer saved" /\ pc'[r] = "number read"
        /\ UNCHANGED <<invoices, invoice, year>>
    BY PcAfter DEF ReadLastNumber, tables
  <1>2. InOrder(Row(r))' /\ InOrder(invoice[r])' /\ Row(r)' = Row(r)
    BY <1>1, OwnOf DEF Own, InOrder, Referenced, Row
  <1> QED
    BY <1>1, <1>2, OwnOf, StepSets DEF Own

(* What the steps that change an object or a row make of them.               *)
LEMMA NumberWritten ==
  ASSUME IInv, RowInv, NEW r \in Processes, WriteNumber(r)
  PROVE  /\ pc[r] = "number read" /\ pc'[r] = "number written"
         /\ year' = year /\ lastNumber' = lastNumber
         /\ InOrder(Row(r)') /\ InOrder(invoice'[r])
         /\ Row(r)'.status = "DRAFT" /\ Row(r)'.dateIssued = 0
         /\ Row(r)'.invoiceNumber = lastNumber[r] + 1
  <1> DEFINE numbered == AssignInvoiceNumber(invoice[r], lastNumber[r])
  <1>1. pc[r] = "number read" /\ pc'[r] = "number written"
    BY PcAfter DEF WriteNumber
  <1>2. invoice[r].status = "DRAFT"
    BY <1>1, OwnOf, StepSets DEF Own
  <1>3. /\ numbered \in Invoice /\ Referenced(numbered)
        /\ numbered.status = "DRAFT" /\ numbered.dateIssued = 0
        /\ numbered.invoiceNumber = lastNumber[r] + 1
    BY <1>2, Facts, OwnOf, MutatorFields DEF Own, InOrder
  <1>4. Keep(r, numbered) /\ Update(InvoiceOf[r], numbered)
    BY DEF WriteNumber
  <1>5. year' = year /\ lastNumber' = lastNumber
    BY DEF WriteNumber, world
  <1> HIDE DEF numbered
  <1>6. invoice'[r] = numbered /\ Row(r)' = ToPersistence(numbered)
    BY <1>4, Facts DEF Keep, Update, IInv, ProcessesTypeOK, TablesTypeOK, Row
  <1>7. InOrder(numbered)
    BY <1>3, Facts DEF InOrder
  <1> QED
    BY <1>1, <1>3, <1>5, <1>6, <1>7, PersistedInOrder

LEMMA StatusMarked ==
  ASSUME IInv, RowInv, NEW r \in Processes, UpdateInvoiceStatus(r)
  PROVE  /\ pc[r] = "numbered" /\ pc'[r] = "marked"
         /\ UNCHANGED <<invoices, year>>
         /\ InOrder(invoice'[r])
         /\ IF WaitsForCheck(r)
            THEN invoice'[r].dateIssued = 0
            ELSE /\ invoice'[r].dateIssued = year
                 /\ invoice'[r].invoiceNumber = invoice[r].invoiceNumber
  <1>1. pc[r] = "numbered" /\ UNCHANGED <<invoices, year>>
    BY DEF UpdateInvoiceStatus, tables, world
  <1>2. invoice[r].status = "DRAFT"
    BY <1>1, OwnOf, StepSets DEF Own
  <1>3. Referenced(invoice[r])
    BY OwnOf DEF Own, InOrder
  <1> DEFINE final   == MarkAsFinal(invoice[r], year)
             active  == MarkAsActive(invoice[r], year)
             pending == MarkAsPending(invoice[r])
  <1>4. /\ Referenced(active) /\ active.dateIssued = year
        /\ active.invoiceNumber = invoice[r].invoiceNumber
        /\ Referenced(final) /\ final.dateIssued = year
        /\ final.invoiceNumber = invoice[r].invoiceNumber
        /\ Referenced(pending) /\ pending.dateIssued = 0
    BY <1>2, <1>3, Facts, MutatorFields
  <1> HIDE DEF final, active, pending
  <1>5. InOrder(final) /\ InOrder(active) /\ InOrder(pending)
    BY <1>4, Facts DEF InOrder
  <1>6. ASSUME NEW inv, Keep(r, inv)
        PROVE  invoice'[r] = inv
    BY <1>6 DEF Keep, IInv, ProcessesTypeOK
  <1>7. CASE itemsTotal[r] = 0 /\ Keep(r, final) /\ Goto(r, "marked")
    <2>1. ~WaitsForCheck(r)
      BY <1>7 DEF WaitsForCheck
    <2> QED
      BY <1>1, <1>4, <1>5, <1>6, <1>7, <2>1, PcAfter
  <1>8. CASE /\ itemsTotal[r] > 0 /\ r \in Sanctioned
             /\ Keep(r, pending) /\ Goto(r, "marked")
    <2>1. WaitsForCheck(r)
      BY <1>8 DEF WaitsForCheck
    <2> QED
      BY <1>1, <1>4, <1>5, <1>6, <1>8, <2>1, PcAfter
  <1>9. CASE r \notin Sanctioned /\ Keep(r, active) /\ Goto(r, "marked")
    <2>1. ~WaitsForCheck(r)
      BY <1>9 DEF WaitsForCheck
    <2> QED
      BY <1>1, <1>4, <1>5, <1>6, <1>9, <2>1, PcAfter
  <1> QED
    BY <1>2, <1>7, <1>8, <1>9 DEF UpdateInvoiceStatus, MarkAs, final, active, pending

LEMMA StatusWritten ==
  ASSUME IInv, RowInv, NEW r \in Processes, WriteStatus(r)
  PROVE  /\ pc[r] = "marked" /\ pc'[r] = "written"
         /\ UNCHANGED <<invoice, year>>
         /\ InOrder(Row(r)') /\ InOrder(invoice'[r])
         /\ Row(r)'.dateIssued = invoice[r].dateIssued
         /\ Row(r)'.invoiceNumber = invoice[r].invoiceNumber
  <1>1. /\ pc[r] = "marked" /\ pc'[r] = "written"
        /\ UNCHANGED <<invoice, year>> /\ Update(InvoiceOf[r], invoice[r])
    BY PcAfter DEF WriteStatus, locals, world
  <1>2. Row(r)' = ToPersistence(invoice[r])
    BY <1>1, Facts DEF Update, IInv, TablesTypeOK, Row
  <1>3. InOrder(invoice[r])
    BY OwnOf DEF Own
  <1> QED
    BY <1>1, <1>2, <1>3, Facts, PersistedInOrder

LEMMA DateWritten ==
  ASSUME IInv, RowInv, NEW r \in Processes, WriteDateAccepted(r)
  PROVE  /\ pc[r] = "waivers applied" /\ pc'[r] = "date written" /\ year' = year
         /\ InOrder(Row(r)') /\ InOrder(invoice'[r])
         /\ Row(r)'.dateIssued = Row(r).dateIssued
         /\ Row(r)'.invoiceNumber = Row(r).invoiceNumber
  <1> DEFINE dated == [invoice[r] EXCEPT !.accepted = TRUE]
  <1>1. /\ pc[r] = "waivers applied" /\ pc'[r] = "date written" /\ year' = year
        /\ Keep(r, dated) /\ Update(InvoiceOf[r], dated)
    BY PcAfter DEF WriteDateAccepted, world
  <1>2. InOrder(invoice[r]) /\ invoice[r] = Row(r)
    BY <1>1, OwnOf, StepSets DEF Own
  <1>3. /\ dated \in Invoice /\ dated.dateIssued = invoice[r].dateIssued
        /\ dated.invoiceNumber = invoice[r].invoiceNumber
        /\ dated.reference = invoice[r].reference
    BY Facts DEF Invoice
  <1> HIDE DEF dated
  <1>4. InOrder(dated)
    BY <1>2, <1>3 DEF InOrder, Referenced
  <1>5. invoice'[r] = dated /\ Row(r)' = ToPersistence(dated)
    BY <1>1, Facts DEF Keep, Update, IInv, ProcessesTypeOK, TablesTypeOK, Row
  <1> QED
    BY <1>1, <1>2, <1>3, <1>4, <1>5, PersistedInOrder

LEMMA OwnStep ==
  ASSUME IInv, RowInv, NEW r \in Processes, Act(r)
  PROVE  Own(r)'
  <1>1. CASE WriteNumber(r)
    <2>1. InOrder(Row(r))' /\ InOrder(invoice[r])'
      BY <1>1, NumberWritten DEF InOrder, Referenced
    <2> QED
      BY <1>1, <2>1, NumberWritten, StepSets DEF Own
  <1>2. CASE UpdateInvoiceStatus(r)
    <2>1. /\ pc[r] = "numbered" /\ pc'[r] = "marked" /\ Row(r)' = Row(r)
          /\ InOrder(Row(r))' /\ InOrder(invoice[r])'
      BY <1>2, StatusMarked, OwnOf DEF Own, InOrder, Referenced, Row
    <2> QED
      BY <2>1, OwnOf, StepSets DEF Own
  <1>3. CASE WriteStatus(r)
    BY <1>3, StatusWritten, OwnLoose, StepSets
  <1>4. CASE WriteDateAccepted(r)
    BY <1>4, DateWritten, OwnLoose, StepSets
  <1>5. CASE Fail(r)
    <2>1. pc'[r] = "failed" /\ UNCHANGED <<invoices, invoice, year>>
      BY <1>5, PcAfter DEF Fail, tables
    <2>2. InOrder(Row(r)') /\ InOrder(invoice'[r])
      BY <2>1, OwnOf DEF Own, Row
    <2> QED
      BY <2>1, <2>2, OwnLoose, StepSets
  <1> QED
    BY <1>1, <1>2, <1>3, <1>4, <1>5, QuietSteps, LoadingSteps, ShouldConfirmInvoiceOwn,
       CheckTotalOwn, DispatchEventsOwn, GetInvoiceItemsOwn, ReadLastNumberOwn
       DEF Act, ConfirmStep, AcceptStep

(* What a step of r makes of the number and the date of its row.             *)
LEMMA RowWrite ==
  ASSUME IInv, RowInv, NEW r \in Processes, Act(r)
  PROVE  \/ /\ Row(r)'.dateIssued = Row(r).dateIssued
            /\ Row(r)'.invoiceNumber = Row(r).invoiceNumber
         \/ Row(r)'.dateIssued = 0
         \/ /\ pc[r] = "marked" /\ Issuing(r)
            /\ Row(r)'.dateIssued = invoice[r].dateIssued
            /\ Row(r)'.invoiceNumber = invoice[r].invoiceNumber
  <1>1. CASE UNCHANGED invoices
    BY <1>1 DEF Row
  <1>2. CASE WriteNumber(r)
    BY <1>2, NumberWritten
  <1>3. CASE WriteStatus(r)
    BY <1>3, StatusWritten DEF Issuing
  <1>4. CASE WriteDateAccepted(r)
    BY <1>4, DateWritten
  <1> QED
    BY <1>1, <1>2, <1>3, <1>4 DEF Act, ConfirmStep, AcceptStep, tables,
       GetInvoiceDetails, ShouldConfirmInvoice, GetInvoiceItems, SavePayer, SkipNumber,
       ReadLastNumber, RereadInvoice, UpdateInvoiceStatus, DispatchEvents,
       ReceiveAcceptance, LoadAccepted, ActivateTransaction, RemoveWaivers, ApplyWaivers,
       AnnounceInvoice, CheckTotal, Fail

LEMMA RowInvStep ==
  ASSUME OneAtATime, IInv, RowInv, NEW r \in Processes, Act(r)
  PROVE  RowInv'
  <1>1. Apart /\ Apart'
    BY ApartStep DEF RowInv
  <1>2. ASSUME NEW q \in Processes
        PROVE  Own(q)'
    <2>1. CASE q = r
      BY <2>1, OwnStep
    <2>2. CASE q # r
      <3>1. /\ pc'[q] = pc[q] /\ invoice'[q] = invoice[q]
            /\ lastNumber'[q] = lastNumber[q] /\ Issuing(q)' = Issuing(q)
            /\ InFlight(q) => Row(q)' = Row(q)
        BY <1>1, <2>2, Bystanders
      <3>2. year' = year
        BY Frame DEF Framed
      <3>3. InOrder(Row(q)')
        <4>1. CASE InvoiceOf[q] = InvoiceOf[r]
          BY <3>2, <4>1, OwnStep DEF Own, Row, InOrder, Referenced
        <4>2. CASE InvoiceOf[q] # InvoiceOf[r]
          BY <4>2, Frame, Facts, OwnOf DEF Framed, Own, Row
        <4> QED
          BY <4>1, <4>2
      <3>4. InOrder(Row(q))' /\ InOrder(invoice[q])'
        BY <3>1, <3>2, <3>3, OwnOf DEF Own, InOrder, Referenced
      <3> QED
        BY <3>1, <3>4, OwnOf, InFlightSteps DEF Own
    <2> QED
      BY <2>1, <2>2
  <1>3. HeldInv' /\ DraftInv' /\ NumberedInv'
    BY <1>2 DEF Own, HeldInv, DraftInv, NumberedInv, Row
  <1>4. \A i \in Invoices : InOrder(invoices[i])'
    <2>1. \A i \in Invoices : i # InvoiceOf[r] => invoices'[i] = invoices[i]
      BY Frame DEF Framed
    <2>2. InOrder(invoices[InvoiceOf[r]])'
      BY <1>2 DEF Own, Row
    <2>3. year' = year
      BY Frame DEF Framed
    <2> QED
      BY <2>1, <2>2, <2>3 DEF RowInv, ReferencedInv, YearInv, InOrder, Referenced
  <1>5. ReferencedInv' /\ YearInv'
    BY <1>2, <1>4 DEF Own, ReferencedInv, YearInv, InOrder
  <1> QED
    BY <1>1, <1>3, <1>5 DEF RowInv

-----------------------------------------------------------------------------
(* Numbers.                                                                  *)

(* How an execution comes to be issuing.                                     *)
LEMMA IssuingSteps ==
  ASSUME IInv, RowInv, NEW r \in Processes, Act(r), Issuing(r)'
  PROVE  \/ ReadLastNumber(r) /\ pc'[r] = "number read"
                              /\ lastNumber'[r] = CurrentInvoiceNumber
         \/ /\ Issuing(r) /\ pc[r] # "marked" /\ pc'[r] # "marked"
            /\ lastNumber' = lastNumber
         \/ /\ Issuing(r) /\ pc[r] = "numbered" /\ pc'[r] = "marked"
            /\ invoice'[r].dateIssued = year
            /\ invoice'[r].invoiceNumber = invoice[r].invoiceNumber
  <1>1. pc'[r] \in {"number read", "number written", "reread", "numbered", "marked"}
    BY DEF Issuing
  <1>2. CASE ReadLastNumber(r)
    BY <1>2, PcAfter, Facts DEF ReadLastNumber, IInv, ProcessesTypeOK
  <1>3. CASE WriteNumber(r)
    BY <1>3, NumberWritten DEF Issuing
  <1>4. CASE RereadInvoice(r)
    <2>1. /\ pc[r] = "number written" /\ pc'[r] = "reread" /\ lastNumber' = lastNumber
      BY <1>4, PcAfter DEF RereadInvoice
    <2> QED
      BY <2>1 DEF Issuing
  <1>5. CASE GetInvoiceItems(r)
    <2>1. lastNumber' = lastNumber
      BY <1>5 DEF GetInvoiceItems
    <2>2. \/ pc[r] = "reread" /\ pc'[r] = "numbered"
          \/ pc'[r] = "priced"
      BY <1>5, PcAfter DEF GetInvoiceItems
    <2> QED
      BY <1>1, <2>1, <2>2 DEF Issuing
  <1>6. CASE SkipNumber(r)
    <2>1. /\ pc'[r] = "numbered" /\ WaitsForCheck(r)
          /\ itemsTotal' = itemsTotal
      BY <1>6, PcAfter DEF SkipNumber, locals
    <2> QED
      BY <2>1 DEF Issuing, WaitsForCheck
  <1>7. CASE UpdateInvoiceStatus(r)
    <2>1. /\ pc[r] = "numbered" /\ pc'[r] = "marked"
          /\ IF WaitsForCheck(r)
             THEN invoice'[r].dateIssued = 0
             ELSE /\ invoice'[r].dateIssued = year
                  /\ invoice'[r].invoiceNumber = invoice[r].invoiceNumber
      BY <1>7, StatusMarked
    <2>2. ~WaitsForCheck(r)
      BY <2>1 DEF Issuing
    <2> QED
      BY <2>1, <2>2 DEF Issuing
  <1>8. CASE GetInvoiceDetails(r) \/ SavePayer(r) \/ WriteStatus(r) \/ LoadAccepted(r)
             \/ ActivateTransaction(r) \/ ApplyWaivers(r)
    BY <1>1, <1>8, PcAfter DEF GetInvoiceDetails, SavePayer, WriteStatus, LoadAccepted,
       ActivateTransaction, ApplyWaivers
  <1>9. CASE WriteDateAccepted(r) \/ AnnounceInvoice(r) \/ RemoveWaivers(r)
             \/ ReceiveAcceptance(r) \/ Fail(r)
    BY <1>1, <1>9, PcAfter DEF WriteDateAccepted, AnnounceInvoice, RemoveWaivers,
       ReceiveAcceptance, Fail
  <1>10. CASE ShouldConfirmInvoice(r) \/ CheckTotal(r) \/ DispatchEvents(r)
    BY <1>1, <1>10, PcAfter DEF ShouldConfirmInvoice, CheckTotal, DispatchEvents, Finish
  <1> QED
    BY <1>2, <1>3, <1>4, <1>5, <1>6, <1>7, <1>8, <1>9, <1>10
       DEF Act, ConfirmStep, AcceptStep

LEMMA SoleIssuingStep ==
  ASSUME IInv, RowInv, SoleIssuing, NEW r \in Processes, Act(r), ~overlapped'
  PROVE  SoleIssuing'
  <1>1. \A q \in Processes \ {r} : Issuing(q)' = Issuing(q)
    BY Bystanders DEF RowInv
  <1>2. ASSUME ReadLastNumber(r)
        PROVE  \A q \in Processes : ~Issuing(q)
    BY <1>2 DEF ReadLastNumber, Numbering, Issuing
  <1>3. Issuing(r)' => Issuing(r) \/ \A q \in Processes : ~Issuing(q)
    BY <1>2, IssuingSteps
  <1> QED
    BY <1>1, <1>3 DEF SoleIssuing

LEMMA FreshStep ==
  ASSUME IInv, RowInv, SoleIssuing, FreshInv, NEW r \in Processes, Act(r)
  PROVE  FreshInv'
  <1> SUFFICES ASSUME NEW q \in Processes, Issuing(q)',
                      NEW j \in Invoices, j # InvoiceOf[q]
               PROVE  Fresh(q, j)'
    BY DEF FreshInv
  <1>1. year' = year /\ year # 0
    BY Frame, Facts DEF Framed
  <1>2. CASE q = r
    <2>1. invoices'[j] = invoices[j]
      BY <1>2, Frame DEF Framed
    <2>2. Issuing(r) => Fresh(r, j)
      BY <1>2 DEF FreshInv
    <2>3. CASE pc'[r] = "number read" /\ lastNumber'[r] = CurrentInvoiceNumber
      BY <1>1, <1>2, <2>1, <2>3, LargestNumber DEF Fresh
    <2>4. CASE /\ Issuing(r) /\ pc[r] # "marked" /\ pc'[r] # "marked"
               /\ lastNumber' = lastNumber
      BY <1>1, <1>2, <2>1, <2>2, <2>4 DEF Fresh
    <2>5. CASE /\ Issuing(r) /\ pc[r] = "numbered" /\ pc'[r] = "marked"
               /\ invoice'[r].dateIssued = year
               /\ invoice'[r].invoiceNumber = invoice[r].invoiceNumber
      <3>1. invoice[r].invoiceNumber = lastNumber[r] + 1
        BY <2>5, OwnOf, StepSets DEF Own
      <3>2. invoices[j].dateIssued = year => invoices[j].invoiceNumber <= lastNumber[r]
        BY <2>2, <2>5 DEF Fresh
      <3>3. invoices[j].invoiceNumber \in Nat /\ lastNumber[r] \in Nat
        BY Facts, Columns
      <3>4. invoices[j].dateIssued = year =>
              invoices[j].invoiceNumber # invoice[r].invoiceNumber
        BY <3>1, <3>2, <3>3
      <3> QED
        BY <1>2, <2>1, <2>5, <3>4 DEF Fresh
    <2> QED
      BY <1>2, <2>3, <2>4, <2>5, IssuingSteps
  <1>3. CASE q # r
    <2>1. /\ pc'[q] = pc[q] /\ invoice'[q] = invoice[q]
          /\ lastNumber'[q] = lastNumber[q] /\ Issuing(q)
      BY <1>3, Bystanders DEF RowInv
    <2>2. Fresh(q, j)
      BY <2>1 DEF FreshInv
    <2>3. ~Issuing(r)
      BY <1>3, <2>1 DEF SoleIssuing
    <2>4. \/ /\ invoices'[j].dateIssued = invoices[j].dateIssued
             /\ invoices'[j].invoiceNumber = invoices[j].invoiceNumber
          \/ invoices'[j].dateIssued = 0
      <3>1. CASE j = InvoiceOf[r]
        BY <2>3, <3>1, RowWrite DEF Row
      <3>2. CASE j # InvoiceOf[r]
        BY <3>2, Frame DEF Framed
      <3> QED
        BY <3>1, <3>2
    <2>5. pc[q] = "marked" => invoice[q].dateIssued # 0
      BY <2>1 DEF Issuing
    <2> QED
      BY <1>1, <2>1, <2>2, <2>4, <2>5 DEF Fresh
  <1> QED
    BY <1>2, <1>3

LEMMA DistinctStep ==
  ASSUME IInv, RowInv, FreshInv, DistinctInv, NEW r \in Processes, Act(r)
  PROVE  DistinctInv'
  <1> DEFINE i == InvoiceOf[r]
  <1>1. i \in Invoices /\ \A j \in Invoices : j # i => invoices'[j] = invoices[j]
    BY Frame, Facts DEF Framed
  <1>2. ASSUME NEW j \in Invoices, j # i, invoices'[i].dateIssued # 0,
               invoices'[i].dateIssued = invoices'[j].dateIssued
        PROVE  invoices'[i].invoiceNumber # invoices'[j].invoiceNumber
    <2>1. CASE /\ invoices'[i].dateIssued = invoices[i].dateIssued
               /\ invoices'[i].invoiceNumber = invoices[i].invoiceNumber
      BY <1>1, <1>2, <2>1 DEF DistinctInv
    <2>2. CASE /\ pc[r] = "marked" /\ Issuing(r)
               /\ invoices'[i].dateIssued = invoice[r].dateIssued
               /\ invoices'[i].invoiceNumber = invoice[r].invoiceNumber
      BY <1>1, <1>2, <2>2 DEF FreshInv, Fresh
    <2> QED
      BY <1>2, <2>1, <2>2, RowWrite DEF Row
  <1> HIDE DEF i
  <1> QED
    BY <1>1, <1>2 DEF DistinctInv

LEMMA NumberingInvStep ==
  ASSUME IInv, RowInv, NumberingInv, NEW r \in Processes, Act(r)
  PROVE  NumberingInv'
  <1> SUFFICES ASSUME ~overlapped'
               PROVE  SoleIssuing' /\ FreshInv' /\ DistinctInv'
    BY DEF NumberingInv
  <1>1. ~overlapped
    BY Frame DEF Framed
  <1> QED
    BY <1>1, SoleIssuingStep, FreshStep, DistinctStep DEF NumberingInv

-----------------------------------------------------------------------------
(* Restarts and fiscal years.                                                *)

LEMMA RestartKeeps ==
  ASSUME IInv, RowInv, NumberingInv, Restart
  PROVE  RowInv' /\ NumberingInv'
  <1>1. /\ UNCHANGED <<invoices, year, overlapped>>
        /\ pc' = [r \in Processes |-> IF InFlight(r) THEN "failed" ELSE pc[r]]
        /\ invoice' = [r \in Processes |-> DraftInvoice(FALSE)]
    BY DEF Restart, LocalsReset, tables
  <1>2. \A r \in Processes : ~InFlight(r)'
    BY <1>1 DEF InFlight, ConfirmSteps, AcceptSteps
  <1>3. \A r \in Processes : /\ pc'[r] \notin Holding
                             /\ pc'[r] \notin AfterCheck
                             /\ ~Issuing(r)'
    BY <1>2 DEF InFlight, AfterCheck, Holding, Issuing, ConfirmSteps, AcceptSteps
  <1>4. \A r \in Processes : invoice'[r] = DraftInvoice(FALSE)
    BY <1>1, Zenon
  <1>5. /\ DraftInvoice(FALSE).reference = NoReference
        /\ DraftInvoice(FALSE).dateIssued = 0
    BY DEF DraftInvoice
  <1>6. ReferencedInv' /\ YearInv'
    <2>1. \A r \in Processes : Referenced(invoice'[r]) /\ invoice'[r].dateIssued <= year
      <3>1. \A r \in Processes : /\ invoice'[r].reference = NoReference
                                 /\ invoice'[r].dateIssued = 0
        BY <1>4, <1>5, Zenon
      <3> QED
        BY <3>1, Facts DEF Referenced
    <2> QED
      BY <1>1, <2>1 DEF RowInv, ReferencedInv, YearInv, Referenced
  <1>7. Apart' /\ HeldInv' /\ DraftInv' /\ NumberedInv'
    BY <1>2, <1>3 DEF Apart, HeldInv, DraftInv, NumberedInv
  <1>8. SoleIssuing' /\ FreshInv' /\ (~overlapped => DistinctInv')
    BY <1>1, <1>3 DEF NumberingInv, SoleIssuing, FreshInv, DistinctInv
  <1> QED
    BY <1>1, <1>6, <1>7, <1>8 DEF RowInv, NumberingInv

LEMMA NewFiscalYearKeeps ==
  ASSUME IInv, RowInv, NumberingInv, NewFiscalYear
  PROVE  RowInv' /\ NumberingInv'
  <1>1. /\ UNCHANGED <<invoices, pc, invoice, lastNumber, itemsTotal, overlapped>>
        /\ year' = year + 1
    BY DEF NewFiscalYear, tables, locals
  <1>2. RowInv'
    <2>1. Apart' /\ HeldInv' /\ DraftInv' /\ ReferencedInv'
      BY <1>1 DEF RowInv, Apart, HeldInv, DraftInv, ReferencedInv, Referenced, InFlight
    <2>2. NumberedInv'
      BY <1>1 DEF RowInv, NumberedInv, Issuing, WaitsForCheck
    <2>3. YearInv'
      <3>1. /\ \A i \in Invoices : invoices[i].dateIssued \in Nat
            /\ \A r \in Processes : invoice[r].dateIssued \in Nat
        BY Facts, Columns
      <3> QED
        BY <1>1, <3>1, Facts DEF RowInv, YearInv
    <2> QED
      BY <2>1, <2>2, <2>3 DEF RowInv
  <1>3. SoleIssuing => SoleIssuing'
    BY <1>1 DEF SoleIssuing, Issuing, WaitsForCheck
  <1>4. FreshInv => FreshInv'
    <2> SUFFICES ASSUME FreshInv, NEW r \in Processes, Issuing(r)',
                        NEW j \in Invoices, j # InvoiceOf[r]
                 PROVE  Fresh(r, j)'
      BY DEF FreshInv
    <2>1. Issuing(r)
      BY <1>1 DEF Issuing, WaitsForCheck
    <2>2. Fresh(r, j)
      BY <2>1 DEF FreshInv
    <2>3. invoices[j].dateIssued # year + 1
      BY Facts, Columns DEF RowInv, YearInv
    <2> QED
      BY <1>1, <2>2, <2>3 DEF Fresh
  <1>5. DistinctInv => DistinctInv'
    BY <1>1 DEF DistinctInv
  <1> QED
    BY <1>1, <1>2, <1>3, <1>4, <1>5 DEF NumberingInv

-----------------------------------------------------------------------------
LEMMA NumberingInit == Init => RowInv /\ NumberingInv
  <1> SUFFICES ASSUME Init PROVE RowInv /\ NumberingInv
    OBVIOUS
  <1>1. /\ \A i \in Invoices : invoices[i] = DraftInvoice(i \in AcceptedAtStart)
        /\ \A r \in Processes : invoice[r] = DraftInvoice(FALSE)
    BY Zenon DEF Init
  <1>2. \A r \in Processes : pc[r] = "idle"
    BY DEF Init
  <1>3. year = 1
    BY DEF Init
  <1>4. ASSUME NEW b
        PROVE  DraftInvoice(b).reference = NoReference /\ DraftInvoice(b).dateIssued = 0
    BY DEF DraftInvoice
  <1>5. \A r \in Processes : /\ pc[r] \notin Holding
                             /\ pc[r] \notin AfterCheck
                             /\ ~Issuing(r)
                             /\ ~InFlight(r)
    BY <1>2 DEF InFlight, AfterCheck, Holding, Issuing, ConfirmSteps, AcceptSteps
  <1>6. ReferencedInv /\ YearInv
    <2>1. \A i \in Invoices : invoices[i].reference = NoReference /\ invoices[i].dateIssued = 0
      BY <1>1, <1>4
    <2>2. \A r \in Processes : invoice[r].reference = NoReference /\ invoice[r].dateIssued = 0
      BY <1>1, <1>4
    <2> QED
      BY <1>3, <2>1, <2>2 DEF ReferencedInv, YearInv, Referenced
  <1>7. DistinctInv
    BY <1>1, <1>4 DEF DistinctInv
  <1> QED
    BY <1>5, <1>6, <1>7 DEF RowInv, NumberingInv, Apart, HeldInv, DraftInv, NumberedInv,
                            SoleIssuing, FreshInv

LEMMA NumberingNext ==
  ASSUME OneAtATime
  PROVE  IInv /\ RowInv /\ NumberingInv /\ [Next]_vars => RowInv' /\ NumberingInv'
  <1> SUFFICES ASSUME IInv, RowInv, NumberingInv, [Next]_vars
               PROVE  RowInv' /\ NumberingInv'
    OBVIOUS
  <1>1. ASSUME NEW r \in Processes, Act(r)
        PROVE  RowInv' /\ NumberingInv'
    BY <1>1, RowInvStep, NumberingInvStep
  <1>2. CASE UNCHANGED vars
    <2>1. UNCHANGED <<invoices, pc, invoice, lastNumber, itemsTotal, year, overlapped>>
      BY <1>2 DEF vars, tables, locals, world
    <2>2. RowInv'
      BY <2>1 DEF RowInv, Apart, HeldInv, DraftInv, ReferencedInv, YearInv, NumberedInv,
                  Referenced, InFlight, Issuing, WaitsForCheck
    <2>3. NumberingInv'
      BY <2>1 DEF NumberingInv, SoleIssuing, FreshInv, Fresh, DistinctInv, Issuing,
                  WaitsForCheck
    <2> QED
      BY <2>2, <2>3
  <1> QED
    BY <1>1, <1>2, RestartKeeps, NewFiscalYearKeeps DEF Next, Act

(* Two invoices never carry the same reference number when executions on one *)
(* invoice are kept apart and no two number at the same time, whatever fails *)
(* between the number and the status and however many years go by.           *)
THEOREM ReferencesCorrect ==
  ASSUME OneAtATime
  PROVE  Spec => []ReferencesDistinct
  <1>1. RowInv /\ NumberingInv => ReferencesDistinct
    BY DEF RowInv, NumberingInv, ReferencedInv, Referenced, DistinctInv, ReferencesDistinct
  <1>2. IInv /\ RowInv /\ NumberingInv /\ [Next]_vars
          => IInv' /\ RowInv' /\ NumberingInv'
    BY IInvNext, NumberingNext
  <1>3. Init => IInv /\ RowInv /\ NumberingInv
    BY IInvInit, NumberingInit
  <1> QED
    BY <1>1, <1>2, <1>3, PTL DEF Spec

-----------------------------------------------------------------------------
(* PublishedOnce.  The invariant, beside IInv and RowInv.                    *)

(* The steps of an acceptance before its own dispatch.                       *)
Accepting == {"draft seen", "accept loaded", "activated", "waivers removed",
              "waivers applied", "date written"}

(* An object keeps its own events, and an acceptance confirms nothing.       *)
EventsInv ==
  \A o \in Objects : \A k \in DOMAIN domainEvents[o] :
    /\ domainEvents[o][k].source = o
    /\ o[2] = "acceptance" => domainEvents[o][k].class \notin Confirming

(* An execution raises one event, and leaves it behind when it fails.  The   *)
(* invoice was accepted before, so no acceptance will dispatch it.           *)
LeftBehind(r) ==
  domainEvents[Object(r)] # <<>> =>
    /\ Len(domainEvents[Object(r)]) = 1
    /\ pc[r] \in {"marked", "written"} \cup Ended
    /\ transactions[InvoiceOf[r]] = "ACTIVE"
    /\ \A q \in Processes : InvoiceOf[q] = InvoiceOf[r] => pc[q] \notin Accepting

(* An execution that is going to dispatch is the first to do so.             *)
Unpublished(r) ==
  /\ pc[r] = "marked"  => invoice[r].status # "DRAFT"
  /\ pc[r] = "written" => Row(r).status # "DRAFT" /\ Published(InvoiceOf[r]) = {}

(* A published invoice is no draft, so no execution gets past its check.     *)
PublishedInv ==
  \A i \in Invoices : Published(i) # {} =>
    /\ invoices[i].status # "DRAFT"
    /\ \A j, k \in Published(i) : j = k

PublicationInv == /\ EventsInv /\ PublishedInv
                  /\ \A r \in Processes : LeftBehind(r) /\ Unpublished(r)

-----------------------------------------------------------------------------
(* What the dispatcher's operations do to events and to the log.             *)

LEMMA DispatcherTypes ==
  ASSUME IInv
  PROVE  /\ D!DispatcherTypeOK /\ P!DispatcherTypeOK /\ P!MarkedUnique
         /\ domainEvents \in [Objects -> Seq(P!Event)]
         /\ \A o \in Objects : domainEvents[o] \in Seq(P!Event)
  <1>1. P!DispatcherTypeOK /\ P!MarkedUnique
    BY SameDispatcher DEF IInv, DispatcherOK
  <1>2. domainEvents \in [Objects -> Seq(P!Event)]
    BY <1>1 DEF P!DispatcherTypeOK
  <1> QED
    BY <1>1, <1>2, SameDispatcher

LEMMA EventRaised ==
  ASSUME IInv, NEW o \in Objects, NEW c \in EventClasses, D!AddDomainEvent(o, c),
         domainEvents[o] = <<>>
  PROVE  /\ dispatched' = dispatched
         /\ \A q \in Objects \ {o} : domainEvents'[q] = domainEvents[q]
         /\ Len(domainEvents'[o]) = 1 /\ DOMAIN domainEvents'[o] = {1}
         /\ domainEvents'[o][1].source = o /\ domainEvents'[o][1].class = c
  <1> DEFINE e == [source |-> o, number |-> raised[o] + 1, class |-> c]
  <1>1. e.source = o /\ e.class = c
    OBVIOUS
  <1>2. domainEvents' = [domainEvents EXCEPT ![o] = Append(@, e)] /\ dispatched' = dispatched
    BY DEF D!AddDomainEvent
  <1> HIDE DEF e
  <1>3. domainEvents \in [Objects -> Seq(P!Event)]
    BY DispatcherTypes
  <1>4. domainEvents'[o] = <<e>> /\ \A q \in Objects \ {o} : domainEvents'[q] = domainEvents[q]
    BY <1>2, <1>3
  <1> QED
    BY <1>1, <1>2, <1>4

LEMMA Dispatched ==
  ASSUME IInv, NEW i \in Invoices, D!DispatchEventsForAggregate(i)
  PROVE  \/ UNCHANGED <<domainEvents, dispatched>>
         \/ \E f \in Objects :
              /\ InvoiceOf[f[1]] = i
              /\ dispatched' = dispatched \o
                   [k \in DOMAIN domainEvents[f] |-> P!Dispatch(domainEvents[f][k])]
              /\ domainEvents' = [domainEvents EXCEPT ![f] = <<>>]
  <1>1. P!DispatchEventsForAggregate(i)
    BY DEF D!DispatchEventsForAggregate, P!DispatchEventsForAggregate,
           D!FindMarkedAggregateByID, P!FindMarkedAggregateByID,
           D!FirstMarkedAggregate, P!FirstMarkedAggregate,
           D!DispatchAggregateEvents, P!DispatchAggregateEvents,
           D!Dispatch, P!Dispatch, D!PlacesOf, P!PlacesOf,
           D!dispatcherVars, P!dispatcherVars, D!RemoveAt, P!RemoveAt
  <1>2. \/ UNCHANGED <<domainEvents, dispatched>>
        \/ \E f \in Objects :
             /\ [o \in Objects |-> InvoiceOf[o[1]]][f] = i
             /\ dispatched' = dispatched \o P!DispatchAggregateEvents(f)
             /\ domainEvents' = [domainEvents EXCEPT ![f] = <<>>]
    BY <1>1, DispatcherTypes, P!DispatchDelivers
  <1> QED
    BY <1>2 DEF P!DispatchAggregateEvents

LEMMA Announced ==
  ASSUME IInv, NEW a \in Objects, NEW c \in EventClasses, D!RaiseAndDispatch(a, c)
  PROVE  \E f \in Objects, e \in P!Event, l \in Seq(P!Event) :
           /\ InvoiceOf[f[1]] = InvoiceOf[a[1]]
           /\ e.source = a /\ e.class = c
           /\ l = IF f = a THEN Append(domainEvents[a], e) ELSE domainEvents[f]
           /\ dispatched' = dispatched \o [k \in DOMAIN l |-> P!Dispatch(l[k])]
           /\ domainEvents' =
                [[domainEvents EXCEPT ![a] = Append(@, e)] EXCEPT ![f] = <<>>]
  <1>1. P!RaiseAndDispatch(a, c)
    BY DEF D!RaiseAndDispatch, P!RaiseAndDispatch, D!MarkAggregateForDispatch,
           P!MarkAggregateForDispatch, D!PlacesOf, P!PlacesOf, D!Dispatch, P!Dispatch,
           D!RemoveAt, P!RemoveAt
  <1>2. \E f \in Objects, e \in P!Event, l \in Seq(P!Event) :
           /\ [o \in Objects |-> InvoiceOf[o[1]]][f] = [o \in Objects |-> InvoiceOf[o[1]]][a]
           /\ e.source = a /\ e.class = c
           /\ l = IF f = a THEN Append(domainEvents[a], e) ELSE domainEvents[f]
           /\ dispatched' = dispatched \o [k \in DOMAIN l |-> P!Dispatch(l[k])]
           /\ domainEvents' =
                [[domainEvents EXCEPT ![a] = Append(@, e)] EXCEPT ![f] = <<>>]
    <2>1. P!DispatcherTypeOK /\ P!MarkedUnique
      BY DispatcherTypes
    <2> QED
      BY <1>1, <2>1, P!RaiseAndDispatchDelivers, Zenon
  <1> QED
    BY <1>2

(* What is published after a dispatch: what was, and the confirming events   *)
(* among the ones delivered, each at its own place of the log.               *)
LEMMA PublishedAfter ==
  ASSUME IInv, NEW l \in Seq(P!Event), NEW i,
         dispatched' = dispatched \o [k \in DOMAIN l |-> P!Dispatch(l[k])]
  PROVE  /\ Published(i) \subseteq Published(i)'
         /\ \A k \in Published(i)' :
              \/ k \in Published(i)
              \/ \E m \in DOMAIN l : /\ k = Len(dispatched) + m
                                     /\ l[m].class \in Confirming
                                     /\ InvoiceOf[l[m].source[1]] = i
  <1>1. /\ Len(dispatched) \in Nat
        /\ DOMAIN dispatched = 1..Len(dispatched)
        /\ DOMAIN l = 1..Len(l)
        /\ DOMAIN dispatched' = 1..(Len(dispatched) + Len(l))
        /\ \A k \in 1..Len(dispatched) : dispatched'[k] = dispatched[k]
        /\ \A m \in 1..Len(l) : dispatched'[Len(dispatched) + m].event = l[m]
    BY DispatcherTypes, P!LogGrows
  <1>2. Len(l) \in Nat
    OBVIOUS
  <1>3. \A k \in 1..(Len(dispatched) + Len(l)) :
          k \in 1..Len(dispatched) \/ \E m \in 1..Len(l) : k = Len(dispatched) + m
    <2> TAKE k \in 1..(Len(dispatched) + Len(l))
    <2>1. CASE k <= Len(dispatched)
      BY <1>1, <2>1
    <2>2. CASE k > Len(dispatched)
      <3>1. k - Len(dispatched) \in 1..Len(l) /\ k = Len(dispatched) + (k - Len(dispatched))
        BY <1>1, <1>2, <2>2
      <3> QED
        BY <3>1
    <2> QED
      BY <1>1, <2>1, <2>2
  <1>4. DOMAIN dispatched \subseteq DOMAIN dispatched'
    BY <1>1, <1>2
  <1>5. Published(i) \subseteq Published(i)'
    BY <1>1, <1>4 DEF Published
  <1>6. ASSUME NEW k \in Published(i)', k \notin Published(i)
        PROVE  \E m \in DOMAIN l : /\ k = Len(dispatched) + m
                                   /\ l[m].class \in Confirming
                                   /\ InvoiceOf[l[m].source[1]] = i
    <2>1. /\ k \in DOMAIN dispatched' /\ dispatched'[k].event.class \in Confirming
          /\ InvoiceOf[dispatched'[k].event.source[1]] = i
      BY <1>6 DEF Published
    <2>2. k \notin 1..Len(dispatched)
      BY <1>1, <1>6, <2>1 DEF Published
    <2>3. PICK m \in 1..Len(l) : k = Len(dispatched) + m
      BY <1>1, <1>3, <2>1, <2>2
    <2>4. dispatched'[k].event = l[m]
      BY <1>1, <2>3
    <2> QED
      BY <1>1, <2>1, <2>3, <2>4
  <1> QED
    BY <1>5, <1>6

-----------------------------------------------------------------------------
(* Where a step of an execution leads.                                       *)

LEMMA Places ==
  ASSUME IInv, RowInv, NEW r \in Processes, Act(r)
  PROVE  /\ pc'[r] \in Accepting => pc[r] \in Accepting \/ transactions[InvoiceOf[r]] = "DRAFT"
         /\ pc[r] \in {"marked", "written"} \cup Ended => pc'[r] \in {"written"} \cup Ended
         /\ pc'[r] = "marked" => UpdateInvoiceStatus(r)
         /\ pc'[r] = "written" => WriteStatus(r)
  <1> USE PcAfter DEF Accepting, Ended
  <1>1. CASE GetInvoiceDetails(r)
    BY <1>1 DEF GetInvoiceDetails
  <1>2. CASE ShouldConfirmInvoice(r)
    BY <1>2 DEF ShouldConfirmInvoice, Finish
  <1>3. CASE GetInvoiceItems(r)
    BY <1>3 DEF GetInvoiceItems
  <1>4. CASE SavePayer(r) \/ SkipNumber(r) \/ ReadLastNumber(r)
    BY <1>4 DEF SavePayer, SkipNumber, ReadLastNumber
  <1>5. CASE WriteNumber(r)
    BY <1>5, NumberWritten
  <1>6. CASE RereadInvoice(r)
    BY <1>6 DEF RereadInvoice
  <1>7. CASE UpdateInvoiceStatus(r)
    BY <1>7, StatusMarked
  <1>8. CASE WriteStatus(r)
    BY <1>8, StatusWritten
  <1>9. CASE DispatchEvents(r)
    BY <1>9 DEF DispatchEvents, Finish
  <1>10. CASE ReceiveAcceptance(r)
    BY <1>10 DEF ReceiveAcceptance
  <1>11. CASE LoadAccepted(r) \/ ActivateTransaction(r)
    BY <1>11 DEF LoadAccepted, ActivateTransaction
  <1>12. CASE RemoveWaivers(r) \/ ApplyWaivers(r)
    BY <1>12 DEF RemoveWaivers, ApplyWaivers
  <1>13. CASE WriteDateAccepted(r)
    BY <1>13, DateWritten
  <1>14. CASE AnnounceInvoice(r)
    BY <1>14 DEF AnnounceInvoice
  <1>15. CASE CheckTotal(r)
    BY <1>15 DEF CheckTotal, Finish
  <1>16. CASE Fail(r)
    BY <1>16 DEF Fail
  <1> QED
    BY <1>1, <1>2, <1>3, <1>4, <1>5, <1>6, <1>7, <1>8, <1>9, <1>10, <1>11, <1>12,
       <1>13, <1>14, <1>15, <1>16 DEF Act, ConfirmStep, AcceptStep

(* Transactions stay active, and three steps use the dispatcher.             *)
LEMMA Surroundings ==
  ASSUME IInv, NEW r \in Processes, Act(r)
  PROVE  /\ \A i \in Invoices : transactions[i] = "ACTIVE" => transactions'[i] = "ACTIVE"
         /\ \/ UpdateInvoiceStatus(r) \/ DispatchEvents(r) \/ AnnounceInvoice(r)
            \/ UNCHANGED <<domainEvents, dispatched>>
  <1>1. ActivateTransaction(r) \/ UNCHANGED transactions
    BY DEF Act, ConfirmStep, AcceptStep, tables,
       GetInvoiceDetails, ShouldConfirmInvoice, GetInvoiceItems, SavePayer, SkipNumber,
       ReadLastNumber, WriteNumber, RereadInvoice, UpdateInvoiceStatus, WriteStatus,
       DispatchEvents, ReceiveAcceptance, LoadAccepted, RemoveWaivers, ApplyWaivers,
       WriteDateAccepted, AnnounceInvoice, CheckTotal, Fail
  <1>2. \A i \in Invoices : transactions[i] = "ACTIVE" => transactions'[i] = "ACTIVE"
    <2>1. CASE ActivateTransaction(r)
      BY <2>1 DEF ActivateTransaction, IInv, TablesTypeOK
    <2> QED
      BY <1>1, <2>1
  <1>3. \/ UpdateInvoiceStatus(r) \/ DispatchEvents(r) \/ AnnounceInvoice(r)
        \/ UNCHANGED dispatcher
    BY DEF Act, ConfirmStep, AcceptStep,
       GetInvoiceDetails, ShouldConfirmInvoice, GetInvoiceItems, SavePayer, SkipNumber,
       ReadLastNumber, WriteNumber, RereadInvoice, WriteStatus, ReceiveAcceptance,
       LoadAccepted, ActivateTransaction, RemoveWaivers, ApplyWaivers,
       WriteDateAccepted, CheckTotal, Fail
  <1> QED
    BY <1>2, <1>3 DEF dispatcher

(* What is to be written is no draft any more, and what is written stays.    *)
LEMMA StatusSet ==
  ASSUME IInv, RowInv, NEW r \in Processes, UpdateInvoiceStatus(r)
  PROVE  /\ invoice'[r].status # "DRAFT"
         /\ \E c \in EventClasses : D!AddDomainEvent(Object(r), c)
  <1> DEFINE final   == MarkAsFinal(invoice[r], year)
             active  == MarkAsActive(invoice[r], year)
             pending == MarkAsPending(invoice[r])
  <1>1. invoice[r] \in Invoice /\ year \in Nat
    BY Facts
  <1>2. active.status # "DRAFT"
    <2>1. [invoice[r] EXCEPT !.status = "ACTIVE", !.dateIssued = year] \in Invoice
      BY <1>1 DEF Invoice, InvoiceStatus
    <2>2. [invoice[r] EXCEPT !.status = "ACTIVE", !.dateIssued = year].status = "ACTIVE"
      BY <1>1 DEF Invoice
    <2> QED
      BY <2>1, <2>2, WithReferenceKeeps DEF MarkAsActive
  <1>3. pending.status # "DRAFT"
    BY <1>1 DEF MarkAsPending, Invoice
  <1>4. final.status # "DRAFT"
    <2> DEFINE dated == [invoice[r] EXCEPT !.status = "FINAL",
                                           !.dateIssued = IF @ = 0 THEN year ELSE @]
    <2>1. dated \in Invoice /\ dated.status = "FINAL"
      BY <1>1 DEF Invoice, InvoiceStatus
    <2> HIDE DEF dated
    <2>2. WithReference(dated).status = "FINAL"
      BY <2>1, WithReferenceKeeps
    <2> QED
      BY <2>2 DEF MarkAsFinal, dated
  <1> HIDE DEF final, active, pending
  <1>5. pc[r] = "numbered" /\ pc'[r] = "marked"
    BY StatusMarked
  <1>6. PICK inv \in {final, active, pending}, c \in EventClasses : MarkAs(r, inv, c)
    <2>1. ~Goto(r, "written")
      BY <1>5, PcAfter
    <2> QED
      BY <2>1, Zenon DEF UpdateInvoiceStatus, EventClasses, final, active, pending
  <1>7. invoice'[r] = inv
    BY <1>6 DEF MarkAs, Keep, IInv, ProcessesTypeOK
  <1> QED
    BY <1>2, <1>3, <1>4, <1>6, <1>7 DEF MarkAs

LEMMA StatusKept ==
  ASSUME IInv, RowInv, PublicationInv, NEW r \in Processes, Act(r)
  PROVE  /\ Row(r).status # "DRAFT" => Row(r)'.status # "DRAFT"
         /\ WriteStatus(r) => Row(r).status = "DRAFT" /\ Row(r)'.status # "DRAFT"
  <1>1. /\ invoices \in [Invoices -> Invoice] /\ InvoiceOf[r] \in Invoices
        /\ invoice[r] \in Invoice
    BY Facts DEF IInv, TablesTypeOK
  <1>2. ASSUME NEW inv \in Invoice, Update(InvoiceOf[r], inv)
        PROVE  Row(r)'.status = inv.status
    BY <1>1, <1>2, WithReferenceKeeps DEF Update, Row, ToPersistence
  <1>3. CASE WriteNumber(r)
    <2>1. pc[r] = "number read"
      BY <1>3 DEF WriteNumber
    <2> QED
      BY <1>3, <2>1, OwnOf, StepSets DEF Own, WriteStatus
  <1>4. CASE WriteStatus(r)
    <2>1. pc[r] = "marked" /\ Update(InvoiceOf[r], invoice[r])
      BY <1>4 DEF WriteStatus
    <2>2. invoice[r].status # "DRAFT"
      BY <2>1 DEF PublicationInv, Unpublished
    <2> QED
      BY <1>1, <1>2, <2>1, <2>2, OwnOf, StepSets DEF Own
  <1>5. CASE WriteDateAccepted(r)
    <2> DEFINE dated == [invoice[r] EXCEPT !.accepted = TRUE]
    <2>1. pc[r] = "waivers applied" /\ Update(InvoiceOf[r], dated)
      BY <1>5 DEF WriteDateAccepted
    <2>2. dated \in Invoice /\ dated.status = invoice[r].status
      BY <1>1 DEF Invoice
    <2> HIDE DEF dated
    <2>3. invoice[r] = Row(r)
      BY <2>1, OwnOf, StepSets DEF Own
    <2>4. ~WriteStatus(r)
      BY <2>1 DEF WriteStatus
    <2> QED
      BY <1>2, <2>1, <2>2, <2>3, <2>4
  <1>6. CASE UNCHANGED invoices /\ ~WriteStatus(r)
    BY <1>6 DEF Row
  <1> QED
    BY <1>3, <1>4, <1>5, <1>6 DEF Act, ConfirmStep, AcceptStep, tables,
       GetInvoiceDetails, ShouldConfirmInvoice, GetInvoiceItems, SavePayer, SkipNumber,
       ReadLastNumber, RereadInvoice, UpdateInvoiceStatus, DispatchEvents,
       ReceiveAcceptance, LoadAccepted, ActivateTransaction, RemoveWaivers, ApplyWaivers,
       AnnounceInvoice, CheckTotal, Fail

-----------------------------------------------------------------------------
(* The invariant is kept.                                                    *)

(* What a step keeps of the event an execution has left behind, ...          *)
LEMMA LeftBehindStays ==
  ASSUME OneAtATime, IInv, RowInv, PublicationInv, NEW r \in Processes, Act(r),
         NEW q \in Processes,
         domainEvents'[Object(q)] \in {domainEvents[Object(q)], <<>>}
  PROVE  LeftBehind(q)'
  <1> SUFFICES ASSUME domainEvents'[Object(q)] # <<>>
               PROVE  /\ Len(domainEvents'[Object(q)]) = 1
                      /\ pc'[q] \in {"marked", "written"} \cup Ended
                      /\ transactions'[InvoiceOf[q]] = "ACTIVE"
                      /\ \A p \in Processes : InvoiceOf[p] = InvoiceOf[q] =>
                           pc'[p] \notin Accepting
    BY DEF LeftBehind, Object
  <1>1. /\ domainEvents'[Object(q)] = domainEvents[Object(q)]
        /\ Len(domainEvents[Object(q)]) = 1
        /\ pc[q] \in {"marked", "written"} \cup Ended
        /\ transactions[InvoiceOf[q]] = "ACTIVE"
        /\ \A p \in Processes : InvoiceOf[p] = InvoiceOf[q] => pc[p] \notin Accepting
    BY DEF PublicationInv, LeftBehind
  <1>2. \A p \in Processes \ {r} : pc'[p] = pc[p]
    BY Frame DEF Framed
  <1>3. pc'[q] \in {"marked", "written"} \cup Ended
    BY <1>1, <1>2, Places
  <1>4. transactions'[InvoiceOf[q]] = "ACTIVE"
    BY <1>1, Surroundings, Facts
  <1>5. \A p \in Processes : InvoiceOf[p] = InvoiceOf[q] => pc'[p] \notin Accepting
    BY <1>1, <1>2, Places
  <1> QED
    BY <1>1, <1>3, <1>4, <1>5

(* ... and of an execution that is going to publish.                         *)
LEMMA UnpublishedStays ==
  ASSUME OneAtATime, IInv, RowInv, PublicationInv, NEW r \in Processes, Act(r),
         NEW q \in Processes, Published(InvoiceOf[q])' = Published(InvoiceOf[q])
  PROVE  Unpublished(q)'
  <1>1. CASE q # r
    <2>1. /\ pc'[q] = pc[q] /\ invoice'[q] = invoice[q]
          /\ InFlight(q) => Row(q)' = Row(q)
      BY <1>1, Bystanders DEF RowInv
    <2>2. pc[q] = "written" => InFlight(q)
      BY DEF InFlight, ConfirmSteps
    <2>3. Unpublished(q)
      BY DEF PublicationInv
    <2> QED
      BY <2>1, <2>2, <2>3 DEF Unpublished
  <1>2. CASE q = r
    <2>1. pc'[r] = "marked" => invoice'[r].status # "DRAFT"
      BY Places, StatusSet
    <2>2. pc'[r] = "written" => Row(r)'.status # "DRAFT" /\ Published(InvoiceOf[r]) = {}
      <3> SUFFICES ASSUME pc'[r] = "written"
                   PROVE  Row(r)'.status # "DRAFT" /\ Published(InvoiceOf[r]) = {}
        OBVIOUS
      <3>1. Row(r).status = "DRAFT" /\ Row(r)'.status # "DRAFT"
        BY Places, StatusKept
      <3> QED
        BY <3>1, Facts DEF PublicationInv, PublishedInv, Row
    <2> QED
      BY <1>2, <2>1, <2>2 DEF Unpublished
  <1> QED
    BY <1>1, <1>2

LEMMA PublishedStays ==
  ASSUME IInv, RowInv, PublicationInv, NEW r \in Processes, Act(r),
         NEW i \in Invoices, Published(i)' = Published(i), Published(i) # {}
  PROVE  invoices'[i].status # "DRAFT" /\ \A j, k \in Published(i)' : j = k
  <1>1. invoices[i].status # "DRAFT" /\ \A j, k \in Published(i) : j = k
    BY DEF PublicationInv, PublishedInv
  <1>2. invoices'[i].status # "DRAFT"
    <2>1. CASE i = InvoiceOf[r]
      BY <1>1, <2>1, StatusKept DEF Row
    <2>2. CASE i # InvoiceOf[r]
      BY <1>1, <2>2, Frame DEF Framed
    <2> QED
      BY <2>1, <2>2
  <1> QED
    BY <1>1, <1>2

(* A step after which nothing more is published and nothing is left behind.  *)
LEMMA NothingNew ==
  ASSUME OneAtATime, IInv, RowInv, PublicationInv, NEW r \in Processes, Act(r), EventsInv',
         \A i \in Invoices : Published(i)' = Published(i),
         \A q \in Processes :
           domainEvents'[Object(q)] \in {domainEvents[Object(q)], <<>>}
  PROVE  PublicationInv'
  <1>1. \A q \in Processes : LeftBehind(q)'
    BY LeftBehindStays
  <1>2. \A q \in Processes : Unpublished(q)'
    BY UnpublishedStays, Facts
  <1>3. PublishedInv'
    BY PublishedStays DEF PublishedInv
  <1> QED
    BY <1>1, <1>2, <1>3 DEF PublicationInv

LEMMA QuietPublication ==
  ASSUME OneAtATime, IInv, RowInv, PublicationInv, NEW r \in Processes, Act(r),
         UNCHANGED <<domainEvents, dispatched>>
  PROVE  PublicationInv'
  <1>1. EventsInv'
    BY DEF PublicationInv, EventsInv
  <1>2. \A i \in Invoices : Published(i)' = Published(i)
    BY DEF Published
  <1> QED
    BY <1>1, <1>2, NothingNew

LEMMA MarkedPublication ==
  ASSUME OneAtATime, IInv, RowInv, PublicationInv, NEW r \in Processes,
         UpdateInvoiceStatus(r)
  PROVE  PublicationInv'
  <1>1. Act(r) /\ pc[r] = "numbered" /\ pc'[r] = "marked"
    BY StatusMarked DEF Act, ConfirmStep
  <1>2. PICK c \in EventClasses : D!AddDomainEvent(Object(r), c)
    BY StatusSet
  <1>3. Object(r) \in Objects /\ \A q \in Processes : Object(q) \in Objects
    BY DEF Object, Objects
  <1>4. domainEvents[Object(r)] = <<>>
    BY <1>1 DEF PublicationInv, LeftBehind, Ended
  <1>5. /\ dispatched' = dispatched
        /\ \A o \in Objects \ {Object(r)} : domainEvents'[o] = domainEvents[o]
        /\ Len(domainEvents'[Object(r)]) = 1 /\ DOMAIN domainEvents'[Object(r)] = {1}
        /\ domainEvents'[Object(r)][1].source = Object(r)
    BY <1>2, <1>3, <1>4, EventRaised
  <1>6. EventsInv'
    <2> SUFFICES ASSUME NEW o \in Objects, NEW k \in DOMAIN domainEvents'[o]
                 PROVE  /\ domainEvents'[o][k].source = o
                        /\ o[2] = "acceptance" => domainEvents'[o][k].class \notin Confirming
      BY DEF EventsInv
    <2>1. CASE o = Object(r)
      BY <1>5, <2>1 DEF Object
    <2>2. CASE o # Object(r)
      BY <1>5, <2>2 DEF PublicationInv, EventsInv
    <2> QED
      BY <2>1, <2>2
  <1>7. \A i \in Invoices : Published(i)' = Published(i)
    BY <1>5 DEF Published
  <1>8. ASSUME NEW q \in Processes
        PROVE  LeftBehind(q)'
    <2>1. CASE q = r
      <3>1. transactions'[InvoiceOf[r]] = "ACTIVE"
        BY <1>1, StageFacts, Surroundings DEF AfterCheck, ConfirmSteps
      <3>2. \A p \in Processes : InvoiceOf[p] = InvoiceOf[r] => pc'[p] \notin Accepting
        <4>1. InFlight(r)
          BY <1>1 DEF InFlight, ConfirmSteps
        <4>2. \A p \in Processes : pc[p] \in Accepting => InFlight(p)
          BY DEF Accepting, InFlight, AcceptSteps
        <4>3. "marked" \notin Accepting /\ \A p \in Processes \ {r} : pc'[p] = pc[p]
          BY <1>1, Frame DEF Framed, Accepting
        <4> QED
          BY <1>1, <4>1, <4>2, <4>3 DEF RowInv, Apart
      <3> QED
        BY <1>1, <1>5, <2>1, <3>1, <3>2 DEF LeftBehind, Object
    <2>2. CASE q # r
      BY <1>1, <1>3, <1>5, <2>2, LeftBehindStays DEF Object
    <2> QED
      BY <2>1, <2>2
  <1>9. \A q \in Processes : Unpublished(q)'
    BY <1>1, <1>7, UnpublishedStays, Facts
  <1>10. PublishedInv'
    BY <1>1, <1>7, PublishedStays DEF PublishedInv
  <1> QED
    BY <1>6, <1>8, <1>9, <1>10 DEF PublicationInv

(* Events of other classes add nothing to what is published.                 *)
LEMMA NotConfirming ==
  ASSUME IInv, NEW l \in Seq(P!Event), \A m \in DOMAIN l : l[m].class \notin Confirming,
         dispatched' = dispatched \o [k \in DOMAIN l |-> P!Dispatch(l[k])], NEW i
  PROVE  Published(i)' = Published(i)
  <1>1. Published(i) \subseteq Published(i)' /\ Published(i)' \subseteq Published(i)
    BY PublishedAfter
  <1> QED
    BY <1>1

(* The dispatch finds at most one confirming event, its own or that of a     *)
(* failed attempt, and nothing was published before.                         *)
LEMMA DispatchedPublication ==
  ASSUME OneAtATime, IInv, RowInv, PublicationInv, NEW r \in Processes, DispatchEvents(r)
  PROVE  PublicationInv'
  <1>1. /\ Act(r) /\ pc[r] = "written" /\ pc'[r] = "done"
        /\ D!DispatchEventsForAggregate(InvoiceOf[r])
        /\ UNCHANGED invoices
    BY PcAfter DEF DispatchEvents, Act, ConfirmStep, Finish, tables
  <1>2. \A q \in Processes : Object(q) \in Objects
    BY DEF Object, Objects
  <1>3. CASE UNCHANGED <<domainEvents, dispatched>>
    BY <1>1, <1>3, QuietPublication
  <1>4. ASSUME NEW f \in Objects, InvoiceOf[f[1]] = InvoiceOf[r],
               dispatched' = dispatched \o
                 [k \in DOMAIN domainEvents[f] |-> P!Dispatch(domainEvents[f][k])],
               domainEvents' = [domainEvents EXCEPT ![f] = <<>>]
        PROVE  PublicationInv'
    <2>1. domainEvents \in [Objects -> Seq(P!Event)] /\ domainEvents[f] \in Seq(P!Event)
      BY DispatcherTypes
    <2>2. /\ domainEvents'[f] = <<>>
          /\ \A o \in Objects \ {f} : domainEvents'[o] = domainEvents[o]
      BY <1>4, <2>1
    <2>3. EventsInv'
      BY <2>2 DEF PublicationInv, EventsInv
    <2>4. \A q \in Processes : LeftBehind(q)'
      BY <1>1, <1>2, <2>2, LeftBehindStays
    <2>5. \A m \in DOMAIN domainEvents[f] : domainEvents[f][m].source = f
      BY DEF PublicationInv, EventsInv
    <2>6. PICK l \in Seq(P!Event) : l = domainEvents[f]
      BY <2>1
    <2>7. dispatched' = dispatched \o [k \in DOMAIN l |-> P!Dispatch(l[k])]
      BY <1>4, <2>6
    <2>8. ASSUME NEW i \in Invoices, i # InvoiceOf[r]
          PROVE  Published(i)' = Published(i)
      <3>1. \A m \in DOMAIN l : InvoiceOf[l[m].source[1]] # i
        BY <1>4, <2>5, <2>8, <2>6
      <3>2. Published(i) \subseteq Published(i)' /\ Published(i)' \subseteq Published(i)
        BY <2>7, <3>1, PublishedAfter
      <3> QED
        BY <3>2
    <2>9. \A q \in Processes : Unpublished(q)'
      <3> SUFFICES ASSUME NEW q \in Processes PROVE Unpublished(q)'
        OBVIOUS
      <3>1. CASE InvoiceOf[q] # InvoiceOf[r]
        BY <1>1, <2>8, <3>1, UnpublishedStays, Facts
      <3>2. CASE InvoiceOf[q] = InvoiceOf[r]
        <4>1. pc'[q] \notin {"marked", "written"}
          <5>1. InFlight(r)
            BY <1>1 DEF InFlight, ConfirmSteps
          <5>2. q # r => pc'[q] = pc[q] /\ ~InFlight(q)
            BY <1>1, <3>2, <5>1, Frame DEF Framed, RowInv, Apart
          <5> QED
            BY <1>1, <5>2 DEF InFlight, ConfirmSteps
        <4> QED
          BY <4>1 DEF Unpublished
      <3> QED
        BY <3>1, <3>2
    <2>10. Published(InvoiceOf[r]) = {} /\ Row(r).status # "DRAFT"
      BY <1>1 DEF PublicationInv, Unpublished
    <2>11. \A j, k \in Published(InvoiceOf[r])' : j = k
      <3>1. CASE f[2] = "acceptance"
        <4>1. \A m \in DOMAIN domainEvents[f] : domainEvents[f][m].class \notin Confirming
          BY <3>1 DEF PublicationInv, EventsInv
        <4> QED
          BY <2>10, <2>6, <2>7, <4>1, NotConfirming
      <3>2. CASE f[2] = "confirmation"
        <4>1. f[1] \in Processes /\ f = Object(f[1])
          BY <3>2 DEF Objects, Object
        <4>2. domainEvents[f] = <<>> \/ Len(domainEvents[f]) = 1
          BY <4>1 DEF PublicationInv, LeftBehind
        <4>3. DOMAIN l \subseteq {1}
          BY <2>6, <4>2
        <4>4. \A k \in Published(InvoiceOf[r])' : k = Len(dispatched) + 1
          BY <2>10, <2>7, <4>3, PublishedAfter
        <4> QED
          BY <4>4
      <3> QED
        BY <3>1, <3>2 DEF Objects
    <2>12. PublishedInv'
      <3> SUFFICES ASSUME NEW i \in Invoices, Published(i)' # {}
                   PROVE  /\ invoices'[i].status # "DRAFT"
                          /\ \A j, k \in Published(i)' : j = k
        BY DEF PublishedInv
      <3>1. CASE i = InvoiceOf[r]
        BY <1>1, <2>10, <2>11, <3>1 DEF Row
      <3>2. CASE i # InvoiceOf[r]
        BY <1>1, <2>8, <3>2, PublishedStays
      <3> QED
        BY <3>1, <3>2
    <2> QED
      BY <2>3, <2>4, <2>9, <2>12 DEF PublicationInv
  <1>5. InvoiceOf[r] \in Invoices
    BY Facts
  <1>6. \/ UNCHANGED <<domainEvents, dispatched>>
        \/ \E f \in Objects :
             /\ InvoiceOf[f[1]] = InvoiceOf[r]
             /\ dispatched' = dispatched \o
                  [k \in DOMAIN domainEvents[f] |-> P!Dispatch(domainEvents[f][k])]
             /\ domainEvents' = [domainEvents EXCEPT ![f] = <<>>]
    BY <1>1, <1>5, Dispatched, Zenon
  <1> QED
    BY <1>3, <1>4, <1>6, Zenon

(* An acceptance announces the invoice before anything else is raised for    *)
(* it, so whatever its dispatch finds confirms nothing.                      *)
LEMMA AnnouncedPublication ==
  ASSUME OneAtATime, IInv, RowInv, PublicationInv, NEW r \in Processes, AnnounceInvoice(r)
  PROVE  PublicationInv'
  <1> DEFINE a == <<r, "acceptance">>
  <1>1. Act(r) /\ pc[r] = "date written" /\ D!RaiseAndDispatch(a, "InvoiceCreated")
    BY DEF AnnounceInvoice, Act, AcceptStep
  <1>2. a \in Objects /\ a[1] = r /\ a[2] = "acceptance" /\ "InvoiceCreated" \in EventClasses
    BY DEF Objects, EventClasses
  <1> HIDE DEF a
  <1>3. PICK f \in Objects, e \in P!Event, l \in Seq(P!Event) :
           /\ InvoiceOf[f[1]] = InvoiceOf[a[1]]
           /\ e.source = a /\ e.class = "InvoiceCreated"
           /\ l = IF f = a THEN Append(domainEvents[a], e) ELSE domainEvents[f]
           /\ dispatched' = dispatched \o [k \in DOMAIN l |-> P!Dispatch(l[k])]
           /\ domainEvents' =
                [[domainEvents EXCEPT ![a] = Append(@, e)] EXCEPT ![f] = <<>>]
    BY <1>1, <1>2, Announced
  <1>4. domainEvents \in [Objects -> Seq(P!Event)]
    BY DispatcherTypes
  <1>5. \A q \in Processes : InvoiceOf[q] = InvoiceOf[r] => domainEvents[Object(q)] = <<>>
    <2>1. pc[r] \in Accepting
      BY <1>1 DEF Accepting
    <2> QED
      BY <2>1 DEF PublicationInv, LeftBehind
  <1>6. /\ DOMAIN Append(domainEvents[a], e) = 1..(Len(domainEvents[a]) + 1)
        /\ DOMAIN domainEvents[a] = 1..Len(domainEvents[a])
        /\ \A k \in 1..Len(domainEvents[a]) : Append(domainEvents[a], e)[k] = domainEvents[a][k]
        /\ Append(domainEvents[a], e)[Len(domainEvents[a]) + 1] = e
        /\ Len(domainEvents[a]) \in Nat
    BY <1>2, <1>4, P!AppendPlaces
  <1>7. \A k \in DOMAIN Append(domainEvents[a], e) :
          /\ Append(domainEvents[a], e)[k].source = a
          /\ Append(domainEvents[a], e)[k].class \notin Confirming
    <2> TAKE k \in DOMAIN Append(domainEvents[a], e)
    <2>1. CASE k = Len(domainEvents[a]) + 1
      BY <1>3, <1>6, <2>1 DEF Confirming
    <2>2. CASE k # Len(domainEvents[a]) + 1
      <3>1. k \in DOMAIN domainEvents[a] /\ Append(domainEvents[a], e)[k] = domainEvents[a][k]
        BY <1>6, <2>2
      <3> QED
        BY <1>2, <3>1 DEF PublicationInv, EventsInv
    <2> QED
      BY <2>1, <2>2
  <1>8. \A o \in Objects : domainEvents'[o] = IF o = f THEN <<>>
                                              ELSE IF o = a THEN Append(domainEvents[a], e)
                                              ELSE domainEvents[o]
    BY <1>2, <1>3, <1>4
  <1>9. EventsInv'
    <2> SUFFICES ASSUME NEW o \in Objects, NEW k \in DOMAIN domainEvents'[o]
                 PROVE  /\ domainEvents'[o][k].source = o
                        /\ o[2] = "acceptance" => domainEvents'[o][k].class \notin Confirming
      BY DEF EventsInv
    <2>1. CASE o = f
      BY <1>8, <2>1
    <2>2. CASE o # f /\ o = a
      BY <1>7, <1>8, <2>2
    <2>3. CASE o # f /\ o # a
      BY <1>8, <2>3 DEF PublicationInv, EventsInv
    <2> QED
      BY <2>1, <2>2, <2>3
  <1>10. \A m \in DOMAIN l : l[m].class \notin Confirming
    <2>1. CASE f = a
      BY <1>3, <1>7, <2>1
    <2>2. CASE f # a /\ f[2] = "acceptance"
      BY <1>3, <2>2 DEF PublicationInv, EventsInv
    <2>3. CASE f # a /\ f[2] = "confirmation"
      <3>1. f[1] \in Processes /\ f = Object(f[1])
        BY <2>3 DEF Objects, Object
      <3>2. l = <<>>
        BY <1>2, <1>3, <1>5, <2>3, <3>1
      <3> QED
        BY <3>2
    <2> QED
      BY <2>1, <2>2, <2>3 DEF Objects
  <1>11. \A i \in Invoices : Published(i)' = Published(i)
    BY <1>3, <1>10, NotConfirming
  <1>12. \A q \in Processes : domainEvents'[Object(q)] \in {domainEvents[Object(q)], <<>>}
    <2>1. \A q \in Processes : Object(q) \in Objects /\ Object(q) # a
      BY <1>2 DEF Object, Objects
    <2> QED
      BY <1>8, <2>1
  <1> QED
    BY <1>1, <1>9, <1>11, <1>12, NothingNew

LEMMA PublicationStep ==
  ASSUME OneAtATime, IInv, RowInv, PublicationInv, NEW r \in Processes, Act(r)
  PROVE  PublicationInv'
  BY Surroundings, QuietPublication, MarkedPublication, DispatchedPublication,
     AnnouncedPublication

LEMMA PublicationInit == Init => PublicationInv
  <1> SUFFICES ASSUME Init PROVE PublicationInv
    OBVIOUS
  <1>1. /\ dispatched = <<>> /\ domainEvents = [o \in Objects |-> <<>>]
        /\ pc = [r \in Processes |-> "idle"]
    BY DEF Init, D!DispatcherInit
  <1>2. \A o \in Objects : domainEvents[o] = <<>>
    BY <1>1
  <1>3. EventsInv
    BY <1>2 DEF EventsInv
  <1>4. \A i \in Invoices : Published(i) = {}
    BY <1>1 DEF Published
  <1>5. \A r \in Processes : LeftBehind(r)
    BY <1>2 DEF LeftBehind, Object, Objects
  <1>6. \A r \in Processes : Unpublished(r)
    BY <1>1 DEF Unpublished
  <1> QED
    BY <1>3, <1>4, <1>5, <1>6 DEF PublicationInv, PublishedInv

(* A restart forgets the events, not what was published.                     *)
LEMMA PublicationRestart ==
  ASSUME IInv, PublicationInv, Restart
  PROVE  PublicationInv'
  <1>1. /\ UNCHANGED <<invoices, dispatched>>
        /\ domainEvents' = [o \in Objects |-> <<>>]
        /\ pc' = [r \in Processes |-> IF InFlight(r) THEN "failed" ELSE pc[r]]
    BY DEF Restart, tables
  <1>2. \A o \in Objects : domainEvents'[o] = <<>>
    BY <1>1
  <1>3. EventsInv'
    BY <1>2 DEF EventsInv
  <1>4. \A i \in Invoices : Published(i)' = Published(i)
    BY <1>1 DEF Published
  <1>5. \A r \in Processes : LeftBehind(r)'
    BY <1>2 DEF LeftBehind, Object, Objects
  <1>6. \A r \in Processes : pc'[r] \notin {"marked", "written"}
    BY <1>1 DEF InFlight, ConfirmSteps
  <1>7. \A r \in Processes : Unpublished(r)'
    BY <1>6 DEF Unpublished
  <1> QED
    BY <1>1, <1>3, <1>4, <1>5, <1>7 DEF PublicationInv, PublishedInv

LEMMA PublicationNext ==
  ASSUME OneAtATime
  PROVE  IInv /\ RowInv /\ PublicationInv /\ [Next]_vars => PublicationInv'
  <1> SUFFICES ASSUME IInv, RowInv, PublicationInv, [Next]_vars
               PROVE  PublicationInv'
    OBVIOUS
  <1>1. ASSUME NEW r \in Processes, Act(r)
        PROVE  PublicationInv'
    BY <1>1, PublicationStep
  <1>2. CASE NewFiscalYear \/ UNCHANGED vars
    <2>1. UNCHANGED <<invoices, transactions, pc, invoice, domainEvents, dispatched>>
      BY <1>2 DEF NewFiscalYear, vars, tables, locals, dispatcher
    <2>2. \A i : Published(i)' = Published(i)
      BY <2>1 DEF Published
    <2>3. EventsInv' /\ PublishedInv'
      BY <2>1, <2>2 DEF PublicationInv, EventsInv, PublishedInv
    <2>4. \A r \in Processes : LeftBehind(r)' /\ Unpublished(r)'
      BY <2>1, <2>2 DEF PublicationInv, LeftBehind, Unpublished, Row, Object
    <2> QED
      BY <2>3, <2>4 DEF PublicationInv
  <1> QED
    BY <1>1, <1>2, PublicationRestart DEF Next, Act

(* The confirmation of an invoice is published at most once when executions  *)
(* on it are kept apart, whichever attempts fail, at whichever step, and     *)
(* leave their event and their mark behind.                                  *)
THEOREM PublishedOnceCorrect == Spec => []PublishedOnce
  <1>1. PublicationInv => PublishedOnce
    <2> SUFFICES ASSUME PublicationInv, NEW i \in Invoices
                 PROVE  Cardinality(Published(i)) <= 1
      BY DEF PublishedOnce
    <2>1. CASE Published(i) = {}
      BY <2>1, FS_EmptySet
    <2>2. CASE Published(i) # {}
      <3>1. PICK k \in Published(i) : TRUE
        BY <2>2
      <3>2. Published(i) = {k}
        BY <3>1 DEF PublicationInv, PublishedInv
      <3> QED
        BY <3>2, FS_Singleton
    <2> QED
      BY <2>1, <2>2
  <1>2. ASSUME OneAtATime
        PROVE  IInv /\ RowInv /\ NumberingInv /\ PublicationInv /\ [Next]_vars
                 => (IInv /\ RowInv /\ NumberingInv /\ PublicationInv)'
    BY <1>2, IInvNext, NumberingNext, PublicationNext
  <1>3. Init => IInv /\ RowInv /\ NumberingInv /\ PublicationInv
    BY IInvInit, NumberingInit, PublicationInit
  <1>4. CASE OneAtATime
    BY <1>1, <1>2, <1>3, <1>4, PTL DEF Spec
  <1>5. CASE ~OneAtATime
    <2>1. PublishedOnce
      BY <1>5 DEF PublishedOnce
    <2> QED
      BY <2>1, PTL
  <1> QED
    BY <1>4, <1>5
=============================================================================
