----------------------- MODULE ErpRegistrationProofs -----------------------
(* Type correctness, OncePerFailure and BooksAgree of the registration in the *)
(* ERP, for any sets of invoices and credit notes, any limit and number of     *)
(* failures.                                                                  *)
EXTENDS ErpRegistration, FiniteSetTheorems, TLAPS

-----------------------------------------------------------------------------
LEMMA NothingType ==
  Nothing \in [row : Entities, status : Statuses, confirmation : Values, value : Values]
  <1>1. (CHOOSE i \in Invoices : TRUE) \in Invoices
    BY InvoiceAssumption
  <1> QED
    BY <1>1 DEF Nothing, Entities, Statuses, Values

\* The invoice of a row, and what its documents belong to.
LEMMA InvoiceInType ==
  ASSUME NEW r \in Entities
  PROVE  /\ InvoiceIn(r) \in Invoices /\ Invoices \subseteq Entities
         /\ \A k : Entity(k, r) \in Entities
         /\ \A i \in Invoices : InvoiceIn(i) = i
  BY InvoiceAssumption DEF InvoiceIn, Entity, Entities

LEMMA LoadType ==
  ASSUME TypeOK, NEW r \in Entities, NEW value \in Values
  PROVE  Load(r, value) \in [row : Entities, status : Statuses,
                             confirmation : Values, value : Values]
  <1>1. InvoiceIn(r) \in Invoices /\ Invoices \subseteq Entities
    BY InvoiceInType
  <1>2. status[InvoiceIn(r)] \in Statuses /\ reference["invoice"][InvoiceIn(r)] \in Values
    <2>1. "invoice" \in Kinds /\ reference \in [Kinds -> [Entities -> Values]]
      BY DEF TypeOK, Kinds
    <2> QED
      BY <1>1, <2>1 DEF TypeOK
  <1>3. value \in Values
    OBVIOUS
  <1> QED
    BY <1>2, <1>3, Zenon DEF Load

LEMMA TypeInit == Init => TypeOK
  <1> SUFFICES ASSUME Init PROVE TypeOK
    OBVIOUS
  <1>1. status \in [Invoices -> Statuses]
    BY DEF Init
  <1>2. /\ documents \in [Kinds -> [Entities -> Nat]]
        /\ reference \in [Kinds -> [Entities -> Values]]
    BY DEF Init, Values
  <1>3. /\ job \in Kinds
        /\ failures \in 0..MaxFailures
    BY InvoiceAssumption DEF Init, Kinds
  <1> QED
    BY <1>1, <1>2, <1>3, NothingType DEF Init, TypeOK

LEMMA TypeActing ==
  ASSUME TypeOK, Acting
  PROVE  TypeOK'
  <1> USE DEF TypeOK, Others, scheduler, history, Statuses
  <1>1. ASSUME NEW i \in Invoices, ConfirmInvoice(i) PROVE TypeOK'
    BY <1>1 DEF ConfirmInvoice, Confirmed
  <1>2. ASSUME NEW i \in Invoices, CompletePayment(i) PROVE TypeOK'
    BY <1>2 DEF CompletePayment
  <1>3. ASSUME NEW n \in Notes, MarkAsFinal(n) PROVE TypeOK'
    <2>1. InvoiceOf[n] \in Invoices
      BY InvoiceAssumption
    <2> QED
      BY <1>3, <2>1 DEF MarkAsFinal
  <1>4. ASSUME NEW n \in Notes, SaveCreditNote(n) PROVE TypeOK'
    BY <1>4 DEF SaveCreditNote
  <1>5. ASSUME NEW i \in Invoices, PublishArticle(i) PROVE TypeOK'
    BY <1>5 DEF PublishArticle
  <1> QED
    BY <1>1, <1>2, <1>3, <1>4, <1>5 DEF Acting

LEMMA TypeLoading ==
  ASSUME TypeOK, NEW r \in Entities,
         \/ PublishInvoiceToErp(r) \/ PublishRevenueRecognitionToErp(r)
         \/ PublishCreditNoteToErp(r) \/ PublishPaymentToErp(r)
         \/ PublishRevenueRecognitionReversal(r)
  PROVE  TypeOK'
  <1>1. {"registered", "NON_INVOICEABLE", "BAD_DEBT"} \subseteq Values
    BY DEF Values
  <1>2. /\ held' \in [row : Entities, status : Statuses,
                      confirmation : Values, value : Values]
        /\ batch' \subseteq Entities
        /\ pc' \in {"select", "next"} \cup Steps
    <2> DEFINE Held == [row : Entities, status : Statuses,
                        confirmation : Values, value : Values]
    <2> HIDE DEF Held
    <2>1. Nothing \in Held /\ \A value \in Values : Load(r, value) \in Held
      BY NothingType, LoadType DEF Held
    <2>2. batch \subseteq Entities
      BY DEF TypeOK
    <2>3. CASE PublishInvoiceToErp(r)
      BY <1>1, <2>1, <2>2, <2>3 DEF PublishInvoiceToErp, UnlessBroken, GiveUp, Steps, Held
    <2>4. CASE PublishCreditNoteToErp(r)
      BY <1>1, <2>1, <2>2, <2>4 DEF PublishCreditNoteToErp, UnlessBroken, GiveUp, Steps, Held
    <2>5. CASE PublishRevenueRecognitionToErp(r) \/ PublishPaymentToErp(r)
      BY <1>1, <2>1, <2>2, <2>5
      DEF PublishRevenueRecognitionToErp, PublishPaymentToErp, Steps, Held
    <2>6. CASE PublishRevenueRecognitionReversal(r)
      BY <1>1, <2>1, <2>2, <2>6 DEF PublishRevenueRecognitionReversal, Steps, Held
    <2> QED
      BY <2>3, <2>4, <2>5, <2>6
  <1> QED
    BY <1>2
    DEF PublishInvoiceToErp, PublishRevenueRecognitionToErp, PublishCreditNoteToErp,
        PublishPaymentToErp, PublishRevenueRecognitionReversal, Reads, rows, history,
        TypeOK

LEMMA TypeWriteInvoice ==
  ASSUME TypeOK, NEW i \in Invoices, WriteInvoice(i)
  PROVE  /\ status' \in [Invoices -> Statuses] /\ reopened' \subseteq Invoices
         /\ UNCHANGED <<creditNote, paid, published, documents, reference, job,
                        failures, lost>>
  BY DEF TypeOK, WriteInvoice

LEMMA TypeCreate ==
  ASSUME TypeOK, NEW e \in Entities, Create(e)
  PROVE  documents' \in [Kinds -> [Entities -> Nat]]
  BY DEF TypeOK, Create

LEMMA TypeRunning ==
  ASSUME TypeOK, Running
  PROVE  TypeOK'
  <1>1. CASE Select
    BY <1>1 DEF Select, TypeOK, rows, history
  <1>2. CASE EndJob
    BY <1>2 DEF EndJob, NextJob, TypeOK, rows, history, Kinds
  <1>3. ASSUME NEW r \in Entities, Processing(r)
        PROVE  TypeOK'
    <2>1. CASE \/ PublishInvoiceToErp(r) \/ PublishRevenueRecognitionToErp(r)
               \/ PublishCreditNoteToErp(r) \/ PublishPaymentToErp(r)
               \/ PublishRevenueRecognitionReversal(r)
      BY <2>1, TypeLoading
    <2>2. CASE UpdateInvoice(r)
      BY <1>3, <2>2, TypeWriteInvoice, InvoiceInType DEF UpdateInvoice, TypeOK, Steps, Values
    <2>3. CASE RegisterInErp(r)
      BY <2>3, TypeCreate, InvoiceInType DEF RegisterInErp, TypeOK, Steps, rows, history
    <2>4. CASE SaveReference(r)
      BY <2>4, NothingType
      DEF SaveReference, AfterSave, Finish, TypeOK, Steps, rows, history
    <2>5. CASE WriteBack(r)
      BY <2>5, NothingType, TypeWriteInvoice, InvoiceInType DEF WriteBack, Finish, TypeOK
    <2> QED
      BY <1>3, <2>1, <2>2, <2>3, <2>4, <2>5 DEF Processing
  <1>4. ASSUME NEW r \in Entities, Failing(r)
        PROVE  TypeOK'
    <2>1. CASE RegistrationFails(r)
      <3>1. documents' \in [Kinds -> [Entities -> Nat]] /\ lost' \subseteq Invoices
        BY <2>1, TypeCreate, InvoiceInType DEF RegistrationFails, Lose, TypeOK
      <3>2. failures' \in 0..MaxFailures
        <4>1. failures < MaxFailures /\ failures' = failures + 1
          BY <2>1 DEF RegistrationFails
        <4> QED
          BY <4>1, InvoiceAssumption DEF TypeOK
      <3> QED
        BY <2>1, <3>1, <3>2, NothingType
        DEF RegistrationFails, GiveUp, TypeOK, Steps, Values, rows
    <2>2. CASE SaveFails(r)
      <3>1. failures' \in 0..MaxFailures
        BY <2>2, InvoiceAssumption DEF SaveFails, TypeOK
      <3>2. lost' \subseteq Invoices
        BY <2>2, InvoiceInType DEF SaveFails, Lose, TypeOK
      <3> QED
        BY <2>2, <3>1, <3>2, NothingType
        DEF SaveFails, AfterSave, Finish, TypeOK, Steps, rows
    <2> QED
      BY <1>4, <2>1, <2>2 DEF Failing
  <1> QED
    BY <1>1, <1>2, <1>3, <1>4 DEF Running

LEMMA TypeRestart ==
  ASSUME TypeOK, Restart
  PROVE  TypeOK'
  <1>1. held.row \in Entities
    BY DEF TypeOK
  <1>2. documents' \in [Kinds -> [Entities -> Nat]] /\ lost' \subseteq Invoices
    BY <1>1, TypeCreate, InvoiceInType DEF Restart, Lose, TypeOK
  <1>3. failures' \in 0..MaxFailures
    BY InvoiceAssumption DEF Restart, TypeOK
  <1> QED
    BY <1>2, <1>3, NothingType DEF Restart, TypeOK, rows, Kinds

LEMMA TypeNext == TypeOK /\ [Next]_vars => TypeOK'
  <1> SUFFICES ASSUME TypeOK, [Next]_vars PROVE TypeOK'
    OBVIOUS
  <1>1. CASE Next
    BY <1>1, TypeRunning, TypeRestart, TypeActing DEF Next
  <1>2. CASE UNCHANGED vars
    BY <1>2 DEF vars, rows, scheduler, history, TypeOK
  <1> QED
    BY <1>1, <1>2

\* Every variable keeps its type: in particular the scheduler is always at one
\* of the five jobs, and no more failures happen than the bound allows.
THEOREM TypeCorrect == Spec => []TypeOK
  BY TypeInit, TypeNext, PTL DEF Spec

-----------------------------------------------------------------------------
\* What the selection of a job says of its rows stays true until they are done:
\* nobody else writes references, and no credit note is ever taken back. Only a
\* reversal may find one of another row of its batch.
RowInv(r) ==
  /\ job # "reversal" => ~Registered(job, r)
  /\ job = "invoice" =>
       /\ r \in Invoices
       /\ \A n \in Notes : InvoiceOf[n] = r => ~Registered("creditNote", n)
  /\ job \in {"recognition", "payment"} =>
       r \in Invoices /\ reference["invoice"][r] = "registered"
  /\ job = "creditNote" => r \in Notes /\ Saved(r)
  /\ job = "reversal" => /\ r \in Notes /\ Registered("creditNote", r)
                         /\ Registered("recognition", InvoiceOf[r])

BatchInv ==
  /\ pc = "select" => batch = {}
  /\ pc \in Steps => held.row \in batch
  /\ \A r \in batch : RowInv(r)

\* What the scheduler holds while it publishes one row.
StepInv ==
  /\ pc \in {"update", "register"} => held.value = "registered"
  /\ pc = "write back" => job = "reversal"
  /\ pc = "update" => job \in {"invoice", "recognition", "creditNote"}
  /\ pc \in {"update", "register"} /\ job = "invoice" => held.row \notin Free
  /\ pc \in Steps /\ job = "creditNote" =>
       held.confirmation = reference["invoice"][InvoiceIn(held.row)]
  /\ pc = "register" /\ job = "creditNote" => held.confirmation \notin {"none", "NON_INVOICEABLE"}
  /\ pc = "save" =>
       /\ held.value = "registered" => documents[job][Entity(job, held.row)] > 0
       /\ job = "invoice" => \/ held.value = "registered" /\ held.row \notin Free
                             \/ held.value = "NON_INVOICEABLE" /\ held.row \in Free
       /\ job \in {"recognition", "payment"} => held.value = "registered"
       /\ job = "creditNote" => \/ held.value = "registered"
                                \/ /\ held.value = "NONEXISTENT_INVOICE"
                                   /\ held.confirmation \in {"none", "NON_INVOICEABLE"}
       /\ job = "reversal" => held.value \in {"registered", "BAD_DEBT", "object Object"}

\* Which references a row may have, and which of them go together.
ReferenceInv ==
  /\ \A i \in Invoices :
       /\ reference["invoice"][i] \in {"none", "registered", "NON_INVOICEABLE"}
       /\ reference["recognition"][i] \in {"none", "registered"}
       /\ Registered("recognition", i) => reference["invoice"][i] = "registered"
  /\ \A n \in Notes :
       /\ reference["creditNote"][n] \in {"none", "registered", "NONEXISTENT_INVOICE"}
       /\ Registered("creditNote", n) => Saved(n)
       /\ reference["creditNote"][n] = "NONEXISTENT_INVOICE" =>
            reference["invoice"][InvoiceOf[n]] # "registered"
  /\ \A k \in Kinds, e \in Entities : reference[k][e] = "registered" => documents[k][e] > 0

Saving(k, e) == job = k /\ pc = "save" /\ Entity(k, held.row) = e

\* A document without a reference is about to get one, or a failure has paid
\* for it.
CountInv ==
  \A e \in Entities :
    /\ \A k \in Kinds \ {"reversal"} : /\ documents[k][e] <= failures + 1
                                       /\ \/ documents[k][e] <= failures
                                          \/ Registered(k, e) \/ Saving(k, e)
    /\ documents["recognition"][e] <= 1
    /\ documents["payment"][e] <= 1

DocumentInv ==
  /\ \A i \in Invoices :
       /\ documents["invoice"][i] > 0 => /\ i \notin Free
                                         /\ \/ reference["invoice"][i] = "registered"
                                            \/ i \in lost \/ Saving("invoice", i)
       /\ \A k \in {"recognition", "payment", "reversal"} :
            documents[k][i] > 0 => documents["invoice"][i] > 0
       /\ documents["reversal"][i] > 0 =>
            /\ documents["recognition"][i] > 0
            /\ \E n \in RegisteredNotes(i) : documents["creditNote"][n] > 0
  /\ \A n \in Notes : documents["creditNote"][n] > 0 => documents["invoice"][InvoiceOf[n]] > 0

\* The rows of an invoice that may still lead to a reversal of it.
Waiting(i) ==
  {n \in batch : /\ job = "reversal" /\ InvoiceIn(n) = i
                 /\ ~(pc \in {"save", "write back"} /\ held.row = n)}

\* Before the first reference every reversal has cost a failure; after it, only
\* the rows selected together with the first one can lead to more.
ReversalOf(i) ==
  /\ Registered("reversal", i) =>
       documents["reversal"][i] + Cardinality(Waiting(i))
         <= failures + Cardinality(RegisteredNotes(i))
  /\ ~Registered("reversal", i) =>
       \/ documents["reversal"][i] <= failures
       \/ Saving("reversal", i) /\ documents["reversal"][i] <= failures + 1

ReversalInv == \A i \in Invoices : ReversalOf(i)

IInv == TypeOK /\ BatchInv /\ StepInv /\ ReferenceInv /\ CountInv /\ DocumentInv /\ ReversalInv

-----------------------------------------------------------------------------
(* Steps that touch neither references nor documents.                         *)

LEMMA IInvInit == Init => IInv
  <1> SUFFICES ASSUME Init PROVE IInv
    OBVIOUS
  <1>1. /\ \A k \in Kinds, e \in Entities : documents[k][e] = 0 /\ reference[k][e] = "none"
        /\ {"invoice", "recognition", "creditNote", "payment", "reversal"} \subseteq Kinds
        /\ pc = "select" /\ batch = {} /\ failures = 0
        /\ Invoices \subseteq Entities /\ Notes \subseteq Entities
    BY DEF Init, Kinds, Entities
  <1>2. BatchInv /\ StepInv
    BY <1>1 DEF BatchInv, StepInv, Steps
  <1>3. ReferenceInv /\ CountInv /\ DocumentInv
    BY <1>1 DEF ReferenceInv, CountInv, DocumentInv, Registered
  <1>4. ReversalInv
    BY <1>1 DEF ReversalInv, ReversalOf, Registered
  <1> QED
    BY <1>2, <1>3, <1>4, TypeInit DEF IInv

\* The kinds, and the notes and invoices among the entities.
LEMMA KindsAndEntities ==
  /\ Kinds = {"invoice", "recognition", "creditNote", "payment", "reversal"}
  /\ Invoices \subseteq Entities /\ Notes \subseteq Entities
  /\ \A n \in Notes : InvoiceOf[n] \in Invoices /\ InvoiceIn(n) = InvoiceOf[n] /\ n \notin Invoices
  /\ \A i \in Invoices : InvoiceIn(i) = i
  /\ \A r : Entity("reversal", r) = InvoiceIn(r)
  /\ \A k, r : k # "reversal" => Entity(k, r) = r
  BY InvoiceAssumption DEF Kinds, Entities, InvoiceIn, Entity

\* The rows of the others: a credit note, once saved, stays.
LEMMA OthersKeep ==
  ASSUME IInv,
         UNCHANGED <<documents, reference, job, batch, pc, held, failures, lost>>,
         \A n \in Notes : Saved(n) => Saved(n)'
  PROVE  (BatchInv /\ StepInv /\ ReferenceInv /\ CountInv /\ DocumentInv)'
  <1>2. BatchInv'
    BY DEF IInv, BatchInv, RowInv, Registered
  <1>3. StepInv'
    BY DEF IInv, StepInv, InvoiceIn, Entity
  <1>4. ReferenceInv'
    BY DEF IInv, ReferenceInv, Registered
  <1>5. CountInv'
    BY DEF IInv, CountInv, Saving, Registered, Entity, InvoiceIn
  <1>6. DocumentInv'
    BY DEF IInv, DocumentInv, Saving, Registered, RegisteredNotes, Entity, InvoiceIn
  <1> QED
    BY <1>2, <1>3, <1>4, <1>5, <1>6

LEMMA ActingKeeps ==
  ASSUME IInv, Acting
  PROVE  /\ (BatchInv /\ StepInv /\ ReferenceInv /\ CountInv /\ DocumentInv)'
         /\ UNCHANGED <<documents, reference, job, batch, pc, held, failures>>
  <1>1. UNCHANGED <<documents, reference, job, batch, pc, held, failures, lost>>
    BY DEF Acting, ConfirmInvoice, CompletePayment, MarkAsFinal, SaveCreditNote,
           PublishArticle, Others, scheduler, history
  <1>2. creditNote \in [Notes -> {"none", "announced", "bad-debt", "other"}]
    BY DEF IInv, TypeOK
  <1>3. \A n \in Notes : Saved(n) => creditNote'[n] = creditNote[n]
    BY <1>2 DEF Acting, ConfirmInvoice, CompletePayment, MarkAsFinal,
                SaveCreditNote, PublishArticle, Saved
  <1> QED
    BY <1>1, <1>3, OthersKeep DEF Saved

\* A step of the scheduler that leaves references and documents alone, and does
\* not give up the saving of one.
LEMMA QuietStep ==
  ASSUME IInv, UNCHANGED <<documents, reference, failures, lost, creditNote>>,
         pc # "save"
  PROVE  (ReferenceInv /\ CountInv /\ DocumentInv)'
  <1>1. ReferenceInv'
    BY DEF IInv, ReferenceInv, Registered, Saved
  <1>2. CountInv'
    BY DEF IInv, CountInv, Registered, Saving
  <1>3. DocumentInv'
    BY DEF IInv, DocumentInv, Saving, RegisteredNotes, Registered
  <1> QED
    BY <1>1, <1>2, <1>3

LEMMA SelectKeeps ==
  ASSUME IInv, Select
  PROVE  (BatchInv /\ StepInv /\ ReferenceInv /\ CountInv /\ DocumentInv)'
  <1>1. /\ pc = "select" /\ pc' = "next"
        /\ UNCHANGED <<documents, reference, failures, lost, creditNote, job, held>>
        /\ \A r \in batch' : r \in Entities /\ Ready(job, r)
    BY DEF Select, rows, history
  <1>2. ASSUME NEW r \in batch' PROVE RowInv(r)
    <2>1. r \in Entities /\ Ready(job, r)
      BY <1>1
    <2>2. job # "reversal" => ~Registered(job, r)
      BY <2>1, KindsAndEntities DEF Ready
    <2>3. ASSUME job = "invoice"
          PROVE  /\ r \in Invoices
                 /\ \A n \in Notes : InvoiceOf[n] = r => ~Registered("creditNote", n)
      BY <2>1, <2>3 DEF IInv, ReferenceInv, Ready, ReadyForRegistration, Issuable, Credited
    <2>4. job \in {"recognition", "payment"} =>
            r \in Invoices /\ reference["invoice"][r] = "registered"
      BY <2>1 DEF IInv, TypeOK, Ready, ReadyForRecognition, ReadyPayment
    <2>5. job = "creditNote" => r \in Notes /\ Saved(r)
      BY <2>1 DEF Ready
    <2>6. job = "reversal" => /\ r \in Notes /\ Registered("creditNote", r)
                              /\ Registered("recognition", InvoiceOf[r])
      BY <2>1 DEF Ready, ReadyForReversal
    <2> QED
      BY <2>2, <2>3, <2>4, <2>5, <2>6 DEF RowInv
  <1>3. BatchInv'
    BY <1>1, <1>2 DEF BatchInv, RowInv, Registered, Saved, Steps
  <1>4. StepInv'
    BY <1>1 DEF StepInv, Steps
  <1> QED
    BY <1>1, <1>3, <1>4, QuietStep

LEMMA EndJobKeeps ==
  ASSUME IInv, EndJob
  PROVE  (BatchInv /\ StepInv /\ ReferenceInv /\ CountInv /\ DocumentInv)'
  <1>1. /\ pc = "next" /\ pc' = "select" /\ batch = {} /\ batch' = {}
        /\ UNCHANGED <<documents, reference, failures, lost, creditNote>>
    BY DEF EndJob, rows, history
  <1>2. BatchInv' /\ StepInv'
    BY <1>1 DEF BatchInv, StepInv, Steps
  <1> QED
    BY <1>1, <1>2, QuietStep

\* The loop has done, or given up, a row of the batch; only a reference of this
\* job has changed, at the entity of that row.
LEMMA DoneKeeps ==
  ASSUME IInv, NEW r \in Entities, batch' = batch \ {r}, pc' = "next", job' = job,
         UNCHANGED creditNote,
         \A k \in Kinds, e \in Entities :
           k # job \/ e # Entity(job, r) => reference'[k][e] = reference[k][e]
  PROVE  BatchInv' /\ StepInv'
  <1>1. BatchInv'
    <2>1. ASSUME NEW q \in batch \ {r}
          PROVE  RowInv(q)'
      <3>1. RowInv(q) /\ q \in Entities /\ job \in Kinds
        BY DEF IInv, BatchInv, TypeOK
      <3>2. job # "reversal" => ~Registered(job, q)'
        BY <3>1, KindsAndEntities DEF RowInv, Registered
      <3>3. ASSUME job \notin {"creditNote"}, NEW n \in Notes
            PROVE  Registered("creditNote", n)' <=> Registered("creditNote", n)
        BY <3>3, KindsAndEntities DEF Registered
      <3>4. ASSUME job # "invoice" PROVE \A i \in Invoices : reference'["invoice"][i] = reference["invoice"][i]
        BY <3>4, KindsAndEntities
      <3>5. ASSUME job # "recognition"
            PROVE  \A i \in Invoices : Registered("recognition", i)' <=> Registered("recognition", i)
        BY <3>5, KindsAndEntities DEF Registered
      <3> QED
        BY <3>1, <3>2, <3>3, <3>4, <3>5, KindsAndEntities DEF RowInv, Saved
    <2> QED
      BY <2>1 DEF BatchInv, Steps
  <1>2. StepInv'
    BY DEF StepInv, Steps
  <1> QED
    BY <1>1, <1>2

LEMMA LoadingKeeps ==
  ASSUME IInv, NEW r \in Entities,
         \/ PublishInvoiceToErp(r) \/ PublishRevenueRecognitionToErp(r)
         \/ PublishCreditNoteToErp(r) \/ PublishPaymentToErp(r)
         \/ PublishRevenueRecognitionReversal(r)
  PROVE  (BatchInv /\ StepInv /\ ReferenceInv /\ CountInv /\ DocumentInv)'
  <1>1. /\ pc = "next" /\ r \in batch
        /\ UNCHANGED <<documents, reference, failures, lost, creditNote, job>>
    <2>1. Reads /\ pc = "next" /\ r \in batch
      BY Zenon DEF PublishInvoiceToErp, PublishRevenueRecognitionToErp,
                   PublishCreditNoteToErp, PublishPaymentToErp,
                   PublishRevenueRecognitionReversal, Starts
    <2> QED
      BY <2>1 DEF Reads, rows, history
  <1>2. ReferenceInv' /\ CountInv' /\ DocumentInv'
    BY <1>1, QuietStep
  <1>3. CASE GiveUp(r)
    BY <1>1, <1>2, <1>3, DoneKeeps DEF GiveUp
  <1>4. CASE ~GiveUp(r)
    <2>1. /\ pc' \in Steps \ {"write back"} /\ UNCHANGED batch
          /\ held'.row = r /\ held'.confirmation = reference["invoice"][InvoiceIn(r)]
      <3>1. \A value : /\ Load(r, value).row = r
                       /\ Load(r, value).confirmation = reference["invoice"][InvoiceIn(r)]
        BY DEF Load
      <3>2. /\ pc' \in Steps \ {"write back"} /\ UNCHANGED batch
            /\ \E value : held' = Load(r, value)
        BY <1>4, Zenon
        DEF PublishInvoiceToErp, PublishRevenueRecognitionToErp, PublishCreditNoteToErp,
            PublishPaymentToErp, PublishRevenueRecognitionReversal, UnlessBroken, Steps
      <3> QED
        BY <3>1, <3>2
    <2>2. BatchInv'
      BY <1>1, <2>1 DEF IInv, BatchInv, RowInv, Registered, Saved, Steps
    <2>3. \/ pc' = "update" /\ job = "invoice" /\ r \notin Free /\ held'.value = "registered"
          \/ pc' = "save" /\ job = "invoice" /\ r \in Free /\ held'.value = "NON_INVOICEABLE"
          \/ pc' = "update" /\ job \in {"recognition", "creditNote"} /\ held'.value = "registered"
          \/ pc' = "register" /\ job \in {"payment", "reversal"} /\ held'.value = "registered"
          \/ pc' = "save" /\ job = "reversal" /\ held'.value = "BAD_DEBT"
      <3>1. \A value : Load(r, value).value = value
        BY DEF Load
      <3>2. CASE PublishInvoiceToErp(r)
        BY <1>4, <3>1, <3>2 DEF PublishInvoiceToErp, UnlessBroken, Starts
      <3>3. CASE PublishRevenueRecognitionToErp(r)
        BY <3>1, <3>3 DEF PublishRevenueRecognitionToErp, Starts
      <3>4. CASE PublishCreditNoteToErp(r)
        BY <1>4, <3>1, <3>4 DEF PublishCreditNoteToErp, UnlessBroken, Starts
      <3>5. CASE PublishPaymentToErp(r)
        BY <3>1, <3>5 DEF PublishPaymentToErp, Starts
      <3>6. CASE PublishRevenueRecognitionReversal(r)
        BY <3>1, <3>6 DEF PublishRevenueRecognitionReversal, Starts
      <3> QED
        BY <3>2, <3>3, <3>4, <3>5, <3>6
    <2>4. StepInv'
      BY <1>1, <2>1, <2>3 DEF StepInv, Steps, InvoiceIn
    <2> QED
      BY <1>2, <2>2, <2>4
  <1> QED
    BY <1>3, <1>4

LEMMA UpdateInvoiceKeeps ==
  ASSUME IInv, NEW r \in Entities, UpdateInvoice(r)
  PROVE  (BatchInv /\ StepInv /\ ReferenceInv /\ CountInv /\ DocumentInv)'
  <1>1. /\ pc = "update" /\ held.row = r
        /\ UNCHANGED <<documents, reference, failures, lost, creditNote, job, batch>>
    BY DEF UpdateInvoice, WriteInvoice
  <1>2. \/ /\ job = "creditNote" /\ held.confirmation \in {"none", "NON_INVOICEABLE"}
           /\ pc' = "save" /\ held' = [held EXCEPT !.value = "NONEXISTENT_INVOICE"]
        \/ /\ job = "creditNote" => held.confirmation \notin {"none", "NON_INVOICEABLE"}
           /\ pc' = "register" /\ held' = held
    BY DEF UpdateInvoice, Nonexistent
  <1>3. /\ held'.row = r /\ held'.confirmation = held.confirmation
        /\ held'.value = IF pc' = "save" THEN "NONEXISTENT_INVOICE" ELSE held.value
    BY <1>1, <1>2 DEF IInv, TypeOK
  <1>4. BatchInv'
    BY <1>1, <1>2, <1>3 DEF IInv, BatchInv, RowInv, Registered, Saved, Steps
  <1>5. StepInv'
    BY <1>1, <1>2, <1>3 DEF IInv, StepInv, Steps, InvoiceIn
  <1> QED
    BY <1>1, <1>4, <1>5, QuietStep

LEMMA WriteBackKeeps ==
  ASSUME IInv, NEW r \in Entities, WriteBack(r)
  PROVE  (BatchInv /\ StepInv /\ ReferenceInv /\ CountInv /\ DocumentInv)'
  <1>1. /\ pc = "write back" /\ held.row = r
        /\ UNCHANGED <<documents, reference, failures, lost, creditNote, job>>
        /\ batch' = batch \ {r} /\ pc' = "next"
    BY DEF WriteBack, WriteInvoice, Finish
  <1> QED
    BY <1>1, DoneKeeps, QuietStep

-----------------------------------------------------------------------------
(* The calls to the ERP and the saving of references.                         *)

\* What the ERP may be asked for, by what the selection has found.
LEMMA CallIsInOrder ==
  ASSUME IInv, NEW r \in Entities, pc = "register", held.row = r
  PROVE  /\ r \in batch /\ RowInv(r)
         /\ job = "invoice" => r \notin Free
         /\ job # "invoice" => documents["invoice"][InvoiceIn(r)] > 0
         /\ job = "reversal" => /\ documents["recognition"][InvoiceIn(r)] > 0
                                /\ r \in RegisteredNotes(InvoiceIn(r))
                                /\ documents["creditNote"][r] > 0
  <1>1. r \in batch /\ RowInv(r)
    BY DEF IInv, BatchInv, Steps
  <1>2. job = "invoice" => r \notin Free
    BY DEF IInv, StepInv
  <1>3. \A k \in Kinds, e \in Entities : reference[k][e] = "registered" => documents[k][e] > 0
    BY DEF IInv, ReferenceInv
  <1>4. job \in Kinds
    BY DEF IInv, TypeOK
  <1>5. job \in {"recognition", "payment"} => documents["invoice"][InvoiceIn(r)] > 0
    BY <1>1, <1>3, KindsAndEntities DEF RowInv
  <1>6. job = "creditNote" => documents["invoice"][InvoiceIn(r)] > 0
    <2> SUFFICES ASSUME job = "creditNote"
                 PROVE  reference["invoice"][InvoiceIn(r)] = "registered"
      BY <1>3, KindsAndEntities, InvoiceInType
    <2>1. reference["invoice"][InvoiceIn(r)] \notin {"none", "NON_INVOICEABLE"}
      BY DEF IInv, StepInv, Steps
    <2> QED
      BY <2>1, InvoiceInType DEF IInv, ReferenceInv
  <1>7. ASSUME job = "reversal"
        PROVE  /\ documents["invoice"][InvoiceIn(r)] > 0
               /\ documents["recognition"][InvoiceIn(r)] > 0
               /\ r \in RegisteredNotes(InvoiceIn(r))
               /\ documents["creditNote"][r] > 0
    <2>1. /\ r \in Notes /\ Registered("creditNote", r)
          /\ Registered("recognition", InvoiceOf[r])
      BY <1>1, <1>7 DEF RowInv
    <2>2. InvoiceIn(r) = InvoiceOf[r] /\ InvoiceOf[r] \in Invoices
      BY <2>1, KindsAndEntities
    <2>3. /\ reference["invoice"][InvoiceOf[r]] = "registered"
          /\ reference["recognition"][InvoiceOf[r]] = "registered"
          /\ reference["creditNote"][r] = "registered"
      BY <2>1, <2>2 DEF IInv, ReferenceInv, Registered
    <2> QED
      BY <1>3, <2>1, <2>2, <2>3, KindsAndEntities DEF RegisteredNotes
  <1> QED
    BY <1>1, <1>2, <1>4, <1>5, <1>6, <1>7, KindsAndEntities

\* The effect of a call on the counts of documents.
LEMMA CreateCounts ==
  ASSUME IInv, NEW r \in Entities, pc = "register", held.row = r, Create(Entity(job, r))
  PROVE  /\ documents' \in [Kinds -> [Entities -> Nat]]
         /\ documents'[job][Entity(job, r)] > 0
         /\ job # "reversal" => documents'[job][r] <= failures + 1
         /\ job = "reversal" =>
              documents'[job][InvoiceIn(r)] = documents[job][InvoiceIn(r)] + 1
         /\ job \in {"recognition", "payment"} => documents'[job][r] <= 1
         /\ \A k \in Kinds, e \in Entities : documents'[k][e] >= documents[k][e]
         /\ \A k \in Kinds, e \in Entities :
              k # job \/ e # Entity(job, r) => documents'[k][e] = documents[k][e]
  <1> DEFINE x == Entity(job, r)
  <1>1. /\ documents \in [Kinds -> [Entities -> Nat]] /\ documents' \in [Kinds -> [Entities -> Nat]]
        /\ job \in Kinds /\ failures \in Nat /\ MaxFailures \in Nat /\ x \in Entities
    BY TypeCreate, InvoiceAssumption, InvoiceInType DEF IInv, TypeOK
  <1>2. /\ job # "reversal" => x = r
        /\ job = "reversal" => x = InvoiceIn(r)
        /\ {"recognition", "payment", "reversal"} \subseteq Kinds
    BY KindsAndEntities
  <1> HIDE DEF x
  <1>3. job # "reversal" => documents[job][r] <= failures
    <2> SUFFICES ASSUME job # "reversal" PROVE documents[job][r] <= failures
      OBVIOUS
    <2>1. ~Registered(job, r) /\ ~Saving(job, r)
      BY CallIsInOrder DEF RowInv, Saving
    <2> QED
      BY <1>1, <2>1 DEF IInv, CountInv
  <1>4. documents[job][x] \in Nat
    BY <1>1
  <1>5. job \in {"recognition", "payment"} => documents[job][r] <= 1
    BY DEF IInv, CountInv
  <1>6. CASE Found(x)
    <2>1. documents' = documents /\ documents[job][x] > 0 /\ job # "reversal"
      BY <1>1, <1>6 DEF Create, Found, x
    <2> QED
      BY <1>1, <1>2, <1>3, <1>4, <1>5, <2>1 DEF x
  <1>7. CASE ~Found(x)
    <2>1. documents' = [documents EXCEPT ![job][x] = @ + 1]
      BY <1>7 DEF Create, x
    <2>2. documents'[job][x] = documents[job][x] + 1
      BY <1>1, <2>1
    <2>3. \A k \in Kinds, e \in Entities :
            k # job \/ e # x => documents'[k][e] = documents[k][e]
      BY <1>1, <2>1
    <2>4. job \in {"recognition", "payment"} => documents[job][r] = 0
      BY <1>2, <1>4, <1>5, <1>7 DEF Found
    <2>5. \A k \in Kinds, e \in Entities : documents'[k][e] >= documents[k][e]
      <3> SUFFICES ASSUME NEW k \in Kinds, NEW e \in Entities
                   PROVE  documents'[k][e] >= documents[k][e]
        OBVIOUS
      <3>1. documents[k][e] \in Nat
        BY <1>1
      <3> QED
        BY <1>4, <2>2, <2>3, <3>1
    <2>6. /\ documents'[job][x] > 0
          /\ job # "reversal" => documents'[job][r] <= failures + 1
          /\ job \in {"recognition", "payment"} => documents'[job][r] <= 1
      BY <1>1, <1>2, <1>3, <1>4, <2>2, <2>4
    <2> QED
      BY <1>1, <1>2, <2>2, <2>3, <2>5, <2>6 DEF x
  <1> QED
    BY <1>6, <1>7

\* After the call: with its answer (to be saved next), or with a failure.
LEMMA AfterCall ==
  ASSUME IInv, NEW r \in Entities, pc = "register", held.row = r, Create(Entity(job, r)),
         UNCHANGED <<reference, creditNote>>, failures' \in Nat, lost \subseteq lost',
         \/ pc' = "save" /\ UNCHANGED job /\ held'.row = r /\ failures' = failures
         \/ failures' = failures + 1 /\ (job = "invoice" /\ r \notin Free => r \in lost')
  PROVE  (ReferenceInv /\ CountInv /\ DocumentInv)'
  <1>1. /\ documents \in [Kinds -> [Entities -> Nat]] /\ failures \in Nat /\ job \in Kinds
        /\ documents' \in [Kinds -> [Entities -> Nat]]
    BY InvoiceAssumption, CreateCounts DEF IInv, TypeOK
  <1>2. ReferenceInv'
    <2> SUFFICES ASSUME NEW k \in Kinds, NEW e \in Entities, reference[k][e] = "registered"
                 PROVE  documents'[k][e] > 0
      BY DEF IInv, ReferenceInv, Registered, Saved
    <2>1. documents[k][e] > 0 /\ documents'[k][e] >= documents[k][e]
      BY CreateCounts DEF IInv, ReferenceInv
    <2>2. documents[k][e] \in Nat /\ documents'[k][e] \in Nat
      BY <1>1
    <2> QED
      BY <2>1, <2>2
  <1>3. CountInv'
    <2>1. ASSUME NEW e \in Entities, NEW k \in Kinds \ {"reversal"}
          PROVE  /\ documents'[k][e] <= failures' + 1
                 /\ \/ documents'[k][e] <= failures'
                    \/ Registered(k, e)' \/ Saving(k, e)'
      <3>1. documents[k][e] \in Nat /\ documents'[k][e] \in Nat
        BY <1>1
      <3>2. CASE k = job /\ e = Entity(job, r)
        <4>1. e = r /\ documents'[k][e] <= failures + 1
          BY <3>2, CreateCounts, KindsAndEntities
        <4>2. pc' = "save" /\ job' = job /\ held'.row = r => Saving(k, e)'
          BY <3>2, <4>1, KindsAndEntities DEF Saving
        <4> QED
          BY <1>1, <3>1, <4>1, <4>2
      <3>3. CASE k # job \/ e # Entity(job, r)
        <4>1. documents'[k][e] = documents[k][e]
          BY <3>3, CreateCounts
        <4>2. /\ documents[k][e] <= failures + 1
              /\ documents[k][e] <= failures \/ Registered(k, e)
          BY DEF IInv, CountInv, Saving
        <4>3. failures <= failures'
          BY <1>1
        <4>4. Registered(k, e)' <=> Registered(k, e)
          BY DEF Registered
        <4> QED
          BY <1>1, <3>1, <4>1, <4>2, <4>3, <4>4
      <3> QED
        BY <3>2, <3>3
    <2>2. ASSUME NEW e \in Entities, NEW k \in {"recognition", "payment"}
          PROVE  documents'[k][e] <= 1
      <3>1. documents[k][e] <= 1 /\ k \in Kinds
        BY KindsAndEntities DEF IInv, CountInv
      <3>2. CASE k = job /\ e = r
        BY <3>2, CreateCounts
      <3>3. CASE k # job \/ e # r
        <4>1. documents'[k][e] = documents[k][e]
          BY <3>1, <3>3, CreateCounts, KindsAndEntities
        <4> QED
          BY <3>1, <4>1
      <3> QED
        BY <3>2, <3>3
    <2> QED
      BY <2>1, <2>2 DEF CountInv
  <1>4. DocumentInv'
    <2>1. \A k \in Kinds, e \in Entities :
            /\ documents[k][e] \in Nat /\ documents'[k][e] \in Nat
            /\ documents'[k][e] >= documents[k][e]
      BY <1>1, CreateCounts
    <2>2. ASSUME NEW i \in Invoices, documents'["invoice"][i] > 0
          PROVE  /\ i \notin Free
                 /\ \/ reference["invoice"][i] = "registered"
                    \/ i \in lost' \/ Saving("invoice", i)'
      <3>1. CASE job = "invoice" /\ i = r
        BY <3>1, CallIsInOrder, KindsAndEntities DEF Saving
      <3>2. CASE ~(job = "invoice" /\ i = r)
        <4>1. documents'["invoice"][i] = documents["invoice"][i]
          BY <3>2, CreateCounts, KindsAndEntities
        <4> QED
          BY <2>2, <4>1 DEF IInv, DocumentInv, Saving
      <3> QED
        BY <3>1, <3>2
    <2>3. ASSUME NEW i \in Invoices, documents["invoice"][i] > 0
          PROVE  documents'["invoice"][i] > 0
      BY <2>1, <2>3, KindsAndEntities
    <2>4. ASSUME NEW i \in Invoices, NEW k \in {"recognition", "payment", "reversal"},
                 documents'[k][i] > 0
          PROVE  documents'["invoice"][i] > 0
      <3>1. CASE k = job /\ i = Entity(job, r)
        <4>1. documents["invoice"][i] > 0
          BY <3>1, CallIsInOrder, KindsAndEntities
        <4> QED
          BY <2>3, <4>1
      <3>2. CASE k # job \/ i # Entity(job, r)
        <4>1. documents'[k][i] = documents[k][i]
          BY <3>2, CreateCounts, KindsAndEntities
        <4>2. documents["invoice"][i] > 0
          BY <2>4, <4>1 DEF IInv, DocumentInv
        <4> QED
          BY <2>3, <4>2
      <3> QED
        BY <3>1, <3>2
    <2>5. ASSUME NEW i \in Invoices, documents'["reversal"][i] > 0
          PROVE  /\ documents'["recognition"][i] > 0
                 /\ \E n \in RegisteredNotes(i)' : documents'["creditNote"][n] > 0
      <3>1. /\ documents["recognition"][i] > 0
            /\ \E n \in RegisteredNotes(i) : documents["creditNote"][n] > 0
        <4>1. CASE job = "reversal" /\ i = InvoiceIn(r)
          BY <4>1, CallIsInOrder
        <4>2. CASE ~(job = "reversal" /\ i = InvoiceIn(r))
          <5>1. documents'["reversal"][i] = documents["reversal"][i]
            BY <4>2, CreateCounts, KindsAndEntities
          <5> QED
            BY <2>5, <5>1 DEF IInv, DocumentInv
        <4> QED
          BY <4>1, <4>2
      <3>2. documents'["recognition"][i] > 0
        <4>1. /\ documents'["recognition"][i] >= documents["recognition"][i]
              /\ documents'["recognition"][i] \in Nat /\ documents["recognition"][i] \in Nat
          BY <2>1, KindsAndEntities
        <4> QED
          BY <3>1, <4>1
      <3>3. PICK n \in RegisteredNotes(i) : documents["creditNote"][n] > 0
        BY <3>1
      <3>4. n \in RegisteredNotes(i)' /\ n \in Entities
        BY <3>3, KindsAndEntities DEF RegisteredNotes, Registered
      <3>5. documents'["creditNote"][n] > 0
        <4>1. /\ documents'["creditNote"][n] >= documents["creditNote"][n]
              /\ documents'["creditNote"][n] \in Nat /\ documents["creditNote"][n] \in Nat
          BY <2>1, <3>4, KindsAndEntities
        <4> QED
          BY <3>3, <4>1
      <3> QED
        BY <3>2, <3>4, <3>5
    <2>6. ASSUME NEW n \in Notes, documents'["creditNote"][n] > 0
          PROVE  documents'["invoice"][InvoiceOf[n]] > 0
      <3>1. CASE job = "creditNote" /\ n = r
        <4>1. documents["invoice"][InvoiceOf[n]] > 0 /\ InvoiceOf[n] \in Invoices
          BY <3>1, CallIsInOrder, KindsAndEntities
        <4> QED
          BY <2>3, <4>1
      <3>2. CASE ~(job = "creditNote" /\ n = r)
        <4>1. documents'["creditNote"][n] = documents["creditNote"][n]
          BY <3>2, CreateCounts, KindsAndEntities
        <4>2. documents["invoice"][InvoiceOf[n]] > 0 /\ InvoiceOf[n] \in Invoices
          BY <2>6, <4>1, KindsAndEntities DEF IInv, DocumentInv
        <4> QED
          BY <2>3, <4>2
      <3> QED
        BY <3>1, <3>2
    <2> QED
      BY <2>2, <2>4, <2>5, <2>6 DEF DocumentInv
  <1> QED
    BY <1>2, <1>3, <1>4

LEMMA FailureKeeps ==
  ASSUME IInv, UNCHANGED <<documents, reference, creditNote>>,
         failures' = failures + 1, lost \subseteq lost',
         pc = "save" /\ job = "invoice" /\ held.row \notin Free => held.row \in lost'
  PROVE  (ReferenceInv /\ CountInv /\ DocumentInv)'
  <1>1. /\ documents \in [Kinds -> [Entities -> Nat]] /\ failures \in Nat
    BY InvoiceAssumption DEF IInv, TypeOK
  <1>2. ReferenceInv'
    BY DEF IInv, ReferenceInv, Registered, Saved
  <1>3. CountInv'
    <2>1. \A e \in Entities : /\ \A k \in Kinds \ {"reversal"} : documents[k][e] <= failures + 1
                              /\ documents["recognition"][e] <= 1
                              /\ documents["payment"][e] <= 1
      BY DEF IInv, CountInv
    <2>2. \A e \in Entities, k \in Kinds \ {"reversal"} : documents[k][e] <= failures' + 1
      BY <1>1, <2>1
    <2> QED
      BY <2>1, <2>2 DEF CountInv
  <1>4. DocumentInv'
    BY KindsAndEntities DEF IInv, DocumentInv, Saving, RegisteredNotes, Registered
  <1> QED
    BY <1>2, <1>3, <1>4

LEMMA RegisterInErpKeeps ==
  ASSUME IInv, NEW r \in Entities, RegisterInErp(r)
  PROVE  (BatchInv /\ StepInv /\ ReferenceInv /\ CountInv /\ DocumentInv)'
  <1>1. /\ pc = "register" /\ held.row = r /\ Create(Entity(job, r)) /\ pc' = "save"
        /\ UNCHANGED <<reference, creditNote, job, batch, held, failures, lost>>
    BY DEF RegisterInErp, rows, history
  <1>2. ReferenceInv' /\ CountInv' /\ DocumentInv'
    BY <1>1, AfterCall, InvoiceAssumption DEF IInv, TypeOK
  <1>3. BatchInv'
    BY <1>1 DEF IInv, BatchInv, RowInv, Registered, Saved, Steps
  <1>4. StepInv'
    BY <1>1, CreateCounts DEF IInv, StepInv, Steps, Entity, InvoiceIn
  <1> QED
    BY <1>2, <1>3, <1>4

LEMMA RegistrationFailsKeeps ==
  ASSUME IInv, NEW r \in Entities, RegistrationFails(r)
  PROVE  (BatchInv /\ StepInv /\ ReferenceInv /\ CountInv /\ DocumentInv)'
  <1>1. /\ pc = "register" /\ held.row = r /\ failures' = failures + 1
        /\ UNCHANGED <<reference, creditNote, job>>
    BY DEF RegistrationFails, rows
  <1>2. ReferenceInv' /\ CountInv' /\ DocumentInv'
    <2>1. CASE UNCHANGED <<documents, lost>>
      BY <1>1, <2>1, FailureKeeps
    <2>2. CASE Create(Entity(job, r)) /\ Lose(InvoiceIn(r))
      <3>1. job = "invoice" => InvoiceIn(r) = r
        BY <1>1, CallIsInOrder, KindsAndEntities DEF RowInv
      <3>2. /\ lost \subseteq lost' /\ (job = "invoice" /\ r \notin Free => r \in lost')
            /\ failures' \in Nat
        BY <1>1, <2>2, <3>1, InvoiceAssumption DEF Lose, IInv, TypeOK
      <3> QED
        BY <1>1, <2>2, <3>2, AfterCall
    <2> QED
      BY <2>1, <2>2 DEF RegistrationFails
  <1>3. CASE GiveUp(r)
    BY <1>1, <1>2, <1>3, DoneKeeps DEF GiveUp
  <1>4. CASE ~GiveUp(r)
    <2>1. /\ job = "reversal" /\ pc' = "save" /\ UNCHANGED batch
          /\ held'.row = r /\ held'.value = "object Object"
      BY <1>1, <1>4 DEF RegistrationFails, IInv, TypeOK
    <2>2. BatchInv'
      BY <1>1, <2>1 DEF IInv, BatchInv, RowInv, Registered, Saved, Steps
    <2>3. StepInv'
      BY <1>1, <2>1 DEF StepInv, Steps
    <2> QED
      BY <1>2, <2>2, <2>3
  <1> QED
    BY <1>3, <1>4

\* The saving of a reference ends the row, or leaves the writing of a reversal.
LEMMA AfterSaveKeeps ==
  ASSUME IInv, NEW r \in Entities, pc = "save", held.row = r, AfterSave(r),
         UNCHANGED <<creditNote, job>>,
         \A k \in Kinds, e \in Entities :
           k # job \/ e # Entity(job, r) => reference'[k][e] = reference[k][e]
  PROVE  BatchInv' /\ StepInv'
  <1>1. CASE Finish(r)
    BY <1>1, DoneKeeps DEF Finish
  <1>2. CASE ~Finish(r)
    <2>1. job = "reversal" /\ pc' = "write back" /\ UNCHANGED <<batch, held>>
      BY <1>2 DEF AfterSave
    <2>2. ASSUME NEW q \in batch PROVE RowInv(q)'
      <3>1. /\ q \in Notes /\ Registered("creditNote", q)
            /\ Registered("recognition", InvoiceOf[q])
        BY <2>1 DEF IInv, BatchInv, RowInv
      <3>2. Registered("creditNote", q)' /\ Registered("recognition", InvoiceOf[q])'
        BY <2>1, <3>1, KindsAndEntities DEF Registered
      <3> QED
        BY <2>1, <3>1, <3>2 DEF RowInv
    <2>3. BatchInv'
      BY <2>1, <2>2 DEF IInv, BatchInv, Steps
    <2>4. StepInv'
      BY <2>1 DEF StepInv, Steps
    <2> QED
      BY <2>3, <2>4
  <1> QED
    BY <1>1, <1>2

LEMMA SaveFailsKeeps ==
  ASSUME IInv, NEW r \in Entities, SaveFails(r)
  PROVE  (BatchInv /\ StepInv /\ ReferenceInv /\ CountInv /\ DocumentInv)'
  <1>1. /\ pc = "save" /\ held.row = r /\ failures' = failures + 1
        /\ UNCHANGED <<documents, reference, creditNote, job>>
        /\ AfterSave(r) /\ Lose(InvoiceIn(r))
    BY DEF SaveFails, rows
  <1>2. job = "invoice" => InvoiceIn(r) = r
    BY <1>1, KindsAndEntities DEF IInv, BatchInv, RowInv, Steps
  <1>3. ReferenceInv' /\ CountInv' /\ DocumentInv'
    BY <1>1, <1>2, FailureKeeps DEF Lose
  <1> QED
    BY <1>1, <1>3, AfterSaveKeeps

LEMMA SaveReferenceKeeps ==
  ASSUME IInv, NEW r \in Entities, SaveReference(r)
  PROVE  /\ (BatchInv /\ StepInv /\ ReferenceInv /\ CountInv /\ DocumentInv)'
         /\ \A i \in Invoices : RegisteredNotes(i) \subseteq RegisteredNotes(i)'
  <1> DEFINE x == Entity(job, r)
  <1>1. /\ pc = "save" /\ held.row = r /\ AfterSave(r)
        /\ reference' = [reference EXCEPT ![job][x] = held.value]
        /\ UNCHANGED <<documents, creditNote, job, failures, lost>>
    BY DEF SaveReference, rows, history
  <1>2. /\ reference \in [Kinds -> [Entities -> Values]] /\ job \in Kinds
        /\ x \in Entities
    BY InvoiceInType DEF IInv, TypeOK
  <1>3. /\ job # "reversal" => x = r
        /\ job = "reversal" => x = InvoiceIn(r)
    BY KindsAndEntities
  <1>4. /\ reference'[job][x] = held.value
        /\ \A k \in Kinds, e \in Entities :
             k # job \/ e # x => reference'[k][e] = reference[k][e]
    BY <1>1, <1>2
  <1>5. BatchInv' /\ StepInv'
    BY <1>1, <1>4, AfterSaveKeeps
  <1>6. r \in batch /\ RowInv(r)
    BY <1>1 DEF IInv, BatchInv, Steps
  <1>7. /\ held.value = "registered" => documents[job][x] > 0
        /\ job = "invoice" => \/ held.value = "registered" /\ r \notin Free
                              \/ held.value = "NON_INVOICEABLE" /\ r \in Free
        /\ job \in {"recognition", "payment"} => held.value = "registered"
        /\ job = "creditNote" => \/ held.value = "registered"
                                 \/ /\ held.value = "NONEXISTENT_INVOICE"
                                    /\ reference["invoice"][InvoiceIn(r)] \in {"none", "NON_INVOICEABLE"}
        /\ job = "reversal" => held.value \in {"registered", "BAD_DEBT", "object Object"}
    BY <1>1 DEF IInv, StepInv, Steps
  <1>8. held.value # "none"
    BY <1>2, <1>7, KindsAndEntities
  <1> HIDE DEF x
  <1>9. \A k \in Kinds, e \in Entities : Registered(k, e) => Registered(k, e)'
    BY <1>4, <1>8 DEF Registered
  <1>10. \A i \in Invoices : RegisteredNotes(i) \subseteq RegisteredNotes(i)'
    BY <1>9, KindsAndEntities DEF RegisteredNotes
  <1>11. ReferenceInv'
    <2>1. ASSUME NEW k \in Kinds, NEW e \in Entities, reference'[k][e] = "registered"
          PROVE  documents'[k][e] > 0
      BY <1>1, <1>4, <1>7, <2>1 DEF IInv, ReferenceInv
    <2>2. ASSUME NEW i \in Invoices
          PROVE  /\ reference'["invoice"][i] \in {"none", "registered", "NON_INVOICEABLE"}
                 /\ reference'["recognition"][i] \in {"none", "registered"}
                 /\ Registered("recognition", i)' => reference'["invoice"][i] = "registered"
      <3>1. /\ reference["invoice"][i] \in {"none", "registered", "NON_INVOICEABLE"}
            /\ reference["recognition"][i] \in {"none", "registered"}
            /\ reference["recognition"][i] # "none" => reference["invoice"][i] = "registered"
        BY DEF IInv, ReferenceInv, Registered
      <3>2. CASE job = "invoice" /\ i = x
        <4>1. /\ reference["invoice"][i] = "none" /\ reference["recognition"][i] = "none"
              /\ reference'["invoice"][i] = held.value
          BY <1>3, <1>4, <1>6, <3>1, <3>2 DEF RowInv, Registered
        <4>2. reference'["recognition"][i] = reference["recognition"][i]
          BY <1>4, <3>2, KindsAndEntities
        <4> QED
          BY <1>7, <3>2, <4>1, <4>2 DEF Registered
      <3>3. CASE job = "recognition" /\ i = x
        <4>1. /\ reference["invoice"][i] = "registered"
              /\ reference'["recognition"][i] = "registered"
          BY <1>3, <1>4, <1>6, <1>7, <3>3 DEF RowInv
        <4>2. reference'["invoice"][i] = reference["invoice"][i]
          BY <1>4, <3>3, KindsAndEntities
        <4> QED
          BY <3>3, <4>1, <4>2
      <3>4. CASE ~(job \in {"invoice", "recognition"} /\ i = x)
        <4>1. /\ reference'["invoice"][i] = reference["invoice"][i]
              /\ reference'["recognition"][i] = reference["recognition"][i]
          BY <1>4, <3>4, KindsAndEntities
        <4> QED
          BY <3>1, <4>1 DEF Registered
      <3> QED
        BY <3>2, <3>3, <3>4
    <2>3. ASSUME NEW n \in Notes
          PROVE  /\ reference'["creditNote"][n] \in {"none", "registered", "NONEXISTENT_INVOICE"}
                 /\ Registered("creditNote", n)' => Saved(n)'
                 /\ reference'["creditNote"][n] = "NONEXISTENT_INVOICE" =>
                      reference'["invoice"][InvoiceOf[n]] # "registered"
      <3>1. /\ reference["creditNote"][n] \in {"none", "registered", "NONEXISTENT_INVOICE"}
            /\ reference["creditNote"][n] # "none" => Saved(n)
            /\ reference["creditNote"][n] = "NONEXISTENT_INVOICE" =>
                 reference["invoice"][InvoiceOf[n]] # "registered"
        BY DEF IInv, ReferenceInv, Registered
      <3>2. Saved(n)' <=> Saved(n)
        BY <1>1 DEF Saved
      <3>3. n \in Entities /\ InvoiceOf[n] \in Entities /\ "creditNote" \in Kinds /\ "invoice" \in Kinds
        BY KindsAndEntities
      <3>4. CASE job = "creditNote" /\ n = x
        <4>1. /\ Saved(n) /\ reference'["creditNote"][n] = held.value /\ n = r
              /\ InvoiceIn(r) = InvoiceOf[n]
          BY <1>3, <1>4, <1>6, <3>4, KindsAndEntities DEF RowInv
        <4>2. reference'["invoice"][InvoiceOf[n]] = reference["invoice"][InvoiceOf[n]]
          BY <1>4, <3>3, <3>4
        <4> QED
          BY <1>7, <3>2, <3>4, <4>1, <4>2
      <3>5. CASE job = "invoice" /\ InvoiceOf[n] = x
        <4>1. reference["creditNote"][n] = "none"
          BY <1>3, <1>6, <3>5 DEF RowInv, Registered
        <4>2. reference'["creditNote"][n] = reference["creditNote"][n]
          BY <1>4, <3>3, <3>5
        <4> QED
          BY <4>1, <4>2 DEF Registered
      <3>6. CASE ~(job = "creditNote" /\ n = x) /\ ~(job = "invoice" /\ InvoiceOf[n] = x)
        <4>1. /\ reference'["creditNote"][n] = reference["creditNote"][n]
              /\ reference'["invoice"][InvoiceOf[n]] = reference["invoice"][InvoiceOf[n]]
          BY <1>4, <3>3, <3>6
        <4> QED
          BY <3>1, <3>2, <4>1 DEF Registered
      <3> QED
        BY <3>4, <3>5, <3>6
    <2> QED
      BY <2>1, <2>2, <2>3 DEF ReferenceInv
  <1>12. CountInv'
    <2>1. ASSUME NEW e \in Entities, NEW k \in Kinds \ {"reversal"}
          PROVE  documents[k][e] <= failures \/ Registered(k, e)'
      <3>1. \/ documents[k][e] <= failures
            \/ Registered(k, e) \/ (k = job /\ e = x)
        BY <1>1 DEF IInv, CountInv, Saving, x
      <3> QED
        BY <1>4, <1>8, <1>9, <3>1 DEF Registered
    <2> QED
      BY <1>1, <2>1 DEF IInv, CountInv
  <1>13. DocumentInv'
    <2>1. ASSUME NEW i \in Invoices, documents["invoice"][i] > 0
          PROVE  i \notin Free /\ (reference'["invoice"][i] = "registered" \/ i \in lost)
      <3>1. /\ i \notin Free
            /\ \/ reference["invoice"][i] = "registered"
               \/ i \in lost \/ (job = "invoice" /\ i = x)
        BY <1>1, <2>1 DEF IInv, DocumentInv, Saving, x
      <3>2. CASE job = "invoice" /\ i = x
        BY <1>3, <1>4, <1>7, <3>1, <3>2
      <3>3. CASE ~(job = "invoice" /\ i = x)
        BY <1>4, <3>1, <3>3, KindsAndEntities
      <3> QED
        BY <3>2, <3>3
    <2>2. ASSUME NEW i \in Invoices, documents["reversal"][i] > 0
          PROVE  \E n \in RegisteredNotes(i)' : documents["creditNote"][n] > 0
      BY <1>10, <2>2 DEF IInv, DocumentInv
    <2> QED
      BY <1>1, <2>1, <2>2 DEF IInv, DocumentInv
  <1> QED
    BY <1>5, <1>10, <1>11, <1>12, <1>13

LEMMA RestartKeeps ==
  ASSUME IInv, Restart
  PROVE  (BatchInv /\ StepInv /\ ReferenceInv /\ CountInv /\ DocumentInv)'
  <1>1. /\ failures' = failures + 1 /\ pc' = "select" /\ batch' = {}
        /\ UNCHANGED <<reference, creditNote>>
    BY DEF Restart, rows
  <1>2. BatchInv' /\ StepInv'
    BY <1>1 DEF BatchInv, StepInv, Steps
  <1>3. held.row \in Entities /\ failures' \in Nat
    BY <1>1, InvoiceAssumption DEF IInv, TypeOK
  <1>4. pc \in Steps /\ job = "invoice" => InvoiceIn(held.row) = held.row
    BY KindsAndEntities DEF IInv, BatchInv, RowInv
  <1>5. CASE pc # "save" /\ UNCHANGED <<documents, lost>>
    BY <1>1, <1>2, <1>5, FailureKeeps
  <1>6. CASE pc = "register" /\ Create(Entity(job, held.row)) /\ Lose(InvoiceIn(held.row))
    BY <1>1, <1>2, <1>3, <1>4, <1>6, AfterCall DEF Lose, Steps
  <1>7. CASE pc = "save" /\ UNCHANGED documents /\ Lose(InvoiceIn(held.row))
    BY <1>1, <1>2, <1>4, <1>7, FailureKeeps DEF Lose, Steps
  <1> QED
    BY <1>5, <1>6, <1>7 DEF Restart

-----------------------------------------------------------------------------
(* The reversals: one for each credit note that the ERP has, and one for each *)
(* failure.                                                                   *)

LEMMA WaitingNotes ==
  ASSUME IInv, NEW i \in Invoices
  PROVE  /\ Waiting(i) \subseteq RegisteredNotes(i)
         /\ IsFiniteSet(RegisteredNotes(i)) /\ IsFiniteSet(Waiting(i))
         /\ Cardinality(RegisteredNotes(i)) \in Nat /\ Cardinality(Waiting(i)) \in Nat
         /\ documents["reversal"][i] \in Nat /\ failures \in Nat
  <1>1. Waiting(i) \subseteq RegisteredNotes(i)
    BY KindsAndEntities DEF IInv, BatchInv, RowInv, Waiting, RegisteredNotes
  <1>2. RegisteredNotes(i) \in SUBSET Notes /\ IsFiniteSet(Notes)
    BY InvoiceAssumption DEF RegisteredNotes
  <1>3. IsFiniteSet(RegisteredNotes(i))
    BY <1>2, FS_Subset
  <1>4. IsFiniteSet(Waiting(i))
    BY <1>1, <1>3, FS_Subset
  <1>5. documents["reversal"][i] \in Nat /\ failures \in Nat
    BY InvoiceAssumption, KindsAndEntities DEF IInv, TypeOK
  <1> QED
    BY <1>1, <1>3, <1>4, <1>5, FS_CardinalityType

\* A batch only shrinks, and a row that is being saved is not published again.
LEMMA WaitingShrinks ==
  ASSUME NEW i \in Invoices, batch' \subseteq batch, batch' = {} \/ job' = job,
         pc \in {"save", "write back"} =>
           \/ held.row \notin batch'
           \/ pc' \in {"save", "write back"} /\ held'.row = held.row
  PROVE  Waiting(i)' \subseteq Waiting(i)
  BY DEF Waiting, InvoiceIn

LEMMA LaterBound ==
  ASSUME NEW d \in Nat, NEW f \in Nat, NEW g \in Nat, d <= f + 1, g >= f
  PROVE  d <= g + 1
  OBVIOUS

\* What a reversal costs, once it has a reference or before: a failure, or one
\* of the rows that wait.
LEMMA ReversalPaid ==
  ASSUME IInv, TypeOK', NEW i \in Invoices,
         Waiting(i)' \subseteq Waiting(i),
         RegisteredNotes(i) \subseteq RegisteredNotes(i)',
         Registered("reversal", i)' <=> Registered("reversal", i),
         \/ /\ documents'["reversal"][i] = documents["reversal"][i]
            /\ failures' >= failures
            /\ Saving("reversal", i) => Saving("reversal", i)' \/ failures' = failures + 1
         \/ /\ documents'["reversal"][i] = documents["reversal"][i] + 1
            /\ ~Saving("reversal", i)
            /\ \/ failures' = failures + 1
               \/ /\ failures' = failures /\ Saving("reversal", i)'
                  /\ \E n \in Waiting(i) : n \notin Waiting(i)'
  PROVE  ReversalOf(i)'
  <1> DEFINE W == Cardinality(Waiting(i))
             V == Cardinality(Waiting(i)')
             R == Cardinality(RegisteredNotes(i))
             Q == Cardinality(RegisteredNotes(i)')
             D == documents["reversal"][i]
             E == documents'["reversal"][i]
  <1>1. /\ W \in Nat /\ R \in Nat /\ D \in Nat /\ failures \in Nat
        /\ IsFiniteSet(Waiting(i))
    BY WaitingNotes
  <1>2. /\ IsFiniteSet(RegisteredNotes(i)') /\ Q \in Nat /\ R <= Q
    <2>1. RegisteredNotes(i)' \in SUBSET Notes /\ IsFiniteSet(Notes)
      BY InvoiceAssumption DEF RegisteredNotes
    <2>2. IsFiniteSet(RegisteredNotes(i)')
      BY <2>1, FS_Subset
    <2> QED
      BY <2>2, FS_Subset, FS_CardinalityType
  <1>3. IsFiniteSet(Waiting(i)') /\ V \in Nat /\ V <= W
    <2>1. IsFiniteSet(Waiting(i)') /\ V <= W
      BY <1>1, FS_Subset
    <2> QED
      BY <2>1, FS_CardinalityType
  <1>4. ASSUME NEW n \in Waiting(i), n \notin Waiting(i)' PROVE V <= W - 1
    <2>1. /\ IsFiniteSet(Waiting(i) \ {n}) /\ Cardinality(Waiting(i) \ {n}) = W - 1
      BY <1>1, FS_RemoveElement
    <2>2. Waiting(i)' \in SUBSET (Waiting(i) \ {n})
      BY <1>4
    <2> QED
      BY <2>1, <2>2, FS_Subset
  <1>5. E \in Nat /\ failures' \in Nat
    BY InvoiceAssumption, KindsAndEntities DEF TypeOK
  <1>6. ReversalOf(i)
    BY DEF IInv, ReversalInv
  <1> DEFINE S == Saving("reversal", i)
             T == Saving("reversal", i)'
             G == Registered("reversal", i)
  <1>7. /\ G => D + W <= failures + R
        /\ ~G => D <= failures \/ (S /\ D <= failures + 1)
    BY <1>6 DEF ReversalOf
  <1>8. \/ E = D /\ failures' >= failures /\ (S => T \/ failures' = failures + 1)
        \/ E = D + 1 /\ ~S /\ failures' = failures + 1
        \/ E = D + 1 /\ ~S /\ failures' = failures /\ T /\ V <= W - 1
    BY <1>4
  <1> HIDE DEF W, V, R, Q, D, E, S, T, G
  <1>9. ASSUME G PROVE E + V <= failures' + Q
    <2>1. D + W <= failures + R
      BY <1>7, <1>9
    <2>2. \/ E = D /\ failures' >= failures
          \/ E = D + 1 /\ failures' = failures + 1
          \/ E = D + 1 /\ failures' = failures /\ V <= W - 1
      BY <1>8
    <2> QED
      BY <1>1, <1>2, <1>3, <1>5, <2>1, <2>2
  <1>10. ASSUME ~G PROVE E <= failures' \/ (T /\ E <= failures' + 1)
    <2>1. D <= failures \/ (S /\ D <= failures + 1)
      BY <1>7, <1>10
    <2>2. CASE E = D /\ failures' >= failures /\ D <= failures
      BY <1>1, <1>5, <2>2
    <2>3. CASE E = D /\ failures' = failures + 1 /\ D <= failures + 1
      BY <1>1, <1>5, <2>3
    <2>4. CASE E = D /\ failures' >= failures /\ T /\ D <= failures + 1
      <3>1. E = D /\ failures' >= failures /\ D <= failures + 1
        BY <2>4
      <3>2. E <= failures' + 1
        <4>1. E \in Nat /\ failures \in Nat /\ failures' \in Nat
          BY <1>1, <1>5
        <4>2. E <= failures + 1 /\ failures' >= failures
          BY <3>1
        <4> QED
          BY <4>1, <4>2, LaterBound
      <3> QED
        BY <2>4, <3>2
    <2>5. CASE E = D + 1 /\ failures' = failures + 1 /\ D <= failures
      BY <1>1, <1>5, <2>5
    <2>6. CASE E = D + 1 /\ failures' = failures /\ T /\ D <= failures
      BY <1>1, <1>5, <2>6
    <2> QED
      BY <1>8, <2>1, <2>2, <2>3, <2>4, <2>5, <2>6
  <1> QED
    BY <1>9, <1>10 DEF ReversalOf, W, V, R, Q, D, E, S, T, G

\* Steps without a document or a reference.
LEMMA QuietReversal ==
  ASSUME IInv, TypeOK', UNCHANGED <<documents, reference>>,
         batch' \subseteq batch, batch' = {} \/ job' = job,
         pc \in {"save", "write back"} =>
           \/ held.row \notin batch'
           \/ pc' \in {"save", "write back"} /\ held'.row = held.row,
         failures' = failures \/ failures' = failures + 1,
         pc = "save" => failures' = failures + 1 \/ UNCHANGED <<pc, held, job>>
  PROVE  ReversalInv'
  <1> SUFFICES ASSUME NEW i \in Invoices PROVE ReversalOf(i)'
    BY DEF ReversalInv
  <1>1. Waiting(i)' \subseteq Waiting(i)
    BY WaitingShrinks
  <1>2. RegisteredNotes(i) \subseteq RegisteredNotes(i)'
    BY DEF RegisteredNotes, Registered
  <1>3. failures' >= failures
    <2>1. failures \in Nat /\ (failures' = failures \/ failures' = failures + 1)
      BY WaitingNotes
    <2> QED
      BY ONLY <2>1
  <1>4. Saving("reversal", i) => Saving("reversal", i)' \/ failures' = failures + 1
    BY DEF Saving, Entity, InvoiceIn
  <1>5. Registered("reversal", i)' <=> Registered("reversal", i)
    BY DEF Registered
  <1> QED
    BY <1>1, <1>2, <1>3, <1>4, <1>5, ReversalPaid

LEMMA SelectReversal ==
  ASSUME IInv, Select
  PROVE  ReversalInv'
  <1>1. /\ pc = "select" /\ UNCHANGED <<documents, reference, failures, job>>
        /\ \A r \in batch' : r \in Entities /\ Ready(job, r)
    BY DEF Select, rows, history
  <1> SUFFICES ASSUME NEW i \in Invoices PROVE ReversalOf(i)'
    BY DEF ReversalInv
  <1>2. ReversalOf(i) /\ ~Saving("reversal", i)
    BY <1>1 DEF IInv, ReversalInv, Saving
  <1>3. /\ documents'["reversal"][i] = documents["reversal"][i]
        /\ Registered("reversal", i)' <=> Registered("reversal", i)
        /\ RegisteredNotes(i)' = RegisteredNotes(i)
    BY <1>1 DEF Registered, RegisteredNotes
  <1>4. CASE Registered("reversal", i)
    <2>1. \A n \in batch' : ~(job' = "reversal" /\ InvoiceIn(n) = i)
      BY <1>1, <1>4, KindsAndEntities DEF Ready
    <2>2. Waiting(i)' = {}
      BY <2>1 DEF Waiting, InvoiceIn
    <2>3. Cardinality(Waiting(i)') = 0
      BY <2>2, FS_EmptySet
    <2>4. documents["reversal"][i] + Cardinality(Waiting(i)) <= failures + Cardinality(RegisteredNotes(i))
      BY <1>2, <1>4 DEF ReversalOf
    <2>5. documents["reversal"][i] + 0 <= failures + Cardinality(RegisteredNotes(i))
      BY <2>4, WaitingNotes
    <2> QED
      BY <1>1, <1>3, <1>4, <2>3, <2>5 DEF ReversalOf
  <1>5. CASE ~Registered("reversal", i)
    BY <1>1, <1>2, <1>3, <1>5 DEF ReversalOf
  <1> QED
    BY <1>4, <1>5

\* A call that is answered, fails, or is cut by a restart.
LEMMA CallReversal ==
  ASSUME IInv, TypeOK', NEW r \in Entities, pc = "register", held.row = r,
         Create(Entity(job, r)), UNCHANGED reference,
         \/ /\ pc' = "save" /\ held'.row = r /\ UNCHANGED <<job, batch, failures>>
         \/ /\ failures' = failures + 1 /\ batch' \subseteq batch
            /\ batch' = {} \/ job' = job
  PROVE  ReversalInv'
  <1> SUFFICES ASSUME NEW i \in Invoices PROVE ReversalOf(i)'
    BY DEF ReversalInv
  <1>1. Waiting(i)' \subseteq Waiting(i)
    BY WaitingShrinks
  <1>2. /\ RegisteredNotes(i) \subseteq RegisteredNotes(i)'
        /\ Registered("reversal", i)' <=> Registered("reversal", i)
    BY DEF RegisteredNotes, Registered
  <1>3. failures' >= failures /\ ~Saving("reversal", i)
    BY WaitingNotes DEF Saving
  <1>4. CASE job = "reversal" /\ i = InvoiceIn(r)
    <2>1. documents'["reversal"][i] = documents["reversal"][i] + 1
      BY <1>4, CreateCounts
    <2>2. r \in Waiting(i)
      BY <1>4, CallIsInOrder DEF Waiting
    <2>3. pc' = "save" /\ held'.row = r /\ job' = job => Saving("reversal", i)' /\ r \notin Waiting(i)'
      BY <1>4, KindsAndEntities DEF Saving, Waiting, Entity, InvoiceIn
    <2> QED
      BY <1>1, <1>2, <1>3, <2>1, <2>2, <2>3, ReversalPaid
  <1>5. CASE ~(job = "reversal" /\ i = InvoiceIn(r))
    <2>1. documents'["reversal"][i] = documents["reversal"][i]
      BY <1>5, CreateCounts, KindsAndEntities
    <2> QED
      BY <1>1, <1>2, <1>3, <2>1, ReversalPaid
  <1> QED
    BY <1>4, <1>5

LEMMA FailedCallReversal ==
  ASSUME IInv, TypeOK', NEW r \in Entities, RegistrationFails(r)
  PROVE  ReversalInv'
  <1>1. /\ pc = "register" /\ held.row = r /\ failures' = failures + 1
        /\ UNCHANGED <<reference, job>> /\ batch' \subseteq batch
    BY DEF RegistrationFails, rows, GiveUp
  <1>2. CASE UNCHANGED documents
    BY <1>1, <1>2, QuietReversal
  <1>3. CASE Create(Entity(job, r))
    BY <1>1, <1>3, CallReversal
  <1> QED
    BY <1>2, <1>3 DEF RegistrationFails

LEMMA RestartReversal ==
  ASSUME IInv, TypeOK', Restart
  PROVE  ReversalInv'
  <1>1. /\ failures' = failures + 1 /\ batch' = {} /\ UNCHANGED reference
    BY DEF Restart
  <1>2. CASE UNCHANGED documents
    BY <1>1, <1>2, QuietReversal
  <1>3. CASE pc = "register" /\ Create(Entity(job, held.row))
    <2>1. held.row \in Entities
      BY DEF IInv, TypeOK
    <2> QED
      BY <1>1, <1>3, <2>1, CallReversal
  <1> QED
    BY <1>2, <1>3 DEF Restart

\* The end of a row: it is taken from the batch, or is written back.
LEMMA AfterSaveRows ==
  ASSUME NEW r \in Entities, pc = "save", held.row = r, AfterSave(r)
  PROVE  /\ batch' \subseteq batch
         /\ \/ held.row \notin batch'
            \/ pc' \in {"save", "write back"} /\ held'.row = held.row
  BY DEF AfterSave, Finish

\* The first reference of a reversal: the rows that wait for another one are
\* those of the other credit notes.
LEMMA SavedReversal ==
  ASSUME IInv, TypeOK', NEW r \in Entities, SaveReference(r)
  PROVE  ReversalInv'
  <1>1. /\ pc = "save" /\ held.row = r /\ AfterSave(r)
        /\ reference' = [reference EXCEPT ![job][Entity(job, r)] = held.value]
        /\ UNCHANGED <<documents, job, failures>>
    BY DEF SaveReference
  <1> SUFFICES ASSUME NEW i \in Invoices PROVE ReversalOf(i)'
    BY DEF ReversalInv
  <1>2. /\ RegisteredNotes(i) \subseteq RegisteredNotes(i)'
        /\ reference \in [Kinds -> [Entities -> Values]] /\ job \in Kinds
        /\ Entity(job, r) \in Entities
    BY SaveReferenceKeeps, InvoiceInType DEF IInv, TypeOK
  <1>3. batch' \subseteq batch /\ Waiting(i)' \subseteq Waiting(i)
    BY <1>1, AfterSaveRows, WaitingShrinks
  <1>4. CASE job = "reversal" /\ i = InvoiceIn(r)
    <2>1. RegisteredNotes(i)' = RegisteredNotes(i)
      <3>1. \A n \in Notes : reference'["creditNote"][n] = reference["creditNote"][n]
        BY <1>1, <1>2, <1>4, KindsAndEntities
      <3> QED
        BY <3>1 DEF RegisteredNotes, Registered
    <2>2. Registered("reversal", i)'
      <3>1. reference'["reversal"][i] = held.value
        BY <1>1, <1>2, <1>4, KindsAndEntities
      <3>2. held.value # "none"
        BY <1>1, <1>4 DEF IInv, StepInv
      <3> QED
        BY <3>1, <3>2 DEF Registered
    <2>3. r \in RegisteredNotes(i) /\ r \notin Waiting(i)'
      <3>1. r \in batch /\ RowInv(r)
        BY <1>1 DEF IInv, BatchInv, Steps
      <3>2. r \in RegisteredNotes(i)
        BY <1>4, <3>1, KindsAndEntities DEF RowInv, RegisteredNotes
      <3>3. r \notin Waiting(i)'
        BY <1>1, AfterSaveRows DEF Waiting
      <3> QED
        BY <3>2, <3>3
    <2> DEFINE V == Cardinality(Waiting(i)')
               W == Cardinality(Waiting(i))
               R == Cardinality(RegisteredNotes(i))
               D == documents["reversal"][i]
    <2>4. /\ W \in Nat /\ R \in Nat /\ D \in Nat /\ failures \in Nat
          /\ IsFiniteSet(Waiting(i)) /\ IsFiniteSet(RegisteredNotes(i))
          /\ Waiting(i) \subseteq RegisteredNotes(i)
      BY WaitingNotes
    <2>5. IsFiniteSet(Waiting(i)') /\ V <= W /\ V \in Nat
      <3>1. IsFiniteSet(Waiting(i)') /\ V <= W
        BY <1>3, <2>4, FS_Subset
      <3> QED
        BY <3>1, FS_CardinalityType
    <2>6. V <= R - 1
      <3>1. IsFiniteSet(RegisteredNotes(i) \ {r}) /\ Cardinality(RegisteredNotes(i) \ {r}) = R - 1
        BY <2>3, <2>4, FS_RemoveElement
      <3>2. Waiting(i)' \in SUBSET (RegisteredNotes(i) \ {r})
        BY <1>3, <2>3, <2>4
      <3> QED
        BY <3>1, <3>2, FS_Subset
    <2>7. D + W <= failures + R \/ D <= failures + 1
      <3>1. ReversalOf(i)
        BY DEF IInv, ReversalInv
      <3>2. D <= failures => D <= failures + 1
        BY <2>4
      <3> QED
        BY <3>1, <3>2 DEF ReversalOf
    <2> HIDE DEF V, W, R, D
    <2>8. D + V <= failures + R
      BY <2>4, <2>5, <2>6, <2>7
    <2> QED
      BY <1>1, <2>1, <2>2, <2>8 DEF ReversalOf, V, W, R, D
  <1>5. CASE ~(job = "reversal" /\ i = InvoiceIn(r))
    <2>1. ~Saving("reversal", i)
      BY <1>1, <1>5, KindsAndEntities DEF Saving
    <2>2. Registered("reversal", i)' <=> Registered("reversal", i)
      <3>1. reference'["reversal"][i] = reference["reversal"][i]
        BY <1>1, <1>2, <1>5, KindsAndEntities
      <3> QED
        BY <3>1 DEF Registered
    <2>3. failures' >= failures
      BY <1>1, WaitingNotes
    <2> QED
      BY <1>1, <1>2, <1>3, <2>1, <2>2, <2>3, ReversalPaid
  <1> QED
    BY <1>4, <1>5

LEMMA ReversalNext ==
  ASSUME IInv, TypeOK', [Next]_vars
  PROVE  ReversalInv'
  <1>1. CASE Acting
    BY <1>1, ActingKeeps, QuietReversal
  <1>2. CASE UNCHANGED vars
    BY <1>2, QuietReversal DEF vars, scheduler
  <1>3. CASE Select
    BY <1>3, SelectReversal
  <1>4. CASE EndJob
    BY <1>4, QuietReversal DEF EndJob
  <1>5. ASSUME NEW r \in Entities,
               \/ PublishInvoiceToErp(r) \/ PublishRevenueRecognitionToErp(r)
               \/ PublishCreditNoteToErp(r) \/ PublishPaymentToErp(r)
               \/ PublishRevenueRecognitionReversal(r)
        PROVE  ReversalInv'
    <2>1. /\ pc = "next" /\ UNCHANGED <<documents, reference, job, failures>>
          /\ batch' \subseteq batch
      BY <1>5, Zenon
      DEF PublishInvoiceToErp, PublishRevenueRecognitionToErp, PublishCreditNoteToErp,
          PublishPaymentToErp, PublishRevenueRecognitionReversal, UnlessBroken, Starts,
          Reads, GiveUp
    <2> QED
      BY <2>1, QuietReversal
  <1>6. ASSUME NEW r \in Entities, UpdateInvoice(r) PROVE ReversalInv'
    <2>1. /\ pc = "update" /\ UNCHANGED <<documents, reference, job, failures, batch>>
      BY <1>6 DEF UpdateInvoice, WriteInvoice
    <2> QED
      BY <2>1, QuietReversal
  <1>7. ASSUME NEW r \in Entities, RegisterInErp(r) PROVE ReversalInv'
    BY <1>7, CallReversal DEF RegisterInErp
  <1>8. ASSUME NEW r \in Entities, SaveReference(r) PROVE ReversalInv'
    BY <1>8, SavedReversal
  <1>9. ASSUME NEW r \in Entities, WriteBack(r) PROVE ReversalInv'
    <2>1. /\ pc = "write back" /\ held.row = r /\ batch' = batch \ {r}
          /\ UNCHANGED <<documents, reference, job, failures>>
      BY <1>9 DEF WriteBack, WriteInvoice, Finish
    <2> QED
      BY <2>1, QuietReversal
  <1>10. ASSUME NEW r \in Entities, RegistrationFails(r) PROVE ReversalInv'
    BY <1>10, FailedCallReversal
  <1>11. ASSUME NEW r \in Entities, SaveFails(r) PROVE ReversalInv'
    <2>1. /\ pc = "save" /\ held.row = r /\ failures' = failures + 1 /\ AfterSave(r)
          /\ UNCHANGED <<documents, reference, job>>
      BY <1>11 DEF SaveFails
    <2> QED
      BY <2>1, AfterSaveRows, QuietReversal
  <1>12. CASE Restart
    BY <1>12, RestartReversal
  <1> QED
    BY <1>1, <1>2, <1>3, <1>4, <1>5, <1>6, <1>7, <1>8, <1>9, <1>10, <1>11, <1>12
    DEF Next, Running, Processing, Failing

-----------------------------------------------------------------------------
LEMMA IInvNext == IInv /\ [Next]_vars => IInv'
  <1> SUFFICES ASSUME IInv, [Next]_vars PROVE IInv'
    OBVIOUS
  <1>1. TypeOK'
    BY TypeNext DEF IInv
  <1>2. ReversalInv'
    BY <1>1, ReversalNext
  <1>3. CASE Running
    BY <1>1, <1>2, <1>3, SelectKeeps, EndJobKeeps, LoadingKeeps, UpdateInvoiceKeeps,
       RegisterInErpKeeps, SaveReferenceKeeps, WriteBackKeeps,
       RegistrationFailsKeeps, SaveFailsKeeps
    DEF Running, Processing, Failing, IInv
  <1>4. CASE Restart
    BY <1>1, <1>2, <1>4, RestartKeeps DEF IInv
  <1>5. CASE Acting
    BY <1>1, <1>2, <1>5, ActingKeeps DEF IInv
  <1>6. CASE UNCHANGED vars
    BY <1>1, <1>2, <1>6, OthersKeep
    DEF vars, rows, scheduler, history, Saved, IInv
  <1> QED
    BY <1>3, <1>4, <1>5, <1>6 DEF Next

LEMMA IInvImplies == IInv => OncePerFailure /\ BooksAgree
  <1> SUFFICES ASSUME IInv PROVE OncePerFailure /\ BooksAgree
    OBVIOUS
  <1>1. /\ documents \in [Kinds -> [Entities -> Nat]] /\ failures \in Nat
    BY InvoiceAssumption DEF IInv, TypeOK
  <1>2. ASSUME NEW i \in Invoices
        PROVE  documents["reversal"][i] <= Cardinality(RegisteredNotes(i)) + failures
    <2> DEFINE W == Cardinality(Waiting(i))
               R == Cardinality(RegisteredNotes(i))
               D == documents["reversal"][i]
    <2>1. W \in Nat /\ R \in Nat /\ D \in Nat
      BY WaitingNotes
    <2>2. \/ D + W <= failures + R \/ D <= failures
          \/ Saving("reversal", i) /\ D <= failures + 1
      BY DEF IInv, ReversalInv, ReversalOf
    <2>3. Saving("reversal", i) => R >= 1
      <3> SUFFICES ASSUME Saving("reversal", i) PROVE R # 0
        BY <2>1
      <3>1. held.row \in RegisteredNotes(i)
        BY KindsAndEntities
        DEF IInv, BatchInv, RowInv, Saving, Steps, RegisteredNotes
      <3> QED
        BY <3>1, WaitingNotes, FS_EmptySet
    <2> HIDE DEF W, R, D
    <2>4. D <= R + failures
      BY <1>1, <2>1, <2>2, <2>3
    <2> QED
      BY <2>4 DEF R, D
  <1>3. OncePerFailure
    <2>1. ASSUME NEW e \in Entities, NEW k \in Kinds \ {"reversal"}
          PROVE  documents[k][e] <= 1 + failures
      <3>1. documents[k][e] <= failures + 1 /\ documents[k][e] \in Nat
        BY <1>1 DEF IInv, CountInv
      <3> QED
        BY <1>1, <3>1
    <2> QED
      BY <1>2, <2>1 DEF OncePerFailure, IInv, CountInv
  <1>4. ASSUME NEW n \in Notes, reference["creditNote"][n] = "NONEXISTENT_INVOICE"
        PROVE  documents["invoice"][InvoiceOf[n]] = 0 \/ InvoiceOf[n] \in lost
    <2>1. /\ reference["invoice"][InvoiceOf[n]] # "registered" /\ Registered("creditNote", n)
          /\ InvoiceOf[n] \in Invoices
      BY <1>4, KindsAndEntities DEF IInv, ReferenceInv, Registered
    <2>2. ~Saving("invoice", InvoiceOf[n])
      BY <2>1, KindsAndEntities DEF IInv, BatchInv, RowInv, Saving, Steps
    <2>3. documents["invoice"][InvoiceOf[n]] \in Nat
      BY <1>1, <2>1, KindsAndEntities
    <2> QED
      BY <2>1, <2>2, <2>3 DEF IInv, DocumentInv
  <1>5. BooksAgree
    BY <1>4 DEF BooksAgree, IInv, DocumentInv, ReferenceInv
  <1> QED
    BY <1>3, <1>5

\* However calls and savings fail and wherever the process stops, the ERP gets
\* at most one document of a kind more than there were failures, and never two
\* revenue recognitions or two payments. Of the reversals of an invoice, of which
\* nothing looks for the first one, it gets at most one for every credit note of
\* the invoice that it has, and one for every failure.
THEOREM RegisteredOncePerFailure == Spec => []OncePerFailure
  BY IInvInit, IInvNext, IInvImplies, PTL DEF Spec

\* References and documents agree: in the ERP nothing depends on an invoice it
\* does not have, and a credit note is given up only for an invoice it does not
\* have, or whose registration was never answered.
THEOREM BooksAlwaysAgree == Spec => []BooksAgree
  BY IInvInit, IInvNext, IInvImplies, PTL DEF Spec
=============================================================================
