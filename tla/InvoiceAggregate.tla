-------------------------- MODULE InvoiceAggregate --------------------------
(* The Invoice aggregate: the fields that decide its life, its mutators and *)
(* what the repository stores of it.  A date is the fiscal year it falls    *)
(* in; 0 stands for a number or a date that is null.  The mutators' events  *)
(* are raised by the use cases' actions.                                    *)
EXTENDS Naturals

InvoiceStatus == {"DRAFT", "PENDING", "ACTIVE", "FINAL"}

\* A reference number is the pair of a number and a fiscal year.
NoReference == <<0, 0>>

Invoice == [status        : InvoiceStatus,
            invoiceNumber : Nat,
            dateIssued    : Nat,
            accepted      : BOOLEAN,     \* dateAccepted is set
            reference     : Nat \X Nat]  \* persistentReferenceNumber

DraftInvoice(accepted) ==
  [status |-> "DRAFT", invoiceNumber |-> 0, dateIssued |-> 0,
   accepted |-> accepted, reference |-> NoReference]

\* Invoices issued since 2021: the year is that of dateIssued.
ComputeReferenceNumber(inv) ==
  IF inv.invoiceNumber = 0 \/ inv.dateIssued = 0
    THEN NoReference
    ELSE <<inv.invoiceNumber, inv.dateIssued>>

PersistentReferenceNumber(inv) ==
  IF inv.reference # NoReference THEN inv.reference
                                 ELSE ComputeReferenceNumber(inv)

\* Once it has a number and an issue date, an invoice keeps its reference.
WithReference(inv) == [inv EXCEPT !.reference = PersistentReferenceNumber(inv)]

\* Mutant: the last number is taken again.
AssignLastNumber(inv, lastInvoiceNumber) ==
  [inv EXCEPT !.invoiceNumber = lastInvoiceNumber]

AssignInvoiceNumber(inv, lastInvoiceNumber) ==
  [inv EXCEPT !.invoiceNumber = lastInvoiceNumber + 1]

MarkAsActive(inv, now) ==
  WithReference([inv EXCEPT !.status = "ACTIVE", !.dateIssued = now])

\* Mutant: a status outside the enumeration.
MarkAsSanctioned(inv) == [inv EXCEPT !.status = "SANCTIONED"]

MarkAsPending(inv) == [inv EXCEPT !.status = "PENDING"]

\* Mutant: the issue date is forgotten.
MarkAsFinalUndated(inv, now) == WithReference([inv EXCEPT !.status = "FINAL"])

MarkAsFinal(inv, now) ==
  WithReference([inv EXCEPT !.status = "FINAL",
                            !.dateIssued = IF @ = 0 THEN now ELSE @])

\* InvoiceMap.toPersistence: every column of the row, the reference included.
ToPersistence(inv) == WithReference(inv)
=============================================================================
