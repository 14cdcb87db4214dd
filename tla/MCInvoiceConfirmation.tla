----------------------- MODULE MCInvoiceConfirmation -----------------------
(* Executions on the invoice i1, and p3 and m2 on the invoice i2, which was *)
(* accepted before: m2 delivers its acceptance again.  p2's payer is from a *)
(* sanctioned country where Sanctioned says so.                             *)
EXTENDS InvoiceConfirmation, TLC

CONSTANTS i1, i2, p1, p2, p3, m1, m2

MCInvoiceOfSecond   == p1 :> i1 @@ p2 :> i1
MCInvoiceOfRaces    == p1 :> i1 @@ p2 :> i1 @@ m1 :> i1
MCInvoiceOfIsolated == p1 :> i1 @@ p2 :> i1 @@ m1 :> i1 @@ m2 :> i2 @@ p3 :> i2
=============================================================================
