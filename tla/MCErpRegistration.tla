------------------------- MODULE MCErpRegistration -------------------------
(* One invoice that can be published, whose payer may be from a sanctioned    *)
(* country, and that may get two credit notes; one whose publishing always    *)
(* throws; and one with nothing to pay.                                       *)
EXTENDS ErpRegistration

CONSTANTS i1, i2, i3, n1, n2

MCInvoiceOf == [n \in Notes |-> i1]
=============================================================================
