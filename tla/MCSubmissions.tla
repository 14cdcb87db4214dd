--------------------------- MODULE MCSubmissions ---------------------------
(* Two submission messages with different authors, a return, a withdrawal, an *)
(* acceptance, an approved decision and the publication, in every order.      *)
EXTENDS Submissions, TLC

CONSTANTS s1, s2, r1, w1, acc1, ta1, ta2, pub1, a1, a2

MCInvoiceable == {s1, s2, acc1}
MCAuthorOf == s1 :> a1 @@ s2 :> a2 @@ acc1 :> a1
=============================================================================
