----------------------------- MODULE MCPayments -----------------------------
(* One invoice; o1 and o2 are PayPal orders, c1 a card, b1 and b2 bank       *)
(* transfers; a1 approves o1, and webhooks tell of the capture of o1.       *)
EXTENDS Payments, TLC

CONSTANTS inv1, ref1, o1, o2, c1, b1, b2, a1, w1, w2

MCInvoiceOf   == [r \in Requests |-> inv1]
MCOrderOf     == [p \in Approvals \cup Webhooks |-> o1]
MCEventOf     == [w \in Webhooks |-> IF w = w1 THEN "COMPLETED" ELSE "FAILED"]
MCEventOfAny  == [w \in Webhooks |-> IF w = w1 THEN "COMPLETED" ELSE "OTHER"]
MCReferenceOf == [b \in Transfers |-> ref1]
MCAmountOf    == [b \in Transfers |-> IF b = b1 THEN 1 ELSE 2]
=============================================================================
