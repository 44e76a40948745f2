----------------------------- MODULE OrderLife -----------------------------
(***************************************************************************)
(* What the shop promises about an order's payment: the order is open      *)
(* until it is either paid or cancelled, for good.  WebhookOrder           *)
(* implements it as long as no attempt is refused.                         *)
(***************************************************************************)
VARIABLE status

Init == status = "Open"

Settle(outcome) == status = "Open" /\ status' = outcome

Pay == Settle("Paid")
Cancel == Settle("Cancelled")

Next == Pay \/ Cancel

Spec == Init /\ [][Next]_status
=============================================================================
