--------------------------- MODULE MCWebhookOrder ---------------------------
(* Instances of WebhookOrder for TLC. *)
EXTENDS WebhookOrder

Note(event, success, psp, amount) ==
  [event |-> event, success |-> success, psp |-> psp, amount |-> amount,
   auto |-> TRUE, review |-> FALSE, sameMethod |-> TRUE]

(* A gift card and a card that pay an order of amount 2 together, and a   *)
(* card whose payments are captured by hand.                              *)
GiftCard == Note("AUTHORISATION", TRUE, "G", 1)
Card == Note("AUTHORISATION", TRUE, "C", 1)
ManualCard == [Note("AUTHORISATION", TRUE, "M", 1) EXCEPT !.auto = FALSE]

(* One that is refused. *)
Refused == [Note("AUTHORISATION", FALSE, "R", 2) EXCEPT !.auto = FALSE]

(* A payment of the full amount, and one that is captured by hand. *)
Full == Note("AUTHORISATION", TRUE, "F", 2)
ManualFull == [Full EXCEPT !.auto = FALSE]

(* One that is put under review, and the acceptance of its review. *)
Reviewed == [Full EXCEPT !.psp = "V", !.review = TRUE]
Accepted == Note("MANUAL_REVIEW_ACCEPT", TRUE, "V", 2)

OfferClosed == Note("OFFER_CLOSED", TRUE, "G", 2)

(* The parts add up, or they do not and Adyen returns them. *)
OrderClosed == Note("ORDER_CLOSED", TRUE, "O", 2)
OrderFailed == [OrderClosed EXCEPT !.success = FALSE]

Cancelled == Note("CANCELLATION", TRUE, "X", 2)

Partial == {GiftCard, Card, ManualCard, OfferClosed, OrderClosed, OrderFailed}
PartialDeliveries ==
  {{GiftCard, Card, ManualCard, OfferClosed, OrderClosed},
   {GiftCard, OfferClosed, OrderFailed}, {ManualCard, OfferClosed, OrderFailed}}

Troubled == {Full, Reviewed, Refused, OrderFailed, Cancelled, Accepted}
TroubledDeliveries ==
  {{Full, Refused, Cancelled, Accepted}, {Full, OrderFailed, Cancelled},
   {Reviewed, OrderFailed, Cancelled, Accepted}}

FullAndRefused == {ManualFull, Refused}
FullAndRefusedDeliveries == {FullAndRefused}
=============================================================================
