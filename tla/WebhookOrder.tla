---------------------------- MODULE WebhookOrder ----------------------------
(***************************************************************************)
(* What the notifications of its payments make of one order: the part of   *)
(* Helper/Webhook.php between the two saves of a notification's row that   *)
(* NotificationPipeline leaves to the single step Apply, with the handlers *)
(* of Helper/Webhook/ for AUTHORISATION, OFFER_CLOSED, ORDER_CLOSED,       *)
(* CANCELLATION and MANUAL_REVIEW_ACCEPT and what they use of              *)
(* Helper/Order.php, Helper/Invoice.php and Helper/AdyenOrderPayment.php.  *)
(*                                                                         *)
(* One process works on the notifications, one at a time, in any order: it *)
(* loads the order into an object, changes the object, writes payments,    *)
(* transactions and invoices on the way, and saves the object at the end.  *)
(* It can fail or be killed between these writes.                          *)
(***************************************************************************)
EXTENDS Integers, FiniteSetsExt

CONSTANTS
  Notes,         \* the notifications Adyen may send for this order
  Deliveries,    \* which of them may come together
  Total,         \* the order's amount
  CanCancelOrders,  \* setting notifications_can_cancel
  CancelState,   \* what setting payment_cancelled leads to
  AuthorizedState,  \* the state of setting payment_pre_authorized, "" if unset
  PaidState,     \* that of payment_authorized (of the status for virtual
                 \* orders or boleto), "" if unset or not one of processing
  ReviewStatus,  \* whether a status is set for orders under manual review
  Reprocessing,  \* whether rows left in progress are reprocessed by hand
  Faults,        \* faults that may happen, a subset of FaultKinds
  MaxErrors,     \* Notification::MAX_ERROR_COUNT
  NoNote

FaultKinds ==
  {"crash", "payment", "transaction", "invoice", "cancel", "order", "comment"}

Events == {"AUTHORISATION", "OFFER_CLOSED", "ORDER_CLOSED", "CANCELLATION",
           "MANUAL_REVIEW_ACCEPT"}

NoteType ==
  [event : Events, success : BOOLEAN, psp : STRING, amount : Nat,
   auto : BOOLEAN,         \* isAutoCapture of its payment method
   review : BOOLEAN,       \* the payment needs a manual review for fraud
   sameMethod : BOOLEAN]   \* its payment method is the order's

ASSUME SettingsAssumption ==
  /\ Notes \subseteq NoteType
  /\ NoNote \notin Notes
  /\ {CanCancelOrders, ReviewStatus, Reprocessing} \subseteq BOOLEAN
  /\ CancelState \in {"canceled", "holded"}
  /\ AuthorizedState \in {"", "new", "adyen_authorized"}
  /\ PaidState \in {"", "processing"}
  /\ Faults \subseteq FaultKinds
  /\ MaxErrors \in Nat \ {0}

ASSUME NotesAssumption == IsFiniteSet(Notes) /\ Total \in Nat

VARIABLES
  rows,      \* adyen_notification: what became of each notification
  errors,    \* its error_count
  order,     \* the order as it is stored
  stored,    \* adyen_order_payment: rows stored per notification (0, 1, many)
  refunded,  \* notifications whose payment is marked as fully refunded
  invoices,  \* invoices stored for the order (0, 1, many)
  pc,        \* where processNotification is
  current,   \* the notification being processed
  object     \* the order object it works on

vars == <<rows, errors, order, stored, refunded, invoices, pc, current, object>>

OrderStates ==
  {"new", "pending_payment", "payment_review", "adyen_authorized",
   "processing", "canceled", "holded"}

NoEvent == <<"", FALSE>>

(* event: adyen_notification_event_code.  invoiced: whether its items are. *)
(* inProcess lives in the object only.                                     *)
OrderType ==
  [state : OrderStates, event : {NoEvent} \cup (Events \X BOOLEAN),
   invoiced : BOOLEAN, inProcess : BOOLEAN]

Init ==
  /\ rows = [n \in Notes |-> "absent"]
  /\ errors = [n \in Notes |-> 0]
  /\ \E state \in {"new", "pending_payment", "payment_review"} :
        order = [state |-> state, event |-> NoEvent, invoiced |-> FALSE,
                 inProcess |-> FALSE]
  /\ stored = [n \in Notes |-> 0]
  /\ refunded = {}
  /\ invoices = 0
  /\ pc = "idle"
  /\ current = NoNote
  /\ object = order

-----------------------------------------------------------------------------
(* The order object.                                                       *)

(* Order::canCancel, canInvoice and canHold of the framework. *)
Open(o) == o.state \notin {"canceled", "holded", "payment_review"}
CanCancel(o) == Open(o) /\ ~o.invoiced
CanInvoice(o) == Open(o) /\ ~o.invoiced
CanHold(o) == Open(o)

(* The framework's state handler, called by every save of an order. *)
Saved(o) ==
  [o EXCEPT !.state = IF o.state = "new" /\ o.inProcess THEN "processing" ELSE @,
            !.inProcess = FALSE]

Moved(o, state) == [o EXCEPT !.state = state]

(* Order::setPrePaymentAuthorized *)
PrePaymentAuthorized(o) ==
  IF AuthorizedState = "" THEN o ELSE Moved(o, AuthorizedState)

(* finalizeOrder: the status is set, and with it the state it belongs to. *)
PaymentAuthorized(o) == IF PaidState = "" THEN o ELSE Moved(o, PaidState)

(* Mutant: leaves the order in payment_review. *)
DetailsNotUpdated(o) == o

(* Order::updatePaymentDetails: no invoice can be made in payment_review. *)
DetailsUpdated(o) == IF o.state = "payment_review" THEN Moved(o, "new") ELSE o

(* The amounts of the rows of adyen_order_payment, added up. *)
Amount(payments, notes) ==
  MapThenSumSet(LAMBDA n : payments[n] * n.amount, notes)

IsFullAmountAuthorized == Amount(stored, Notes) = Total

(* AdyenOrderPayment::isFullAmountFinalized, before any CAPTURE. *)
IsFullAmountFinalized == Amount(stored, {n \in Notes : n.auto}) = Total

(* Mutant: does not look at the amounts. *)
FinalizedAnyway(o) == PaymentAuthorized(o)

(* Order::finalizeOrder: both branches. *)
Finalized(o) ==
  IF IsFullAmountFinalized THEN PaymentAuthorized(o)
  ELSE IF o.state = "payment_review" THEN PrePaymentAuthorized(o)
  ELSE o

(* CaseManagement::markCaseAsPendingReview *)
UnderReview(o, auto) ==
  [o EXCEPT !.state = IF ReviewStatus THEN "new" ELSE @,
            !.inProcess = IF auto THEN FALSE ELSE @]

(* "Move the order from PAYMENT_REVIEW to NEW, so that it can be cancelled" *)
MadeCancelable(o) ==
  IF ~CanCancel(o) /\ CanCancelOrders THEN Moved(o, "new") ELSE o

(* Order::holdCancelOrder(o, true): whether it changes the order. *)
WouldCancel(o) ==
  /\ CanCancelOrders
  /\ IF CancelState = "holded" THEN CanHold(o) ELSE CanCancel(o)

-----------------------------------------------------------------------------
(* The webhook module (an external library) decides on the new state of    *)
(* the payment from the order's state and the notification.                *)

Transition(n, o) ==
  IF o.state = "canceled" THEN "cancelled"
  ELSE IF n.success THEN "paid" ELSE "failed"

Arrive(n) ==
  /\ rows[n] = "absent"
  /\ \E d \in Deliveries : {m \in Notes : rows[m] # "absent"} \cup {n} \subseteq d
  /\ rows' = [rows EXCEPT ![n] = "waiting"]
  /\ UNCHANGED <<errors, order, stored, refunded, invoices, pc, current, object>>

(* The row is marked as being processed, the order loaded, and its last    *)
(* event set on the object by addNotificationDetailsHistoryComment.        *)
Load(n) ==
  /\ pc = "idle"
  /\ rows[n] = "waiting" \/ (Reprocessing /\ rows[n] = "in progress")
  /\ rows' = [rows EXCEPT ![n] = "in progress"]
  /\ current' = n
  /\ object' = [order EXCEPT !.event = <<n.event, n.success>>]
  /\ pc' = "handle"
  /\ UNCHANGED <<errors, order, stored, refunded, invoices>>

Handling(event) == pc = "handle" /\ current.event = event /\ object.state # "holded"

(* getCurrentState knows no counterpart of "holded". *)
LeaveUnhandled ==
  /\ pc = "handle"
  /\ object.state = "holded"
  /\ pc' = "idle"
  /\ current' = NoNote
  /\ UNCHANGED <<rows, errors, order, stored, refunded, invoices, object>>

(* The handler ends with the object o, or throws with it. *)
Handled(o) == object' = o /\ pc' = "save"
Thrown(o) == object' = o /\ pc' = "failed"

(* Order::holdCancelOrder(o, true); Order::cancel asks the gateway. *)
HoldCancel(o) ==
  IF WouldCancel(o)
  THEN \/ Handled(Moved(o, CancelState))
       \/ "cancel" \in Faults /\ CancelState = "canceled" /\ Thrown(o)
  ELSE Handled(o)

-----------------------------------------------------------------------------
(* AuthorisationWebhookHandler                                             *)

Authorisation(transition) ==
  Handling("AUTHORISATION") /\ Transition(current, object) = transition

(* The order was cancelled: nothing is done. *)
IgnoreAuthorisation ==
  /\ Authorisation("cancelled")
  /\ Handled(object)
  /\ UNCHANGED <<rows, errors, order, stored, refunded, invoices, current>>

(* Mutant: a payment that is stored already is stored again. *)
RecordPaymentAgain ==
  /\ Authorisation("paid")
  /\ stored' = [stored EXCEPT ![current] = IF @ < 2 THEN @ + 1 ELSE 2]
  /\ pc' = "recorded"
  /\ UNCHANGED <<rows, errors, order, refunded, invoices, current, object>>

(* AdyenOrderPayment::createAdyenOrderPayment: the PSP reference is unique *)
(* in the table, and any exception of the insert is swallowed.             *)
RecordPayment ==
  /\ Authorisation("paid")
  /\ \/ stored' = [stored EXCEPT ![current] =
                      IF \E n \in Notes : n.psp = current.psp /\ stored[n] > 0
                      THEN @ ELSE 1]
     \/ "payment" \in Faults /\ UNCHANGED stored
  /\ pc' = "recorded"
  /\ UNCHANGED <<rows, errors, order, refunded, invoices, current, object>>

AwaitRemainder ==
  /\ pc = "recorded"
  /\ ~IsFullAmountAuthorized
  /\ pc' = "save"
  /\ UNCHANGED <<rows, errors, order, stored, refunded, invoices, current, object>>

SaveTransaction ==
  /\ pc = "recorded"
  /\ IsFullAmountAuthorized
  /\ object' = DetailsUpdated(PrePaymentAuthorized(object))
  /\ \/ pc' = "authorised"
     \/ "transaction" \in Faults /\ pc' = "failed"
  /\ UNCHANGED <<rows, errors, order, stored, refunded, invoices, current>>

LeaveToCapture ==
  /\ pc = "authorised"
  /\ ~current.auto
  /\ Handled(IF current.review THEN UnderReview(object, FALSE) ELSE object)
  /\ UNCHANGED <<rows, errors, order, stored, refunded, invoices, current>>

FinishAutoCapture(o) ==
  Handled(IF current.review THEN UnderReview(o, TRUE) ELSE Finalized(o))

(* Mutant: an invoice is made whatever is invoiced already. *)
CreateInvoiceAgain ==
  /\ pc = "authorised"
  /\ current.auto
  /\ invoices' = IF invoices = 0 THEN 1 ELSE 2
  /\ FinishAutoCapture([object EXCEPT !.invoiced = TRUE, !.inProcess = TRUE])
  /\ UNCHANGED <<rows, errors, order, stored, refunded, current>>

(* Invoice::createInvoice: the items are registered with the order object, *)
(* then the invoice is saved, but not the order.                           *)
CreateInvoice ==
  /\ pc = "authorised"
  /\ current.auto
  /\ LET o == [object EXCEPT !.invoiced = TRUE, !.inProcess = TRUE]
     IN  IF CanInvoice(object)
         THEN \/ /\ invoices' = IF invoices = 0 THEN 1 ELSE 2
                 /\ FinishAutoCapture(o)
              \/ "invoice" \in Faults /\ Thrown(o) /\ UNCHANGED invoices
         ELSE FinishAutoCapture(object) /\ UNCHANGED invoices
  /\ UNCHANGED <<rows, errors, order, stored, refunded, current>>

(* handleFailedAuthorisation.  The event it compares with is the one set   *)
(* by Load, that of this notification; adyen_notification_payment_captured *)
(* is no column of the order, so that it is never set on a loaded object.  *)
RefuseAuthorisation ==
  /\ Authorisation("failed")
  /\ IF object.event = <<"AUTHORISATION", TRUE>> THEN Handled(object)
     ELSE HoldCancel(MadeCancelable(object))
  /\ UNCHANGED <<rows, errors, order, stored, refunded, invoices, current>>

-----------------------------------------------------------------------------
(* The other handlers.                                                     *)

(* Mutant: a part that was authorised does not keep the order. *)
CloseOfferAnyway ==
  /\ Handling("OFFER_CLOSED")
  /\ IF ~current.sameMethod THEN Handled(object)
     ELSE HoldCancel(IF object.state = "canceled" THEN object
                     ELSE MadeCancelable(object))
  /\ UNCHANGED <<rows, errors, order, stored, refunded, invoices, current>>

(* OfferClosedWebhookHandler *)
CloseOffer ==
  /\ Handling("OFFER_CLOSED")
  /\ IF (\E n \in Notes : stored[n] > 0) \/ ~current.sameMethod
     THEN Handled(object)
     ELSE HoldCancel(IF object.state = "canceled" THEN object
                     ELSE MadeCancelable(object))
  /\ UNCHANGED <<rows, errors, order, stored, refunded, invoices, current>>

(* OrderClosedWebhookHandler: captured payments are refunded by Adyen when *)
(* the order could not be paid in full.                                    *)
CloseOrder ==
  /\ Handling("ORDER_CLOSED")
  /\ IF current.success
     THEN Handled(object) /\ UNCHANGED refunded
     ELSE /\ refunded' = refunded \cup {n \in Notes : n.auto /\ stored[n] > 0}
          /\ IF CanCancel(object) /\ CanCancelOrders
             THEN HoldCancel(object) ELSE Handled(object)
  /\ UNCHANGED <<rows, errors, order, stored, invoices, current>>

(* Mutant: the order is made cancelable, as for the other events. *)
CancelForced ==
  /\ Handling("CANCELLATION")
  /\ HoldCancel(MadeCancelable(object))
  /\ UNCHANGED <<rows, errors, order, stored, refunded, invoices, current>>

(* CancellationWebhookHandler: the invoices made here are paid, and a paid *)
(* one cannot be cancelled.                                                *)
Cancel ==
  /\ Handling("CANCELLATION")
  /\ IF invoices > 0 THEN Handled(object) ELSE HoldCancel(object)
  /\ UNCHANGED <<rows, errors, order, stored, refunded, invoices, current>>

(* ManualReviewAcceptWebhookHandler *)
AcceptReview ==
  /\ Handling("MANUAL_REVIEW_ACCEPT")
  /\ Handled(IF current.auto THEN Finalized(object) ELSE object)
  /\ UNCHANGED <<rows, errors, order, stored, refunded, invoices, current>>

-----------------------------------------------------------------------------
(* The end of processNotification.                                         *)

SaveOrder ==
  /\ pc = "save"
  /\ \/ order' = Saved(object) /\ pc' = "mark"
     \/ "order" \in Faults /\ UNCHANGED order /\ pc' = "failed"
  /\ UNCHANGED <<rows, errors, stored, refunded, invoices, current, object>>

Leave == pc' = "idle" /\ current' = NoNote

MarkDone ==
  /\ pc = "mark"
  /\ rows' = [rows EXCEPT ![current] = "done"]
  /\ Leave
  /\ UNCHANGED <<errors, order, stored, refunded, invoices, object>>

RecordError ==
  /\ pc = "failed"
  /\ errors' = [errors EXCEPT ![current] = IF @ < MaxErrors THEN @ + 1 ELSE @]
  /\ rows' = [rows EXCEPT ![current] =
                 IF errors[current] + 1 = MaxErrors THEN "done" ELSE "waiting"]
  /\ pc' = "comment"
  /\ UNCHANGED <<order, stored, refunded, invoices, current, object>>

(* ... and the order is saved with a comment, in the state in which the    *)
(* handler left the object.                                                *)
SaveComment ==
  /\ pc = "comment"
  /\ order' = Saved(object)
  /\ Leave
  /\ UNCHANGED <<rows, errors, stored, refunded, invoices, object>>

(* The process ends: it is killed, or the last save throws. *)
Crash ==
  /\ \/ "crash" \in Faults /\ pc # "idle"
     \/ "comment" \in Faults /\ pc = "comment"
  /\ Leave
  /\ UNCHANGED <<rows, errors, order, stored, refunded, invoices, object>>

HandleAuthorisation ==
  \/ IgnoreAuthorisation \/ RecordPayment \/ AwaitRemainder \/ SaveTransaction
  \/ LeaveToCapture \/ CreateInvoice \/ RefuseAuthorisation

Process ==
  \/ \E n \in Notes : Load(n)
  \/ LeaveUnhandled
  \/ HandleAuthorisation \/ CloseOffer \/ CloseOrder \/ Cancel \/ AcceptReview
  \/ SaveOrder \/ MarkDone \/ RecordError \/ SaveComment

Next ==
  \/ \E n \in Notes : Arrive(n)
  \/ Process
  \/ Crash

Spec == Init /\ [][Next]_vars

(* The runner goes on, and takes every waiting row some time. *)
Fairness == WF_vars(Process) /\ \A n \in Notes : SF_vars(Load(n))

FairSpec == Spec /\ Fairness

-----------------------------------------------------------------------------
(* Properties                                                              *)

(* The order, what is stored of it and the process hold what they are      *)
(* meant to.                                                               *)
TypeOK ==
  /\ rows \in [Notes -> {"absent", "waiting", "in progress", "done"}]
  /\ errors \in [Notes -> 0..MaxErrors]
  /\ order \in OrderType
  /\ stored \in [Notes -> 0..2]
  /\ refunded \subseteq Notes
  /\ invoices \in 0..2
  /\ pc \in {"idle", "handle", "recorded", "authorised", "save", "mark",
             "failed", "comment"}
  /\ current \in Notes \cup {NoNote}
  /\ object \in OrderType

(* What Adyen authorised and the shop knows of, each payment once. *)
Authorised ==
  LET payments == {<<n.psp, n.amount>> : n \in {m \in Notes : stored[m] > 0}}
  IN  MapThenSumSet(LAMBDA p : p[2], payments)

(* An order is called authorised, or goes into processing, only when its   *)
(* payments add up to its total, however often their notifications were    *)
(* tried (handleSuccessfulAuthorisation, finalizeOrder).                   *)
PaidInFull ==
  order.state \in {"adyen_authorized", "processing"} => Authorised >= Total

(* An order in processing is invoiced: every failed attempt leaves enough for the *)
(* next one.                                                               *)
PaidIsInvoiced == order.state = "processing" => invoices > 0

(* No order is invoiced twice, although the invoice is saved long before   *)
(* the order: an attempt that fails after it leaves the order's items      *)
(* registered as invoiced, in whatever state it saves the order.           *)
InvoicedOnce == invoices <= 1

(* No notification revives a cancelled order: each handler leaves it alone,*)
(* and none finalizes it, since it is paid in full only when it cannot be  *)
(* cancelled any more.                                                     *)
CancelIsFinal == [][order.state = "canceled" => order'.state = "canceled"]_vars

(* "ensure they won't close any order which has an AUTHORISED notification *)
(* arrived a bit later than the OFFER_CLOSED or the AUTHORISATION          *)
(* success=false one" (Model/Notification.php): an order whose payments    *)
(* were authorised in full is not cancelled.                               *)
PaidNotCancelled == Authorised = Total => order.state \notin {"canceled", "holded"}

(* Once paid in full, the order gets into processing with its invoice and  *)
(* stays there, unless a handler threw, or another attempt was refused or  *)
(* put under review: these may take the order back (RefuseAuthorisation,   *)
(* UnderReview).                                                           *)
PaidIsProcessed ==
  Authorised = Total ~>
    \/ [](order.state = "processing" /\ invoices = 1)
    \/ \E n \in Notes :
         \/ errors[n] > 0
         \/ /\ n.event = "AUTHORISATION" /\ (n.review \/ ~n.success)
            /\ rows[n] = "done"

StatusOf(o) ==
  IF o.state = "processing" THEN "Paid"
  ELSE IF o.state \in {"canceled", "holded"} THEN "Cancelled" ELSE "Open"

Life == INSTANCE OrderLife WITH status <- StatusOf(order)

(* The handlers take the order through the life the shop promises,         *)
(* whatever the order in which partial payments, reviews, an expired offer *)
(* and a cancellation are notified.                                        *)
ImplementsLife == Life!Spec
=============================================================================
