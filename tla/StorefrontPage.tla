--------------------------- MODULE StorefrontPage ---------------------------
(***************************************************************************)
(* What the payment renderers of the checkout page share: the radio button *)
(* of the selected method, the full screen loader, the dialogs, the        *)
(* flags of the Place Order buttons, the attempts to pay, and the server   *)
(* that answers their calls.  The renderers are in CardRenderer,           *)
(* VaultRenderer, MethodRenderer and PosRenderer, the page in Storefront.  *)
(*                                                                         *)
(* JavaScript runs one turn at a time: a click, a callback of a component, *)
(* or what follows an awaited answer is one action.  A call is sent in one *)
(* turn and answered in another; the order changes when it is answered,    *)
(* and the answer may be lost on its way back.                             *)
(***************************************************************************)
EXTENDS Naturals, Sequences, FiniteSets

CONSTANTS
  Renderers,      \* payment method renderers
  Kind,           \* the script of each
  Pages,          \* the sets of renderers a checkout may list
  Latecomers,     \* bound: renderers whose script may be loaded late
  None,
  MaxAttempts,    \* bound: orders placed from one page
  MaxBuilds,      \* bound: libraries of a renderer built at the same time
  MaxChallenges,  \* bound: actions an order asks for after the first
  PosOrder,       \* setting payment_action of adyen_pos_cloud is "order"
  Faults          \* faults that may happen, a subset of FaultKinds

CardKinds == {"cc", "vault"}
MethodKinds == {"pm", "wallet", "cashapp", "paypal", "amazon"}
Kinds == CardKinds \cup MethodKinds \cup {"pos"}

(* lost: an answer is lost.  status: the payment-status call fails.  mount: *)
(* an action cannot be mounted.  pending: a result Pending without action. *)
(* busy: the terminal answers In Progress.                                 *)
FaultKinds == {"lost", "status", "mount", "pending", "busy"}

ASSUME PageAssumption ==
  /\ IsFiniteSet(Renderers)
  /\ Kind \in [Renderers -> Kinds]
  /\ Pages \subseteq SUBSET Renderers
  /\ Latecomers \subseteq Renderers
  /\ None \notin Renderers
  /\ {MaxAttempts, MaxChallenges} \subseteq Nat
  /\ MaxBuilds \in [Renderers -> Nat \ {0}]
  /\ PosOrder \in BOOLEAN
  /\ Faults \subseteq FaultKinds

VARIABLES
  listed,      \* renderers of the page
  started,     \* those whose script has run
  checked,     \* the selected one
  answered,    \* the payment methods have arrived
  refreshing,  \* they are being asked for
  session,     \* the URL has an amazonCheckoutSessionId
  building,    \* pending calls of AdyenCheckout(), per renderer
  lib,         \* checkoutComponent is set
  fields,      \* the mounted component's form
  reported,    \* the validity its onChange last reported
  sheets,      \* wallets whose button has opened a window
  loader,      \* the counter of the full screen loader
  modal,       \* renderers whose dialog is open
  flag,        \* whether the Place Order button is allowed
  attempts,    \* attempts to pay; the order of attempt a is order a
  orderId,     \* the orderId a renderer remembers, 0 if none
  cart,        \* the server's quote is active
  page,        \* where the browser is
  landed,      \* the order whose handler led to the success page
  crossed      \* a callback that looks at nothing has come to a covered page

late == <<started, sheets, crossed>>
forms == <<listed, late, checked, answered, refreshing, session, building, lib,
           fields, reported>>
vars == <<forms, loader, modal, flag, attempts, orderId, cart, page, landed>>

Phases == {"placing", "asking", "acting", "sending", "declining",
           "failed", "landed", "dropped"}
Flying == {"placing", "asking", "sending", "declining"}
Actions == {"none", "challenge", "redirect", "popup"}
Orders == {"none", "open", "paid", "received", "refused"}
FinalOrders == {"paid", "received"}   \* isFinal of the answer

(* act: the action the server has stored with the order's payment. *)
AttemptType ==
  [by : Renderers, phase : Phases, act : Actions, order : Orders,
   left : 0..MaxChallenges]

(* A renderer that waits for the payment methods shows nothing. *)
Init ==
  /\ listed \in Pages
  /\ started = listed \ Latecomers
  /\ checked \in listed \cup {None}
  /\ answered = FALSE
  /\ refreshing = TRUE
  /\ session \in {FALSE} \cup {b \in {TRUE} : \E r \in listed : Kind[r] = "amazon"}
  /\ building = [r \in Renderers |-> 0]
  /\ lib = [r \in Renderers |-> FALSE]
  /\ fields = [r \in Renderers |-> "none"]
  /\ reported = [r \in Renderers |-> FALSE]
  /\ sheets = {}
  /\ loader = 1
  /\ modal = {}
  /\ flag = [r \in Renderers |-> Kind[r] \notin MethodKinds]
  /\ attempts = <<>>
  /\ orderId = [r \in Renderers |-> 0]
  /\ cart = TRUE
  /\ page = "here"
  /\ landed = 0
  /\ crossed = FALSE

-----------------------------------------------------------------------------
(* The page. *)

(* A loader or a dialog covers the page: nothing can be clicked. *)
Covered == loader > 0 \/ modal # {}
Clickable == page = "here" /\ answered /\ ~Covered

(* n calls of stopLoader: the counter does not go below zero. *)
Stopped(n) == IF loader > n THEN loader - n ELSE 0

(* Callbacks that look at neither the loader nor the dialogs *)
Crosses == crossed' = (crossed \/ Covered)

(* The flag is the framework's, one for all renderers that do not have     *)
(* their own; a method of MethodKinds has a state of its own.              *)
SharesFlag(q, r) == q = r \/ {Kind[q], Kind[r]} \subseteq {"vault", "pos"}
Allowed(r, allowed) ==
  [q \in Renderers |-> IF SharesFlag(q, r) THEN allowed ELSE flag[q]]

(* AdyenPaymentModal.closeModal: by class, the same for all of MethodKinds. *)
Closed(r) == {q \in modal : q # r /\ {Kind[q], Kind[r]} \cap MethodKinds = {}}
Opened(r) == modal \cup {r}

Asking(a, kinds, phase) ==
  /\ page = "here"
  /\ a \in DOMAIN attempts
  /\ Kind[attempts[a].by] \in kinds
  /\ attempts[a].phase = phase

(* placeOrderAction starts the loader once more and stops it when it is    *)
(* answered.                                                               *)
Begin(r) ==
  /\ Len(attempts) < MaxAttempts
  /\ attempts' = Append(attempts,
       [by |-> r, phase |-> "placing", act |-> "none", order |-> "none",
        left |-> MaxChallenges])
  /\ loader' = loader + 2

Goes(a, s, phase) ==
  /\ attempts' = [attempts EXCEPT ![a] =
       [@ EXCEPT !.phase = phase, !.act = s.act, !.order = s.order, !.left = s.left]]
  /\ cart' = s.cart

Lands(a, s) ==
  /\ Goes(a, s, "landed")
  /\ page' = "success"
  /\ landed' = a

-----------------------------------------------------------------------------
(* The server: what an answer says (ok) and what has become of the order.  *)

Outcome(ok, order, act, left, active) ==
  [ok |-> ok, order |-> order, act |-> act, left |-> left, cart |-> active]

Same(a) ==
  Outcome(TRUE, attempts[a].order, attempts[a].act, attempts[a].left, cart)

Oks == {TRUE} \cup (IF "lost" \in Faults THEN {FALSE} ELSE {})

Failure(order, act, left, active) == Outcome(FALSE, order, act, left, active)

(* What has happened to the order, and the answer that may be lost *)
Answers(order, act, left, active) ==
  {Outcome(ok, order, act, left, active) : ok \in Oks}

ActionsOf(a) ==
  (IF Kind[attempts[a].by] \in {"paypal", "cashapp"} THEN {"popup"}
                                         ELSE {"challenge", "redirect"})
  \cup (IF "pending" \in Faults THEN {"none"} ELSE {})

(* Nothing more is asked for: the cart is closed (SubmitQuoteObserver). *)
PlacedFinal ==
  UNION {Answers(order, "none", MaxChallenges, FALSE) : order \in FinalOrders}

(* Another action is asked for *)
Opening(a, left, active) ==
  UNION {Answers("open", act, left, active) : act \in ActionsOf(a)}

(* The cart stays active while the order needs an action.  Without an       *)
(* active cart no order is placed.                                         *)
PlaceOutcomes(a) ==
  {Failure("none", "none", MaxChallenges, cart)} \cup
  (IF cart THEN PlacedFinal \cup Opening(a, MaxChallenges, cart) ELSE {})

(* AdyenPaymentsDetails: a refusal restores the quote and is an error; only *)
(* an authorisation closes the cart.                                       *)
DetailsOutcomes(a) ==
  LET left == attempts[a].left
      last == attempts[a].act IN
  {Failure("refused", last, left, TRUE)} \cup
  Answers("paid", last, left, FALSE) \cup
  Answers("received", last, left, cart) \cup
  (IF left = 0 THEN {} ELSE Opening(a, left - 1, cart))
=============================================================================
