--------------------------- MODULE MethodRenderer ---------------------------
(***************************************************************************)
(* The renderer of the other methods, adyen-pm-method.js, and those that   *)
(* extend it: the wallets with a button of their own (Google Pay, Apple    *)
(* Pay), Cash App and PayPal, whose component handles the action in a      *)
(* window of its own, and Amazon Pay, which leaves the page first and      *)
(* places the order when it is mounted after the return.                   *)
(***************************************************************************)
EXTENDS StorefrontPage

Wallets == {"wallet", "cashapp", "paypal"}

(* renderPreSelected *)
MethodPreselected(r) == Kind[r] \in MethodKinds /\ checked = r

(* selectPaymentMethod, createCheckoutComponent: what is mounted stays. *)
MethodSelect(r) ==
  /\ Clickable /\ r \in started /\ Kind[r] \in MethodKinds
  /\ checked' = r
  /\ IF lib[r] THEN UNCHANGED building
     ELSE /\ building[r] < MaxBuilds[r]
          /\ building' = [building EXCEPT ![r] = @ + 1]
  /\ UNCHANGED <<listed, late, answered, refreshing, session, lib, fields, reported,
                 loader, modal, flag, attempts, orderId, cart, page, landed>>

(* placeRedirectOrder, up to the call *)
PlaceRedirectOrder(r) ==
  /\ Begin(r)
  /\ flag' = Allowed(r, FALSE)

Built(r) ==
  /\ page = "here" /\ building[r] > 0
  /\ building' = [building EXCEPT ![r] = @ - 1]
  /\ lib' = [lib EXCEPT ![r] = TRUE]
  /\ UNCHANGED <<listed, late, checked, answered, refreshing, session, reported,
                 modal, orderId, cart, page, landed>>

(* mountPaymentMethodComponent: the button follows what is mounted. *)
MethodBuilt(r) ==
  /\ Built(r) /\ Kind[r] \in MethodKinds /\ ~(Kind[r] = "amazon" /\ session)
  /\ \E form \in (IF Kind[r] = "pm" THEN {"empty", "filled"} ELSE {"filled"}) :
       /\ fields' = [fields EXCEPT ![r] = form]
       /\ flag' = Allowed(r, form = "filled")
  /\ UNCHANGED <<loader, attempts>>

(* With a session in the URL the mounted component submits at once, unless *)
(* the form is not valid.                                                  *)
AmazonBuilt(r) ==
  /\ Built(r) /\ Kind[r] = "amazon" /\ session
  /\ fields' = [fields EXCEPT ![r] = "filled"]
  /\ \/ PlaceRedirectOrder(r)
     \/ UNCHANGED <<loader, flag, attempts>>

(* Without one its button leads to the page of Amazon. *)
AmazonPay(r) ==
  /\ Clickable /\ checked = r /\ Kind[r] = "amazon" /\ ~session
  /\ fields[r] # "none"
  /\ page' = "away"
  /\ UNCHANGED <<loader, modal, flag, attempts, orderId, cart, landed, forms>>

(* Mutant: the state is stored, not its validity. *)
MethodEditState(r) ==
  /\ Clickable /\ checked = r /\ Kind[r] = "pm" /\ fields[r] # "none"
  /\ \E valid \in BOOLEAN :
       /\ fields' = [fields EXCEPT ![r] = IF valid THEN "valid" ELSE "empty"]
       /\ flag' = Allowed(r, valid)
  /\ UNCHANGED <<listed, late, checked, answered, refreshing, session, building, lib,
                 reported, loader, modal, attempts, orderId, cart, page, landed>>

(* onChange of the component's configuration *)
MethodEdit(r) ==
  /\ Clickable /\ checked = r /\ Kind[r] = "pm" /\ fields[r] # "none"
  /\ \E valid \in BOOLEAN :
       /\ fields' = [fields EXCEPT ![r] = IF valid THEN "filled" ELSE "empty"]
       /\ flag' = Allowed(r, valid)
  /\ UNCHANGED <<listed, late, checked, answered, refreshing, session, building, lib,
                 reported, loader, modal, attempts, orderId, cart, page, landed>>

(* placeOrder, the button of the page: it follows the flag, and validate    *)
(* asks the form around the component only.                                *)
MethodPlace(r) ==
  /\ Clickable /\ checked = r /\ Kind[r] = "pm" /\ flag[r]
  /\ PlaceRedirectOrder(r)
  /\ UNCHANGED <<modal, orderId, cart, page, landed, forms>>

(* The button of a wallet's component opens a window of its own. *)
OpenSheet(r) ==
  /\ Clickable /\ checked = r /\ Kind[r] \in Wallets /\ fields[r] # "none"
  /\ sheets' = sheets \cup {r}
  /\ UNCHANGED <<listed, started, crossed, checked, answered, refreshing,
                 session, building, lib, fields, reported, loader, modal, flag,
                 attempts, orderId, cart, page, landed>>

(* handleOnSubmit, when the shopper has confirmed it there: whatever is     *)
(* going on in the page.                                                   *)
MethodSubmit(r) ==
  /\ page = "here" /\ r \in sheets
  /\ sheets' = sheets \ {r}
  /\ PlaceRedirectOrder(r)
  /\ Crosses
  /\ UNCHANGED <<listed, started, checked, answered, refreshing, session,
                 building, lib, fields, reported, modal, orderId, cart, page,
                 landed>>

-----------------------------------------------------------------------------
(* handleOnFailure after n calls of stopLoader, with the dialogs open that *)
(* the turn leaves open.                                                   *)

MethodFailure(a, s, n, open) ==
  /\ Kind[attempts[a].by] \in {"pm", "wallet", "cashapp"}
  /\ Goes(a, s, IF open = {} THEN "failed" ELSE "dropped")
  /\ flag' = Allowed(attempts[a].by, TRUE)
  /\ loader' = Stopped(n + 1)
  /\ modal' = open

(* It calls isPlaceOrderAllowed, which does not exist. *)
PaypalFailure(a, s, n) ==
  /\ Kind[attempts[a].by] = "paypal"
  /\ Goes(a, s, "dropped")
  /\ loader' = Stopped(n)
  /\ UNCHANGED <<flag, modal>>

(* handleDeclineFlow of the component *)
AmazonFailure(a, s, n, open) ==
  /\ Kind[attempts[a].by] = "amazon"
  /\ Goes(a, s, "declining")
  /\ loader' = Stopped(n)
  /\ modal' = open
  /\ UNCHANGED flag

HandleFailure(a, s, n, open) ==
  \/ MethodFailure(a, s, n, open)
  \/ PaypalFailure(a, s, n)
  \/ AmazonFailure(a, s, n, open)

MethodPlaceFails(a) ==
  /\ Asking(a, MethodKinds, "placing")
  /\ \E s \in PlaceOutcomes(a) : ~s.ok /\ HandleFailure(a, s, 1, modal)
  /\ UNCHANGED <<orderId, page, landed, forms>>

MethodPlaceDone(a) ==
  /\ Asking(a, MethodKinds, "placing")
  /\ \E s \in PlaceOutcomes(a) : s.ok /\ Goes(a, s, "asking")
  /\ loader' = Stopped(1)
  /\ UNCHANGED <<modal, flag, orderId, page, landed, forms>>

(* renderActionComponent: a dialog for everything but a redirect.  What it *)
(* throws is handled as a failure, the dialog stays.                       *)
RenderAction(a, s) ==
  LET open == IF s.act = "redirect" THEN modal ELSE Opened(attempts[a].by) IN
  /\ Kind[attempts[a].by] \in {"pm", "wallet", "amazon"}
  /\ \/ /\ s.act # "none"
        /\ Goes(a, s, "acting")
        /\ loader' = Stopped(1)
        /\ modal' = open
        /\ UNCHANGED flag
     \/ /\ s.act = "none" \/ "mount" \in Faults
        /\ HandleFailure(a, s, 1, open)

(* renderActionComponent of PayPal and Cash App: in a window of its own. *)
RenderPopup(a, s) ==
  /\ Kind[attempts[a].by] \in {"paypal", "cashapp"}
  /\ \/ /\ s.act # "none"
        /\ Goes(a, s, "acting")
        /\ loader' = Stopped(1)
        /\ UNCHANGED <<modal, flag>>
     \/ /\ s.act = "none" \/ "mount" \in Faults
        /\ HandleFailure(a, s, 1, modal)

(* validateActionOrPlaceOrder *)
MethodStatus(a) ==
  /\ Asking(a, MethodKinds, "asking")
  /\ \/ /\ attempts[a].order \in FinalOrders
        /\ Lands(a, Same(a))
        /\ UNCHANGED <<loader, modal, flag, orderId>>
     \/ /\ attempts[a].order \notin FinalOrders
        /\ RenderAction(a, Same(a)) \/ RenderPopup(a, Same(a))
        /\ orderId' = [orderId EXCEPT ![attempts[a].by] = a]
        /\ UNCHANGED <<page, landed>>
  /\ UNCHANGED forms

MethodStatusFails(a) ==
  /\ Asking(a, MethodKinds, "asking") /\ "status" \in Faults
  /\ HandleFailure(a, Same(a), 0, modal)
  /\ UNCHANGED <<orderId, page, landed, forms>>

-----------------------------------------------------------------------------
(* Callbacks of the component that carries an action. *)

(* The shopper finishes the action: handleOnAdditionalDetails. *)
MethodReport(a) ==
  /\ Asking(a, MethodKinds, "acting") /\ attempts[a].act # "redirect"
  /\ Goes(a, Same(a), "sending")
  /\ UNCHANGED <<loader, modal, flag, orderId, page, landed, forms>>

(* The answer leads to the success page whatever the result is. *)
MethodDetailsDone(a) ==
  /\ Asking(a, MethodKinds, "sending")
  /\ \E s \in DetailsOutcomes(a) : s.ok /\ Lands(a, s)
  /\ UNCHANGED <<loader, modal, flag, orderId, forms>>

(* Mutant: the dialog is left. *)
MethodDetailsFailsOpen(a) ==
  /\ Asking(a, MethodKinds, "sending")
  /\ \E s \in DetailsOutcomes(a) : ~s.ok /\ Goes(a, s, "failed")
  /\ loader' = Stopped(1)
  /\ flag' = Allowed(attempts[a].by, TRUE)
  /\ UNCHANGED <<modal, orderId, page, landed, forms>>

MethodDetailsFails(a) ==
  /\ Asking(a, MethodKinds, "sending")
  /\ \E s \in DetailsOutcomes(a) : ~s.ok /\ Goes(a, s, "failed")
  /\ loader' = Stopped(1)
  /\ modal' = Closed(attempts[a].by)
  /\ flag' = Allowed(attempts[a].by, TRUE)
  /\ UNCHANGED <<orderId, page, landed, forms>>

(* The shopper cancels it: handleOnCancel makes the same call. *)
MethodCancel(a) == MethodReport(a)

(* handleOnError of the component while an action is under way *)
MethodError(a) ==
  /\ Asking(a, MethodKinds, "acting") /\ attempts[a].act # "redirect"
  /\ MethodFailure(a, Same(a), 0, modal)
  /\ UNCHANGED <<orderId, page, landed, forms>>

(* PayPal makes the details call with its token. *)
PaypalError(a) ==
  /\ Asking(a, {"paypal"}, "acting")
  /\ Goes(a, Same(a), "sending")
  /\ UNCHANGED <<loader, modal, flag, orderId, page, landed, forms>>

(* remountAmazonPayComponent: the session is removed from the URL and the  *)
(* component is built anew.  The loader that was started for the attempt   *)
(* stays.                                                                  *)
AmazonRemount(a) ==
  /\ \/ Asking(a, {"amazon"}, "declining")
     \/ Asking(a, {"amazon"}, "acting") /\ attempts[a].act # "redirect"
  /\ building[attempts[a].by] < MaxBuilds[attempts[a].by]
  /\ building' = [building EXCEPT ![attempts[a].by] = @ + 1]
  /\ session' = FALSE
  /\ Goes(a, Same(a), "dropped")
  /\ UNCHANGED <<listed, late, checked, answered, refreshing, lib, fields, reported,
                 loader, modal, flag, orderId, page, landed>>

(* The decline flow leads to the page of Amazon again. *)
AmazonDecline(a) ==
  /\ Asking(a, {"amazon"}, "declining")
  /\ page' = "away"
  /\ UNCHANGED <<loader, modal, flag, attempts, orderId, cart, landed, forms>>

(* handleOnError of a component without an action, its window closed for    *)
(* example: a loader is stopped, whoever has started it.                   *)
MethodErrorIdle(r) ==
  /\ page = "here"
  /\ Kind[r] \in {"pm", "wallet", "cashapp"} /\ fields[r] # "none"
  /\ \A a \in DOMAIN attempts : attempts[a].by = r => attempts[a].phase # "acting"
  /\ sheets' = sheets \ {r}
  /\ flag' = Allowed(r, TRUE)
  /\ loader' = Stopped(1)
  /\ Crosses
  /\ UNCHANGED <<listed, started, checked, answered, refreshing, session,
                 building, lib, fields, reported, modal, attempts, orderId,
                 cart, page, landed>>
=============================================================================
