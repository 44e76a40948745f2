--------------------------- MODULE VaultRenderer ---------------------------
(***************************************************************************)
(* The renderer of a stored card, adyen-cc-vault-method.js: one per token. *)
(* Its template shows the token only when the payment methods have come.   *)
(***************************************************************************)
EXTENDS StorefrontPage

(* renderPreSelected compares the id of the selected method with the code  *)
(* of the method for new cards.                                            *)
VaultPreselected(r) ==
  Kind[r] = "vault" /\ checked # None /\ Kind[checked] = "cc"

(* selectPaymentMethod, createCheckoutComponent *)
VaultSelect(r) ==
  /\ Clickable /\ r \in started /\ Kind[r] = "vault"
  /\ checked' = r
  /\ \/ /\ ~lib[r] /\ building[r] < MaxBuilds[r]
        /\ building' = [building EXCEPT ![r] = @ + 1]
        /\ UNCHANGED fields
     \/ /\ lib[r]
        /\ fields' = [fields EXCEPT ![r] = "empty"]
        /\ UNCHANGED building
  /\ UNCHANGED <<listed, late, answered, refreshing, session, lib, reported, loader,
                 modal, flag, attempts, orderId, cart, page, landed>>

(* renderCheckoutComponent: what is mounted asks for the card's CVC. *)
VaultBuilt(r) ==
  /\ page = "here" /\ Kind[r] = "vault" /\ building[r] > 0
  /\ building' = [building EXCEPT ![r] = @ - 1]
  /\ lib' = [lib EXCEPT ![r] = TRUE]
  /\ fields' = [fields EXCEPT ![r] = "empty"]
  /\ UNCHANGED <<listed, late, checked, answered, refreshing, session, reported,
                 loader, modal, flag, attempts, orderId, cart, page, landed>>

(* handleOnChange *)
VaultEdit(r) ==
  /\ Clickable /\ checked = r /\ Kind[r] = "vault" /\ fields[r] # "none"
  /\ \E valid \in BOOLEAN :
       /\ fields' = [fields EXCEPT ![r] = IF valid THEN "filled" ELSE "empty"]
       /\ reported' = [reported EXCEPT ![r] = valid]
  /\ UNCHANGED <<listed, late, checked, answered, refreshing, session, building, lib,
                 loader, modal, flag, attempts, orderId, cart, page, landed>>

VaultButtonActive(r) == checked = r /\ flag[r] /\ reported[r]

(* The component itself is not asked whether its fields are valid. *)
VaultPlace(r) ==
  /\ Clickable /\ Kind[r] = "vault" /\ VaultButtonActive(r)
  /\ Begin(r)
  /\ flag' = Allowed(r, FALSE)
  /\ UNCHANGED <<modal, orderId, cart, page, landed, forms>>

(* Mutant: the order is not remembered. *)
VaultPlaceForgets(a) ==
  /\ Asking(a, {"vault"}, "placing")
  /\ \E s \in PlaceOutcomes(a) : s.ok /\ Goes(a, s, "asking")
  /\ loader' = Stopped(1)
  /\ UNCHANGED <<orderId, modal, flag, page, landed, forms>>

VaultPlaceDone(a) ==
  /\ Asking(a, {"vault"}, "placing")
  /\ \E s \in PlaceOutcomes(a) : s.ok /\ Goes(a, s, "asking")
  /\ loader' = Stopped(1)
  /\ orderId' = [orderId EXCEPT ![attempts[a].by] = a]
  /\ UNCHANGED <<modal, flag, page, landed, forms>>

(* Mutant: the button stays disabled. *)
VaultPlaceFailsDisabled(a) ==
  /\ Asking(a, {"vault"}, "placing")
  /\ \E s \in PlaceOutcomes(a) : ~s.ok /\ Goes(a, s, "failed")
  /\ loader' = Stopped(2)
  /\ UNCHANGED <<flag, modal, orderId, page, landed, forms>>

VaultPlaceFails(a) ==
  /\ Asking(a, {"vault"}, "placing")
  /\ \E s \in PlaceOutcomes(a) : ~s.ok /\ Goes(a, s, "failed")
  /\ loader' = Stopped(2)
  /\ flag' = Allowed(attempts[a].by, TRUE)
  /\ UNCHANGED <<modal, orderId, page, landed, forms>>

(* handleAction, after n calls of stopLoader: the loader is stopped only    *)
(* when the action has been mounted.                                       *)
VaultAction(a, s, n) ==
  LET r == attempts[a].by IN
  /\ \/ /\ s.act = "none"
        /\ Goes(a, s, "dropped")
        /\ loader' = Stopped(n)
        /\ UNCHANGED modal
     \/ /\ s.act # "none"
        /\ Goes(a, s, "acting")
        /\ loader' = Stopped(n + 1)
        /\ modal' = IF s.act = "challenge" THEN Opened(r) ELSE modal
     \/ /\ s.act # "none" /\ "mount" \in Faults
        /\ Goes(a, s, "dropped")
        /\ loader' = Stopped(n)
        /\ modal' = IF s.act = "challenge" THEN Closed(r) ELSE modal
  /\ UNCHANGED <<page, landed>>

(* handleAdyenResult *)
VaultResult(a, s, n) ==
  \/ /\ s.order \in FinalOrders
     /\ Lands(a, s)
     /\ loader' = Stopped(n)
     /\ UNCHANGED modal
  \/ /\ s.order \notin FinalOrders
     /\ VaultAction(a, s, n)

VaultStatus(a) ==
  /\ Asking(a, {"vault"}, "asking")
  /\ VaultResult(a, Same(a), 0)
  /\ UNCHANGED <<flag, orderId, forms>>

(* The call of getOrderPaymentStatus has no handler of a failure. *)
VaultStatusFails(a) ==
  /\ Asking(a, {"vault"}, "asking") /\ "status" \in Faults
  /\ Goes(a, Same(a), "dropped")
  /\ UNCHANGED <<loader, modal, flag, orderId, page, landed, forms>>

(* handleOnAdditionalDetails: the dialog alone covers the page meanwhile. *)
VaultReport(a) ==
  /\ Asking(a, {"vault"}, "acting") /\ attempts[a].act = "challenge"
  /\ Goes(a, Same(a), "sending")
  /\ loader' = Stopped(1)
  /\ modal' = Opened(attempts[a].by)
  /\ UNCHANGED <<flag, orderId, page, landed, forms>>

VaultDetailsDone(a) ==
  /\ Asking(a, {"vault"}, "sending")
  /\ \E s \in DetailsOutcomes(a) : s.ok /\ VaultResult(a, s, 0)
  /\ UNCHANGED <<flag, orderId, forms>>

VaultDetailsFails(a) ==
  /\ Asking(a, {"vault"}, "sending")
  /\ \E s \in DetailsOutcomes(a) : ~s.ok /\ Goes(a, s, "failed")
  /\ modal' = Closed(attempts[a].by)
  /\ flag' = Allowed(attempts[a].by, TRUE)
  /\ loader' = Stopped(1)
  /\ UNCHANGED <<orderId, page, landed, forms>>
=============================================================================
