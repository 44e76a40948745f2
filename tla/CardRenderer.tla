---------------------------- MODULE CardRenderer ----------------------------
(***************************************************************************)
(* The renderer of new cards, adyen-cc-method.js.                          *)
(***************************************************************************)
EXTENDS StorefrontPage

(* renderPreSelected *)
CardPreselected(r) == Kind[r] = "cc" /\ checked = r

(* selectPaymentMethod, createCheckoutComponent: the component is mounted  *)
(* anew by every selection.                                                *)
CardSelect(r) ==
  /\ Clickable /\ r \in started /\ Kind[r] = "cc"
  /\ checked' = r
  /\ \/ /\ ~lib[r] /\ building[r] < MaxBuilds[r]
        /\ building' = [building EXCEPT ![r] = @ + 1]
        /\ UNCHANGED fields
     \/ /\ lib[r]
        /\ fields' = [fields EXCEPT ![r] = "empty"]
        /\ UNCHANGED building
  /\ UNCHANGED <<listed, late, answered, refreshing, session, lib, reported, loader,
                 modal, flag, attempts, orderId, cart, page, landed>>

(* createCheckoutComponent goes on when the library is there. *)
CardBuilt(r) ==
  /\ page = "here" /\ Kind[r] = "cc" /\ building[r] > 0
  /\ building' = [building EXCEPT ![r] = @ - 1]
  /\ lib' = [lib EXCEPT ![r] = TRUE]
  /\ fields' = [fields EXCEPT ![r] = "empty"]
  /\ UNCHANGED <<listed, late, checked, answered, refreshing, session, reported,
                 loader, modal, flag, attempts, orderId, cart, page, landed>>

(* onChange of the component's configuration *)
CardEdit(r) ==
  /\ Clickable /\ checked = r /\ Kind[r] = "cc" /\ fields[r] # "none"
  /\ \E valid \in BOOLEAN :
       /\ fields' = [fields EXCEPT ![r] = IF valid THEN "filled" ELSE "empty"]
       /\ reported' = [reported EXCEPT ![r] = valid]
  /\ UNCHANGED <<listed, late, checked, answered, refreshing, session, building, lib,
                 loader, modal, flag, attempts, orderId, cart, page, landed>>

CardButtonActive(r) == checked = r /\ flag[r] /\ reported[r]

CardPlace(r) ==
  /\ Clickable /\ Kind[r] = "cc" /\ CardButtonActive(r) /\ fields[r] = "filled"
  /\ Begin(r)
  /\ flag' = Allowed(r, FALSE)
  /\ UNCHANGED <<modal, orderId, cart, page, landed, forms>>

CardPlaceFails(a) ==
  /\ Asking(a, {"cc"}, "placing")
  /\ \E s \in PlaceOutcomes(a) : ~s.ok /\ Goes(a, s, "failed")
  /\ loader' = Stopped(2)
  /\ flag' = Allowed(attempts[a].by, TRUE)
  /\ UNCHANGED <<modal, orderId, page, landed, forms>>

(* Mutant: the loader is stopped as soon as the order is placed. *)
CardPlaceDoneUncovered(a) ==
  /\ Asking(a, {"cc"}, "placing")
  /\ \E s \in PlaceOutcomes(a) : s.ok /\ Goes(a, s, "asking")
  /\ loader' = Stopped(2)
  /\ orderId' = [orderId EXCEPT ![attempts[a].by] = a]
  /\ UNCHANGED <<modal, flag, page, landed, forms>>

CardPlaceDone(a) ==
  /\ Asking(a, {"cc"}, "placing")
  /\ \E s \in PlaceOutcomes(a) : s.ok /\ Goes(a, s, "asking")
  /\ loader' = Stopped(1)
  /\ orderId' = [orderId EXCEPT ![attempts[a].by] = a]
  /\ UNCHANGED <<modal, flag, page, landed, forms>>

(* handleAction, after n calls of stopLoader in the same turn.  A dialog is *)
(* opened for a challenge only, and closing one that was not opened throws. *)
CardAction(a, s, n) ==
  LET r == attempts[a].by IN
  /\ loader' = Stopped(n + 1)
  /\ \/ /\ s.act = "none"
        /\ Goes(a, s, "dropped")
        /\ UNCHANGED modal
     \/ /\ s.act # "none"
        /\ Goes(a, s, "acting")
        /\ modal' = IF s.act = "challenge" THEN Opened(r) ELSE modal
     \/ /\ s.act # "none" /\ "mount" \in Faults
        /\ Goes(a, s, "dropped")
        /\ modal' = IF s.act = "challenge" THEN Closed(r) ELSE modal
  /\ UNCHANGED <<page, landed>>

(* Mutant: any result leads to the success page. *)
CardResultLands(a, s, n) ==
  Lands(a, s) /\ loader' = Stopped(n) /\ UNCHANGED modal

(* handleAdyenResult *)
CardResult(a, s, n) ==
  \/ /\ s.order \in FinalOrders
     /\ Lands(a, s)
     /\ loader' = Stopped(n)
     /\ UNCHANGED modal
  \/ /\ s.order \notin FinalOrders
     /\ CardAction(a, s, n)

CardStatus(a) ==
  /\ Asking(a, {"cc"}, "asking")
  /\ CardResult(a, Same(a), 0)
  /\ UNCHANGED <<flag, orderId, forms>>

(* The call of getOrderPaymentStatus has no handler of a failure. *)
CardStatusFails(a) ==
  /\ Asking(a, {"cc"}, "asking") /\ "status" \in Faults
  /\ Goes(a, Same(a), "dropped")
  /\ UNCHANGED <<loader, modal, flag, orderId, page, landed, forms>>

(* Mutant: nothing covers the page during the call. *)
CardReportUncovered(a) ==
  /\ Asking(a, {"cc"}, "acting") /\ attempts[a].act = "challenge"
  /\ Goes(a, Same(a), "sending")
  /\ modal' = Closed(attempts[a].by)
  /\ UNCHANGED <<loader, flag, orderId, page, landed, forms>>

(* handleOnAdditionalDetails: for the order the renderer remembers. *)
CardReport(a) ==
  /\ Asking(a, {"cc"}, "acting") /\ attempts[a].act = "challenge"
  /\ Goes(a, Same(a), "sending")
  /\ loader' = loader + 1
  /\ modal' = Opened(attempts[a].by)
  /\ UNCHANGED <<flag, orderId, page, landed, forms>>

CardDetailsDone(a) ==
  /\ Asking(a, {"cc"}, "sending")
  /\ \E s \in DetailsOutcomes(a) : s.ok /\ CardResult(a, s, 1)
  /\ UNCHANGED <<flag, orderId, forms>>

(* Mutant: the loader is left. *)
CardDetailsFailsCovered(a) ==
  /\ Asking(a, {"cc"}, "sending")
  /\ \E s \in DetailsOutcomes(a) : ~s.ok /\ Goes(a, s, "failed")
  /\ modal' = Closed(attempts[a].by)
  /\ flag' = Allowed(attempts[a].by, TRUE)
  /\ UNCHANGED <<loader, orderId, page, landed, forms>>

CardDetailsFails(a) ==
  /\ Asking(a, {"cc"}, "sending")
  /\ \E s \in DetailsOutcomes(a) : ~s.ok /\ Goes(a, s, "failed")
  /\ modal' = Closed(attempts[a].by)
  /\ flag' = Allowed(attempts[a].by, TRUE)
  /\ loader' = Stopped(1)
  /\ UNCHANGED <<orderId, page, landed, forms>>
=============================================================================
