---------------------------- MODULE PosRenderer ----------------------------
(***************************************************************************)
(* The renderer of payments at a terminal, adyen-pos-cloud-method.js.  Its *)
(* button does not look at the flag it sets.                               *)
(***************************************************************************)
EXTENDS StorefrontPage

PosSelect(r) ==
  /\ Clickable /\ r \in started /\ Kind[r] = "pos"
  /\ checked' = r
  /\ UNCHANGED <<listed, late, answered, refreshing, session, building, lib, fields,
                 reported, loader, modal, flag, attempts, orderId, cart, page,
                 landed>>

(* isButtonActive, with a connected terminal *)
PosButtonActive(r) == checked = r

PosPlace(r) ==
  /\ Clickable /\ r \in started /\ Kind[r] = "pos" /\ PosButtonActive(r)
  /\ Begin(r)
  /\ UNCHANGED <<modal, flag, orderId, cart, page, landed, forms>>

(* handleFailedResponse, after n calls of stopLoader.  When the terminal is *)
(* busy the order should be placed again in five seconds, but the timer    *)
(* calls placeOrderPos on the window: nothing follows.                     *)
PosFails(a, s, n) ==
  \/ /\ Goes(a, s, "failed")
     /\ loader' = Stopped(n + 1)
     /\ flag' = Allowed(attempts[a].by, TRUE)
  \/ /\ "busy" \in Faults
     /\ Goes(a, s, "dropped")
     /\ loader' = Stopped(n)
     /\ UNCHANGED flag

(* An order paid at the terminal later is placed as open. *)
PosPlaceOutcomes(a) ==
  {s \in PlaceOutcomes(a) : s.order = "none"
                         \/ IF PosOrder THEN s.order = "open" ELSE s.order = "paid"}

PosPlaceFails(a) ==
  /\ Asking(a, {"pos"}, "placing")
  /\ \E s \in PosPlaceOutcomes(a) : ~s.ok /\ PosFails(a, s, 1)
  /\ UNCHANGED <<modal, orderId, page, landed, forms>>

PosPlaceDone(a) ==
  /\ Asking(a, {"pos"}, "placing")
  /\ \E s \in PosPlaceOutcomes(a) :
       /\ s.ok
       /\ IF PosOrder THEN Goes(a, s, "asking") /\ UNCHANGED <<page, landed>>
                      ELSE Lands(a, s)
  /\ loader' = Stopped(1)
  /\ UNCHANGED <<modal, flag, orderId, forms>>

(* The call posPayment: only a payment that was made closes the cart. *)
PosOutcomes(a) ==
  {Failure("refused", "none", attempts[a].left, cart)} \cup
  Answers("paid", "none", attempts[a].left, FALSE)

PosPay(a) ==
  /\ Asking(a, {"pos"}, "asking")
  /\ \E s \in PosOutcomes(a) : s.ok /\ Lands(a, s)
  /\ UNCHANGED <<loader, modal, flag, orderId, forms>>

PosPayFails(a) ==
  /\ Asking(a, {"pos"}, "asking")
  /\ \E s \in PosOutcomes(a) : ~s.ok /\ PosFails(a, s, 0)
  /\ UNCHANGED <<modal, orderId, page, landed, forms>>
=============================================================================
