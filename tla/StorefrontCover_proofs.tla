------------------------ MODULE StorefrontCover_proofs ------------------------
(***************************************************************************)
(* What covers the checkout page, for any renderers, any bounds and any    *)
(* faults.  Every step of the page is of one of six shapes; the types and *)
(* the invariants follow from the shapes alone.                            *)
(***************************************************************************)
EXTENDS Storefront_proofs, FiniteSums

-----------------------------------------------------------------------------
(* The shapes of a step                                                    *)

(* The buttons that are to be allowed when nothing is under way *)
Usable(r) == Kind[r] \notin MethodKinds \/ (Kind[r] = "pm" /\ fields[r] = "filled")

(* No button is switched off that is to be allowed. *)
ButtonsFollow ==
  /\ flag' \in [Renderers -> BOOLEAN]
  /\ \A r \in Renderers : Usable(r)' => flag'[r] \/ (Usable(r) /\ flag'[r] = flag[r])

(* Nothing happens to an attempt: a method is selected, its form filled in, *)
(* its library built, its script loaded, or the browser leaves.            *)
Looks ==
  /\ UNCHANGED <<refreshing, loader, modal, attempts, orderId, cart, crossed>>
  /\ ButtonsFollow
  /\ page' \in {page, "away"}

(* A callback stops loaders without a look at who has started them. *)
Stops ==
  /\ \E n \in Nat : loader' = Stopped(n)
  /\ Crosses
  /\ ButtonsFollow
  /\ UNCHANGED <<refreshing, modal, attempts, orderId, cart, page>>

(* The methods are asked for, *)
Asks ==
  /\ Clickable /\ ~refreshing /\ refreshing'
  /\ loader' = loader + 1
  /\ UNCHANGED <<fields, modal, flag, attempts, orderId, cart, page, crossed>>

(* and they arrive. *)
Arrives ==
  /\ refreshing /\ ~refreshing'
  /\ \E n \in Nat \ {0} : loader' = Stopped(n)
  /\ UNCHANGED <<fields, modal, flag, attempts, orderId, cart, page, crossed>>

(* An attempt begins, by a click, when Amazon Pay is mounted or when a      *)
(* wallet's window is confirmed.                                           *)
Starts ==
  /\ page = "here"
  /\ \E r \in Renderers :
       /\ Begin(r)
       /\ ~Covered \/ Kind[r] = "amazon" \/ crossed'
       /\ flag' \in {flag, Allowed(r, FALSE)}
  /\ crossed' \in BOOLEAN /\ (crossed => crossed')
  /\ \A r \in Renderers : Usable(r)' => Usable(r)
  /\ UNCHANGED <<refreshing, modal, orderId, cart, page>>

(* How often the loader is started for an attempt and not stopped yet *)
Weight(kind, phase) ==
  CASE phase = "placing"                 -> 2
    [] phase \in {"asking", "declining"} -> 1
    [] phase = "sending" /\ kind = "cc"  -> 1
    [] OTHER                             -> 0

(* An attempt goes on to phase q, after an answer or a callback that says s: *)
(* what s may be,                                                          *)
Says(a, s) ==
  LET p == attempts[a].phase IN
  /\ s \in OutcomeType
  /\ \/ p = "placing" /\ s \in PlaceOutcomes(a)
     \/ p = "asking" /\ s = Same(a)
     \/ p = "asking" /\ Kind[attempts[a].by] = "pos" /\ s \in PosOutcomes(a)
     \/ p \in {"acting", "declining"} /\ s = Same(a)
     \/ p = "sending" /\ s \in DetailsOutcomes(a)

(* which phase follows which, *)
Follows(a, s, q) ==
  LET p == attempts[a].phase
      kind == Kind[attempts[a].by] IN
  /\ p \in Flying \cup {"acting"}
  /\ q \in Phases \ {"placing"}
  /\ q = "asking" => p = "placing" /\ s.ok
  /\ q = "acting" => /\ p \in {"asking", "sending"} /\ kind # "pos"
                     /\ s.act # "none" /\ s.order \notin FinalOrders
  /\ q = "sending" => p = "acting" /\ (s.act # "redirect" \/ kind = "paypal")
  /\ q = "declining" => kind = "amazon"

(* and what becomes of the page: its loader, *)
LoaderTurns(a, q) ==
  LET kind == Kind[attempts[a].by]
      before == Weight(kind, attempts[a].phase)
      after == Weight(kind, q) IN
  /\ loader' \in Nat
  /\ \/ q \in {"landed", "dropped"}
     \/ loader' = loader + 1 /\ after = before + 1
     \/ \E n \in Nat : loader' = Stopped(n) /\ before <= after + n
  /\ q = "asking" => loader' = Stopped(1)

(* its dialogs, *)
ModalTurns(a, s, q) ==
  LET r == attempts[a].by IN
  /\ modal' \in {modal, Opened(r), Closed(r)} \cup {{}}
  /\ q = "asking" => modal' = modal
  /\ q = "acting" => \/ s.act \in {"redirect", "popup"} \/ r \in modal'
                     \/ Kind[r] \in {"paypal", "cashapp"}
  /\ q = "sending" => r \in modal' \/ modal' = modal
  /\ q = "failed" => /\ modal' \subseteq modal
                     /\ r \notin modal' \/ attempts[a].phase \in {"placing", "asking"}

(* its buttons and the order that is remembered. *)
ButtonTurns(a, q) ==
  LET r == attempts[a].by IN
  /\ flag' \in {flag, Allowed(r, TRUE)}
  /\ q = "failed" => flag' = Allowed(r, TRUE)

RememberTurns(a, q) ==
  LET r == attempts[a].by IN
  /\ orderId' \in {orderId, [orderId EXCEPT ![r] = a]}
  /\ \/ q = "asking" /\ Kind[r] \in CardKinds
     \/ q = "acting" /\ Kind[r] \in {"pm", "wallet"} /\ attempts[a].phase = "asking"
     => orderId' = [orderId EXCEPT ![r] = a]

Turn(a, s, q) ==
  /\ page = "here" /\ a \in DOMAIN attempts
  /\ Says(a, s) /\ Follows(a, s, q) /\ Goes(a, s, q)
  /\ LoaderTurns(a, q) /\ ModalTurns(a, s, q) /\ ButtonTurns(a, q) /\ RememberTurns(a, q)
  /\ page' = (IF q = "landed" THEN "success" ELSE "here")
  /\ UNCHANGED <<refreshing, fields, crossed>>

Turns == \E a \in DOMAIN attempts : \E s \in OutcomeType, q \in Phases : Turn(a, s, q)

Shapes == Looks \/ Stops \/ Asks \/ Arrives \/ Starts \/ Turns

-----------------------------------------------------------------------------
(* Types                                                                   *)

(* Adding and stopping loaders gives a number. *)
LEMMA StoppedType ==
  ASSUME loader \in Nat, NEW n \in Nat
  PROVE  Stopped(n) \in Nat
  BY DEF Stopped

-----------------------------------------------------------------------------
(* Every step is of one of the shapes                                      *)

(* How often the loader is started for an attempt in each phase *)
LEMMA Weights ==
  ASSUME NEW kind
  PROVE  /\ Weight(kind, "placing") = 2
         /\ Weight(kind, "asking") = 1 /\ Weight(kind, "declining") = 1
         /\ Weight(kind, "acting") = 0 /\ Weight(kind, "failed") = 0
         /\ Weight(kind, "landed") = 0 /\ Weight(kind, "dropped") = 0
         /\ Weight(kind, "sending") = (IF kind = "cc" THEN 1 ELSE 0)
  BY Zenon DEF Weight

(* What is known of an attempt that is asked about. *)
LEMMA AskingParts ==
  ASSUME AttemptsTyped, NEW kinds, NEW before, NEW a, Asking(a, kinds, before)
  PROVE  /\ page = "here" /\ a \in DOMAIN attempts
         /\ attempts[a].by \in Renderers /\ attempts[a].phase = before
         /\ Kind[attempts[a].by] \in kinds
         /\ Same(a) \in OutcomeType /\ Same(a).order = attempts[a].order
         /\ Same(a).act = attempts[a].act
<1>1. page = "here" /\ a \in DOMAIN attempts /\ attempts[a].phase = before
      /\ Kind[attempts[a].by] \in kinds
  BY DEF Asking
<1>2. Same(a).act = attempts[a].act
  BY DEF Same, Outcome
<1> QED
  BY <1>1, <1>2, AttemptParts, SameType

(* The loader is stopped often enough for what the attempt had started. *)
LEMMA LoaderStops ==
  ASSUME loader \in Nat, NEW n \in Nat, loader' = Stopped(n),
         NEW a, NEW q, q = "asking" => n = 1,
         Weight(Kind[attempts[a].by], attempts[a].phase)
           <= Weight(Kind[attempts[a].by], q) + n
  PROVE  LoaderTurns(a, q)
  BY StoppedType DEF LoaderTurns


(* An order is placed for a new card, or it is not. *)
LEMMA CardPlaceTurns ==
  ASSUME AttemptsTyped, loader \in Nat, NEW a,
         CardPlaceFails(a) \/ CardPlaceDone(a)
  PROVE  Turns
<1>0. /\ page = "here" /\ a \in DOMAIN attempts
      /\ attempts[a].by \in Renderers /\ attempts[a].phase = "placing"
      /\ Kind[attempts[a].by] = "cc"
      /\ Same(a) \in OutcomeType /\ Same(a).order = attempts[a].order
      /\ Same(a).act = attempts[a].act
  <2>1. Asking(a, {"cc"}, "placing")
    BY DEF CardPlaceFails, CardPlaceDone
  <2> QED
    BY <2>1, AskingParts
<1>1. ASSUME CardPlaceFails(a)
      PROVE  Turns
  <2>1. PICK s \in PlaceOutcomes(a) : Goes(a, s, "failed")
    BY <1>1 DEF CardPlaceFails
  <2>2. Says(a, s) /\ Follows(a, s, "failed")
    BY <1>0, <2>1, PlaceOutcomesType DEF Says, Follows, Flying, Phases
  <2>3. LoaderTurns(a, "failed")
    BY <1>0, <1>1, LoaderStops, Weights DEF CardPlaceFails
  <2>4. ModalTurns(a, s, "failed") /\ ButtonTurns(a, "failed") /\ RememberTurns(a, "failed")
    BY <1>0, <1>1 DEF CardPlaceFails, ModalTurns, ButtonTurns, RememberTurns
  <2>5. page' = "here" /\ UNCHANGED <<refreshing, fields, crossed>>
    BY <1>0, <1>1 DEF CardPlaceFails, forms, late
  <2> QED
    BY <1>0, <2>1, <2>2, <2>3, <2>4, <2>5 DEF Turns, Turn, Says, Follows
<1>2. ASSUME CardPlaceDone(a)
      PROVE  Turns
  <2>1. PICK s \in PlaceOutcomes(a) : s.ok /\ Goes(a, s, "asking")
    BY <1>2 DEF CardPlaceDone
  <2>2. Says(a, s) /\ Follows(a, s, "asking")
    BY <1>0, <2>1, PlaceOutcomesType DEF Says, Follows, Flying, Phases
  <2>3. LoaderTurns(a, "asking")
    BY <1>0, <1>2, LoaderStops, Weights DEF CardPlaceDone
  <2>4. ModalTurns(a, s, "asking") /\ ButtonTurns(a, "asking") /\ RememberTurns(a, "asking")
    BY <1>0, <1>2 DEF CardPlaceDone, ModalTurns, ButtonTurns, RememberTurns
  <2>5. page' = "here" /\ UNCHANGED <<refreshing, fields, crossed>>
    BY <1>0, <1>2 DEF CardPlaceDone, forms, late
  <2> QED
    BY <1>0, <2>1, <2>2, <2>3, <2>4, <2>5 DEF Turns, Turn, Says, Follows
<1> QED
  BY <1>1, <1>2

(* What handleAdyenResult makes of an answer. *)
LEMMA CardResultTurns ==
  ASSUME AttemptsTyped, loader \in Nat, NEW a \in DOMAIN attempts, page = "here",
         attempts[a].by \in Renderers, Kind[attempts[a].by] = "cc",
         attempts[a].phase \in {"asking", "sending"},
         NEW s, Says(a, s),
         NEW n \in Nat, n = IF attempts[a].phase = "asking" THEN 0 ELSE 1,
         CardResult(a, s, n), UNCHANGED <<flag, orderId, forms>>
  PROVE  Turns
<1>0. /\ page = "here" /\ a \in DOMAIN attempts /\ attempts[a].by \in Renderers
      /\ Kind[attempts[a].by] = "cc" /\ attempts[a].phase \in {"asking", "sending"}
      /\ Says(a, s) /\ n \in Nat /\ n = IF attempts[a].phase = "asking" THEN 0 ELSE 1
      /\ UNCHANGED <<flag, orderId, forms>>
  OBVIOUS
<1>w. Weight(Kind[attempts[a].by], attempts[a].phase) <= n + 1
  BY Weights
<1>1. ASSUME s.order \in FinalOrders, Lands(a, s), loader' = Stopped(n), UNCHANGED modal
      PROVE  Turns
  <2>1. Goes(a, s, "landed")
    BY <1>1 DEF Lands
  <2>2. Follows(a, s, "landed")
    BY <1>0, <1>1 DEF Follows, Flying, Phases
  <2>3. LoaderTurns(a, "landed")
    BY <1>0, <1>1, StoppedType DEF LoaderTurns
  <2>4. ModalTurns(a, s, "landed") /\ ButtonTurns(a, "landed") /\ RememberTurns(a, "landed")
    BY <1>0, <1>1 DEF ModalTurns, ButtonTurns, RememberTurns
  <2>5. page' = "success" /\ UNCHANGED <<refreshing, fields, crossed>>
    BY <1>0, <1>1 DEF forms, late, Lands
  <2> QED
    BY <1>0, <2>1, <2>2, <2>3, <2>4, <2>5 DEF Turns, Turn, Says, Follows
<1>2. ASSUME s.order \notin FinalOrders, s.act # "none", Goes(a, s, "acting"),
             loader' = Stopped(n + 1), UNCHANGED page,
             modal' = IF s.act = "challenge" THEN Opened(attempts[a].by) ELSE modal
      PROVE  Turns
  <2>1. Goes(a, s, "acting")
    BY <1>2
  <2>2. Follows(a, s, "acting")
    BY <1>0, <1>2 DEF Follows, Flying, Phases
  <2>3. LoaderTurns(a, "acting")
    BY <1>0, <1>2, <1>w, Weights, LoaderStops
  <2>4. ModalTurns(a, s, "acting") /\ ButtonTurns(a, "acting") /\ RememberTurns(a, "acting")
    BY <1>0, <1>2 DEF ModalTurns, ButtonTurns, RememberTurns, Opened, Actions, OutcomeType, Says
  <2>5. page' = "here" /\ UNCHANGED <<refreshing, fields, crossed>>
    BY <1>0, <1>2 DEF forms, late
  <2> QED
    BY <1>0, <2>1, <2>2, <2>3, <2>4, <2>5 DEF Turns, Turn, Says, Follows
<1>3. ASSUME Goes(a, s, "dropped"), loader' = Stopped(n + 1), UNCHANGED page,
             modal' \in {modal, Closed(attempts[a].by)}
      PROVE  Turns
  <2>1. Goes(a, s, "dropped")
    BY <1>3
  <2>2. Follows(a, s, "dropped")
    BY <1>0, <1>3 DEF Follows, Flying, Phases
  <2>3. LoaderTurns(a, "dropped")
    BY <1>0, <1>3, StoppedType DEF LoaderTurns
  <2>4. ModalTurns(a, s, "dropped") /\ ButtonTurns(a, "dropped") /\ RememberTurns(a, "dropped")
    BY <1>0, <1>3 DEF ModalTurns, ButtonTurns, RememberTurns
  <2>5. page' = "here" /\ UNCHANGED <<refreshing, fields, crossed>>
    BY <1>0, <1>3 DEF forms, late
  <2> QED
    BY <1>0, <2>1, <2>2, <2>3, <2>4, <2>5 DEF Turns, Turn, Says, Follows
<1> QED
  BY <1>1, <1>2, <1>3 DEF CardResult, CardAction

(* The status of the order arrives, or it does not. *)
LEMMA CardStatusTurns ==
  ASSUME AttemptsTyped, loader \in Nat, NEW a,
         CardStatus(a) \/ CardStatusFails(a)
  PROVE  Turns
<1>0. /\ page = "here" /\ a \in DOMAIN attempts
      /\ attempts[a].by \in Renderers /\ attempts[a].phase = "asking"
      /\ Kind[attempts[a].by] = "cc"
      /\ Same(a) \in OutcomeType /\ Same(a).order = attempts[a].order
      /\ Same(a).act = attempts[a].act
  <2>1. Asking(a, {"cc"}, "asking")
    BY DEF CardStatus, CardStatusFails
  <2> QED
    BY <2>1, AskingParts
<1>1. ASSUME CardStatus(a)
      PROVE  Turns
  <2>1. Says(a, Same(a))
    BY <1>0 DEF Says
  <2>2. CardResult(a, Same(a), 0) /\ UNCHANGED <<flag, orderId, forms>>
    BY <1>1 DEF CardStatus
  <2> QED
    BY <1>0, <2>1, <2>2, CardResultTurns
<1>2. ASSUME CardStatusFails(a)
      PROVE  Turns
  <2> DEFINE s == Same(a)
  <2>1. Goes(a, s, "dropped")
    BY <1>2 DEF CardStatusFails
  <2>2. Says(a, s) /\ Follows(a, s, "dropped")
    BY <1>0, <2>1 DEF Says, Follows, Flying, Phases
  <2>3. LoaderTurns(a, "dropped")
    BY <1>0, <1>2, StoppedType DEF CardStatusFails, LoaderTurns
  <2>4. ModalTurns(a, s, "dropped") /\ ButtonTurns(a, "dropped") /\ RememberTurns(a, "dropped")
    BY <1>0, <1>2 DEF CardStatusFails, ModalTurns, ButtonTurns, RememberTurns
  <2>5. page' = "here" /\ UNCHANGED <<refreshing, fields, crossed>>
    BY <1>0, <1>2 DEF CardStatusFails, forms, late
  <2> QED
    BY <1>0, <2>1, <2>2, <2>3, <2>4, <2>5 DEF Turns, Turn, Says, Follows
<1> QED
  BY <1>1, <1>2

(* The shopper has met a challenge. *)
LEMMA CardReportTurns ==
  ASSUME AttemptsTyped, loader \in Nat, NEW a,
         CardReport(a)
  PROVE  Turns
<1>0. /\ page = "here" /\ a \in DOMAIN attempts
      /\ attempts[a].by \in Renderers /\ attempts[a].phase = "acting"
      /\ Kind[attempts[a].by] = "cc"
      /\ Same(a) \in OutcomeType /\ Same(a).order = attempts[a].order
      /\ Same(a).act = attempts[a].act
  <2>1. Asking(a, {"cc"}, "acting")
    BY DEF CardReport
  <2> QED
    BY <2>1, AskingParts
<1>1. ASSUME CardReport(a)
      PROVE  Turns
  <2> DEFINE s == Same(a)
  <2>1. Goes(a, s, "sending")
    BY <1>1 DEF CardReport
  <2>2. Says(a, s) /\ Follows(a, s, "sending")
    BY <1>0, <1>1, <2>1 DEF Says, Follows, Flying, Phases, CardReport
  <2>3. LoaderTurns(a, "sending")
    BY <1>0, <1>1, Weights DEF CardReport, LoaderTurns
  <2>4. ModalTurns(a, s, "sending") /\ ButtonTurns(a, "sending") /\ RememberTurns(a, "sending")
    BY <1>0, <1>1 DEF CardReport, ModalTurns, ButtonTurns, RememberTurns, Opened
  <2>5. page' = "here" /\ UNCHANGED <<refreshing, fields, crossed>>
    BY <1>0, <1>1 DEF CardReport, forms, late
  <2> QED
    BY <1>0, <2>1, <2>2, <2>3, <2>4, <2>5 DEF Turns, Turn, Says, Follows
<1> QED
  BY <1>1

(* Its details have been sent. *)
LEMMA CardDetailsTurns ==
  ASSUME AttemptsTyped, loader \in Nat, NEW a,
         CardDetailsDone(a) \/ CardDetailsFails(a)
  PROVE  Turns
<1>0. /\ page = "here" /\ a \in DOMAIN attempts
      /\ attempts[a].by \in Renderers /\ attempts[a].phase = "sending"
      /\ Kind[attempts[a].by] = "cc"
      /\ Same(a) \in OutcomeType /\ Same(a).order = attempts[a].order
      /\ Same(a).act = attempts[a].act
  <2>1. Asking(a, {"cc"}, "sending")
    BY DEF CardDetailsDone, CardDetailsFails
  <2> QED
    BY <2>1, AskingParts
<1>1. ASSUME CardDetailsDone(a)
      PROVE  Turns
  <2>1. PICK s \in DetailsOutcomes(a) : CardResult(a, s, 1)
    BY <1>1 DEF CardDetailsDone
  <2>2. Says(a, s)
    BY <1>0, DetailsOutcomesType DEF Says
  <2>3. UNCHANGED <<flag, orderId, forms>>
    BY <1>1 DEF CardDetailsDone
  <2> QED
    BY <1>0, <2>1, <2>2, <2>3, CardResultTurns
<1>2. ASSUME CardDetailsFails(a)
      PROVE  Turns
  <2>1. PICK s \in DetailsOutcomes(a) : Goes(a, s, "failed")
    BY <1>2 DEF CardDetailsFails
  <2>2. Says(a, s) /\ Follows(a, s, "failed")
    BY <1>0, <2>1, DetailsOutcomesType DEF Says, Follows, Flying, Phases
  <2>3. LoaderTurns(a, "failed")
    BY <1>0, <1>2, LoaderStops, Weights DEF CardDetailsFails
  <2>4. ModalTurns(a, s, "failed") /\ ButtonTurns(a, "failed") /\ RememberTurns(a, "failed")
    BY <1>0, <1>2 DEF CardDetailsFails, ModalTurns, ButtonTurns, RememberTurns, Closed
  <2>5. page' = "here" /\ UNCHANGED <<refreshing, fields, crossed>>
    BY <1>0, <1>2 DEF CardDetailsFails, forms, late
  <2> QED
    BY <1>0, <2>1, <2>2, <2>3, <2>4, <2>5 DEF Turns, Turn, Says, Follows
<1> QED
  BY <1>1, <1>2

(* An order is placed for a stored card, or it is not. *)
LEMMA VaultPlaceTurns ==
  ASSUME AttemptsTyped, loader \in Nat, NEW a,
         VaultPlaceFails(a) \/ VaultPlaceDone(a)
  PROVE  Turns
<1>0. /\ page = "here" /\ a \in DOMAIN attempts
      /\ attempts[a].by \in Renderers /\ attempts[a].phase = "placing"
      /\ Kind[attempts[a].by] = "vault"
      /\ Same(a) \in OutcomeType /\ Same(a).order = attempts[a].order
      /\ Same(a).act = attempts[a].act
  <2>1. Asking(a, {"vault"}, "placing")
    BY DEF VaultPlaceFails, VaultPlaceDone
  <2> QED
    BY <2>1, AskingParts
<1>1. ASSUME VaultPlaceFails(a)
      PROVE  Turns
  <2>1. PICK s \in PlaceOutcomes(a) : Goes(a, s, "failed")
    BY <1>1 DEF VaultPlaceFails
  <2>2. Says(a, s) /\ Follows(a, s, "failed")
    BY <1>0, <2>1, PlaceOutcomesType DEF Says, Follows, Flying, Phases
  <2>3. LoaderTurns(a, "failed")
    BY <1>0, <1>1, LoaderStops, Weights DEF VaultPlaceFails
  <2>4. ModalTurns(a, s, "failed") /\ ButtonTurns(a, "failed") /\ RememberTurns(a, "failed")
    BY <1>0, <1>1 DEF VaultPlaceFails, ModalTurns, ButtonTurns, RememberTurns
  <2>5. page' = "here" /\ UNCHANGED <<refreshing, fields, crossed>>
    BY <1>0, <1>1 DEF VaultPlaceFails, forms, late
  <2> QED
    BY <1>0, <2>1, <2>2, <2>3, <2>4, <2>5 DEF Turns, Turn, Says, Follows
<1>2. ASSUME VaultPlaceDone(a)
      PROVE  Turns
  <2>1. PICK s \in PlaceOutcomes(a) : s.ok /\ Goes(a, s, "asking")
    BY <1>2 DEF VaultPlaceDone
  <2>2. Says(a, s) /\ Follows(a, s, "asking")
    BY <1>0, <2>1, PlaceOutcomesType DEF Says, Follows, Flying, Phases
  <2>3. LoaderTurns(a, "asking")
    BY <1>0, <1>2, LoaderStops, Weights DEF VaultPlaceDone
  <2>4. ModalTurns(a, s, "asking") /\ ButtonTurns(a, "asking") /\ RememberTurns(a, "asking")
    BY <1>0, <1>2 DEF VaultPlaceDone, ModalTurns, ButtonTurns, RememberTurns
  <2>5. page' = "here" /\ UNCHANGED <<refreshing, fields, crossed>>
    BY <1>0, <1>2 DEF VaultPlaceDone, forms, late
  <2> QED
    BY <1>0, <2>1, <2>2, <2>3, <2>4, <2>5 DEF Turns, Turn, Says, Follows
<1> QED
  BY <1>1, <1>2

(* What handleAdyenResult makes of an answer. *)
LEMMA VaultResultTurns ==
  ASSUME AttemptsTyped, loader \in Nat, NEW a \in DOMAIN attempts, page = "here",
         attempts[a].by \in Renderers, Kind[attempts[a].by] = "vault",
         attempts[a].phase \in {"asking", "sending"},
         NEW s, Says(a, s),
         NEW n \in Nat, n = 0,
         VaultResult(a, s, n), UNCHANGED <<flag, orderId, forms>>
  PROVE  Turns
<1>0. /\ page = "here" /\ a \in DOMAIN attempts /\ attempts[a].by \in Renderers
      /\ Kind[attempts[a].by] = "vault" /\ attempts[a].phase \in {"asking", "sending"}
      /\ Says(a, s) /\ n \in Nat /\ n = 0
      /\ UNCHANGED <<flag, orderId, forms>>
  OBVIOUS
<1>w. Weight(Kind[attempts[a].by], attempts[a].phase) <= n + 1
  BY Weights
<1>1. ASSUME s.order \in FinalOrders, Lands(a, s), loader' = Stopped(n), UNCHANGED modal
      PROVE  Turns
  <2>1. Goes(a, s, "landed")
    BY <1>1 DEF Lands
  <2>2. Follows(a, s, "landed")
    BY <1>0, <1>1 DEF Follows, Flying, Phases
  <2>3. LoaderTurns(a, "landed")
    BY <1>0, <1>1, StoppedType DEF LoaderTurns
  <2>4. ModalTurns(a, s, "landed") /\ ButtonTurns(a, "landed") /\ RememberTurns(a, "landed")
    BY <1>0, <1>1 DEF ModalTurns, ButtonTurns, RememberTurns
  <2>5. page' = "success" /\ UNCHANGED <<refreshing, fields, crossed>>
    BY <1>0, <1>1 DEF forms, late, Lands
  <2> QED
    BY <1>0, <2>1, <2>2, <2>3, <2>4, <2>5 DEF Turns, Turn, Says, Follows
<1>2. ASSUME s.order \notin FinalOrders, s.act # "none", Goes(a, s, "acting"),
             loader' = Stopped(n + 1), UNCHANGED page,
             modal' = IF s.act = "challenge" THEN Opened(attempts[a].by) ELSE modal
      PROVE  Turns
  <2>1. Goes(a, s, "acting")
    BY <1>2
  <2>2. Follows(a, s, "acting")
    BY <1>0, <1>2 DEF Follows, Flying, Phases
  <2>3. LoaderTurns(a, "acting")
    BY <1>0, <1>2, <1>w, Weights, LoaderStops
  <2>4. ModalTurns(a, s, "acting") /\ ButtonTurns(a, "acting") /\ RememberTurns(a, "acting")
    BY <1>0, <1>2 DEF ModalTurns, ButtonTurns, RememberTurns, Opened, Actions, OutcomeType, Says
  <2>5. page' = "here" /\ UNCHANGED <<refreshing, fields, crossed>>
    BY <1>0, <1>2 DEF forms, late
  <2> QED
    BY <1>0, <2>1, <2>2, <2>3, <2>4, <2>5 DEF Turns, Turn, Says, Follows
<1>3. ASSUME Goes(a, s, "dropped"), loader' = Stopped(n), UNCHANGED page,
             modal' \in {modal, Closed(attempts[a].by)}
      PROVE  Turns
  <2>1. Goes(a, s, "dropped")
    BY <1>3
  <2>2. Follows(a, s, "dropped")
    BY <1>0, <1>3 DEF Follows, Flying, Phases
  <2>3. LoaderTurns(a, "dropped")
    BY <1>0, <1>3, StoppedType DEF LoaderTurns
  <2>4. ModalTurns(a, s, "dropped") /\ ButtonTurns(a, "dropped") /\ RememberTurns(a, "dropped")
    BY <1>0, <1>3 DEF ModalTurns, ButtonTurns, RememberTurns
  <2>5. page' = "here" /\ UNCHANGED <<refreshing, fields, crossed>>
    BY <1>0, <1>3 DEF forms, late
  <2> QED
    BY <1>0, <2>1, <2>2, <2>3, <2>4, <2>5 DEF Turns, Turn, Says, Follows
<1> QED
  BY <1>1, <1>2, <1>3 DEF VaultResult, VaultAction

(* The status of the order arrives, or it does not. *)
LEMMA VaultStatusTurns ==
  ASSUME AttemptsTyped, loader \in Nat, NEW a,
         VaultStatus(a) \/ VaultStatusFails(a)
  PROVE  Turns
<1>0. /\ page = "here" /\ a \in DOMAIN attempts
      /\ attempts[a].by \in Renderers /\ attempts[a].phase = "asking"
      /\ Kind[attempts[a].by] = "vault"
      /\ Same(a) \in OutcomeType /\ Same(a).order = attempts[a].order
      /\ Same(a).act = attempts[a].act
  <2>1. Asking(a, {"vault"}, "asking")
    BY DEF VaultStatus, VaultStatusFails
  <2> QED
    BY <2>1, AskingParts
<1>1. ASSUME VaultStatus(a)
      PROVE  Turns
  <2>1. Says(a, Same(a))
    BY <1>0 DEF Says
  <2>2. VaultResult(a, Same(a), 0) /\ UNCHANGED <<flag, orderId, forms>>
    BY <1>1 DEF VaultStatus
  <2> QED
    BY <1>0, <2>1, <2>2, VaultResultTurns
<1>2. ASSUME VaultStatusFails(a)
      PROVE  Turns
  <2> DEFINE s == Same(a)
  <2>1. Goes(a, s, "dropped")
    BY <1>2 DEF VaultStatusFails
  <2>2. Says(a, s) /\ Follows(a, s, "dropped")
    BY <1>0, <2>1 DEF Says, Follows, Flying, Phases
  <2>3. LoaderTurns(a, "dropped")
    BY <1>0, <1>2, StoppedType DEF VaultStatusFails, LoaderTurns
  <2>4. ModalTurns(a, s, "dropped") /\ ButtonTurns(a, "dropped") /\ RememberTurns(a, "dropped")
    BY <1>0, <1>2 DEF VaultStatusFails, ModalTurns, ButtonTurns, RememberTurns
  <2>5. page' = "here" /\ UNCHANGED <<refreshing, fields, crossed>>
    BY <1>0, <1>2 DEF VaultStatusFails, forms, late
  <2> QED
    BY <1>0, <2>1, <2>2, <2>3, <2>4, <2>5 DEF Turns, Turn, Says, Follows
<1> QED
  BY <1>1, <1>2

(* The shopper has met a challenge. *)
LEMMA VaultReportTurns ==
  ASSUME AttemptsTyped, loader \in Nat, NEW a,
         VaultReport(a)
  PROVE  Turns
<1>0. /\ page = "here" /\ a \in DOMAIN attempts
      /\ attempts[a].by \in Renderers /\ attempts[a].phase = "acting"
      /\ Kind[attempts[a].by] = "vault"
      /\ Same(a) \in OutcomeType /\ Same(a).order = attempts[a].order
      /\ Same(a).act = attempts[a].act
  <2>1. Asking(a, {"vault"}, "acting")
    BY DEF VaultReport
  <2> QED
    BY <2>1, AskingParts
<1>1. ASSUME VaultReport(a)
      PROVE  Turns
  <2> DEFINE s == Same(a)
  <2>1. Goes(a, s, "sending")
    BY <1>1 DEF VaultReport
  <2>2. Says(a, s) /\ Follows(a, s, "sending")
    BY <1>0, <1>1, <2>1 DEF Says, Follows, Flying, Phases, VaultReport
  <2>3. LoaderTurns(a, "sending")
    BY <1>0, <1>1, LoaderStops, Weights DEF VaultReport
  <2>4. ModalTurns(a, s, "sending") /\ ButtonTurns(a, "sending") /\ RememberTurns(a, "sending")
    BY <1>0, <1>1 DEF VaultReport, ModalTurns, ButtonTurns, RememberTurns, Opened
  <2>5. page' = "here" /\ UNCHANGED <<refreshing, fields, crossed>>
    BY <1>0, <1>1 DEF VaultReport, forms, late
  <2> QED
    BY <1>0, <2>1, <2>2, <2>3, <2>4, <2>5 DEF Turns, Turn, Says, Follows
<1> QED
  BY <1>1

(* Its details have been sent. *)
LEMMA VaultDetailsTurns ==
  ASSUME AttemptsTyped, loader \in Nat, NEW a,
         VaultDetailsDone(a) \/ VaultDetailsFails(a)
  PROVE  Turns
<1>0. /\ page = "here" /\ a \in DOMAIN attempts
      /\ attempts[a].by \in Renderers /\ attempts[a].phase = "sending"
      /\ Kind[attempts[a].by] = "vault"
      /\ Same(a) \in OutcomeType /\ Same(a).order = attempts[a].order
      /\ Same(a).act = attempts[a].act
  <2>1. Asking(a, {"vault"}, "sending")
    BY DEF VaultDetailsDone, VaultDetailsFails
  <2> QED
    BY <2>1, AskingParts
<1>1. ASSUME VaultDetailsDone(a)
      PROVE  Turns
  <2>1. PICK s \in DetailsOutcomes(a) : VaultResult(a, s, 0)
    BY <1>1 DEF VaultDetailsDone
  <2>2. Says(a, s)
    BY <1>0, DetailsOutcomesType DEF Says
  <2>3. UNCHANGED <<flag, orderId, forms>>
    BY <1>1 DEF VaultDetailsDone
  <2> QED
    BY <1>0, <2>1, <2>2, <2>3, VaultResultTurns
<1>2. ASSUME VaultDetailsFails(a)
      PROVE  Turns
  <2>1. PICK s \in DetailsOutcomes(a) : Goes(a, s, "failed")
    BY <1>2 DEF VaultDetailsFails
  <2>2. Says(a, s) /\ Follows(a, s, "failed")
    BY <1>0, <2>1, DetailsOutcomesType DEF Says, Follows, Flying, Phases
  <2>3. LoaderTurns(a, "failed")
    BY <1>0, <1>2, LoaderStops, Weights DEF VaultDetailsFails
  <2>4. ModalTurns(a, s, "failed") /\ ButtonTurns(a, "failed") /\ RememberTurns(a, "failed")
    BY <1>0, <1>2 DEF VaultDetailsFails, ModalTurns, ButtonTurns, RememberTurns, Closed
  <2>5. page' = "here" /\ UNCHANGED <<refreshing, fields, crossed>>
    BY <1>0, <1>2 DEF VaultDetailsFails, forms, late
  <2> QED
    BY <1>0, <2>1, <2>2, <2>3, <2>4, <2>5 DEF Turns, Turn, Says, Follows
<1> QED
  BY <1>1, <1>2

(* Or the loader is left alone. *)
LEMMA LoaderKept ==
  ASSUME loader \in Nat, loader' = loader, NEW a, NEW q, q # "asking",
         Weight(Kind[attempts[a].by], attempts[a].phase)
           <= Weight(Kind[attempts[a].by], q)
  PROVE  LoaderTurns(a, q)
<1>1. loader' = Stopped(0)
  BY DEF Stopped
<1>2. Weight(Kind[attempts[a].by], attempts[a].phase)
           <= Weight(Kind[attempts[a].by], q) + 0
  <2>1. Weight(Kind[attempts[a].by], q) \in Nat
    BY DEF Weight
  <2> QED
    BY <2>1
<1> QED
  BY <1>1, <1>2, LoaderStops

(* handleOnFailure of a method, in whatever way it fails *)
LEMMA FailureTurns ==
  ASSUME AttemptsTyped, loader \in Nat, NEW a \in DOMAIN attempts, page = "here",
         attempts[a].phase \in {"placing", "asking", "acting"},
         NEW s, Says(a, s),
         NEW n \in Nat, attempts[a].phase = "placing" => n = 1,
         NEW open, open \in {modal, Opened(attempts[a].by)},
         HandleFailure(a, s, n, open), UNCHANGED <<page, forms>>,
         orderId' \in {orderId, [orderId EXCEPT ![attempts[a].by] = a]}
  PROVE  Turns
<1>0. /\ page = "here" /\ a \in DOMAIN attempts /\ Says(a, s) /\ n \in Nat
      /\ attempts[a].phase \in {"placing", "asking", "acting"}
      /\ open \in {modal, Opened(attempts[a].by)}
      /\ UNCHANGED <<page, forms>>
      /\ orderId' \in {orderId, [orderId EXCEPT ![attempts[a].by] = a]}
  OBVIOUS
<1>w. Weight(Kind[attempts[a].by], attempts[a].phase) <= n + 1
  BY Weights
<1>1. ASSUME open = {}, Goes(a, s, "failed"),
             flag' = Allowed(attempts[a].by, TRUE), loader' = Stopped(n + 1), modal' = open
      PROVE  Turns
  <2>1. Goes(a, s, "failed")
    BY <1>1
  <2>2. Follows(a, s, "failed")
    BY <1>0, <1>1 DEF Follows, Flying, Phases, MethodKinds
  <2>3. LoaderTurns(a, "failed")
    BY <1>0, <1>1, <1>w, Weights, LoaderStops
  <2>4. ModalTurns(a, s, "failed") /\ ButtonTurns(a, "failed") /\ RememberTurns(a, "failed")
    BY <1>0, <1>1 DEF ModalTurns, ButtonTurns, RememberTurns, Opened
  <2>5. page' = "here" /\ UNCHANGED <<refreshing, fields, crossed>>
    BY <1>0, <1>1 DEF forms, late
  <2> QED
    BY <1>0, <2>1, <2>2, <2>3, <2>4, <2>5 DEF Turns, Turn, Says, Follows
<1>2. ASSUME Goes(a, s, "dropped"),
             flag' = Allowed(attempts[a].by, TRUE), loader' = Stopped(n + 1), modal' = open
      PROVE  Turns
  <2>1. Goes(a, s, "dropped")
    BY <1>2
  <2>2. Follows(a, s, "dropped")
    BY <1>0, <1>2 DEF Follows, Flying, Phases, MethodKinds
  <2>3. LoaderTurns(a, "dropped")
    BY <1>0, <1>2, StoppedType DEF LoaderTurns
  <2>4. ModalTurns(a, s, "dropped") /\ ButtonTurns(a, "dropped") /\ RememberTurns(a, "dropped")
    BY <1>0, <1>2 DEF ModalTurns, ButtonTurns, RememberTurns, Opened
  <2>5. page' = "here" /\ UNCHANGED <<refreshing, fields, crossed>>
    BY <1>0, <1>2 DEF forms, late
  <2> QED
    BY <1>0, <2>1, <2>2, <2>3, <2>4, <2>5 DEF Turns, Turn, Says, Follows
<1>3. ASSUME Goes(a, s, "dropped"), loader' = Stopped(n), UNCHANGED <<flag, modal>>
      PROVE  Turns
  <2>1. Goes(a, s, "dropped")
    BY <1>3
  <2>2. Follows(a, s, "dropped")
    BY <1>0, <1>3 DEF Follows, Flying, Phases, MethodKinds
  <2>3. LoaderTurns(a, "dropped")
    BY <1>0, <1>3, StoppedType DEF LoaderTurns
  <2>4. ModalTurns(a, s, "dropped") /\ ButtonTurns(a, "dropped") /\ RememberTurns(a, "dropped")
    BY <1>0, <1>3 DEF ModalTurns, ButtonTurns, RememberTurns, Opened
  <2>5. page' = "here" /\ UNCHANGED <<refreshing, fields, crossed>>
    BY <1>0, <1>3 DEF forms, late
  <2> QED
    BY <1>0, <2>1, <2>2, <2>3, <2>4, <2>5 DEF Turns, Turn, Says, Follows
<1>4. ASSUME Kind[attempts[a].by] = "amazon", Goes(a, s, "declining"), loader' = Stopped(n),
             modal' = open, UNCHANGED flag
      PROVE  Turns
  <2>1. Goes(a, s, "declining")
    BY <1>4
  <2>2. Follows(a, s, "declining")
    BY <1>0, <1>4 DEF Follows, Flying, Phases, MethodKinds
  <2>3. LoaderTurns(a, "declining")
    BY <1>0, <1>4, <1>w, Weights, LoaderStops
  <2>4. ModalTurns(a, s, "declining") /\ ButtonTurns(a, "declining") /\ RememberTurns(a, "declining")
    BY <1>0, <1>4 DEF ModalTurns, ButtonTurns, RememberTurns, Opened
  <2>5. page' = "here" /\ UNCHANGED <<refreshing, fields, crossed>>
    BY <1>0, <1>4 DEF forms, late
  <2> QED
    BY <1>0, <2>1, <2>2, <2>3, <2>4, <2>5 DEF Turns, Turn, Says, Follows
<1> QED
  BY <1>1, <1>2, <1>3, <1>4 DEF HandleFailure, MethodFailure, PaypalFailure, AmazonFailure

(* The order of a method is placed, or it is not. *)
LEMMA MethodPlaceTurns ==
  ASSUME AttemptsTyped, loader \in Nat, NEW a,
         MethodPlaceFails(a) \/ MethodPlaceDone(a)
  PROVE  Turns
<1>0. /\ page = "here" /\ a \in DOMAIN attempts
      /\ attempts[a].by \in Renderers /\ attempts[a].phase = "placing"
      /\ Kind[attempts[a].by] \in MethodKinds
      /\ Same(a) \in OutcomeType /\ Same(a).order = attempts[a].order
      /\ Same(a).act = attempts[a].act
  <2>1. Asking(a, MethodKinds, "placing")
    BY DEF MethodPlaceFails, MethodPlaceDone
  <2> QED
    BY <2>1, AskingParts
<1>1. ASSUME MethodPlaceFails(a)
      PROVE  Turns
  <2>1. PICK s \in PlaceOutcomes(a) : HandleFailure(a, s, 1, modal)
    BY <1>1 DEF MethodPlaceFails
  <2>2. Says(a, s)
    BY <1>0, PlaceOutcomesType DEF Says
  <2>3. UNCHANGED <<orderId, page, forms>>
    BY <1>1 DEF MethodPlaceFails
  <2> QED
    BY <1>0, <2>1, <2>2, <2>3, FailureTurns
<1>2. ASSUME MethodPlaceDone(a)
      PROVE  Turns
  <2>1. PICK s \in PlaceOutcomes(a) : s.ok /\ Goes(a, s, "asking")
    BY <1>2 DEF MethodPlaceDone
  <2>2. Says(a, s) /\ Follows(a, s, "asking")
    BY <1>0, <2>1, PlaceOutcomesType DEF Says, Follows, Flying, Phases
  <2>3. LoaderTurns(a, "asking")
    BY <1>0, <1>2, LoaderStops, Weights DEF MethodPlaceDone
  <2>4. ModalTurns(a, s, "asking") /\ ButtonTurns(a, "asking") /\ RememberTurns(a, "asking")
    BY <1>0, <1>2 DEF MethodPlaceDone, ModalTurns, ButtonTurns, RememberTurns, MethodKinds, CardKinds
  <2>5. page' = "here" /\ UNCHANGED <<refreshing, fields, crossed>>
    BY <1>0, <1>2 DEF MethodPlaceDone, forms, late
  <2> QED
    BY <1>0, <2>1, <2>2, <2>3, <2>4, <2>5 DEF Turns, Turn, Says, Follows
<1> QED
  BY <1>1, <1>2

(* renderActionComponent, for a method or in a window of its own *)
LEMMA RenderTurns ==
  ASSUME AttemptsTyped, loader \in Nat, NEW a \in DOMAIN attempts, page = "here",
         attempts[a].phase = "asking", NEW s, Says(a, s), s.order \notin FinalOrders,
         RenderAction(a, s) \/ RenderPopup(a, s),
         orderId' = [orderId EXCEPT ![attempts[a].by] = a],
         UNCHANGED <<page, forms>>
  PROVE  Turns
<1>0. /\ page = "here" /\ a \in DOMAIN attempts /\ Says(a, s)
      /\ attempts[a].phase = "asking" /\ s.order \notin FinalOrders
      /\ UNCHANGED <<page, forms>>
      /\ orderId' = [orderId EXCEPT ![attempts[a].by] = a]
  OBVIOUS
<1>w. Weight(Kind[attempts[a].by], attempts[a].phase) <= 1
  BY Weights
<1>1. ASSUME Kind[attempts[a].by] \in {"pm", "wallet", "amazon", "paypal", "cashapp"},
             s.act # "none", Goes(a, s, "acting"), loader' = Stopped(1), UNCHANGED flag,
             \/ modal' = IF s.act = "redirect" THEN modal ELSE Opened(attempts[a].by)
             \/ Kind[attempts[a].by] \in {"paypal", "cashapp"} /\ modal' = modal
      PROVE  Turns
  <2>1. Goes(a, s, "acting")
    BY <1>1
  <2>2. Follows(a, s, "acting")
    BY <1>0, <1>1 DEF Follows, Flying, Phases, MethodKinds
  <2>3. LoaderTurns(a, "acting")
    BY <1>0, <1>1, <1>w, Weights, LoaderStops
  <2>4. ModalTurns(a, s, "acting") /\ ButtonTurns(a, "acting") /\ RememberTurns(a, "acting")
    BY <1>0, <1>1 DEF ModalTurns, ButtonTurns, RememberTurns, Opened
  <2>5. page' = "here" /\ UNCHANGED <<refreshing, fields, crossed>>
    BY <1>0, <1>1 DEF forms, late
  <2> QED
    BY <1>0, <2>1, <2>2, <2>3, <2>4, <2>5 DEF Turns, Turn, Says, Follows
<1>r. orderId' \in {orderId, [orderId EXCEPT ![attempts[a].by] = a]}
  BY <1>0
<1>2. ASSUME HandleFailure(a, s, 1, modal)
      PROVE  Turns
  BY <1>0, <1>2, <1>r, FailureTurns
<1>3. ASSUME HandleFailure(a, s, 1, Opened(attempts[a].by))
      PROVE  Turns
  BY <1>0, <1>3, <1>r, FailureTurns
<1> QED
  BY <1>1, <1>2, <1>3 DEF RenderAction, RenderPopup

(* The status of the order arrives, or it does not. *)
LEMMA MethodStatusTurns ==
  ASSUME AttemptsTyped, loader \in Nat, NEW a,
         MethodStatus(a) \/ MethodStatusFails(a)
  PROVE  Turns
<1>0. /\ page = "here" /\ a \in DOMAIN attempts
      /\ attempts[a].by \in Renderers /\ attempts[a].phase = "asking"
      /\ Kind[attempts[a].by] \in MethodKinds
      /\ Same(a) \in OutcomeType /\ Same(a).order = attempts[a].order
      /\ Same(a).act = attempts[a].act
  <2>1. Asking(a, MethodKinds, "asking")
    BY DEF MethodStatus, MethodStatusFails
  <2> QED
    BY <2>1, AskingParts
<1>s. Says(a, Same(a))
  BY <1>0 DEF Says
<1>1. ASSUME MethodStatus(a), attempts[a].order \notin FinalOrders
      PROVE  Turns
  <2>1. /\ RenderAction(a, Same(a)) \/ RenderPopup(a, Same(a))
        /\ orderId' = [orderId EXCEPT ![attempts[a].by] = a]
        /\ UNCHANGED <<page, forms>>
    BY <1>1 DEF MethodStatus
  <2> QED
    BY <1>0, <1>1, <1>s, <2>1, RenderTurns
<1>2. ASSUME MethodStatus(a), attempts[a].order \in FinalOrders
      PROVE  Turns
  <2> DEFINE s == Same(a)
  <2>0. Lands(a, s) /\ UNCHANGED <<loader, modal, flag, orderId, forms>>
    BY <1>2 DEF MethodStatus
  <2>1. Goes(a, s, "landed")
    BY <2>0 DEF Lands
  <2>2. Says(a, s) /\ Follows(a, s, "landed")
    BY <1>0, <2>1 DEF Says, Follows, Flying, Phases
  <2>3. LoaderTurns(a, "landed")
    BY <1>0, <2>0, Weights DEF LoaderTurns
  <2>4. ModalTurns(a, s, "landed") /\ ButtonTurns(a, "landed") /\ RememberTurns(a, "landed")
    BY <1>0, <2>0 DEF Lands, ModalTurns, ButtonTurns, RememberTurns
  <2>5. page' = "success" /\ UNCHANGED <<refreshing, fields, crossed>>
    BY <1>0, <2>0 DEF Lands, forms, late, Lands
  <2> QED
    BY <1>0, <2>1, <2>2, <2>3, <2>4, <2>5 DEF Turns, Turn, Says, Follows
<1>3. ASSUME MethodStatusFails(a)
      PROVE  Turns
  <2>1. HandleFailure(a, Same(a), 0, modal) /\ UNCHANGED <<orderId, page, forms>>
    BY <1>3 DEF MethodStatusFails
  <2> QED
    BY <1>0, <1>s, <2>1, FailureTurns
<1> QED
  BY <1>1, <1>2, <1>3

(* The shopper has finished or cancelled the action. *)
LEMMA MethodReportTurns ==
  ASSUME AttemptsTyped, loader \in Nat, NEW a,
         MethodReport(a)
  PROVE  Turns
<1>0. /\ page = "here" /\ a \in DOMAIN attempts
      /\ attempts[a].by \in Renderers /\ attempts[a].phase = "acting"
      /\ Kind[attempts[a].by] \in MethodKinds
      /\ Same(a) \in OutcomeType /\ Same(a).order = attempts[a].order
      /\ Same(a).act = attempts[a].act
  <2>1. Asking(a, MethodKinds, "acting")
    BY DEF MethodReport
  <2> QED
    BY <2>1, AskingParts
<1>1. ASSUME MethodReport(a)
      PROVE  Turns
  <2> DEFINE s == Same(a)
  <2>1. Goes(a, s, "sending")
    BY <1>1 DEF MethodReport
  <2>2. Says(a, s) /\ Follows(a, s, "sending")
    BY <1>0, <1>1, <2>1 DEF Says, Follows, Flying, Phases, MethodReport
  <2>3. LoaderTurns(a, "sending")
    BY <1>0, <1>1, LoaderKept, Weights DEF MethodReport, MethodKinds
  <2>4. ModalTurns(a, s, "sending") /\ ButtonTurns(a, "sending") /\ RememberTurns(a, "sending")
    BY <1>0, <1>1 DEF MethodReport, ModalTurns, ButtonTurns, RememberTurns
  <2>5. page' = "here" /\ UNCHANGED <<refreshing, fields, crossed>>
    BY <1>0, <1>1 DEF MethodReport, forms, late
  <2> QED
    BY <1>0, <2>1, <2>2, <2>3, <2>4, <2>5 DEF Turns, Turn, Says, Follows
<1> QED
  BY <1>1

(* PayPal fails while an action is under way. *)
LEMMA PaypalErrorTurns ==
  ASSUME AttemptsTyped, loader \in Nat, NEW a,
         PaypalError(a)
  PROVE  Turns
<1>0. /\ page = "here" /\ a \in DOMAIN attempts
      /\ attempts[a].by \in Renderers /\ attempts[a].phase = "acting"
      /\ Kind[attempts[a].by] = "paypal"
      /\ Same(a) \in OutcomeType /\ Same(a).order = attempts[a].order
      /\ Same(a).act = attempts[a].act
  <2>1. Asking(a, {"paypal"}, "acting")
    BY DEF PaypalError
  <2> QED
    BY <2>1, AskingParts
<1>1. ASSUME PaypalError(a)
      PROVE  Turns
  <2> DEFINE s == Same(a)
  <2>1. Goes(a, s, "sending")
    BY <1>1 DEF PaypalError
  <2>2. Says(a, s) /\ Follows(a, s, "sending")
    BY <1>0, <2>1 DEF Says, Follows, Flying, Phases
  <2>3. LoaderTurns(a, "sending")
    BY <1>0, <1>1, LoaderKept, Weights DEF PaypalError
  <2>4. ModalTurns(a, s, "sending") /\ ButtonTurns(a, "sending") /\ RememberTurns(a, "sending")
    BY <1>0, <1>1 DEF PaypalError, ModalTurns, ButtonTurns, RememberTurns
  <2>5. page' = "here" /\ UNCHANGED <<refreshing, fields, crossed>>
    BY <1>0, <1>1 DEF PaypalError, forms, late
  <2> QED
    BY <1>0, <2>1, <2>2, <2>3, <2>4, <2>5 DEF Turns, Turn, Says, Follows
<1> QED
  BY <1>1

(* Another method does. *)
LEMMA MethodErrorTurns ==
  ASSUME AttemptsTyped, loader \in Nat, NEW a,
         MethodError(a)
  PROVE  Turns
<1>0. /\ page = "here" /\ a \in DOMAIN attempts
      /\ attempts[a].by \in Renderers /\ attempts[a].phase = "acting"
      /\ Kind[attempts[a].by] \in MethodKinds
      /\ Same(a) \in OutcomeType /\ Same(a).order = attempts[a].order
      /\ Same(a).act = attempts[a].act
  <2>1. Asking(a, MethodKinds, "acting")
    BY DEF MethodError
  <2> QED
    BY <2>1, AskingParts
<1>1. Says(a, Same(a))
  BY <1>0 DEF Says
<1>2. HandleFailure(a, Same(a), 0, modal) /\ UNCHANGED <<orderId, page, forms>>
  BY DEF MethodError, HandleFailure
<1> QED
  BY <1>0, <1>1, <1>2, FailureTurns

(* The details of an action have been sent. *)
LEMMA MethodDetailsTurns ==
  ASSUME AttemptsTyped, loader \in Nat, NEW a,
         MethodDetailsDone(a) \/ MethodDetailsFails(a)
  PROVE  Turns
<1>0. /\ page = "here" /\ a \in DOMAIN attempts
      /\ attempts[a].by \in Renderers /\ attempts[a].phase = "sending"
      /\ Kind[attempts[a].by] \in MethodKinds
      /\ Same(a) \in OutcomeType /\ Same(a).order = attempts[a].order
      /\ Same(a).act = attempts[a].act
  <2>1. Asking(a, MethodKinds, "sending")
    BY DEF MethodDetailsDone, MethodDetailsFails
  <2> QED
    BY <2>1, AskingParts
<1>1. ASSUME MethodDetailsDone(a)
      PROVE  Turns
  <2>0. PICK s \in DetailsOutcomes(a) : Lands(a, s)
    BY <1>1 DEF MethodDetailsDone
  <2>1. Goes(a, s, "landed")
    BY <2>0 DEF Lands
  <2>b. UNCHANGED <<loader, modal, flag, orderId, forms>>
    BY <1>1 DEF MethodDetailsDone
  <2>2. Says(a, s) /\ Follows(a, s, "landed")
    BY <1>0, <2>1, DetailsOutcomesType DEF Says, Follows, Flying, Phases
  <2>3. LoaderTurns(a, "landed")
    BY <1>0, <2>b, <2>0, Weights DEF LoaderTurns
  <2>4. ModalTurns(a, s, "landed") /\ ButtonTurns(a, "landed") /\ RememberTurns(a, "landed")
    BY <1>0, <2>b, <2>0 DEF Lands, ModalTurns, ButtonTurns, RememberTurns
  <2>5. page' = "success" /\ UNCHANGED <<refreshing, fields, crossed>>
    BY <1>0, <2>b, <2>0 DEF Lands, forms, late, Lands
  <2> QED
    BY <1>0, <2>1, <2>2, <2>3, <2>4, <2>5 DEF Turns, Turn, Says, Follows
<1>2. ASSUME MethodDetailsFails(a)
      PROVE  Turns
  <2>1. PICK s \in DetailsOutcomes(a) : Goes(a, s, "failed")
    BY <1>2 DEF MethodDetailsFails
  <2>2. Says(a, s) /\ Follows(a, s, "failed")
    BY <1>0, <2>1, DetailsOutcomesType DEF Says, Follows, Flying, Phases
  <2>3. LoaderTurns(a, "failed")
    BY <1>0, <1>2, LoaderStops, Weights DEF MethodDetailsFails, MethodKinds
  <2>4. ModalTurns(a, s, "failed") /\ ButtonTurns(a, "failed") /\ RememberTurns(a, "failed")
    BY <1>0, <1>2 DEF MethodDetailsFails, ModalTurns, ButtonTurns, RememberTurns, Closed
  <2>5. page' = "here" /\ UNCHANGED <<refreshing, fields, crossed>>
    BY <1>0, <1>2 DEF MethodDetailsFails, forms, late
  <2> QED
    BY <1>0, <2>1, <2>2, <2>3, <2>4, <2>5 DEF Turns, Turn, Says, Follows
<1> QED
  BY <1>1, <1>2

(* The component of Amazon Pay is mounted anew. *)
LEMMA RemountTurns ==
  ASSUME AttemptsTyped, loader \in Nat, NEW a, AmazonRemount(a)
  PROVE  Turns
<1>0. /\ page = "here" /\ a \in DOMAIN attempts
      /\ attempts[a].by \in Renderers /\ attempts[a].phase \in {"declining", "acting"}
      /\ Same(a) \in OutcomeType
  <2>1. Asking(a, {"amazon"}, "declining") \/ Asking(a, {"amazon"}, "acting")
    BY DEF AmazonRemount
  <2> QED
    BY <2>1, AskingParts
<1>1. ASSUME AmazonRemount(a)
      PROVE  Turns
  <2> DEFINE s == Same(a)
  <2>1. Goes(a, s, "dropped")
    BY <1>1 DEF AmazonRemount
  <2>2. Says(a, s) /\ Follows(a, s, "dropped")
    BY <1>0, <2>1 DEF Says, Follows, Flying, Phases
  <2>3. LoaderTurns(a, "dropped")
    BY <1>0, <1>1, Weights DEF AmazonRemount, LoaderTurns
  <2>4. ModalTurns(a, s, "dropped") /\ ButtonTurns(a, "dropped") /\ RememberTurns(a, "dropped")
    BY <1>0, <1>1 DEF AmazonRemount, ModalTurns, ButtonTurns, RememberTurns
  <2>5. page' = "here" /\ UNCHANGED <<refreshing, fields, crossed>>
    BY <1>0, <1>1 DEF AmazonRemount, late
  <2> QED
    BY <1>0, <2>1, <2>2, <2>3, <2>4, <2>5 DEF Turns, Turn, Says, Follows
<1> QED
  BY <1>1

(* handleFailedResponse of a terminal *)
LEMMA PosFailsTurns ==
  ASSUME AttemptsTyped, loader \in Nat, NEW a \in DOMAIN attempts, page = "here",
         attempts[a].phase \in {"placing", "asking"},
         NEW s, Says(a, s),
         NEW n \in Nat, attempts[a].phase = "placing" => n = 1,
         PosFails(a, s, n), UNCHANGED <<modal, orderId, page, forms>>
  PROVE  Turns
<1>0. /\ page = "here" /\ a \in DOMAIN attempts /\ Says(a, s) /\ n \in Nat
      /\ attempts[a].phase \in {"placing", "asking"}
      /\ UNCHANGED <<modal, orderId, page, forms>>
  OBVIOUS
<1>w. Weight(Kind[attempts[a].by], attempts[a].phase) <= n + 1
  BY Weights
<1>1. ASSUME Goes(a, s, "failed"), loader' = Stopped(n + 1),
             flag' = Allowed(attempts[a].by, TRUE)
      PROVE  Turns
  <2>1. Goes(a, s, "failed")
    BY <1>1
  <2>2. Follows(a, s, "failed")
    BY <1>0, <1>1 DEF Follows, Flying, Phases, MethodKinds
  <2>3. LoaderTurns(a, "failed")
    BY <1>0, <1>1, <1>w, Weights, LoaderStops
  <2>4. ModalTurns(a, s, "failed") /\ ButtonTurns(a, "failed") /\ RememberTurns(a, "failed")
    BY <1>0, <1>1 DEF ModalTurns, ButtonTurns, RememberTurns, Opened
  <2>5. page' = "here" /\ UNCHANGED <<refreshing, fields, crossed>>
    BY <1>0, <1>1 DEF forms, late
  <2> QED
    BY <1>0, <2>1, <2>2, <2>3, <2>4, <2>5 DEF Turns, Turn, Says, Follows
<1>2. ASSUME Goes(a, s, "dropped"), loader' = Stopped(n), UNCHANGED flag
      PROVE  Turns
  <2>1. Goes(a, s, "dropped")
    BY <1>2
  <2>2. Follows(a, s, "dropped")
    BY <1>0, <1>2 DEF Follows, Flying, Phases, MethodKinds
  <2>3. LoaderTurns(a, "dropped")
    BY <1>0, <1>2, StoppedType DEF LoaderTurns
  <2>4. ModalTurns(a, s, "dropped") /\ ButtonTurns(a, "dropped") /\ RememberTurns(a, "dropped")
    BY <1>0, <1>2 DEF ModalTurns, ButtonTurns, RememberTurns, Opened
  <2>5. page' = "here" /\ UNCHANGED <<refreshing, fields, crossed>>
    BY <1>0, <1>2 DEF forms, late
  <2> QED
    BY <1>0, <2>1, <2>2, <2>3, <2>4, <2>5 DEF Turns, Turn, Says, Follows
<1> QED
  BY <1>1, <1>2 DEF PosFails

(* The order of a terminal is placed, or it is not. *)
LEMMA PosPlaceTurns ==
  ASSUME AttemptsTyped, loader \in Nat, NEW a,
         PosPlaceFails(a) \/ PosPlaceDone(a)
  PROVE  Turns
<1>0. /\ page = "here" /\ a \in DOMAIN attempts
      /\ attempts[a].by \in Renderers /\ attempts[a].phase = "placing"
      /\ Kind[attempts[a].by] = "pos"
      /\ Same(a) \in OutcomeType /\ Same(a).order = attempts[a].order
      /\ Same(a).act = attempts[a].act
  <2>1. Asking(a, {"pos"}, "placing")
    BY DEF PosPlaceFails, PosPlaceDone
  <2> QED
    BY <2>1, AskingParts
<1>s. ASSUME NEW s \in PosPlaceOutcomes(a)
      PROVE  Says(a, s)
  BY <1>0, <1>s, PlaceOutcomesType DEF Says, PosPlaceOutcomes
<1>1. ASSUME PosPlaceFails(a)
      PROVE  Turns
  <2>1. PICK s \in PosPlaceOutcomes(a) : PosFails(a, s, 1)
    BY <1>1 DEF PosPlaceFails
  <2>2. UNCHANGED <<modal, orderId, page, forms>>
    BY <1>1 DEF PosPlaceFails
  <2> QED
    BY <1>0, <1>s, <2>1, <2>2, PosFailsTurns
<1>2. ASSUME PosPlaceDone(a), PosOrder
      PROVE  Turns
  <2>0. PICK s \in PosPlaceOutcomes(a) :
          s.ok /\ Goes(a, s, "asking") /\ UNCHANGED <<page, landed>>
    BY <1>2 DEF PosPlaceDone
  <2>1. s.ok /\ Goes(a, s, "asking") /\ UNCHANGED <<page, landed>>
    BY <2>0
  <2>2. Says(a, s) /\ Follows(a, s, "asking")
    BY <1>0, <1>s, <2>1 DEF Says, Follows, Flying, Phases
  <2>3. LoaderTurns(a, "asking")
    BY <1>0, <1>2, <2>1, LoaderStops, Weights DEF PosPlaceDone
  <2>4. ModalTurns(a, s, "asking") /\ ButtonTurns(a, "asking") /\ RememberTurns(a, "asking")
    BY <1>0, <1>2, <2>1 DEF PosPlaceDone, ModalTurns, ButtonTurns, RememberTurns, CardKinds
  <2>5. page' = "here" /\ UNCHANGED <<refreshing, fields, crossed>>
    BY <1>0, <1>2, <2>1 DEF PosPlaceDone, forms, late
  <2> QED
    BY <1>0, <2>1, <2>2, <2>3, <2>4, <2>5 DEF Turns, Turn, Says, Follows
<1>3. ASSUME PosPlaceDone(a), ~PosOrder
      PROVE  Turns
  <2>0. PICK s \in PosPlaceOutcomes(a) : Lands(a, s)
    BY <1>3 DEF PosPlaceDone
  <2>1. Goes(a, s, "landed") /\ page' = "success"
    BY <2>0 DEF Lands
  <2>2. Says(a, s) /\ Follows(a, s, "landed")
    BY <1>0, <1>s, <2>1 DEF Says, Follows, Flying, Phases
  <2>3. LoaderTurns(a, "landed")
    BY <1>0, <1>3, <2>1, StoppedType DEF PosPlaceDone, LoaderTurns
  <2>4. ModalTurns(a, s, "landed") /\ ButtonTurns(a, "landed") /\ RememberTurns(a, "landed")
    BY <1>0, <1>3, <2>1 DEF PosPlaceDone, ModalTurns, ButtonTurns, RememberTurns
  <2>5. page' = "success" /\ UNCHANGED <<refreshing, fields, crossed>>
    BY <1>0, <1>3, <2>1 DEF PosPlaceDone, forms, late, Lands
  <2> QED
    BY <1>0, <2>1, <2>2, <2>3, <2>4, <2>5 DEF Turns, Turn, Says, Follows
<1> QED
  BY <1>1, <1>2, <1>3

(* The terminal answers. *)
LEMMA PosPayTurns ==
  ASSUME AttemptsTyped, loader \in Nat, NEW a,
         PosPay(a) \/ PosPayFails(a)
  PROVE  Turns
<1>0. /\ page = "here" /\ a \in DOMAIN attempts
      /\ attempts[a].by \in Renderers /\ attempts[a].phase = "asking"
      /\ Kind[attempts[a].by] = "pos"
      /\ Same(a) \in OutcomeType /\ Same(a).order = attempts[a].order
      /\ Same(a).act = attempts[a].act
  <2>1. Asking(a, {"pos"}, "asking")
    BY DEF PosPay, PosPayFails
  <2> QED
    BY <2>1, AskingParts
<1>s. ASSUME NEW s \in PosOutcomes(a)
      PROVE  Says(a, s)
  BY <1>0, <1>s, PosOutcomesType DEF Says
<1>1. ASSUME PosPay(a)
      PROVE  Turns
  <2>0. PICK s \in PosOutcomes(a) : Lands(a, s)
    BY <1>1 DEF PosPay
  <2>1. Goes(a, s, "landed") /\ page' = "success"
    BY <2>0 DEF Lands
  <2>2. Says(a, s) /\ Follows(a, s, "landed")
    BY <1>0, <1>s, <2>1 DEF Says, Follows, Flying, Phases
  <2>3. LoaderTurns(a, "landed")
    BY <1>0, <1>1, <2>1, StoppedType DEF PosPay, LoaderTurns
  <2>4. ModalTurns(a, s, "landed") /\ ButtonTurns(a, "landed") /\ RememberTurns(a, "landed")
    BY <1>0, <1>1, <2>1 DEF PosPay, ModalTurns, ButtonTurns, RememberTurns
  <2>5. page' = "success" /\ UNCHANGED <<refreshing, fields, crossed>>
    BY <1>0, <1>1, <2>1 DEF PosPay, forms, late, Lands
  <2> QED
    BY <1>0, <2>1, <2>2, <2>3, <2>4, <2>5 DEF Turns, Turn, Says, Follows
<1>2. ASSUME PosPayFails(a)
      PROVE  Turns
  <2>1. PICK s \in PosOutcomes(a) : PosFails(a, s, 0)
    BY <1>2 DEF PosPayFails
  <2>2. UNCHANGED <<modal, orderId, page, forms>>
    BY <1>2 DEF PosPayFails
  <2> QED
    BY <1>0, <1>s, <2>1, <2>2, PosFailsTurns
<1> QED
  BY <1>1, <1>2

(* What is selected, built or filled in of a renderer that has no form of   *)
(* adyen-pm-method.js leaves the buttons.                                  *)
LEMMA UsableKept ==
  ASSUME TypeOK, NEW r \in Renderers, Kind[r] # "pm", NEW x,
         fields' \in {fields, [fields EXCEPT ![r] = x]}
  PROVE  \A q \in Renderers : Usable(q)' => Usable(q)
  BY DEF TypeOK, Usable

(* The shopper or the page turns away from what is open: nothing of an    *)
(* attempt changes.                                                       *)
LEMMA LooksAway ==
  ASSUME TypeOK, UNCHANGED <<refreshing, loader, modal, attempts, orderId, cart, flag>>,
         crossed' = crossed, \A q \in Renderers : Usable(q)' => Usable(q),
         page' \in {page, "away"}
  PROVE  Looks
  BY DEF Looks, ButtonsFollow, TypeOK

(* The shopper selects a card, fills in its form, or its library is built. *)
LEMMA CardLooks ==
  ASSUME TypeOK, NEW r \in Renderers,
         \/ CardSelect(r) \/ CardBuilt(r) \/ CardEdit(r)
         \/ VaultSelect(r) \/ VaultBuilt(r) \/ VaultEdit(r)
  PROVE  Looks
<1>1. Kind[r] # "pm"
  BY DEF CardSelect, CardBuilt, CardEdit, VaultSelect, VaultBuilt, VaultEdit
<1>2. \E x : fields' \in {fields, [fields EXCEPT ![r] = x]}
  BY Zenon DEF CardSelect, CardBuilt, CardEdit, VaultSelect, VaultBuilt, VaultEdit
<1>3. UNCHANGED <<refreshing, loader, modal, attempts, orderId, cart, flag, page, crossed>>
  BY DEF late, CardSelect, CardBuilt, CardEdit, VaultSelect, VaultBuilt, VaultEdit
<1> QED
  BY <1>1, <1>2, <1>3, UsableKept, LooksAway

(* The button of a method follows its form. *)
LEMMA FormAllows ==
  ASSUME TypeOK, NEW r \in Renderers, NEW allowed \in BOOLEAN,
         flag' = Allowed(r, allowed), Kind[r] \in MethodKinds,
         \/ fields' = fields /\ allowed
         \/ \E form : /\ fields' = [fields EXCEPT ![r] = form]
                      /\ allowed \/ Kind[r] # "pm" \/ form # "filled"
  PROVE  ButtonsFollow
<1>0. flag \in [Renderers -> BOOLEAN] /\ DOMAIN fields = Renderers
  BY DEF TypeOK
<1>1. ASSUME NEW q \in Renderers, Usable(q)'
      PROVE  flag'[q] \/ (Usable(q) /\ flag'[q] = flag[q])
  <2>1. flag'[q] = IF SharesFlag(q, r) THEN allowed ELSE flag[q]
    BY DEF Allowed
  <2>2. CASE q = r
    <3>1. SharesFlag(q, r)
      BY <2>2 DEF SharesFlag
    <3>2. allowed
      BY <1>0, <1>1, <2>2 DEF Usable
    <3> QED
      BY <2>1, <3>1, <3>2
  <2>3. CASE q # r
    <3>1. ~SharesFlag(q, r)
      BY <2>3 DEF SharesFlag, MethodKinds
    <3>2. fields'[q] = fields[q]
      BY <1>0, <2>3
    <3>3. Usable(q)
      BY <1>1, <3>2 DEF Usable
    <3> QED
      BY <2>1, <3>1, <3>3
  <2> QED
    BY <2>2, <2>3
<1>2. flag' \in [Renderers -> BOOLEAN]
  BY <1>0 DEF Allowed
<1> QED
  BY <1>1, <1>2 DEF ButtonsFollow

(* What the shopper does with the other methods *)
LEMMA MethodLooks ==
  ASSUME TypeOK, NEW r \in Renderers,
         \/ MethodSelect(r) \/ PosSelect(r) \/ AmazonPay(r)
         \/ MethodBuilt(r) \/ MethodEdit(r) \/ OpenSheet(r)
  PROVE  Looks
<1>1. CASE MethodSelect(r) \/ PosSelect(r) \/ AmazonPay(r) \/ OpenSheet(r)
  <2>1. /\ UNCHANGED <<refreshing, loader, modal, attempts, orderId, cart, flag, fields,
                       crossed>>
        /\ page' \in {page, "away"}
    BY <1>1 DEF MethodSelect, PosSelect, AmazonPay, OpenSheet, forms, late
  <2>2. \A q \in Renderers : Usable(q)' => Usable(q)
    BY <2>1 DEF Usable
  <2> QED
    BY <2>1, <2>2, LooksAway
<1>2. CASE MethodBuilt(r)
  <2>1. PICK form \in (IF Kind[r] = "pm" THEN {"empty", "filled"} ELSE {"filled"}) :
          /\ fields' = [fields EXCEPT ![r] = form]
          /\ flag' = Allowed(r, form = "filled")
    BY <1>2 DEF MethodBuilt
  <2>2. /\ Kind[r] \in MethodKinds
        /\ UNCHANGED <<refreshing, loader, modal, attempts, orderId, cart, page, crossed>>
    BY <1>2 DEF MethodBuilt, Built, late
  <2>3. ButtonsFollow
    BY <2>1, <2>2, FormAllows
  <2> QED
    BY <2>2, <2>3 DEF Looks
<1>3. CASE MethodEdit(r)
  <2>1. PICK valid \in BOOLEAN :
          /\ fields' = [fields EXCEPT ![r] = IF valid THEN "filled" ELSE "empty"]
          /\ flag' = Allowed(r, valid)
    BY <1>3 DEF MethodEdit
  <2>2. /\ Kind[r] \in MethodKinds
        /\ UNCHANGED <<refreshing, loader, modal, attempts, orderId, cart, page, crossed>>
    BY <1>3 DEF MethodEdit, MethodKinds, late
  <2>3. \E form : /\ fields' = [fields EXCEPT ![r] = form]
                  /\ valid \/ Kind[r] # "pm" \/ form # "filled"
    <3> DEFINE form == IF valid THEN "filled" ELSE "empty"
    <3>1. fields' = [fields EXCEPT ![r] = form]
      BY <2>1
    <3>2. valid \/ form # "filled"
      OBVIOUS
    <3> HIDE DEF form
    <3> QED
      BY <3>1, <3>2
  <2>4. ButtonsFollow
    BY <2>1, <2>2, <2>3, FormAllows
  <2> QED
    BY <2>2, <2>4 DEF Looks
<1> QED
  BY <1>1, <1>2, <1>3

(* A component fails, whatever is going on in the page. *)
LEMMA ErrorStops ==
  ASSUME TypeOK, NEW r \in Renderers, MethodErrorIdle(r)
  PROVE  Stops
<1>1. /\ Kind[r] \in MethodKinds /\ flag' = Allowed(r, TRUE) /\ Crosses
      /\ loader' = Stopped(1)
      /\ UNCHANGED <<refreshing, modal, attempts, orderId, cart, page, fields>>
  BY DEF MethodErrorIdle, MethodKinds
<1>2. ButtonsFollow
  BY <1>1, FormAllows
<1> QED
  BY <1>1, <1>2 DEF Stops

(* The script of a renderer is loaded. *)
LEMMA InitializeStops ==
  ASSUME TypeOK, NEW r \in Renderers, Initialize(r)
  PROVE  Stops \/ Looks
<1>1. /\ UNCHANGED <<refreshing, modal, attempts, orderId, cart, flag, fields, page>>
      /\ \/ loader' = Stopped(1) /\ Crosses
         \/ UNCHANGED <<loader, crossed>>
  BY DEF Initialize
<1>2. \A q \in Renderers : Usable(q)' => Usable(q)
  BY <1>1 DEF Usable
<1>3. ButtonsFollow
  BY <1>1, <1>2 DEF ButtonsFollow, TypeOK
<1> QED
  BY <1>1, <1>3 DEF Stops, Looks

(* The shopper places an order, or Amazon Pay does. *)
LEMMA PlacesStart ==
  ASSUME TypeOK, NEW r \in Renderers,
         \/ CardPlace(r) \/ VaultPlace(r) \/ PosPlace(r)
         \/ MethodPlace(r) \/ MethodSubmit(r) \/ AmazonBuilt(r)
  PROVE  Starts \/ Looks
<1>0. crossed \in BOOLEAN
  BY DEF TypeOK
<1>1. CASE CardPlace(r) \/ VaultPlace(r) \/ PosPlace(r) \/ MethodPlace(r) \/ MethodSubmit(r)
  <2>1. /\ page = "here" /\ Begin(r) /\ flag' \in {flag, Allowed(r, FALSE)}
        /\ UNCHANGED <<refreshing, fields, modal, orderId, cart, page>>
        /\ (~Covered /\ crossed' = crossed) \/ Crosses
    BY <1>1 DEF CardPlace, VaultPlace, PosPlace, MethodPlace, MethodSubmit, Clickable,
       PlaceRedirectOrder, forms, late
  <2>2. \A q \in Renderers : Usable(q)' => Usable(q)
    BY <2>1 DEF Usable
  <2>3. /\ ~Covered \/ crossed'
        /\ crossed' \in BOOLEAN /\ (crossed => crossed')
    <3>1. CASE ~Covered /\ crossed' = crossed
      BY <1>0, <3>1
    <3>2. CASE Crosses
      <4>1. crossed' = (crossed \/ Covered)
        BY <3>2 DEF Crosses
      <4>2. crossed' \in BOOLEAN
        BY <4>1, Zenon
      <4> QED
        BY <4>1, <4>2, Zenon
    <3> QED
      BY <2>1, <3>1, <3>2
  <2> QED
    BY <2>1, <2>2, <2>3 DEF Starts
<1>2. CASE AmazonBuilt(r)
  <2>1. /\ Kind[r] = "amazon" /\ page = "here"
        /\ fields' = [fields EXCEPT ![r] = "filled"]
        /\ UNCHANGED <<refreshing, modal, orderId, cart, page, crossed>>
        /\ \/ Begin(r) /\ flag' = Allowed(r, FALSE)
           \/ UNCHANGED <<loader, flag, attempts>>
    BY <1>2 DEF AmazonBuilt, Built, PlaceRedirectOrder, late
  <2>2. \A q \in Renderers : Usable(q)' => Usable(q)
    <3>1. fields' \in {fields, [fields EXCEPT ![r] = "filled"]} /\ Kind[r] # "pm"
      BY <2>1
    <3> QED
      BY <3>1, UsableKept
  <2> QED
    BY <1>0, <2>1, <2>2, LooksAway DEF Starts
<1> QED
  BY <1>1, <1>2

(* Every step of the page is of one of the shapes. *)
LEMMA StepShapes ==
  ASSUME TypeOK, Next
  PROVE  Looks \/ Stops \/ Asks \/ Arrives \/ Starts \/ Turns
<1>0. AttemptsTyped /\ loader \in Nat
  <2>1. cart \in BOOLEAN
    BY DEF TypeOK
  <2> QED
    BY <2>1 DEF TypeOK, AttemptsTyped
<1>1. CASE AskMethods
  BY <1>1 DEF AskMethods, Asks, late
<1>2. CASE MethodsArrive
  <2>1. Cardinality(Unbalanced) \in Nat
    <3>1. Unbalanced \subseteq Renderers /\ IsFiniteSet(Renderers)
      BY PageAssumption DEF TypeOK, Unbalanced
    <3>2. IsFiniteSet(Unbalanced)
      BY <3>1, FS_Subset
    <3> QED
      BY <3>2, FS_CardinalityType
  <2>2. 1 + Cardinality(Unbalanced) \in Nat \ {0}
    BY <2>1
  <2> QED
    BY <1>2, <2>2 DEF MethodsArrive, Arrives, late
<1>3. ASSUME NEW r \in listed, Initialize(r) \/ Shopper(r) \/ Library(r)
      PROVE  Looks \/ Stops \/ Starts
  <2>1. r \in Renderers
    BY DEF TypeOK
  <2> QED
    BY <1>3, <2>1, CardLooks, MethodLooks, ErrorStops, InitializeStops, PlacesStart, Zenon
       DEF Shopper, Library
<1>4. ASSUME NEW a \in DOMAIN attempts, Answer(a)
      PROVE  Turns
  BY <1>0, <1>4, CardPlaceTurns, CardStatusTurns, CardDetailsTurns, VaultPlaceTurns,
     VaultStatusTurns, VaultDetailsTurns, MethodPlaceTurns, MethodStatusTurns,
     MethodDetailsTurns, PosPlaceTurns, PosPayTurns, Zenon DEF Answer
<1>5. ASSUME NEW a \in DOMAIN attempts, Component(a)
      PROVE  Turns \/ Looks
  <2>1. CASE Redirect(a) \/ AmazonDecline(a)
    <3>1. /\ UNCHANGED <<refreshing, loader, modal, attempts, orderId, cart, flag, fields,
                         crossed>>
          /\ page' = "away"
      BY <2>1 DEF Redirect, AmazonDecline, forms, late
    <3>2. \A q \in Renderers : Usable(q)' => Usable(q)
      BY <3>1 DEF Usable
    <3> QED
      BY <3>1, <3>2, LooksAway
  <2> QED
    BY <1>0, <1>5, <2>1, CardReportTurns, VaultReportTurns, MethodReportTurns,
       MethodErrorTurns, PaypalErrorTurns, RemountTurns, Zenon DEF Component, MethodCancel
<1> QED
  BY <1>1, <1>2, <1>3, <1>4, <1>5 DEF Next

-----------------------------------------------------------------------------
(* Types                                                                   *)

(* What the renderers keep of their forms, late *)
FormsOK ==
  /\ listed \subseteq Renderers /\ started \subseteq listed
  /\ sheets \subseteq Renderers
  /\ checked \in Renderers \cup {None}
  /\ answered \in BOOLEAN /\ refreshing \in BOOLEAN /\ session \in BOOLEAN
  /\ building \in [Renderers -> Nat]
  /\ \A r \in Renderers : building[r] <= MaxBuilds[r]
  /\ lib \in [Renderers -> BOOLEAN]
  /\ fields \in [Renderers -> {"none", "empty", "filled"}]
  /\ reported \in [Renderers -> BOOLEAN]

(* A library more is asked for, or one has been built. *)
LEMMA BuildingType ==
  ASSUME FormsOK, NEW r \in Renderers,
         \/ building[r] < MaxBuilds[r] /\ building' = [building EXCEPT ![r] = @ + 1]
         \/ building[r] > 0 /\ building' = [building EXCEPT ![r] = @ - 1]
         \/ building' = building
  PROVE  /\ building' \in [Renderers -> Nat]
         /\ \A q \in Renderers : building'[q] <= MaxBuilds[q]
<1>1. MaxBuilds \in [Renderers -> Nat \ {0}]
  BY PageAssumption
<1> QED
  BY <1>1 DEF FormsOK

(* What the shopper and the libraries do to the forms, late *)
LEMMA FormsStep ==
  ASSUME FormsOK, NEW r \in Renderers, Shopper(r) \/ Library(r)
  PROVE  FormsOK'
<1>0. /\ listed \subseteq Renderers /\ started \subseteq listed
      /\ sheets \subseteq Renderers /\ checked \in Renderers \cup {None}
      /\ answered \in BOOLEAN /\ refreshing \in BOOLEAN /\ session \in BOOLEAN
      /\ lib \in [Renderers -> BOOLEAN] /\ reported \in [Renderers -> BOOLEAN]
      /\ fields \in [Renderers -> {"none", "empty", "filled"}]
  BY DEF FormsOK
<1>f. ASSUME NEW x \in {"none", "empty", "filled"}
      PROVE  [fields EXCEPT ![r] = x] \in [Renderers -> {"none", "empty", "filled"}]
  BY <1>0
<1>1. ASSUME fields' \in [Renderers -> {"none", "empty", "filled"}],
             checked' \in {checked, r},
             lib' \in {lib, [lib EXCEPT ![r] = TRUE]},
             reported' \in {reported} \cup {[reported EXCEPT ![r] = b] : b \in BOOLEAN},
             \/ building[r] < MaxBuilds[r] /\ building' = [building EXCEPT ![r] = @ + 1]
             \/ building[r] > 0 /\ building' = [building EXCEPT ![r] = @ - 1]
             \/ building' = building,
             UNCHANGED <<listed, started, sheets, answered, refreshing, session>>
      PROVE  FormsOK'
  <2>1. /\ building' \in [Renderers -> Nat]
        /\ \A q \in Renderers : building'[q] <= MaxBuilds[q]
    BY <1>1, BuildingType
  <2>2. checked' \in Renderers \cup {None}
    BY <1>0, <1>1
  <2>3. lib' \in [Renderers -> BOOLEAN]
    BY <1>0, <1>1
  <2>4. reported' \in [Renderers -> BOOLEAN]
    BY <1>0, <1>1
  <2> QED
    BY <1>0, <1>1, <2>1, <2>2, <2>3, <2>4 DEF FormsOK
<1>2. CASE CardSelect(r) \/ VaultSelect(r) \/ MethodSelect(r) \/ PosSelect(r)
  <2>1. /\ fields' = fields \/ fields' = [fields EXCEPT ![r] = "empty"]
        /\ checked' = r /\ lib' = lib /\ reported' = reported
        /\ \/ building[r] < MaxBuilds[r] /\ building' = [building EXCEPT ![r] = @ + 1]
           \/ building' = building
        /\ UNCHANGED <<listed, started, sheets, answered, refreshing, session>>
    BY <1>2 DEF late, CardSelect, VaultSelect, MethodSelect, PosSelect
  <2>2. fields' \in [Renderers -> {"none", "empty", "filled"}]
    BY <1>0, <1>f, <2>1
  <2> HIDE DEF FormsOK
  <2> QED
    BY <1>1, <2>1, <2>2
<1>3. CASE CardBuilt(r) \/ VaultBuilt(r) \/ MethodBuilt(r) \/ AmazonBuilt(r)
  <2>1. /\ \E x \in {"empty", "filled"} : fields' = [fields EXCEPT ![r] = x]
        /\ checked' = checked /\ lib' = [lib EXCEPT ![r] = TRUE] /\ reported' = reported
        /\ building[r] > 0 /\ building' = [building EXCEPT ![r] = @ - 1]
        /\ UNCHANGED <<listed, started, sheets, answered, refreshing, session>>
    BY <1>3 DEF late, CardBuilt, VaultBuilt, MethodBuilt, AmazonBuilt, Built
  <2>2. fields' \in [Renderers -> {"none", "empty", "filled"}]
    BY <1>f, <2>1
  <2> QED
    BY <1>1, <2>1, <2>2
<1>4. CASE CardEdit(r) \/ VaultEdit(r) \/ MethodEdit(r)
  <2>1. /\ \E valid \in BOOLEAN :
             /\ fields' = [fields EXCEPT ![r] = IF valid THEN "filled" ELSE "empty"]
             /\ reported' \in {reported, [reported EXCEPT ![r] = valid]}
        /\ checked' = checked /\ lib' = lib /\ building' = building
        /\ UNCHANGED <<listed, started, sheets, answered, refreshing, session>>
    BY <1>4 DEF late, CardEdit, VaultEdit, MethodEdit
  <2>2. fields' \in [Renderers -> {"none", "empty", "filled"}]
    BY <1>f, <2>1
  <2>3. reported' \in {reported} \cup {[reported EXCEPT ![r] = b] : b \in BOOLEAN}
    BY <2>1
  <2> QED
    BY <1>1, <2>1, <2>2, <2>3
<1>5. CASE forms' = forms
  <2>1. UNCHANGED <<listed, started, sheets, checked, answered, refreshing, session,
                    building, lib, fields, reported>>
    BY <1>5 DEF forms, late
  <2> QED
    BY <2>1 DEF FormsOK
<1>6. CASE OpenSheet(r) \/ MethodSubmit(r) \/ MethodErrorIdle(r)
  <2>1. /\ sheets' \subseteq Renderers
        /\ UNCHANGED <<listed, started, checked, answered, refreshing, session,
                       building, lib, fields, reported>>
    BY <1>0, <1>6 DEF OpenSheet, MethodSubmit, MethodErrorIdle
  <2> QED
    BY <2>1 DEF FormsOK
<1> QED
  BY <1>2, <1>3, <1>4, <1>5, <1>6 DEF Shopper, Library, CardPlace, VaultPlace,
     MethodPlace, AmazonPay, PosPlace

(* A script that is loaded late may build its library at once. *)
LEMMA FormsInitialize ==
  ASSUME FormsOK, NEW r \in Renderers, Initialize(r)
  PROVE  FormsOK'
<1>1. /\ listed \subseteq Renderers /\ started' \subseteq listed
      /\ building' = building \/ building' = [building EXCEPT ![r] = 1]
      /\ UNCHANGED <<listed, sheets, checked, answered, refreshing, session, lib, fields,
                     reported>>
  BY DEF FormsOK, Initialize
<1>2. /\ building' \in [Renderers -> Nat]
      /\ \A q \in Renderers : building'[q] <= MaxBuilds[q]
  <2>1. \A q \in Renderers : MaxBuilds[q] \in Nat \ {0}
    BY PageAssumption
  <2> QED
    BY <1>1, <2>1 DEF FormsOK
<1> QED
  BY <1>1, <1>2 DEF FormsOK

(* Only the mount of Amazon Pay touches them in a turn of an attempt. *)
LEMMA FormsTurn ==
  ASSUME TypeOK, FormsOK, NEW a \in DOMAIN attempts, Answer(a) \/ Component(a)
  PROVE  FormsOK'
<1>1. CASE AmazonRemount(a)
  <2> DEFINE r == attempts[a].by
  <2>1. r \in Renderers
    BY AttemptParts DEF TypeOK, AttemptsTyped
  <2>2. /\ building[r] < MaxBuilds[r] /\ building' = [building EXCEPT ![r] = @ + 1]
        /\ session' = FALSE
        /\ UNCHANGED <<listed, started, sheets, checked, answered, refreshing, lib, fields,
                       reported>>
    BY <1>1 DEF AmazonRemount, late
  <2>3. /\ building' \in [Renderers -> Nat]
        /\ \A q \in Renderers : building'[q] <= MaxBuilds[q]
    BY <2>1, <2>2, BuildingType
  <2> QED
    BY <2>2, <2>3 DEF FormsOK
<1>2. CASE ~AmazonRemount(a)
  <2>1. forms' = forms
    BY <1>2 DEF Answer, Component, CardPlaceFails, CardPlaceDone, CardStatus,
       CardStatusFails, CardDetailsDone, CardDetailsFails, VaultPlaceFails,
       VaultPlaceDone, VaultStatus, VaultStatusFails, VaultDetailsDone,
       VaultDetailsFails, MethodPlaceFails, MethodPlaceDone, MethodStatus,
       MethodStatusFails, MethodDetailsDone, MethodDetailsFails, PosPlaceFails,
       PosPlaceDone, PosPay, PosPayFails, CardReport, VaultReport, MethodReport,
       MethodCancel, MethodError, PaypalError, AmazonDecline, Redirect
  <2>2. UNCHANGED <<listed, started, sheets, checked, answered, refreshing, session,
                    building, lib, fields, reported>>
    BY <2>1 DEF forms, late
  <2> QED
    BY <2>2 DEF FormsOK
<1> QED
  BY <1>1, <1>2

(* The order that is landed at is one of an attempt. *)
LEMMA LandedStep ==
  ASSUME Next
  PROVE  landed' = landed \/ landed' \in DOMAIN attempts
<1>1. \A a, s : Lands(a, s) => landed' = a
  BY DEF Lands
<1>2. ASSUME NEW a \in DOMAIN attempts, Answer(a) \/ Component(a)
      PROVE  landed' = landed \/ landed' = a
  BY <1>1, <1>2 DEF Answer, Component, CardPlaceFails, CardPlaceDone, CardStatus,
       CardStatusFails, CardDetailsDone, CardDetailsFails, VaultPlaceFails,
       VaultPlaceDone, VaultStatus, VaultStatusFails, VaultDetailsDone,
       VaultDetailsFails, MethodPlaceFails, MethodPlaceDone, MethodStatus,
       MethodStatusFails, MethodDetailsDone, MethodDetailsFails, PosPlaceFails,
       PosPlaceDone, PosPay, PosPayFails, CardReport, VaultReport, MethodReport,
       MethodCancel, MethodError, PaypalError, AmazonDecline, Redirect, AmazonRemount,
       CardResult, CardAction, VaultResult, VaultAction
<1>3. ASSUME NEW r \in listed, Initialize(r) \/ Shopper(r) \/ Library(r)
      PROVE  landed' = landed
  BY <1>3 DEF Initialize, Shopper, Library, CardSelect, CardEdit, CardPlace, VaultSelect,
     VaultEdit, VaultPlace, MethodSelect, MethodEdit, MethodPlace, OpenSheet,
     MethodSubmit, AmazonPay,
     MethodErrorIdle, PosSelect, PosPlace, CardBuilt, VaultBuilt, MethodBuilt,
     AmazonBuilt, Built
<1> QED
  BY <1>2, <1>3 DEF Next, AskMethods, MethodsArrive

-----------------------------------------------------------------------------
(* What each shape does to the attempts                                    *)

(* A new attempt comes last. *)
LEMMA StartFacts ==
  ASSUME TypeOK, NEW r \in Renderers, Begin(r)
  PROVE  \E new \in Nat :
           /\ new \notin DOMAIN attempts
           /\ DOMAIN attempts' = DOMAIN attempts \cup {new}
           /\ attempts'[new].by = r /\ attempts'[new].phase = "placing"
           /\ attempts'[new].act = "none" /\ attempts'[new].order = "none"
           /\ \A b \in DOMAIN attempts : attempts'[b] = attempts[b]
           /\ attempts' \in Seq(AttemptType) /\ Len(attempts') <= MaxAttempts
<1> DEFINE rec == [by |-> r, phase |-> "placing", act |-> "none", order |-> "none",
                   left |-> MaxChallenges]
           new == Len(attempts) + 1
<1>1. attempts \in Seq(AttemptType) /\ Len(attempts) \in Nat
      /\ DOMAIN attempts = 1..Len(attempts) /\ MaxAttempts \in Nat
  BY PageAssumption DEF TypeOK
<1>2. rec \in AttemptType /\ rec.by = r /\ rec.phase = "placing" /\ rec.act = "none"
      /\ rec.order = "none"
  BY Bounds DEF AttemptType, Phases, Actions, Orders
<1>3. attempts' = Append(attempts, rec) /\ Len(attempts) < MaxAttempts
  BY DEF Begin
<1> HIDE DEF rec
<1>4. /\ attempts' \in Seq(AttemptType) /\ Len(attempts') = new
      /\ \A b \in 1..Len(attempts) : attempts'[b] = attempts[b]
      /\ attempts'[new] = rec
  BY <1>1, <1>2, <1>3, AppendProperties
<1>5. DOMAIN attempts' = 1..new
  BY <1>4
<1>6. new \in Nat /\ new \notin DOMAIN attempts /\ 1..new = DOMAIN attempts \cup {new}
      /\ new <= MaxAttempts
  BY <1>1, <1>3
<1> QED
  BY <1>1, <1>2, <1>4, <1>5, <1>6

(* An attempt that goes on is the only one that changes. *)
LEMMA TurnFacts ==
  ASSUME TypeOK, NEW a, NEW s \in OutcomeType, NEW q \in Phases, Turn(a, s, q)
  PROVE  /\ a \in DOMAIN attempts /\ DOMAIN attempts' = DOMAIN attempts
         /\ attempts'[a].by = attempts[a].by /\ attempts'[a].phase = q
         /\ attempts'[a].act = s.act /\ attempts'[a].order = s.order
         /\ \A b \in DOMAIN attempts \ {a} : attempts'[b] = attempts[b]
         /\ cart' = s.cart
         /\ attempts' \in Seq(AttemptType) /\ Len(attempts') = Len(attempts)
         /\ attempts[a].by \in Renderers
<1> DEFINE new == [attempts[a] EXCEPT !.phase = q, !.act = s.act,
                                      !.order = s.order, !.left = s.left]
<1>1. a \in DOMAIN attempts /\ Goes(a, s, q)
  BY DEF Turn
<1>0. AttemptsTyped
  <2>1. cart \in BOOLEAN
    BY DEF TypeOK
  <2> QED
    BY <2>1 DEF TypeOK, AttemptsTyped
<1>2. AttemptsTyped' /\ DOMAIN attempts' = DOMAIN attempts
  BY <1>0, <1>1, GoesType
<1>3. attempts' = [attempts EXCEPT ![a] = new] /\ cart' = s.cart
  BY <1>1 DEF Goes
<1>4. attempts[a] \in AttemptType /\ attempts[a].by \in Renderers
  BY <1>0, <1>1, AttemptParts
<1>5. /\ new.by = attempts[a].by /\ new.phase = q
      /\ new.act = s.act /\ new.order = s.order
  BY <1>4 DEF AttemptType
<1> HIDE DEF new
<1>6. attempts'[a] = new /\ \A b \in DOMAIN attempts \ {a} : attempts'[b] = attempts[b]
  BY <1>1, <1>3
<1>7. Len(attempts') = Len(attempts)
  BY <1>0, <1>2 DEF AttemptsTyped
<1> QED
  BY <1>1, <1>2, <1>3, <1>4, <1>5, <1>6, <1>7 DEF AttemptsTyped

(* The other shapes leave the attempts alone. *)
LEMMA RestFacts ==
  ASSUME Looks \/ Stops \/ Asks \/ Arrives
  PROVE  UNCHANGED <<attempts, modal, orderId, cart>>
  BY DEF Looks, Stops, Asks, Arrives

(* The forms, late, the attempts and the loader keep their types. *)
LEMMA TypeStep ==
  ASSUME TypeOK, Next
  PROVE  TypeOK'
<1>0. /\ loader \in Nat /\ flag \in [Renderers -> BOOLEAN] /\ modal \subseteq Renderers
      /\ attempts \in Seq(AttemptType) /\ Len(attempts) <= MaxAttempts
      /\ orderId \in [Renderers -> 0..MaxAttempts]
      /\ page \in {"here", "success", "away"} /\ landed \in 0..MaxAttempts
      /\ MaxAttempts \in Nat
  BY PageAssumption DEF TypeOK
<1>1. /\ cart \in BOOLEAN /\ answered \in BOOLEAN /\ refreshing \in BOOLEAN
      /\ session \in BOOLEAN /\ crossed \in BOOLEAN
  BY DEF TypeOK
<1>2. FormsOK
  BY <1>1 DEF TypeOK, FormsOK
<1>3. FormsOK'
  <2>1. CASE AskMethods
    BY <1>2, <2>1 DEF AskMethods, FormsOK, late
  <2>2. CASE MethodsArrive
    <3>1. /\ building' \in [Renderers -> Nat]
          /\ \A r \in Renderers : building'[r] <= MaxBuilds[r]
      <4>1. CASE answered
        BY <1>2, <2>2, <4>1 DEF MethodsArrive, FormsOK
      <4>2. CASE ~answered
        <5>1. \A r \in Renderers : MaxBuilds[r] \in Nat \ {0}
          BY PageAssumption
        <5>2. building' = [r \in Renderers |->
               IF r \in started /\ Preselected(r) THEN 1 ELSE 0]
          BY <2>2, <4>2, Zenon DEF MethodsArrive
        <5>3. building' \in [Renderers -> {0, 1}]
          BY <5>2
        <5> QED
          BY <5>1, <5>3
      <4> QED
        BY <4>1, <4>2
    <3> QED
      BY <1>2, <2>2, <3>1 DEF MethodsArrive, FormsOK, late
  <2>3. ASSUME NEW r \in listed, Initialize(r) \/ Shopper(r) \/ Library(r)
        PROVE  FormsOK'
    <3>1. r \in Renderers
      BY DEF TypeOK
    <3> QED
      BY <1>2, <2>3, <3>1, FormsStep, FormsInitialize
  <2>4. ASSUME NEW a \in DOMAIN attempts, Answer(a) \/ Component(a)
        PROVE  FormsOK'
    BY <1>2, <2>4, FormsTurn
  <2> QED
    BY <2>1, <2>2, <2>3, <2>4 DEF Next
<1>4. landed' \in 0..MaxAttempts
  <2>1. landed' = landed \/ landed' \in DOMAIN attempts
    BY LandedStep
  <2>2. DOMAIN attempts = 1..Len(attempts) /\ Len(attempts) \in Nat
    BY <1>0
  <2> QED
    BY <1>0, <2>1, <2>2
<1> DEFINE Rest == /\ loader' \in Nat /\ flag' \in [Renderers -> BOOLEAN]
                   /\ modal' \subseteq Renderers
                   /\ attempts' \in Seq(AttemptType) /\ Len(attempts') <= MaxAttempts
                   /\ orderId' \in [Renderers -> 0..MaxAttempts]
                   /\ page' \in {"here", "success", "away"} /\ cart' \in BOOLEAN
                   /\ crossed' \in BOOLEAN
<1>5. ASSUME Looks \/ Stops \/ Asks \/ Arrives
      PROVE  Rest
  <2>1. loader' \in Nat
    <3>1. \/ loader' \in {loader, loader + 1}
          \/ \E n \in Nat : loader' = Stopped(n)
      BY <1>5 DEF Looks, Stops, Asks, Arrives
    <3> QED
      BY <1>0, <3>1, StoppedType
  <2>2. flag' \in [Renderers -> BOOLEAN] /\ page' \in {"here", "success", "away"}
    BY <1>0, <1>5 DEF Looks, Stops, ButtonsFollow, Asks, Arrives
  <2>3. crossed' \in BOOLEAN
    BY <1>1, <1>5 DEF Looks, Stops, Crosses, Asks, Arrives
  <2> QED
    BY <1>0, <1>1, <1>5, <2>1, <2>2, <2>3, RestFacts
<1>6. ASSUME Starts
      PROVE  Rest
  <2>1. PICK r \in Renderers : Begin(r) /\ flag' \in {flag, Allowed(r, FALSE)}
    BY <1>6 DEF Starts
  <2>2. attempts' \in Seq(AttemptType) /\ Len(attempts') <= MaxAttempts
    BY <2>1, StartFacts
  <2>3. loader' \in Nat
    BY <1>0, <2>1 DEF Begin
  <2>4. flag' \in [Renderers -> BOOLEAN]
    BY <1>0, <2>1 DEF Allowed
  <2> QED
    BY <1>0, <1>1, <1>6, <2>2, <2>3, <2>4 DEF Starts
<1>7. ASSUME NEW a \in DOMAIN attempts, NEW s \in OutcomeType, NEW q \in Phases,
             Turn(a, s, q)
      PROVE  Rest
  <2>1. /\ attempts' \in Seq(AttemptType) /\ Len(attempts') = Len(attempts)
        /\ cart' = s.cart /\ attempts[a].by \in Renderers
    BY <1>7, TurnFacts
  <2>2. cart' \in BOOLEAN
    BY <2>1 DEF OutcomeType
  <2>3. loader' \in Nat
    BY <1>7 DEF Turn, LoaderTurns
  <2>4. flag' \in [Renderers -> BOOLEAN]
    BY <1>0, <1>7 DEF Turn, ButtonTurns, Allowed
  <2>5. modal' \subseteq Renderers
    BY <1>0, <1>7, <2>1 DEF Turn, ModalTurns, Opened, Closed
  <2>6. orderId' \in [Renderers -> 0..MaxAttempts]
    <3>1. a \in 0..MaxAttempts
      <4>1. DOMAIN attempts = 1..Len(attempts) /\ Len(attempts) \in Nat
        BY <1>0
      <4> QED
        BY <1>0, <4>1
    <3>2. orderId' = orderId \/ orderId' = [orderId EXCEPT ![attempts[a].by] = a]
      BY <1>7 DEF Turn, RememberTurns
    <3> QED
      BY <1>0, <2>1, <3>1, <3>2
  <2>7. page' \in {"here", "success", "away"}
    BY <1>7 DEF Turn
  <2>8. crossed' \in BOOLEAN
    BY <1>1, <1>7 DEF Turn
  <2> QED
    BY <1>0, <2>1, <2>2, <2>3, <2>4, <2>5, <2>6, <2>7, <2>8
<1>8. Rest
  BY <1>5, <1>6, <1>7, StepShapes DEF Turns
<1>9. {answered, refreshing, session, cart, crossed}' \subseteq BOOLEAN
  BY <1>3, <1>8, Zenon DEF FormsOK
<1> QED
  BY <1>3, <1>4, <1>8, <1>9 DEF TypeOK, FormsOK

-----------------------------------------------------------------------------
(* What an answer does to the order and to the cart                        *)

(* A window is asked for by the methods that have one.                     *)
LEMMA OpeningFacts ==
  ASSUME NEW a, NEW left, NEW active, NEW s \in Opening(a, left, active)
  PROVE  /\ s.order = "open" /\ s.cart = active
         /\ s.act = "popup" => Kind[attempts[a].by] \in {"paypal", "cashapp"}
<1>1. PICK act \in ActionsOf(a) : s \in Answers("open", act, left, active)
  BY Zenon DEF Opening
<1>2. PICK ok \in Oks : s = Outcome(ok, "open", act, left, active)
  BY <1>1, Zenon DEF Answers
<1>3. act = "popup" => Kind[attempts[a].by] \in {"paypal", "cashapp"}
  BY DEF ActionsOf
<1>4. s.order = "open" /\ s.cart = active /\ s.act = act
  BY <1>2 DEF Outcome
<1> QED
  BY <1>3, <1>4

(* An order is only placed, and paid, with an active cart, and a payment    *)
(* closes it.                                                              *)
LEMMA PlaceFacts ==
  ASSUME NEW a, NEW s \in PlaceOutcomes(a)
  PROVE  /\ s.act = "popup" => Kind[attempts[a].by] \in {"paypal", "cashapp"}
         /\ s.order = "paid" => cart /\ s.cart = FALSE
         /\ ~cart => s.ok = FALSE /\ s.order = "none" /\ s.cart = cart
<1>1. CASE s = Failure("none", "none", MaxChallenges, cart)
  BY <1>1 DEF Failure, Outcome
<1>2. CASE cart /\ s \in PlacedFinal
  <2>1. PICK order \in FinalOrders : s \in Answers(order, "none", MaxChallenges, FALSE)
    BY <1>2, Zenon DEF PlacedFinal
  <2>2. PICK ok \in Oks : s = Outcome(ok, order, "none", MaxChallenges, FALSE)
    BY <2>1, Zenon DEF Answers
  <2>3. s.act = "none" /\ s.cart = FALSE
    BY <2>2 DEF Outcome
  <2> QED
    BY <1>2, <2>3
<1>3. CASE cart /\ s \in Opening(a, MaxChallenges, cart)
  <2>1. cart /\ s \in Opening(a, MaxChallenges, cart)
    BY <1>3
  <2>2. /\ s.order = "open"
        /\ s.act = "popup" => Kind[attempts[a].by] \in {"paypal", "cashapp"}
    <3>1. s \in Opening(a, MaxChallenges, cart)
      BY <2>1
    <3> HIDE <1>3, <2>1
    <3> QED
      BY <3>1, OpeningFacts
  <2> QED
    BY <2>1, <2>2
<1> QED
  BY <1>1, <1>2, <1>3, Zenon DEF PlaceOutcomes

(* The details of an action: an authorisation closes the cart. *)
LEMMA DetailsFacts ==
  ASSUME NEW a, NEW s \in DetailsOutcomes(a)
  PROVE  /\ s.act = "popup" => \/ attempts[a].act = "popup"
                               \/ Kind[attempts[a].by] \in {"paypal", "cashapp"}
         /\ s.order = "paid" => s.cart = FALSE
<1> DEFINE left == attempts[a].left
           last == attempts[a].act
<1>1. \/ s = Failure("refused", last, left, TRUE)
      \/ s \in Answers("paid", last, left, FALSE)
      \/ s \in Answers("received", last, left, cart)
      \/ s \in Opening(a, left - 1, cart)
  BY Zenon DEF DetailsOutcomes
<1>2. CASE s = Failure("refused", last, left, TRUE)
  BY <1>2 DEF Failure, Outcome
<1>3. CASE s \in Answers("paid", last, left, FALSE)
  <2>1. PICK ok \in Oks : s = Outcome(ok, "paid", last, left, FALSE)
    BY <1>3, Zenon DEF Answers
  <2> QED
    BY <2>1 DEF Outcome
<1>4. CASE s \in Answers("received", last, left, cart)
  <2>1. PICK ok \in Oks : s = Outcome(ok, "received", last, left, cart)
    BY <1>4, Zenon DEF Answers
  <2> QED
    BY <2>1 DEF Outcome
<1>5. CASE s \in Opening(a, left - 1, cart)
  BY <1>5, OpeningFacts
<1> QED
  BY <1>1, <1>2, <1>3, <1>4, <1>5

(* The terminal asks for no action, and a payment closes the cart. *)
LEMMA PosFacts ==
  ASSUME NEW a, NEW s \in PosOutcomes(a)
  PROVE  s.act = "none" /\ (s.order = "paid" => s.cart = FALSE)
<1>1. CASE s = Failure("refused", "none", attempts[a].left, cart)
  BY <1>1 DEF Failure, Outcome
<1>2. CASE s \in Answers("paid", "none", attempts[a].left, FALSE)
  <2>1. PICK ok \in Oks : s = Outcome(ok, "paid", "none", attempts[a].left, FALSE)
    BY <1>2, Zenon DEF Answers
  <2> QED
    BY <2>1 DEF Outcome
<1> QED
  BY <1>1, <1>2 DEF PosOutcomes

(* All that may be said of an attempt *)
LEMMA SaysFacts ==
  ASSUME NEW a, NEW s, Says(a, s)
  PROVE  /\ s.act = "popup" => \/ attempts[a].act = "popup"
                               \/ Kind[attempts[a].by] \in {"paypal", "cashapp"}
         /\ s.order = "paid" => \/ s.cart = FALSE
                                \/ /\ attempts[a].order = "paid" /\ s.cart = cart
                                   /\ attempts[a].phase \in {"asking", "acting", "declining"}
         /\ attempts[a].phase = "placing" =>
              /\ s.order = "paid" => cart
              /\ ~cart => s.ok = FALSE /\ s.order = "none" /\ s.cart = cart
         /\ \/ attempts[a].phase = "placing"
            \/ attempts[a].phase = "sending"
            \/ Kind[attempts[a].by] = "pos" /\ attempts[a].phase = "asking"
            \/ s.act = attempts[a].act /\ s.order = attempts[a].order /\ s.cart = cart
<1>1. CASE attempts[a].phase = "placing" /\ s \in PlaceOutcomes(a)
  BY <1>1, PlaceFacts
<1>2. CASE s = Same(a) /\ attempts[a].phase \in {"asking", "acting", "declining"}
  <2>1. s.act = attempts[a].act /\ s.order = attempts[a].order /\ s.cart = cart
    BY <1>2 DEF Same, Outcome
  <2> QED
    BY <1>2, <2>1
<1>3. CASE attempts[a].phase = "asking" /\ Kind[attempts[a].by] = "pos" /\ s \in PosOutcomes(a)
  BY <1>3, PosFacts
<1>4. CASE attempts[a].phase = "sending" /\ s \in DetailsOutcomes(a)
  BY <1>4, DetailsFacts
<1> QED
  BY <1>1, <1>2, <1>3, <1>4 DEF Says

-----------------------------------------------------------------------------
(* Phases and actions                                                      *)

(* What the phase of an attempt says of its order and of its method *)
PhaseOf(a) ==
  /\ attempts[a].phase = "placing" => attempts[a].act = "none" /\ attempts[a].order = "none"
  /\ attempts[a].phase = "sending" =>
       attempts[a].act # "redirect" \/ Kind[attempts[a].by] = "paypal"
  /\ attempts[a].act = "popup" => Kind[attempts[a].by] \in {"paypal", "cashapp"}
  /\ attempts[a].phase = "declining" => Kind[attempts[a].by] = "amazon"
  /\ Kind[attempts[a].by] = "pos" => attempts[a].phase \notin {"acting", "sending"}

PhaseInv == \A a \in DOMAIN attempts : PhaseOf(a)

(* Attempts that may leave the page uncovered *)
Open(a) ==
  \/ attempts[a].act = "redirect" /\ Kind[attempts[a].by] # "pos"
  \/ Kind[attempts[a].by] \in {"paypal", "cashapp", "amazon"}

(* None does, and no callback has come to a covered page. *)
Tight == ~crossed /\ \A a \in DOMAIN attempts : ~Open(a)

(* Every step keeps what the phases say, *)
LEMMA PhaseStep ==
  ASSUME TypeOK, PhaseInv, Next
  PROVE  PhaseInv'
<1>1. CASE Looks \/ Stops \/ Asks \/ Arrives
  BY <1>1, RestFacts DEF PhaseInv, PhaseOf
<1>2. CASE Starts
  <2>1. PICK r \in Renderers : Begin(r)
    BY <1>2 DEF Starts
  <2>2. PICK new \in Nat :
          /\ DOMAIN attempts' = DOMAIN attempts \cup {new}
          /\ attempts'[new].phase = "placing"
          /\ attempts'[new].act = "none" /\ attempts'[new].order = "none"
          /\ \A b \in DOMAIN attempts : attempts'[b] = attempts[b]
    BY <2>1, StartFacts, Zenon
  <2>3. \A b \in DOMAIN attempts : PhaseOf(b)'
    BY <2>2 DEF PhaseInv, PhaseOf
  <2>4. PhaseOf(new)'
    BY <2>2 DEF PhaseOf
  <2> QED
    BY <2>2, <2>3, <2>4, Zenon DEF PhaseInv
<1>3. ASSUME NEW a \in DOMAIN attempts, NEW s \in OutcomeType, NEW q \in Phases,
             Turn(a, s, q)
      PROVE  PhaseInv'
  <2>1. /\ DOMAIN attempts' = DOMAIN attempts
        /\ attempts'[a].by = attempts[a].by /\ attempts'[a].phase = q
        /\ attempts'[a].act = s.act /\ attempts'[a].order = s.order
        /\ \A b \in DOMAIN attempts \ {a} : attempts'[b] = attempts[b]
    BY <1>3, TurnFacts, Zenon
  <2>2. Says(a, s) /\ Follows(a, s, q)
    BY <1>3 DEF Turn
  <2>3. \A b \in DOMAIN attempts \ {a} : PhaseOf(b)'
    BY <2>1 DEF PhaseInv, PhaseOf
  <2>4. PhaseOf(a)
    BY DEF PhaseInv
  <2>5. s.act = "popup" => Kind[attempts[a].by] \in {"paypal", "cashapp"}
    BY <2>2, <2>4, SaysFacts DEF PhaseOf
  <2>6. q = "sending" => s.act # "redirect" \/ Kind[attempts[a].by] = "paypal"
    BY <2>2 DEF Follows
  <2>7. /\ q # "placing" /\ (q = "declining" => Kind[attempts[a].by] = "amazon")
        /\ Kind[attempts[a].by] = "pos" => q \notin {"acting", "sending"}
    BY <2>2, <2>4 DEF Follows, PhaseOf
  <2>8. PhaseOf(a)'
    BY <2>1, <2>5, <2>6, <2>7 DEF PhaseOf
  <2> QED
    BY <2>1, <2>3, <2>8, Zenon DEF PhaseInv
<1> QED
  BY <1>1, <1>2, <1>3, StepShapes DEF Turns

(* and what may leave the page uncovered stays so. *)
LEMMA TightBefore ==
  ASSUME TypeOK, PhaseInv, Next, Tight'
  PROVE  Tight
<1>c. ~crossed
  <2>1. crossed => crossed'
    BY StepShapes DEF Looks, Stops, Crosses, Asks, Arrives, Starts, Turns, Turn
  <2> QED
    BY <2>1 DEF Tight
<1>1. CASE Looks \/ Stops \/ Asks \/ Arrives
  BY <1>c, <1>1, RestFacts DEF Tight, Open
<1>2. CASE Starts
  <2>1. PICK r \in Renderers : Begin(r)
    BY <1>2 DEF Starts
  <2>2. PICK new \in Nat :
          /\ DOMAIN attempts' = DOMAIN attempts \cup {new}
          /\ \A b \in DOMAIN attempts : attempts'[b] = attempts[b]
    BY <2>1, StartFacts, Zenon
  <2> QED
    BY <1>c, <2>2 DEF Tight, Open
<1>3. ASSUME NEW a \in DOMAIN attempts, NEW s \in OutcomeType, NEW q \in Phases,
             Turn(a, s, q)
      PROVE  Tight
  <2>1. /\ DOMAIN attempts' = DOMAIN attempts
        /\ attempts'[a].by = attempts[a].by /\ attempts'[a].act = s.act
        /\ \A b \in DOMAIN attempts \ {a} : attempts'[b] = attempts[b]
    BY <1>3, TurnFacts, Zenon
  <2>2. Says(a, s) /\ PhaseOf(a)
    BY <1>3 DEF Turn, PhaseInv
  <2>3. \A b \in DOMAIN attempts \ {a} : ~Open(b)
    BY <2>1 DEF Tight, Open
  <2>4. ~Open(a)
    <3>1. ~Open(a)'
      BY <2>1 DEF Tight
    <3> QED
      BY <2>1, <2>2, <3>1, SaysFacts DEF Open, PhaseOf
  <2> QED
    BY <1>c, <2>3, <2>4 DEF Tight
<1> QED
  BY <1>1, <1>2, <1>3, StepShapes DEF Turns

-----------------------------------------------------------------------------
(* One attempt at a time, while none may leave the page uncovered          *)

(* What covers the page while an attempt is under way *)
CoveredBy(a) ==
  /\ attempts[a].phase = "placing" => loader >= 2
  /\ attempts[a].phase = "asking" => loader >= 1
  /\ attempts[a].phase \in {"acting", "sending"} => attempts[a].by \in modal

SingleInv ==
  Tight =>
    /\ refreshing => loader > 0 /\ \A a \in DOMAIN attempts : ~Live(a)
    /\ \A a, b \in DOMAIN attempts : Live(a) /\ Live(b) => a = b
    /\ \A a \in DOMAIN attempts : CoveredBy(a)

(* Where nothing covers the page nothing is under way. *)
LEMMA UncoveredIsIdle ==
  ASSUME TypeOK, PhaseInv, Tight, SingleInv, ~Covered
  PROVE  ~refreshing /\ \A a \in DOMAIN attempts : ~Live(a)
<1>1. loader = 0 /\ modal = {}
  BY DEF Covered, TypeOK
<1>2. ASSUME NEW a \in DOMAIN attempts
      PROVE  ~Live(a)
  <2>1. CoveredBy(a) /\ PhaseOf(a) /\ ~Open(a)
    BY DEF SingleInv, PhaseInv, Tight
  <2> QED
    BY <1>1, <2>1 DEF CoveredBy, PhaseOf, Open, Live, Flying
<1> QED
  BY <1>1, <1>2 DEF SingleInv

(* The attempt that goes on is the one that is under way. *)
LEMMA TurnIsAlone ==
  ASSUME TypeOK, Tight, SingleInv, NEW a, NEW s \in OutcomeType, NEW q \in Phases,
         Turn(a, s, q)
  PROVE  /\ Live(a) /\ ~refreshing
         /\ \A b \in DOMAIN attempts \ {a} : ~Live(b)
<1>1. a \in DOMAIN attempts /\ Live(a)
  BY DEF Turn, Follows, Live
<1> QED
  BY <1>1, Zenon DEF SingleInv

(* Every step keeps the attempt under way the only one. *)
LEMMA SingleStep ==
  ASSUME TypeOK, PhaseInv, SingleInv, Next
  PROVE  SingleInv'
<1> DEFINE Goal == /\ refreshing' => loader' > 0 /\ \A a \in DOMAIN attempts' : ~Live(a)'
                   /\ \A a, b \in DOMAIN attempts' : Live(a)' /\ Live(b)' => a = b
                   /\ \A a \in DOMAIN attempts' : CoveredBy(a)'
<1> SUFFICES ASSUME Tight'
             PROVE  Goal
  BY Zenon DEF SingleInv
<1>0. Tight /\ PhaseInv' /\ loader \in Nat
  BY TightBefore, PhaseStep DEF TypeOK
<1>1. ASSUME Looks \/ Stops \/ Asks \/ Arrives
      PROVE  Goal
  <2>1. UNCHANGED <<attempts, modal>>
    BY <1>1, RestFacts
  <2>2. /\ DOMAIN attempts' = DOMAIN attempts
        /\ \A a \in DOMAIN attempts : Live(a)' = Live(a)
    BY <2>1 DEF Live
  <2>3. CASE Looks
    BY <1>0, <2>1, <2>2, <2>3 DEF Looks, SingleInv, CoveredBy
  <2>4. CASE Asks \/ Arrives
    <3>1. /\ \A a \in DOMAIN attempts : ~Live(a)
          /\ refreshing' => loader' > 0
      BY <1>0, <2>4, UncoveredIsIdle DEF Asks, Clickable, Arrives, SingleInv
    <3>2. \A a \in DOMAIN attempts : CoveredBy(a)'
      BY <2>1, <3>1 DEF CoveredBy, Live, Flying
    <3> QED
      BY <2>2, <3>1, <3>2
  <2>5. CASE Stops
    <3>1. ~Covered
      BY <2>5 DEF Stops, Crosses, Tight
    <3>2. loader' = loader /\ refreshing' = refreshing
      <4>1. loader = 0
        BY <1>0, <3>1 DEF Covered
      <4>2. PICK n \in Nat : loader' = Stopped(n)
        BY <2>5 DEF Stops
      <4> QED
        BY <2>5, <4>1, <4>2 DEF Stops, Stopped
    <3> QED
      BY <1>0, <2>1, <2>2, <3>2 DEF SingleInv, CoveredBy
  <2> QED
    BY <1>1, <2>3, <2>4, <2>5
<1>2. ASSUME Starts
      PROVE  Goal
  <2>1. PICK r \in Renderers : Begin(r) /\ (~Covered \/ Kind[r] = "amazon")
    BY <1>2 DEF Starts, Tight
  <2>2. PICK new \in Nat :
          /\ DOMAIN attempts' = DOMAIN attempts \cup {new}
          /\ attempts'[new].by = r /\ attempts'[new].phase = "placing"
          /\ \A b \in DOMAIN attempts : attempts'[b] = attempts[b]
    BY <2>1, StartFacts, Zenon
  <2>3. ~Covered
    <3>1. ~Open(new)'
      BY <2>2 DEF Tight
    <3> QED
      BY <2>1, <2>2, <3>1 DEF Open
  <2>4. ~refreshing /\ \A b \in DOMAIN attempts : ~Live(b)
    BY <1>0, <2>3, UncoveredIsIdle
  <2>5. loader' = loader + 2 /\ modal' = modal /\ refreshing' = refreshing
    BY <1>2, <2>1 DEF Starts, Begin
  <2>6. \A b \in DOMAIN attempts : ~Live(b)'
    BY <2>2, <2>4 DEF Live
  <2>7. \A b \in DOMAIN attempts : CoveredBy(b)'
    BY <2>6 DEF CoveredBy, Live, Flying
  <2>8. CoveredBy(new)'
    BY <1>0, <2>2, <2>5 DEF CoveredBy
  <2> QED
    BY <2>2, <2>4, <2>5, <2>6, <2>7, <2>8
<1>3. ASSUME NEW a \in DOMAIN attempts, NEW s \in OutcomeType, NEW q \in Phases,
             Turn(a, s, q)
      PROVE  Goal
  <2>1. /\ DOMAIN attempts' = DOMAIN attempts
        /\ attempts'[a].by = attempts[a].by /\ attempts'[a].phase = q
        /\ attempts'[a].act = s.act
        /\ \A b \in DOMAIN attempts \ {a} : attempts'[b] = attempts[b]
    BY <1>3, TurnFacts, Zenon
  <2>2. ~refreshing /\ \A b \in DOMAIN attempts \ {a} : ~Live(b)
    BY <1>0, <1>3, TurnIsAlone
  <2>3. refreshing' = refreshing /\ Follows(a, s, q) /\ LoaderTurns(a, q) /\ ModalTurns(a, s, q)
    BY <1>3 DEF Turn
  <2>4. \A b \in DOMAIN attempts \ {a} : ~Live(b)' /\ CoveredBy(b)'
    BY <2>1, <2>2 DEF Live, CoveredBy, Flying
  <2>5. CoveredBy(a) /\ PhaseOf(a) /\ PhaseOf(a)' /\ ~Open(a)'
    BY <1>0, <2>1, Zenon DEF SingleInv, PhaseInv, Tight
  <2>6. CoveredBy(a)'
    <3>1. q # "placing"
      BY <2>3 DEF Follows
    <3>2. q = "asking" => loader' >= 1
      <4>1. q = "asking" => attempts[a].phase = "placing" /\ loader' = Stopped(1)
        BY <2>3 DEF Follows, LoaderTurns
      <4> QED
        BY <1>0, <2>5, <4>1 DEF CoveredBy, Stopped
    <3>3. q = "acting" => attempts[a].by \in modal'
      BY <2>1, <2>3, <2>5 DEF Follows, ModalTurns, PhaseOf, Open
    <3>4. q = "sending" => attempts[a].by \in modal'
      BY <2>3, <2>5 DEF Follows, ModalTurns, CoveredBy
    <3> QED
      BY <2>1, <3>1, <3>2, <3>3, <3>4 DEF CoveredBy
  <2>7. \A b, c \in DOMAIN attempts : Live(b)' /\ Live(c)' => b = c
    BY <2>4
  <2>8. \A b \in DOMAIN attempts : CoveredBy(b)'
    BY <2>4, <2>6
  <2> QED
    BY <2>1, <2>2, <2>3, <2>7, <2>8
<1> QED
  BY <1>1, <1>2, <1>3, StepShapes DEF Turns

-----------------------------------------------------------------------------
(* One payment                                                             *)

(* A payment has closed the cart, and no other attempt can lead to one. *)
Settled(a) ==
  /\ ~cart
  /\ \A b \in DOMAIN attempts :
       /\ attempts[b].order = "paid" => b = a
       /\ Live(b) => attempts[b].phase = "placing" \/ (b = a /\ attempts[b].phase = "asking")

PaidInv ==
  Tight => \A a \in DOMAIN attempts : attempts[a].order = "paid" => Settled(a)

(* Every step keeps a paid order paid once. *)
LEMMA PaidStep ==
  ASSUME TypeOK, PhaseInv, SingleInv, PaidInv, Next
  PROVE  PaidInv'
<1> DEFINE Goal == \A a \in DOMAIN attempts' : attempts'[a].order = "paid" => Settled(a)'
<1> SUFFICES ASSUME Tight'
             PROVE  Goal
  BY Zenon DEF PaidInv
<1>0. Tight
  BY TightBefore
<1>1. ASSUME Looks \/ Stops \/ Asks \/ Arrives
      PROVE  Goal
  BY <1>0, <1>1, RestFacts DEF PaidInv, Settled, Live
<1>2. ASSUME Starts
      PROVE  Goal
  <2>1. PICK r \in Renderers : Begin(r)
    BY <1>2 DEF Starts
  <2>2. PICK new \in Nat :
          /\ DOMAIN attempts' = DOMAIN attempts \cup {new}
          /\ attempts'[new].phase = "placing" /\ attempts'[new].order = "none"
          /\ \A b \in DOMAIN attempts : attempts'[b] = attempts[b]
    BY <2>1, StartFacts, Zenon
  <2>3. cart' = cart
    BY <1>2 DEF Starts
  <2>4. SUFFICES ASSUME NEW b \in DOMAIN attempts, attempts[b].order = "paid"
                 PROVE  Settled(b)'
    BY <2>2
  <2>5. Settled(b)
    BY <1>0, <2>4 DEF PaidInv
  <2>6. \A c \in DOMAIN attempts : Live(c)' = Live(c)
    BY <2>2 DEF Live
  <2> QED
    BY <2>2, <2>3, <2>5, <2>6 DEF Settled
<1>3. ASSUME NEW a \in DOMAIN attempts, NEW s \in OutcomeType, NEW q \in Phases,
             Turn(a, s, q)
      PROVE  Goal
  <2>1. /\ DOMAIN attempts' = DOMAIN attempts
        /\ attempts'[a].by = attempts[a].by /\ attempts'[a].phase = q
        /\ attempts'[a].act = s.act /\ attempts'[a].order = s.order
        /\ \A b \in DOMAIN attempts \ {a} : attempts'[b] = attempts[b]
        /\ cart' = s.cart
    BY <1>3, TurnFacts, Zenon
  <2>2. Live(a) /\ \A b \in DOMAIN attempts \ {a} : ~Live(b)
    BY <1>0, <1>3, TurnIsAlone
  <2>3. \A b \in DOMAIN attempts \ {a} : ~Live(b)'
    BY <2>1, <2>2 DEF Live
  <2>4. Says(a, s) /\ Follows(a, s, q)
    BY <1>3 DEF Turn
  <2>5. PhaseOf(a) /\ ~Open(a)
    BY <1>0 DEF PhaseInv, Tight
  <2>6. SUFFICES ASSUME NEW b \in DOMAIN attempts, attempts'[b].order = "paid"
                 PROVE  Settled(b)'
    BY <2>1
  <2>7. CASE b # a
    <3>1. Settled(b)
      BY <1>0, <2>1, <2>6, <2>7 DEF PaidInv
    <3>2. attempts[a].phase = "placing" /\ ~cart
      BY <2>2, <2>7, <3>1 DEF Settled
    <3>3. s.ok = FALSE /\ s.order = "none" /\ s.cart = cart
      BY <2>4, <3>2, SaysFacts
    <3>4. ~Live(a)'
      BY <2>1, <2>4, <2>5, <3>2, <3>3 DEF Follows, Live, Flying, PhaseOf, Open, Phases
    <3>5. \A c \in DOMAIN attempts : attempts'[c].order = "paid" => c = b
      BY <2>1, <3>1, <3>3 DEF Settled
    <3>6. \A c \in DOMAIN attempts : ~Live(c)'
      BY <2>3, <3>4
    <3>7. ~cart'
      BY <2>1, <3>2, <3>3
    <3> QED
      BY <2>1, <3>5, <3>6, <3>7 DEF Settled
  <2>8. CASE b = a
    <3>1. s.order = "paid"
      BY <2>1, <2>6, <2>8
    <3>2. \A c \in DOMAIN attempts \ {a} : attempts[c].order # "paid"
      <4> SUFFICES ASSUME NEW c \in DOMAIN attempts \ {a}, attempts[c].order = "paid"
                   PROVE  FALSE
        OBVIOUS
      <4>1. Settled(c)
        BY <1>0 DEF PaidInv
      <4>2. attempts[a].phase = "placing" /\ ~cart
        BY <2>2, <4>1 DEF Settled
      <4> QED
        BY <2>4, <3>1, <4>2, SaysFacts
    <3>3. ~cart'
      <4>1. CASE s.cart = FALSE
        BY <2>1, <4>1
      <4>2. CASE attempts[a].order = "paid" /\ s.cart = cart
        BY <1>0, <2>1, <4>2 DEF PaidInv, Settled
      <4> QED
        BY <2>4, <3>1, <4>1, <4>2, SaysFacts
    <3>4. Live(a)' => q = "asking"
      <4>1. q # "acting" /\ q # "declining" /\ q # "placing"
        BY <2>4, <2>5, <3>1 DEF Follows, FinalOrders, Open
      <4>2. q # "sending"
        <5> SUFFICES ASSUME q = "sending" PROVE FALSE
          OBVIOUS
        <5>1. attempts[a].phase = "acting"
          BY <2>4 DEF Follows
        <5>2. attempts[a].order = "paid"
          BY <2>4, <3>1, <5>1, SaysFacts
        <5>3. Settled(a)
          BY <1>0, <5>2 DEF PaidInv
        <5> QED
          BY <2>2, <5>1, <5>3 DEF Settled
      <4> QED
        BY <2>1, <4>1, <4>2 DEF Live, Flying
    <3>5. \A c \in DOMAIN attempts : attempts'[c].order = "paid" => c = a
      BY <2>1, <3>2
    <3>6. \A c \in DOMAIN attempts : Live(c)' => c = a /\ attempts'[c].phase = "asking"
      BY <2>1, <2>3, <3>4
    <3> QED
      BY <2>1, <2>8, <3>3, <3>5, <3>6 DEF Settled
  <2> QED
    BY <2>7, <2>8
<1> QED
  BY <1>1, <1>2, <1>3, StepShapes DEF Turns

-----------------------------------------------------------------------------
(* The order that is remembered                                            *)

(* In these phases the renderer's next call is about the order it remembers. *)
Remembered(a) ==
  \/ attempts[a].phase \in {"asking", "acting", "sending"} /\ Kind[attempts[a].by] \in CardKinds
  \/ attempts[a].phase \in {"acting", "sending"} /\ Kind[attempts[a].by] \in {"pm", "wallet"}

OwnInv ==
  Tight => \A a \in DOMAIN attempts : Remembered(a) => orderId[attempts[a].by] = a

(* Every step keeps an attempt, under the conditions of the theorem, on   *)
(* the order it placed.                                                   *)
LEMMA OwnStep ==
  ASSUME TypeOK, PhaseInv, SingleInv, OwnInv, Next
  PROVE  OwnInv'
<1> DEFINE Goal == \A a \in DOMAIN attempts' : Remembered(a)' => orderId'[attempts'[a].by] = a
<1> SUFFICES ASSUME Tight'
             PROVE  Goal
  BY Zenon DEF OwnInv
<1>0. Tight /\ orderId \in [Renderers -> 0..MaxAttempts]
  BY TightBefore DEF TypeOK
<1>1. ASSUME Looks \/ Stops \/ Asks \/ Arrives
      PROVE  Goal
  BY <1>0, <1>1, RestFacts DEF OwnInv, Remembered
<1>2. ASSUME Starts
      PROVE  Goal
  <2>1. PICK r \in Renderers : Begin(r)
    BY <1>2 DEF Starts
  <2>2. PICK new \in Nat :
          /\ DOMAIN attempts' = DOMAIN attempts \cup {new}
          /\ attempts'[new].phase = "placing"
          /\ \A b \in DOMAIN attempts : attempts'[b] = attempts[b]
    BY <2>1, StartFacts, Zenon
  <2>3. orderId' = orderId
    BY <1>2 DEF Starts
  <2>4. ~Remembered(new)'
    BY <2>2 DEF Remembered
  <2>5. \A b \in DOMAIN attempts : Remembered(b)' = Remembered(b)
    BY <2>2 DEF Remembered
  <2> QED
    BY <1>0, <2>2, <2>3, <2>4, <2>5 DEF OwnInv
<1>3. ASSUME NEW a \in DOMAIN attempts, NEW s \in OutcomeType, NEW q \in Phases,
             Turn(a, s, q)
      PROVE  Goal
  <2>1. /\ DOMAIN attempts' = DOMAIN attempts
        /\ attempts'[a].by = attempts[a].by /\ attempts'[a].phase = q
        /\ \A b \in DOMAIN attempts \ {a} : attempts'[b] = attempts[b]
        /\ attempts[a].by \in Renderers
    BY <1>3, TurnFacts, Zenon
  <2>2. \A b \in DOMAIN attempts \ {a} : ~Live(b)
    BY <1>0, <1>3, TurnIsAlone
  <2>3. \A b \in DOMAIN attempts \ {a} : ~Remembered(b)'
    BY <2>1, <2>2 DEF Live, Flying, Remembered
  <2>4. Follows(a, s, q) /\ RememberTurns(a, q)
    BY <1>3 DEF Turn
  <2>5. ASSUME Remembered(a)'
        PROVE  orderId'[attempts[a].by] = a
    <3>1. CASE orderId' = [orderId EXCEPT ![attempts[a].by] = a]
      BY <1>0, <2>1, <3>1
    <3>2. CASE orderId' = orderId /\ Remembered(a)
      BY <1>0, <3>2 DEF OwnInv
    <3>3. \/ q = "asking" /\ Kind[attempts[a].by] \in CardKinds
          \/ /\ q = "acting" /\ Kind[attempts[a].by] \in {"pm", "wallet"}
             /\ attempts[a].phase = "asking"
          \/ Remembered(a)
      BY <2>1, <2>4, <2>5 DEF Follows, Remembered
    <3> QED
      BY <2>4, <3>1, <3>2, <3>3 DEF RememberTurns
  <2> QED
    BY <2>1, <2>3, <2>5
<1> QED
  BY <1>1, <1>2, <1>3, StepShapes DEF Turns

-----------------------------------------------------------------------------
(* The loader and the dialogs                                              *)

Showing == {"acting", "sending", "declining"}

(* How often the loader is started for each of the attempts as *)
LoadersOf(as) == [a \in DOMAIN as |-> Weight(Kind[as[a].by], as[a].phase)]

(* The loader was not started more often than calls are under way, and a    *)
(* dialog is that of an attempt.                                           *)
CoverInv ==
  (page = "here" /\ ~Dropped) =>
    /\ loader <= (IF refreshing THEN 1 ELSE 0) + SumOver(LoadersOf(attempts), DOMAIN attempts)
    /\ \A r \in modal : \E a \in DOMAIN attempts :
         attempts[a].by = r /\ attempts[a].phase \in Showing

(* The loaders of the attempts can be added up. *)
LEMMA LoadersType ==
  ASSUME NEW as \in Seq(AttemptType)
  PROVE  /\ IsFiniteSet(DOMAIN as) /\ NatOn(LoadersOf(as), DOMAIN as)
         /\ SumOver(LoadersOf(as), DOMAIN as) \in Nat
<1>1. DOMAIN as = 1..Len(as) /\ Len(as) \in Nat
  BY LenProperties
<1>2. IsFiniteSet(DOMAIN as)
  <2>1. IsFiniteSet(1..Len(as))
    <3>1. 1 \in Int /\ Len(as) \in Int
      BY <1>1
    <3> QED
      BY <3>1, FS_Interval, Zenon
  <2> QED
    BY <1>1, <2>1
<1>3. \A kind, phase : Weight(kind, phase) \in Nat
  <2>1. \A kind, phase : Weight(kind, phase) \in {0, 1, 2}
    BY Zenon DEF Weight
  <2> QED
    BY <2>1
<1>4. NatOn(LoadersOf(as), DOMAIN as)
  BY <1>3 DEF NatOn, LoadersOf
<1> QED
  BY <1>2, <1>4, SumType

(* A page that is here with no handler left half-way was so before. *)
LEMMA HereBefore ==
  ASSUME TypeOK, Next, page' = "here", ~Dropped'
  PROVE  page = "here" /\ ~Dropped
<1>1. CASE Looks \/ Stops \/ Asks \/ Arrives
  <2>1. page = "here" /\ attempts' = attempts
    BY <1>1, RestFacts DEF Looks, Stops, Asks, Arrives
  <2> QED
    BY <2>1 DEF Dropped
<1>2. CASE Starts
  <2>1. PICK r \in Renderers : Begin(r)
    BY <1>2 DEF Starts
  <2>2. PICK new \in Nat :
          /\ DOMAIN attempts' = DOMAIN attempts \cup {new}
          /\ \A b \in DOMAIN attempts : attempts'[b] = attempts[b]
    BY <2>1, StartFacts, Zenon
  <2> QED
    BY <1>2, <2>2 DEF Starts, Dropped
<1>3. ASSUME NEW a \in DOMAIN attempts, NEW s \in OutcomeType, NEW q \in Phases,
             Turn(a, s, q)
      PROVE  page = "here" /\ ~Dropped
  <2>1. /\ DOMAIN attempts' = DOMAIN attempts
        /\ \A b \in DOMAIN attempts \ {a} : attempts'[b] = attempts[b]
    BY <1>3, TurnFacts, Zenon
  <2>2. page = "here" /\ attempts[a].phase # "dropped"
    BY <1>3 DEF Turn, Follows, Flying
  <2> QED
    BY <2>1, <2>2 DEF Dropped
<1> QED
  BY <1>1, <1>2, <1>3, StepShapes DEF Turns

(* Every step keeps the loader started no more often than calls that are  *)
(* under way account for.                                                 *)
LEMMA CoverStep ==
  ASSUME TypeOK, CoverInv, Next
  PROVE  CoverInv'
<1> DEFINE sum == SumOver(LoadersOf(attempts), DOMAIN attempts)
           asked == IF refreshing THEN 1 ELSE 0
           Goal == /\ loader' <= asked' + SumOver(LoadersOf(attempts'), DOMAIN attempts')
                   /\ \A r \in modal' : \E a \in DOMAIN attempts' :
                        attempts'[a].by = r /\ attempts'[a].phase \in Showing
<1> SUFFICES ASSUME page' = "here", ~Dropped'
             PROVE  Goal
  BY DEF CoverInv
<1>0. page = "here" /\ ~Dropped
  BY HereBefore
<1>t. /\ TypeOK' /\ attempts \in Seq(AttemptType) /\ attempts' \in Seq(AttemptType)
      /\ loader \in Nat /\ refreshing \in BOOLEAN
  <2>1. TypeOK'
    BY TypeStep
  <2>2. refreshing \in BOOLEAN
    BY DEF TypeOK
  <2> QED
    BY <2>1, <2>2 DEF TypeOK
<1>c. /\ loader <= asked + sum
      /\ \A r \in modal : \E a \in DOMAIN attempts :
           attempts[a].by = r /\ attempts[a].phase \in Showing
  BY <1>0 DEF CoverInv
<1>s. sum \in Nat /\ asked \in Nat
  BY <1>t, LoadersType
<1>1. ASSUME Looks \/ Stops \/ Asks \/ Arrives
      PROVE  Goal
  <2>1. UNCHANGED <<attempts, modal>>
    BY <1>1, RestFacts
  <2>2. loader' <= asked' + sum
    <3> HIDE DEF sum
    <3>1. CASE Looks
      BY <1>c, <3>1 DEF Looks
    <3>2. CASE Asks
      BY <1>c, <1>s, <1>t, <3>2 DEF Asks
    <3>3. CASE Arrives
      BY <1>c, <1>s, <1>t, <3>3 DEF Arrives, Stopped
    <3>4. CASE Stops
      BY <1>c, <1>s, <1>t, <3>4 DEF Stops, Stopped
    <3> QED
      BY <1>1, <3>1, <3>2, <3>3, <3>4
  <2> QED
    BY <1>c, <2>1, <2>2
<1>2. ASSUME Starts
      PROVE  Goal
  <2>1. PICK r \in Renderers : Begin(r)
    BY <1>2 DEF Starts
  <2>2. PICK new \in Nat :
          /\ new \notin DOMAIN attempts
          /\ DOMAIN attempts' = DOMAIN attempts \cup {new}
          /\ attempts'[new].phase = "placing"
          /\ \A b \in DOMAIN attempts : attempts'[b] = attempts[b]
    BY <2>1, StartFacts, Zenon
  <2> DEFINE f == LoadersOf(attempts)
             g == LoadersOf(attempts')
             S == DOMAIN attempts
  <2>3. /\ IsFiniteSet(S) /\ NatOn(f, S)
        /\ NatOn(g, DOMAIN attempts')
    BY <1>t, LoadersType
  <2>4. \A b \in S : f[b] = g[b]
    BY <2>2 DEF LoadersOf
  <2>5. g[new] = 2
    <3>1. g[new] = Weight(Kind[attempts'[new].by], "placing")
      BY <2>2 DEF LoadersOf
    <3> QED
      BY <3>1, Weights
  <2>6. SumOver(g, DOMAIN attempts') = 2 + sum
    <3> HIDE DEF f, g, S
    <3>1. NatOn(g, S) /\ g[new] \in Nat /\ new \notin S /\ DOMAIN attempts' = S \cup {new}
      BY <2>2, <2>3, <2>5 DEF NatOn, S
    <3>2. SumOver(g, S \cup {new}) = g[new] + SumOver(g, S)
      BY <2>3, <3>1, SumAdd
    <3>3. SumOver(f, S) = SumOver(g, S)
      BY <2>3, <2>4, <3>1, SumEqual
    <3> QED
      BY <2>5, <3>1, <3>2, <3>3 DEF f, S
  <2>7. loader' = loader + 2 /\ modal' = modal /\ asked' = asked
    BY <1>2, <2>1 DEF Starts, Begin
  <2>8. loader' <= asked' + SumOver(LoadersOf(attempts'), DOMAIN attempts')
    <3> HIDE DEF sum, asked
    <3> QED
      BY <1>c, <1>s, <1>t, <2>6, <2>7
  <2> QED
    BY <1>c, <2>2, <2>7, <2>8
<1>3. ASSUME NEW a \in DOMAIN attempts, NEW s \in OutcomeType, NEW q \in Phases,
             Turn(a, s, q)
      PROVE  Goal
  <2>1. /\ DOMAIN attempts' = DOMAIN attempts
        /\ attempts'[a].by = attempts[a].by /\ attempts'[a].phase = q
        /\ \A b \in DOMAIN attempts \ {a} : attempts'[b] = attempts[b]
    BY <1>3, TurnFacts, Zenon
  <2>2. /\ Follows(a, s, q) /\ LoaderTurns(a, q) /\ ModalTurns(a, s, q)
        /\ refreshing' = refreshing /\ q # "landed" /\ q # "placing"
    BY <1>3 DEF Turn, Follows
  <2>3. q # "dropped"
    BY <2>1 DEF Dropped
  <2>4. loader' <= asked' + SumOver(LoadersOf(attempts'), DOMAIN attempts')
    <3> DEFINE f == LoadersOf(attempts)
               g == LoadersOf(attempts')
               S == DOMAIN attempts
               new == SumOver(g, S)
    <3>1. IsFiniteSet(S) /\ NatOn(f, S) /\ NatOn(g, S) /\ new \in Nat
      BY <1>t, <2>1, LoadersType
    <3>2. \A b \in S \ {a} : f[b] = g[b]
      BY <2>1 DEF LoadersOf
    <3>3. /\ f[a] = Weight(Kind[attempts[a].by], attempts[a].phase)
          /\ g[a] = Weight(Kind[attempts[a].by], q)
      BY <2>1 DEF LoadersOf
    <3>4. f[a] \in Nat /\ g[a] \in Nat
      BY <3>1 DEF NatOn
    <3>5. sum + g[a] = new + f[a]
      <4> HIDE DEF f, g, S, sum, new
      <4>1. SumOver(f, S) + g[a] = SumOver(g, S) + f[a]
        <5>1. a \in S
          BY DEF S
        <5> QED
          BY <3>1, <3>2, <5>1, SumChange
      <4> QED
        BY <4>1 DEF sum, new, f, S
    <3>6. \/ loader' = loader + 1 /\ g[a] = f[a] + 1
          \/ \E n \in Nat : loader' = Stopped(n) /\ f[a] <= g[a] + n
      BY <2>2, <2>3, <3>3 DEF LoaderTurns
    <3>7. asked' = asked /\ SumOver(LoadersOf(attempts'), DOMAIN attempts') = new
      BY <2>1, <2>2
    <3>8. loader' <= asked + new
      <4> HIDE DEF f, g, S, sum, new, asked
      <4>1. CASE loader' = loader + 1 /\ g[a] = f[a] + 1
        BY <1>c, <1>s, <1>t, <3>1, <3>4, <3>5, <4>1
      <4>2. ASSUME NEW n \in Nat, loader' = Stopped(n), f[a] <= g[a] + n
            PROVE  loader' <= asked + new
        BY <1>c, <1>s, <1>t, <3>1, <3>4, <3>5, <4>2 DEF Stopped
      <4> QED
        BY <3>6, <4>1, <4>2
    <3> HIDE DEF new, asked
    <3> QED
      BY <3>7, <3>8
  <2>5. \A r \in modal' : \E b \in DOMAIN attempts :
          attempts'[b].by = r /\ attempts'[b].phase \in Showing
    <3> SUFFICES ASSUME NEW r \in modal'
                 PROVE  \E b \in DOMAIN attempts :
                          attempts'[b].by = r /\ attempts'[b].phase \in Showing
      OBVIOUS
    <3>1. r \in modal \/ r = attempts[a].by
      BY <2>2 DEF ModalTurns, Opened, Closed
    <3>2. CASE q \in Showing
      <4>1. CASE r = attempts[a].by
        BY <2>1, <3>2, <4>1
      <4>2. CASE r # attempts[a].by
        <5>1. PICK b \in DOMAIN attempts : attempts[b].by = r /\ attempts[b].phase \in Showing
          BY <1>c, <3>1, <4>2
        <5> QED
          BY <2>1, <4>2, <5>1
      <4> QED
        BY <4>1, <4>2
    <3>3. CASE q \notin Showing
      <4>1. q \in {"asking", "failed"}
        BY <2>2, <2>3, <3>3 DEF Follows, Phases, Showing
      <4>2. r \in modal
        BY <2>2, <4>1 DEF ModalTurns
      <4>3. PICK b \in DOMAIN attempts : attempts[b].by = r /\ attempts[b].phase \in Showing
        BY <1>c, <4>2
      <4>4. b # a
        <5>1. q = "asking" => attempts[a].phase = "placing"
          BY <2>2 DEF Follows
        <5>2. q = "failed" => attempts[a].by # r \/ attempts[a].phase \in {"placing", "asking"}
          BY <2>2 DEF ModalTurns
        <5> QED
          BY <4>1, <4>3, <5>1, <5>2 DEF Showing
      <4> QED
        BY <2>1, <4>3, <4>4
    <3> QED
      BY <3>2, <3>3
  <2> QED
    BY <2>1, <2>4, <2>5
<1> QED
  BY <1>1, <1>2, <1>3, StepShapes DEF Turns

-----------------------------------------------------------------------------
(* The buttons                                                             *)

(* A button that is not allowed waits for an attempt that is under way. *)
ButtonInv ==
  (page = "here" /\ ~Dropped) =>
    \A r \in Renderers : Usable(r) =>
      flag[r] \/ \E a \in DOMAIN attempts : Live(a) /\ SharesFlag(attempts[a].by, r)

(* Every step keeps a button that is switched off explained. *)
LEMMA ButtonStep ==
  ASSUME TypeOK, ButtonInv, Next
  PROVE  ButtonInv'
<1> DEFINE Goal == \A r \in Renderers : Usable(r)' =>
             flag'[r] \/ \E a \in DOMAIN attempts' : Live(a)' /\ SharesFlag(attempts'[a].by, r)
<1> SUFFICES ASSUME page' = "here", ~Dropped'
             PROVE  Goal
  BY DEF ButtonInv
<1>0. /\ flag \in [Renderers -> BOOLEAN]
      /\ \A r \in Renderers : Usable(r) =>
           flag[r] \/ \E a \in DOMAIN attempts : Live(a) /\ SharesFlag(attempts[a].by, r)
  BY HereBefore DEF ButtonInv, TypeOK
<1>1. ASSUME Looks \/ Stops \/ Asks \/ Arrives
      PROVE  Goal
  <2>1. attempts' = attempts
    BY <1>1, RestFacts
  <2>2. \A r \in Renderers : Usable(r)' => flag'[r] \/ (Usable(r) /\ flag'[r] = flag[r])
    BY <1>1 DEF Looks, Stops, ButtonsFollow, Asks, Arrives, Usable
  <2> QED
    BY <1>0, <2>1, <2>2 DEF Live
<1>2. ASSUME Starts
      PROVE  Goal
  <2>1. PICK r \in Renderers : Begin(r) /\ flag' \in {flag, Allowed(r, FALSE)}
    BY <1>2 DEF Starts
  <2>2. PICK new \in Nat :
          /\ DOMAIN attempts' = DOMAIN attempts \cup {new}
          /\ attempts'[new].by = r /\ attempts'[new].phase = "placing"
          /\ \A b \in DOMAIN attempts : attempts'[b] = attempts[b]
    BY <2>1, StartFacts, Zenon
  <2>3. \A x \in Renderers : Usable(x)' => Usable(x)
    BY <1>2 DEF Starts
  <2>4. /\ Live(new)'
        /\ \A b \in DOMAIN attempts : Live(b)' = Live(b)
    BY <2>2 DEF Live, Flying
  <2>5. SUFFICES ASSUME NEW x \in Renderers, Usable(x)'
                 PROVE  flag'[x] \/ \E b \in DOMAIN attempts' :
                                      Live(b)' /\ SharesFlag(attempts'[b].by, x)
    OBVIOUS
  <2>6. CASE SharesFlag(r, x)
    BY <2>2, <2>4, <2>6
  <2>7. CASE ~SharesFlag(r, x)
    <3>1. ~SharesFlag(x, r)
      BY <2>7 DEF SharesFlag
    <3>2. flag'[x] = flag[x]
      BY <2>1, <3>1 DEF Allowed
    <3> QED
      BY <1>0, <2>2, <2>3, <2>4, <2>5, <3>2
  <2> QED
    BY <2>6, <2>7
<1>3. ASSUME NEW a \in DOMAIN attempts, NEW s \in OutcomeType, NEW q \in Phases,
             Turn(a, s, q)
      PROVE  Goal
  <2>1. /\ DOMAIN attempts' = DOMAIN attempts
        /\ attempts'[a].by = attempts[a].by /\ attempts'[a].phase = q
        /\ \A b \in DOMAIN attempts \ {a} : attempts'[b] = attempts[b]
    BY <1>3, TurnFacts, Zenon
  <2>2. Follows(a, s, q) /\ ButtonTurns(a, q) /\ fields' = fields /\ q # "landed"
    BY <1>3 DEF Turn
  <2>3. q # "dropped"
    BY <2>1 DEF Dropped
  <2>4. \A b \in DOMAIN attempts \ {a} : Live(b)' = Live(b)
    BY <2>1 DEF Live
  <2>5. \A x \in Renderers : flag[x] => flag'[x]
    BY <1>0, <2>2 DEF ButtonTurns, Allowed
  <2>6. SUFFICES ASSUME NEW x \in Renderers, Usable(x)'
                 PROVE  flag'[x] \/ \E b \in DOMAIN attempts :
                                      Live(b)' /\ SharesFlag(attempts'[b].by, x)
    BY <2>1
  <2>7. Usable(x)
    BY <2>2, <2>6 DEF Usable
  <2>8. CASE flag[x]
    BY <2>5, <2>8
  <2>9. ASSUME NEW b \in DOMAIN attempts, Live(b), SharesFlag(attempts[b].by, x)
        PROVE  flag'[x] \/ \E c \in DOMAIN attempts :
                             Live(c)' /\ SharesFlag(attempts'[c].by, x)
    <3>1. CASE b # a
      BY <2>1, <2>4, <2>9, <3>1
    <3>2. CASE b = a /\ q = "failed"
      <4>1. SharesFlag(x, attempts[a].by)
        BY <2>9, <3>2 DEF SharesFlag
      <4> QED
        BY <2>2, <3>2, <4>1 DEF ButtonTurns, Allowed
    <3>3. CASE b = a /\ q # "failed"
      <4>1. Live(a)'
        BY <2>1, <2>2, <2>3, <3>3 DEF Live, Flying, Phases, Follows
      <4> QED
        BY <2>1, <2>9, <3>3, <4>1
    <3> QED
      BY <3>1, <3>2, <3>3
  <2> QED
    BY <1>0, <2>7, <2>8, <2>9
<1> QED
  BY <1>1, <1>2, <1>3, StepShapes DEF Turns

-----------------------------------------------------------------------------
(* What holds of the page                                                  *)

Inv == /\ TypeOK /\ PhaseInv
       /\ SingleInv /\ PaidInv /\ OwnInv
       /\ CoverInv /\ ButtonInv

(* The initial states satisfy the invariant. *)
LEMMA InitInv ==
  ASSUME Init
  PROVE  Inv
<1>1. /\ attempts = <<>> /\ DOMAIN attempts = {} /\ loader = 1 /\ modal = {} /\ refreshing
      /\ flag = [r \in Renderers |-> Kind[r] \notin MethodKinds]
      /\ fields = [r \in Renderers |-> "none"]
  BY DEF Init
<1>2. TypeOK
  <2>1. /\ answered = FALSE /\ refreshing = TRUE /\ session \in BOOLEAN /\ cart = TRUE
        /\ listed \in Pages /\ checked \in listed \cup {None}
        /\ building = [r \in Renderers |-> 0] /\ lib = [r \in Renderers |-> FALSE]
        /\ reported = [r \in Renderers |-> FALSE]
        /\ orderId = [r \in Renderers |-> 0] /\ page = "here" /\ landed = 0
        /\ started \subseteq listed /\ sheets = {} /\ crossed = FALSE
    BY DEF Init
  <2>2. listed \subseteq Renderers /\ checked \in Renderers \cup {None}
    <3>1. listed \subseteq Renderers
      BY <2>1, PageAssumption
    <3> QED
      BY <2>1, <3>1
  <2>3. MaxAttempts \in Nat /\ MaxBuilds \in [Renderers -> Nat \ {0}]
    BY PageAssumption
  <2>4. {answered, refreshing, session, cart, crossed} \subseteq BOOLEAN
    BY <2>1
  <2>5. /\ building \in [Renderers -> Nat]
        /\ \A r \in Renderers : building[r] <= MaxBuilds[r]
    BY <2>1, <2>3
  <2>6. /\ lib \in [Renderers -> BOOLEAN] /\ reported \in [Renderers -> BOOLEAN]
        /\ flag \in [Renderers -> BOOLEAN]
        /\ fields \in [Renderers -> {"none", "empty", "filled"}]
    BY <1>1, <2>1
  <2>7. /\ attempts \in Seq(AttemptType) /\ Len(attempts) = 0
        /\ orderId \in [Renderers -> 0..MaxAttempts] /\ landed \in 0..MaxAttempts
    BY <1>1, <2>1, <2>3
  <2> QED
    BY <1>1, <2>1, <2>2, <2>3, <2>4, <2>5, <2>6, <2>7 DEF TypeOK
<1>3. PhaseInv /\ SingleInv /\ PaidInv /\ OwnInv
  BY <1>1 DEF PhaseInv, SingleInv, PaidInv, OwnInv
<1>4. CoverInv
  <2>1. SumOver(LoadersOf(attempts), DOMAIN attempts) \in Nat
    BY <1>2, LoadersType DEF TypeOK
  <2> QED
    BY <1>1, <2>1 DEF CoverInv
<1>5. ButtonInv
  <2>1. \A r \in Renderers : Usable(r) => flag[r]
    BY <1>1 DEF Usable
  <2> QED
    BY <2>1 DEF ButtonInv
<1> QED
  BY <1>2, <1>3, <1>4, <1>5 DEF Inv

(* Every step keeps the invariant. *)
LEMMA NextInv ==
  ASSUME Inv, [Next]_vars
  PROVE  Inv'
<1>1. CASE Next
  BY <1>1, TypeStep, PhaseStep, SingleStep, PaidStep, OwnStep, CoverStep, ButtonStep DEF Inv
<1>2. CASE UNCHANGED vars
  <2>1. UNCHANGED <<listed, started, sheets, checked, answered, refreshing, session,
                    building, lib, fields, reported, loader, modal, flag, attempts,
                    orderId, cart, page, landed, crossed>>
    BY <1>2 DEF vars, forms, late
  <2>2. TypeOK'
    BY <2>1 DEF Inv, TypeOK
  <2>3. PhaseInv' /\ SingleInv' /\ PaidInv' /\ OwnInv'
    BY <2>1 DEF Inv, PhaseInv, PhaseOf, SingleInv, CoveredBy, PaidInv, Settled, OwnInv,
       Remembered, Tight, Open, Live
  <2>4. CoverInv' /\ ButtonInv'
    BY <2>1 DEF Inv, CoverInv, ButtonInv, Dropped, Usable, Live
  <2> QED
    BY <2>2, <2>3, <2>4 DEF Inv
<1> QED
  BY <1>1, <1>2

(* What covers the page, the attempts and the buttons agree in every state. *)
THEOREM InvHolds == Spec => []Inv
  BY InitInv, NextInv, PTL DEF Spec

(* Whatever the scripts do, a step of the page only looks, stops loaders,   *)
(* asks for the methods, takes them in, starts an attempt or brings one a  *)
(* phase further.                                                          *)
THEOREM StepsHaveShapes == Spec => [][Shapes]_vars
<1>1. Inv /\ [Next]_vars => [Shapes]_vars
  BY StepShapes DEF Inv, Shapes
<1> QED
  BY <1>1, InvHolds, PTL DEF Spec

(* What leaves the page uncovered is what the properties name. *)
LEMMA LooseOrTight ==
  Tight \/ crossed \/ \E c \in DOMAIN attempts : Loose(c)
  BY DEF Tight, Open, Loose

(* What the renderers keep, the loader's count and the attempts are what     *)
(* StorefrontPage says they are, whatever the renderers and the faults.     *)
THEOREM TypeCorrect == Spec => []TypeOK
<1>1. Inv => TypeOK
  BY DEF Inv
<1> QED
  BY <1>1, InvHolds, PTL

(* However many renderers a checkout lists, no second attempt is made while *)
(* one is under way, as long as none leaves the page uncovered and no      *)
(* callback of a wallet's window or of a late script comes in between.     *)
THEOREM OneAtATime == Spec => []SingleAttempt
<1>1. Inv => SingleAttempt
  <2> SUFFICES ASSUME Inv, NEW a \in DOMAIN attempts, NEW b \in DOMAIN attempts,
                      a < b, Live(a), Live(b)
               PROVE  crossed \/ \E c \in DOMAIN attempts : Loose(c)
    BY DEF SingleAttempt
  <2>1. a # b
    <3>1. a \in Nat /\ b \in Nat
      BY DEF Inv, TypeOK
    <3> QED
      BY <3>1
  <2>2. ~Tight
    BY <2>1 DEF Inv, SingleInv
  <2> QED
    BY <2>2, LooseOrTight
<1> QED
  BY <1>1, InvHolds, PTL

(* The shopper pays once, however many attempts fail, are refused or lose   *)
(* their answers, under the same conditions.                               *)
THEOREM PaysOnce == Spec => []PaidOnce
<1>1. Inv => PaidOnce
  <2> SUFFICES ASSUME Inv, NEW a \in DOMAIN attempts, NEW b \in DOMAIN attempts,
                      a < b, attempts[a].order = "paid", attempts[b].order = "paid"
               PROVE  crossed \/ \E c \in DOMAIN attempts : Loose(c)
    BY DEF PaidOnce
  <2>1. a # b
    <3>1. a \in Nat /\ b \in Nat
      BY DEF Inv, TypeOK
    <3> QED
      BY <3>1
  <2>2. ~Tight
    BY <2>1 DEF Inv, PaidInv, Settled
  <2> QED
    BY <2>2, LooseOrTight
<1> QED
  BY <1>1, InvHolds, PTL

(* The details of an action go to the order that asked for it, under the    *)
(* same conditions.                                                        *)
THEOREM OwnDetails == Spec => []DetailsOfOwnOrder
<1>1. Inv => DetailsOfOwnOrder
  <2> SUFFICES ASSUME Inv, NEW a \in DOMAIN attempts, attempts[a].phase = "sending"
               PROVE  \/ orderId[attempts[a].by] = a \/ crossed
                      \/ \E c \in DOMAIN attempts : Loose(c)
    BY DEF DetailsOfOwnOrder
  <2>1. CASE Tight
    <3>1. PhaseOf(a) /\ ~Open(a) /\ (Remembered(a) => orderId[attempts[a].by] = a)
      BY <2>1 DEF Inv, PhaseInv, Tight, OwnInv
    <3>2. Kind[attempts[a].by] \in Kinds
      <4>1. cart \in BOOLEAN
        BY DEF Inv, TypeOK
      <4>2. attempts[a].by \in Renderers
        BY <4>1, AttemptParts DEF Inv, TypeOK, AttemptsTyped
      <4> QED
        BY <4>2, PageAssumption
    <3>3. Remembered(a)
      BY <3>1, <3>2 DEF PhaseOf, Open, Remembered, Kinds, CardKinds, MethodKinds
    <3> QED
      BY <3>1, <3>3
  <2> QED
    BY <2>1, LooseOrTight
<1> QED
  BY <1>1, InvHolds, PTL

(* A page on which nothing is under way and no handler was left half-way is *)
(* not covered: every loader and every dialog has been taken away.         *)
THEOREM CoverIsExplained == Spec => []CoverExplained
<1>1. Inv => CoverExplained
  <2> SUFFICES ASSUME Inv, page = "here", Covered, ~refreshing, ~Dropped,
                      \A a \in DOMAIN attempts : ~Live(a)
               PROVE  FALSE
    BY DEF CoverExplained
  <2>1. modal = {}
    BY DEF Inv, CoverInv, Live, Flying, Showing
  <2>2. \A a \in DOMAIN attempts : LoadersOf(attempts)[a] = 0
    <3> SUFFICES ASSUME NEW a \in DOMAIN attempts
                 PROVE  Weight(Kind[attempts[a].by], attempts[a].phase) = 0
      BY DEF LoadersOf
    <3>1. attempts[a].phase \notin {"placing", "asking", "declining", "sending"}
      BY DEF Live, Flying
    <3> QED
      BY <3>1, Zenon DEF Weight
  <2>3. SumOver(LoadersOf(attempts), DOMAIN attempts) = 0
    <3>1. /\ IsFiniteSet(DOMAIN attempts)
          /\ NatOn(LoadersOf(attempts), DOMAIN attempts)
      BY LoadersType DEF Inv, TypeOK
    <3> DEFINE g == LoadersOf(attempts)
               S == DOMAIN attempts
               none == {}
    <3> HIDE DEF g, S
    <3>2. none \in SUBSET S /\ \A x \in S \ none : g[x] = 0
      BY <2>2 DEF g, S
    <3> HIDE DEF none
    <3>3. IsFiniteSet(S) /\ NatOn(g, S)
      BY <3>1 DEF g, S
    <3>4. SumOver(g, S) = SumOver(g, none)
      BY <3>2, <3>3, SumZeros
    <3>5. SumOver(g, none) = 0
      BY SumEmpty DEF none
    <3> QED
      BY <3>4, <3>5 DEF g, S
  <2>4. loader = 0
    BY <2>3 DEF Inv, CoverInv, TypeOK
  <2> QED
    BY <2>1, <2>4 DEF Covered
<1> QED
  BY <1>1, InvHolds, PTL

(* When nothing is under way and no handler was left half-way the buttons   *)
(* are allowed again, whichever of them share a flag.                      *)
THEOREM ButtonsReturn == Spec => []ButtonRestored
<1>1. Inv => ButtonRestored
  BY DEF Inv, ButtonInv, ButtonRestored, Usable
<1> QED
  BY <1>1, InvHolds, PTL
=============================================================================
