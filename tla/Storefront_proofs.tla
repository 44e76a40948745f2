--------------------------- MODULE Storefront_proofs ---------------------------
(***************************************************************************)
(* For any renderers, any bounds and any faults: the success page is       *)
(* reached only for an order whose payment was accepted.  The argument     *)
(* needs the type of the attempts, because an attempt is changed in place. *)
(***************************************************************************)
EXTENDS Storefront, SequenceTheorems, TLAPS

OutcomeType ==
  [ok : BOOLEAN, order : Orders, act : Actions, left : 0..MaxChallenges,
   cart : BOOLEAN]

(* The attempts, and the cart the answers are about *)
AttemptsTyped == attempts \in Seq(AttemptType) /\ cart \in BOOLEAN

IInv == AttemptsTyped /\ SuccessEarned

-----------------------------------------------------------------------------
(* What the server may answer. *)

(* An attempt is a record. *)
LEMMA AttemptParts ==
  ASSUME AttemptsTyped, NEW a \in DOMAIN attempts
  PROVE  /\ attempts[a] \in AttemptType
         /\ attempts[a].by \in Renderers /\ attempts[a].phase \in Phases
         /\ attempts[a].act \in Actions /\ attempts[a].order \in Orders
         /\ attempts[a].left \in 0..MaxChallenges
<1>1. attempts[a] \in AttemptType
  BY DEF AttemptsTyped
<1> QED
  BY <1>1 DEF AttemptType

(* The bounds and the sets the answers are taken from *)
LEMMA Bounds ==
  /\ MaxChallenges \in Nat /\ MaxChallenges \in 0..MaxChallenges
  /\ FinalOrders \subseteq Orders /\ Oks \subseteq BOOLEAN
  /\ \A a : ActionsOf(a) \subseteq Actions
<1>1. MaxChallenges \in Nat
  BY PageAssumption
<1>2. MaxChallenges \in 0..MaxChallenges
  BY <1>1
<1>3. FinalOrders \subseteq Orders
  BY DEF FinalOrders, Orders
<1>4. Oks \subseteq BOOLEAN
  BY Zenon DEF Oks
<1>5. \A a : ActionsOf(a) \subseteq Actions
  BY Zenon DEF ActionsOf, Actions
<1> QED
  BY <1>1, <1>2, <1>3, <1>4, <1>5

(* An answer that may be lost is an outcome of the order it says. *)
LEMMA AnswersType ==
  \A order \in Orders, act \in Actions, left \in 0..MaxChallenges,
     active \in BOOLEAN :
    \A s \in Answers(order, act, left, active) : s \in OutcomeType /\ s.order = order
<1> SUFFICES ASSUME NEW order \in Orders, NEW act \in Actions,
                    NEW left \in 0..MaxChallenges, NEW active \in BOOLEAN,
                    NEW s \in Answers(order, act, left, active)
             PROVE  s \in OutcomeType /\ s.order = order
  OBVIOUS
<1>1. PICK ok \in Oks : s = Outcome(ok, order, act, left, active)
  BY Zenon DEF Answers
<1>2. ok \in BOOLEAN
  BY Bounds
<1> QED
  BY <1>1, <1>2 DEF Outcome, OutcomeType

(* An order with another action is open. *)
LEMMA OpeningType ==
  ASSUME NEW a, NEW left \in 0..MaxChallenges, NEW active \in BOOLEAN,
         NEW s \in Opening(a, left, active)
  PROVE  s \in OutcomeType /\ s.order = "open"
<1>1. PICK act \in ActionsOf(a) : s \in Answers("open", act, left, active)
  BY Zenon DEF Opening
<1>2. act \in Actions /\ "open" \in Orders
  BY Bounds DEF Orders
<1> QED
  BY <1>1, <1>2, AnswersType

(* One without is final. *)
LEMMA PlacedFinalType ==
  ASSUME NEW s \in PlacedFinal
  PROVE  s \in OutcomeType /\ s.order \in FinalOrders
<1>1. PICK order \in FinalOrders : s \in Answers(order, "none", MaxChallenges, FALSE)
  BY Zenon DEF PlacedFinal
<1>2. PICK ok \in Oks : s = Outcome(ok, order, "none", MaxChallenges, FALSE)
  BY <1>1, Zenon DEF Answers
<1> QED
  BY <1>2, Bounds DEF Outcome, OutcomeType, Actions

(* Placing an order: it is refused, final or open. *)
LEMMA PlaceOutcomesType ==
  ASSUME AttemptsTyped, NEW a, NEW s \in PlaceOutcomes(a)
  PROVE  s \in OutcomeType /\ (s.ok => s.order # "none")
<1>1. \/ s = Failure("none", "none", MaxChallenges, cart)
      \/ s \in PlacedFinal
      \/ s \in Opening(a, MaxChallenges, cart)
  BY DEF PlaceOutcomes
<1>2. CASE s = Failure("none", "none", MaxChallenges, cart)
  BY <1>2, Bounds DEF Failure, Outcome, OutcomeType, AttemptsTyped, Orders, Actions
<1>3. CASE s \in PlacedFinal
  BY <1>3, PlacedFinalType DEF FinalOrders
<1>4. CASE s \in Opening(a, MaxChallenges, cart)
  BY <1>4, Bounds, OpeningType DEF AttemptsTyped
<1> QED
  BY <1>1, <1>2, <1>3, <1>4

(* At a terminal an order that is not paid later is paid when it is placed. *)
LEMMA PosPlaceOutcomesPaid ==
  ASSUME AttemptsTyped, NEW a, NEW s \in PosPlaceOutcomes(a)
  PROVE  /\ s \in OutcomeType
         /\ s.ok /\ ~PosOrder => s.order \in FinalOrders
<1>1. s \in PlaceOutcomes(a) /\ (s.order = "none" \/ PosOrder \/ s.order = "paid")
  BY DEF PosPlaceOutcomes
<1> QED
  BY <1>1, PlaceOutcomesType DEF FinalOrders

(* The details call: what is no error was accepted or needs another action. *)
LEMMA DetailsOutcomesType ==
  ASSUME AttemptsTyped, NEW a \in DOMAIN attempts, NEW s \in DetailsOutcomes(a)
  PROVE  /\ s \in OutcomeType
         /\ s.ok => s.order \in FinalOrders \cup {"open"}
<1> USE Bounds
<1> DEFINE left == attempts[a].left
           last == attempts[a].act
<1>1. left \in 0..MaxChallenges /\ last \in Actions /\ cart \in BOOLEAN
  BY AttemptParts DEF AttemptsTyped
<1>2. {"paid", "received", "open"} \subseteq Orders
      /\ {"paid", "received"} \subseteq FinalOrders
  BY DEF Orders, FinalOrders
<1>3. \/ s = Failure("refused", last, left, TRUE)
      \/ s \in Answers("paid", last, left, FALSE)
      \/ s \in Answers("received", last, left, cart)
      \/ left # 0 /\ s \in Opening(a, left - 1, cart)
  BY Zenon DEF DetailsOutcomes
<1>4. CASE s = Failure("refused", last, left, TRUE)
  BY <1>1, <1>4 DEF Failure, Outcome, OutcomeType, Orders
<1>5. CASE s \in Answers("paid", last, left, FALSE)
  <2>1. PICK ok \in Oks : s = Outcome(ok, "paid", last, left, FALSE)
    BY <1>5, Zenon DEF Answers
  <2> QED
    BY <1>1, <1>2, <2>1 DEF Outcome, OutcomeType
<1>6. CASE s \in Answers("received", last, left, cart)
  BY <1>1, <1>2, <1>6, AnswersType
<1>7. CASE left # 0 /\ s \in Opening(a, left - 1, cart)
  <2>1. left - 1 \in 0..MaxChallenges
    BY <1>1, <1>7
  <2> QED
    BY <1>1, <1>7, <2>1, OpeningType
<1> QED
  BY <1>3, <1>4, <1>5, <1>6, <1>7

(* The terminal's payment was made, or has failed. *)
LEMMA PosOutcomesType ==
  ASSUME AttemptsTyped, NEW a \in DOMAIN attempts, NEW s \in PosOutcomes(a)
  PROVE  /\ s \in OutcomeType
         /\ s.ok => s.order \in FinalOrders
<1>1. attempts[a].left \in 0..MaxChallenges /\ cart \in BOOLEAN
  BY AttemptParts DEF AttemptsTyped
<1>2. CASE s = Failure("refused", "none", attempts[a].left, cart)
  BY <1>1, <1>2 DEF Failure, Outcome, OutcomeType, Orders, Actions
<1>3. CASE s \in Answers("paid", "none", attempts[a].left, FALSE)
  <2>1. PICK ok \in Oks : s = Outcome(ok, "paid", "none", attempts[a].left, FALSE)
    BY <1>3, Zenon DEF Answers
  <2> QED
    BY <1>1, <2>1, Bounds DEF Outcome, OutcomeType, Orders, FinalOrders, Actions
<1> QED
  BY <1>2, <1>3 DEF PosOutcomes

(* A call that changes nothing answers with what is there. *)
LEMMA SameType ==
  ASSUME AttemptsTyped, NEW a \in DOMAIN attempts
  PROVE  Same(a) \in OutcomeType /\ Same(a).order = attempts[a].order
BY AttemptParts DEF Outcome, OutcomeType, Same, AttemptsTyped

-----------------------------------------------------------------------------
(* The four ways a step concerns the attempts. *)

(* It leaves them, and does not lead to the success page. *)
LEMMA Rests ==
  ASSUME IInv, UNCHANGED <<attempts, cart>>, page' # "success"
  PROVE  IInv'
BY DEF IInv, AttemptsTyped, SuccessEarned

(* It begins one. *)
LEMMA Begins ==
  ASSUME IInv, page = "here", NEW r \in Renderers, Begin(r), UNCHANGED <<cart, page>>
  PROVE  IInv'
<1> DEFINE new == [by |-> r, phase |-> "placing", act |-> "none",
                   order |-> "none", left |-> MaxChallenges]
<1>1. new \in AttemptType
  BY Bounds DEF AttemptType, Phases, Actions, Orders
<1>2. attempts' = Append(attempts, new)
  BY DEF Begin
<1>3. attempts' \in Seq(AttemptType)
  BY <1>1, <1>2, AppendProperties DEF IInv, AttemptsTyped
<1> QED
  BY <1>3 DEF IInv, AttemptsTyped, SuccessEarned

(* It changes one. *)
LEMMA GoesType ==
  ASSUME AttemptsTyped, NEW a \in DOMAIN attempts, NEW s \in OutcomeType,
         NEW phase \in Phases, Goes(a, s, phase)
  PROVE  /\ AttemptsTyped'
         /\ DOMAIN attempts' = DOMAIN attempts
         /\ attempts'[a].order = s.order /\ attempts'[a].by = attempts[a].by
<1> DEFINE new == [attempts[a] EXCEPT !.phase = phase, !.act = s.act,
                                      !.order = s.order, !.left = s.left]
<1>1. attempts' = [attempts EXCEPT ![a] = new] /\ cart' = s.cart
  BY DEF Goes
<1>2. attempts[a] \in AttemptType
  BY AttemptParts
<1>3. s.act \in Actions /\ s.order \in Orders /\ s.left \in 0..MaxChallenges
      /\ s.cart \in BOOLEAN
  BY DEF OutcomeType
<1>4. new \in AttemptType /\ new.order = s.order /\ new.by = attempts[a].by
  BY <1>2, <1>3 DEF AttemptType
<1> HIDE DEF new
<1>5. attempts' \in Seq(AttemptType)
  BY <1>1, <1>4, ExceptSeq DEF AttemptsTyped
<1>6. DOMAIN attempts' = DOMAIN attempts /\ attempts'[a] = new
  BY <1>1
<1> QED
  BY <1>1, <1>3, <1>4, <1>5, <1>6 DEF AttemptsTyped

(* An attempt that goes to another phase, on a page that has not become   *)
(* the success page, keeps the invariant.                                 *)
LEMMA Moves ==
  ASSUME IInv, NEW a \in DOMAIN attempts, NEW s \in OutcomeType,
         NEW phase \in Phases, Goes(a, s, phase), page' # "success"
  PROVE  IInv'
BY GoesType DEF IInv, SuccessEarned

(* It leads to the success page, for an order that has earned it. *)
LEMMA Lands_IInv ==
  ASSUME IInv, NEW a \in DOMAIN attempts, NEW s \in OutcomeType, Lands(a, s),
         \/ s.order \in FinalOrders
         \/ s.order = "open" /\ Kind[attempts[a].by] \in MethodKinds
  PROVE  IInv'
<1>1. Goes(a, s, "landed") /\ landed' = a
  BY DEF Lands
<1>2. /\ AttemptsTyped' /\ DOMAIN attempts' = DOMAIN attempts
      /\ attempts'[a].order = s.order /\ attempts'[a].by = attempts[a].by
  BY <1>1, GoesType DEF IInv, Phases
<1> QED
  BY <1>1, <1>2 DEF IInv, SuccessEarned

(* The two shapes most actions have: nothing is attempted, or the server or *)
(* the component says something about an attempt that does not end well.   *)
LEMMA StaysHere ==
  ASSUME IInv, UNCHANGED <<attempts, cart, page>>, page = "here"
  PROVE  IInv'
BY Rests

(* The same, of an attempt that is asked for on the page the shopper is   *)
(* on.                                                                    *)
LEMMA MovesHere ==
  ASSUME IInv, NEW kinds, NEW before, NEW a, Asking(a, kinds, before),
         NEW s \in OutcomeType, NEW phase \in Phases, Goes(a, s, phase),
         UNCHANGED page
  PROVE  IInv'
BY Moves DEF Asking

(* An attempt that is asked about is one. *)
LEMMA AskingFacts ==
  ASSUME IInv, NEW kinds, NEW before, NEW a, Asking(a, kinds, before)
  PROVE  /\ page = "here" /\ a \in DOMAIN attempts /\ AttemptsTyped
         /\ Kind[attempts[a].by] \in kinds
         /\ attempts[a].by \in Renderers
BY AttemptParts DEF Asking, IInv

-----------------------------------------------------------------------------
(* New cards. *)

(* What a new card does with an action keeps it. *)
LEMMA CardActionKeeps ==
  ASSUME IInv, page = "here", NEW a \in DOMAIN attempts, NEW s \in OutcomeType,
         NEW n, CardAction(a, s, n)
  PROVE  IInv'
<1>1. PICK phase \in Phases : Goes(a, s, phase)
  BY DEF CardAction, Phases
<1>2. page' # "success"
  BY DEF CardAction
<1> QED
  BY <1>1, <1>2, Moves

(* What it does with a result keeps it. *)
LEMMA CardResultKeeps ==
  ASSUME IInv, page = "here", NEW a \in DOMAIN attempts, NEW s \in OutcomeType,
         NEW n, CardResult(a, s, n)
  PROVE  IInv'
BY CardActionKeeps, Lands_IInv DEF CardResult

(* What the shopper does with the form of a new card keeps it. *)
LEMMA CardShopperKeeps ==
  ASSUME IInv, NEW r \in Renderers,
         CardSelect(r) \/ CardBuilt(r) \/ CardEdit(r) \/ CardPlace(r)
  PROVE  IInv'
<1>1. CASE CardSelect(r)
  BY <1>1, StaysHere DEF CardSelect, Clickable
<1>2. CASE CardBuilt(r)
  BY <1>2, StaysHere DEF CardBuilt
<1>3. CASE CardEdit(r)
  BY <1>3, StaysHere DEF CardEdit, Clickable
<1>4. CASE CardPlace(r)
  BY <1>4, Begins DEF CardPlace, Clickable
<1> QED
  BY <1>1, <1>2, <1>3, <1>4

(* The answers to a new card keep it. *)
LEMMA CardAnswerKeeps ==
  ASSUME IInv, NEW a,
         \/ CardPlaceFails(a) \/ CardPlaceDone(a) \/ CardStatus(a)
         \/ CardStatusFails(a) \/ CardReport(a) \/ CardDetailsDone(a)
         \/ CardDetailsFails(a)
  PROVE  IInv'
<1> USE DEF Phases
<1>1. CASE CardPlaceFails(a)
  BY <1>1, AskingFacts, PlaceOutcomesType, Moves DEF CardPlaceFails
<1>2. CASE CardPlaceDone(a)
  BY <1>2, AskingFacts, PlaceOutcomesType, Moves DEF CardPlaceDone
<1>3. CASE CardStatus(a)
  BY <1>3, AskingFacts, SameType, CardResultKeeps DEF CardStatus
<1>4. CASE CardStatusFails(a)
  BY <1>4, AskingFacts, SameType, Moves DEF CardStatusFails
<1>5. CASE CardReport(a)
  BY <1>5, AskingFacts, SameType, Moves DEF CardReport
<1>6. CASE CardDetailsDone(a)
  BY <1>6, AskingFacts, DetailsOutcomesType, CardResultKeeps DEF CardDetailsDone
<1>7. CASE CardDetailsFails(a)
  BY <1>7, AskingFacts, DetailsOutcomesType, Moves DEF CardDetailsFails
<1> QED
  BY <1>1, <1>2, <1>3, <1>4, <1>5, <1>6, <1>7

-----------------------------------------------------------------------------
(* Stored cards. *)

(* What a stored card does with an action keeps it. *)
LEMMA VaultActionKeeps ==
  ASSUME IInv, page = "here", NEW a \in DOMAIN attempts, NEW s \in OutcomeType,
         NEW n, VaultAction(a, s, n)
  PROVE  IInv'
<1>1. PICK phase \in Phases : Goes(a, s, phase)
  BY DEF VaultAction, Phases
<1>2. page' # "success"
  BY DEF VaultAction
<1> QED
  BY <1>1, <1>2, Moves

(* What it does with a result keeps it. *)
LEMMA VaultResultKeeps ==
  ASSUME IInv, page = "here", NEW a \in DOMAIN attempts, NEW s \in OutcomeType,
         NEW n, VaultResult(a, s, n)
  PROVE  IInv'
BY VaultActionKeeps, Lands_IInv DEF VaultResult

(* What the shopper does with a stored card keeps it. *)
LEMMA VaultShopperKeeps ==
  ASSUME IInv, NEW r \in Renderers,
         VaultSelect(r) \/ VaultBuilt(r) \/ VaultEdit(r) \/ VaultPlace(r)
  PROVE  IInv'
<1>1. CASE VaultSelect(r)
  BY <1>1, StaysHere DEF VaultSelect, Clickable
<1>2. CASE VaultBuilt(r)
  BY <1>2, StaysHere DEF VaultBuilt
<1>3. CASE VaultEdit(r)
  BY <1>3, StaysHere DEF VaultEdit, Clickable
<1>4. CASE VaultPlace(r)
  BY <1>4, Begins DEF VaultPlace, Clickable
<1> QED
  BY <1>1, <1>2, <1>3, <1>4

(* The answers to a stored card keep it. *)
LEMMA VaultAnswerKeeps ==
  ASSUME IInv, NEW a,
         \/ VaultPlaceFails(a) \/ VaultPlaceDone(a) \/ VaultStatus(a)
         \/ VaultStatusFails(a) \/ VaultReport(a) \/ VaultDetailsDone(a)
         \/ VaultDetailsFails(a)
  PROVE  IInv'
<1> USE DEF Phases
<1>1. CASE VaultPlaceFails(a)
  BY <1>1, AskingFacts, PlaceOutcomesType, Moves DEF VaultPlaceFails
<1>2. CASE VaultPlaceDone(a)
  BY <1>2, AskingFacts, PlaceOutcomesType, Moves DEF VaultPlaceDone
<1>3. CASE VaultStatus(a)
  BY <1>3, AskingFacts, SameType, VaultResultKeeps DEF VaultStatus
<1>4. CASE VaultStatusFails(a)
  BY <1>4, AskingFacts, SameType, Moves DEF VaultStatusFails
<1>5. CASE VaultReport(a)
  BY <1>5, AskingFacts, SameType, Moves DEF VaultReport
<1>6. CASE VaultDetailsDone(a)
  BY <1>6, AskingFacts, DetailsOutcomesType, VaultResultKeeps DEF VaultDetailsDone
<1>7. CASE VaultDetailsFails(a)
  BY <1>7, AskingFacts, DetailsOutcomesType, Moves DEF VaultDetailsFails
<1> QED
  BY <1>1, <1>2, <1>3, <1>4, <1>5, <1>6, <1>7

-----------------------------------------------------------------------------
(* The other methods. *)

(* The failure handler of the other methods keeps it. *)
LEMMA HandleFailureKeeps ==
  ASSUME IInv, page' # "success", NEW a \in DOMAIN attempts,
         NEW s \in OutcomeType, NEW n, NEW open, HandleFailure(a, s, n, open)
  PROVE  IInv'
<1>1. PICK phase \in Phases : Goes(a, s, phase)
  BY DEF HandleFailure, MethodFailure, PaypalFailure, AmazonFailure, Phases
<1> QED
  BY <1>1, Moves

(* An action they show, on the page or in a popup, keeps it. *)
LEMMA RenderKeeps ==
  ASSUME IInv, page' # "success", NEW a \in DOMAIN attempts,
         NEW s \in OutcomeType, RenderAction(a, s) \/ RenderPopup(a, s)
  PROVE  IInv'
<1>1. \/ Goes(a, s, "acting")
      \/ \E open : HandleFailure(a, s, 1, open)
  BY DEF RenderAction, RenderPopup
<1> QED
  BY <1>1, Moves, HandleFailureKeeps DEF Phases

(* What the shopper does with one of them keeps it. *)
LEMMA MethodShopperKeeps ==
  ASSUME IInv, NEW r \in Renderers,
         \/ MethodSelect(r) \/ MethodBuilt(r) \/ AmazonBuilt(r) \/ AmazonPay(r)
         \/ MethodEdit(r) \/ MethodPlace(r) \/ OpenSheet(r) \/ MethodSubmit(r)
         \/ MethodErrorIdle(r)
  PROVE  IInv'
<1>1. CASE MethodSelect(r)
  BY <1>1, StaysHere DEF MethodSelect, Clickable
<1>2. CASE MethodBuilt(r)
  BY <1>2, StaysHere DEF MethodBuilt, Built
<1>3. CASE AmazonBuilt(r)
  BY <1>3, StaysHere, Begins DEF AmazonBuilt, Built, PlaceRedirectOrder
<1>4. CASE AmazonPay(r)
  BY <1>4, Rests DEF AmazonPay
<1>5. CASE MethodEdit(r)
  BY <1>5, StaysHere DEF MethodEdit, Clickable
<1>6. CASE MethodPlace(r)
  BY <1>6, Begins DEF MethodPlace, Clickable, PlaceRedirectOrder
<1>7. CASE MethodSubmit(r)
  BY <1>7, Begins DEF MethodSubmit, PlaceRedirectOrder
<1>8. CASE MethodErrorIdle(r)
  BY <1>8, StaysHere DEF MethodErrorIdle
<1>9. CASE OpenSheet(r)
  BY <1>9, StaysHere DEF OpenSheet, Clickable
<1> QED
  BY <1>1, <1>2, <1>3, <1>4, <1>5, <1>6, <1>7, <1>8, <1>9

(* What they do with the status of the payment keeps it. *)
LEMMA MethodStatusKeeps ==
  ASSUME IInv, NEW a, MethodStatus(a)
  PROVE  IInv'
<1>1. Asking(a, MethodKinds, "asking")
  BY DEF MethodStatus
<1>2. /\ page = "here" /\ a \in DOMAIN attempts
      /\ Same(a) \in OutcomeType /\ Same(a).order = attempts[a].order
  BY <1>1, AskingFacts, SameType
<1>3. CASE attempts[a].order \in FinalOrders /\ Lands(a, Same(a))
  BY <1>2, <1>3, Lands_IInv
<1>4. CASE (RenderAction(a, Same(a)) \/ RenderPopup(a, Same(a))) /\ UNCHANGED page
  BY <1>2, <1>4, RenderKeeps
<1> QED
  BY <1>3, <1>4 DEF MethodStatus

(* The other answers to them keep it. *)
LEMMA MethodAnswerKeeps ==
  ASSUME IInv, NEW a,
         \/ MethodPlaceFails(a) \/ MethodPlaceDone(a) \/ MethodStatusFails(a)
         \/ MethodReport(a) \/ MethodDetailsDone(a) \/ MethodDetailsFails(a)
  PROVE  IInv'
<1> USE DEF Phases
<1>1. CASE MethodPlaceFails(a)
  BY <1>1, AskingFacts, PlaceOutcomesType, HandleFailureKeeps DEF MethodPlaceFails
<1>2. CASE MethodPlaceDone(a)
  BY <1>2, AskingFacts, PlaceOutcomesType, Moves DEF MethodPlaceDone
<1>3. CASE MethodStatusFails(a)
  BY <1>3, AskingFacts, SameType, HandleFailureKeeps DEF MethodStatusFails
<1>4. CASE MethodReport(a)
  BY <1>4, AskingFacts, SameType, Moves DEF MethodReport
<1>5. CASE MethodDetailsDone(a)
  BY <1>5, AskingFacts, DetailsOutcomesType, Lands_IInv DEF MethodDetailsDone
<1>6. CASE MethodDetailsFails(a)
  BY <1>6, AskingFacts, DetailsOutcomesType, Moves DEF MethodDetailsFails
<1> QED
  BY <1>1, <1>2, <1>3, <1>4, <1>5, <1>6

(* Errors of a component, remounts and redirects keep it. *)
LEMMA MethodErrorsKeep ==
  ASSUME IInv, NEW a,
         \/ MethodError(a) \/ PaypalError(a) \/ AmazonRemount(a)
         \/ AmazonDecline(a) \/ Redirect(a)
  PROVE  IInv'
<1> USE DEF Phases
<1>1. CASE MethodError(a)
  <2>1. PICK phase \in Phases : Goes(a, Same(a), phase)
    BY <1>1 DEF MethodError, MethodFailure
  <2> QED
    BY <1>1, <2>1, AskingFacts, SameType, Moves DEF MethodError
<1>2. CASE PaypalError(a)
  BY <1>2, AskingFacts, SameType, Moves DEF PaypalError
<1>3. CASE AmazonRemount(a)
  BY <1>3, AskingFacts, SameType, Moves DEF AmazonRemount
<1>4. CASE AmazonDecline(a)
  BY <1>4, Rests DEF AmazonDecline
<1>5. CASE Redirect(a)
  BY <1>5, Rests DEF Redirect
<1> QED
  BY <1>1, <1>2, <1>3, <1>4, <1>5

-----------------------------------------------------------------------------
(* Payments at a terminal. *)

(* The failure handler of the terminals keeps it. *)
LEMMA PosFailsKeeps ==
  ASSUME IInv, page' # "success", NEW a \in DOMAIN attempts,
         NEW s \in OutcomeType, NEW n, PosFails(a, s, n)
  PROVE  IInv'
<1>1. PICK phase \in Phases : Goes(a, s, phase)
  BY DEF PosFails, Phases
<1> QED
  BY <1>1, Moves

(* What the shopper does with a terminal keeps it. *)
LEMMA PosShopperKeeps ==
  ASSUME IInv, NEW r \in Renderers, PosSelect(r) \/ PosPlace(r)
  PROVE  IInv'
<1>1. CASE PosSelect(r)
  BY <1>1, StaysHere DEF PosSelect, Clickable
<1>2. CASE PosPlace(r)
  BY <1>2, Begins DEF PosPlace, Clickable
<1> QED
  BY <1>1, <1>2

(* An order placed for a terminal keeps it. *)
LEMMA PosPlaceDoneKeeps ==
  ASSUME IInv, NEW a, PosPlaceDone(a)
  PROVE  IInv'
<1>1. /\ page = "here" /\ a \in DOMAIN attempts /\ AttemptsTyped
  BY AskingFacts DEF PosPlaceDone
<1>2. PICK s \in PosPlaceOutcomes(a) :
        /\ s.ok
        /\ IF PosOrder THEN Goes(a, s, "asking") /\ UNCHANGED <<page, landed>>
                       ELSE Lands(a, s)
  BY DEF PosPlaceDone
<1>3. s \in OutcomeType /\ (s.ok /\ ~PosOrder => s.order \in FinalOrders)
  BY <1>1, PosPlaceOutcomesPaid
<1>4. CASE PosOrder
  <2>1. Goes(a, s, "asking") /\ page' # "success"
    BY <1>1, <1>2, <1>4
  <2> QED
    BY <1>1, <1>3, <2>1, Moves DEF Phases
<1>5. CASE ~PosOrder
  <2>1. Lands(a, s) /\ s.order \in FinalOrders
    BY <1>2, <1>3, <1>5
  <2> QED
    BY <1>1, <1>3, <2>1, Lands_IInv
<1> QED
  BY <1>4, <1>5

(* The answers to a terminal keep it. *)
LEMMA PosAnswerKeeps ==
  ASSUME IInv, NEW a,
         PosPlaceFails(a) \/ PosPlaceDone(a) \/ PosPay(a) \/ PosPayFails(a)
  PROVE  IInv'
<1>1. CASE PosPlaceFails(a)
  BY <1>1, AskingFacts, PosPlaceOutcomesPaid, PosFailsKeeps DEF PosPlaceFails
<1>2. CASE PosPlaceDone(a)
  BY <1>2, PosPlaceDoneKeeps
<1>3. CASE PosPay(a)
  BY <1>3, AskingFacts, PosOutcomesType, Lands_IInv DEF PosPay
<1>4. CASE PosPayFails(a)
  BY <1>4, AskingFacts, PosOutcomesType, PosFailsKeeps DEF PosPayFails
<1> QED
  BY <1>1, <1>2, <1>3, <1>4

-----------------------------------------------------------------------------
(* The page. *)

(* The initial states satisfy the invariant. *)
LEMMA InitIInv ==
  ASSUME Init
  PROVE  IInv
<1>1. attempts = <<>> /\ cart = TRUE /\ page = "here"
  BY DEF Init
<1> QED
  BY <1>1 DEF IInv, AttemptsTyped, SuccessEarned

(* The page lists renderers, *)
Listed == listed \subseteq Renderers

(* and always the same ones. *)
LEMMA ListedKept ==
  ASSUME Next
  PROVE  listed' = listed
<1> USE DEF forms
<1>1. ASSUME NEW r, Initialize(r) \/ Shopper(r) \/ Library(r)
      PROVE  listed' = listed
  BY <1>1 DEF Initialize, Shopper, Library, CardSelect, CardEdit, CardPlace,
     VaultSelect, VaultEdit, VaultPlace, MethodSelect, MethodEdit, MethodPlace,
     OpenSheet, MethodSubmit, AmazonPay, MethodErrorIdle, PosSelect, PosPlace,
     CardBuilt, VaultBuilt, MethodBuilt, AmazonBuilt, Built
<1>2. ASSUME NEW a, Answer(a) \/ Component(a)
      PROVE  listed' = listed
  BY <1>2 DEF Answer, Component, CardPlaceFails, CardPlaceDone, CardStatus,
     CardStatusFails, CardDetailsDone, CardDetailsFails, VaultPlaceFails,
     VaultPlaceDone, VaultStatus, VaultStatusFails, VaultDetailsDone,
     VaultDetailsFails, MethodPlaceFails, MethodPlaceDone, MethodStatus,
     MethodStatusFails, MethodDetailsDone, MethodDetailsFails, PosPlaceFails,
     PosPlaceDone, PosPay, PosPayFails, CardReport, VaultReport, MethodReport,
     MethodCancel, MethodError, PaypalError, AmazonDecline, Redirect, AmazonRemount
<1> QED
  BY <1>1, <1>2 DEF Next, AskMethods, MethodsArrive

(* Every step keeps the invariant. *)
LEMMA NextIInv ==
  ASSUME IInv, Listed, [Next]_vars
  PROVE  IInv'
<1>1. CASE AskMethods
  BY <1>1, StaysHere DEF AskMethods, Clickable
<1>2. CASE MethodsArrive
  BY <1>2, StaysHere DEF MethodsArrive
<1>3. ASSUME NEW r \in listed, Initialize(r) \/ Shopper(r) \/ Library(r)
      PROVE  IInv'
  <2>1. r \in Renderers
    BY DEF Listed
  <2>2. CASE Initialize(r)
    BY <2>2, StaysHere DEF Initialize
  <2> QED
    BY <1>3, <2>1, <2>2, CardShopperKeeps, VaultShopperKeeps, MethodShopperKeeps,
       PosShopperKeeps DEF Shopper, Library
<1>4. ASSUME NEW a \in DOMAIN attempts, Answer(a)
      PROVE  IInv'
  BY <1>4, CardAnswerKeeps, VaultAnswerKeeps, MethodAnswerKeeps, MethodStatusKeeps,
     PosAnswerKeeps DEF Answer
<1>5. ASSUME NEW a \in DOMAIN attempts, Component(a)
      PROVE  IInv'
  BY <1>5, CardAnswerKeeps, VaultAnswerKeeps, MethodAnswerKeeps, MethodErrorsKeep
     DEF Component, MethodCancel
<1>6. CASE UNCHANGED vars
  <2>1. UNCHANGED <<attempts, cart, page, landed>>
    BY <1>6 DEF vars
  <2> QED
    BY <2>1 DEF IInv, AttemptsTyped, SuccessEarned
<1> QED
  BY <1>1, <1>2, <1>3, <1>4, <1>5, <1>6 DEF Next

(* The success page is reached for an order whose payment was accepted, or  *)
(* for one of adyen-pm-method.js that still needs an action (line 242).    *)
THEOREM SuccessIsEarned == Spec => []SuccessEarned
<1>1. Init => IInv /\ Listed
  BY InitIInv, PageAssumption DEF Init, Listed
<1>2. IInv /\ Listed /\ [Next]_vars => IInv' /\ Listed'
  <2>1. [Next]_vars => listed' = listed
    BY ListedKept DEF vars, forms
  <2> QED
    BY <2>1, NextIInv DEF Listed
<1>3. IInv => SuccessEarned
  BY DEF IInv
<1> QED
  BY <1>1, <1>2, <1>3, PTL DEF Spec

=============================================================================
