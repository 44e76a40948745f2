------------------------ MODULE WebhookOrder_proofs ------------------------
(***************************************************************************)
(* Theorems about WebhookOrder, for any notifications, amounts, settings   *)
(* and error budget: the types, one invoice, a cancelled order stays       *)
(* cancelled, an order called paid is paid in full and invoiced, a paid    *)
(* one is not cancelled, and the order lives the life of OrderLife.        *)
(***************************************************************************)
EXTENDS WebhookOrder, FiniteSums

-----------------------------------------------------------------------------
(* The order object.                                                       *)

(* The status of a paid order moves it to processing, or nowhere. *)
LEMMA PaidMoves ==
  ASSUME NEW o
  PROVE  PaymentAuthorized(o) = o \/ PaymentAuthorized(o) = Moved(o, "processing")
  BY SettingsAssumption DEF PaymentAuthorized

(* What each operator on order objects returns is an order object. *)
LEMMA ObjectTypes ==
  ASSUME NEW o \in OrderType
  PROVE  /\ Saved(o) \in OrderType
         /\ PrePaymentAuthorized(o) \in OrderType
         /\ DetailsUpdated(o) \in OrderType
         /\ Finalized(o) \in OrderType
         /\ \A auto \in BOOLEAN : UnderReview(o, auto) \in OrderType
         /\ MadeCancelable(o) \in OrderType
         /\ Moved(o, CancelState) \in OrderType
<1>1. \A state \in OrderStates : Moved(o, state) \in OrderType
  BY DEF Moved, OrderType
<1>2. PrePaymentAuthorized(o) \in OrderType
  BY <1>1, SettingsAssumption DEF PrePaymentAuthorized, OrderStates
<1>3. Finalized(o) \in OrderType
  BY <1>1, <1>2, PaidMoves DEF Finalized, OrderStates
<1>4. Saved(o) \in OrderType
  BY DEF Saved, OrderType, OrderStates
<1>5. \A auto \in BOOLEAN : UnderReview(o, auto) \in OrderType
  BY SettingsAssumption DEF UnderReview, OrderType, OrderStates
<1>6. DetailsUpdated(o) \in OrderType /\ MadeCancelable(o) \in OrderType
  BY <1>1 DEF DetailsUpdated, MadeCancelable, OrderStates
<1>7. Moved(o, CancelState) \in OrderType
  BY <1>1, SettingsAssumption DEF OrderStates
<1> QED
  BY <1>2, <1>3, <1>4, <1>5, <1>6, <1>7

(* What becomes of an order object that is to be cancelled. *)
LEMMA HoldCancelStep ==
  ASSUME NEW o, HoldCancel(o)
  PROVE  \/ WouldCancel(o) /\ Handled(Moved(o, CancelState))
         \/ Handled(o)
         \/ "cancel" \in Faults /\ Thrown(o)
  BY DEF HoldCancel

(* A handler that ends by cancelling leaves an object and a place. *)
LEMMA HoldCancelTypes ==
  ASSUME NEW o \in OrderType, HoldCancel(o)
  PROVE  object' \in OrderType /\ pc' \in {"save", "failed"}
  BY HoldCancelStep, ObjectTypes DEF Handled, Thrown

-----------------------------------------------------------------------------
(* Types                                                                   *)

(* An order has no, one or more invoices. *)
LEMMA SmallCounts == 0..2 = {0, 1, 2}
  OBVIOUS

(* An update outside of a function's domain changes nothing. *)
LEMMA UpdateType ==
  ASSUME NEW S, NEW T, NEW f \in [S -> T], NEW x, NEW v, x \in S => v \in T
  PROVE  [f EXCEPT ![x] = v] \in [S -> T]
  OBVIOUS

(* The initial states have the types. *)
LEMMA InitType == Init => TypeOK
<1> SUFFICES ASSUME Init
             PROVE  TypeOK
  OBVIOUS
<1>1. order \in OrderType
  <2> DEFINE Fresh(state) ==
        [state |-> state, event |-> NoEvent, invoiced |-> FALSE,
         inProcess |-> FALSE]
  <2>1. \A state \in OrderStates : Fresh(state) \in OrderType
    BY DEF OrderType
  <2>2. \E state \in OrderStates : order = Fresh(state)
    BY DEF Init, OrderStates
  <2> QED
    BY <2>1, <2>2
<1>2. MaxErrors \in Nat
  BY SettingsAssumption
<1> QED
  BY <1>1, <1>2 DEF Init, TypeOK

(* A handler's step on the object only. *)
LEMMA AuthorisationType ==
  ASSUME TypeOK, HandleAuthorisation
  PROVE  TypeOK'
<1>1. CASE IgnoreAuthorisation
  BY <1>1 DEF TypeOK, IgnoreAuthorisation, Handled
<1>2. CASE RecordPayment
  <2>1. stored' \in [Notes -> 0..2]
    <3>1. stored \in [Notes -> 0..2]
      BY DEF TypeOK
    <3>2. PICK v : /\ stored' = [stored EXCEPT ![current] = v]
                   /\ v = stored[current] \/ v = 1
      <4>1. CASE stored' = stored
        BY <3>1, <4>1
      <4> QED
        BY <1>2, <4>1 DEF RecordPayment
    <3>3. current \in Notes => v \in 0..2
      BY <3>1, <3>2, SmallCounts
    <3> QED
      BY <3>1, <3>2, <3>3, UpdateType
  <2> QED
    BY <1>2, <2>1 DEF TypeOK, RecordPayment
<1>3. CASE AwaitRemainder
  BY <1>3 DEF TypeOK, AwaitRemainder
<1>4. CASE SaveTransaction
  <2>1. object' \in OrderType
    BY <1>4, ObjectTypes DEF TypeOK, SaveTransaction
  <2> QED
    BY <1>4, <2>1 DEF TypeOK, SaveTransaction
<1>5. CASE LeaveToCapture
  <2>1. object' \in OrderType
    BY <1>5, ObjectTypes DEF TypeOK, LeaveToCapture, Handled
  <2> QED
    BY <1>5, <2>1 DEF TypeOK, LeaveToCapture, Handled
<1>6. CASE CreateInvoice
  <2> DEFINE o == [object EXCEPT !.invoiced = TRUE, !.inProcess = TRUE]
  <2>1. o \in OrderType
    BY DEF TypeOK, OrderType
  <2>2. object' \in OrderType /\ pc' \in {"save", "failed"}
    BY <1>6, <2>1, ObjectTypes
    DEF TypeOK, CreateInvoice, FinishAutoCapture, Handled, Thrown
  <2>3. invoices' \in {0, 1, 2}
    <3>1. invoices \in {0, 1, 2}
      BY SmallCounts DEF TypeOK
    <3>2. CASE CanInvoice(object)
      BY <1>6, <3>1, <3>2 DEF CreateInvoice
    <3>3. CASE ~CanInvoice(object)
      BY <1>6, <3>1, <3>3 DEF CreateInvoice
    <3> QED
      BY <3>2, <3>3
  <2> QED
    BY <1>6, <2>2, <2>3, SmallCounts DEF TypeOK, CreateInvoice
<1>7. CASE RefuseAuthorisation
  <2>1. object' \in OrderType /\ pc' \in {"save", "failed"}
    BY <1>7, ObjectTypes, HoldCancelTypes DEF TypeOK, RefuseAuthorisation, Handled
  <2> QED
    BY <1>7, <2>1 DEF TypeOK, RefuseAuthorisation
<1> QED
  BY <1>1, <1>2, <1>3, <1>4, <1>5, <1>6, <1>7 DEF HandleAuthorisation

(* Every step keeps the types. *)
LEMMA StepType == TypeOK /\ [Next]_vars => TypeOK'
<1> SUFFICES ASSUME TypeOK, [Next]_vars
             PROVE  TypeOK'
  OBVIOUS
<1>1. ASSUME NEW n \in Notes, Arrive(n)
      PROVE  TypeOK'
  BY <1>1 DEF TypeOK, Arrive
<1>2. ASSUME NEW n \in Notes, Load(n)
      PROVE  TypeOK'
  <2>1. n.event \in Events /\ n.success \in BOOLEAN
    BY SettingsAssumption DEF NoteType
  <2>2. object' \in OrderType
    BY <1>2, <2>1 DEF TypeOK, Load, OrderType
  <2> QED
    BY <1>2, <2>2 DEF TypeOK, Load
<1>3. CASE LeaveUnhandled
  BY <1>3 DEF TypeOK, LeaveUnhandled
<1>4. CASE HandleAuthorisation
  BY <1>4, AuthorisationType
<1>5. CASE CloseOffer
  <2>1. object' \in OrderType /\ pc' \in {"save", "failed"}
    BY <1>5, ObjectTypes, HoldCancelTypes DEF TypeOK, CloseOffer, Handled
  <2> QED
    BY <1>5, <2>1 DEF TypeOK, CloseOffer
<1>6. CASE CloseOrder
  <2>1. object' \in OrderType /\ pc' \in {"save", "failed"}
    BY <1>6, HoldCancelTypes DEF TypeOK, CloseOrder, Handled
  <2>2. refunded' \subseteq Notes
    BY <1>6 DEF TypeOK, CloseOrder
  <2> QED
    BY <1>6, <2>1, <2>2 DEF TypeOK, CloseOrder
<1>7. CASE Cancel
  <2>1. object' \in OrderType /\ pc' \in {"save", "failed"}
    BY <1>7, HoldCancelTypes DEF TypeOK, Cancel, Handled
  <2> QED
    BY <1>7, <2>1 DEF TypeOK, Cancel
<1>8. CASE AcceptReview
  <2>1. object' \in OrderType /\ pc' = "save"
    BY <1>8, ObjectTypes DEF TypeOK, AcceptReview, Handled
  <2> QED
    BY <1>8, <2>1 DEF TypeOK, AcceptReview
<1>9. CASE SaveOrder
  <2>1. order' \in OrderType
    BY <1>9, ObjectTypes DEF TypeOK, SaveOrder
  <2> QED
    BY <1>9, <2>1 DEF TypeOK, SaveOrder
<1>10. CASE MarkDone
  BY <1>10 DEF TypeOK, MarkDone, Leave
<1>11. CASE RecordError
  <2>1. rows' \in [Notes -> {"absent", "waiting", "in progress", "done"}]
    BY <1>11 DEF TypeOK, RecordError
  <2>2. errors' \in [Notes -> 0..MaxErrors]
    <3>1. errors \in [Notes -> 0..MaxErrors]
      BY DEF TypeOK
    <3>2. PICK v : /\ errors' = [errors EXCEPT ![current] = v]
                   /\ v = IF errors[current] < MaxErrors
                          THEN errors[current] + 1 ELSE errors[current]
      BY <1>11 DEF RecordError
    <3>3. current \in Notes => v \in 0..MaxErrors
      <4>1. MaxErrors \in Nat
        BY SettingsAssumption
      <4> QED
        BY <3>1, <3>2, <4>1
    <3> QED
      BY <3>1, <3>2, <3>3, UpdateType
  <2> QED
    BY <1>11, <2>1, <2>2 DEF TypeOK, RecordError
<1>12. CASE SaveComment
  <2>1. order' \in OrderType
    BY <1>12, ObjectTypes DEF TypeOK, SaveComment
  <2> QED
    BY <1>12, <2>1 DEF TypeOK, SaveComment, Leave
<1>13. CASE Crash
  BY <1>13 DEF TypeOK, Crash, Leave
<1>14. CASE UNCHANGED vars
  BY <1>14 DEF TypeOK, vars
<1> QED
  BY <1>1, <1>2, <1>3, <1>4, <1>5, <1>6, <1>7, <1>8, <1>9, <1>10, <1>11,
     <1>12, <1>13, <1>14 DEF Next, Process

(* The order, the object and the tables hold what they are meant to,       *)
(* whatever notifications come and whatever fails.                         *)
THEOREM TypeCorrect == Spec => []TypeOK
  BY InitType, StepType, PTL DEF Spec

-----------------------------------------------------------------------------
(* What the handlers do to the order object                                *)

(* Nothing that is done to the order object, but the invoice, changes     *)
(* whether its items are invoiced.                                        *)
LEMMA InvoicedKept ==
  ASSUME NEW o \in OrderType
  PROVE  /\ Saved(o).invoiced = o.invoiced
         /\ PrePaymentAuthorized(o).invoiced = o.invoiced
         /\ DetailsUpdated(o).invoiced = o.invoiced
         /\ Finalized(o).invoiced = o.invoiced
         /\ UnderReview(o, TRUE).invoiced = o.invoiced
         /\ UnderReview(o, FALSE).invoiced = o.invoiced
         /\ MadeCancelable(o).invoiced = o.invoiced
         /\ Moved(o, CancelState).invoiced = o.invoiced
<1>1. \A state : Moved(o, state).invoiced = o.invoiced
  BY DEF Moved, OrderType
<1>2. PrePaymentAuthorized(o).invoiced = o.invoiced
  BY <1>1 DEF PrePaymentAuthorized
<1>3. /\ Saved(o).invoiced = o.invoiced
      /\ UnderReview(o, TRUE).invoiced = o.invoiced
      /\ UnderReview(o, FALSE).invoiced = o.invoiced
  BY DEF Saved, UnderReview, OrderType
<1> QED
  BY <1>1, <1>2, <1>3, PaidMoves DEF Finalized, DetailsUpdated, MadeCancelable

(* A move of the order object to a state leads there. *)
LEMMA StateMoved ==
  ASSUME NEW o \in OrderType, NEW state
  PROVE  Moved(o, state).state = state
  BY DEF Moved, OrderType

(* An order object that is cancelled is not cancelled again, and one that  *)
(* is invoiced is not cancelled at all.                                    *)
LEMMA HoldCancelEffect ==
  ASSUME NEW o \in OrderType, HoldCancel(o)
  PROVE  /\ pc' \in {"save", "failed"}
         /\ "cancel" \notin Faults => pc' = "save"
         /\ object'.invoiced = o.invoiced
         /\ o.state = "canceled" => object' = o
         /\ o.invoiced /\ o.state # "canceled" => object'.state # "canceled"
<1>1. CASE WouldCancel(o) /\ Handled(Moved(o, CancelState))
  <2>1. o.state # "canceled"
    BY <1>1 DEF WouldCancel, CanHold, CanCancel, Open
  <2>2. object'.invoiced = o.invoiced /\ object'.state = CancelState
    BY <1>1, InvoicedKept, StateMoved DEF Handled
  <2>3. o.invoiced => CancelState = "holded"
    BY <1>1 DEF WouldCancel, CanCancel
  <2> QED
    BY <1>1, <2>1, <2>2, <2>3 DEF Handled
<1>2. CASE Handled(o)
  BY <1>2 DEF Handled
<1>3. CASE "cancel" \in Faults /\ Thrown(o)
  BY <1>3 DEF Thrown
<1> QED
  BY <1>1, <1>2, <1>3, HoldCancelStep

(* The handlers that take a single step. *)
OneStepHandler ==
  \/ IgnoreAuthorisation \/ RefuseAuthorisation
  \/ CloseOffer \/ CloseOrder \/ Cancel \/ AcceptReview

(* They save nothing, keep what is invoiced, and take no cancelled object  *)
(* out of its state unless it was paid in full by automatic captures, and  *)
(* the notification is about one of these.                                 *)
LEMMA OneStepHandlerEffect ==
  ASSUME TypeOK, OneStepHandler
  PROVE  /\ pc = "handle" /\ pc' \in {"save", "failed"}
         /\ "cancel" \notin Faults => pc' = "save"
         /\ UNCHANGED <<order, stored, invoices>>
         /\ object'.invoiced = object.invoiced
         /\ object.state = "canceled" /\ ~(current.auto /\ IsFullAmountFinalized)
               => object'.state = "canceled"
         /\ object.invoiced /\ object.state # "canceled"
               => object'.state # "canceled"
<1> USE DEF Handling, Authorisation
<1>0. object \in OrderType
  BY DEF TypeOK
<1> DEFINE m == MadeCancelable(object)
<1>m. /\ m \in OrderType /\ m.invoiced = object.invoiced
      /\ m.state # "canceled" \/ m = object
  <2>1. m.state # "canceled" \/ m = object
    BY <1>0, StateMoved DEF MadeCancelable
  <2> QED
    BY <1>0, <2>1, ObjectTypes, InvoicedKept
<1>1. CASE IgnoreAuthorisation
  BY <1>1 DEF IgnoreAuthorisation, Handled
<1>2. CASE RefuseAuthorisation
  <2>1. object.state # "canceled"
    BY <1>2 DEF RefuseAuthorisation, Transition
  <2>2. CASE Handled(object)
    BY <1>2, <2>1, <2>2 DEF RefuseAuthorisation, Handled
  <2>3. CASE HoldCancel(m)
    <3>1. m.state # "canceled"
      BY <1>m, <2>1
    <3> QED
      BY <1>2, <1>m, <2>1, <2>3, <3>1, HoldCancelEffect DEF RefuseAuthorisation
  <2> QED
    BY <1>2, <2>2, <2>3 DEF RefuseAuthorisation
<1>3. CASE CloseOffer
  <2>1. CASE Handled(object)
    BY <1>3, <2>1 DEF CloseOffer, Handled
  <2>2. CASE object.state = "canceled" /\ HoldCancel(object)
    BY <1>0, <1>3, <2>2, HoldCancelEffect DEF CloseOffer
  <2>3. CASE object.state # "canceled" /\ HoldCancel(m)
    <3>1. m.state # "canceled"
      BY <1>m, <2>3
    <3> QED
      BY <1>m, <1>3, <2>3, <3>1, HoldCancelEffect DEF CloseOffer
  <2> QED
    BY <1>3, <2>1, <2>2, <2>3 DEF CloseOffer
<1>4. CASE CloseOrder
  <2>1. CASE Handled(object)
    BY <1>4, <2>1 DEF CloseOrder, Handled
  <2>2. CASE HoldCancel(object)
    BY <1>0, <1>4, <2>2, HoldCancelEffect DEF CloseOrder
  <2> QED
    BY <1>4, <2>1, <2>2 DEF CloseOrder
<1>5. CASE Cancel
  <2>1. CASE Handled(object)
    BY <1>5, <2>1 DEF Cancel, Handled
  <2>2. CASE HoldCancel(object)
    BY <1>0, <1>5, <2>2, HoldCancelEffect DEF Cancel
  <2> QED
    BY <1>5, <2>1, <2>2 DEF Cancel
<1>6. CASE AcceptReview
  <2>1. Finalized(object).invoiced = object.invoiced
    BY <1>0, InvoicedKept
  <2>2. object.state = "canceled" /\ ~IsFullAmountFinalized
          => Finalized(object) = object
    BY DEF Finalized
  <2>3. PrePaymentAuthorized(object).state \in
          {object.state, "new", "adyen_authorized"}
    BY <1>0, StateMoved, SettingsAssumption DEF PrePaymentAuthorized
  <2>4. object.state # "canceled" => Finalized(object).state # "canceled"
    BY <1>0, <2>3, StateMoved, PaidMoves DEF Finalized
  <2> QED
    BY <1>6, <2>1, <2>2, <2>4 DEF AcceptReview, Handled
<1> QED
  BY <1>1, <1>2, <1>3, <1>4, <1>5, <1>6 DEF OneStepHandler

-----------------------------------------------------------------------------
(* What the payments add up to                                             *)

(* An authorised payment is notified. *)
Payment(n) == n.event = "AUTHORISATION" /\ n.success

StoredNotes == {n \in Notes : stored[n] > 0}
Arrived == {n \in Notes : rows[n] # "absent"}

Amounts(payments, notes) == [n \in notes |-> payments[n] * n.amount]

(* What the payments of some notifications amount to, the fold of the     *)
(* model, is a sum of FiniteSums.                                         *)
LEMMA AmountIsSum ==
  ASSUME NEW payments, NEW notes, IsFiniteSet(notes)
  PROVE  Amount(payments, notes) = SumOver(Amounts(payments, notes), notes)
<1> DEFINE g == Amounts(payments, notes)
<1>1. PICK h : Sums(h, g, SUBSET notes) /\ SumOver(g, notes) = h[notes]
  BY SumIsFold
<1>2. h = [s \in SUBSET notes |->
             IF s = {} THEN 0
             ELSE payments[Pick(s)] * Pick(s).amount + h[s \ {Pick(s)}]]
  <2>1. \A s \in SUBSET notes : s # {} =>
           g[Pick(s)] = payments[Pick(s)] * Pick(s).amount
    BY PickIsMember DEF Amounts
  <2> HIDE DEF g
  <2> QED
    BY <1>1, <2>1, Zenon DEF Sums
<1>3. PICK k : /\ k = [s \in SUBSET notes |->
                         IF s = {} THEN 0
                         ELSE payments[Pick(s)] * Pick(s).amount + k[s \ {Pick(s)}]]
               /\ Amount(payments, notes) = k[notes]
  BY <1>2 DEF Amount, MapThenSumSet, MapThenFoldSet, Pick
<1>4. Sums(k, g, SUBSET notes)
  <2>1. \A s \in SUBSET notes : s # {} =>
           g[Pick(s)] = payments[Pick(s)] * Pick(s).amount
    BY PickIsMember DEF Amounts
  <2> HIDE DEF g
  <2> QED
    BY <1>3, <2>1, Zenon DEF Sums
<1>5. notes \in SUBSET notes
  OBVIOUS
<1> HIDE DEF g
<1>6. h[notes] = k[notes]
  BY <1>1, <1>4, <1>5, SumsAgree
<1> QED
  BY <1>1, <1>3, <1>6 DEF g

(* What is known of the payments, each listed once. *)
Listed(S) == {<<n.psp, n.amount>> : n \in S}

(* So is what listed payments amount to. *)
LEMMA ListedIsSum ==
  ASSUME NEW P, IsFiniteSet(P)
  PROVE  MapThenSumSet(LAMBDA p : p[2], P) = SumOver([p \in P |-> p[2]], P)
<1> DEFINE g == [p \in P |-> p[2]]
<1>0. \A s \in SUBSET P : s # {} => g[Pick(s)] = Pick(s)[2]
  BY PickIsMember
<1>1. PICK h : Sums(h, g, SUBSET P) /\ SumOver(g, P) = h[P]
  BY SumIsFold
<1>2. h = [s \in SUBSET P |->
             IF s = {} THEN 0 ELSE Pick(s)[2] + h[s \ {Pick(s)}]]
  <2> HIDE DEF g
  <2> QED
    BY <1>0, <1>1, Zenon DEF Sums
<1>3. PICK k : /\ k = [s \in SUBSET P |->
                         IF s = {} THEN 0 ELSE Pick(s)[2] + k[s \ {Pick(s)}]]
               /\ MapThenSumSet(LAMBDA p : p[2], P) = k[P]
  BY <1>2 DEF MapThenSumSet, MapThenFoldSet, Pick
<1>4. Sums(k, g, SUBSET P)
  <2> HIDE DEF g
  <2> QED
    BY <1>0, <1>3, Zenon DEF Sums
<1>5. P \in SUBSET P
  OBVIOUS
<1>6. h[P] = k[P]
  <2> HIDE DEF g
  <2> QED
    BY <1>1, <1>4, <1>5, SumsAgree
<1> QED
  BY <1>1, <1>3, <1>6

(* Each payment is stored once, after it was notified, and for one         *)
(* notification of those that tell of it.                                  *)
PaymentInv ==
  /\ \A n \in Notes : stored[n] \in {0, 1}
  /\ \A n \in StoredNotes : Payment(n) /\ n \in Arrived
  /\ \A n, m \in StoredNotes : n.psp = m.psp => n = m
  /\ pc # "idle" => current \in Arrived
  /\ Arrived # {} => \E d \in Deliveries : Arrived \subseteq d

(* Every step keeps the relation between payments and notifications. *)
LEMMA PaymentStep == TypeOK /\ PaymentInv /\ [Next]_vars => PaymentInv'
<1> SUFFICES ASSUME TypeOK, PaymentInv, [Next]_vars
             PROVE  PaymentInv'
  OBVIOUS
<1>0. rows \in [Notes -> {"absent", "waiting", "in progress", "done"}]
  BY DEF TypeOK
<1>1. ASSUME NEW n \in Notes, Arrive(n)
      PROVE  PaymentInv'
  <2>1. Arrived' = Arrived \cup {n}
    BY <1>0, <1>1 DEF Arrive, Arrived
  <2>2. PICK d \in Deliveries : Arrived' \subseteq d
    BY <1>1, <2>1 DEF Arrive, Arrived
  <2>3. stored' = stored /\ pc' = pc /\ current' = current
    BY <1>1 DEF Arrive
  <2> QED
    BY <2>1, <2>2, <2>3 DEF PaymentInv, StoredNotes
<1>2. ASSUME NEW n \in Notes, Load(n)
      PROVE  PaymentInv'
  <2>1. Arrived' = Arrived /\ n \in Arrived
    BY <1>0, <1>2 DEF Load, Arrived
  <2>2. stored' = stored /\ current' = n
    BY <1>2 DEF Load
  <2> QED
    BY <2>1, <2>2 DEF PaymentInv, StoredNotes
<1>3. CASE RecordPayment
  <2>1. Payment(current)
    BY <1>3 DEF RecordPayment, Authorisation, Handling, Transition, Payment
  <2>2. pc # "idle" /\ Arrived' = Arrived /\ current' = current
    BY <1>3 DEF RecordPayment, Authorisation, Handling, Arrived
  <2>3. current \in Arrived /\ current \in Notes
    BY <2>2 DEF PaymentInv, Arrived
  <2>4. \/ stored' = stored
        \/ /\ \A n \in StoredNotes : n.psp # current.psp
           /\ stored' = [stored EXCEPT ![current] = 1]
    BY <1>3, <2>3 DEF RecordPayment, TypeOK, StoredNotes
  <2>5. CASE stored' = stored
    BY <2>2, <2>5 DEF PaymentInv, StoredNotes
  <2>6. CASE /\ \A n \in StoredNotes : n.psp # current.psp
             /\ stored' = [stored EXCEPT ![current] = 1]
    <3>1. \A n \in Notes : stored'[n] = IF n = current THEN 1 ELSE stored[n]
      BY <2>6 DEF TypeOK
    <3>2. StoredNotes' = StoredNotes \cup {current}
      BY <2>3, <3>1 DEF StoredNotes
    <3> QED
      BY <2>1, <2>2, <2>3, <2>6, <3>1, <3>2 DEF PaymentInv
  <2> QED
    BY <2>4, <2>5, <2>6
<1>4. CASE MarkDone \/ RecordError
  <2>1. Arrived' = Arrived
    BY <1>0, <1>4 DEF MarkDone, RecordError, Arrived, PaymentInv
  <2>2. stored' = stored /\ (pc' # "idle" => pc # "idle" /\ current' = current)
    BY <1>4 DEF MarkDone, RecordError, Leave
  <2> QED
    BY <2>1, <2>2 DEF PaymentInv, StoredNotes
<1>5. ASSUME stored' = stored, rows' = rows,
             pc' # "idle" => pc # "idle" /\ current' = current
      PROVE  PaymentInv'
  BY <1>5 DEF PaymentInv, StoredNotes, Arrived
<1>6. CASE OneStepHandler
  BY <1>5, <1>6 DEF OneStepHandler, IgnoreAuthorisation, RefuseAuthorisation,
     CloseOffer, CloseOrder, Cancel, AcceptReview, Authorisation, Handling
<1>7. CASE AwaitRemainder \/ SaveTransaction \/ LeaveToCapture \/ CreateInvoice
  BY <1>5, <1>7 DEF AwaitRemainder, SaveTransaction, LeaveToCapture,
     CreateInvoice
<1>8. CASE LeaveUnhandled \/ SaveOrder \/ SaveComment \/ Crash
  BY <1>5, <1>8 DEF LeaveUnhandled, SaveOrder, SaveComment, Crash, Leave
<1>9. CASE UNCHANGED vars
  BY <1>5, <1>9 DEF vars
<1> QED
  BY <1>1, <1>2, <1>3, <1>4, <1>6, <1>7, <1>8, <1>9
  DEF Next, Process, HandleAuthorisation, OneStepHandler

(* It holds at first, when there are no payments. *)
LEMMA InitPayments == Init => PaymentInv
  BY DEF Init, PaymentInv, StoredNotes, Arrived

(* The sum of the stored amounts is that of the payments known. *)
LEMMA AmountsType ==
  ASSUME PaymentInv
  PROVE  /\ \A S \in SUBSET Notes : NatOn(Amounts(stored, S), S)
         /\ \A n \in StoredNotes : stored[n] * n.amount = n.amount
         /\ \A n \in Notes \ StoredNotes : stored[n] * n.amount = 0
<1>1. \A n \in Notes : n.amount \in Nat
  BY SettingsAssumption DEF NoteType
<1>2. \A n \in StoredNotes : stored[n] = 1
  BY DEF PaymentInv, StoredNotes
<1>3. \A n \in Notes \ StoredNotes : stored[n] = 0
  BY DEF PaymentInv, StoredNotes
<1>4. \A n \in StoredNotes : stored[n] * n.amount = n.amount
  BY <1>1, <1>2 DEF StoredNotes
<1>5. \A n \in Notes \ StoredNotes : stored[n] * n.amount = 0
  BY <1>1, <1>3
<1> QED
  BY <1>1, <1>4, <1>5 DEF NatOn, Amounts

(* What is authorised, added up over the payments, is what the payments   *)
(* of all notifications amount to.                                        *)
LEMMA AuthorisedIsAmount ==
  ASSUME PaymentInv
  PROVE  Authorised = Amount(stored, Notes) /\ Authorised \in Nat
<1> DEFINE f == [n \in StoredNotes |-> <<n.psp, n.amount>>]
           P == Listed(StoredNotes)
           g == [p \in P |-> p[2]]
           a == Amounts(stored, Notes)
<1>1. IsFiniteSet(Notes) /\ IsFiniteSet(StoredNotes) /\ StoredNotes \in SUBSET Notes
  BY NotesAssumption, FS_Subset DEF StoredNotes
<1>2. P = {f[n] : n \in StoredNotes}
  BY DEF Listed
<1>3. \A n, m \in StoredNotes : f[n] = f[m] => n = m
  BY DEF PaymentInv
<1>4. \A n \in StoredNotes : g[f[n]] = n.amount /\ n.amount \in Nat
  BY SettingsAssumption DEF NoteType, StoredNotes, Listed
<1>5. /\ IsFiniteSet(P)
      /\ SumOver(g, P) = SumOver([n \in StoredNotes |-> g[f[n]]], StoredNotes)
  <2> HIDE DEF f, g, P
  <2>1. \A n \in StoredNotes : g[f[n]] \in Nat
    BY <1>4
  <2> QED
    BY <1>1, <1>2, <1>3, <2>1, SumImage
<1>6. SumOver([n \in StoredNotes |-> g[f[n]]], StoredNotes) = SumOver(a, StoredNotes)
  <2>1. \A n \in StoredNotes : [m \in StoredNotes |-> g[f[m]]][n] = a[n]
    BY <1>4, AmountsType DEF Amounts, StoredNotes
  <2>2. NatOn(a, StoredNotes)
    BY AmountsType DEF NatOn, StoredNotes
  <2> HIDE DEF f, g, P, a
  <2> QED
    BY <1>1, <2>1, <2>2, SumEqual
<1>7. SumOver(a, Notes) = SumOver(a, StoredNotes) /\ SumOver(a, Notes) \in Nat
  <2>1. NatOn(a, Notes) /\ \A n \in Notes \ StoredNotes : a[n] = 0
    BY AmountsType DEF Amounts
  <2> HIDE DEF a
  <2> QED
    BY <1>1, <2>1, SumZeros, SumType
<1>8. Authorised = SumOver(g, P)
  <2>1. Authorised = MapThenSumSet(LAMBDA p : p[2], P)
    BY DEF Authorised, Listed, StoredNotes
  <2> QED
    BY <1>5, <2>1, ListedIsSum
<1>9. Amount(stored, Notes) = SumOver(a, Notes)
  BY <1>1, AmountIsSum
<1> HIDE DEF f, g, P, a
<1> QED
  BY <1>5, <1>6, <1>7, <1>8, <1>9

(* The same of the next state. *)
LEMMA AuthorisedNext ==
  (PaymentInv => Authorised = Amount(stored, Notes) /\ Authorised \in Nat)'
<1>1. PaymentInv => Authorised = Amount(stored, Notes) /\ Authorised \in Nat
  BY AuthorisedIsAmount
<1> QED
  BY <1>1, PTL

(* More is stored as time goes by; what is finalized is part of it. *)
LEMMA AmountGrows ==
  ASSUME PaymentInv, PaymentInv', \A n \in Notes : stored[n] <= stored'[n]
  PROVE  Authorised <= Authorised'
<1>1. \A n \in Notes : Amounts(stored, Notes)[n] <= Amounts(stored', Notes)[n]
  <2>1. \A n \in Notes : n.amount \in Nat
    BY SettingsAssumption DEF NoteType
  <2>2. \A n \in Notes : /\ stored[n] \in {0, 1} /\ stored'[n] \in {0, 1}
                         /\ ~(stored[n] = 1 /\ stored'[n] = 0)
    BY DEF PaymentInv
  <2>3. \A k \in Nat : 0 * k = 0 /\ 1 * k = k /\ 0 <= k /\ k <= k
    OBVIOUS
  <2>4. \A n \in Notes : stored[n] * n.amount <= stored'[n] * n.amount
    BY <2>1, <2>2, <2>3
  <2> QED
    BY <2>4 DEF Amounts
<1>2. NatOn(Amounts(stored, Notes), Notes) /\ NatOn(Amounts(stored', Notes), Notes)
  <2>1. \A n \in Notes : n.amount \in Nat
    BY SettingsAssumption DEF NoteType
  <2>2. \A n \in Notes : stored[n] \in Nat /\ stored'[n] \in Nat
    BY DEF PaymentInv
  <2> QED
    BY <2>1, <2>2 DEF NatOn, Amounts
<1>3. SumOver(Amounts(stored, Notes), Notes) <= SumOver(Amounts(stored', Notes), Notes)
  BY <1>1, <1>2, NotesAssumption, SumMonotone
<1>4. /\ Amount(stored, Notes) = SumOver(Amounts(stored, Notes), Notes)
      /\ Amount(stored', Notes) = SumOver(Amounts(stored', Notes), Notes)
  BY NotesAssumption, AmountIsSum
<1>5. Authorised' = Amount(stored', Notes)
  BY AuthorisedNext
<1> QED
  BY <1>3, <1>4, <1>5, AuthorisedIsAmount

(* When the code finds the full amount finalized, the payments cover the  *)
(* total.                                                                 *)
LEMMA FinalizedIsPaid ==
  ASSUME PaymentInv, IsFullAmountFinalized
  PROVE  Authorised >= Total /\ Authorised \in Nat
<1> DEFINE A == {n \in Notes : n.auto}
<1>1. IsFiniteSet(A) /\ A \in SUBSET Notes
  BY NotesAssumption, FS_Subset
<1>2. /\ NatOn(Amounts(stored, Notes), Notes)
      /\ \A n \in A : Amounts(stored, A)[n] <= Amounts(stored, Notes)[n]
      /\ NatOn(Amounts(stored, A), A)
  <2>1. NatOn(Amounts(stored, Notes), Notes) /\ NatOn(Amounts(stored, A), A)
    BY AmountsType
  <2>2. \A n \in A : Amounts(stored, A)[n] = Amounts(stored, Notes)[n]
    BY DEF Amounts
  <2> QED
    BY <2>1, <2>2 DEF NatOn
<1>3. SumOver(Amounts(stored, A), A) <= SumOver(Amounts(stored, Notes), Notes)
  <2> HIDE DEF A
  <2> QED
    BY <1>1, <1>2, NotesAssumption, SumMonotone
<1>4. Amount(stored, A) = Total
  BY DEF IsFullAmountFinalized
<1>5. /\ Amount(stored, A) = SumOver(Amounts(stored, A), A)
      /\ Amount(stored, Notes) = SumOver(Amounts(stored, Notes), Notes)
  BY <1>1, NotesAssumption, AmountIsSum
<1>6. SumOver(Amounts(stored, A), A) \in Nat
  <2> HIDE DEF A
  <2> QED
    BY <1>1, <1>2, SumType
<1> HIDE DEF A
<1> QED
  BY <1>3, <1>4, <1>5, <1>6, AuthorisedIsAmount

(* When it finds the full amount authorised, the payments are the total. *)
LEMMA AuthorisedIsPaid ==
  ASSUME PaymentInv, IsFullAmountAuthorized
  PROVE  Authorised = Total /\ Authorised \in Nat
  BY AuthorisedIsAmount DEF IsFullAmountAuthorized

(* Nothing is authorised before something is stored. *)
LEMMA NothingAuthorised ==
  ASSUME PaymentInv, StoredNotes = {}
  PROVE  Authorised = 0
<1>1. SumOver(Amounts(stored, Notes), Notes) = SumOver(Amounts(stored, Notes), {})
  <2>1. /\ NatOn(Amounts(stored, Notes), Notes)
        /\ \A n \in Notes \ {} : Amounts(stored, Notes)[n] = 0
    BY AmountsType DEF Amounts
  <2> QED
    BY <2>1, NotesAssumption, SumZeros
<1> QED
  BY <1>1, SumEmpty, AuthorisedIsAmount, AmountIsSum, NotesAssumption

-----------------------------------------------------------------------------
(* Where the steps take the order object                                   *)

(* What the moves of the order object change of its being in process and  *)
(* of its state.                                                          *)
LEMMA ObjectMoves ==
  ASSUME NEW o \in OrderType
  PROVE  /\ PrePaymentAuthorized(o).inProcess = o.inProcess
         /\ DetailsUpdated(o).inProcess = o.inProcess
         /\ Finalized(o).inProcess = o.inProcess
         /\ MadeCancelable(o).inProcess = o.inProcess
         /\ Moved(o, CancelState).inProcess = o.inProcess
         /\ UnderReview(o, FALSE).inProcess = o.inProcess
         /\ UnderReview(o, TRUE).inProcess = FALSE
         /\ \A auto \in BOOLEAN :
              UnderReview(o, auto).state \in {o.state, "new"}
         /\ \/ PrePaymentAuthorized(o) = o
            \/ AuthorizedState # "" /\ PrePaymentAuthorized(o).state = AuthorizedState
         /\ \/ Finalized(o) = o
            \/ IsFullAmountFinalized /\ Finalized(o).state = "processing"
            \/ /\ o.state = "payment_review" /\ AuthorizedState # ""
               /\ Finalized(o).state = AuthorizedState
         /\ DetailsUpdated(o) = o \/ DetailsUpdated(o).state = "new"
         /\ MadeCancelable(o) = o \/ MadeCancelable(o).state = "new"
         /\ Moved(o, CancelState).state = CancelState
<1>1. \A state : /\ Moved(o, state).inProcess = o.inProcess
                 /\ Moved(o, state).state = state
  BY DEF Moved, OrderType
<1>2. /\ PrePaymentAuthorized(o).inProcess = o.inProcess
      /\ \/ PrePaymentAuthorized(o) = o
         \/ AuthorizedState # "" /\ PrePaymentAuthorized(o).state = AuthorizedState
  BY <1>1 DEF PrePaymentAuthorized
<1>3. /\ Finalized(o).inProcess = o.inProcess
      /\ \/ Finalized(o) = o
         \/ IsFullAmountFinalized /\ Finalized(o).state = "processing"
         \/ /\ o.state = "payment_review" /\ AuthorizedState # ""
            /\ Finalized(o).state = AuthorizedState
  BY <1>1, <1>2, PaidMoves DEF Finalized
<1>4. /\ UnderReview(o, FALSE).inProcess = o.inProcess
      /\ UnderReview(o, TRUE).inProcess = FALSE
      /\ \A auto \in BOOLEAN : UnderReview(o, auto).state \in {o.state, "new"}
  BY DEF UnderReview, OrderType
<1> QED
  BY <1>1, <1>2, <1>3, <1>4 DEF DetailsUpdated, MadeCancelable

(* The handlers that take one step leave the object's state, make it new   *)
(* or cancel it for a reason of theirs, or finalize it after a review.     *)
LEMMA OneStepMoves ==
  ASSUME TypeOK, OneStepHandler
  PROVE  /\ object'.inProcess = object.inProcess
         /\ \/ object'.state = object.state
            \/ /\ object'.state \in {"new", CancelState}
               /\ \/ current.event = "AUTHORISATION" /\ ~current.success
                  \/ current.event = "OFFER_CLOSED" /\ StoredNotes = {}
                  \/ current.event = "ORDER_CLOSED" /\ ~current.success /\ ~object.invoiced
                  \/ current.event = "CANCELLATION" /\ invoices = 0
            \/ /\ current.event = "MANUAL_REVIEW_ACCEPT"
               /\ object' = Finalized(object)
<1> USE DEF Handling, Authorisation
<1>0. object \in OrderType
  BY DEF TypeOK
<1> DEFINE m == MadeCancelable(object)
<1>m. m \in OrderType /\ m.inProcess = object.inProcess /\ m.state \in {object.state, "new"}
  BY <1>0, ObjectTypes, ObjectMoves
<1>h. ASSUME NEW o \in OrderType, HoldCancel(o), o.inProcess = object.inProcess,
             o.state \in {object.state, "new"}
      PROVE  /\ object'.inProcess = object.inProcess
             /\ object'.state \in {object.state, "new", CancelState}
  <2>1. object' \in {o, Moved(o, CancelState)}
    BY <1>h, HoldCancelStep DEF Handled, Thrown
  <2>2. /\ Moved(o, CancelState).inProcess = object.inProcess
        /\ Moved(o, CancelState).state = CancelState
    BY <1>h, ObjectMoves
  <2> QED
    BY <1>h, <2>1, <2>2, Zenon
<1>1. CASE IgnoreAuthorisation
  BY <1>1 DEF IgnoreAuthorisation, Handled
<1>2. CASE RefuseAuthorisation
  <2>1. Handled(object) \/ HoldCancel(m)
    BY <1>2 DEF RefuseAuthorisation
  <2>2. current.event = "AUTHORISATION" /\ ~current.success
    BY <1>2 DEF RefuseAuthorisation, Transition
  <2> QED
    BY <1>m, <1>h, <2>1, <2>2 DEF Handled
<1>3. CASE CloseOffer
  <2>1. \/ Handled(object)
        \/ StoredNotes = {} /\ (HoldCancel(m) \/ HoldCancel(object))
    BY <1>3 DEF CloseOffer, StoredNotes
  <2>2. current.event = "OFFER_CLOSED"
    BY <1>3 DEF CloseOffer
  <2> QED
    BY <1>0, <1>m, <1>h, <2>1, <2>2 DEF Handled
<1>4. CASE CloseOrder
  <2>1. \/ Handled(object)
        \/ CanCancel(object) /\ ~current.success /\ HoldCancel(object)
    BY <1>4 DEF CloseOrder
  <2>2. current.event = "ORDER_CLOSED"
    BY <1>4 DEF CloseOrder
  <2> QED
    BY <1>0, <1>h, <2>1, <2>2 DEF Handled, CanCancel
<1>5. CASE Cancel
  <2>0. current.event = "CANCELLATION"
    BY <1>5 DEF Cancel
  <2>1. CASE invoices > 0
    BY <1>5, <2>1 DEF Cancel, Handled
  <2>2. CASE ~(invoices > 0)
    <3>1. HoldCancel(object)
      BY <1>5, <2>2 DEF Cancel
    <3>2. invoices \in {0, 1, 2}
      BY SmallCounts DEF TypeOK
    <3>3. invoices = 0
      BY <2>2, <3>2
    <3> QED
      BY <1>0, <1>h, <2>0, <3>1, <3>3
  <2> QED
    BY <2>1, <2>2
<1>6. CASE AcceptReview
  BY <1>0, <1>6, ObjectMoves DEF AcceptReview, Handled
<1> QED
  BY <1>1, <1>2, <1>3, <1>4, <1>5, <1>6 DEF OneStepHandler

(* A save takes an order that is in process from new to processing, and   *)
(* nothing else.                                                          *)
LEMMA SavedMoves ==
  ASSUME NEW o \in OrderType
  PROVE  /\ Saved(o).inProcess = FALSE
         /\ \/ Saved(o).state = o.state
            \/ o.inProcess /\ o.state = "new" /\ Saved(o).state = "processing"
  BY DEF Saved, OrderType

(* The steps that change neither the order nor the object. *)
LEMMA IdleSteps ==
  ASSUME [Next]_vars
  PROVE  \/ OneStepHandler \/ RecordPayment \/ AwaitRemainder
         \/ SaveTransaction \/ LeaveToCapture \/ CreateInvoice
         \/ SaveOrder \/ SaveComment
         \/ \E n \in Notes : Load(n)
         \/ /\ UNCHANGED <<order, stored, invoices, object>>
            /\ pc' \in {pc, "idle", "comment"}
            /\ pc' = "comment" => pc \in {"failed", "comment"}
<1>1. CASE MarkDone \/ RecordError \/ LeaveUnhandled \/ Crash
  BY <1>1 DEF MarkDone, RecordError, LeaveUnhandled, Crash, Leave
<1>2. CASE (\E n \in Notes : Arrive(n)) \/ UNCHANGED vars
  BY <1>2 DEF Arrive, vars
<1> QED
  BY <1>1, <1>2 DEF Next, Process, HandleAuthorisation, OneStepHandler

(* What each step between these makes of the object. *)
LEMMA SaveTransactionMoves ==
  ASSUME TypeOK, SaveTransaction
  PROVE  /\ pc = "recorded" /\ pc' \in {"authorised", "failed"}
         /\ IsFullAmountAuthorized
         /\ UNCHANGED <<order, stored, invoices, current>>
         /\ object'.inProcess = object.inProcess
         /\ object'.invoiced = object.invoiced
         /\ \/ object'.state \in {object.state, "new"}
            \/ AuthorizedState # "" /\ object'.state = AuthorizedState
<1> DEFINE p == PrePaymentAuthorized(object)
<1>1. object \in OrderType /\ p \in OrderType
  BY ObjectTypes DEF TypeOK
<1>2. /\ p.inProcess = object.inProcess /\ p.invoiced = object.invoiced
      /\ \/ p.state = object.state
         \/ AuthorizedState # "" /\ p.state = AuthorizedState
  <2>1. p.inProcess = object.inProcess /\ p.invoiced = object.invoiced
    BY <1>1, ObjectMoves, InvoicedKept
  <2>2. p = object \/ (AuthorizedState # "" /\ p.state = AuthorizedState)
    BY <1>1, ObjectMoves
  <2> QED
    BY <2>1, <2>2
<1>3. object' = DetailsUpdated(p)
  BY DEF SaveTransaction
<1>4. /\ object'.inProcess = p.inProcess /\ object'.invoiced = p.invoiced
      /\ object'.state \in {p.state, "new"}
  <2> HIDE DEF p
  <2> QED
    BY <1>1, <1>3, ObjectMoves, InvoicedKept
<1> QED
  BY <1>2, <1>4 DEF SaveTransaction

(* A payment that is to be captured by hand leaves the order to the save, *)
(* at most under review.                                                  *)
LEMMA LeaveToCaptureMoves ==
  ASSUME TypeOK, LeaveToCapture
  PROVE  /\ pc = "authorised" /\ pc' = "save"
         /\ UNCHANGED <<order, stored, invoices, current>>
         /\ object'.inProcess = object.inProcess
         /\ object'.invoiced = object.invoiced
         /\ \/ object' = object
            \/ current.review /\ object'.state \in {object.state, "new"}
<1>1. object \in OrderType
  BY DEF TypeOK
<1>2. object' = object \/ (current.review /\ object' = UnderReview(object, FALSE))
  BY DEF LeaveToCapture, Handled
<1>3. /\ UnderReview(object, FALSE).inProcess = object.inProcess
      /\ UnderReview(object, FALSE).invoiced = object.invoiced
      /\ UnderReview(object, FALSE).state \in {object.state, "new"}
  BY <1>1, ObjectMoves, InvoicedKept
<1>4. /\ pc = "authorised" /\ pc' = "save"
      /\ UNCHANGED <<order, stored, invoices, current>>
  BY DEF LeaveToCapture, Handled
<1> QED
  BY <1>2, <1>3, <1>4, Zenon

Registered(o) == [o EXCEPT !.invoiced = TRUE, !.inProcess = TRUE]

(* An invoice that is registered puts the order object in process and     *)
(* leaves its state.                                                      *)
LEMMA RegisteredMoves ==
  ASSUME NEW o \in OrderType
  PROVE  /\ Registered(o) \in OrderType /\ Registered(o).state = o.state
         /\ Registered(o).invoiced /\ Registered(o).inProcess
  BY DEF Registered, OrderType

(* The automatic invoice, or the failure to make one, and what becomes of *)
(* the order object.                                                      *)
LEMMA CreateInvoiceMoves ==
  ASSUME TypeOK, CreateInvoice
  PROVE  /\ pc = "authorised" /\ pc' \in {"save", "failed"}
         /\ UNCHANGED <<order, stored, current>>
         /\ \/ /\ CanInvoice(object) /\ object'.invoiced
               /\ invoices' > 0 \/ "invoice" \in Faults
            \/ /\ ~CanInvoice(object) /\ invoices' = invoices
               /\ object'.invoiced = object.invoiced
               /\ object'.inProcess => object.inProcess
         /\ \/ object'.state = object.state
            \/ current.review /\ object'.state = "new"
            \/ object'.state = "processing"
            \/ /\ object.state = "payment_review" /\ AuthorizedState # ""
               /\ object'.state = AuthorizedState
<1>1. object \in OrderType /\ Registered(object) \in OrderType
  BY RegisteredMoves DEF TypeOK
<1>2. ASSUME NEW o \in OrderType, o.state = object.state, FinishAutoCapture(o)
      PROVE  /\ object'.invoiced = o.invoiced
             /\ object'.inProcess => o.inProcess
             /\ \/ object'.state = object.state
                \/ current.review /\ object'.state = "new"
                \/ object'.state = "processing"
                \/ /\ object.state = "payment_review" /\ AuthorizedState # ""
                   /\ object'.state = AuthorizedState
  <2>1. CASE current.review /\ object' = UnderReview(o, TRUE)
    BY <1>2, <2>1, ObjectMoves, InvoicedKept
  <2>2. CASE object' = Finalized(o)
    BY <1>2, <2>2, ObjectMoves, InvoicedKept
  <2> QED
    BY <1>2, <2>1, <2>2 DEF FinishAutoCapture, Handled
<1>3. CASE CanInvoice(object)
  <2>1. \/ FinishAutoCapture(Registered(object)) /\ invoices' \in {1, 2}
        \/ "invoice" \in Faults /\ object' = Registered(object)
    BY <1>3 DEF CreateInvoice, Registered, Thrown
  <2>2. object'.invoiced
    BY <1>1, <1>2, <2>1, RegisteredMoves
  <2>3. \/ object'.state = object.state
        \/ current.review /\ object'.state = "new"
        \/ object'.state = "processing"
        \/ /\ object.state = "payment_review" /\ AuthorizedState # ""
           /\ object'.state = AuthorizedState
    BY <1>1, <1>2, <2>1, RegisteredMoves
  <2>4. invoices' > 0 \/ "invoice" \in Faults
    BY <2>1
  <2> QED
    BY <1>3, <2>2, <2>3, <2>4
    DEF CreateInvoice, FinishAutoCapture, Handled, Thrown
<1>4. CASE ~CanInvoice(object)
  <2>1. FinishAutoCapture(object) /\ invoices' = invoices
    BY <1>4 DEF CreateInvoice
  <2> QED
    BY <1>1, <1>2, <1>4, <2>1 DEF CreateInvoice, FinishAutoCapture, Handled
<1> QED
  BY <1>3, <1>4

-----------------------------------------------------------------------------
(* The object and the order                                                *)

(* The object is loaded from the order, and a payment is worked on with an *)
(* open one only.                                                          *)
OpenInv ==
  /\ pc = "handle" => object.state = order.state
  /\ pc \in {"recorded", "authorised"} => object.state \notin {"canceled", "holded"}
  /\ pc = "authorised" => object.state # "payment_review"

(* Every step keeps what is known of the order object while a             *)
(* notification is processed.                                             *)
LEMMA OpenStep == TypeOK /\ OpenInv /\ [Next]_vars => OpenInv'
<1> SUFFICES ASSUME TypeOK, OpenInv, [Next]_vars
             PROVE  OpenInv'
  OBVIOUS
<1>1. CASE OneStepHandler
  BY <1>1, OneStepHandlerEffect DEF OpenInv
<1>2. CASE RecordPayment
  BY <1>2 DEF RecordPayment, Authorisation, Handling, Transition, OpenInv
<1>3. CASE SaveTransaction
  <2> DEFINE p == PrePaymentAuthorized(object)
  <2>1. p \in OrderType /\ object \in OrderType
    BY ObjectTypes DEF TypeOK
  <2>2. p.state \notin {"canceled", "holded"}
    <3>1. object.state \notin {"canceled", "holded"}
      BY <1>3 DEF SaveTransaction, OpenInv
    <3>2. p = object \/ (AuthorizedState # "" /\ p.state = AuthorizedState)
      BY <2>1, ObjectMoves
    <3> QED
      BY <3>1, <3>2, SettingsAssumption
  <2>3. object' = DetailsUpdated(p)
    BY <1>3 DEF SaveTransaction
  <2>4. object'.state \notin {"canceled", "holded", "payment_review"}
    <3> HIDE DEF p
    <3> QED
      BY <2>1, <2>2, <2>3, StateMoved DEF DetailsUpdated
  <2> QED
    BY <1>3, <2>4, SaveTransactionMoves DEF OpenInv
<1>4. CASE LeaveToCapture \/ CreateInvoice
  BY <1>4, LeaveToCaptureMoves, CreateInvoiceMoves DEF OpenInv
<1>5. CASE SaveOrder \/ SaveComment \/ AwaitRemainder
  BY <1>5 DEF SaveOrder, SaveComment, AwaitRemainder, Leave, OpenInv
<1>6. ASSUME NEW n \in Notes, Load(n)
      PROVE  OpenInv'
  <2>1. object'.state = order.state
    BY <1>6 DEF Load, TypeOK, OrderType
  <2> QED
    BY <1>6, <2>1 DEF Load, OpenInv
<1> QED
  BY <1>1, <1>2, <1>3, <1>4, <1>5, <1>6, IdleSteps DEF OpenInv

(* It holds at first, when none is processed. *)
LEMMA InitOpen == Init => OpenInv
  BY DEF Init, OpenInv

-----------------------------------------------------------------------------
(* One invoice                                                             *)

(* An invoice that was made is known to the order, or to the object that   *)
(* will be saved; an object knows what its order knows.                    *)
InvoiceInv ==
  /\ invoices \in {0, 1}
  /\ invoices = 1 =>
       \/ order.invoiced
       \/ pc \in {"save", "failed", "comment"} /\ object.invoiced
  /\ pc \notin {"idle", "mark"} /\ order.invoiced => object.invoiced

NeverKilled == Faults \cap {"crash", "comment"} = {}

(* An order that is invoiced is not invoiced again. *)
LEMMA InvoiceStep ==
  ASSUME NeverKilled
  PROVE  TypeOK /\ InvoiceInv /\ [Next]_vars => InvoiceInv'
<1> SUFFICES ASSUME TypeOK, InvoiceInv, [Next]_vars
             PROVE  InvoiceInv'
  OBVIOUS
<1>0. object \in OrderType /\ order \in OrderType
  BY DEF TypeOK
<1>1. ASSUME NEW n \in Notes, Arrive(n)
      PROVE  InvoiceInv'
  BY <1>1 DEF InvoiceInv, Arrive
<1>2. ASSUME NEW n \in Notes, Load(n)
      PROVE  InvoiceInv'
  <2>1. object'.invoiced = order.invoiced
    BY <1>0, <1>2 DEF Load, OrderType
  <2> QED
    BY <1>2, <2>1 DEF InvoiceInv, Load
<1>3. CASE LeaveUnhandled
  BY <1>3 DEF InvoiceInv, LeaveUnhandled
<1>4. CASE OneStepHandler
  BY <1>4, OneStepHandlerEffect DEF InvoiceInv
<1>5. CASE RecordPayment
  BY <1>5 DEF InvoiceInv, RecordPayment, Authorisation, Handling
<1>6. CASE AwaitRemainder
  BY <1>6 DEF InvoiceInv, AwaitRemainder
<1>7. CASE SaveTransaction
  <2>1. object'.invoiced = object.invoiced
    BY <1>0, <1>7, ObjectTypes, InvoicedKept DEF SaveTransaction
  <2> QED
    BY <1>7, <2>1 DEF InvoiceInv, SaveTransaction
<1>8. CASE LeaveToCapture
  <2>1. object'.invoiced = object.invoiced
    BY <1>0, <1>8, InvoicedKept DEF LeaveToCapture, Handled
  <2> QED
    BY <1>8, <2>1 DEF InvoiceInv, LeaveToCapture, Handled
<1>9. CASE CreateInvoice
  <2> DEFINE o == [object EXCEPT !.invoiced = TRUE, !.inProcess = TRUE]
  <2>1. o \in OrderType /\ o.invoiced
    BY <1>0 DEF OrderType
  <2>2. pc = "authorised" /\ pc' \in {"save", "failed"} /\ order' = order
    BY <1>9 DEF CreateInvoice, FinishAutoCapture, Handled, Thrown
  <2>3. CASE CanInvoice(object)
    <3>1. invoices = 0
      BY <2>2, <2>3 DEF InvoiceInv, CanInvoice
    <3>2. object'.invoiced
      BY <1>9, <2>1, <2>3, InvoicedKept
      DEF CreateInvoice, FinishAutoCapture, Handled, Thrown
    <3>3. invoices' \in {0, 1}
      BY <1>9, <2>3, <3>1 DEF CreateInvoice
    <3> QED
      BY <2>2, <3>2, <3>3 DEF InvoiceInv
  <2>4. CASE ~CanInvoice(object)
    <3>1. object'.invoiced = object.invoiced /\ invoices' = invoices
      BY <1>0, <1>9, <2>4, InvoicedKept
      DEF CreateInvoice, FinishAutoCapture, Handled
    <3> QED
      BY <2>2, <3>1 DEF InvoiceInv
  <2> QED
    BY <2>3, <2>4
<1>10. CASE SaveOrder \/ SaveComment
  <2>1. Saved(object).invoiced = object.invoiced
    BY <1>0, InvoicedKept
  <2>2. CASE order' = Saved(object) /\ pc' \in {"mark", "idle"}
    <3>1. invoices' = invoices /\ (invoices = 1 => object.invoiced)
      BY <1>10 DEF InvoiceInv, SaveOrder, SaveComment
    <3> QED
      BY <2>1, <2>2, <3>1 DEF InvoiceInv
  <2>3. CASE UNCHANGED order /\ pc' = "failed"
    BY <1>10, <2>3 DEF InvoiceInv, SaveOrder, SaveComment, Leave
  <2> QED
    BY <1>10, <2>2, <2>3 DEF SaveOrder, SaveComment, Leave
<1>11. CASE MarkDone
  BY <1>11 DEF InvoiceInv, MarkDone, Leave
<1>12. CASE RecordError
  BY <1>12 DEF InvoiceInv, RecordError
<1>13. CASE Crash
  BY <1>13 DEF Crash, NeverKilled
<1>14. CASE UNCHANGED vars
  BY <1>14 DEF InvoiceInv, vars
<1> QED
  BY <1>1, <1>2, <1>3, <1>4, <1>5, <1>6, <1>7, <1>8, <1>9, <1>10, <1>11,
     <1>12, <1>13, <1>14 DEF Next, Process, HandleAuthorisation, OneStepHandler

(* Whatever notifications come, in whatever order, and whichever steps of  *)
(* their handlers throw: the order is invoiced once, as long as no process *)
(* is killed and the order can be saved with the error's comment.          *)
THEOREM InvoicedAtMostOnce ==
  ASSUME NeverKilled
  PROVE  Spec => []InvoicedOnce
<1>1. Init => InvoiceInv
  BY DEF Init, InvoiceInv
<1>2. InvoiceInv => InvoicedOnce
  BY DEF InvoiceInv, InvoicedOnce
<1> QED
  BY <1>1, <1>2, InitType, StepType, InvoiceStep, PTL DEF Spec

-----------------------------------------------------------------------------
(* A cancelled order stays cancelled                                       *)

(* The object worked on is cancelled when the order is, and no payment is  *)
(* worked on then.                                                         *)
CancelInv ==
  /\ pc \in {"handle", "save", "failed", "comment"} /\ order.state = "canceled"
       => object.state = "canceled"
  /\ pc \in {"recorded", "authorised"} => order.state # "canceled" /\ Payment(current)

AutomaticPayments == \A n \in Notes : Payment(n) => n.auto

(* Every handler of a payment ends with its invoice registered. *)
PaymentsEnd == Faults \subseteq {"invoice", "cancel", "order"}

(* An order that is paid in full is invoiced, hence not cancelled, once    *)
(* its payment was worked off.                                             *)
PaidInv ==
  AutomaticPayments /\ PaymentsEnd /\ Total # 0 =>
    /\ order.state = "canceled" => ~IsFullAmountAuthorized
    /\ IsFullAmountAuthorized =>
         /\ pc \in {"idle", "handle", "mark"} => order.invoiced
         /\ pc \in {"handle", "save", "failed", "comment"} =>
              object.invoiced /\ object.state # "canceled"

(* Accepted reviews finalize no order, or only one whose payments have     *)
(* been worked off.                                                        *)
NothingRevived ==
  \/ \A n \in Notes : n.event = "MANUAL_REVIEW_ACCEPT" => ~n.auto
  \/ AutomaticPayments /\ PaymentsEnd /\ Total # 0

(* The same payments authorise the same amount. *)
LEMMA SameAmount ==
  stored' = stored => IsFullAmountAuthorized' = IsFullAmountAuthorized
  BY DEF IsFullAmountAuthorized

(* When every payment is captured automatically, authorised is finalized. *)
LEMMA FinalizedIsAuthorized ==
  ASSUME PaymentInv, AutomaticPayments
  PROVE  IsFullAmountFinalized = IsFullAmountAuthorized
<1> DEFINE A == {n \in Notes : n.auto}
           f == Amounts(stored, Notes)
           g == Amounts(stored, A)
<1>1. IsFiniteSet(Notes) /\ IsFiniteSet(A) /\ A \in SUBSET Notes
  BY NotesAssumption, FS_Subset
<1>2. /\ NatOn(f, Notes) /\ NatOn(f, A)
      /\ \A n \in Notes \ A : f[n] = 0
      /\ \A n \in A : g[n] = f[n]
  BY AmountsType DEF NatOn, Amounts, PaymentInv, AutomaticPayments
<1>3. Amount(stored, Notes) = SumOver(f, Notes) /\ Amount(stored, A) = SumOver(g, A)
  BY <1>1, AmountIsSum
<1>4. SumOver(f, Notes) = SumOver(g, A)
  <2> HIDE DEF f, g, A
  <2> QED
    BY <1>1, <1>2, SumZeros, SumEqual
<1> QED
  BY <1>3, <1>4 DEF IsFullAmountFinalized, IsFullAmountAuthorized

(* Finishing a payment does not cancel. *)
LEMMA FinishState ==
  ASSUME TypeOK, OpenInv, CreateInvoice
  PROVE  object'.invoiced /\ object'.state # "canceled"
<1>1. object.state \notin {"canceled", "holded", "payment_review"}
  BY CreateInvoiceMoves DEF OpenInv
<1>2. object'.state # "canceled"
  BY <1>1, CreateInvoiceMoves
<1>3. object'.invoiced
  BY <1>1, CreateInvoiceMoves DEF CanInvoice, Open
<1> QED
  BY <1>2, <1>3

(* A cancelled order stays cancelled. *)
LEMMA CancelStep ==
  ASSUME NothingRevived
  PROVE  TypeOK /\ PaymentInv /\ OpenInv /\ CancelInv /\ PaidInv /\ [Next]_vars
           => /\ CancelInv' /\ PaidInv'
              /\ order.state = "canceled" => order'.state = "canceled"
<1> SUFFICES ASSUME TypeOK, PaymentInv, OpenInv, CancelInv, PaidInv, [Next]_vars
             PROVE  /\ CancelInv' /\ PaidInv'
                    /\ order.state = "canceled" => order'.state = "canceled"
  OBVIOUS
<1>0. object \in OrderType /\ order \in OrderType
  BY DEF TypeOK
<1> DEFINE Goal == /\ CancelInv' /\ PaidInv'
                   /\ order.state = "canceled" => order'.state = "canceled"
<1>1. CASE OneStepHandler
  <2>1. /\ pc = "handle" /\ pc' \in {"save", "failed"}
        /\ order' = order /\ stored' = stored /\ current' = current
    BY <1>1, OneStepHandlerEffect DEF OneStepHandler, IgnoreAuthorisation,
       RefuseAuthorisation, CloseOffer, CloseOrder, Cancel, AcceptReview
  <2>2. order.state = "canceled" => object'.state = "canceled"
    <3>1. CASE ~AcceptReview \/ ~current.auto
      <4>1. AcceptReview => object' = object
        BY <3>1 DEF AcceptReview, Handled
      <4>2. ASSUME object.state = "canceled", ~AcceptReview
            PROVE  object' = object
        <5>1. \A o : o = object /\ HoldCancel(o) => object' = object
          BY <1>0, <4>2, HoldCancelEffect
        <5>2. Transition(current, object) = "cancelled"
          BY <4>2 DEF Transition
        <5> QED
          BY <1>1, <4>2, <5>1, <5>2 DEF OneStepHandler, IgnoreAuthorisation,
             RefuseAuthorisation, CloseOffer, CloseOrder, Cancel, Authorisation,
             Handled
      <4> QED
        BY <2>1, <4>1, <4>2 DEF CancelInv
    <3>2. CASE AcceptReview /\ current.auto
      <4>1. current \in Notes /\ current.event = "MANUAL_REVIEW_ACCEPT"
        BY <2>1, <3>2 DEF PaymentInv, Arrived, AcceptReview, Handling
      <4>2. AutomaticPayments /\ PaymentsEnd /\ Total # 0
        BY <3>2, <4>1 DEF NothingRevived
      <4>3. order.state = "canceled" => ~IsFullAmountFinalized
        BY <4>2, FinalizedIsAuthorized DEF PaidInv
      <4> QED
        BY <1>1, <2>1, <4>3, OneStepHandlerEffect DEF CancelInv
    <3> QED
      BY <3>1, <3>2
  <2>3. AutomaticPayments /\ PaymentsEnd /\ Total # 0 /\ IsFullAmountAuthorized =>
          object'.invoiced /\ object'.state # "canceled"
    BY <1>1, <2>1, OneStepHandlerEffect DEF PaidInv
  <2> QED
    BY <2>1, <2>2, <2>3, SameAmount DEF CancelInv, PaidInv
<1>2. CASE RecordPayment
  <2>1. /\ pc = "handle" /\ pc' = "recorded" /\ order' = order
        /\ object' = object /\ object.state \notin {"canceled", "holded"}
        /\ current' = current /\ Payment(current)
    BY <1>2 DEF RecordPayment, Authorisation, Handling, Transition, Payment
  <2>2. order.state # "canceled"
    BY <2>1 DEF CancelInv
  <2> QED
    BY <2>1, <2>2 DEF CancelInv, PaidInv
<1>3. CASE AwaitRemainder
  <2>1. /\ pc = "recorded" /\ pc' = "save" /\ ~IsFullAmountAuthorized
        /\ order' = order /\ stored' = stored /\ object' = object
        /\ current' = current
    BY <1>3 DEF AwaitRemainder
  <2> QED
    BY <2>1, SameAmount DEF CancelInv, PaidInv
<1>4. CASE SaveTransaction
  <2>1. /\ pc = "recorded" /\ order' = order /\ stored' = stored /\ current' = current
        /\ pc' = "authorised" \/ (pc' = "failed" /\ ~PaymentsEnd)
    BY <1>4 DEF SaveTransaction, PaymentsEnd
  <2> QED
    BY <2>1, SameAmount DEF CancelInv, PaidInv
<1>5. CASE LeaveToCapture
  <2>1. /\ pc = "authorised" /\ pc' = "save" /\ ~current.auto
        /\ order' = order /\ current' = current
    BY <1>5 DEF LeaveToCapture, Handled
  <2>2. ~AutomaticPayments
    BY <2>1 DEF CancelInv, AutomaticPayments, PaymentInv, Arrived
  <2> QED
    BY <2>1, <2>2 DEF CancelInv, PaidInv
<1>6. CASE CreateInvoice
  <2>1. /\ pc = "authorised" /\ pc' \in {"save", "failed"}
        /\ order' = order /\ stored' = stored
    BY <1>6, CreateInvoiceMoves
  <2> QED
    BY <1>6, <2>1, FinishState, SameAmount DEF CancelInv, PaidInv
<1>7. CASE SaveOrder \/ SaveComment
  <2>1. /\ Saved(object).invoiced = object.invoiced
        /\ (Saved(object).state = "canceled") = (object.state = "canceled")
    BY <1>0, InvoicedKept, SavedMoves
  <2>2. /\ pc \in {"save", "comment"} /\ stored' = stored /\ object' = object
        /\ \/ order' = Saved(object) /\ pc' \in {"mark", "idle"}
           \/ order' = order /\ pc' = "failed"
    BY <1>7 DEF SaveOrder, SaveComment, Leave
  <2>3. order.state = "canceled" => order'.state = "canceled"
    BY <2>1, <2>2 DEF CancelInv
  <2>4. CancelInv'
    BY <2>2 DEF CancelInv
  <2>5. PaidInv'
    BY <2>1, <2>2, SameAmount DEF PaidInv
  <2> QED
    BY <2>3, <2>4, <2>5
<1>8. ASSUME NEW n \in Notes, Load(n)
      PROVE  Goal
  <2>1. object'.invoiced = order.invoiced /\ object'.state = order.state
    BY <1>0, <1>8 DEF Load, OrderType
  <2>2. order' = order /\ pc = "idle" /\ pc' = "handle" /\ stored' = stored
    BY <1>8 DEF Load
  <2> QED
    BY <2>1, <2>2, SameAmount DEF CancelInv, PaidInv
<1>9. CASE Crash
  <2>1. pc' = "idle" /\ order' = order /\ stored' = stored /\ ~PaymentsEnd
    BY <1>9 DEF Crash, Leave, PaymentsEnd
  <2> QED
    BY <2>1 DEF CancelInv, PaidInv
<1>10. CASE MarkDone \/ RecordError \/ LeaveUnhandled
  <2>1. /\ order' = order /\ stored' = stored /\ object' = object
        /\ \/ pc \in {"mark", "handle"} /\ pc' = "idle"
           \/ pc = "failed" /\ pc' = "comment"
    BY <1>10 DEF MarkDone, RecordError, LeaveUnhandled, Leave
  <2> QED
    BY <2>1, SameAmount DEF CancelInv, PaidInv
<1>11. CASE (\E n \in Notes : Arrive(n)) \/ UNCHANGED vars
  <2>1. /\ pc' = pc /\ order' = order /\ object' = object /\ stored' = stored
        /\ current' = current
    BY <1>11 DEF Arrive, vars
  <2> QED
    BY <2>1, SameAmount DEF CancelInv, PaidInv
<1> QED
  BY <1>1, <1>2, <1>3, <1>4, <1>5, <1>6, <1>7, <1>8, <1>9, <1>10, <1>11
  DEF Next, Process, HandleAuthorisation, OneStepHandler

(* No notification revives a cancelled order, whatever fails, as long as   *)
(* no review of an automatically captured payment is accepted; and with    *)
(* such reviews too when all payments are captured automatically and their *)
(* handlers are neither killed nor stopped before the invoice.             *)
THEOREM CancelledForGood ==
  ASSUME NothingRevived
  PROVE  Spec => CancelIsFinal
<1>1. Init => CancelInv /\ PaidInv
  <2> SUFFICES ASSUME Init
               PROVE  CancelInv /\ PaidInv
    OBVIOUS
  <2>1. pc = "idle" /\ order.state # "canceled"
    BY DEF Init
  <2>2. PaymentInv /\ StoredNotes = {}
    <3>1. \A n \in Notes : stored[n] = 0
      BY DEF Init
    <3> QED
      BY <3>1, InitPayments DEF StoredNotes
  <2>3. Total # 0 => ~IsFullAmountAuthorized
    BY <2>2, NothingAuthorised, AuthorisedIsPaid
  <2> QED
    BY <2>1, <2>3 DEF CancelInv, PaidInv, NothingRevived
<1>2. TypeOK /\ PaymentInv /\ OpenInv /\ CancelInv /\ PaidInv /\ [Next]_vars
        => [order.state = "canceled" => order'.state = "canceled"]_vars
  BY CancelStep
<1>3. TypeOK /\ PaymentInv /\ OpenInv /\ CancelInv /\ PaidInv /\ [Next]_vars
        => CancelInv' /\ PaidInv'
  BY CancelStep
<1> QED
  BY <1>1, <1>2, <1>3, InitType, StepType, InitPayments, PaymentStep, InitOpen,
     OpenStep, PTL DEF Spec, CancelIsFinal

-----------------------------------------------------------------------------
(* Paid in full                                                            *)

(* An order object that is called authorised, or will be by its next save. *)
CallsPaid(o) ==
  o.state \in {"adyen_authorized", "processing"} \/ o.inProcess

FullInv ==
  CallsPaid(order) \/ CallsPaid(object) \/ pc = "authorised" => Authorised >= Total

(* An accepted review does not call an order authorised that waits for the *)
(* rest of its payments.                                                   *)
ReviewsWait ==
  AuthorizedState = "adyen_authorized"
    => \A n \in Notes : n.event # "MANUAL_REVIEW_ACCEPT"

(* The same payments add up to the same amount. *)
LEMMA SameAuthorised ==
  PaymentInv /\ PaymentInv' /\ stored' = stored => Authorised' = Authorised
  BY AuthorisedIsAmount, AuthorisedNext

(* An order gets beyond its new states when the payments cover the total. *)
LEMMA FullStep ==
  ASSUME ReviewsWait
  PROVE  TypeOK /\ PaymentInv /\ PaymentInv' /\ FullInv /\ [Next]_vars => FullInv'
<1> SUFFICES ASSUME TypeOK, PaymentInv, PaymentInv', FullInv, [Next]_vars
             PROVE  FullInv'
  OBVIOUS
<1> USE DEF CallsPaid
<1>0. object \in OrderType /\ order \in OrderType
  BY DEF TypeOK
<1>1. CASE OneStepHandler
  <2>1. /\ pc' # "authorised" /\ order' = order /\ Authorised' = Authorised
    BY <1>1, OneStepHandlerEffect, SameAuthorised
  <2>2. CallsPaid(object') => Authorised >= Total
    <3>1. CASE CallsPaid(object)
      BY <3>1 DEF FullInv
    <3>2. CASE ~CallsPaid(object) /\ object'.state # object.state
      <4>1. CASE object'.state \in {"new", CancelState}
        BY <1>1, <3>2, <4>1, OneStepMoves, SettingsAssumption
      <4>2. CASE /\ current.event = "MANUAL_REVIEW_ACCEPT"
                 /\ object' = Finalized(object)
        <5>1. current \in Notes
          BY <1>1, OneStepHandlerEffect DEF PaymentInv, Arrived
        <5>2. AuthorizedState # "adyen_authorized"
          BY <4>2, <5>1 DEF ReviewsWait
        <5>3. \/ object'.state \in {object.state, "", "new"}
              \/ IsFullAmountFinalized
          BY <1>0, <4>2, <5>2, ObjectMoves, SettingsAssumption
        <5> QED
          BY <1>1, <3>2, <5>3, OneStepMoves, FinalizedIsPaid
      <4> QED
        BY <1>1, <3>2, <4>1, <4>2, OneStepMoves
    <3>3. CASE ~CallsPaid(object) /\ object'.state = object.state
      BY <1>1, <3>3, OneStepMoves
    <3> QED
      BY <3>1, <3>2, <3>3
  <2> QED
    BY <2>1, <2>2 DEF FullInv
<1>2. CASE RecordPayment
  <2>1. \A n \in Notes : stored[n] <= stored'[n]
    <3>1. \A n \in Notes : stored[n] \in {0, 1} /\ stored'[n] \in {0, 1}
      BY DEF PaymentInv
    <3>2. \A n \in Notes : stored'[n] = stored[n] \/ stored'[n] = 1
      BY <1>2 DEF RecordPayment, TypeOK
    <3> QED
      BY <3>1, <3>2
  <2>2. Authorised <= Authorised' /\ Authorised \in Nat
    BY <2>1, AmountGrows, AuthorisedIsAmount
  <2>3. order' = order /\ object' = object /\ pc' # "authorised"
    BY <1>2 DEF RecordPayment
  <2>4. Authorised' \in Nat
    BY AuthorisedNext
  <2>5. Authorised >= Total => Authorised' >= Total
    BY <2>2, <2>4, NotesAssumption
  <2> QED
    BY <2>3, <2>5 DEF FullInv
<1>3. CASE AwaitRemainder
  BY <1>3, SameAuthorised DEF AwaitRemainder, FullInv
<1>4. CASE SaveTransaction
  <2>1. Authorised >= Total
    BY <1>4, AuthorisedIsPaid DEF SaveTransaction
  <2> QED
    BY <1>4, <2>1, SameAuthorised, SaveTransactionMoves DEF FullInv
<1>5. CASE LeaveToCapture \/ CreateInvoice
  BY <1>5, SameAuthorised, LeaveToCaptureMoves, CreateInvoiceMoves DEF FullInv
<1>6. CASE SaveOrder \/ SaveComment
  <2>1. /\ stored' = stored /\ object' = object /\ pc' # "authorised"
        /\ order' \in {order, Saved(object)}
    BY <1>6 DEF SaveOrder, SaveComment, Leave
  <2> QED
    BY <1>0, <2>1, SavedMoves, SameAuthorised DEF FullInv
<1>7. ASSUME NEW n \in Notes, Load(n)
      PROVE  FullInv'
  <2>1. /\ order' = order /\ stored' = stored /\ pc' # "authorised"
        /\ object'.state = order.state /\ object'.inProcess = order.inProcess
    BY <1>0, <1>7 DEF Load, OrderType
  <2> QED
    BY <2>1, SameAuthorised DEF FullInv
<1> QED
  BY <1>1, <1>2, <1>3, <1>4, <1>5, <1>6, <1>7, IdleSteps, SameAuthorised
  DEF FullInv

(* An order is called authorised or processed only when its payments add   *)
(* up to its total, for any payments of any amounts, whatever fails and    *)
(* however often their notifications are tried again.                      *)
THEOREM OnlyPaidInFull ==
  ASSUME ReviewsWait
  PROVE  Spec => []PaidInFull
<1>1. Init => FullInv
  BY DEF Init, FullInv, CallsPaid
<1>2. FullInv => PaidInFull
  BY DEF FullInv, CallsPaid, PaidInFull
<1>3. TypeOK /\ PaymentInv /\ FullInv /\ [Next]_vars => FullInv'
  BY PaymentStep, FullStep
<1> QED
  BY <1>1, <1>2, <1>3, InitType, StepType, InitPayments, PaymentStep, PTL DEF Spec

-----------------------------------------------------------------------------
(* Invoiced when processed                                                 *)

(* An order, or an object, that tells of an invoice. *)
TellsInvoiced(o) == o.state = "processing" \/ o.inProcess \/ o.invoiced

InvoicesInv == TellsInvoiced(order) \/ TellsInvoiced(object) => invoices > 0

(* The invoice can be saved, and no accepted review finalizes the order    *)
(* instead of the payment's own notification.                              *)
InvoicesMade ==
  "invoice" \notin Faults /\ \A n \in Notes : n.event # "MANUAL_REVIEW_ACCEPT"

(* An order that is past its payment has an invoice. *)
LEMMA InvoicesStep ==
  ASSUME InvoicesMade
  PROVE  TypeOK /\ PaymentInv /\ OpenInv /\ InvoicesInv /\ [Next]_vars => InvoicesInv'
<1> SUFFICES ASSUME TypeOK, PaymentInv, OpenInv, InvoicesInv, [Next]_vars
             PROVE  InvoicesInv'
  OBVIOUS
<1> USE DEF TellsInvoiced
<1>0. object \in OrderType /\ order \in OrderType
  BY DEF TypeOK
<1>1. CASE OneStepHandler
  <2>1. /\ order' = order /\ invoices' = invoices
        /\ object'.invoiced = object.invoiced /\ object'.inProcess = object.inProcess
    BY <1>1, OneStepHandlerEffect, OneStepMoves
  <2>2. current \in Notes
    BY <1>1, OneStepHandlerEffect DEF PaymentInv, Arrived
  <2>3. object'.state \in {object.state, "new", CancelState}
    BY <1>1, <2>2, OneStepMoves DEF InvoicesMade
  <2> QED
    BY <2>1, <2>3, SettingsAssumption DEF InvoicesInv
<1>2. CASE RecordPayment \/ AwaitRemainder
  BY <1>2 DEF RecordPayment, AwaitRemainder, InvoicesInv
<1>3. CASE SaveTransaction
  BY <1>3, SaveTransactionMoves, SettingsAssumption DEF InvoicesInv
<1>4. CASE LeaveToCapture
  BY <1>4, LeaveToCaptureMoves DEF InvoicesInv
<1>5. CASE CreateInvoice
  <2>1. CASE CanInvoice(object)
    BY <1>5, <2>1, CreateInvoiceMoves DEF InvoicesMade, InvoicesInv
  <2>2. CASE ~CanInvoice(object)
    <3>1. object.invoiced
      BY <1>5, <2>2, CreateInvoiceMoves DEF OpenInv, CanInvoice, Open
    <3> QED
      BY <1>5, <2>2, <3>1, CreateInvoiceMoves DEF InvoicesInv
  <2> QED
    BY <2>1, <2>2
<1>6. CASE SaveOrder \/ SaveComment
  <2>1. /\ invoices' = invoices /\ object' = object
        /\ order' \in {order, Saved(object)}
    BY <1>6 DEF SaveOrder, SaveComment
  <2>2. Saved(object).invoiced = object.invoiced
    BY <1>0, InvoicedKept
  <2> QED
    BY <1>0, <2>1, <2>2, SavedMoves DEF InvoicesInv
<1>7. ASSUME NEW n \in Notes, Load(n)
      PROVE  InvoicesInv'
  <2>1. /\ order' = order /\ invoices' = invoices
        /\ object'.state = order.state /\ object'.inProcess = order.inProcess
        /\ object'.invoiced = order.invoiced
    BY <1>0, <1>7 DEF Load, OrderType
  <2> QED
    BY <2>1 DEF InvoicesInv
<1> QED
  BY <1>1, <1>2, <1>3, <1>4, <1>5, <1>6, <1>7, IdleSteps DEF InvoicesInv

(* An order in processing has an invoice, whatever attempt at it was killed *)
(* or threw before or after the invoice was made.                          *)
THEOREM ProcessedIsInvoiced ==
  ASSUME InvoicesMade
  PROVE  Spec => []PaidIsInvoiced
<1>1. Init => InvoicesInv
  BY DEF Init, InvoicesInv, TellsInvoiced
<1>2. InvoicesInv => PaidIsInvoiced
  BY DEF InvoicesInv, TellsInvoiced, PaidIsInvoiced
<1> QED
  BY <1>1, <1>2, InitType, StepType, InitPayments, PaymentStep, InitOpen,
     OpenStep, InvoicesStep, PTL DEF Spec

-----------------------------------------------------------------------------
(* Paid, not cancelled                                                     *)

Gone(o) == o.state \in {"canceled", "holded"}

(* The notifications that leave an order alone some payment of which is    *)
(* stored.                                                                 *)
Keeps(n) ==
  \/ Payment(n)
  \/ n.event \in {"OFFER_CLOSED", "MANUAL_REVIEW_ACCEPT"}
  \/ n.event = "ORDER_CLOSED" /\ n.success

(* What comes together does not pay the order. *)
PaysTooLittle(d) ==
  Amount([n \in Notes |-> 1], {n \in Notes \cap d : Payment(n)}) < Total

(* What may take an order back, a refused attempt, a cancellation or an    *)
(* order closed without success, comes only without its full payment.      *)
CancelsUnpaid ==
  /\ Total # 0
  /\ \A d \in Deliveries : (\A n \in Notes \cap d : Keeps(n)) \/ PaysTooLittle(d)

GoneInv ==
  (\A n \in Arrived : Keeps(n)) =>
    (Gone(order) \/ Gone(object) => StoredNotes = {})

(* An order that is paid in full is not cancelled. *)
LEMMA GoneStep ==
  TypeOK /\ PaymentInv /\ OpenInv /\ GoneInv /\ [Next]_vars => GoneInv'
<1> SUFFICES ASSUME TypeOK, PaymentInv, OpenInv, GoneInv, [Next]_vars,
                    \A n \in Arrived' : Keeps(n)
             PROVE  Gone(order') \/ Gone(object') => StoredNotes' = {}
  BY DEF GoneInv, Gone
<1> USE DEF Gone
<1>0. object \in OrderType /\ order \in OrderType
  BY DEF TypeOK
<1>a. Arrived \subseteq Arrived'
  <2>1. \A n \in Notes : rows[n] # "absent" => rows'[n] # "absent"
    <3>1. ASSUME NEW m \in Notes \cup {current},
                 \E v \in {"waiting", "in progress", "done"} : rows' = [rows EXCEPT ![m] = v]
          PROVE  \A n \in Notes : rows[n] # "absent" => rows'[n] # "absent"
      BY <3>1 DEF TypeOK
    <3>2. CASE rows' = rows
      BY <3>2
    <3> QED
      BY <3>1, <3>2 DEF Next, Process, vars, Arrive, Load, LeaveUnhandled,
         HandleAuthorisation, IgnoreAuthorisation, RecordPayment,
         AwaitRemainder, SaveTransaction, LeaveToCapture, CreateInvoice,
         RefuseAuthorisation, CloseOffer, CloseOrder, Cancel, AcceptReview,
         SaveOrder, MarkDone, RecordError, SaveComment, Crash
  <2> QED
    BY <2>1 DEF Arrived
<1>b. \A n \in Arrived : Keeps(n)
  BY <1>a
<1>c. Gone(order) \/ Gone(object) => StoredNotes = {}
  BY <1>b DEF GoneInv
<1>d. stored' = stored => StoredNotes' = StoredNotes
  BY DEF StoredNotes
<1>1. CASE OneStepHandler
  <2>1. order' = order /\ stored' = stored /\ current \in Arrived /\ Keeps(current)
    BY <1>1, <1>b, OneStepHandlerEffect DEF PaymentInv
  <2>2. \/ object'.state = object.state
        \/ object'.state \in {"new", CancelState} /\ StoredNotes = {}
        \/ object' = Finalized(object)
    BY <1>1, <2>1, OneStepMoves DEF Keeps, Payment
  <2>3. Finalized(object).state \in {object.state, "processing", "new", "adyen_authorized"}
    BY <1>0, ObjectMoves, SettingsAssumption
  <2> QED
    BY <1>c, <1>d, <2>1, <2>2, <2>3
<1>2. CASE RecordPayment
  <2>1. object.state \notin {"holded", "canceled"} /\ pc = "handle"
    BY <1>2 DEF RecordPayment, Authorisation, Handling, Transition
  <2>2. order' = order /\ object' = object /\ order.state = object.state
    BY <1>2, <2>1 DEF RecordPayment, OpenInv
  <2> QED
    BY <2>1, <2>2
<1>3. CASE AwaitRemainder
  BY <1>3, <1>c, <1>d DEF AwaitRemainder
<1>4. CASE SaveTransaction \/ LeaveToCapture \/ CreateInvoice
  <2>1. /\ order' = order /\ stored' = stored
        /\ object'.state \in
             {object.state, "new", "processing", AuthorizedState}
        /\ object'.state = AuthorizedState => AuthorizedState # "" \/ object'.state = object.state
    BY <1>4, SaveTransactionMoves, LeaveToCaptureMoves, CreateInvoiceMoves
  <2>2. Gone(object') => Gone(object)
    BY <2>1, SettingsAssumption
  <2> QED
    BY <1>c, <1>d, <2>1, <2>2
<1>5. CASE SaveOrder \/ SaveComment
  <2>1. /\ object' = object /\ order' \in {order, Saved(object)} /\ stored' = stored
    BY <1>5 DEF SaveOrder, SaveComment
  <2>2. Gone(Saved(object)) => Gone(object)
    BY <1>0, SavedMoves
  <2> QED
    BY <1>c, <1>d, <2>1, <2>2
<1>6. ASSUME NEW n \in Notes, Load(n)
      PROVE  Gone(order') \/ Gone(object') => StoredNotes' = {}
  <2>1. order' = order /\ stored' = stored /\ object'.state = order.state
    BY <1>0, <1>6 DEF Load, OrderType
  <2> QED
    BY <1>c, <1>d, <2>1
<1> QED
  BY <1>1, <1>2, <1>3, <1>4, <1>5, <1>6, <1>c, <1>d, IdleSteps

(* A delivery that pays too little cannot authorise the total. *)
LEMMA TooLittleStored ==
  ASSUME PaymentInv, NEW d, StoredNotes \subseteq d, PaysTooLittle(d)
  PROVE  Authorised < Total
<1> DEFINE P == {n \in Notes \cap d : Payment(n)}
           ones == [n \in Notes |-> 1]
           f == Amounts(stored, Notes)
           g == Amounts(ones, P)
<1>0. IsFiniteSet(P) /\ IsFiniteSet(StoredNotes) /\ StoredNotes \in SUBSET P
  BY NotesAssumption, FS_Subset DEF StoredNotes, PaymentInv
<1>1. \A n \in P : n.amount \in Nat
  BY SettingsAssumption DEF NoteType
<1>2. \A n \in P : g[n] = 1 * n.amount
  BY DEF Amounts
<1>3. \A k \in Nat : 1 * k = k
  OBVIOUS
<1>4. \A n \in StoredNotes : f[n] = n.amount
  BY AmountsType DEF Amounts, StoredNotes
<1>5. NatOn(g, P) /\ NatOn(f, StoredNotes) /\ \A n \in StoredNotes : f[n] <= g[n]
  <2>1. \A n \in P : g[n] \in Nat /\ g[n] = n.amount
    BY <1>1, <1>2, <1>3
  <2> HIDE DEF f, g, P
  <2> QED
    BY <1>0, <1>4, <2>1 DEF NatOn
<1>6. SumOver(f, StoredNotes) <= SumOver(g, P) /\ SumOver(g, P) \in Nat
  <2> HIDE DEF f, g, P
  <2> QED
    BY <1>0, <1>5, SumMonotone, SumType
<1>7. Amount(stored, Notes) = SumOver(f, StoredNotes)
  <2>1. NatOn(f, Notes) /\ \A n \in Notes \ StoredNotes : f[n] = 0
    BY AmountsType DEF Amounts
  <2>2. StoredNotes \in SUBSET Notes
    BY DEF StoredNotes
  <2> HIDE DEF f
  <2> QED
    BY <2>1, <2>2, NotesAssumption, SumZeros, AmountIsSum DEF f
<1>8. SumOver(g, P) < Total
  BY <1>0, AmountIsSum DEF PaysTooLittle
<1>9. Authorised \in Nat /\ Authorised = SumOver(f, StoredNotes)
  BY <1>7, AuthorisedIsAmount
<1> HIDE DEF f, g, P
<1> QED
  BY <1>6, <1>8, <1>9, NotesAssumption

(* An order that was authorised in full is not cancelled: by an offer that *)
(* is closed while its payments arrive, in whatever order all these are    *)
(* notified, and whatever fails.  A refused attempt, a cancellation or an  *)
(* order closed without success takes it back (CancelsUnpaid).             *)
THEOREM PaidStays ==
  ASSUME CancelsUnpaid
  PROVE  Spec => []PaidNotCancelled
<1>1. Init => GoneInv
  BY DEF Init, GoneInv, StoredNotes
<1>2. PaymentInv /\ GoneInv => PaidNotCancelled
  <2> SUFFICES ASSUME PaymentInv, GoneInv, Authorised = Total
               PROVE  ~Gone(order)
    BY DEF PaidNotCancelled, Gone
  <2>1. StoredNotes # {}
    BY NothingAuthorised DEF CancelsUnpaid
  <2>2. StoredNotes \subseteq Arrived
    BY DEF PaymentInv
  <2>3. PICK d \in Deliveries : Arrived \subseteq d
    BY <2>1, <2>2 DEF PaymentInv
  <2>4. ~PaysTooLittle(d)
    BY <2>2, <2>3, TooLittleStored, AuthorisedIsAmount
  <2>5. \A n \in Arrived : Keeps(n)
    BY <2>3, <2>4 DEF CancelsUnpaid, Arrived
  <2> QED
    BY <2>1, <2>5 DEF GoneInv
<1> QED
  BY <1>1, <1>2, InitType, StepType, InitPayments, PaymentStep, InitOpen,
     OpenStep, GoneStep, PTL DEF Spec

-----------------------------------------------------------------------------
(* The order's life                                                        *)

(* No attempt is refused or put under review, no order is called           *)
(* authorised before it is processed, and the invoice can be saved.        *)
PlainPayments ==
  /\ AuthorizedState = "" /\ Total # 0
  /\ InvoicesMade
  /\ \A n \in Notes : ~n.review /\ (n.event = "AUTHORISATION" => n.success)

(* A processed order has its items invoiced and a payment stored. *)
Settled(o) ==
  o.state = "processing" \/ o.inProcess => o.invoiced /\ StoredNotes # {}

(* The object that will be saved is as far as the order is. *)
LifeInv ==
  /\ Settled(order) /\ Settled(object)
  /\ pc = "authorised" => StoredNotes # {}
  /\ pc \in {"handle", "recorded", "authorised", "save", "failed", "comment"} =>
       /\ order.state = "processing" => object.state = "processing"
       /\ Gone(order) => object.state = order.state
  /\ pc \in {"recorded", "authorised"} => ~Gone(order)

(* The order goes on, or stays as it is. *)
Onwards == StatusOf(order) \in {"Open", StatusOf(order')}

(* Every step of the order is one of its life as the abstract             *)
(* specification has it, or none.                                         *)
LEMMA LifeStep ==
  ASSUME PlainPayments
  PROVE  TypeOK /\ PaymentInv /\ PaymentInv' /\ OpenInv /\ InvoicesInv /\ LifeInv
           /\ [Next]_vars => LifeInv' /\ Onwards
<1> SUFFICES ASSUME TypeOK, PaymentInv, PaymentInv', OpenInv, InvoicesInv, LifeInv,
                    [Next]_vars
             PROVE  LifeInv' /\ Onwards
  OBVIOUS
<1> USE DEF Gone
<1>0. object \in OrderType /\ order \in OrderType
  BY DEF TypeOK
<1>s. stored' = stored => StoredNotes' = StoredNotes
  BY DEF StoredNotes
<1>o. order' = order => Onwards
  BY DEF Onwards
<1>c. pc # "idle" => current \in Notes
  BY DEF PaymentInv, Arrived
<1>1. CASE OneStepHandler
  <2>1. /\ order' = order /\ stored' = stored
        /\ object'.invoiced = object.invoiced /\ object'.inProcess = object.inProcess
        /\ pc = "handle" /\ pc' \in {"save", "failed"} /\ current \in Notes
        /\ order.state = object.state
    BY <1>1, <1>c, OneStepHandlerEffect, OneStepMoves DEF OpenInv
  <2>2. \/ object'.state = object.state
        \/ /\ object'.state \in {"new", CancelState}
           /\ object.state \notin {"processing", "canceled", "holded"}
    <3>1. object.state # "holded"
      BY <1>1 DEF OneStepHandler, IgnoreAuthorisation, RefuseAuthorisation, CloseOffer,
         CloseOrder, Cancel, AcceptReview, Authorisation, Handling
    <3>2. object.state = "canceled" => object'.state = "canceled"
      <4>1. object.state = "canceled" => object' = object
        <5> SUFFICES ASSUME object.state = "canceled" PROVE object' = object
          OBVIOUS
        <5>1. \A o : o = object /\ HoldCancel(o) => object' = object
          BY <1>0, HoldCancelEffect
        <5>2. Transition(current, object) = "cancelled"
          BY DEF Transition
        <5>3. ~AcceptReview
          BY <2>1 DEF PlainPayments, InvoicesMade, AcceptReview, Handling
        <5> QED
          BY <1>1, <5>1, <5>2, <5>3 DEF OneStepHandler, IgnoreAuthorisation,
             RefuseAuthorisation, CloseOffer, CloseOrder, Cancel, Authorisation, Handled
      <4> QED
        BY <4>1
    <3>3. object.state = "processing" => object.invoiced /\ StoredNotes # {}
      BY DEF LifeInv, Settled
    <3>4. object.state = "processing" => invoices # 0
      <4>1. object.state = "processing" => invoices > 0
        BY DEF InvoicesInv, TellsInvoiced
      <4> QED
        BY <4>1
    <3> QED
      BY <1>1, <2>1, <3>1, <3>2, <3>3, <3>4, OneStepMoves DEF PlainPayments, InvoicesMade
  <2> QED
    BY <1>s, <1>o, <2>1, <2>2, SettingsAssumption DEF LifeInv, Settled
<1>2. CASE RecordPayment
  <2>1. object.state \notin {"holded", "canceled"} /\ pc = "handle" /\ pc' = "recorded"
    BY <1>2 DEF RecordPayment, Authorisation, Handling, Transition
  <2>2. order' = order /\ object' = object /\ order.state = object.state
    BY <1>2, <2>1 DEF RecordPayment, OpenInv
  <2>3. StoredNotes # {} => StoredNotes' # {}
    BY <1>2 DEF RecordPayment, StoredNotes, TypeOK
  <2> QED
    BY <1>o, <2>1, <2>2, <2>3 DEF LifeInv, Settled
<1>3. CASE AwaitRemainder
  BY <1>3, <1>s, <1>o DEF AwaitRemainder, LifeInv, Settled
<1>4. CASE SaveTransaction
  <2>1. StoredNotes # {}
    BY <1>4, NothingAuthorised, AuthorisedIsPaid DEF SaveTransaction, PlainPayments
  <2>2. /\ order' = order /\ stored' = stored
        /\ object' = DetailsUpdated(object)
        /\ pc = "recorded" /\ pc' \in {"authorised", "failed"}
    BY <1>4 DEF SaveTransaction, PrePaymentAuthorized, PlainPayments
  <2>3. /\ \/ object'.state = object.state
           \/ object.state = "payment_review" /\ object'.state = "new"
        /\ object'.invoiced = object.invoiced /\ object'.inProcess = object.inProcess
    <3>1. object'.invoiced = object.invoiced /\ object'.inProcess = object.inProcess
      BY <1>0, <2>2, ObjectMoves, InvoicedKept
    <3>2. Moved(object, "new").state = "new"
      BY <1>0, StateMoved
    <3> QED
      BY <2>2, <3>1, <3>2 DEF DetailsUpdated
  <2> QED
    BY <1>s, <1>o, <2>1, <2>2, <2>3 DEF LifeInv, Settled
<1>5. CASE LeaveToCapture
  <2>1. /\ order' = order /\ stored' = stored /\ object' = object
        /\ pc = "authorised" /\ pc' = "save"
    BY <1>5, <1>c, LeaveToCaptureMoves DEF PlainPayments
  <2> QED
    BY <1>s, <1>o, <2>1 DEF LifeInv, Settled
<1>6. CASE CreateInvoice
  <2>1. /\ order' = order /\ stored' = stored /\ StoredNotes # {}
        /\ pc = "authorised" /\ pc' \in {"save", "failed"}
        /\ object'.state \in {object.state, "processing"}
        /\ ~Gone(order)
    BY <1>6, <1>c, CreateInvoiceMoves DEF PlainPayments, LifeInv
  <2>2. object'.invoiced
    <3>1. CASE CanInvoice(object)
      BY <1>6, <3>1, CreateInvoiceMoves
    <3>2. CASE ~CanInvoice(object)
      BY <1>6, <2>1, <3>2, CreateInvoiceMoves DEF OpenInv, CanInvoice, Open
    <3> QED
      BY <3>1, <3>2
  <2> QED
    BY <1>s, <1>o, <2>1, <2>2 DEF LifeInv, Settled
<1>7. CASE SaveOrder \/ SaveComment
  <2>1. /\ stored' = stored /\ object' = object
        /\ pc \in {"save", "comment"}
        /\ \/ order' = Saved(object) /\ pc' \in {"mark", "idle"}
           \/ order' = order /\ pc' = "failed"
    BY <1>7 DEF SaveOrder, SaveComment, Leave
  <2>2. CASE order' = order
    BY <1>s, <1>o, <2>1, <2>2 DEF LifeInv, Settled
  <2>3. CASE order' = Saved(object) /\ pc' \in {"mark", "idle"}
    <3>1. Saved(object).invoiced = object.invoiced
      BY <1>0, InvoicedKept
    <3>2. Settled(Saved(object))
      BY <1>0, <3>1, SavedMoves DEF LifeInv, Settled
    <3>3. LifeInv'
      BY <1>s, <2>1, <2>3, <3>2 DEF LifeInv, Settled
    <3>4. Onwards
      BY <1>0, <2>1, <2>3, SavedMoves DEF LifeInv, Onwards, StatusOf
    <3> QED
      BY <3>3, <3>4
  <2> QED
    BY <2>1, <2>2, <2>3
<1>8. ASSUME NEW n \in Notes, Load(n)
      PROVE  LifeInv' /\ Onwards
  <2>1. /\ order' = order /\ stored' = stored /\ object'.state = order.state
        /\ object'.inProcess = order.inProcess /\ object'.invoiced = order.invoiced
        /\ pc' = "handle"
    BY <1>0, <1>8 DEF Load, OrderType
  <2> QED
    BY <1>s, <1>o, <2>1 DEF LifeInv, Settled
<1> QED
  BY <1>1, <1>2, <1>3, <1>4, <1>5, <1>6, <1>7, <1>8, <1>s, <1>o, IdleSteps
  DEF LifeInv, Settled

(* With payments that are neither refused nor reviewed the order lives as  *)
(* the shop promises: it is open until it is paid or cancelled, for good.  *)
THEOREM OrderLives ==
  ASSUME PlainPayments
  PROVE  Spec => ImplementsLife
<1>0. InvoicesMade
  BY DEF PlainPayments
<1>1. Init => LifeInv /\ InvoicesInv
  BY DEF Init, LifeInv, Settled, Gone, InvoicesInv, TellsInvoiced
<1>2. Init => Life!Init
  BY DEF Init, Life!Init, StatusOf
<1>4. Onwards => [Life!Next]_(StatusOf(order))
  BY DEF Onwards, StatusOf, Life!Next, Life!Pay, Life!Cancel, Life!Settle
<1>5. TypeOK /\ PaymentInv /\ PaymentInv' /\ OpenInv /\ InvoicesInv /\ LifeInv
           /\ [Next]_vars => LifeInv' /\ [Life!Next]_(StatusOf(order))
  BY <1>4, LifeStep
<1> QED
  BY <1>0, <1>1, <1>2, <1>5, InitType, StepType, InitPayments, PaymentStep, InitOpen,
     OpenStep, InvoicesStep, PTL DEF Spec, ImplementsLife, Life!Spec
=============================================================================
