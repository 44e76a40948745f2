-------------------------- MODULE Giftcards_proofs --------------------------
(***************************************************************************)
(* Theorems about Giftcards, for any cards, balances, limits, totals, rows *)
(* of earlier visits and number of calls: the types, and that what the     *)
(* page shows of the redeemed cards is what the server has redeemed, once  *)
(* its calls are answered.                                                 *)
(***************************************************************************)
EXTENDS Giftcards, FiniteSums

-----------------------------------------------------------------------------
(* What rows of state data add up to                                       *)

Values(R) == [row \in R |-> Consumable(row.card)]

(* A card can be charged a natural number. *)
LEMMA ConsumableType ==
  ASSUME NEW c \in Cards
  PROVE  Consumable(c) \in Nat
  BY GiftcardAssumption DEF Consumable

(* What rows add up to, the fold of the model, is a sum of FiniteSums. *)
LEMMA SumIsSumOver ==
  ASSUME NEW R, IsFiniteSet(R)
  PROVE  Sum(R) = SumOver(Values(R), R)
<1> DEFINE g == Values(R)
<1>0. \A s \in SUBSET R : s # {} => g[Pick(s)] = Consumable(Pick(s).card)
  BY PickIsMember DEF Values
<1>1. PICK h : Sums(h, g, SUBSET R) /\ SumOver(g, R) = h[R]
  BY SumIsFold
<1>2. h = [s \in SUBSET R |->
             IF s = {} THEN 0 ELSE Consumable(Pick(s).card) + h[s \ {Pick(s)}]]
  <2> HIDE DEF g
  <2> QED
    BY <1>0, <1>1, Zenon DEF Sums
<1>3. PICK k : /\ k = [s \in SUBSET R |->
                         IF s = {} THEN 0
                         ELSE Consumable(Pick(s).card) + k[s \ {Pick(s)}]]
               /\ Sum(R) = k[R]
  BY <1>2 DEF Sum, MapThenSumSet, MapThenFoldSet, Pick
<1>4. Sums(k, g, SUBSET R)
  <2> HIDE DEF g
  <2> QED
    BY <1>0, <1>3, Zenon DEF Sums
<1>5. R \in SUBSET R
  OBVIOUS
<1>6. h[R] = k[R]
  <2> HIDE DEF g
  <2> QED
    BY <1>1, <1>4, <1>5, SumsAgree
<1> QED
  BY <1>1, <1>3, <1>6

(* Rows add up to a natural number. *)
LEMMA SumIsNat ==
  ASSUME NEW R \in SUBSET Rows, IsFiniteSet(R)
  PROVE  Sum(R) \in Nat
<1>1. NatOn(Values(R), R)
  BY ConsumableType DEF NatOn, Values, Rows
<1> QED
  BY <1>1, SumIsSumOver, SumType

(* The lesser of two numbers is at most either. *)
LEMMA MinOfTwo ==
  ASSUME NEW a \in Nat, NEW b \in Nat
  PROVE  Min({a, b}) \in Nat /\ Min({a, b}) <= a /\ Min({a, b}) <= b
<1>1. \E m \in {a, b} : \A y \in {a, b} : m <= y
  <2>1. a <= b \/ b <= a
    OBVIOUS
  <2> QED
    BY <2>1
<1>2. Min({a, b}) \in {a, b} /\ \A y \in {a, b} : Min({a, b}) <= y
  BY <1>1 DEF Min
<1> QED
  BY <1>2

(* The discount is at most the amount it is taken from. *)
LEMMA SummaryType ==
  ASSUME NEW R \in SUBSET Rows, IsFiniteSet(R), NEW amount \in Nat
  PROVE  Summary(R, amount) \in [shown : BOOLEAN, discount : Nat, remaining : Nat]
<1>1. Discount(R, amount) \in Nat /\ Discount(R, amount) <= amount
  BY SumIsNat, MinOfTwo DEF Discount
<1>2. amount - Discount(R, amount) \in Nat
  BY <1>1
<1> QED
  BY <1>1, <1>2 DEF Summary, Hidden

-----------------------------------------------------------------------------
(* Types                                                                   *)

(* The rows are added up, so that there must be finitely many; and a row   *)
(* is saved for a card, so that each call that leads to it is about one.   *)
CallInv(c) ==
  /\ IsFiniteSet(c.seen) /\ c.n # 0
  /\ c.kind = "library" => selected \in Cards
  /\ c.kind \in {"balance", "save"} => c.card \in Cards
  /\ c.kind = "balance" => c.by # 0

TypeInv ==
  /\ TypeOK
  /\ IsFiniteSet(rows)
  /\ component.state # "none" => component.by # 0
  /\ component.by # 0 => component.card \in Cards
  /\ \A c \in calls : CallInv(c)

(* A call starts as one that found nothing yet. *)
LEMMA NewCall ==
  ASSUME NEW n \in Nat, NEW kind \in Kinds
  PROVE  /\ Call(n, kind) \in CallType
         /\ Call(n, kind).n = n /\ Call(n, kind).kind = kind
         /\ Call(n, kind).done = (kind \notin Handled)
         /\ Call(n, kind).seen = {} /\ Call(n, kind).amount = 0
  BY DEF Call, CallType

(* What a call is about does not change what it is. *)
Same(k, c) ==
  /\ k \in CallType /\ k.n = c.n /\ k.kind = c.kind
  /\ k.done = c.done /\ k.seen = c.seen

(* It may be about a card, *)
LEMMA AboutCard ==
  ASSUME NEW c \in CallType, NEW card \in Cards \cup {None}
  PROVE  Same([c EXCEPT !.card = card], c) /\ [c EXCEPT !.card = card].card = card
  BY DEF CallType, Same

(* a row, *)
LEMMA AboutRow ==
  ASSUME NEW c \in CallType, NEW row \in Nat
  PROVE  Same([c EXCEPT !.row = row], c)
  BY DEF CallType, Same

(* an amount *)
LEMMA AboutAmount ==
  ASSUME NEW c \in CallType, NEW amount \in Totals
  PROVE  Same([c EXCEPT !.amount = amount], c) /\ [c EXCEPT !.amount = amount].amount = amount
  BY DEF CallType, Same

(* or an order. *)
LEMMA AboutOrder ==
  ASSUME NEW c \in CallType, NEW order \in {"none", "open", "final"}
  PROVE  Same([c EXCEPT !.order = order], c)
  BY DEF CallType, Same

(* A new call. *)
IsNew(k, kind) ==
  /\ k \in CallType /\ k.n = sent + 1 /\ k.seen = {}
  /\ k.kind = kind /\ k.done = (kind \notin Handled)

(* Each kind of call can be made. *)
LEMMA SentIsNew ==
  ASSUME sent \in Nat, NEW kind \in Kinds
  PROVE  /\ IsNew(Sent(kind), kind)
         /\ \A k : Same(k, Sent(kind)) => IsNew(k, kind)
<1>1. sent + 1 \in Nat
  OBVIOUS
<1>2. IsNew(Sent(kind), kind)
  <2> DEFINE n == sent + 1
  <2>1. n \in Nat
    BY <1>1
  <2> HIDE DEF n
  <2>2. /\ Call(n, kind) \in CallType
        /\ Call(n, kind).n = n /\ Call(n, kind).kind = kind
        /\ Call(n, kind).done = (kind \notin Handled)
        /\ Call(n, kind).seen = {}
    BY <2>1, NewCall
  <2> QED
    BY <2>2 DEF n, Sent, IsNew
<1> QED
  BY <1>2, Zenon DEF IsNew, Same

(* Every step has the server handle a call, leaves calls away, or puts one  *)
(* new call in the place of those it leaves away.                          *)
LEMMA CallSteps ==
  ASSUME TypeInv, [Next]_vars
  PROVE  \/ \E c \in calls : Handle(c)
         \/ sent' = sent /\ calls' \subseteq calls
         \/ \E kind \in Kinds : \E k : \E others \in SUBSET calls :
               /\ sent' = sent + 1 /\ IsNew(k, kind) /\ calls' = others \cup {k}
               /\ kind = "library" => selected' \in Cards
               /\ kind \in {"balance", "save"} => k.card \in Cards
               /\ kind = "balance" => k.by # 0
               /\ kind = "redeemed" => k.amount = grandTotal'
<1> DEFINE Good(k, kind) ==
             /\ IsNew(k, kind)
             /\ kind = "library" => selected' \in Cards
             /\ kind \in {"balance", "save"} => k.card \in Cards
             /\ kind = "balance" => k.by # 0
             /\ kind = "redeemed" => k.amount = grandTotal'
           Goal == \/ \E c \in calls : Handle(c)
                   \/ sent' = sent /\ calls' \subseteq calls
                   \/ \E kind \in Kinds : \E k : \E others \in SUBSET calls :
                         sent' = sent + 1 /\ Good(k, kind) /\ calls' = others \cup {k}
<1>0. /\ sent \in Nat /\ component.card \in Cards \cup {None}
      /\ component.by \in Nat /\ calls \subseteq CallType /\ redeemed \subseteq Rows
      /\ total \in Totals /\ grandTotal \in Totals
  BY DEF TypeInv, TypeOK
<1>k. /\ \A kind \in Kinds : IsNew(Sent(kind), kind) /\ Sent(kind) \in CallType
      /\ \A kind \in Kinds : \A k : Same(k, Sent(kind)) => IsNew(k, kind)
  BY <1>0, SentIsNew DEF IsNew
<1>s. ASSUME NEW kind \in Kinds, NEW k, NEW others \in SUBSET calls,
             Sends(others, k), Good(k, kind)
      PROVE  Goal
  BY <1>s, Zenon DEF Sends
<1>m. /\ "methods" \in Kinds /\ "balance" \in Kinds /\ "place" \in Kinds
      /\ "remove" \in Kinds /\ "library" \in Kinds /\ "redeemed" \in Kinds
      /\ "save" \in Kinds /\ "status" \in Kinds
      /\ calls \in SUBSET calls
  BY DEF Kinds
<1>1. ASSUME ChangeTotal
      PROVE  Goal
  <2>1. Good(Sent("methods"), "methods")
    BY <1>k, <1>m
  <2> HIDE DEF Good, Goal
  <2> QED
    BY <1>1, <1>s, <1>m, <2>1, Zenon DEF ChangeTotal
<1>2. ASSUME CheckBalance
      PROVE  Goal
  <2> DEFINE k == [Sent("balance") EXCEPT !.card = component.card, !.by = component.by]
  <2>1. component.by # 0 /\ component.card \in Cards
    BY <1>2 DEF CheckBalance, TypeInv
  <2>2. Same(k, Sent("balance")) /\ k.card = component.card /\ k.by = component.by
    <3> DEFINE s == Sent("balance")
               card == component.card
               by == component.by
               j == [s EXCEPT !.card = card, !.by = by]
    <3>1. s \in CallType /\ card \in Cards \cup {None} /\ by \in Nat
      BY <1>0, <1>k, <1>m
    <3>2. Same(j, s) /\ j.card = card /\ j.by = by
      <4> HIDE DEF s, card, by
      <4> QED
        BY <3>1 DEF CallType, Same
    <3> QED
      BY <3>2
  <2>2a. Sends(calls, k)
    BY <1>2 DEF CheckBalance
  <2> HIDE DEF k
  <2>3. Good(k, "balance")
    BY <1>k, <1>m, <2>1, <2>2
  <2> HIDE DEF Good, Goal
  <2> QED
    BY <1>s, <1>m, <2>3, <2>2a, Zenon
<1>3. ASSUME PlaceOrder
      PROVE  Goal
  <2>1. Good(Sent("place"), "place")
    BY <1>k, <1>m
  <2> HIDE DEF Good, Goal
  <2> QED
    BY <1>3, <1>s, <1>m, <2>1, Zenon DEF PlaceOrder
<1>4. ASSUME NEW row \in redeemed, RemoveGiftcard(row)
      PROVE  Goal
  <2> DEFINE k == [Sent("remove") EXCEPT !.row = row.id]
  <2>1. row.id \in Nat
    BY <1>0 DEF Rows
  <2>2. Same(k, Sent("remove"))
    BY <1>k, <1>m, <2>1, AboutRow
  <2>2a. Sends(calls, k)
    BY <1>4 DEF RemoveGiftcard
  <2> HIDE DEF k
  <2>3. Good(k, "remove")
    BY <1>k, <1>m, <2>2
  <2> HIDE DEF Good, Goal
  <2> QED
    BY <1>s, <1>m, <2>3, <2>2a
<1>5. ASSUME NEW card \in Cards, GiftcardOnSelect(card)
      PROVE  Goal
  <2>1. Good(Sent("library"), "library")
    BY <1>k, <1>m, <1>5 DEF GiftcardOnSelect
  <2> HIDE DEF Good, Goal
  <2> QED
    BY <1>5, <1>s, <1>m, <2>1 DEF GiftcardOnSelect
<1>6. ASSUME NEW others \in SUBSET calls, NEW amount \in Totals,
             FetchRedeemedGiftcards(others, amount), amount = grandTotal'
      PROVE  Goal
  <2> DEFINE k == [Sent("redeemed") EXCEPT !.amount = amount]
  <2>1. Same(k, Sent("redeemed")) /\ k.amount = amount
    BY <1>k, <1>m, AboutAmount
  <2>2. Sends(others, k)
    BY <1>6 DEF FetchRedeemedGiftcards
  <2> HIDE DEF k
  <2>3. Good(k, "redeemed")
    BY <1>k, <1>m, <1>6, <2>1
  <2> HIDE DEF Good, Goal
  <2> QED
    BY <1>s, <1>m, <2>2, <2>3
<1>7. ASSUME NEW c \in calls, MethodsArrive(c) \/ GiftcardRemoved(c) \/ GiftcardSaved(c)
      PROVE  Goal
  <2>1. \/ FetchRedeemedGiftcards(calls \ {c}, total) /\ grandTotal' = total
        \/ FetchRedeemedGiftcards(calls \ {c}, grandTotal) /\ grandTotal' = grandTotal
    BY <1>7 DEF MethodsArrive, GiftcardRemoved, GiftcardSaved
  <2>2. calls \ {c} \in SUBSET calls
    OBVIOUS
  <2> HIDE DEF Good, Goal
  <2> QED
    BY <1>0, <1>6, <2>1, <2>2
<1>8. ASSUME NEW c \in calls, HandleBalanceResult(c)
      PROVE  Goal
  <2>1. CASE calls' = calls \ {c} /\ sent' = sent
    BY <2>1
  <2>2. CASE Sends(calls \ {c}, [Sent("save") EXCEPT !.card = c.card])
    <3> DEFINE k == [Sent("save") EXCEPT !.card = c.card]
    <3>1. c.card \in Cards
      BY <1>8 DEF HandleBalanceResult, Answers, TypeInv, CallInv
    <3>2. Same(k, Sent("save")) /\ k.card = c.card
      BY <1>k, <1>m, <3>1, AboutCard
    <3>2a. Sends(calls \ {c}, k)
      BY <2>2
    <3> HIDE DEF k
    <3>3. Good(k, "save")
      BY <1>k, <1>m, <3>1, <3>2
    <3> HIDE DEF Good, Goal
    <3> QED
      BY <1>s, <1>m, <3>2a, <3>3
  <2> QED
    BY <1>8, <2>1, <2>2 DEF HandleBalanceResult
<1>9. ASSUME NEW c \in calls, PlaceOrderDone(c)
      PROVE  Goal
  <2> DEFINE k == [Sent("status") EXCEPT !.order = c.order]
  <2>1. c.order \in {"none", "open", "final"}
    BY <1>0 DEF CallType
  <2>2. Same(k, Sent("status"))
    BY <1>k, <1>m, <2>1, AboutOrder
  <2>2a. Sends(calls \ {c}, k)
    BY <1>9 DEF PlaceOrderDone
  <2> HIDE DEF k
  <2>3. Good(k, "status")
    BY <1>k, <1>m, <2>2
  <2> HIDE DEF Good, Goal
  <2> QED
    BY <1>s, <1>m, <2>3, <2>2a
<1>10. ASSUME NEW c \in calls,
              \/ RedeemedArrive(c) \/ MountGiftcard(c) \/ LibraryFails(c)
              \/ BalanceFails(c) \/ AnswerLost(c) \/ PlaceOrderFails(c)
              \/ ValidateActionOrPlaceOrder(c)
       PROVE  Goal
  BY <1>10 DEF RedeemedArrive, Listed, MountGiftcard, LibraryFails, BalanceFails,
     AnswerLost, PlaceOrderFails, ValidateActionOrPlaceOrder
<1>11. ASSUME AddNewGiftcard \/ RemoveSingleGiftcard \/ UNCHANGED vars
       PROVE  Goal
  BY <1>11 DEF AddNewGiftcard, RemoveSingleGiftcard, vars
<1>12. Goal
  <2> HIDE DEF Goal
  <2>1. (\E c \in calls : Handle(c)) => Goal
    BY DEF Goal
  <2>2. Shopper => Goal
    BY <1>1, <1>2, <1>3, <1>4, <1>5, <1>11, Zenon DEF Shopper
  <2>3. ASSUME NEW c \in calls, Answer(c)
        PROVE  Goal
    BY <1>7, <1>8, <1>9, <1>10, <2>3, Zenon DEF Answer
  <2> QED
    BY <1>11, <2>1, <2>2, <2>3, Zenon DEF Next
<1> QED
  BY <1>12, Zenon

(* What the server does with a call does not change what it is about. *)
LEMMA HandledCall ==
  ASSUME TypeInv, NEW c \in calls, Handle(c)
  PROVE  \E k : /\ calls' = (calls \ {c}) \cup {k} /\ sent' = sent
                /\ k \in CallType /\ k.n = c.n /\ k.kind = c.kind /\ k.card = c.card
                /\ k.by = c.by /\ k.amount = c.amount /\ k.row = c.row
                /\ k.done = TRUE /\ k.seen = rows /\ k.charged = total
<1>1. PICK order \in {"none", "open", "final"} :
        calls' = (calls \ {c}) \cup
            {[c EXCEPT !.done = TRUE, !.seen = rows, !.charged = total,
                       !.order = order]}
  <2>1. c.order \in {"none", "open", "final"}
    BY DEF TypeInv, TypeOK, CallType
  <2>2. PICK order \in (IF c.kind = "place" /\ cart THEN {"none", "open", "final"}
                                               ELSE {c.order}) :
        calls' = (calls \ {c}) \cup
            {[c EXCEPT !.done = TRUE, !.seen = rows, !.charged = total,
                       !.order = order]}
    BY Zenon DEF Handle
  <2> QED
    BY <2>1, <2>2
<1> DEFINE k == [c EXCEPT !.done = TRUE, !.seen = rows, !.charged = total,
                       !.order = order]
<1>2. c \in CallType /\ rows \in SUBSET Rows /\ total \in Totals
  BY DEF TypeInv, TypeOK
<1>3. /\ k \in CallType /\ k.n = c.n /\ k.kind = c.kind /\ k.card = c.card
      /\ k.by = c.by /\ k.amount = c.amount /\ k.row = c.row
      /\ k.done = TRUE /\ k.seen = rows /\ k.charged = total
  BY <1>2 DEF CallType
<1>4. sent' = sent
  BY DEF Handle
<1> HIDE DEF k
<1> QED
  BY <1>1, <1>3, <1>4 DEF k

(* The calls after a step are what calls are. *)
LEMMA CallsType ==
  ASSUME TypeInv, [Next]_vars
  PROVE  /\ calls' \subseteq CallType /\ sent' \in Nat
         /\ selected' \in Cards \cup {None}
         /\ \A c \in calls' : CallInv(c)'
<1>1. /\ selected' \in Cards \cup {None}
      /\ selected \in Cards => selected' \in Cards
  BY DEF TypeInv, TypeOK, Next, vars, Shopper, Answer, ChangeTotal, AddNewGiftcard,
     RemoveSingleGiftcard, CheckBalance, PlaceOrder, RemoveGiftcard, GiftcardOnSelect,
     MethodsArrive, RedeemedArrive, Listed, GiftcardRemoved, MountGiftcard, LibraryFails,
     HandleBalanceResult, BalanceFails, GiftcardSaved, AnswerLost, PlaceOrderFails,
     PlaceOrderDone, ValidateActionOrPlaceOrder, Handle
<1>2. /\ calls \subseteq CallType /\ sent \in Nat /\ IsFiniteSet(rows)
      /\ \A c \in calls : CallInv(c)
  BY DEF TypeInv, TypeOK
<1>3. \A c \in calls : CallInv(c)'
  BY <1>1, <1>2 DEF CallInv
<1>4. CASE \E c \in calls : Handle(c)
  <2>1. PICK c \in calls : Handle(c)
    BY <1>4
  <2>2. PICK k : /\ calls' = (calls \ {c}) \cup {k} /\ sent' = sent
                /\ k \in CallType /\ k.n = c.n /\ k.kind = c.kind /\ k.card = c.card
                /\ k.by = c.by /\ k.amount = c.amount /\ k.row = c.row
                /\ k.done = TRUE /\ k.seen = rows /\ k.charged = total
    BY <2>1, HandledCall
  <2>3. CallInv(k)'
    BY <1>2, <1>3, <2>2 DEF CallInv
  <2> QED
    BY <1>1, <1>2, <1>3, <2>2, <2>3
<1>5. CASE sent' = sent /\ calls' \subseteq calls
  BY <1>1, <1>2, <1>3, <1>5
<1>6. ASSUME NEW kind \in Kinds, NEW k, NEW others \in SUBSET calls,
             /\ sent' = sent + 1 /\ IsNew(k, kind) /\ calls' = others \cup {k}
             /\ kind = "library" => selected' \in Cards
             /\ kind \in {"balance", "save"} => k.card \in Cards
             /\ kind = "balance" => k.by # 0
      PROVE  calls' \subseteq CallType /\ sent' \in Nat /\ \A c \in calls' : CallInv(c)'
  <2>1. /\ k \in CallType /\ k.n # 0 /\ k.kind = kind /\ IsFiniteSet(k.seen)
    BY <1>2, <1>6, FS_EmptySet DEF IsNew
  <2>2. CallInv(k)'
    BY <1>6, <2>1 DEF CallInv
  <2>3. calls' \subseteq CallType /\ sent' \in Nat
    BY <1>2, <1>6, <2>1
  <2> QED
    BY <1>3, <1>6, <2>2, <2>3
<1> QED
  BY <1>1, <1>4, <1>5, <1>6, CallSteps

(* Every step keeps the types. *)
LEMMA TypeStep ==
  ASSUME TypeInv, [Next]_vars
  PROVE  TypeInv'
<1> DEFINE Rest ==
      /\ rows \subseteq Rows /\ redeemed \subseteq Rows
      /\ total \in Totals /\ grandTotal \in Totals
      /\ cart \in BOOLEAN /\ ready \in BOOLEAN /\ canAdd \in BOOLEAN
      /\ picking \in BOOLEAN /\ single \in BOOLEAN /\ offered \in BOOLEAN
      /\ balance \in Nat \cup {Undefined}
      /\ component \in [card : Cards \cup {None}, by : Nat, state : States]
      /\ summary \in [shown : BOOLEAN, discount : Nat, remaining : Nat]
      /\ loader \in Nat /\ latest \in Nat /\ told \in Nat
      /\ due \in Nat \cup {Undefined}
      /\ page \in {"here", "success"}
      /\ disturbed \subseteq FaultKinds
      /\ IsFiniteSet(rows)
      /\ component.state # "none" => component.by # 0
      /\ component.by # 0 => component.card \in Cards
<1>0. Rest /\ calls \subseteq CallType /\ selected \in Cards \cup {None}
  BY DEF TypeInv, TypeOK
<1>c. \A c \in calls : CallInv(c) /\ c \in CallType
  BY DEF TypeInv, TypeOK
<1>t. Totals \subseteq Nat
  BY GiftcardAssumption
<1>s. sent \in Nat
  BY DEF TypeInv, TypeOK
<1> USE DEF server, controls, list
<1>1. ASSUME ChangeTotal
      PROVE  Rest'
  BY <1>0, <1>1 DEF ChangeTotal
<1>2. ASSUME AddNewGiftcard \/ RemoveSingleGiftcard
      PROVE  Rest'
  <2>1. /\ canAdd' \in BOOLEAN /\ picking' \in BOOLEAN /\ single' \in BOOLEAN
        /\ offered' \in BOOLEAN
    BY <1>0, <1>2 DEF AddNewGiftcard, RemoveSingleGiftcard
  <2>2. component' = component \/ component' = NoComponent
    BY <1>2 DEF AddNewGiftcard, RemoveSingleGiftcard
  <2>3. UNCHANGED <<server, grandTotal, ready, list, loader, page, disturbed, due>>
    BY <1>2 DEF AddNewGiftcard, RemoveSingleGiftcard
  <2> QED
    BY <1>0, <2>1, <2>2, <2>3 DEF NoComponent, States
<1>3. ASSUME CheckBalance
      PROVE  Rest'
  BY <1>0, <1>3 DEF CheckBalance, States
<1>4. ASSUME PlaceOrder \/ UNCHANGED vars
      PROVE  Rest'
  BY <1>0, <1>4 DEF PlaceOrder, vars
<1>5. ASSUME NEW row \in redeemed, RemoveGiftcard(row)
      PROVE  Rest'
  BY <1>0, <1>5 DEF RemoveGiftcard
<1>6. ASSUME NEW card \in Cards, GiftcardOnSelect(card)
      PROVE  Rest'
  <2>1. loader' = loader + 1 /\ picking' = FALSE
    BY <1>6 DEF GiftcardOnSelect
  <2>2. UNCHANGED <<server, grandTotal, ready, list, canAdd, single, offered,
                    component, page, disturbed, due>>
    BY <1>6 DEF GiftcardOnSelect
  <2>3. loader' \in Nat
    BY <1>0, <2>1
  <2>4. picking' \in BOOLEAN
    BY <2>1
  <2> QED
    BY <1>0, <2>2, <2>3, <2>4
<1>7. ASSUME NEW c \in calls, MethodsArrive(c) \/ GiftcardRemoved(c)
      PROVE  Rest'
  <2>1. loader' \in Nat
    BY <1>0, <1>7 DEF MethodsArrive, GiftcardRemoved, Stopped
  <2>2. grandTotal' \in {total, grandTotal} /\ ready' \in {ready, TRUE}
    BY <1>7 DEF MethodsArrive, GiftcardRemoved
  <2>3. UNCHANGED <<server, list, controls, component, page, disturbed>>
    BY <1>7 DEF MethodsArrive, GiftcardRemoved
  <2>4. grandTotal' \in Totals /\ ready' \in BOOLEAN
    BY <1>0, <2>2
  <2>5. due' \in Nat
    BY <1>7, <1>s DEF MethodsArrive, GiftcardRemoved, FetchRedeemedGiftcards
  <2> QED
    BY <1>0, <2>1, <2>3, <2>4, <2>5
<1>8. ASSUME NEW c \in calls, RedeemedArrive(c)
      PROVE  Rest'
  <2>1. /\ c.seen \in SUBSET Rows /\ IsFiniteSet(c.seen) /\ c.charged \in Nat
        /\ c.amount \in Nat /\ c.n \in Nat
    <3>1. /\ c.seen \in SUBSET Rows /\ c.charged \in Totals \cup {0}
          /\ c.amount \in Totals \cup {0} /\ c.n \in Nat
      BY <1>c DEF CallType
    <3>2. IsFiniteSet(c.seen)
      BY <1>c DEF CallInv
    <3>3. \A x \in Totals \cup {0} : x \in Nat
      BY <1>t
    <3> QED
      BY <3>1, <3>2, <3>3
  <2>2. Sum(c.seen) \in Nat
    BY <2>1, SumIsNat
  <2>3. Summary(c.seen, c.charged) \in [shown : BOOLEAN, discount : Nat, remaining : Nat]
    BY <2>1, SummaryType
  <2>4. Covered(c.seen, c.amount) \in BOOLEAN
    BY <2>1, <2>2 DEF Covered
  <2>5. \A fault \in ListFaults(c) : fault \subseteq FaultKinds
    BY GiftcardAssumption DEF ListFaults, FaultKinds
  <2>6. PICK fault \in ListFaults(c) : Listed(c, fault)
    BY <1>8 DEF RedeemedArrive
  <2>7. disturbed' \subseteq FaultKinds
    BY <1>0, <2>5, <2>6 DEF Listed
  <2>8. summary' = Summary(c.seen, c.charged) /\ told' = c.n
    BY <1>8 DEF RedeemedArrive
  <2>9. /\ redeemed' \subseteq Rows /\ balance' \in Nat \cup {Undefined}
        /\ latest' \in Nat
        /\ canAdd' \in BOOLEAN /\ offered' \in BOOLEAN
    <3>1. CASE fault = {}
      BY <2>1, <2>2, <2>4, <2>6, <3>1 DEF Listed
    <3>2. CASE fault # {}
      BY <1>0, <2>6, <3>2 DEF Listed
    <3> QED
      BY <3>1, <3>2
  <2>10. UNCHANGED <<server, grandTotal, ready, picking, single, component, loader, page, due>>
    BY <2>6 DEF Listed
  <2> QED
    BY <1>0, <2>1, <2>3, <2>7, <2>8, <2>9, <2>10
<1>9. ASSUME NEW c \in calls, MountGiftcard(c)
      PROVE  Rest'
  <2>1. selected \in Cards /\ c.n \in Nat /\ c.n # 0
    BY <1>c, <1>9 DEF MountGiftcard, Answers, CallInv, CallType
  <2> QED
    BY <1>0, <1>9, <2>1 DEF MountGiftcard, Stopped, States
<1>10. ASSUME NEW c \in calls, LibraryFails(c) \/ AnswerLost(c)
      PROVE  Rest'
  BY <1>0, <1>10 DEF LibraryFails, AnswerLost, FaultKinds
<1>11. ASSUME NEW c \in calls, NEW state \in States, Becomes(c, state), c.by # 0
      PROVE  /\ component' \in [card : Cards \cup {None}, by : Nat, state : States]
             /\ component'.state # "none" => component'.by # 0
             /\ component'.by # 0 => component'.card \in Cards
  BY <1>0, <1>11 DEF Becomes
<1>12. ASSUME NEW c \in calls, HandleBalanceResult(c) \/ BalanceFails(c)
      PROVE  Rest'
  <2>1. c.by # 0
    BY <1>c, <1>12 DEF HandleBalanceResult, BalanceFails, Answers, CallInv
  <2>2. Becomes(c, "payable") \/ Becomes(c, "entry") \/ component' = component
    BY <1>12 DEF HandleBalanceResult, BalanceFails
  <2>3. /\ component' \in [card : Cards \cup {None}, by : Nat, state : States]
        /\ component'.state # "none" => component'.by # 0
        /\ component'.by # 0 => component'.card \in Cards
    <3>1. "payable" \in States /\ "entry" \in States
      BY DEF States
    <3> QED
      BY <1>0, <1>11, <2>1, <2>2, <3>1
  <2>4. UNCHANGED <<server, grandTotal, ready, list, controls, loader, page, disturbed, due>>
    BY <1>12 DEF HandleBalanceResult, BalanceFails
  <2> QED
    BY <1>0, <2>3, <2>4
<1>13. ASSUME NEW c \in calls, GiftcardSaved(c)
      PROVE  Rest'
  <2>1. due' \in Nat
    BY <1>13, <1>s DEF GiftcardSaved, FetchRedeemedGiftcards
  <2> QED
    BY <1>0, <1>13, <2>1 DEF GiftcardSaved, NoComponent, States
<1>14. ASSUME NEW c \in calls, \/ PlaceOrderFails(c) \/ PlaceOrderDone(c)
                               \/ ValidateActionOrPlaceOrder(c)
      PROVE  Rest'
  BY <1>0, <1>14 DEF PlaceOrderFails, PlaceOrderDone, ValidateActionOrPlaceOrder, Stopped
<1>15. ASSUME NEW c \in calls, Handle(c)
      PROVE  Rest'
  <2>1. rows' \subseteq Rows /\ IsFiniteSet(rows')
    <3>1. PICK order : rows' \in RowsLeft(c, order)
      BY <1>15 DEF Handle
    <3>2. CASE c.kind = "save"
      <4>1. c.card \in Cards /\ c.n \in Nat
        BY <1>c, <3>2 DEF CallInv, CallType
      <4>2. rows' = rows \cup {[id |-> c.n, card |-> c.card]}
        BY <3>1, <3>2 DEF RowsLeft
      <4>3. [id |-> c.n, card |-> c.card] \in Rows
        BY <4>1 DEF Rows
      <4> QED
        BY <1>0, <4>2, <4>3, FS_AddElement
    <3>3. CASE c.kind # "save"
      <4>1. rows' \subseteq rows
        BY <3>1, <3>3 DEF RowsLeft
      <4> QED
        BY <1>0, <4>1, FS_Subset
    <3> QED
      BY <3>2, <3>3
  <2>2. cart' \in BOOLEAN
    BY <1>0, <1>15 DEF Handle
  <2>3. UNCHANGED <<total, grandTotal, ready, list, controls, component, loader, page, disturbed>>
    BY <1>15 DEF Handle
  <2>4. due' \in Nat \cup {Undefined}
    BY <1>0, <1>15 DEF Handle
  <2> QED
    BY <1>0, <2>1, <2>2, <2>3, <2>4
<1>16. Rest'
  <2> HIDE DEF Rest
  <2>1. ASSUME NEW c \in calls, Answer(c)
        PROVE  Rest'
    BY <1>7, <1>8, <1>9, <1>10, <1>12, <1>13, <1>14, <2>1, Zenon DEF Answer
  <2>2. ASSUME Shopper
        PROVE  Rest'
    BY <1>1, <1>2, <1>3, <1>4, <1>5, <1>6, <2>2, Zenon DEF Shopper
  <2> QED
    BY <1>4, <1>15, <2>1, <2>2, Zenon DEF Next
<1> QED
  BY <1>16, CallsType DEF TypeInv, TypeOK

(* The initial states have the types. *)
LEMMA TypeInit ==
  Init => TypeInv
<1> SUFFICES ASSUME Init PROVE TypeInv
  OBVIOUS
<1>1. "methods" \in Kinds
  BY DEF Kinds
<1>2. /\ Call(1, "methods") \in CallType /\ Call(1, "methods").n = 1
      /\ Call(1, "methods").kind = "methods" /\ Call(1, "methods").seen = {}
  BY <1>1, NewCall
<1>3. CallInv(Call(1, "methods"))
  BY <1>2, FS_EmptySet DEF CallInv
<1>4. rows \subseteq Rows /\ IsFiniteSet(rows)
  BY GiftcardAssumption, FS_Subset DEF Init, Rows
<1>5. calls = {Call(1, "methods")}
  BY DEF Init
<1>6. calls \subseteq CallType /\ \A c \in calls : CallInv(c)
  <2> HIDE DEF Init
  <2> QED
    BY <1>2, <1>3, <1>5
<1>7. TypeOK
  <2>1. /\ component \in [card : Cards \cup {None}, by : Nat, state : States]
        /\ summary \in [shown : BOOLEAN, discount : Nat, remaining : Nat]
        /\ balance \in Nat \cup {Undefined}
    BY DEF Init, NoComponent, Hidden, States
  <2>2. /\ {total, grandTotal} \subseteq Totals /\ selected \in Cards \cup {None}
        /\ {loader, sent, latest, told} \subseteq Nat /\ page \in {"here", "success"}
        /\ redeemed \subseteq Rows /\ disturbed \subseteq FaultKinds
        /\ due \in Nat \cup {Undefined}
    BY DEF Init
  <2>3. /\ cart \in BOOLEAN /\ ready \in BOOLEAN /\ canAdd \in BOOLEAN
        /\ picking \in BOOLEAN /\ single \in BOOLEAN /\ offered \in BOOLEAN
    BY DEF Init
  <2> QED
    BY <1>4, <1>6, <2>1, <2>2, <2>3 DEF TypeOK
<1>8. component.state = "none" /\ component.by = 0
  BY DEF Init, NoComponent
<1> QED
  BY <1>4, <1>6, <1>7, <1>8 DEF TypeInv

(* So every state has. *)
LEMMA TypeHolds ==
  Spec => []TypeInv
<1>1. TypeInv /\ [Next]_vars => TypeInv'
  BY TypeStep
<1> QED
  BY <1>1, TypeInit, PTL DEF Spec

(* The page, the stored rows and the calls hold what they are meant to.    *)
THEOREM TypeCorrect ==
  Spec => []TypeOK
<1>1. TypeInv => TypeOK
  BY DEF TypeInv
<1> QED
  BY <1>1, TypeHolds, PTL
-----------------------------------------------------------------------------
(* What the page shows and what the server has redeemed                    *)

Pending(kinds) == {c \in calls : c.kind \in kinds}

(* Calls that change the rows or the total, or tell of it *)
Changing == Pending({"methods", "save", "remove"})

(* Calls are numbered in the order in which they are made; and the page has *)
(* the server's total unless it is told of it.                             *)
NumbersInv ==
  /\ latest <= sent /\ told <= sent /\ due <= sent
  /\ \A c \in calls : c.n \in 1..sent /\ c.n # latest /\ c.n # told
  /\ \A c, d \in calls : c.n = d.n => c = d
  /\ Pending({"methods"}) = {} => grandTotal = total

(* A list that will be, or was, made of the rows and the total of now *)
Fresh(c) == c.amount = total /\ (c.done => c.seen = rows /\ c.charged = total)

(* When no change is under way, the list asked for last is fresh until it   *)
(* comes, and when it is the one that is shown, the page tells the truth.  *)
ListInv ==
  (Changing = {} /\ due # Undefined) =>
    /\ \A c \in calls : c.n = due => Fresh(c)
    /\ told = due => summary = Summary(rows, total)
    /\ latest = due => (offered => Covered(rows, total))

(* A step takes the list that is shown from a call it answers, or leaves it. *)
LEMMA LatestStep ==
  ASSUME [Next]_vars
  PROVE  \/ latest' = latest /\ told' = told
         \/ \E c \in calls : /\ latest' \in {latest, c.n} /\ told' = c.n
                             /\ calls' = calls \ {c} /\ sent' = sent
<1> DEFINE Goal ==
         \/ latest' = latest /\ told' = told
         \/ \E c \in calls : /\ latest' \in {latest, c.n} /\ told' = c.n
                             /\ calls' = calls \ {c} /\ sent' = sent
<1>1. ASSUME NEW c \in calls, RedeemedArrive(c)
      PROVE  Goal
  BY <1>1 DEF RedeemedArrive, Listed
<1>2. ASSUME NEW c \in calls, Handle(c)
      PROVE  Goal
  BY <1>2 DEF Handle, list
<1>3. ASSUME NEW c \in calls, Answer(c), ~RedeemedArrive(c)
      PROVE  Goal
  BY <1>3 DEF Answer, list, MethodsArrive, GiftcardRemoved, MountGiftcard, LibraryFails,
     HandleBalanceResult, BalanceFails, GiftcardSaved, AnswerLost, PlaceOrderFails,
     PlaceOrderDone, ValidateActionOrPlaceOrder
<1>4. ASSUME Shopper \/ UNCHANGED vars
      PROVE  Goal
  BY <1>4 DEF vars, Shopper, ChangeTotal, AddNewGiftcard, list,
     RemoveSingleGiftcard, CheckBalance, PlaceOrder, RemoveGiftcard, GiftcardOnSelect
<1> HIDE DEF Goal
<1>5. Goal
  BY <1>1, <1>2, <1>3, <1>4, Zenon DEF Next
<1> QED
  BY <1>5 DEF Goal

(* The list that is due is a new one, the same, or none. *)
LEMMA DueStep ==
  ASSUME [Next]_vars
  PROVE  due' \in {due, Undefined} \/ (due' = sent + 1 /\ sent' = sent + 1)
<1>1. ASSUME NEW c \in calls, Answer(c) \/ Handle(c)
      PROVE  due' \in {due, Undefined} \/ (due' = sent + 1 /\ sent' = sent + 1)
  BY <1>1 DEF Answer, FetchRedeemedGiftcards, Sends, Listed,
     RedeemedArrive, MethodsArrive, GiftcardRemoved, MountGiftcard, LibraryFails,
     HandleBalanceResult, BalanceFails, GiftcardSaved, AnswerLost, PlaceOrderFails,
     PlaceOrderDone, ValidateActionOrPlaceOrder, Handle
<1>2. ASSUME Shopper \/ UNCHANGED vars
      PROVE  due' = due
  BY <1>2 DEF vars, Shopper, ChangeTotal, AddNewGiftcard, RemoveSingleGiftcard,
     CheckBalance, PlaceOrder, RemoveGiftcard, GiftcardOnSelect
<1> QED
  BY <1>1, <1>2 DEF Next

(* The calls under way that a step neither handles nor answers stay, and the *)
(* one that tells of the total is answered with it.                        *)
LEMMA TotalsStep ==
  ASSUME TypeInv, [Next]_vars
  PROVE  \/ grandTotal' = total'
         \/ Pending({"methods"})' # {}
         \/ /\ grandTotal' = grandTotal /\ total' = total
            /\ Pending({"methods"}) # {} => Pending({"methods"})' # {}
<1> DEFINE Goal == \/ grandTotal' = total'
         \/ Pending({"methods"})' # {}
         \/ /\ grandTotal' = grandTotal /\ total' = total
            /\ Pending({"methods"}) # {} => Pending({"methods"})' # {}
<1> USE DEF Pending
<1>1. ASSUME NEW c \in calls, Handle(c)
      PROVE  Goal
  <2>1. PICK k : calls' = (calls \ {c}) \cup {k} /\ k.kind = c.kind
    BY <1>1, HandledCall
  <2>2. grandTotal' = grandTotal /\ total' = total
    BY <1>1 DEF Handle
  <2> QED
    BY <2>1, <2>2
<1>2. ASSUME ChangeTotal
      PROVE  Goal
  <2>1. Sent("methods").kind = "methods" /\ Sent("methods") \in calls'
    BY <1>2, SentIsNew DEF TypeInv, TypeOK, IsNew, Kinds, ChangeTotal, Sends
  <2> QED
    BY <2>1
<1>3. ASSUME NEW c \in calls, MethodsArrive(c)
      PROVE  Goal
  BY <1>3 DEF MethodsArrive, server
<1>4. ASSUME grandTotal' = grandTotal /\ total' = total, calls \subseteq calls'
      PROVE  Goal
  BY <1>4
<1>5. ASSUME grandTotal' = grandTotal /\ total' = total,
             NEW c \in calls, c.kind # "methods", calls \ {c} \subseteq calls'
      PROVE  Goal
  BY <1>5
<1>6. ASSUME Shopper \/ UNCHANGED vars
      PROVE  Goal
  <2>1. CASE ChangeTotal
    BY <1>2, <2>1
  <2>2. CASE ~ChangeTotal
    <3>1. grandTotal' = grandTotal /\ total' = total /\ calls \subseteq calls'
      BY <1>6, <2>2 DEF Shopper, vars, AddNewGiftcard, RemoveSingleGiftcard, CheckBalance,
         PlaceOrder, RemoveGiftcard, GiftcardOnSelect, Sends, server
    <3> QED
      BY <1>4, <3>1
  <2> QED
    BY <2>1, <2>2
<1>7. ASSUME NEW c \in calls, Answer(c)
      PROVE  Goal
  <2>1. CASE MethodsArrive(c)
    BY <1>3, <2>1
  <2>2. CASE ~MethodsArrive(c)
    <3>1. /\ grandTotal' = grandTotal /\ total' = total
          /\ c.kind # "methods" /\ calls \ {c} \subseteq calls'
      BY <1>7, <2>2 DEF Answer, Answers, Sends, server, FetchRedeemedGiftcards,
         RedeemedArrive, Listed, GiftcardRemoved, MountGiftcard, LibraryFails,
         HandleBalanceResult, BalanceFails, GiftcardSaved, AnswerLost, PlaceOrderFails,
         PlaceOrderDone, ValidateActionOrPlaceOrder
    <3> QED
      BY <1>5, <3>1
  <2> QED
    BY <2>1, <2>2
<1> QED
  BY <1>1, <1>6, <1>7 DEF Next

(* Every step keeps the calls numbered, and the total of the page behind  *)
(* that of the server by a call at most.                                  *)
LEMMA NumbersStep ==
  ASSUME TypeInv, NumbersInv, [Next]_vars
  PROVE  NumbersInv'
<1>0. /\ sent \in Nat /\ latest \in Nat /\ told \in Nat /\ calls \subseteq CallType
      /\ latest <= sent /\ told <= sent
      /\ \A c \in calls : c.n \in 1..sent /\ c.n # latest /\ c.n # told /\ c.n \in Nat
      /\ \A c, d \in calls : c.n = d.n => c = d
  BY DEF TypeInv, TypeOK, NumbersInv, CallType
<1>1. /\ \A c \in calls' : c.n \in 1..sent' /\ c.n # latest /\ c.n # told
      /\ \A c, d \in calls' : c.n = d.n => c = d
      /\ sent' \in {sent, sent + 1}
  <2>1. CASE \E c \in calls : Handle(c)
    <3>1. PICK c \in calls : Handle(c)
      BY <2>1
    <3>2. PICK k : calls' = (calls \ {c}) \cup {k} /\ sent' = sent /\ k.n = c.n
      BY <3>1, HandledCall
    <3> QED
      BY <1>0, <3>2
  <2>2. CASE sent' = sent /\ calls' \subseteq calls
    BY <1>0, <2>2
  <2>3. ASSUME NEW k, NEW others \in SUBSET calls,
               sent' = sent + 1 /\ k.n = sent + 1 /\ calls' = others \cup {k}
        PROVE  /\ \A c \in calls' : c.n \in 1..sent' /\ c.n # latest /\ c.n # told
               /\ \A c, d \in calls' : c.n = d.n => c = d
    BY <1>0, <2>3
  <2> QED
    BY <2>1, <2>2, <2>3, CallSteps DEF IsNew
<1>2. /\ latest' <= sent' /\ told' <= sent'
      /\ \A c \in calls' : c.n # latest' /\ c.n # told'
  <2>1. CASE latest' = latest /\ told' = told
    BY <1>0, <1>1, <2>1
  <2>2. CASE \E c \in calls : /\ latest' \in {latest, c.n} /\ told' = c.n
                              /\ calls' = calls \ {c} /\ sent' = sent
    BY <1>0, <2>2
  <2> QED
    BY <2>1, <2>2, LatestStep
<1>3. Pending({"methods"})' = {} => grandTotal' = total'
  BY TotalsStep DEF NumbersInv
<1>4. due' <= sent'
  <2>1. due' \in {due, Undefined} \/ (due' = sent + 1 /\ sent' = sent + 1)
    BY DueStep
  <2>2. due <= sent /\ due \in Nat \cup {Undefined}
    BY DEF NumbersInv, TypeInv, TypeOK
  <2> QED
    BY <1>0, <1>1, <2>1, <2>2 DEF Undefined
<1> QED
  BY <1>1, <1>2, <1>3, <1>4 DEF NumbersInv

(* The shopper has a control to go on with, or an answer that brings one    *)
(* is under way.                                                           *)
GoOnInv ==
  disturbed = {} =>
    offered \/ canAdd \/ picking \/ single \/ Pending({"library", "redeemed"}) # {}

(* A list is asked for, in the place of a call that is answered. *)
ListAsked ==
  /\ \E c \in calls : FetchRedeemedGiftcards(calls \ {c}, grandTotal')
  /\ UNCHANGED <<rows, total, latest, told>>

(* Nothing happens to the lists, nor to what they are made of. *)
ListKept ==
  /\ UNCHANGED <<rows, total, latest, told, due, summary>>
  /\ offered' => offered
  /\ Changing = {}
  /\ \A c \in calls' : c \in calls \/ c.n = sent + 1

(* Every step has the server handle a call, makes a list arrive or leaves   *)
(* the page with none that is due, leaves a change under way, or is one of *)
(* these two.                                                              *)
LEMMA ListSteps ==
  ASSUME TypeInv, [Next]_vars
  PROVE  \/ \E c \in calls : Handle(c) \/ RedeemedArrive(c)
         \/ due' = Undefined \/ Changing' # {}
         \/ ListAsked
         \/ ListKept
<1> DEFINE Goal ==
         \/ \E c \in calls : Handle(c) \/ RedeemedArrive(c)
         \/ due' = Undefined \/ Changing' # {}
         \/ ListAsked
         \/ ListKept
           Others(c) == c.kind \notin {"methods", "save", "remove"}
<1>0. sent \in Nat /\ calls \subseteq CallType
  BY DEF TypeInv, TypeOK
<1>k. /\ \A kind \in Kinds : /\ Sent(kind).kind = kind /\ Sent(kind) \in CallType
                             /\ Sent(kind).n = sent + 1
      /\ \A kind \in Kinds : \A k : Same(k, Sent(kind)) => k.kind = kind /\ k.n = sent + 1
  BY <1>0, SentIsNew DEF IsNew
<1>m. /\ "methods" \in Kinds /\ "balance" \in Kinds /\ "place" \in Kinds
      /\ "remove" \in Kinds /\ "library" \in Kinds /\ "redeemed" \in Kinds
      /\ "save" \in Kinds /\ "status" \in Kinds
  BY DEF Kinds
<1> USE DEF Pending, Changing, list, server, controls
<1>s. ASSUME NEW others \in SUBSET calls, \A c \in calls \ others : Others(c),
             NEW new, \A k \in new : Others(k) /\ k.n = sent + 1,
             calls' = others \cup new,
             UNCHANGED <<rows, total, latest, told, due, summary>>,
             offered' => offered
      PROVE  Goal
  <2>1. Changing' = {} => Changing = {}
    BY <1>s
  <2> QED
    BY <1>s, <2>1 DEF ListKept
<1>r. ASSUME NEW others \in SUBSET calls, \A c \in calls \ others : Others(c),
             calls' = others,
             UNCHANGED <<rows, total, latest, told, due, summary>>,
             offered' => offered
      PROVE  Goal
  <2> DEFINE none == {}
  <2>1. calls' = others \cup none /\ \A k \in none : Others(k) /\ k.n = sent + 1
    BY <1>r
  <2> HIDE DEF Goal, none
  <2> QED
    BY <1>r, <1>s, <2>1
<1>1. ASSUME ChangeTotal
      PROVE  Goal
  <2>1. Sent("methods").kind = "methods" /\ Sent("methods") \in calls'
    BY <1>1, <1>k, <1>m DEF ChangeTotal, Sends
  <2> QED
    BY <2>1
<1>2. ASSUME NEW row \in redeemed, RemoveGiftcard(row)
      PROVE  Goal
  <2> DEFINE k == [Sent("remove") EXCEPT !.row = row.id]
  <2>1. row.id \in Nat
    BY DEF TypeInv, TypeOK, Rows
  <2>2. Same(k, Sent("remove"))
    BY <1>k, <1>m, <2>1, AboutRow
  <2>3. k \in calls'
    BY <1>2 DEF RemoveGiftcard, Sends
  <2> HIDE DEF k
  <2> QED
    BY <1>k, <1>m, <2>2, <2>3
<1>3. ASSUME AddNewGiftcard \/ RemoveSingleGiftcard \/ UNCHANGED vars
      PROVE  Goal
  <2>1. /\ calls' = calls
        /\ UNCHANGED <<rows, total, latest, told, due, summary>>
        /\ offered' => offered
    BY <1>3 DEF AddNewGiftcard, RemoveSingleGiftcard, vars
  <2> HIDE DEF Goal
  <2> QED
    BY <1>r, <2>1
<1>4. ASSUME NEW card \in Cards, GiftcardOnSelect(card)
      PROVE  Goal
  <2>1. /\ calls' = calls \cup {Sent("library")}
        /\ UNCHANGED <<rows, total, latest, told, due, summary, offered>>
    BY <1>4 DEF GiftcardOnSelect, Sends
  <2>2. \A k \in {Sent("library")} : Others(k) /\ k.n = sent + 1
    BY <1>k, <1>m
  <2> HIDE DEF Goal
  <2> QED
    BY <1>s, <2>1, <2>2
<1>5. ASSUME PlaceOrder
      PROVE  Goal
  <2>1. /\ calls' = calls \cup {Sent("place")}
        /\ UNCHANGED <<rows, total, latest, told, due, summary, offered>>
    BY <1>5 DEF PlaceOrder, Sends
  <2>2. \A k \in {Sent("place")} : Others(k) /\ k.n = sent + 1
    BY <1>k, <1>m
  <2> HIDE DEF Goal
  <2> QED
    BY <1>s, <2>1, <2>2
<1>6. ASSUME CheckBalance
      PROVE  Goal
  <2> DEFINE k == [Sent("balance") EXCEPT !.card = component.card, !.by = component.by]
  <2>1. /\ calls' = calls \cup {k}
        /\ UNCHANGED <<rows, total, latest, told, due, summary, offered>>
    BY <1>6 DEF CheckBalance, Sends
  <2>2. k.kind = "balance" /\ k.n = sent + 1
    BY <1>k, <1>m DEF CallType
  <2> HIDE DEF Goal, k
  <2> QED
    BY <1>s, <2>1, <2>2
<1>7. ASSUME NEW c \in calls, MethodsArrive(c) \/ GiftcardRemoved(c) \/ GiftcardSaved(c)
      PROVE  ListAsked
  BY <1>7 DEF ListAsked, MethodsArrive, GiftcardRemoved, GiftcardSaved
<1>8. ASSUME NEW c \in calls,
             \/ MountGiftcard(c) \/ LibraryFails(c) \/ BalanceFails(c)
             \/ PlaceOrderFails(c) \/ ValidateActionOrPlaceOrder(c)
      PROVE  Goal
  <2>1. /\ calls' = calls \ {c}
        /\ UNCHANGED <<rows, total, latest, told, due, summary, offered>>
        /\ Others(c)
    BY <1>8 DEF MountGiftcard, LibraryFails, BalanceFails, PlaceOrderFails,
       ValidateActionOrPlaceOrder, Answers
  <2> HIDE DEF Goal
  <2> QED
    BY <1>r, <2>1
<1>9. ASSUME NEW c \in calls, HandleBalanceResult(c)
      PROVE  Goal
  <2>0. /\ UNCHANGED <<rows, total, latest, told, due, summary, offered>>
        /\ Others(c)
    BY <1>9 DEF HandleBalanceResult, Answers
  <2>1. CASE calls' = calls \ {c}
    <3> HIDE DEF Goal
    <3>1. Goal
      BY <1>r, <2>0, <2>1
    <3> QED
      BY <3>1
  <2>2. CASE Sends(calls \ {c}, [Sent("save") EXCEPT !.card = c.card])
    <3> DEFINE k == [Sent("save") EXCEPT !.card = c.card]
    <3>1. k \in calls'
      BY <2>2 DEF Sends
    <3>2. k.kind = "save"
      BY <1>k, <1>m DEF CallType
    <3> HIDE DEF k
    <3> QED
      BY <3>1, <3>2
  <2> QED
    BY <1>9, <2>1, <2>2 DEF HandleBalanceResult
<1>10. ASSUME NEW c \in calls, AnswerLost(c)
       PROVE  Goal
  <2>1. CASE c.kind = "save"
    BY <1>10, <2>1 DEF AnswerLost
  <2>2. CASE c.kind # "save"
    <3>1. /\ calls' = calls \ {c}
          /\ UNCHANGED <<rows, total, latest, told, due, summary, offered>>
          /\ Others(c)
      BY <1>10, <2>2 DEF AnswerLost
    <3> HIDE DEF Goal
    <3> QED
      BY <1>r, <3>1
  <2> QED
    BY <2>1, <2>2
<1>11. ASSUME NEW c \in calls, PlaceOrderDone(c)
       PROVE  Goal
  <2> DEFINE k == [Sent("status") EXCEPT !.order = c.order]
  <2>1. /\ calls' = (calls \ {c}) \cup {k}
        /\ UNCHANGED <<rows, total, latest, told, due, summary, offered>>
        /\ Others(c)
    BY <1>11 DEF PlaceOrderDone, Sends, Answers
  <2>2. k.kind = "status" /\ k.n = sent + 1
    BY <1>k, <1>m DEF CallType
  <2> HIDE DEF Goal, k
  <2> QED
    BY <1>s, <2>1, <2>2
<1>12. Goal
  <2> HIDE DEF Goal
  <2>1. ListAsked => Goal
    BY DEF Goal
  <2>2. (\E c \in calls : Handle(c) \/ RedeemedArrive(c)) => Goal
    BY DEF Goal
  <2>3. ASSUME NEW c \in calls, Answer(c)
        PROVE  Goal
    BY <1>7, <1>8, <1>9, <1>10, <1>11, <2>1, <2>2, <2>3, Zenon DEF Answer
  <2>4. Shopper => Goal
    BY <1>1, <1>2, <1>3, <1>4, <1>5, <1>6, Zenon DEF Shopper
  <2> QED
    BY <1>3, <2>2, <2>3, <2>4, Zenon DEF Next
<1> QED
  BY <1>12, Zenon

(* Every step keeps the list that is due fresh. *)
LEMMA ListStep ==
  ASSUME TypeInv, NumbersInv, ListInv, NumbersInv', [Next]_vars
  PROVE  ListInv'
<1> DEFINE Goal == /\ \A c \in calls' : c.n = due' => Fresh(c)'
                   /\ told' = due' => summary' = Summary(rows, total)'
                   /\ latest' = due' => (offered' => Covered(rows, total)')
<1> SUFFICES ASSUME Changing' = {}, due' # Undefined
             PROVE  Goal
  BY DEF ListInv
<1>0. /\ sent \in Nat /\ latest \in Nat /\ told \in Nat /\ calls \subseteq CallType
      /\ \A c \in calls : c.n \in Nat /\ c.n \in 1..sent /\ c.n # latest /\ c.n # told
      /\ latest <= sent /\ told <= sent
      /\ \A c, d \in calls : c.n = d.n => c = d
  BY DEF TypeInv, TypeOK, NumbersInv, CallType
<1>i. ASSUME Changing = {}, due' = due
      PROVE  /\ \A c \in calls : c.n = due => Fresh(c)
             /\ told = due => summary = Summary(rows, total)
             /\ latest = due => (offered => Covered(rows, total))
  BY <1>i DEF ListInv
<1>1. CASE ListKept
  <2>1. Changing = {} /\ due' = due /\ due \in Nat
    BY <1>1 DEF ListKept, TypeInv, TypeOK
  <2>2. \A c : Fresh(c)' <=> Fresh(c)
    BY <1>1 DEF ListKept, Fresh
  <2>3. due <= sent
    BY <2>1 DEF NumbersInv
  <2> QED
    BY <1>0, <1>1, <1>i, <2>1, <2>2, <2>3 DEF ListKept
<1>2. CASE ListAsked
  <2>1. PICK c \in calls : FetchRedeemedGiftcards(calls \ {c}, grandTotal')
    BY <1>2 DEF ListAsked
  <2>2. PICK k : /\ calls' = (calls \ {c}) \cup {k}
                 /\ k.done = FALSE /\ k.amount = grandTotal'
    <3> DEFINE k == [Sent("redeemed") EXCEPT !.amount = grandTotal']
    <3>1. calls' = (calls \ {c}) \cup {k}
      BY <2>1 DEF FetchRedeemedGiftcards, Sends
    <3>2. IsNew(Sent("redeemed"), "redeemed")
      BY <1>0, SentIsNew DEF Kinds
    <3>3. Sent("redeemed") \in CallType
      BY <3>2 DEF IsNew
    <3>4. k.done = FALSE /\ k.amount = grandTotal'
      BY <3>2, <3>3 DEF IsNew, Handled, CallType
    <3> HIDE DEF k
    <3> QED
      BY <3>1, <3>4
  <2>3. grandTotal' = total'
    BY DEF NumbersInv, Changing, Pending
  <2>4. latest' = latest /\ told' = told /\ due' = sent + 1
    BY <1>2, <2>1 DEF ListAsked, FetchRedeemedGiftcards
  <2>5. Fresh(k)'
    BY <2>2, <2>3 DEF Fresh
  <2>6. \A d \in calls' : d.n = due' => d = k
    BY <1>0, <2>2, <2>4
  <2>7. told' # due' /\ latest' # due'
    BY <1>0, <2>4
  <2> QED
    BY <2>5, <2>6, <2>7
<1>3. ASSUME NEW c \in calls, RedeemedArrive(c)
      PROVE  Goal
  <2>1. PICK fault \in ListFaults(c) : Listed(c, fault)
    BY <1>3 DEF RedeemedArrive
  <2>2. /\ calls' = calls \ {c} /\ c.kind = "redeemed" /\ c.done
        /\ UNCHANGED <<rows, total, due>>
        /\ summary' = Summary(c.seen, c.charged) /\ told' = c.n
    BY <1>3, <2>1 DEF RedeemedArrive, Listed, Answers, server
  <2>3. Changing = {}
    BY <2>2 DEF Changing, Pending
  <2>4. c.n = due => c.amount = total /\ c.seen = rows /\ c.charged = total
    BY <1>i, <2>2, <2>3 DEF Fresh
  <2>5. \A d : Fresh(d)' <=> Fresh(d)
    BY <2>2 DEF Fresh
  <2>6. latest' = due' => (offered' => Covered(rows, total)')
    <3>1. CASE fault = {}
      <4>1. latest' = c.n /\ offered' = Covered(c.seen, c.amount)
        BY <2>1, <3>1 DEF Listed
      <4> QED
        BY <2>2, <2>4, <4>1
    <3>2. CASE fault # {}
      <4>1. latest' = latest /\ offered' = offered
        BY <2>1, <3>2 DEF Listed
      <4> QED
        BY <1>i, <2>2, <2>3, <4>1
    <3> QED
      BY <3>1, <3>2
  <2> QED
    BY <1>i, <2>2, <2>3, <2>4, <2>5, <2>6
<1>4. ASSUME NEW c \in calls, Handle(c)
      PROVE  Goal
  <2>1. PICK k : /\ calls' = (calls \ {c}) \cup {k} /\ sent' = sent
                /\ k \in CallType /\ k.n = c.n /\ k.kind = c.kind /\ k.card = c.card
                /\ k.by = c.by /\ k.amount = c.amount /\ k.row = c.row
                /\ k.done = TRUE /\ k.seen = rows /\ k.charged = total
    BY <1>4, HandledCall
  <2>2. c.kind \notin {"save", "remove"} /\ Changing = {}
    BY <2>1 DEF Changing, Pending
  <2>3. rows' = rows /\ due' = due
    <3>1. c.kind # "place" => rows' = rows
      BY <1>4, <2>2 DEF Handle, RowsLeft
    <3>2. c.kind = "place" /\ rows' # rows => due' = Undefined
      BY <1>4 DEF Handle
    <3>3. ~(c.kind = "place" /\ rows' # rows) => due' = due
      BY <1>4 DEF Handle
    <3> QED
      BY <3>1, <3>2, <3>3
  <2>4. UNCHANGED <<total, latest, told, summary, offered>>
    BY <1>4 DEF Handle, list, controls
  <2>5. \A d : Fresh(d)' <=> Fresh(d)
    BY <2>3, <2>4 DEF Fresh
  <2>6. k.n = due => Fresh(k)
    <3>1. c.n = due => Fresh(c)
      BY <1>i, <2>2, <2>3
    <3> QED
      BY <2>1, <3>1 DEF Fresh
  <2> QED
    BY <1>i, <2>1, <2>2, <2>3, <2>4, <2>5, <2>6
<1> HIDE DEF Goal
<1> QED
  BY <1>1, <1>2, <1>3, <1>4, ListSteps

(* The shopper can go on, or is about to be able to. *)
LEMMA GoOnStep ==
  ASSUME TypeInv, GoOnInv, [Next]_vars
  PROVE  GoOnInv'
<1> SUFFICES ASSUME disturbed' = {}
             PROVE  \/ offered' \/ canAdd' \/ picking' \/ single'
                    \/ Pending({"library", "redeemed"})' # {}
  BY DEF GoOnInv
<1> DEFINE Goal == \/ offered' \/ canAdd' \/ picking' \/ single'
                   \/ Pending({"library", "redeemed"})' # {}
<1>k. /\ Sent("library").kind = "library"
      /\ Sent("redeemed").kind = "redeemed" /\ Sent("redeemed") \in CallType
  BY SentIsNew DEF IsNew, Kinds, TypeInv, TypeOK
<1> USE DEF Pending, list, server, controls
<1>a. ASSUME disturbed = {}
      PROVE  offered \/ canAdd \/ picking \/ single \/ Pending({"library", "redeemed"}) # {}
  BY <1>a DEF GoOnInv
<1>b. ASSUME disturbed = {}, UNCHANGED <<canAdd, picking, single, offered>>,
             NEW others \in SUBSET calls,
             \A c \in calls \ others : c.kind \notin {"library", "redeemed"},
             others \subseteq calls'
      PROVE  Goal
  BY <1>a, <1>b
<1>1. ASSUME NEW c \in calls, Handle(c)
      PROVE  Goal
  <2>1. PICK k : calls' = (calls \ {c}) \cup {k} /\ k.kind = c.kind
    BY <1>1, HandledCall
  <2>2. UNCHANGED <<canAdd, picking, single, offered, disturbed>>
    BY <1>1 DEF Handle
  <2> QED
    BY <1>a, <2>1, <2>2
<1>2. ASSUME NEW c \in calls, RedeemedArrive(c)
      PROVE  Goal
  <2>1. PICK fault \in ListFaults(c) : Listed(c, fault)
    BY <1>2 DEF RedeemedArrive
  <2>2. fault = {}
    BY <2>1 DEF Listed
  <2> QED
    BY <2>1, <2>2 DEF Listed
<1>3. ASSUME NEW c \in calls, MethodsArrive(c) \/ GiftcardRemoved(c) \/ GiftcardSaved(c)
      PROVE  Goal
  <2>1. PICK a : [Sent("redeemed") EXCEPT !.amount = a] \in calls'
    BY <1>3 DEF MethodsArrive, GiftcardRemoved, GiftcardSaved, FetchRedeemedGiftcards, Sends
  <2>2. [Sent("redeemed") EXCEPT !.amount = a].kind = "redeemed"
    BY <1>k DEF CallType
  <2> QED
    BY <2>1, <2>2
<1>4. ASSUME NEW c \in calls, MountGiftcard(c)
      PROVE  Goal
  BY <1>4 DEF MountGiftcard
<1>5. ASSUME NEW c \in calls, LibraryFails(c) \/ AnswerLost(c)
      PROVE  FALSE
  BY <1>5 DEF LibraryFails, AnswerLost
<1>6. ASSUME NEW c \in calls,
             \/ HandleBalanceResult(c) \/ BalanceFails(c) \/ PlaceOrderFails(c)
             \/ PlaceOrderDone(c) \/ ValidateActionOrPlaceOrder(c)
      PROVE  Goal
  <2>1. /\ disturbed = {} /\ UNCHANGED <<canAdd, picking, single, offered>>
        /\ c.kind \notin {"library", "redeemed"} /\ calls \ {c} \subseteq calls'
    BY <1>6 DEF HandleBalanceResult, BalanceFails, PlaceOrderFails, PlaceOrderDone,
       ValidateActionOrPlaceOrder, Answers, Sends
  <2> HIDE DEF Goal
  <2> QED
    BY <1>b, <2>1
<1>7. ASSUME ChangeTotal \/ CheckBalance \/ PlaceOrder \/ (\E row \in redeemed : RemoveGiftcard(row))
             \/ UNCHANGED vars
      PROVE  Goal
  <2>1. /\ disturbed = {} /\ UNCHANGED <<canAdd, picking, single, offered>>
        /\ calls \subseteq calls'
    BY <1>7 DEF ChangeTotal, CheckBalance, PlaceOrder, RemoveGiftcard, Sends, vars
  <2> HIDE DEF Goal
  <2> QED
    BY <1>b, <2>1
<1>8. ASSUME AddNewGiftcard \/ RemoveSingleGiftcard
      PROVE  Goal
  BY <1>8 DEF AddNewGiftcard, RemoveSingleGiftcard
<1>9. ASSUME NEW card \in Cards, GiftcardOnSelect(card)
      PROVE  Goal
  <2>1. Sent("library") \in calls'
    BY <1>9 DEF GiftcardOnSelect, Sends
  <2> QED
    BY <1>k, <2>1
<1>10. Goal
  <2> HIDE DEF Goal
  <2>1. ASSUME NEW c \in calls, Answer(c)
        PROVE  Goal
    BY <1>2, <1>3, <1>4, <1>5, <1>6, <2>1, Zenon DEF Answer
  <2>2. Shopper => Goal
    BY <1>7, <1>8, <1>9, Zenon DEF Shopper
  <2> QED
    BY <1>1, <1>7, <2>1, <2>2, Zenon DEF Next
<1> QED
  BY <1>10

(* At the start the list has been asked for by nobody, and the total of the *)
(* page is that of the server.                                             *)
LEMMA ListInit ==
  Init => NumbersInv /\ ListInv /\ GoOnInv
<1> SUFFICES ASSUME Init
             PROVE  NumbersInv /\ ListInv /\ GoOnInv
  OBVIOUS
<1> DEFINE first == Call(1, "methods")
<1>1. first.n = 1 /\ first.kind = "methods"
  BY NewCall DEF Kinds
<1>2. calls = {first} /\ latest = 0 /\ told = 0 /\ due = Undefined /\ sent = 1 /\ grandTotal = total /\ canAdd = TRUE
  BY DEF Init
<1> HIDE DEF first
<1>3. NumbersInv
  <2> HIDE DEF Init
  <2> QED
    BY <1>1, <1>2 DEF NumbersInv, Undefined
<1>4. Changing # {}
  BY <1>1, <1>2 DEF Changing, Pending
<1> QED
  BY <1>2, <1>3, <1>4 DEF ListInv, GoOnInv

(* All of it holds in every state. *)
LEMMA ListHolds ==
  Spec => [](TypeInv /\ NumbersInv /\ ListInv /\ GoOnInv)
<1> DEFINE Inv == TypeInv /\ NumbersInv /\ ListInv /\ GoOnInv
<1>1. Init => Inv
  BY TypeInit, ListInit
<1>2. Inv /\ [Next]_vars => Inv'
  <2> SUFFICES ASSUME Inv, [Next]_vars
               PROVE  Inv'
    OBVIOUS
  <2>1. TypeInv' /\ NumbersInv' /\ GoOnInv'
    BY TypeStep, NumbersStep, GoOnStep
  <2>2. ListInv'
    BY <2>1, ListStep
  <2> QED
    BY <2>1, <2>2
<1> QED
  <2> HIDE DEF Inv
  <2>1. Spec => []Inv
    BY <1>1, <1>2, PTL DEF Spec
  <2> QED
    BY <2>1 DEF Inv

(* The page offers to place the order with gift cards only when the rows    *)
(* the server has redeemed cover it, once the list it is due is shown.     *)
THEOREM OfferIsBacked ==
  Spec => []OfferBacked
<1>1. TypeInv /\ NumbersInv /\ ListInv /\ GoOnInv => OfferBacked
  <2> SUFFICES ASSUME TypeInv, ListInv, Quiet, offered, latest = due
               PROVE  Covered(rows, total)
    BY DEF OfferBacked
  <2>1. Changing = {} /\ due # Undefined
    BY DEF Quiet, Changing, Pending, TypeInv, TypeOK, Undefined
  <2> QED
    BY <2>1 DEF ListInv
<1> QED
  BY <1>1, ListHolds, PTL

(* The block beside the total tells what the server has redeemed, once the  *)
(* list the page is due has come, even one that could not be shown.        *)
THEOREM SummaryIsTrue ==
  Spec => []SummaryMatches
<1>1. TypeInv /\ NumbersInv /\ ListInv /\ GoOnInv => SummaryMatches
  <2> SUFFICES ASSUME TypeInv, ListInv, Quiet, told = due
               PROVE  summary = Summary(rows, total)
    BY DEF SummaryMatches
  <2>1. Changing = {} /\ due # Undefined
    BY DEF Quiet, Changing, Pending, TypeInv, TypeOK, Undefined
  <2> QED
    BY <2>1 DEF ListInv
<1> QED
  BY <1>1, ListHolds, PTL

(* The shopper is never left without a control to go on with. *)
THEOREM NeverStuck ==
  Spec => []CanGoOn
<1>1. TypeInv /\ NumbersInv /\ ListInv /\ GoOnInv => CanGoOn
  BY DEF GoOnInv, CanGoOn, Pending
<1> QED
  BY <1>1, ListHolds, PTL
=============================================================================
