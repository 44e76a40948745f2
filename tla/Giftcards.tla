------------------------------ MODULE Giftcards ------------------------------
(***************************************************************************)
(* Gift cards of the checkout page, adyen-giftcard-method.js, with the     *)
(* summary beside the total, giftcard-summary.js, and the server's rows of *)
(* state data they are redeemed into.                                      *)
(*                                                                         *)
(* A call is handled by the server in one step and answered in a later     *)
(* one, calls under way overtake each other, and an answer may be lost.    *)
(* Amounts are in minor units.                                             *)
(***************************************************************************)
EXTENDS Integers, FiniteSets, FiniteSetsExt

CONSTANTS
  Cards,      \* gift cards of the shopper, each of a brand of its own
  Balance,    \* balance of each
  Limit,      \* its transaction limit, 0 if none
  Totals,     \* grand totals the cart may have
  Stored,     \* rows of an earlier visit that may still be there
  None,
  MaxCalls,   \* bound: after so many calls the shopper rests
  Faults      \* faults that may happen, a subset of FaultKinds

(* lost: an answer is lost.  library: AdyenCheckout() fails.  icon: the    *)
(* methods have no icon for the brand of a redeemed card.                  *)
FaultKinds == {"lost", "library", "icon"}

ASSUME GiftcardAssumption ==
  /\ Balance \in [Cards -> Nat]
  /\ Limit \in [Cards -> Nat]
  /\ Totals \subseteq Nat \ {0}
  /\ Stored \subseteq [id : Nat, card : Cards] /\ IsFiniteSet(Stored)
  /\ None \notin Cards
  /\ MaxCalls \in Nat
  /\ Faults \subseteq FaultKinds

VARIABLES
  rows,       \* the server's state data of gift cards
  total,      \* the server's grand total
  cart,       \* the server's quote is active
  grandTotal, \* grand total of the page's quote
  ready,      \* giftcardPaymentMethods is set
  selected,   \* selectedGiftcard
  redeemed,   \* redeemedCards
  balance,    \* totalGiftcardBalance
  canAdd, picking, single, offered,   \* the controls that are shown
  component,  \* the mounted component
  summary,    \* the block beside the total
  loader, calls, page,
  sent,       \* calls made so far
  latest,     \* the call whose list of redeemed cards is shown
  told,       \* the call whose list the summary is made of
  due,        \* the list asked for last, unless the rows changed unannounced since
  disturbed   \* faults that happened

server == <<rows, total, cart>>
controls == <<canAdd, picking, single, offered>>
list == <<redeemed, balance, summary, latest, told>>
vars == <<server, grandTotal, ready, selected, list, controls, component,
          loader, calls, page, sent, disturbed, due>>

Undefined == -1
Hidden == [shown |-> FALSE, discount |-> 0, remaining |-> 0]
NoComponent == [card |-> None, by |-> 0, state |-> "none"]
States == {"none", "entry", "checking", "payable"}

Rows == [id : Nat, card : Cards]
Kinds == {"methods", "library", "balance", "save", "remove", "redeemed",
          "place", "status"}

(* What the server does in a step of its own; the rest has no effect on     *)
(* anything but its answer.                                                *)
Handled == {"save", "remove", "redeemed", "place"}

(* card, row: what the call is about.  by: the component that makes it.    *)
(* amount: the order's amount at that time.  done, seen, charged: the      *)
(* server has handled it, and found these rows and this total.  order:     *)
(* what has become of the order.                                           *)
CallType ==
  [n : Nat, kind : Kinds, card : Cards \cup {None}, row : Nat, by : Nat,
   amount : Totals \cup {0}, done : BOOLEAN, seen : SUBSET Rows,
   charged : Totals \cup {0}, order : {"none", "open", "final"}]

Call(n, kind) ==
  [n |-> n, kind |-> kind, card |-> None, row |-> 0, by |-> 0, amount |-> 0,
   done |-> kind \notin Handled, seen |-> {}, charged |-> 0, order |-> "none"]

Init ==
  /\ rows \in SUBSET Stored /\ total \in Totals /\ cart = TRUE
  /\ grandTotal = total
  /\ ready = FALSE
  /\ selected = None
  /\ redeemed = {} /\ balance = Undefined /\ summary = Hidden
  /\ latest = 0 /\ told = 0 /\ due = Undefined
  /\ canAdd = TRUE /\ picking = FALSE /\ single = FALSE /\ offered = FALSE
  /\ component = NoComponent
  /\ loader = 1
  /\ calls = {Call(1, "methods")}
  /\ sent = 1
  /\ page = "here"
  /\ disturbed = {}

Clickable == page = "here" /\ ready /\ loader = 0
Clicks == Clickable /\ sent < MaxCalls

(* startLoader and stopLoader count. *)
Stopped == IF loader > 0 THEN loader - 1 ELSE 0

Sent(kind) == Call(sent + 1, kind)

Sends(others, call) ==
  /\ calls' = others \cup {call}
  /\ sent' = sent + 1

Answers(c, kind) == page = "here" /\ c.kind = kind /\ c.done

-----------------------------------------------------------------------------
(* The server. *)

(* handleBalanceResult: the limit counts when it is within the balance. *)
Consumable(c) == IF Limit[c] \in 1..Balance[c] THEN Limit[c] ELSE Balance[c]

(* What the rows of state data add up to *)
Sum(R) == MapThenSumSet(LAMBDA row : Consumable(row.card), R)

(* Mutant: the balances count in full. *)
DiscountInFull(R, amount) == Sum(R)

Discount(R, amount) == Min({Sum(R), amount})

(* The total changes, and the page asks for the payment methods. *)
ChangeTotal ==
  /\ Clicks /\ cart
  /\ total' \in Totals \ {total}
  /\ Sends(calls, Sent("methods"))
  /\ loader' = loader + 1
  /\ UNCHANGED <<rows, cart, grandTotal, ready, selected, list, controls,
                 component, page, disturbed, due>>

(* The rows there may be when the server has handled a call.  State data is *)
(* saved without a look at what is already there.  The handlers of the     *)
(* gateway's response delete all of it when a payment is made, so that it  *)
(* may be gone although the order could not be placed after all.           *)
RowsLeft(c, order) ==
  CASE c.kind = "save"           -> {rows \cup {[id |-> c.n, card |-> c.card]}}
    [] c.kind = "remove"         -> {{row \in rows : row.id # c.row}}
    [] c.kind = "place" /\ cart  -> IF order = "none" THEN {rows, {}} ELSE {{}}
    [] OTHER                     -> {rows}

(* Without an active quote no order is placed. *)
Handle(c) ==
  /\ ~c.done
  /\ \E order \in (IF c.kind = "place" /\ cart THEN {"none", "open", "final"}
                                               ELSE {c.order}) :
       /\ rows' \in RowsLeft(c, order)
       /\ cart' = (cart /\ ~(c.kind = "place" /\ order = "final"))
       /\ calls' = (calls \ {c}) \cup
            {[c EXCEPT !.done = TRUE, !.seen = rows, !.charged = total,
                       !.order = order]}
  /\ due' = IF c.kind = "place" /\ rows' # rows THEN Undefined ELSE due
  /\ UNCHANGED <<total, grandTotal, ready, selected, list, controls, component,
                 loader, page, sent, disturbed>>

-----------------------------------------------------------------------------
(* The list of redeemed cards. *)

(* fetchRedeemedGiftcards, up to the call, for the amount of that moment *)
FetchRedeemedGiftcards(others, amount) ==
  /\ Sends(others, [Sent("redeemed") EXCEPT !.amount = amount])
  /\ due' = sent + 1

(* initialize: the payment methods arrive, fetchGiftcardPaymentMethods *)
MethodsArrive(c) ==
  /\ Answers(c, "methods")
  /\ grandTotal' = total
  /\ ready' = TRUE
  /\ FetchRedeemedGiftcards(calls \ {c}, total)
  /\ loader' = Stopped
  /\ UNCHANGED <<server, selected, list, controls, component, page, disturbed>>

(* setGiftcardSummaryBlock, resetGiftcardSummary *)
Summary(R, amount) ==
  IF R = {} THEN Hidden
  ELSE [shown |-> TRUE, discount |-> Discount(R, amount),
        remaining |-> amount - Discount(R, amount)]

Covered(R, amount) == Sum(R) >= amount

(* The list, or what throws while its icons are looked up *)
Listed(c, fault) ==
  /\ calls' = calls \ {c}
  /\ disturbed' = disturbed \cup fault
  /\ IF fault = {}
     THEN /\ redeemed' = c.seen /\ latest' = c.n
          /\ balance' = Sum(c.seen)
          /\ canAdd' = ~Covered(c.seen, c.amount)
          /\ offered' = Covered(c.seen, c.amount)
     ELSE UNCHANGED <<redeemed, latest, balance, canAdd, offered>>
  /\ UNCHANGED <<server, grandTotal, ready, selected, picking, single,
                 component, loader, page, sent, due>>

ListFaults(c) == IF c.seen = {} THEN {{}} ELSE {{}, {"icon"} \cap Faults}

(* Mutant: the summary is set when the list has been. *)
RedeemedArriveLate(c) ==
  /\ Answers(c, "redeemed")
  /\ \E fault \in ListFaults(c) :
       /\ Listed(c, fault)
       /\ summary' = IF fault = {} THEN Summary(c.seen, c.charged) ELSE summary
  /\ told' = c.n

(* fetchRedeemedGiftcards, the answer *)
RedeemedArrive(c) ==
  /\ Answers(c, "redeemed")
  /\ \E fault \in ListFaults(c) : Listed(c, fault)
  /\ summary' = Summary(c.seen, c.charged) /\ told' = c.n

(* removeGiftcard *)
RemoveGiftcard(row) ==
  /\ Clicks /\ row \in redeemed
  /\ Sends(calls, [Sent("remove") EXCEPT !.row = row.id])
  /\ loader' = loader + 1
  /\ UNCHANGED <<server, grandTotal, ready, selected, list, controls, component,
                 page, disturbed, due>>

(* Mutant: the list is not asked for again. *)
GiftcardRemovedUnlisted(c) ==
  /\ page = "here" /\ c.kind = "remove"
  /\ calls' = calls \ {c}
  /\ loader' = Stopped
  /\ UNCHANGED <<server, grandTotal, ready, selected, list, controls, component,
                 page, sent, disturbed, due>>

(* The same follows its failure. *)
GiftcardRemoved(c) ==
  /\ page = "here" /\ c.kind = "remove"
  /\ FetchRedeemedGiftcards(calls \ {c}, grandTotal)
  /\ loader' = Stopped
  /\ UNCHANGED <<server, grandTotal, ready, selected, list, controls, component,
                 page, disturbed>>

-----------------------------------------------------------------------------
(* A new card. *)

AddNewGiftcard ==
  /\ Clickable /\ canAdd
  /\ canAdd' = FALSE /\ picking' = TRUE
  /\ UNCHANGED <<server, grandTotal, ready, selected, list, single, offered,
                 component, loader, calls, page, sent, disturbed, due>>

(* Mutant: no other card can be added. *)
RemoveSingleGiftcardStuck ==
  /\ Clickable /\ single
  /\ component' = NoComponent
  /\ offered' = FALSE /\ single' = FALSE
  /\ UNCHANGED <<server, grandTotal, ready, selected, list, canAdd, picking,
                 loader, calls, page, sent, disturbed, due>>

RemoveSingleGiftcard ==
  /\ Clickable /\ single
  /\ component' = NoComponent
  /\ canAdd' = TRUE /\ offered' = FALSE /\ single' = FALSE
  /\ UNCHANGED <<server, grandTotal, ready, selected, list, picking, loader,
                 calls, page, sent, disturbed, due>>

(* giftcardOnSelect, initiateAdyenCheckout: a library is built each time. *)
GiftcardOnSelect(card) ==
  /\ Clicks /\ picking
  /\ picking' = FALSE
  /\ selected' = card
  /\ Sends(calls, Sent("library"))
  /\ loader' = loader + 1
  /\ UNCHANGED <<server, grandTotal, ready, list, canAdd, single, offered,
                 component, page, disturbed, due>>

(* Mutant: the loader stays. *)
MountGiftcardLoading(c) ==
  /\ Answers(c, "library")
  /\ component' = [card |-> selected, by |-> c.n, state |-> "entry"]
  /\ single' = TRUE
  /\ calls' = calls \ {c}
  /\ UNCHANGED <<server, grandTotal, ready, selected, list, canAdd, picking,
                 offered, loader, page, sent, disturbed, due>>

(* mountGiftcardComponent *)
MountGiftcard(c) ==
  /\ Answers(c, "library")
  /\ component' = [card |-> selected, by |-> c.n, state |-> "entry"]
  /\ single' = TRUE
  /\ loader' = Stopped
  /\ calls' = calls \ {c}
  /\ UNCHANGED <<server, grandTotal, ready, selected, list, canAdd, picking,
                 offered, page, sent, disturbed, due>>

(* Nothing handles the failure of the library: the loader stays. *)
LibraryFails(c) ==
  /\ Answers(c, "library") /\ "library" \in Faults
  /\ disturbed' = disturbed \cup {"library"}
  /\ calls' = calls \ {c}
  /\ UNCHANGED <<server, grandTotal, ready, selected, list, controls, component,
                 loader, page, sent, due>>

(* onBalanceCheck *)
CheckBalance ==
  /\ Clicks /\ component.state = "entry"
  /\ component' = [component EXCEPT !.state = "checking"]
  /\ Sends(calls, [Sent("balance") EXCEPT !.card = component.card, !.by = component.by])
  /\ UNCHANGED <<server, grandTotal, ready, selected, list, controls, loader,
                 page, disturbed, due>>

Becomes(c, state) ==
  component' = IF component.by = c.by THEN [component EXCEPT !.state = state]
                                      ELSE component

(* handleBalanceResult: a card that covers the whole order pays on its own, *)
(* one that helps is redeemed, the component of any other waits for ever.  *)
HandleBalanceResult(c) ==
  /\ Answers(c, "balance")
  /\ \/ /\ balance = 0 /\ Consumable(c.card) >= grandTotal
        /\ Becomes(c, "payable")
        /\ calls' = calls \ {c}
        /\ UNCHANGED sent
     \/ /\ ~(balance = 0 /\ Consumable(c.card) >= grandTotal)
        /\ balance # Undefined /\ grandTotal > balance
        /\ Sends(calls \ {c}, [Sent("save") EXCEPT !.card = c.card])
        /\ UNCHANGED component
     \/ /\ balance = Undefined \/ grandTotal <= balance
        /\ calls' = calls \ {c}
        /\ UNCHANGED <<component, sent>>
  /\ UNCHANGED <<server, grandTotal, ready, selected, list, controls, loader,
                 page, disturbed, due>>

(* The balance check fails: reject. *)
BalanceFails(c) ==
  /\ Answers(c, "balance") /\ "lost" \in Faults
  /\ Becomes(c, "entry")
  /\ calls' = calls \ {c}
  /\ UNCHANGED <<server, grandTotal, ready, selected, list, controls, loader,
                 page, sent, disturbed, due>>

(* saveStateData is done: whatever component is mounted is removed. *)
GiftcardSaved(c) ==
  /\ Answers(c, "save")
  /\ component' = NoComponent
  /\ single' = FALSE
  /\ FetchRedeemedGiftcards(calls \ {c}, grandTotal)
  /\ UNCHANGED <<server, grandTotal, ready, selected, list, canAdd, picking,
                 offered, loader, page, disturbed>>

(* Nothing handles the failure of a save or of a fetch. *)
AnswerLost(c) ==
  /\ page = "here" /\ c.kind \in {"save", "redeemed", "status"}
  /\ "lost" \in Faults
  /\ disturbed' = disturbed \cup {"lost"}
  /\ due' = IF c.kind = "save" THEN Undefined ELSE due
  /\ calls' = calls \ {c}
  /\ UNCHANGED <<server, grandTotal, ready, selected, list, controls, component,
                 loader, page, sent>>

-----------------------------------------------------------------------------
(* The order. *)

(* placeOrder: the button of the page, which is never disabled, or that of *)
(* the component.                                                          *)
PlaceOrder ==
  /\ Clicks
  /\ offered \/ component.state = "payable"
  /\ Sends(calls, Sent("place"))
  /\ loader' = loader + 1
  /\ UNCHANGED <<server, grandTotal, ready, selected, list, controls, component,
                 page, disturbed, due>>

PlaceOrderFails(c) ==
  /\ Answers(c, "place")
  /\ c.order = "none" \/ "lost" \in Faults
  /\ calls' = calls \ {c}
  /\ loader' = Stopped
  /\ UNCHANGED <<server, grandTotal, ready, selected, list, controls, component,
                 page, sent, disturbed, due>>

PlaceOrderDone(c) ==
  /\ Answers(c, "place") /\ c.order # "none"
  /\ Sends(calls \ {c}, [Sent("status") EXCEPT !.order = c.order])
  /\ loader' = Stopped
  /\ UNCHANGED <<server, grandTotal, ready, selected, list, controls, component,
                 page, disturbed, due>>

(* validateActionOrPlaceOrder: an action is not carried out. *)
ValidateActionOrPlaceOrder(c) ==
  /\ Answers(c, "status")
  /\ calls' = calls \ {c}
  /\ page' = IF c.order = "final" THEN "success" ELSE page
  /\ UNCHANGED <<server, grandTotal, ready, selected, list, controls, component,
                 loader, sent, disturbed, due>>

Shopper ==
  \/ ChangeTotal \/ AddNewGiftcard \/ RemoveSingleGiftcard \/ CheckBalance
  \/ PlaceOrder
  \/ \E row \in redeemed : RemoveGiftcard(row)
  \/ \E card \in Cards : GiftcardOnSelect(card)

Answer(c) ==
  \/ MethodsArrive(c) \/ RedeemedArrive(c) \/ GiftcardRemoved(c)
  \/ MountGiftcard(c) \/ LibraryFails(c) \/ HandleBalanceResult(c)
  \/ BalanceFails(c) \/ GiftcardSaved(c) \/ AnswerLost(c)
  \/ PlaceOrderFails(c) \/ PlaceOrderDone(c) \/ ValidateActionOrPlaceOrder(c)

Next == Shopper \/ \E c \in calls : Handle(c) \/ Answer(c)

Spec == Init /\ [][Next]_vars

(* Some call that is under way is handled, answered or fails. *)
FairSpec == Spec /\ WF_vars(\E c \in calls : Handle(c) \/ Answer(c))

-----------------------------------------------------------------------------
(* The page, the stored rows and the calls hold what they are meant to.     *)
TypeOK ==
  /\ rows \subseteq Rows /\ redeemed \subseteq Rows
  /\ {total, grandTotal} \subseteq Totals
  /\ {cart, ready, canAdd, picking, single, offered} \subseteq BOOLEAN
  /\ selected \in Cards \cup {None}
  /\ balance \in Nat \cup {Undefined}
  /\ component \in [card : Cards \cup {None}, by : Nat, state : States]
  /\ summary \in [shown : BOOLEAN, discount : Nat, remaining : Nat]
  /\ {loader, sent, latest, told} \subseteq Nat /\ due \in Nat \cup {Undefined}
  /\ calls \subseteq CallType
  /\ page \in {"here", "success"}
  /\ disturbed \subseteq FaultKinds

(* Nothing is under way that changes the rows or the total, or tells of it. *)
Quiet ==
  page = "here" /\ \A c \in calls : c.kind \notin {"methods", "save", "remove", "redeemed"}

(* The page offers to place the order with gift cards only when what the    *)
(* server has redeemed covers it, however the calls of several cards are   *)
(* interleaved, once the list that was asked for last is shown: it is      *)
(* asked for after each change has been answered                           *)
(* (adyen-giftcard-method.js:195, 244).  A list that gets lost, throws, or *)
(* is overtaken by the one before leaves the offer as it was, up to the    *)
(* next; nothing is asked for when the order was placed, which deletes the *)
(* rows, nor when the answer of a save is lost.                            *)
OfferBacked ==
  Quiet /\ offered /\ latest = due => Covered(rows, total)

(* The block beside the total tells what the server has redeemed, once the  *)
(* list that was asked for last has come, even one that could not be       *)
(* shown: it is set first (line 258).                                      *)
SummaryMatches ==
  Quiet /\ told = due => summary = Summary(rows, total)

(* The shopper is never left without a control to go on with: to place the *)
(* order, to add a card, to choose one, or to remove the one being entered. *)
CanGoOn ==
  (calls = {} /\ page = "here" /\ disturbed = {}) =>
    offered \/ canAdd \/ picking \/ single

(* The loader does not stay for ever, unless the library failed: every     *)
(* callback stops what was started for it (lines 115, 159, 195-199).       *)
LoaderReleased ==
  (page = "here" /\ loader > 0)
    ~> (page # "here" \/ loader = 0 \/ "library" \in disturbed)
=============================================================================
