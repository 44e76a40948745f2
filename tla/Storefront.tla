----------------------------- MODULE Storefront -----------------------------
(***************************************************************************)
(* The checkout page: the renderers together, and the answers that bring   *)
(* the payment methods.                                                    *)
(***************************************************************************)
EXTENDS CardRenderer, VaultRenderer, MethodRenderer, PosRenderer

(* A change of the cart or of an address asks for the methods anew, under  *)
(* a loader of its own.                                                    *)
AskMethods ==
  /\ Clickable /\ ~refreshing
  /\ refreshing' = TRUE
  /\ loader' = loader + 1
  /\ UNCHANGED <<listed, late, checked, answered, session, building, lib, fields,
                 reported, modal, flag, attempts, orderId, cart, page, landed>>

(* Their enablePaymentMethod stops a loader it has not started. *)
Unbalanced == {r \in started : Kind[r] \in MethodKinds \cup {"vault"}}

Preselected(r) == CardPreselected(r) \/ VaultPreselected(r) \/ MethodPreselected(r)

(* The script of a renderer has been loaded: initialize.  When the methods *)
(* have come before, it takes them at once, and its template is rendered.  *)
Initialize(r) ==
  /\ page = "here" /\ r \in listed \ started
  /\ started' = started \cup {r}
  /\ IF answered /\ Kind[r] \in MethodKinds \cup {"vault"}
       THEN loader' = Stopped(1) /\ Crosses
       ELSE UNCHANGED <<loader, crossed>>
  /\ building' =
       IF answered /\ Preselected(r) THEN [building EXCEPT ![r] = 1] ELSE building
  /\ UNCHANGED <<listed, sheets, checked, answered, refreshing, session, lib,
                 fields, reported, modal, flag, attempts, orderId, cart, page,
                 landed>>

(* The first answer renders the templates. *)
MethodsArrive ==
  /\ page = "here" /\ refreshing
  /\ refreshing' = FALSE
  /\ answered' = TRUE
  /\ loader' = Stopped(1 + Cardinality(Unbalanced))
  /\ building' =
       IF answered THEN building
       ELSE [r \in Renderers |->
               IF r \in started /\ Preselected(r) THEN 1 ELSE 0]
  /\ UNCHANGED <<listed, late, checked, session, lib, fields, reported, modal, flag,
                 attempts, orderId, cart, page, landed>>

(* A redirect has been mounted: the browser leaves. *)
Redirect(a) ==
  /\ Asking(a, Kinds, "acting") /\ attempts[a].act = "redirect"
  /\ page' = "away"
  /\ UNCHANGED <<loader, modal, flag, attempts, orderId, cart, landed, forms>>

Shopper(r) ==
  \/ CardSelect(r) \/ CardEdit(r) \/ CardPlace(r)
  \/ VaultSelect(r) \/ VaultEdit(r) \/ VaultPlace(r)
  \/ MethodSelect(r) \/ MethodEdit(r) \/ MethodPlace(r)
  \/ OpenSheet(r) \/ MethodSubmit(r) \/ AmazonPay(r) \/ MethodErrorIdle(r)
  \/ PosSelect(r) \/ PosPlace(r)

Library(r) ==
  CardBuilt(r) \/ VaultBuilt(r) \/ MethodBuilt(r) \/ AmazonBuilt(r)

Answer(a) ==
  \/ CardPlaceFails(a) \/ CardPlaceDone(a) \/ CardStatus(a) \/ CardStatusFails(a)
  \/ CardDetailsDone(a) \/ CardDetailsFails(a)
  \/ VaultPlaceFails(a) \/ VaultPlaceDone(a) \/ VaultStatus(a) \/ VaultStatusFails(a)
  \/ VaultDetailsDone(a) \/ VaultDetailsFails(a)
  \/ MethodPlaceFails(a) \/ MethodPlaceDone(a) \/ MethodStatus(a) \/ MethodStatusFails(a)
  \/ MethodDetailsDone(a) \/ MethodDetailsFails(a)
  \/ PosPlaceFails(a) \/ PosPlaceDone(a) \/ PosPay(a) \/ PosPayFails(a)

Component(a) ==
  \/ CardReport(a) \/ VaultReport(a)
  \/ MethodReport(a) \/ MethodCancel(a) \/ MethodError(a) \/ PaypalError(a)
  \/ AmazonRemount(a) \/ AmazonDecline(a) \/ Redirect(a)

Next ==
  \/ AskMethods \/ MethodsArrive
  \/ \E r \in listed : Initialize(r) \/ Shopper(r) \/ Library(r)
  \/ \E a \in DOMAIN attempts : Answer(a) \/ Component(a)

Spec == Init /\ [][Next]_vars

Live(a) == attempts[a].phase \in Flying \cup {"acting"}
Ongoing(a) == page = "here" /\ Live(a) /\ (Answer(a) \/ Component(a))

(* Some call that is under way is answered or fails, and an action's       *)
(* component ends in time: a challenge expires.                            *)
FairSpec ==
  /\ Spec
  /\ WF_vars(MethodsArrive)
  /\ WF_vars(\E a \in DOMAIN attempts : Ongoing(a))

-----------------------------------------------------------------------------
Dropped == \E a \in DOMAIN attempts : attempts[a].phase = "dropped"

(* The page, its renderers and its attempts hold what they are meant to.    *)
TypeOK ==
  /\ listed \subseteq Renderers
  /\ started \subseteq listed
  /\ sheets \subseteq Renderers
  /\ checked \in Renderers \cup {None}
  /\ {answered, refreshing, session, cart, crossed} \subseteq BOOLEAN
  /\ building \in [Renderers -> Nat]
  /\ \A r \in Renderers : building[r] <= MaxBuilds[r]
  /\ lib \in [Renderers -> BOOLEAN]
  /\ fields \in [Renderers -> {"none", "empty", "filled"}]
  /\ reported \in [Renderers -> BOOLEAN]
  /\ loader \in Nat
  /\ modal \subseteq Renderers
  /\ flag \in [Renderers -> BOOLEAN]
  /\ attempts \in Seq(AttemptType)
  /\ Len(attempts) <= MaxAttempts
  /\ orderId \in [Renderers -> 0..MaxAttempts]
  /\ page \in {"here", "success", "away"}
  /\ landed \in 0..MaxAttempts

(* The success page is reached for an order whose payment the server has   *)
(* accepted, except from the renderers of MethodKinds: they take any       *)
(* answer of the details call for a success (adyen-pm-method.js:242).      *)
SuccessEarned ==
  page = "success" =>
    /\ landed \in DOMAIN attempts
    /\ \/ attempts[landed].order \in FinalOrders
       \/ /\ attempts[landed].order = "open"
          /\ Kind[attempts[landed].by] \in MethodKinds

(* Attempts whose window or redirect does not cover the page, and those of *)
(* Amazon Pay, which are made by a mount and not by the shopper.           *)
Loose(a) ==
  \/ attempts[a].act = "redirect"
  \/ Kind[attempts[a].by] \in {"paypal", "cashapp", "amazon"}

(* While an attempt is under way no other is made: the loader, the dialog  *)
(* and the flags hand over to each other without a gap, although loaders   *)
(* are stopped that were not started (adyen-cc-vault-method.js:89 and 134, *)
(* adyen-pm-method.js:104).  Not when a callback that looks at nothing has *)
(* come to a covered page: a wallet's window that is confirmed             *)
(* (adyen-pm-method.js:218) or fails (147), a script that is loaded late   *)
(* (77, adyen-cc-vault-method.js:79).                                      *)
SingleAttempt ==
  \A a, b \in DOMAIN attempts :
    a < b /\ Live(a) /\ Live(b) =>
      crossed \/ \E c \in DOMAIN attempts : Loose(c)

(* The shopper pays at most once from one page: an answer that was lost,   *)
(* an order left open by a renderer or a refused challenge do not lead to  *)
(* a second payment, but for attempts that leave the page uncovered, and   *)
(* callbacks that do not look whether it is covered.                       *)
PaidOnce ==
  \A a, b \in DOMAIN attempts :
    a < b /\ attempts[a].order = "paid" /\ attempts[b].order = "paid" =>
      crossed \/ \E c \in DOMAIN attempts : Loose(c)

(* The details of an action are sent for the order the action belongs to,  *)
(* but for attempts that leave the page uncovered and callbacks that do    *)
(* not look: a renderer remembers one order only (adyen-cc-method.js:384,  *)
(* adyen-cc-vault-method.js:138, adyen-pm-method.js:242), and a second     *)
(* attempt makes it forget the first.                                      *)
DetailsOfOwnOrder ==
  \A a \in DOMAIN attempts :
    attempts[a].phase = "sending" =>
      \/ orderId[attempts[a].by] = a
      \/ crossed
      \/ \E c \in DOMAIN attempts : Loose(c)

(* The page is covered only while something is under way, unless a handler *)
(* was left half-way: every way to end an attempt stops what it started.   *)
CoverExplained ==
  page = "here" /\ Covered =>
    refreshing \/ Dropped \/ \E a \in DOMAIN attempts : Live(a)

(* When nothing is under way and no handler was left half-way, the buttons *)
(* can be used again: the flags of new cards, tokens and terminals, and    *)
(* that of a method whose form is filled in.                               *)
ButtonRestored ==
  (page = "here" /\ ~Dropped /\ \A a \in DOMAIN attempts : ~Live(a)) =>
    \A r \in Renderers :
      \/ Kind[r] \notin MethodKinds
      \/ Kind[r] = "pm" /\ fields[r] = "filled"
      => flag[r]

(* The page does not stay covered for ever, unless a handler was left      *)
(* half-way.                                                               *)
CoverLifts ==
  (page = "here" /\ Covered) ~> (page # "here" \/ ~Covered \/ Dropped)
=============================================================================
