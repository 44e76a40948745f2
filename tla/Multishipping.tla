---------------------------- MODULE Multishipping ----------------------------
(***************************************************************************)
(* The payment page of multishipping checkout: the renderers of            *)
(* multishipping/adyen-cc-method.js and multishipping/adyen-pm-method.js,  *)
(* the hidden field #stateData they share, and the check before the page   *)
(* is left, payment-mixin.js.                                              *)
(***************************************************************************)
EXTENDS Naturals, FiniteSets

CONSTANTS
  Renderers,
  CardRenderers,  \* those of new cards; the others are adyen-pm-method
  Pages,          \* the sets of renderers a page may list
  None,
  Faults          \* "library": AdyenCheckout() may fail

ASSUME MultishippingAssumption ==
  /\ IsFiniteSet(Renderers) /\ CardRenderers \subseteq Renderers
  /\ Pages \subseteq SUBSET Renderers
  /\ None \notin Renderers
  /\ Faults \subseteq {"library"}

Kinds == {"cc", "pm"}
Kind(r) == IF r \in CardRenderers THEN "cc" ELSE "pm"

VARIABLES
  listed,     \* renderers of the page
  checked,    \* the selected one
  answered,   \* the payment methods have arrived
  shown,      \* renderers whose template is rendered
  isTemplateRendered,   \* an observable of the prototype, one per kind
  waiting,    \* selections that wait for it
  creating,   \* renderers that wait for AdyenCheckout()
  lib,        \* checkoutComponent is set
  form,       \* the mounted component's form
  stateData,  \* the renderer whose data the hidden field holds
  handler,    \* the renderer whose component Continue validates, None if none does
  early,      \* renderers that were selected before their template was rendered
  loader, page, failed

templates == <<listed, shown, isTemplateRendered>>
vars == <<templates, checked, answered, waiting, creating, lib, form,
          stateData, handler, early, loader, page, failed>>

Forms == {"none", "empty", "filled"}

Init ==
  /\ listed \in Pages
  /\ checked = None
  /\ answered = FALSE
  /\ shown = {}
  /\ isTemplateRendered = [k \in Kinds |-> FALSE]
  /\ waiting = {} /\ creating = {}
  /\ lib = {}
  /\ form = [r \in Renderers |-> "none"]
  /\ stateData = None
  /\ handler = None
  /\ early = {}
  /\ loader = 0
  /\ page = "billing"
  /\ failed = FALSE

Clickable == page = "billing" /\ loader = 0
Stopped(n) == IF loader > n THEN loader - n ELSE 0

(* enablePaymentMethod: adyen-pm-method stops a loader nobody started. *)
MethodsArrive ==
  /\ page = "billing" /\ ~answered
  /\ answered' = TRUE
  /\ loader' = Stopped(Cardinality(listed \ CardRenderers))
  /\ UNCHANGED <<templates, checked, waiting, creating, lib, form, stateData,
                 handler, early, page, failed>>

-----------------------------------------------------------------------------
(* createCheckoutComponent and what follows it, for a library that is there *)
(* or has just come: new cards are mounted anew, another method when its   *)
(* library has come.  Without its template nothing is mounted.             *)

Mounts(r, new) ==
  IF new \/ Kind(r) = "cc"
  THEN IF r \notin shown THEN {"none"}
       ELSE IF Kind(r) = "cc" THEN {"empty"} ELSE {"empty", "filled"}
  ELSE {form[r]}

(* Mutant: the listeners of Continue are left as they are. *)
InitializedKept(r, new) ==
  \E f \in Mounts(r, new) :
    /\ form' = [form EXCEPT ![r] = f]
    /\ stateData' = IF Kind(r) = "pm" /\ f = "filled" THEN r ELSE stateData
    /\ handler' = IF handler # None \/ f = "none" THEN handler ELSE r

(* initializeMultishippingPaymentMethod, when the promise is resolved: the  *)
(* listeners of Continue are replaced by one for the component, although   *)
(* there may be none.                                                      *)
Initialized(r, new) ==
  \E f \in Mounts(r, new) :
    /\ form' = [form EXCEPT ![r] = f]
    /\ stateData' = IF Kind(r) = "pm" /\ f = "filled" THEN r ELSE stateData
    /\ handler' = IF f = "none" THEN None ELSE r

(* selectPaymentMethod: the loader is started, and stopped in the same turn *)
(* when everything is there.                                               *)
SelectPaymentMethod(r) ==
  /\ Clickable /\ answered /\ r \in listed
  /\ checked' = r
  /\ early' = IF r \notin shown THEN early \cup {r} ELSE early \ ({r} \cap CardRenderers)
  /\ \/ /\ ~isTemplateRendered[Kind(r)]
        /\ waiting' = waiting \cup {r}
        /\ loader' = loader + 1
        /\ UNCHANGED <<creating, form, stateData, handler>>
     \/ /\ isTemplateRendered[Kind(r)] /\ r \notin lib
        /\ creating' = creating \cup {r}
        /\ loader' = loader + 1
        /\ UNCHANGED <<waiting, form, stateData, handler>>
     \/ /\ isTemplateRendered[Kind(r)] /\ r \in lib
        /\ Initialized(r, FALSE)
        /\ UNCHANGED <<waiting, creating, loader>>
  /\ UNCHANGED <<templates, answered, lib, page, failed>>

(* Mutant: a selection that waits is forgotten. *)
SetIsTemplateRenderedLate(r) ==
  /\ r \in listed \ shown
  /\ shown' = shown \cup {r}
  /\ isTemplateRendered' = [isTemplateRendered EXCEPT ![Kind(r)] = TRUE]
  /\ waiting' = {q \in waiting : Kind(q) # Kind(r)}
  /\ UNCHANGED <<listed, checked, answered, creating, lib, form, stateData,
                 handler, early, loader, page, failed>>

(* setIsTemplateRendered: the subscriptions hear of the first template of   *)
(* their kind.                                                             *)
SetIsTemplateRendered(r) ==
  /\ r \in listed \ shown
  /\ shown' = shown \cup {r}
  /\ isTemplateRendered' = [isTemplateRendered EXCEPT ![Kind(r)] = TRUE]
  /\ waiting' = {q \in waiting : Kind(q) # Kind(r)}
  /\ creating' = creating \cup {q \in waiting : Kind(q) = Kind(r)}
  /\ UNCHANGED <<listed, checked, answered, lib, form, stateData, handler,
                 early, loader, page, failed>>

LibraryArrives(r) ==
  /\ page = "billing" /\ r \in creating
  /\ creating' = creating \ {r}
  /\ lib' = lib \cup {r}
  /\ Initialized(r, TRUE)
  /\ loader' = Stopped(1)
  /\ UNCHANGED <<templates, checked, answered, waiting, early, page, failed>>

(* Nothing handles a promise that is rejected: the loader stays. *)
LibraryFails(r) ==
  /\ page = "billing" /\ r \in creating /\ "library" \in Faults
  /\ creating' = creating \ {r}
  /\ failed' = TRUE
  /\ UNCHANGED <<templates, checked, answered, waiting, lib, form, stateData,
                 handler, early, loader, page>>

-----------------------------------------------------------------------------
(* Mutant: a form that is no longer valid leaves its data behind. *)
OnChangeKept(r) ==
  /\ Clickable /\ checked = r /\ form[r] # "none"
  /\ \E valid \in BOOLEAN :
       /\ form' = [form EXCEPT ![r] = IF valid THEN "filled" ELSE "empty"]
       /\ stateData' = IF valid THEN r ELSE stateData
  /\ UNCHANGED <<templates, checked, answered, waiting, creating, lib, handler,
                 early, loader, page, failed>>

(* onChange of either configuration *)
OnChange(r) ==
  /\ Clickable /\ checked = r /\ form[r] # "none"
  /\ \E valid \in BOOLEAN :
       /\ form' = [form EXCEPT ![r] = IF valid THEN "filled" ELSE "empty"]
       /\ stateData' = IF valid THEN r ELSE None
  /\ UNCHANGED <<templates, checked, answered, waiting, creating, lib, handler,
                 early, loader, page, failed>>

(* _validatePaymentMethod: any state data will do. *)
Continue ==
  /\ Clickable /\ checked # None
  /\ stateData # None
  /\ page' = "review"
  /\ UNCHANGED <<templates, checked, answered, waiting, creating, lib, form,
                 stateData, handler, early, loader, failed>>

Loads ==
  \/ MethodsArrive
  \/ \E r \in Renderers :
       SetIsTemplateRendered(r) \/ LibraryArrives(r) \/ LibraryFails(r)

Next ==
  \/ Loads \/ Continue
  \/ \E r \in Renderers : SelectPaymentMethod(r) \/ OnChange(r)

Spec == Init /\ [][Next]_vars

(* What the page loads arrives or fails. *)
FairSpec == Spec /\ WF_vars(Loads)

-----------------------------------------------------------------------------
(* The page and its methods hold what they are meant to.                   *)
TypeOK ==
  /\ listed \subseteq Renderers
  /\ checked \in listed \cup {None}
  /\ {answered, failed} \subseteq BOOLEAN
  /\ shown \subseteq listed
  /\ isTemplateRendered \in [Kinds -> BOOLEAN]
  /\ waiting \subseteq listed /\ creating \subseteq listed /\ lib \subseteq listed
  /\ form \in [Renderers -> Forms]
  /\ stateData \in listed \cup {None}
  /\ handler \in listed \cup {None} /\ early \subseteq listed
  /\ loader \in Nat
  /\ page \in {"billing", "review"}

(* When the page can be used, Continue validates the component of the       *)
(* selected method, in whatever order templates and libraries came         *)
(* (multishipping/adyen-pm-method.js:77-82): the loader covers a selection *)
(* from the click to the listener.  A method that was selected before its  *)
(* own template was there may have no component, when the template of      *)
(* another woke it (line 45): then nothing is validated, never the         *)
(* component of the method selected before.                                *)
HandlerMatches ==
  Clickable /\ checked # None =>
    handler = checked \/ (handler = None /\ checked \in early)

(* The state data the page is left with is still what a form holds: no data *)
(* of a form that has become invalid since (configHelper.js:127), but for  *)
(* a card's, whose form is mounted anew by every selection.                *)
DataCurrent ==
  stateData # None => stateData \in CardRenderers \/ form[stateData] = "filled"

(* A selection does not cover the page for ever, although it may wait for a *)
(* template and a library, unless the library failed.                      *)
LoaderReleased ==
  (page = "billing" /\ loader > 0) ~> (page # "billing" \/ loader = 0 \/ failed)
=============================================================================
