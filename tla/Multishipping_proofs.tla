-------------------------- MODULE Multishipping_proofs --------------------------
(***************************************************************************)
(* For any renderers and any page: Continue validates the component of the *)
(* selected method, and the hidden field holds what a form holds.          *)
(***************************************************************************)
EXTENDS Multishipping, FiniteSetTheorems, TLAPS

(* The observable tells of the rendered templates; without it there is     *)
(* neither a library nor one that is waited for.                           *)
Unrendered ==
  \A r \in Renderers :
    ~isTemplateRendered[Kind(r)] => r \notin lib \cup creating \cup shown

(* A form belongs to a component, and a library is waited for but once.    *)
Components ==
  /\ (waiting \cup creating) \cap lib = {}
  /\ \A r \in Renderers : form[r] # "none" => r \in lib

(* One selection is under way at a time, and the loader covers it. *)
OneSelection ==
  /\ loader \in {0, 1}
  /\ ~answered => checked = None /\ loader = 0
  /\ waiting \cup creating \subseteq {checked} \ {None}
  /\ waiting \cap creating = {}
  /\ loader = 0 => waiting = {} /\ creating = {}
  /\ loader = 0 /\ checked # None =>
       handler = checked \/ (handler = None /\ checked \in early)

(* A library is waited for by a renderer that was selected early, or whose  *)
(* template is there; so is the library of one that has no component.      *)
NotMounted ==
  /\ waiting \subseteq early
  /\ \A r \in creating : r \in early \/ r \in shown
  /\ \A r \in lib \ CardRenderers : form[r] = "none" => r \in early

IInv == TypeOK /\ Unrendered /\ Components /\ OneSelection /\ NotMounted /\ DataCurrent

(* Every renderer has one of the two kinds. *)
LEMMA KindType == \A r : Kind(r) \in Kinds
BY DEF Kind, Kinds

(* What is mounted has one of the forms; only new cards are mounted anew. *)
LEMMA MountsType ==
  ASSUME TypeOK, NEW r \in Renderers, NEW new \in BOOLEAN
  PROVE  /\ Mounts(r, new) \subseteq Forms
         /\ ~new /\ Kind(r) = "pm" => Mounts(r, new) = {form[r]}
BY DEF Mounts, Forms, TypeOK, Kind

(* The page that starts holds the invariant. *)
LEMMA InitIInv == Init => IInv
<1> SUFFICES ASSUME Init PROVE IInv
  OBVIOUS
<1> USE MultishippingAssumption
<1>1. TypeOK
  BY DEF Init, TypeOK, Forms, Kinds
<1>2. Unrendered /\ Components /\ NotMounted
  BY DEF Init, Unrendered, Components, NotMounted
<1>3. OneSelection /\ DataCurrent
  BY DEF Init, OneSelection, DataCurrent
<1> QED
  BY <1>1, <1>2, <1>3 DEF IInv

(* The arrival of the methods stops loaders, but none has been started. *)
LEMMA MethodsArriveIInv == IInv /\ MethodsArrive => IInv'
<1> SUFFICES ASSUME IInv, MethodsArrive PROVE IInv'
  OBVIOUS
<1> DEFINE n == Cardinality(listed \ CardRenderers)
<1>1. n \in Nat
  BY MultishippingAssumption, FS_Subset, FS_CardinalityType DEF IInv, TypeOK
<1>2. loader = 0
  BY DEF IInv, OneSelection, MethodsArrive
<1>3. loader' = 0
  <2>1. loader' = Stopped(n)
    BY DEF MethodsArrive
  <2> HIDE DEF n
  <2> QED
    BY <1>1, <1>2, <2>1 DEF Stopped
<1>4. TypeOK'
  BY <1>3 DEF IInv, TypeOK, MethodsArrive, templates
<1>5. (Unrendered /\ Components /\ NotMounted)'
  BY DEF IInv, Unrendered, Components, NotMounted, MethodsArrive, templates
<1>6. (OneSelection /\ DataCurrent)'
  BY <1>2, <1>3 DEF IInv, OneSelection, DataCurrent, MethodsArrive, templates
<1> QED
  BY <1>4, <1>5, <1>6 DEF IInv

(* A template that is rendered lets the selection that waits for its kind  *)
(* go on.                                                                  *)
LEMMA RenderedIInv ==
  ASSUME IInv, NEW r \in Renderers, SetIsTemplateRendered(r)
  PROVE  IInv'
<1> USE KindType
<1>1. waiting' \subseteq waiting /\ creating' \subseteq creating \cup waiting
  BY DEF SetIsTemplateRendered
<1>2. TypeOK'
  BY DEF IInv, TypeOK, SetIsTemplateRendered
<1>3. Unrendered'
  <2> SUFFICES ASSUME NEW q \in Renderers, ~isTemplateRendered'[Kind(q)]
               PROVE  q \notin (lib \cup creating \cup shown)'
    BY DEF Unrendered
  <2>1. ~isTemplateRendered[Kind(q)] /\ Kind(q) # Kind(r)
    BY DEF SetIsTemplateRendered, IInv, TypeOK
  <2>2. q \notin lib \cup creating \cup shown
    BY <2>1 DEF IInv, Unrendered
  <2> QED
    BY <2>1, <2>2 DEF SetIsTemplateRendered
<1>4. Components'
  BY DEF IInv, Components, SetIsTemplateRendered
<1>5. OneSelection'
  BY DEF IInv, OneSelection, SetIsTemplateRendered
<1>6. DataCurrent'
  BY DEF IInv, DataCurrent, SetIsTemplateRendered
<1>7. NotMounted'
  BY DEF IInv, NotMounted, SetIsTemplateRendered
<1> QED
  BY <1>2, <1>3, <1>4, <1>5, <1>6, <1>7 DEF IInv

(* Whatever is mounted, the form, the field and the listener change        *)
(* together.                                                               *)
LEMMA InitializedType ==
  ASSUME TypeOK, NEW r \in listed, NEW new \in BOOLEAN, Initialized(r, new)
  PROVE  /\ form' \in [Renderers -> Forms]
         /\ \A q \in Renderers : q # r => form'[q] = form[q]
         /\ stateData' \in {stateData, r}
         /\ stateData' = r /\ stateData # r => form'[r] = "filled"
         /\ ~new /\ Kind(r) = "pm" => form' = form
         /\ handler' = IF form'[r] = "none" THEN None ELSE r
         /\ (new \/ Kind(r) = "cc") /\ r \in shown => form'[r] # "none"
<1> r \in Renderers
  BY DEF TypeOK
<1>1. PICK f \in Mounts(r, new) :
        /\ form' = [form EXCEPT ![r] = f]
        /\ stateData' = IF Kind(r) = "pm" /\ f = "filled" THEN r ELSE stateData
        /\ handler' = IF f = "none" THEN None ELSE r
  BY DEF Initialized
<1>2. f \in Forms
  BY MountsType
<1>3. ~new /\ Kind(r) = "pm" => f = form[r]
  BY MountsType
<1>4. (new \/ Kind(r) = "cc") /\ r \in shown => f # "none"
  BY DEF Mounts
<1> QED
  BY <1>1, <1>2, <1>3, <1>4 DEF TypeOK

(* A selection waits for its template, waits for its library or has both.  *)
LEMMA SelectIInv ==
  ASSUME IInv, NEW r \in Renderers, SelectPaymentMethod(r)
  PROVE  IInv'
<1> USE KindType
<1>1. /\ page = "billing" /\ loader = 0 /\ answered /\ r \in listed
      /\ checked' = r
      /\ early' = IF r \notin shown THEN early \cup {r} ELSE early \ ({r} \cap CardRenderers)
      /\ UNCHANGED <<listed, shown, isTemplateRendered, answered, lib, page, failed>>
  BY DEF SelectPaymentMethod, Clickable, templates
<1>2. waiting = {} /\ creating = {} /\ r # None
  BY <1>1, MultishippingAssumption DEF IInv, OneSelection
<1>3. CASE ~isTemplateRendered[Kind(r)] /\ r \in lib
  BY <1>3 DEF IInv, Unrendered
<1>4. CASE /\ r \notin lib
           /\ \/ ~isTemplateRendered[Kind(r)] /\ waiting' = {r} /\ creating' = {}
              \/ isTemplateRendered[Kind(r)] /\ creating' = {r} /\ waiting' = {}
           /\ loader' = 1
           /\ UNCHANGED <<form, stateData, handler>>
  <2>1. TypeOK'
    BY <1>1, <1>4 DEF IInv, TypeOK
  <2>2. (Unrendered /\ Components)'
    BY <1>1, <1>2, <1>4 DEF IInv, Unrendered, Components
  <2>3. (OneSelection /\ DataCurrent)'
    BY <1>1, <1>2, <1>4 DEF IInv, OneSelection, DataCurrent
  <2>4. NotMounted'
    <3>1. r \in shown => isTemplateRendered[Kind(r)]
      BY <1>1 DEF IInv, Unrendered, TypeOK
    <3>2. r \in early' \/ r \in shown'
      BY <1>1
    <3>3. waiting' \subseteq early'
      BY <1>1, <1>4, <3>1
    <3>4. \A q \in creating' : q \in early' \/ q \in shown'
      BY <1>4, <3>2
    <3>5. \A q \in lib' \ CardRenderers : form'[q] = "none" => q \in early'
      BY <1>1, <1>4 DEF IInv, NotMounted
    <3> QED
      BY <3>3, <3>4, <3>5 DEF NotMounted
  <2> QED
    BY <2>1, <2>2, <2>3, <2>4 DEF IInv
<1>5. CASE /\ r \in lib /\ Initialized(r, FALSE)
           /\ UNCHANGED <<waiting, creating, loader>>
  <2>1. /\ form' \in [Renderers -> Forms]
        /\ \A q \in Renderers : q # r => form'[q] = form[q]
        /\ stateData' \in {stateData, r}
        /\ stateData' = r /\ stateData # r => form'[r] = "filled"
        /\ Kind(r) = "pm" => form' = form
        /\ handler' = IF form'[r] = "none" THEN None ELSE r
        /\ Kind(r) = "cc" /\ r \in shown => form'[r] # "none"
    BY <1>1, <1>5, InitializedType DEF IInv
  <2>a. form'[r] = "none" => r \in early'
    <3>1. CASE r \in CardRenderers
      BY <1>1, <2>1, <3>1 DEF Kind
    <3>2. CASE r \notin CardRenderers
      BY <1>1, <1>5, <2>1, <3>2 DEF Kind, IInv, NotMounted
    <3> QED
      BY <3>1, <3>2
  <2>2. TypeOK'
    BY <1>1, <1>5, <2>1 DEF IInv, TypeOK
  <2>3. (Unrendered /\ Components)'
    BY <1>1, <1>5, <2>1 DEF IInv, Unrendered, Components
  <2>4. OneSelection'
    BY <1>1, <1>2, <1>5, <2>1, <2>a DEF IInv, OneSelection
  <2>6. NotMounted'
    <3>1. waiting' = {} /\ creating' = {} /\ lib' = lib
      BY <1>1, <1>2, <1>5
    <3>2. ASSUME NEW q \in lib' \ CardRenderers, form'[q] = "none"
          PROVE  q \in early'
      <4>1. CASE q = r
        BY <2>a, <3>2, <4>1
      <4>2. CASE q # r
        <5>1. q \in Renderers /\ form[q] = "none"
          BY <2>1, <3>1, <3>2, <4>2 DEF IInv, TypeOK
        <5> QED
          BY <1>1, <3>1, <3>2, <5>1 DEF IInv, NotMounted
      <4> QED
        BY <4>1, <4>2
    <3> QED
      BY <3>1, <3>2 DEF NotMounted
  <2>5. DataCurrent'
    <3> SUFFICES ASSUME stateData' # None, stateData' \notin CardRenderers
                 PROVE  form'[stateData'] = "filled"
      BY DEF DataCurrent
    <3>1. CASE stateData' = r
      BY <1>1, <2>1, <3>1 DEF IInv, DataCurrent, Kind
    <3>2. CASE stateData' # r
      BY <2>1, <3>2 DEF IInv, DataCurrent, TypeOK
    <3> QED
      BY <3>1, <3>2
  <2> QED
    BY <2>2, <2>3, <2>4, <2>5, <2>6 DEF IInv
<1>6. CASE /\ ~isTemplateRendered[Kind(r)]
           /\ waiting' = waiting \cup {r} /\ loader' = loader + 1
           /\ UNCHANGED <<creating, form, stateData, handler>>
  BY <1>1, <1>2, <1>3, <1>4, <1>6
<1>7. CASE /\ isTemplateRendered[Kind(r)] /\ r \notin lib
           /\ creating' = creating \cup {r} /\ loader' = loader + 1
           /\ UNCHANGED <<waiting, form, stateData, handler>>
  BY <1>1, <1>2, <1>4, <1>7
<1>8. CASE /\ isTemplateRendered[Kind(r)] /\ r \in lib /\ Initialized(r, FALSE)
           /\ UNCHANGED <<waiting, creating, loader>>
  BY <1>5, <1>8
<1> QED
  BY <1>6, <1>7, <1>8 DEF SelectPaymentMethod

(* The library a selection waits for has come. *)
LEMMA LibraryArrivesIInv ==
  ASSUME IInv, NEW r \in Renderers, LibraryArrives(r)
  PROVE  IInv'
<1> USE KindType
<1>1. /\ r \in creating /\ creating' = creating \ {r} /\ lib' = lib \cup {r}
      /\ loader' = Stopped(1) /\ Initialized(r, TRUE)
      /\ UNCHANGED <<listed, shown, isTemplateRendered, checked, answered,
                     waiting, early, page, failed>>
  BY DEF LibraryArrives, templates
<1>2. r \in listed /\ r \notin lib /\ r \notin waiting /\ r = checked /\ answered
  BY <1>1 DEF IInv, TypeOK, Components, OneSelection
<1>3. /\ loader = 1 /\ loader' = 0
      /\ waiting' = {} /\ creating' = {}
  BY <1>1, <1>2 DEF IInv, OneSelection, Stopped
<1>4. /\ form' \in [Renderers -> Forms]
      /\ \A q \in Renderers : q # r => form'[q] = form[q]
      /\ stateData' \in {stateData, r}
      /\ stateData' = r /\ stateData # r => form'[r] = "filled"
      /\ handler' = IF form'[r] = "none" THEN None ELSE r
      /\ r \in shown => form'[r] # "none"
  BY <1>1, <1>2, InitializedType DEF IInv
<1>a. form'[r] = "none" => r \in early
  BY <1>1, <1>4 DEF IInv, NotMounted
<1>5. TypeOK'
  BY <1>1, <1>2, <1>3, <1>4 DEF IInv, TypeOK
<1>6. Unrendered'
  BY <1>1 DEF IInv, Unrendered
<1>7. Components'
  BY <1>1, <1>3, <1>4 DEF IInv, Components
<1>8. OneSelection'
  BY <1>1, <1>2, <1>3, <1>4, <1>a DEF IInv, OneSelection
<1>10. NotMounted'
  <2>1. ASSUME NEW q \in lib' \ CardRenderers, form'[q] = "none"
        PROVE  q \in early'
    <3>1. CASE q = r
      BY <1>1, <1>a, <2>1, <3>1
    <3>2. CASE q # r
      <4>1. q \in lib /\ q \in Renderers /\ form[q] = "none"
        BY <1>1, <1>4, <2>1, <3>2 DEF IInv, TypeOK
      <4> QED
        BY <1>1, <2>1, <4>1 DEF IInv, NotMounted
    <3> QED
      BY <3>1, <3>2
  <2> QED
    BY <1>3, <2>1 DEF NotMounted
<1>9. DataCurrent'
  <2> SUFFICES ASSUME stateData' # None, stateData' \notin CardRenderers
               PROVE  form'[stateData'] = "filled"
    BY DEF DataCurrent
  <2>1. CASE stateData' = r /\ stateData = r
    BY <1>2, <2>1 DEF IInv, DataCurrent, Components, TypeOK
  <2>2. CASE stateData' = r /\ stateData # r
    BY <1>4, <2>2
  <2>3. CASE stateData' # r
    BY <1>4, <2>3 DEF IInv, DataCurrent, TypeOK
  <2> QED
    BY <2>1, <2>2, <2>3
<1> QED
  BY <1>5, <1>6, <1>7, <1>8, <1>9, <1>10 DEF IInv

(* Nothing is taken back when a library fails; the loader stays. *)
LEMMA LibraryFailsIInv ==
  ASSUME IInv, NEW r \in Renderers, LibraryFails(r)
  PROVE  IInv'
<1>1. TypeOK'
  BY DEF IInv, TypeOK, LibraryFails, templates
<1>2. (Unrendered /\ Components /\ NotMounted)'
  BY DEF IInv, Unrendered, Components, NotMounted, LibraryFails, templates
<1>3. (OneSelection /\ DataCurrent)'
  BY DEF IInv, OneSelection, DataCurrent, LibraryFails, templates
<1> QED
  BY <1>1, <1>2, <1>3 DEF IInv

(* The form that is edited is the one whose data the field takes. *)
LEMMA OnChangeIInv ==
  ASSUME IInv, NEW r \in Renderers, OnChange(r)
  PROVE  IInv'
<1>1. PICK valid \in BOOLEAN :
        /\ form' = [form EXCEPT ![r] = IF valid THEN "filled" ELSE "empty"]
        /\ stateData' = IF valid THEN r ELSE None
  BY DEF OnChange
<1>2. r = checked /\ form[r] # "none" /\ r # None
  BY MultishippingAssumption DEF OnChange
<1>3. UNCHANGED <<listed, shown, isTemplateRendered, checked, answered, waiting,
                  creating, lib, handler, early, loader, page, failed>>
  BY DEF OnChange, templates
<1>4. TypeOK'
  BY <1>1, <1>2, <1>3 DEF IInv, TypeOK, Forms
<1>5. (Unrendered /\ Components /\ NotMounted)'
  BY <1>1, <1>2, <1>3 DEF IInv, TypeOK, Unrendered, Components, NotMounted
<1>6. OneSelection'
  BY <1>3 DEF IInv, OneSelection
<1>7. DataCurrent'
  BY <1>1 DEF IInv, TypeOK, DataCurrent
<1> QED
  BY <1>4, <1>5, <1>6, <1>7 DEF IInv

(* Leaving the page changes nothing else. *)
LEMMA ContinueIInv == IInv /\ Continue => IInv'
BY DEF IInv, TypeOK, Unrendered, Components, OneSelection, NotMounted, DataCurrent,
       Continue, templates

(* Every step keeps the invariant. *)
LEMMA NextIInv == IInv /\ [Next]_vars => IInv'
<1> SUFFICES ASSUME IInv, [Next]_vars PROVE IInv'
  OBVIOUS
<1>1. CASE MethodsArrive
  BY <1>1, MethodsArriveIInv
<1>2. CASE \E r \in Renderers : SetIsTemplateRendered(r)
  BY <1>2, RenderedIInv
<1>3. CASE \E r \in Renderers : LibraryArrives(r)
  BY <1>3, LibraryArrivesIInv
<1>4. CASE \E r \in Renderers : LibraryFails(r)
  BY <1>4, LibraryFailsIInv
<1>5. CASE Continue
  BY <1>5, ContinueIInv
<1>6. CASE \E r \in Renderers : SelectPaymentMethod(r)
  BY <1>6, SelectIInv
<1>7. CASE \E r \in Renderers : OnChange(r)
  BY <1>7, OnChangeIInv
<1>8. CASE UNCHANGED vars
  BY <1>8 DEF IInv, TypeOK, Unrendered, Components, OneSelection, NotMounted,
              DataCurrent, vars, templates
<1> QED
  BY <1>1, <1>2, <1>3, <1>4, <1>5, <1>6, <1>7, <1>8 DEF Next, Loads

(* The invariant holds of every state. *)
LEMMA Invariance == Spec => []IInv
BY InitIInv, NextIInv, PTL DEF Spec

-----------------------------------------------------------------------------
(* The page, the forms and what waits hold what they are meant to, with    *)
(* any number of renderers.                                                *)
THEOREM TypeCorrect == Spec => []TypeOK
<1>1. IInv => TypeOK
  BY DEF IInv
<1> QED
  BY <1>1, Invariance, PTL

(* When the page can be used, Continue validates the selected component,   *)
(* in whatever order templates and libraries came, or none when it was     *)
(* selected before its template (multishipping/adyen-pm-method.js 62-89).  *)
THEOREM HandlerIsSelected == Spec => []HandlerMatches
<1>1. IInv => HandlerMatches
  BY DEF IInv, OneSelection, HandlerMatches, Clickable
<1> QED
  BY <1>1, Invariance, PTL

(* The hidden field holds the data of a form that is filled in, or a       *)
(* card's (configHelper.js 127).                                           *)
THEOREM DataIsCurrent == Spec => []DataCurrent
<1>1. IInv => DataCurrent
  BY DEF IInv
<1> QED
  BY <1>1, Invariance, PTL
=============================================================================
