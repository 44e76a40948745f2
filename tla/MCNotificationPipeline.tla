----------------------- MODULE MCNotificationPipeline -----------------------
(* Instances of NotificationPipeline for TLC. *)
EXTENDS NotificationPipeline, TLC

CONSTANTS n1, n2, n3, s1, s2

Symmetric == Permutations(Ids) \cup Permutations(Slots)

Item(psp, event, success, orig) ==
  [psp |-> psp, event |-> event, success |-> success, orig |-> orig,
   identified |-> TRUE]

(* A successful authorisation and the capture of the same payment. *)
Paid == Item("A", "AUTHORISATION", TRUE, "")
Capture == Item("A", "CAPTURE", TRUE, "A")

(* A refused attempt and an expired offer: both delayed. *)
Refused == Item("B", "AUTHORISATION", FALSE, "")

(* A report without merchant reference. *)
Anonymous == [Item("C", "REFUND", TRUE, "A") EXCEPT !.identified = FALSE]

PaidAndCapture == {Paid, Capture}
PaidAndRefused == {Paid, Refused}
PaidAndAnonymous == {Paid, Anonymous}
=============================================================================
