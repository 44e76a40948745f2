------------------------- MODULE NotificationStatus -------------------------
(***************************************************************************)
(* What the administrator is shown of a stored webhook notification: the   *)
(* "status" column of the notifications grid (Ui/Component/Listing/Column/ *)
(* NotificationColumn.php).  A notification is queued, then in progress,   *)
(* possibly queued again after an error, and finally processed; only a     *)
(* processed notification is ever purged, and a purged one never returns.  *)
(* NotificationPipeline is shown to implement this specification when one  *)
(* process works on the notifications at a time.                           *)
(***************************************************************************)
CONSTANT Ids

VARIABLE status

States == {"Absent", "Queued", "In progress", "Processed", "Purged"}

Init == status = [id \in Ids |-> "Absent"]

Move(id, from, to) ==
  /\ status[id] \in from
  /\ status' = [status EXCEPT ![id] = to]

Arrive(id) == Move(id, {"Absent"}, "Queued")

Start(id) == Move(id, {"Queued"}, "In progress")

Requeue(id) == Move(id, {"In progress"}, "Queued")

Finish(id) == Move(id, {"Queued", "In progress"}, "Processed")

Purge(S) ==
  /\ \A id \in S : status[id] = "Processed"
  /\ status' = [id \in Ids |-> IF id \in S THEN "Purged" ELSE status[id]]

Next ==
  \/ \E id \in Ids : Arrive(id) \/ Start(id) \/ Requeue(id) \/ Finish(id)
  \/ \E S \in SUBSET Ids : Purge(S)

Spec == Init /\ [][Next]_status
=============================================================================
