------------------------ MODULE NotificationPipeline ------------------------
(***************************************************************************)
(* The life of a webhook notification, from the HTTP request that delivers *)
(* it to the row's removal: Controller/Webhook/Index.php stores rows in    *)
(* adyen_notification; Cron/WebhookProcessor.php (run by cron every minute *)
(* and by the console command adyen:webhook:run) loads the waiting rows    *)
(* and either processes them or publishes them to a message queue, whose   *)
(* consumers process them; an administrator can reprocess a row; and       *)
(* Cron/RemoveProcessedWebhooks.php deletes old rows.                      *)
(*                                                                         *)
(* Each of these is a process that reads the table into PHP objects and    *)
(* writes it back later: a step below is one database access with the code *)
(* around it.  What a handler does to the order is in WebhookOrder; here   *)
(* it is the single step Apply, counted per row.                           *)
(***************************************************************************)
EXTENDS Naturals

CONSTANTS
  Ids,        \* the entity_ids the table can hand out (a bound under TLC)
  Items,      \* the notification items Adyen may send
  Receivers,  \* concurrent requests to Controller/Webhook/Index
  Runners,    \* processes that run WebhookProcessor: cron job, console command
  Consumers,  \* consumers of the adyen.notification queue
  Admins,     \* administrators who may follow a "Reprocess Webhook" link
  Slots,      \* places in the message queue (a bound under TLC)
  QueueMode,  \* Config::useQueueProcessor
  Punctual,   \* TRUE: the work due in a minute is done within that minute
  Faults,     \* faults that may happen, a subset of FaultKinds
  MinAge,     \* minutes a notification waits before it may be processed
  DelayAge,   \* minutes the delayed kinds of notification wait
  MaxAge,     \* age after which a notification is not processed any more
  Retention,  \* age after which a processed notification may be removed;
              \* larger than AgeCap when the removal is switched off
  AgeCap,     \* ages are tracked up to this one (larger than the first three)
  MaxErrors,  \* Notification::MAX_ERROR_COUNT
  NoObj, NoItem

FaultKinds == {"crash", "redeliver", "unhandled"}

Workers == Runners \cup Consumers \cup Admins

Events ==
  {"AUTHORISATION", "CANCELLATION", "CAPTURE", "OFFER_CLOSED", "ORDER_CLOSED",
   "REFUND"}

ItemType ==
  [psp : STRING, event : Events, success : BOOLEAN,
   orig : STRING,          \* original reference, "" when there is none
   identified : BOOLEAN]   \* whether it carries a merchant reference

ASSUME ConstantsAssumption ==
  /\ Items \subseteq ItemType
  /\ {MinAge, DelayAge, MaxAge, Retention, AgeCap} \subseteq Nat
  /\ MinAge < AgeCap /\ DelayAge < AgeCap /\ MaxAge < AgeCap
  /\ MaxErrors \in Nat \ {0}
  /\ {QueueMode, Punctual} \subseteq BOOLEAN
  /\ Faults \subseteq FaultKinds
  /\ NoItem \notin Items

ASSUME ProcessesAssumption ==
  /\ Runners \cap Consumers = {}
  /\ Runners \cap Admins = {}
  /\ Consumers \cap Admins = {}

VARIABLES
  table,     \* adyen_notification, by entity_id
  applied,   \* how often the handler's changes of row id were saved (0, 1, many)
  body,      \* the items of the request a receiver is serving
  todo,      \* those of them it has not finished
  checked,   \* the item it found to be no duplicate and is about to save
  accepted,  \* items for which "[accepted]" was answered
  pc,        \* where each worker is
  obj,       \* the Notification object a worker works on
  batch,     \* the objects of the collection a runner still has to visit
  msg,       \* the unacknowledged message of a consumer
  queue,     \* messages waiting in the queue: whole Notification objects
  doomed,    \* entity_ids RemoveProcessedWebhooks is about to delete
  due        \* the cron job is due to start (Punctual only)

requestVars == <<body, todo, checked, accepted>>
workerVars == <<pc, obj, batch, msg>>
vars == <<table, applied, requestVars, workerVars, queue, doomed, due>>

Columns == {"done", "processing", "errors"}

(* Model bound: error counts are tracked up to one more than the maximum. *)
ErrorCap == MaxErrors + 1

RowType ==
  [state : {"free", "live", "removed"}, item : Items \cup {NoItem},
   age : 0..AgeCap, done : BOOLEAN, processing : BOOLEAN,
   errors : 0..ErrorCap]

(* A Notification object: the columns that change, and which of them its   *)
(* next save writes.  An object built from a collection or from a message  *)
(* has no stored data to compare with, so its first save writes them all.  *)
ObjType ==
  [id : Ids, done : BOOLEAN, processing : BOOLEAN,
   errors : 0..ErrorCap, dirty : SUBSET Columns]

ASSUME NoObjAssumption == NoObj \notin ObjType

FreeRow ==
  [state |-> "free", item |-> NoItem, age |-> 0, done |-> FALSE,
   processing |-> FALSE, errors |-> 0]

Init ==
  /\ table = [id \in Ids |-> FreeRow]
  /\ applied = [id \in Ids |-> 0]
  /\ body = [r \in Receivers |-> {}]
  /\ todo = [r \in Receivers |-> {}]
  /\ checked = [r \in Receivers |-> NoItem]
  /\ accepted = {}
  /\ pc = [w \in Workers |-> "idle"]
  /\ obj = [w \in Workers |-> NoObj]
  /\ batch = [w \in Workers |-> {}]
  /\ msg = [w \in Workers |-> NoObj]
  /\ queue = [s \in Slots |-> NoObj]
  /\ doomed = {}
  /\ due = Punctual

-----------------------------------------------------------------------------
(* The table and the objects read from it.                                 *)

Live(id) == table[id].state = "live"

(* Notification::isDuplicate: the original reference counts only when the  *)
(* new item has one.                                                       *)
Matches(new, stored) ==
  /\ new.psp = stored.psp
  /\ new.event = stored.event
  /\ new.success = stored.success
  /\ new.orig # "" => new.orig = stored.orig

(* Mutant: the receiver's check ignores the event code. *)
IsStoredAnyEvent(i) ==
  \E id \in Ids : Live(id) /\ table[id].item.psp = i.psp

IsStored(i) == \E id \in Ids : Live(id) /\ Matches(i, table[id].item)

(* Mutant: the check looks at the row's own flag only. *)
IsProcessedSelf(id) == table[id].done

(* isDuplicate(true): the row itself counts too, when it has been done. *)
IsProcessed(id) ==
  \E other \in Ids :
     /\ Live(other)
     /\ table[other].done
     /\ Matches(table[id].item, table[other].item)

(* Mutant: the filter forgets the processing flag. *)
EligibleAnyOwner(id) ==
  /\ Live(id)
  /\ ~table[id].done
  /\ table[id].age \in MinAge..MaxAge
  /\ table[id].errors < MaxErrors

(* Collection::notificationsToProcessFilter *)
Eligible(id) ==
  /\ Live(id)
  /\ ~table[id].done
  /\ ~table[id].processing
  /\ table[id].age \in MinAge..MaxAge
  /\ table[id].errors < MaxErrors

(* Notification::shouldSkipProcessing *)
Delayed(i) ==
  \/ i.event \in {"OFFER_CLOSED", "ORDER_CLOSED"}
  \/ i.event = "AUTHORISATION" /\ ~i.success

StillDelayed(id) == Delayed(table[id].item) /\ table[id].age <= DelayAge

Snapshot(id) ==
  [id |-> id, done |-> table[id].done, processing |-> table[id].processing,
   errors |-> table[id].errors, dirty |-> Columns]

Changed(o, done, processing, errors) ==
  (IF done # o.done THEN {"done"} ELSE {})
  \cup (IF processing # o.processing THEN {"processing"} ELSE {})
  \cup (IF errors # o.errors THEN {"errors"} ELSE {})

Assign(o, done, processing, errors) ==
  [id |-> o.id, done |-> done, processing |-> processing, errors |-> errors,
   dirty |-> o.dirty \cup Changed(o, done, processing, errors)]

Written(row, o) ==
  [row EXCEPT
     !.done = IF "done" \in o.dirty THEN o.done ELSE @,
     !.processing = IF "processing" \in o.dirty THEN o.processing ELSE @,
     !.errors = IF "errors" \in o.dirty THEN o.errors ELSE @]

(* AbstractModel::save of worker w's object after the assignments in o; an *)
(* UPDATE of a row that was deleted meanwhile changes nothing.             *)
Save(w, o) ==
  /\ table' = IF Live(o.id)
              THEN [table EXCEPT ![o.id] = Written(table[o.id], o)]
              ELSE table
  /\ obj' = [obj EXCEPT ![w] = [o EXCEPT !.dirty = {}]]

(* Mutant: the processing flag is never taken back. *)
UpdateNotificationSticky(w, processing, done) ==
  LET o == obj[w]
  IN  Save(w, Assign(o, o.done \/ done, o.processing \/ processing, o.errors))

(* Webhook::updateNotification *)
UpdateNotification(w, processing, done) ==
  LET o == obj[w]
  IN  Save(w, Assign(o, o.done \/ done, processing, o.errors))

(* Mutant: gives up one error too late. *)
SetNotificationErrorLate(w) ==
  LET o == obj[w]
      errors == IF o.errors < ErrorCap THEN o.errors + 1 ELSE o.errors
  IN  Save(w, Assign(o, o.done \/ o.errors = MaxErrors, o.processing, errors))

(* Mutant: counts the attempts that remain instead of those made. *)
SetNotificationErrorDown(w) ==
  LET o == obj[w]
  IN  Save(w, Assign(o, o.done \/ o.errors = MaxErrors, o.processing, o.errors - 1))

(* Webhook::setNotificationError.  The count is always written: it changes *)
(* also where the model does not tell it apart any more.                   *)
SetNotificationError(w) ==
  LET o == obj[w]
      errors == IF o.errors < ErrorCap THEN o.errors + 1 ELSE o.errors
      counted == Assign(o, o.done \/ errors = MaxErrors, o.processing, errors)
  IN  Save(w, [counted EXCEPT !.dirty = @ \cup {"errors"}])

-----------------------------------------------------------------------------
(* Controller/Webhook/Index: the items of a request are taken in turn; the *)
(* check for a duplicate and the insert are two database accesses.         *)

Post(r) ==
  /\ body[r] = {}
  /\ \E S \in SUBSET Items \ {{}} :
        /\ body' = [body EXCEPT ![r] = S]
        /\ todo' = [todo EXCEPT ![r] = S]
  /\ UNCHANGED <<table, applied, checked, accepted, workerVars, queue, doomed, due>>

CheckItem(r) ==
  /\ checked[r] = NoItem
  /\ \E i \in todo[r] :
        IF IsStored(i)
        THEN /\ todo' = [todo EXCEPT ![r] = @ \ {i}]
             /\ UNCHANGED checked
        ELSE /\ checked' = [checked EXCEPT ![r] = i]
             /\ UNCHANGED todo
  /\ UNCHANGED <<table, applied, body, accepted, workerVars, queue, doomed, due>>

SaveItem(r) ==
  /\ checked[r] # NoItem
  /\ \E id \in Ids :
        /\ table[id].state = "free"
        /\ table' = [table EXCEPT ![id] =
                       [FreeRow EXCEPT !.state = "live", !.item = checked[r]]]
  /\ todo' = [todo EXCEPT ![r] = @ \ {checked[r]}]
  /\ checked' = [checked EXCEPT ![r] = NoItem]
  /\ UNCHANGED <<applied, body, accepted, workerVars, queue, doomed, due>>

EndRequest(r) ==
  /\ body' = [body EXCEPT ![r] = {}]
  /\ todo' = [todo EXCEPT ![r] = {}]
  /\ checked' = [checked EXCEPT ![r] = NoItem]

(* An item fails authentication, the IP check or the HMAC check, or an     *)
(* exception ends the request: the items saved before it stay.             *)
Refuse(r) ==
  /\ todo[r] # {}
  /\ EndRequest(r)
  /\ UNCHANGED <<table, applied, accepted, workerVars, queue, doomed, due>>

Accept(r) ==
  /\ body[r] # {}
  /\ todo[r] = {}
  /\ accepted' = accepted \cup body[r]
  /\ EndRequest(r)
  /\ UNCHANGED <<table, applied, workerVars, queue, doomed, due>>

-----------------------------------------------------------------------------
(* WebhookProcessor::doProcessWebhook                                      *)

(* The collection is loaded once, when the loop starts. *)
StartRun(w) ==
  /\ pc[w] = "idle"
  /\ Punctual => due
  /\ batch' = [batch EXCEPT ![w] = {Snapshot(id) : id \in {i \in Ids : Eligible(i)}}]
  /\ pc' = [pc EXCEPT ![w] = "loop"]
  /\ due' = FALSE
  /\ UNCHANGED <<table, applied, requestVars, obj, msg, queue, doomed>>

(* Ordered by created_at, to the second, then by event_code: rows of one   *)
(* minute come in any order.                                               *)
Earlier(o, p) == table[o.id].age >= table[p.id].age

IsNext(w, o) == o \in batch[w] /\ \A p \in batch[w] : Earlier(o, p)

LeaveLoop(w, o) == batch' = [batch EXCEPT ![w] = @ \ {o}]

SkipDuplicate(w) ==
  /\ pc[w] = "loop"
  /\ \E o \in batch[w] : IsNext(w, o) /\ IsProcessed(o.id) /\ LeaveLoop(w, o)
  /\ UNCHANGED <<table, applied, requestVars, pc, obj, msg, queue, doomed, due>>

SkipDelayed(w) ==
  /\ pc[w] = "loop"
  /\ \E o \in batch[w] :
        /\ IsNext(w, o)
        /\ ~IsProcessed(o.id)
        /\ StillDelayed(o.id)
        /\ LeaveLoop(w, o)
  /\ UNCHANGED <<table, applied, requestVars, pc, obj, msg, queue, doomed, due>>

(* The row passes both checks and is handed to Publisher::execute or to    *)
(* Webhook::processNotification.                                           *)
Take(w) ==
  /\ pc[w] = "loop"
  /\ \E o \in batch[w] :
        /\ IsNext(w, o)
        /\ ~IsProcessed(o.id)
        /\ ~StillDelayed(o.id)
        /\ LeaveLoop(w, o)
        /\ obj' = [obj EXCEPT ![w] = o]
  /\ pc' = [pc EXCEPT ![w] = IF QueueMode THEN "enqueue" ELSE "start"]
  /\ UNCHANGED <<table, applied, requestVars, msg, queue, doomed, due>>

EndRun(w) ==
  /\ pc[w] = "loop"
  /\ batch[w] = {}
  /\ pc' = [pc EXCEPT ![w] = "idle"]
  /\ UNCHANGED <<table, applied, requestVars, obj, batch, msg, queue, doomed, due>>

-----------------------------------------------------------------------------
(* Model/Queue/Notification: Publisher::execute saves, then publishes; a   *)
(* consumer works on the object the message carries.                       *)

(* Mutant: publishes without marking the row. *)
MarkQueuedUnmarked(w) ==
  /\ pc[w] = "enqueue"
  /\ pc' = [pc EXCEPT ![w] = "publish"]
  /\ UNCHANGED <<table, obj, applied, requestVars, batch, msg, queue, doomed, due>>

MarkQueued(w) ==
  /\ pc[w] = "enqueue"
  /\ Save(w, Assign(obj[w], obj[w].done, TRUE, obj[w].errors))
  /\ pc' = [pc EXCEPT ![w] = "publish"]
  /\ UNCHANGED <<applied, requestVars, batch, msg, queue, doomed, due>>

(* The message is decoded into a new object, which has no stored data. *)
Enqueue(o) ==
  \E s \in Slots :
     /\ queue[s] = NoObj
     /\ queue' = [queue EXCEPT ![s] = [o EXCEPT !.dirty = Columns]]

Publish(w) ==
  /\ pc[w] = "publish"
  /\ Enqueue(obj[w])
  /\ pc' = [pc EXCEPT ![w] = "loop"]
  /\ obj' = [obj EXCEPT ![w] = NoObj]
  /\ UNCHANGED <<table, applied, requestVars, batch, msg, doomed, due>>

Receive(w) ==
  /\ w \in Consumers
  /\ pc[w] = "idle"
  /\ \E s \in Slots :
        /\ queue[s] # NoObj
        /\ obj' = [obj EXCEPT ![w] = queue[s]]
        /\ msg' = [msg EXCEPT ![w] = queue[s]]
        /\ queue' = [queue EXCEPT ![s] = NoObj]
  /\ pc' = [pc EXCEPT ![w] = "start"]
  /\ UNCHANGED <<table, applied, requestVars, batch, doomed, due>>

Acknowledge(w) ==
  /\ pc[w] = "ack"
  /\ pc' = [pc EXCEPT ![w] = "idle"]
  /\ msg' = [msg EXCEPT ![w] = NoObj]
  /\ UNCHANGED <<table, applied, requestVars, obj, batch, queue, doomed, due>>

-----------------------------------------------------------------------------
(* Controller/Adminhtml/Notifications/WebhookReprocess: the grid shows the *)
(* link for rows in progress; the link is followed some time later.        *)

ViewLink(w, id) ==
  /\ pc[w] = "idle"
  /\ Live(id)
  /\ ~table[id].done
  /\ table[id].processing
  /\ pc' = [pc EXCEPT ![w] = "viewing"]
  /\ obj' = [obj EXCEPT ![w] = Snapshot(id)]
  /\ UNCHANGED <<table, applied, requestVars, batch, msg, queue, doomed, due>>

(* The row is read again; when it is gone the request fails. *)
FollowLink(w) ==
  /\ pc[w] = "viewing"
  /\ IF Live(obj[w].id)
     THEN /\ obj' = [obj EXCEPT ![w] = Snapshot(obj[w].id)]
          /\ pc' = [pc EXCEPT ![w] = "start"]
     ELSE /\ obj' = [obj EXCEPT ![w] = NoObj]
          /\ pc' = [pc EXCEPT ![w] = "idle"]
  /\ UNCHANGED <<table, applied, requestVars, batch, msg, queue, doomed, due>>

-----------------------------------------------------------------------------
(* Webhook::processNotification, step by step.                             *)

(* Back to the caller: the loop, the acknowledgement, the answer. *)
Return(w) ==
  pc' = [pc EXCEPT ![w] = IF w \in Runners THEN "loop"
                          ELSE IF w \in Consumers THEN "ack" ELSE "idle"]

Identified(w) == table[obj[w].id].item.identified

(* Mutant: the reason of the rejection is not recorded. *)
RejectUnidentifiedSilently(w) ==
  /\ pc[w] = "start"
  /\ ~Identified(w)
  /\ UpdateNotification(w, FALSE, TRUE)
  /\ pc' = [pc EXCEPT ![w] = "done"]
  /\ UNCHANGED <<applied, requestVars, batch, msg, queue, doomed, due>>

RejectUnidentified(w) ==
  /\ pc[w] = "start"
  /\ ~Identified(w)
  /\ UpdateNotification(w, FALSE, TRUE)
  /\ pc' = [pc EXCEPT ![w] = "erring"]
  /\ UNCHANGED <<applied, requestVars, batch, msg, queue, doomed, due>>

Claim(w) ==
  /\ pc[w] = "start"
  /\ Identified(w)
  /\ UpdateNotification(w, TRUE, FALSE)
  /\ pc' = [pc EXCEPT ![w] = "claimed"]
  /\ UNCHANGED <<applied, requestVars, batch, msg, queue, doomed, due>>

(* The order does not exist, or InvalidDataException: no further attempt. *)
GiveUp(w) ==
  /\ pc[w] = "claimed"
  /\ UpdateNotification(w, FALSE, TRUE)
  /\ pc' = [pc EXCEPT ![w] = "erring"]
  /\ UNCHANGED <<applied, requestVars, batch, msg, queue, doomed, due>>

(* Any other exception: the row may be tried again. *)
LeaveForRetry(w) ==
  /\ pc[w] = "claimed"
  /\ UpdateNotification(w, FALSE, FALSE)
  /\ pc' = [pc EXCEPT ![w] = "erring"]
  /\ UNCHANGED <<applied, requestVars, batch, msg, queue, doomed, due>>

(* getCurrentState knows no counterpart of the order's state ("holded"):   *)
(* the function returns with the row marked as being processed.            *)
LeaveUnhandled(w) ==
  /\ "unhandled" \in Faults
  /\ pc[w] = "claimed"
  /\ obj' = [obj EXCEPT ![w] = NoObj]
  /\ Return(w)
  /\ UNCHANGED <<table, applied, requestVars, batch, msg, queue, doomed, due>>

(* The handler's changes are saved with the order; the row is not yet. *)
Apply(w) ==
  /\ pc[w] = "claimed"
  /\ applied' = [applied EXCEPT ![obj[w].id] = IF @ = 0 THEN 1 ELSE 2]
  /\ pc' = [pc EXCEPT ![w] = "applied"]
  /\ UNCHANGED <<table, requestVars, obj, batch, msg, queue, doomed, due>>

(* When this save throws, the object is saved once more as it is by then,  *)
(* and an error is recorded.                                               *)
MarkDone(w) ==
  /\ pc[w] = "applied"
  /\ UpdateNotification(w, FALSE, TRUE)
  /\ \E next \in {"done", "erring"} : pc' = [pc EXCEPT ![w] = next]
  /\ UNCHANGED <<applied, requestVars, batch, msg, queue, doomed, due>>

RecordError(w) ==
  /\ pc[w] = "erring"
  /\ SetNotificationError(w)
  /\ pc' = [pc EXCEPT ![w] = "done"]
  /\ UNCHANGED <<applied, requestVars, batch, msg, queue, doomed, due>>

Finish(w) ==
  /\ pc[w] = "done"
  /\ obj' = [obj EXCEPT ![w] = NoObj]
  /\ Return(w)
  /\ UNCHANGED <<table, applied, requestVars, batch, msg, queue, doomed, due>>

(* The process is killed, or ends with an error the code does not catch    *)
(* (a TypeError, a failing save).  The broker may deliver a message again  *)
(* when it was not acknowledged; otherwise it is lost.                     *)
Crash(w) ==
  /\ "crash" \in Faults
  /\ pc[w] # "idle"
  /\ pc' = [pc EXCEPT ![w] = "idle"]
  /\ obj' = [obj EXCEPT ![w] = NoObj]
  /\ batch' = [batch EXCEPT ![w] = {}]
  /\ msg' = [msg EXCEPT ![w] = NoObj]
  /\ \/ UNCHANGED queue
     \/ "redeliver" \in Faults /\ msg[w] # NoObj /\ Enqueue(msg[w])
  /\ UNCHANGED <<table, applied, requestVars, doomed, due>>

-----------------------------------------------------------------------------
(* Cron/RemoveProcessedWebhooks: the ids are selected, then deleted.       *)

(* Mutant: the selection forgets the done flag. *)
RemovableUndone(id) ==
  Live(id) /\ table[id].age >= Retention /\ ~table[id].processing

(* Collection::getProcessedWebhookIdsByTimeLimit *)
Removable(id) ==
  /\ Live(id)
  /\ table[id].age >= Retention
  /\ table[id].done
  /\ ~table[id].processing

(* A batch is limited to BATCH_SIZE rows: any of them. *)
SelectProcessed ==
  /\ doomed = {}
  /\ \E S \in SUBSET {id \in Ids : Removable(id)} : S # {} /\ doomed' = S
  /\ UNCHANGED <<table, applied, requestVars, workerVars, queue, due>>

DeleteSelected ==
  /\ doomed # {}
  /\ table' = [id \in Ids |-> IF id \in doomed
                              THEN [table[id] EXCEPT !.state = "removed"]
                              ELSE table[id]]
  /\ doomed' = {}
  /\ UNCHANGED <<applied, requestVars, workerVars, queue, due>>

-----------------------------------------------------------------------------
(* A minute passes.  Ages beyond AgeCap are not told apart.                *)

NoWork ==
  /\ ~due
  /\ \A w \in Workers : pc[w] = "idle"
  /\ \A s \in Slots : queue[s] = NoObj

Tick ==
  /\ Punctual => NoWork
  /\ table' = [id \in Ids |->
                 IF table[id].state # "free" /\ table[id].age < AgeCap
                 THEN [table[id] EXCEPT !.age = @ + 1]
                 ELSE table[id]]
  /\ due' = Punctual
  /\ UNCHANGED <<applied, requestVars, workerVars, queue, doomed>>

Receiver(r) == Post(r) \/ CheckItem(r) \/ SaveItem(r) \/ Refuse(r) \/ Accept(r)

Runner(w) ==
  \/ StartRun(w) \/ SkipDuplicate(w) \/ SkipDelayed(w) \/ Take(w) \/ EndRun(w)
  \/ MarkQueued(w) \/ Publish(w)

Consumer(w) == Receive(w) \/ Acknowledge(w)

Admin(w) == (\E id \in Ids : ViewLink(w, id)) \/ FollowLink(w)

ProcessNotification(w) ==
  \/ RejectUnidentified(w) \/ Claim(w) \/ GiveUp(w) \/ LeaveForRetry(w)
  \/ LeaveUnhandled(w) \/ Apply(w) \/ MarkDone(w) \/ RecordError(w) \/ Finish(w)

Cleanup == SelectProcessed \/ DeleteSelected

Next ==
  \/ \E r \in Receivers : Receiver(r)
  \/ \E w \in Runners : Runner(w)
  \/ \E w \in Consumers : Consumer(w)
  \/ \E w \in Admins : Admin(w)
  \/ \E w \in Workers : ProcessNotification(w) \/ Crash(w)
  \/ Cleanup
  \/ Tick

Spec == Init /\ [][Next]_vars

(* Cron starts the runner every minute, consumers are kept running, and a  *)
(* process that was started goes on until it ends.                         *)
Fairness ==
  /\ \A w \in Runners : WF_vars(Runner(w))
  /\ \A w \in Consumers : WF_vars(Consumer(w))
  /\ \A w \in Runners \cup Consumers : WF_vars(ProcessNotification(w))
  /\ WF_vars(Tick)

FairSpec == Spec /\ Fairness

-----------------------------------------------------------------------------
(* Properties                                                              *)

(* Rows, requests, processes and messages hold what they are meant to.     *)
TypeOK ==
  /\ table \in [Ids -> RowType]
  /\ applied \in [Ids -> 0..2]
  /\ body \in [Receivers -> SUBSET Items]
  /\ todo \in [Receivers -> SUBSET Items]
  /\ checked \in [Receivers -> Items \cup {NoItem}]
  /\ accepted \subseteq Items
  /\ pc \in [Workers -> {"idle", "loop", "enqueue", "publish", "viewing", "start",
                         "claimed", "applied", "erring", "done", "ack"}]
  /\ obj \in [Workers -> ObjType \cup {NoObj}]
  /\ batch \in [Workers -> SUBSET ObjType]
  /\ msg \in [Workers -> ObjType \cup {NoObj}]
  /\ queue \in [Slots -> ObjType \cup {NoObj}]
  /\ doomed \subseteq Ids
  /\ due \in BOOLEAN

(* Every item Adyen was told "[accepted]" for has, or had until it was     *)
(* removed, a row that counts as this item: the answer is given only after *)
(* the save (Controller/Webhook/Index.php), in whatever way requests with  *)
(* common items overlap and whichever of them is refused half-way.         *)
AcceptedStored ==
  \A i \in accepted : \E id \in Ids :
     table[id].state # "free" /\ Matches(i, table[id].item)

(* A row that was tried MAX_ERROR_COUNT times is done, and its count goes  *)
(* no further (Webhook::setNotificationError).                             *)
ErrorBudget ==
  \A id \in Ids :
     /\ table[id].errors <= MaxErrors
     /\ table[id].errors = MaxErrors => table[id].done

(* What a notification does to its order is done at most once, although a  *)
(* crash between saving the order and saving the row leaves the row        *)
(* unprocessed.                                                            *)
AppliedOnce == \A id \in Ids : applied[id] <= 1

(* Nor is it done by two rows that the duplicate check of the receiver let *)
(* in for the same item.                                                   *)
AppliedOncePerItem ==
  \A id, other \in Ids :
     id # other /\ applied[id] > 0 /\ applied[other] > 0
       => ~Matches(table[id].item, table[other].item)

Holds(w, id) == obj[w] # NoObj /\ obj[w].id = id

Unattended(id) ==
  /\ \A w \in Workers : ~Holds(w, id)
  /\ \A w \in Workers : msg[w] = NoObj \/ msg[w].id # id
  /\ \A s \in Slots : queue[s] = NoObj \/ queue[s].id # id

Settled(id) ==
  table[id].state # "free" /\ (table[id].done \/ IsProcessed(id))

(* A row is called processed for a reason: its order was updated or an     *)
(* error was recorded.  Checked with an administrator who reprocesses rows *)
(* while a runner works on them, so that saves of old copies interleave.   *)
DoneExplained ==
  \A id \in Ids :
     Live(id) /\ table[id].done /\ ~table[id].processing /\ Unattended(id)
       => applied[id] > 0 \/ table[id].errors > 0

(* Every stored notification is eventually settled when no process fails   *)
(* and the order is in a state the plugin handles.                         *)
EventuallySettled == \A id \in Ids : Live(id) ~> Settled(id)

(* The deadline behind it: when each minute's work is done in the minute,  *)
(* one attempt a minute is made until the error budget is used up.         *)
SettledInTime ==
  \A id \in Ids : Live(id) =>
     LET first == IF Delayed(table[id].item) /\ DelayAge + 1 > MinAge
                  THEN DelayAge + 1 ELSE MinAge
     IN  table[id].age >= first + MaxErrors => Settled(id)

(* NotificationColumn::prepareDataSource: the status shown for a row. *)
StatusOf(id) ==
  IF table[id].state = "free" THEN "Absent"
  ELSE IF table[id].state = "removed" THEN "Purged"
  ELSE IF table[id].processing THEN "In progress"
  ELSE IF table[id].done THEN "Processed" ELSE "Queued"

Column == INSTANCE NotificationStatus WITH status <- [id \in Ids |-> StatusOf(id)]

(* The table implements the life the status column promises. *)
ImplementsStatus == Column!Spec
=============================================================================
