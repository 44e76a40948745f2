--------------------- MODULE NotificationPipeline_proofs ---------------------
(***************************************************************************)
(* Proofs about NotificationPipeline, for every number of rows, items,     *)
(* requests and processes and every value of the ages and limits.          *)
(*                                                                         *)
(* TypeCorrect and AcceptedAreStored hold without further assumption, and  *)
(* ProcessedForAReason for any processes that do not crash (NoCrash).      *)
(* QueuedAreAppliedOnce is about queue mode (OneQueue).  The other theorems *)
(* are about the schedule the module is meant to be run with:              *)
(* notifications are processed by the cron job alone (OneRunner).          *)
(* What they assume besides is named where it is defined: no row is        *)
(* removed (RowsStay), a repeated delivery is recognisable (OriginalsTold), *)
(* each minute's work is done in the minute (OnTime, DuplicatesStay).      *)
(***************************************************************************)
EXTENDS NotificationPipeline, TLAPS

(***************************************************************************)
(* Lemmas about the objects and their saves                                *)
(***************************************************************************)

(* The limits, ages and caps are numbers. *)
LEMMA BoundsAreNumbers ==
  /\ AgeCap \in Nat /\ MaxErrors \in Nat /\ MaxErrors > 0
  /\ MinAge \in Nat /\ DelayAge \in Nat /\ MaxAge \in Nat /\ Retention \in Nat
  /\ ErrorCap = MaxErrors + 1
BY ConstantsAssumption DEF ErrorCap

(* A free row is a row. *)
LEMMA FreeRowType == FreeRow \in RowType
<1>1. 0 \in 0..AgeCap /\ 0 \in 0..ErrorCap
  BY BoundsAreNumbers
<1> QED
  BY <1>1 DEF FreeRow, RowType

(* A snapshot of a row is an object with every column to be written. *)
LEMMA SnapshotType ==
  ASSUME TypeOK, NEW id \in Ids
  PROVE  Snapshot(id) \in ObjType
BY DEF TypeOK, Snapshot, ObjType, RowType, Columns

(* Assigning columns of an object keeps it an object. *)
LEMMA AssignType ==
  ASSUME NEW o \in ObjType, NEW d \in BOOLEAN, NEW p \in BOOLEAN,
         NEW e \in 0..ErrorCap
  PROVE  Assign(o, d, p, e) \in ObjType
BY DEF Assign, Changed, ObjType, Columns

(* An object whose number of errors is to be written is an object. *)
LEMMA CountType ==
  ASSUME NEW o \in ObjType
  PROVE  [o EXCEPT !.dirty = @ \cup {"errors"}] \in ObjType
BY DEF ObjType, Columns

(* What a save does to the table: it writes the dirty columns of one row,  *)
(* and touches neither the state, the item nor the age of any.             *)
LEMMA SaveEffect ==
  ASSUME TypeOK, NEW w \in Workers, NEW o \in ObjType, Save(w, o)
  PROVE  /\ table' \in [Ids -> RowType]
         /\ \A id \in Ids : id # o.id => table'[id] = table[id]
         /\ ~Live(o.id) => table' = table
         /\ Live(o.id) => table'[o.id] = Written(table[o.id], o)
         /\ \A id \in Ids : /\ table'[id].state = table[id].state
                            /\ table'[id].item = table[id].item
                            /\ table'[id].age = table[id].age
         /\ obj' = [obj EXCEPT ![w] = [o EXCEPT !.dirty = {}]]
         /\ obj' \in [Workers -> ObjType \cup {NoObj}]
<1>1. o.id \in Ids /\ table[o.id] \in RowType
  BY DEF TypeOK, ObjType
<1>2. /\ Written(table[o.id], o) \in RowType
      /\ Written(table[o.id], o).state = table[o.id].state
      /\ Written(table[o.id], o).item = table[o.id].item
      /\ Written(table[o.id], o).age = table[o.id].age
  BY <1>1 DEF Written, RowType, ObjType
<1>3. [o EXCEPT !.dirty = {}] \in ObjType
  BY DEF ObjType
<1> QED
  BY <1>1, <1>2, <1>3 DEF Save, TypeOK

(***************************************************************************)
(* Type correctness                                                        *)
(***************************************************************************)

(* A worker that is processing a row holds an object; ditto a publisher.   *)
Busy == {"enqueue", "publish", "viewing", "start", "claimed", "applied",
         "erring", "done"}

HoldsObject == \A w \in Workers : pc[w] \in Busy => obj[w] \in ObjType

TypeInv == TypeOK /\ HoldsObject

(* The object and table after one of the saves of processNotification.     *)
LEMMA UpdateType ==
  ASSUME TypeInv, NEW w \in Workers, pc[w] \in Busy,
         NEW p \in BOOLEAN, NEW d \in BOOLEAN, UpdateNotification(w, p, d)
  PROVE  /\ table' \in [Ids -> RowType]
         /\ obj' \in [Workers -> ObjType \cup {NoObj}]
         /\ \A v \in Workers : v # w => obj'[v] = obj[v]
         /\ obj'[w] \in ObjType
<1> DEFINE o == Assign(obj[w], obj[w].done \/ d, p, obj[w].errors)
<1>1. obj[w] \in ObjType
  BY DEF TypeInv, HoldsObject
<1>2. o \in ObjType
  <2>1. obj[w].done \in BOOLEAN /\ obj[w].errors \in 0..ErrorCap
    BY <1>1 DEF ObjType
  <2> QED BY <1>1, <2>1, AssignType
<1>3. Save(w, o)
  BY DEF UpdateNotification
<1>4. [o EXCEPT !.dirty = {}] \in ObjType
  BY <1>2 DEF ObjType
<1> HIDE DEF o
<1>5. TypeOK
  BY DEF TypeInv
<1>6. /\ table' \in [Ids -> RowType]
      /\ obj' = [obj EXCEPT ![w] = [o EXCEPT !.dirty = {}]]
      /\ obj' \in [Workers -> ObjType \cup {NoObj}]
  BY <1>2, <1>3, <1>5, SaveEffect
<1> QED
  BY <1>4, <1>5, <1>6 DEF TypeOK

(* Counting an error writes rows and the object it is counted on, no      *)
(* other.                                                                 *)
LEMMA SetErrorType ==
  ASSUME TypeInv, NEW w \in Workers, pc[w] \in Busy, SetNotificationError(w)
  PROVE  /\ table' \in [Ids -> RowType]
         /\ obj' \in [Workers -> ObjType \cup {NoObj}]
         /\ \A v \in Workers : v # w => obj'[v] = obj[v]
         /\ obj'[w] \in ObjType
<1> DEFINE e == IF obj[w].errors < ErrorCap THEN obj[w].errors + 1 ELSE obj[w].errors
           a == Assign(obj[w], obj[w].done \/ e = MaxErrors, obj[w].processing, e)
           o == [a EXCEPT !.dirty = @ \cup {"errors"}]
<1>1. obj[w] \in ObjType
  BY DEF TypeInv, HoldsObject
<1>2. o \in ObjType
  <2>1. /\ obj[w].done \in BOOLEAN
        /\ obj[w].processing \in BOOLEAN
        /\ obj[w].errors \in 0..ErrorCap
    BY <1>1 DEF ObjType
  <2>2. e \in 0..ErrorCap
    BY <2>1, ConstantsAssumption DEF ErrorCap
  <2>3. a \in ObjType
    <3> HIDE DEF e
    <3> QED BY <1>1, <2>1, <2>2, AssignType
  <2> HIDE DEF a
  <2> QED BY <2>3, CountType
<1>3. Save(w, o)
  BY DEF SetNotificationError
<1>4. [o EXCEPT !.dirty = {}] \in ObjType
  BY <1>2 DEF ObjType
<1> HIDE DEF o
<1>5. TypeOK
  BY DEF TypeInv
<1>6. /\ table' \in [Ids -> RowType]
      /\ obj' = [obj EXCEPT ![w] = [o EXCEPT !.dirty = {}]]
      /\ obj' \in [Workers -> ObjType \cup {NoObj}]
  BY <1>2, <1>3, <1>5, SaveEffect
<1> QED
  BY <1>4, <1>5, <1>6 DEF TypeOK

(* The initial states have the types. *)
LEMMA InitTypeInv == Init => TypeInv
BY ConstantsAssumption
   DEF Init, TypeInv, TypeOK, HoldsObject, Busy, RowType, FreeRow, ErrorCap

(* The steps of a request, of the cleanup and of the clock. *)
LEMMA RequestKeepsTypes ==
  ASSUME TypeInv, NEW r \in Receivers, Receiver(r)
  PROVE  TypeInv'
<1> USE DEF TypeInv, TypeOK, HoldsObject, workerVars, requestVars
<1>1. CASE Post(r)
  BY <1>1 DEF Post
<1>2. CASE CheckItem(r)
  BY <1>2 DEF CheckItem
<1>3. CASE SaveItem(r)
  <2>1. checked[r] \in Items
    BY <1>3 DEF SaveItem
  <2>2. [FreeRow EXCEPT !.state = "live", !.item = checked[r]] \in RowType
    BY <2>1, BoundsAreNumbers, FreeRowType DEF RowType
  <2>3. table' \in [Ids -> RowType]
    BY <1>3, <2>2 DEF SaveItem
  <2>4. /\ todo' \in [Receivers -> SUBSET Items]
        /\ checked' \in [Receivers -> Items \cup {NoItem}]
    BY <1>3 DEF SaveItem
  <2>5. UNCHANGED <<applied, body, accepted, pc, obj, batch, msg, queue, doomed, due>>
    BY <1>3 DEF SaveItem
  <2> QED
    BY <2>3, <2>4, <2>5
<1>4. CASE Refuse(r)
  BY <1>4 DEF Refuse, EndRequest
<1>5. CASE Accept(r)
  BY <1>5 DEF Accept, EndRequest
<1> QED
  BY <1>1, <1>2, <1>3, <1>4, <1>5 DEF Receiver

(* The cleanup keeps the types. *)
LEMMA CleanupKeepsTypes ==
  ASSUME TypeInv, Cleanup
  PROVE  TypeInv'
<1> USE DEF TypeInv, TypeOK, HoldsObject, workerVars, requestVars
<1>1. CASE SelectProcessed
  BY <1>1 DEF SelectProcessed
<1>2. CASE DeleteSelected
  BY <1>2 DEF DeleteSelected, RowType
<1> QED
  BY <1>1, <1>2 DEF Cleanup

(* The passing of time keeps them. *)
LEMMA TickKeepsTypes ==
  ASSUME TypeInv, Tick
  PROVE  TypeInv'
<1> USE DEF TypeInv, TypeOK, HoldsObject, workerVars, requestVars
<1>1. \A id \in Ids : table'[id] \in RowType
  BY ConstantsAssumption DEF Tick, RowType
<1> QED
  BY <1>1, ConstantsAssumption DEF Tick

(* The steps of the loop of WebhookProcessor. *)
LEMMA RunnerKeepsTypes ==
  ASSUME TypeInv, NEW w \in Runners, Runner(w)
  PROVE  TypeInv'
<1> USE DEF TypeInv, TypeOK, HoldsObject, requestVars, Busy
<1>0. w \in Workers
  BY DEF Workers
<1>1. CASE StartRun(w)
  <2>1. {Snapshot(id) : id \in {i \in Ids : Eligible(i)}} \subseteq ObjType
    BY SnapshotType
  <2> QED
    BY <1>0, <1>1, <2>1 DEF StartRun
<1>2. CASE SkipDuplicate(w)
  BY <1>0, <1>2 DEF SkipDuplicate, LeaveLoop
<1>3. CASE SkipDelayed(w)
  BY <1>0, <1>3 DEF SkipDelayed, LeaveLoop
<1>4. CASE Take(w)
  BY <1>0, <1>4 DEF Take, LeaveLoop
<1>5. CASE EndRun(w)
  BY <1>0, <1>5 DEF EndRun
<1>6. CASE MarkQueued(w)
  <2> DEFINE o == Assign(obj[w], obj[w].done, TRUE, obj[w].errors)
  <2>1. obj[w] \in ObjType
    BY <1>0, <1>6 DEF MarkQueued
  <2>2. obj[w].done \in BOOLEAN /\ obj[w].errors \in 0..ErrorCap
    BY <2>1 DEF ObjType
  <2>3. o \in ObjType
    BY <2>1, <2>2, AssignType
  <2>4. Save(w, o)
    BY <1>6 DEF MarkQueued
  <2>5. [o EXCEPT !.dirty = {}] \in ObjType
    BY <2>3 DEF ObjType
  <2> HIDE DEF o
  <2>6. /\ table' \in [Ids -> RowType]
        /\ obj' = [obj EXCEPT ![w] = [o EXCEPT !.dirty = {}]]
    BY <1>0, <2>3, <2>4, SaveEffect
  <2> QED
    BY <1>0, <1>6, <2>5, <2>6 DEF MarkQueued
<1>7. CASE Publish(w)
  <2>1. obj[w] \in ObjType
    BY <1>0, <1>7 DEF Publish
  <2>2. [obj[w] EXCEPT !.dirty = Columns] \in ObjType
    BY <2>1 DEF ObjType
  <2> QED
    BY <1>0, <1>7, <2>2 DEF Publish, Enqueue
<1> QED
  BY <1>1, <1>2, <1>3, <1>4, <1>5, <1>6, <1>7 DEF Runner

(* The consumer of the queue keeps them. *)
LEMMA ConsumerKeepsTypes ==
  ASSUME TypeInv, NEW w \in Consumers, Consumer(w)
  PROVE  TypeInv'
<1> USE DEF TypeInv, TypeOK, HoldsObject, requestVars, Busy
<1>0. w \in Workers
  BY DEF Workers
<1>1. CASE Receive(w)
  BY <1>0, <1>1 DEF Receive
<1>2. CASE Acknowledge(w)
  BY <1>0, <1>2 DEF Acknowledge
<1> QED
  BY <1>1, <1>2 DEF Consumer

(* Reprocessing by hand keeps them. *)
LEMMA AdminKeepsTypes ==
  ASSUME TypeInv, NEW w \in Admins, Admin(w)
  PROVE  TypeInv'
<1> USE DEF TypeInv, TypeOK, HoldsObject, requestVars, Busy
<1>0. w \in Workers
  BY DEF Workers
<1>1. ASSUME NEW id \in Ids, ViewLink(w, id)
      PROVE  TypeInv'
  <2>1. Snapshot(id) \in ObjType
    BY SnapshotType
  <2> QED
    BY <1>0, <1>1, <2>1 DEF ViewLink
<1>2. CASE FollowLink(w)
  <2>1. obj[w].id \in Ids
    BY <1>0, <1>2 DEF FollowLink, ObjType
  <2>2. Snapshot(obj[w].id) \in ObjType
    BY <2>1, SnapshotType
  <2> QED
    BY <1>0, <1>2, <2>2 DEF FollowLink
<1> QED
  BY <1>1, <1>2 DEF Admin

(* Every step of the processing of a notification keeps them. *)
LEMMA ProcessingKeepsTypes ==
  ASSUME TypeInv, NEW w \in Workers, ProcessNotification(w)
  PROVE  TypeInv'
<1> USE DEF TypeInv, TypeOK, HoldsObject, requestVars, Busy
<1>1. CASE RejectUnidentified(w)
  BY <1>1, UpdateType DEF RejectUnidentified
<1>2. CASE Claim(w)
  BY <1>2, UpdateType DEF Claim
<1>3. CASE GiveUp(w)
  BY <1>3, UpdateType DEF GiveUp
<1>4. CASE LeaveForRetry(w)
  BY <1>4, UpdateType DEF LeaveForRetry
<1>5. CASE LeaveUnhandled(w)
  BY <1>5 DEF LeaveUnhandled, Return
<1>6. CASE Apply(w)
  <2>1. obj[w] \in ObjType /\ obj[w].id \in Ids
    BY <1>6 DEF Apply, ObjType
  <2>2. pc' = [pc EXCEPT ![w] = "applied"] /\ pc[w] = "claimed"
    BY <1>6 DEF Apply
  <2>3. UNCHANGED <<table, body, todo, checked, accepted, obj, batch, msg, queue,
                    doomed, due>>
    BY <1>6 DEF Apply
  <2>4. applied' \in [Ids -> 0..2]
    BY <1>6, <2>1 DEF Apply
  <2>5. HoldsObject'
    BY <2>1, <2>2, <2>3
  <2>6. TypeOK'
    BY <2>2, <2>3, <2>4
  <2> QED
    BY <2>5, <2>6
<1>7. CASE MarkDone(w)
  BY <1>7, UpdateType DEF MarkDone
<1>8. CASE RecordError(w)
  BY <1>8, SetErrorType DEF RecordError
<1>9. CASE Finish(w)
  BY <1>9 DEF Finish, Return
<1> QED
  BY <1>1, <1>2, <1>3, <1>4, <1>5, <1>6, <1>7, <1>8, <1>9 DEF ProcessNotification

(* A process that dies keeps them. *)
LEMMA CrashKeepsTypes ==
  ASSUME TypeInv, NEW w \in Workers, Crash(w)
  PROVE  TypeInv'
<1> USE DEF TypeInv, TypeOK, HoldsObject, requestVars, Busy
<1>1. queue' \in [Slots -> ObjType \cup {NoObj}]
  <2>1. msg[w] # NoObj => [msg[w] EXCEPT !.dirty = Columns] \in ObjType
    BY DEF ObjType
  <2> QED
    BY <2>1 DEF Crash, Enqueue
<1> QED
  BY <1>1 DEF Crash

(* Every step keeps the types. *)
LEMMA NextKeepsTypes ==
  ASSUME TypeInv, [Next]_vars
  PROVE  TypeInv'
<1>1. CASE Next
  BY <1>1, RequestKeepsTypes, RunnerKeepsTypes, ConsumerKeepsTypes,
     AdminKeepsTypes, ProcessingKeepsTypes, CrashKeepsTypes,
     CleanupKeepsTypes, TickKeepsTypes
     DEF Next
<1>2. CASE UNCHANGED vars
  BY <1>2 DEF vars, requestVars, workerVars, TypeInv, TypeOK, HoldsObject
<1> QED
  BY <1>1, <1>2

(* So every state has them. *)
LEMMA TypeInvariant == Spec => []TypeInv
<1>1. Init => TypeInv
  BY InitTypeInv
<1>2. TypeInv /\ [Next]_vars => TypeInv'
  BY NextKeepsTypes
<1> QED
  BY <1>1, <1>2, PTL DEF Spec

(* The table, the queue and every process hold what they are meant to.     *)
THEOREM TypeCorrect == Spec => []TypeOK
<1>1. TypeInv => TypeOK
  BY DEF TypeInv
<1> QED
  BY <1>1, TypeInvariant, PTL

(***************************************************************************)
(* Accepted items are stored                                               *)
(***************************************************************************)

(* A row, once stored, stays the row of its item, if only as a removed one *)
RowsKept ==
  \A id \in Ids : table[id].state # "free" =>
     table'[id].state # "free" /\ table'[id].item = table[id].item

(* Saving what became of a notification takes no row away. *)
LEMMA UpdateKeepsRows ==
  ASSUME TypeInv, NEW w \in Workers, pc[w] \in Busy,
         NEW p \in BOOLEAN, NEW d \in BOOLEAN, UpdateNotification(w, p, d)
  PROVE  RowsKept
<1> DEFINE o == Assign(obj[w], obj[w].done \/ d, p, obj[w].errors)
<1>1. o \in ObjType
  <2>1. obj[w] \in ObjType
    BY DEF TypeInv, HoldsObject
  <2>2. obj[w].done \in BOOLEAN /\ obj[w].errors \in 0..ErrorCap
    BY <2>1 DEF ObjType
  <2> QED BY <2>1, <2>2, AssignType
<1>2. Save(w, o) /\ TypeOK
  BY DEF UpdateNotification, TypeInv
<1> HIDE DEF o
<1> QED
  BY <1>1, <1>2, SaveEffect DEF RowsKept

(* Nor does counting an error. *)
LEMMA SetErrorKeepsRows ==
  ASSUME TypeInv, NEW w \in Workers, SetNotificationError(w), pc[w] \in Busy
  PROVE  RowsKept
<1> DEFINE e == IF obj[w].errors < ErrorCap THEN obj[w].errors + 1 ELSE obj[w].errors
           a == Assign(obj[w], obj[w].done \/ e = MaxErrors, obj[w].processing, e)
           o == [a EXCEPT !.dirty = @ \cup {"errors"}]
<1>1. o \in ObjType
  <2>1. obj[w] \in ObjType
    BY DEF TypeInv, HoldsObject
  <2>2. /\ obj[w].processing \in BOOLEAN
        /\ obj[w].done \in BOOLEAN
        /\ e \in 0..ErrorCap
    BY <2>1, BoundsAreNumbers DEF ObjType
  <2>3. a \in ObjType
    <3> HIDE DEF e
    <3> QED BY <2>1, <2>2, AssignType
  <2> HIDE DEF a
  <2> QED BY <2>3, CountType
<1>2. Save(w, o) /\ TypeOK
  BY DEF SetNotificationError, TypeInv
<1> HIDE DEF o
<1> QED
  BY <1>1, <1>2, SaveEffect DEF RowsKept

(* No step does: a row that is removed stays one that was there. *)
LEMMA StepKeepsRows ==
  ASSUME TypeInv, [Next]_vars
  PROVE  RowsKept
<1> USE DEF RowsKept
<1>0. TypeOK
  BY DEF TypeInv
<1>1. CASE UNCHANGED vars
  BY <1>1 DEF vars
<1>2. ASSUME NEW r \in Receivers, Receiver(r)
      PROVE  RowsKept
  <2>1. CASE SaveItem(r)
    BY <1>0, <2>1 DEF SaveItem, TypeOK
  <2> QED
    BY <1>2, <2>1 DEF Receiver, Post, CheckItem, Refuse, Accept
<1>3. ASSUME NEW w \in Runners, Runner(w)
      PROVE  RowsKept
  <2>1. CASE MarkQueued(w)
    <3> DEFINE o == Assign(obj[w], obj[w].done, TRUE, obj[w].errors)
    <3>1. w \in Workers
      BY DEF Workers
    <3>2. obj[w] \in ObjType
      BY <2>1, <3>1 DEF MarkQueued, TypeInv, HoldsObject, Busy
    <3>3. obj[w].done \in BOOLEAN /\ obj[w].errors \in 0..ErrorCap
      BY <3>2 DEF ObjType
    <3>4. o \in ObjType
      BY <3>2, <3>3, AssignType
    <3>5. Save(w, o)
      BY <2>1 DEF MarkQueued
    <3> HIDE DEF o
    <3> QED
      BY <1>0, <3>1, <3>4, <3>5, SaveEffect
  <2> QED
    BY <1>3, <2>1
       DEF Runner, StartRun, SkipDuplicate, SkipDelayed, Take, EndRun, Publish
<1>4. ASSUME NEW w \in Consumers, Consumer(w)
      PROVE  RowsKept
  BY <1>4 DEF Consumer, Receive, Acknowledge
<1>5. ASSUME NEW w \in Admins, Admin(w)
      PROVE  RowsKept
  BY <1>5 DEF Admin, ViewLink, FollowLink
<1>6. ASSUME NEW w \in Workers, ProcessNotification(w)
      PROVE  RowsKept
  <2>1. CASE RejectUnidentified(w) \/ Claim(w) \/ GiveUp(w) \/ LeaveForRetry(w)
             \/ MarkDone(w)
    BY <2>1, UpdateKeepsRows
       DEF RejectUnidentified, Claim, GiveUp, LeaveForRetry, MarkDone, Busy
  <2>2. CASE RecordError(w)
    BY <2>2, SetErrorKeepsRows DEF RecordError, Busy
  <2> QED
    BY <1>6, <2>1, <2>2 DEF ProcessNotification, LeaveUnhandled, Apply, Finish
<1>7. ASSUME NEW w \in Workers, Crash(w)
      PROVE  RowsKept
  BY <1>7 DEF Crash
<1>8. CASE Cleanup
  BY <1>0, <1>8 DEF Cleanup, SelectProcessed, DeleteSelected, TypeOK, RowType
<1>9. CASE Tick
  BY <1>0, <1>9 DEF Tick, TypeOK, RowType
<1> QED
  BY <1>1, <1>2, <1>3, <1>4, <1>5, <1>6, <1>7, <1>8, <1>9 DEF Next

HasRow(i) ==
  \E id \in Ids : table[id].state # "free" /\ Matches(i, table[id].item)

(* The progress of a request: what it has finished has a row.              *)
RequestInv ==
  /\ \A r \in Receivers : todo[r] \subseteq body[r]
  /\ \A r \in Receivers : checked[r] # NoItem => checked[r] \in todo[r]
  /\ \A r \in Receivers : \A i \in body[r] \ todo[r] : HasRow(i)
  /\ \A i \in accepted : HasRow(i)

(* An item that has its row keeps it. *)
LEMMA HasRowKept ==
  ASSUME RowsKept, NEW i, HasRow(i)
  PROVE  HasRow(i)'
BY DEF RowsKept, HasRow, Matches

(* A receiver answers an accepted request when all its items have rows. *)
LEMMA RequestStep ==
  ASSUME TypeInv, RequestInv, RowsKept, NEW r \in Receivers, Receiver(r)
  PROVE  RequestInv'
<1>0. \A i : HasRow(i) => HasRow(i)'
  BY HasRowKept
<1> USE DEF RequestInv, TypeInv, TypeOK
<1>1. CASE Post(r)
  <2>1. PICK S \in SUBSET Items : /\ body' = [body EXCEPT ![r] = S]
                                 /\ todo' = [todo EXCEPT ![r] = S]
    BY <1>1 DEF Post
  <2>2. body[r] = {} /\ UNCHANGED <<checked, accepted>>
    BY <1>1 DEF Post
  <2>3. checked[r] = NoItem
    BY <2>2
  <2> QED
    BY <1>0, <2>1, <2>2, <2>3
<1>2. CASE CheckItem(r)
  <2>1. PICK i \in todo[r] :
           IF IsStored(i)
           THEN /\ todo' = [todo EXCEPT ![r] = @ \ {i}]
                /\ UNCHANGED checked
           ELSE /\ checked' = [checked EXCEPT ![r] = i]
                /\ UNCHANGED todo
    BY <1>2 DEF CheckItem
  <2>2. IsStored(i) => HasRow(i)
    BY DEF IsStored, HasRow, Live
  <2>3. checked[r] = NoItem /\ UNCHANGED <<body, accepted>>
    BY <1>2 DEF CheckItem
  <2> QED
    BY <1>0, <2>1, <2>2, <2>3
<1>3. CASE SaveItem(r)
  <2>1. PICK id \in Ids :
           table' = [table EXCEPT ![id] =
                       [FreeRow EXCEPT !.state = "live", !.item = checked[r]]]
    BY <1>3 DEF SaveItem
  <2>2. table'[id].state = "live" /\ table'[id].item = checked[r]
    BY <2>1 DEF FreeRow
  <2>3. PICK j \in Items : checked[r] = j
    BY <1>3 DEF SaveItem
  <2>4. HasRow(j)'
    BY <2>2, <2>3 DEF HasRow, Matches
  <2>5. /\ todo' = [todo EXCEPT ![r] = @ \ {j}]
        /\ checked' = [checked EXCEPT ![r] = NoItem]
        /\ UNCHANGED <<body, accepted>>
    BY <1>3, <2>3 DEF SaveItem
  <2>6. \A q \in Receivers : checked'[q] # NoItem => checked'[q] \in todo'[q]
    <3> SUFFICES ASSUME NEW q \in Receivers, checked'[q] # NoItem
                 PROVE  checked'[q] \in todo'[q]
      OBVIOUS
    <3>1. q # r
      BY <2>5
    <3> QED
      BY <2>5, <3>1
  <2>7. \A q \in Receivers : \A i \in body'[q] \ todo'[q] : HasRow(i)'
    BY <1>0, <2>4, <2>5
  <2>8. \A i \in accepted' : HasRow(i)'
    BY <1>0, <2>5
  <2>9. \A q \in Receivers : todo'[q] \subseteq body'[q]
    BY <2>5
  <2> QED
    BY <2>6, <2>7, <2>8, <2>9
<1>4. CASE Refuse(r)
  BY <1>0, <1>4 DEF Refuse, EndRequest
<1>5. CASE Accept(r)
  BY <1>0, <1>5 DEF Accept, EndRequest
<1> QED
  BY <1>1, <1>2, <1>3, <1>4, <1>5 DEF Receiver

(* The steps that leave the requests alone keep what is known of them. *)
LEMMA OtherStepsKeepRequests ==
  ASSUME RequestInv, RowsKept, UNCHANGED requestVars
  PROVE  RequestInv'
<1>0. \A i : HasRow(i) => HasRow(i)'
  BY HasRowKept
<1> QED
  BY <1>0 DEF RequestInv, requestVars

(* Only receivers write the state of a request. *)
LEMMA OnlyReceiversChangeRequests ==
  ASSUME Next, ~ \E r \in Receivers : Receiver(r)
  PROVE  UNCHANGED requestVars
BY DEF Next, Runner, StartRun, SkipDuplicate, SkipDelayed, Take, EndRun, MarkQueued,
       Publish, Consumer, Receive, Acknowledge, Admin, ViewLink, FollowLink,
       ProcessNotification, RejectUnidentified, Claim, GiveUp, LeaveForRetry,
       LeaveUnhandled, Apply, MarkDone, RecordError, Finish, Crash, Cleanup,
       SelectProcessed, DeleteSelected, Tick

(* Whatever Adyen was told "[accepted]" for was stored, for any number of  *)
(* overlapping requests, refusals, crashes and clean-ups.                  *)
THEOREM AcceptedAreStored == Spec => []AcceptedStored
<1>1. Init => RequestInv
  BY DEF Init, RequestInv
<1>2. TypeInv /\ RequestInv /\ [Next]_vars => RequestInv'
  <2> SUFFICES ASSUME TypeInv, RequestInv, [Next]_vars
               PROVE  RequestInv'
    OBVIOUS
  <2>1. RowsKept
    BY StepKeepsRows
  <2>2. CASE \E r \in Receivers : Receiver(r)
    BY <2>1, <2>2, RequestStep
  <2>3. CASE UNCHANGED requestVars
    BY <2>1, <2>3, OtherStepsKeepRequests
  <2> QED
    BY <2>2, <2>3, OnlyReceiversChangeRequests DEF vars, requestVars
<1>3. RequestInv => AcceptedStored
  BY DEF RequestInv, AcceptedStored, HasRow
<1> QED
  BY <1>1, <1>2, <1>3, TypeInvariant, PTL DEF Spec

(***************************************************************************)
(* One runner, in inline mode, and nobody reprocesses by hand              *)
(***************************************************************************)

OneRunner == QueueMode = FALSE /\ Admins = {} /\ \E w : Runners = {w}

(* An object of the batch still shows the row as it is: nobody else writes *)
(* rows that are waiting.                                                  *)
Waiting(o) ==
  /\ Live(o.id)
  /\ table[o.id].done = FALSE /\ o.done = FALSE
  /\ table[o.id].processing = FALSE /\ o.processing = FALSE
  /\ table[o.id].errors = o.errors /\ o.errors < MaxErrors
  /\ o.dirty = Columns
  /\ applied[o.id] = 0

(* An object that was saved and the row agree. *)
Agrees(o) ==
  /\ table[o.id].done = o.done
  /\ table[o.id].processing = o.processing
  /\ table[o.id].errors = o.errors
  /\ o.dirty = {}

Claimed(o) ==
  /\ Live(o.id) /\ Agrees(o)
  /\ o.done = FALSE /\ o.processing = TRUE /\ o.errors < MaxErrors

(* The error is about to be counted; a row given up may be removed by now. *)
Erring(o) ==
  /\ Agrees(o)
  /\ o.processing = FALSE /\ o.errors < MaxErrors
  /\ table[o.id].state # "free"
  /\ ~o.done => Live(o.id)
  /\ applied[o.id] > 0 => o.done

OthersIdle ==
  /\ \A w \in Workers : w \notin Runners => pc[w] = "idle"
  /\ \A w \in Runners : pc[w] \in {"idle", "loop", "start", "claimed", "applied",
                                   "erring", "done"}
  /\ \A s \in Slots : queue[s] = NoObj
  /\ \A w \in Workers : msg[w] = NoObj

InHand(w) == pc[w] \in {"start", "claimed", "applied", "erring"}

BatchInv ==
  \A w \in Runners : \A o \in batch[w] :
     Waiting(o) /\ (InHand(w) => obj[w].id # o.id)

ObjInv ==
  \A w \in Runners :
     /\ pc[w] = "start" => Waiting(obj[w])
     /\ pc[w] = "claimed" => Claimed(obj[w]) /\ applied[obj[w].id] = 0
     /\ pc[w] = "applied" => Claimed(obj[w]) /\ applied[obj[w].id] = 1
     /\ pc[w] = "erring" => Erring(obj[w])

RowInv ==
  \A id \in Ids :
     /\ table[id].errors <= MaxErrors
     /\ table[id].errors = MaxErrors => table[id].done
     /\ applied[id] <= 1
     /\ applied[id] > 0 => table[id].done \/ table[id].processing
     /\ table[id].state = "free" =>
          ~table[id].done /\ table[id].errors = 0 /\ applied[id] = 0

DoomedInv == \A id \in doomed : table[id].done /\ ~table[id].processing

SoleCore == OthersIdle /\ BatchInv /\ ObjInv /\ RowInv /\ DoomedInv

SoleInv == TypeInv /\ SoleCore

(* A save by an object that agrees with its row, or writes all of it,      *)
(* leaves row and object in agreement.                                     *)
LEMMA WriteThrough ==
  ASSUME TypeInv, NEW w \in Workers, NEW o \in ObjType, Save(w, o), Live(o.id),
         "done" \in o.dirty \/ table[o.id].done = o.done,
         "processing" \in o.dirty \/ table[o.id].processing = o.processing,
         "errors" \in o.dirty \/ table[o.id].errors = o.errors
  PROVE  /\ table'[o.id].done = o.done
         /\ table'[o.id].processing = o.processing
         /\ table'[o.id].errors = o.errors
         /\ obj'[w].id = o.id
         /\ obj'[w].done = o.done
         /\ obj'[w].processing = o.processing
         /\ obj'[w].errors = o.errors
         /\ obj'[w].dirty = {}
<1>1. TypeOK
  BY DEF TypeInv
<1>2. /\ table'[o.id] = Written(table[o.id], o)
      /\ obj' = [obj EXCEPT ![w] = [o EXCEPT !.dirty = {}]]
  BY <1>1, SaveEffect
<1>3. table[o.id] \in RowType
  BY <1>1 DEF TypeOK, ObjType
<1>4. obj'[w] = [o EXCEPT !.dirty = {}]
  BY <1>1, <1>2 DEF TypeOK
<1>5. /\ Written(table[o.id], o).done = o.done
      /\ Written(table[o.id], o).processing = o.processing
      /\ Written(table[o.id], o).errors = o.errors
  BY <1>3 DEF Written, RowType
<1> QED
  BY <1>2, <1>4, <1>5 DEF ObjType

(* What every save of processNotification leaves alone.                    *)
Elsewhere(w) ==
  /\ \A id \in Ids : id # obj[w].id => table'[id] = table[id]
  /\ \A id \in Ids : /\ table'[id].state = table[id].state
                      /\ table'[id].item = table[id].item
                      /\ table'[id].age = table[id].age
  /\ \A v \in Workers : v # w => obj'[v] = obj[v]

Synchronised(o) == o.dirty = Columns \/ Agrees(o)

(* With an object that shows its row, a save makes the row and the object *)
(* what it means to, and leaves the others alone.                         *)
LEMMA SoleUpdate ==
  ASSUME TypeInv, NEW w \in Workers, pc[w] \in Busy,
         Live(obj[w].id), Synchronised(obj[w]),
         NEW p \in BOOLEAN, NEW d \in BOOLEAN, UpdateNotification(w, p, d)
  PROVE  /\ Elsewhere(w)
         /\ table'[obj[w].id].done = (obj[w].done \/ d)
         /\ table'[obj[w].id].processing = p
         /\ table'[obj[w].id].errors = obj[w].errors
         /\ obj'[w].id = obj[w].id
         /\ obj'[w].done = (obj[w].done \/ d)
         /\ obj'[w].processing = p
         /\ obj'[w].errors = obj[w].errors
         /\ obj'[w].dirty = {}
<1> DEFINE o == Assign(obj[w], obj[w].done \/ d, p, obj[w].errors)
<1>1. obj[w] \in ObjType /\ TypeOK
  BY DEF TypeInv, HoldsObject
<1>2. o \in ObjType
  <2>1. obj[w].done \in BOOLEAN /\ obj[w].errors \in 0..ErrorCap
    BY <1>1 DEF ObjType
  <2> QED BY <1>1, <2>1, AssignType
<1>3. Save(w, o)
  BY DEF UpdateNotification
<1>4. /\ o.id = obj[w].id /\ o.done = (obj[w].done \/ d)
      /\ o.processing = p /\ o.errors = obj[w].errors
  BY DEF Assign
<1>5. /\ "done" \in o.dirty \/ table[o.id].done = o.done
      /\ "processing" \in o.dirty \/ table[o.id].processing = o.processing
      /\ "errors" \in o.dirty \/ table[o.id].errors = o.errors
  BY DEF Assign, Changed, Synchronised, Agrees, Columns
<1> HIDE DEF o
<1>6. Live(o.id)
  BY <1>4
<1>7. /\ table'[o.id].done = o.done
      /\ table'[o.id].processing = o.processing
      /\ table'[o.id].errors = o.errors
      /\ obj'[w].id = o.id
      /\ obj'[w].done = o.done
      /\ obj'[w].processing = o.processing
      /\ obj'[w].errors = o.errors
      /\ obj'[w].dirty = {}
  BY <1>2, <1>3, <1>5, <1>6, WriteThrough
<1>8. Elsewhere(w)
  <2>1. /\ \A id \in Ids : id # o.id => table'[id] = table[id]
        /\ \A id \in Ids : /\ table'[id].state = table[id].state
                            /\ table'[id].item = table[id].item
                            /\ table'[id].age = table[id].age
        /\ obj' = [obj EXCEPT ![w] = [o EXCEPT !.dirty = {}]]
    BY <1>1, <1>2, <1>3, SaveEffect
  <2> QED
    BY <1>1, <1>4, <2>1 DEF Elsewhere, TypeOK
<1> QED
  BY <1>4, <1>7, <1>8

(* An error counted on such an object is counted in its row, which is     *)
(* done when the limit is reached.                                        *)
LEMMA SoleError ==
  ASSUME TypeInv, NEW w \in Workers, pc[w] \in Busy, Agrees(obj[w]),
         obj[w].errors < MaxErrors, SetNotificationError(w)
  PROVE  /\ Elsewhere(w)
         /\ ~Live(obj[w].id) => table' = table
         /\ Live(obj[w].id) =>
              /\ table'[obj[w].id].done =
                   (obj[w].done \/ obj[w].errors + 1 = MaxErrors)
              /\ table'[obj[w].id].processing = obj[w].processing
              /\ table'[obj[w].id].errors = obj[w].errors + 1
<1> DEFINE e == obj[w].errors + 1
           a == Assign(obj[w], obj[w].done \/ e = MaxErrors, obj[w].processing, e)
           o == [a EXCEPT !.dirty = @ \cup {"errors"}]
<1>1. obj[w] \in ObjType /\ TypeOK
  BY DEF TypeInv, HoldsObject
<1>2. /\ obj[w].done \in BOOLEAN
      /\ obj[w].processing \in BOOLEAN
      /\ obj[w].errors \in Nat
      /\ e \in 0..ErrorCap
  BY <1>1, BoundsAreNumbers DEF ObjType
<1>3. o \in ObjType
  <2>1. a \in ObjType
    <3> HIDE DEF e
    <3> QED BY <1>1, <1>2, AssignType
  <2> HIDE DEF a
  <2> QED BY <2>1, CountType
<1>4. Save(w, o)
  <2>1. (IF obj[w].errors < ErrorCap THEN obj[w].errors + 1 ELSE obj[w].errors) = e
    BY <1>2, BoundsAreNumbers
  <2> HIDE DEF e
  <2> QED
    BY <2>1 DEF SetNotificationError
<1>5. /\ o.id = obj[w].id /\ o.done = (obj[w].done \/ e = MaxErrors)
      /\ o.processing = obj[w].processing /\ o.errors = e
  BY DEF Assign
<1>6. /\ "done" \in o.dirty \/ table[o.id].done = o.done
      /\ "processing" \in o.dirty \/ table[o.id].processing = o.processing
      /\ "errors" \in o.dirty \/ table[o.id].errors = o.errors
  BY <1>2 DEF Assign, Changed, Agrees
<1> HIDE DEF o
<1>7. Live(o.id) => /\ table'[o.id].done = o.done
                    /\ table'[o.id].processing = o.processing
                    /\ table'[o.id].errors = o.errors
  BY <1>3, <1>4, <1>6, WriteThrough
<1>8. /\ \A id \in Ids : id # o.id => table'[id] = table[id]
      /\ \A id \in Ids : /\ table'[id].state = table[id].state
                          /\ table'[id].item = table[id].item
                          /\ table'[id].age = table[id].age
      /\ ~Live(o.id) => table' = table
      /\ obj' = [obj EXCEPT ![w] = [o EXCEPT !.dirty = {}]]
  BY <1>1, <1>3, <1>4, SaveEffect
<1>9. Elsewhere(w)
  BY <1>1, <1>5, <1>8 DEF Elsewhere, TypeOK
<1> QED
  BY <1>5, <1>7, <1>8, <1>9

(* The initial states satisfy the core of the invariant. *)
LEMMA SoleInit == Init => SoleCore
BY BoundsAreNumbers
   DEF Init, SoleCore, OthersIdle, BatchInv, ObjInv, RowInv, DoomedInv, FreeRow, InHand,
       Workers

(* Steps that change no row in use but its age, and no worker.             *)
LEMMA WorkersUndisturbed ==
  ASSUME TypeInv, SoleCore, UNCHANGED <<applied, pc, obj, batch, msg, queue>>,
         \A id \in Ids : table[id].state # "free" =>
            /\ table'[id].done = table[id].done
            /\ table'[id].processing = table[id].processing
            /\ table'[id].errors = table[id].errors
            /\ table'[id].state # "free"
            /\ ~table[id].done => table'[id].state = table[id].state
  PROVE  OthersIdle' /\ BatchInv' /\ ObjInv'
<1> USE DEF SoleCore
<1>1. OthersIdle'
  BY DEF OthersIdle
<1>2. \A w \in Workers : obj[w] # NoObj => obj[w].id \in Ids
  BY DEF TypeInv, TypeOK, ObjType
<1>3. \A w \in Workers : \A o \in batch[w] : o.id \in Ids
  BY DEF TypeInv, TypeOK, ObjType
<1>4. \A o : o.id \in Ids /\ Waiting(o) => Waiting(o)'
  BY DEF Waiting, Live
<1>5. \A o : o.id \in Ids /\ Claimed(o) => Claimed(o)'
  BY DEF Claimed, Agrees, Live
<1>6. \A o : o.id \in Ids /\ Erring(o) => Erring(o)'
  BY DEF Erring, Agrees, Live
<1>7. BatchInv'
  BY <1>3, <1>4 DEF BatchInv, InHand, Workers
<1>8. ObjInv'
  <2> SUFFICES ASSUME NEW w \in Runners
               PROVE  /\ pc[w] = "start" => Waiting(obj[w])'
                      /\ pc[w] = "claimed" => Claimed(obj[w])' /\ applied[obj[w].id] = 0
                      /\ pc[w] = "applied" => Claimed(obj[w])' /\ applied[obj[w].id] = 1
                      /\ pc[w] = "erring" => Erring(obj[w])'
    BY DEF ObjInv
  <2>1. pc[w] \in {"start", "claimed", "applied", "erring"} => obj[w].id \in Ids
    BY DEF TypeInv, HoldsObject, Busy, Workers, ObjType
  <2>2. obj'[w] = obj[w]
    OBVIOUS
  <2> QED
    BY <1>4, <1>5, <1>6, <2>1, <2>2 DEF ObjInv, Waiting, Claimed, Erring, Agrees, Live
<1> QED
  BY <1>1, <1>7, <1>8

(* A receiver keeps it: it only fills free rows. *)
LEMMA SoleRequest ==
  ASSUME TypeInv, SoleCore, NEW r \in Receivers, Receiver(r)
  PROVE  SoleCore'
<1>1. UNCHANGED <<applied, pc, obj, batch, msg, queue, doomed>>
  BY DEF Receiver, Post, CheckItem, SaveItem, Refuse, Accept, workerVars
<1>2. \/ table' = table
      \/ \E id \in Ids : /\ table[id].state = "free"
                         /\ table' = [table EXCEPT ![id] =
                              [FreeRow EXCEPT !.state = "live", !.item = checked[r]]]
  BY DEF Receiver, Post, CheckItem, SaveItem, Refuse, Accept
<1>3. \A id \in Ids : \/ table'[id] = table[id]
                      \/ /\ table[id].state = "free"
                         /\ table'[id].state = "live"
                         /\ table'[id].done = FALSE
                         /\ table'[id].processing = FALSE
                         /\ table'[id].errors = 0
  BY <1>2 DEF TypeInv, TypeOK, FreeRow
<1>4. OthersIdle' /\ BatchInv' /\ ObjInv'
  BY <1>1, <1>3, WorkersUndisturbed
<1>5. RowInv'
  BY <1>1, <1>3, BoundsAreNumbers DEF SoleCore, RowInv
<1>6. DoomedInv'
  <2>1. \A id \in doomed : table[id].done /\ table[id].state # "free"
    BY DEF SoleCore, DoomedInv, RowInv, TypeInv, TypeOK
  <2> QED
    BY <1>1, <1>3, <2>1 DEF SoleCore, DoomedInv, TypeInv, TypeOK
<1> QED
  BY <1>4, <1>5, <1>6 DEF SoleCore

(* The passing of time keeps it. *)
LEMMA SoleTick ==
  ASSUME TypeInv, SoleCore, Tick
  PROVE  SoleCore'
<1>1. UNCHANGED <<applied, pc, obj, batch, msg, queue, doomed>>
  BY DEF Tick, workerVars
<1>2. \A id \in Ids : /\ table'[id].done = table[id].done
                      /\ table'[id].processing = table[id].processing
                      /\ table'[id].errors = table[id].errors
                      /\ table'[id].state = table[id].state
  BY DEF Tick, TypeInv, TypeOK, RowType
<1>3. OthersIdle' /\ BatchInv' /\ ObjInv'
  BY <1>1, <1>2, WorkersUndisturbed
<1>4. RowInv' /\ DoomedInv'
  BY <1>1, <1>2 DEF SoleCore, RowInv, DoomedInv, TypeInv, TypeOK
<1> QED
  BY <1>3, <1>4 DEF SoleCore

(* The cleanup keeps it: the rows it removes are done. *)
LEMMA SoleCleanup ==
  ASSUME TypeInv, SoleCore, Cleanup
  PROVE  SoleCore'
<1>1. UNCHANGED <<applied, pc, obj, batch, msg, queue>>
  BY DEF Cleanup, SelectProcessed, DeleteSelected, workerVars
<1>2. CASE SelectProcessed
  <2>1. table' = table
    BY <1>2 DEF SelectProcessed
  <2>2. DoomedInv'
    BY <1>2 DEF SelectProcessed, DoomedInv, Removable
  <2>3. OthersIdle' /\ BatchInv' /\ ObjInv'
    BY <1>1, <2>1, WorkersUndisturbed
  <2>4. RowInv'
    BY <1>1, <2>1 DEF SoleCore, RowInv
  <2> QED
    BY <2>2, <2>3, <2>4 DEF SoleCore
<1>3. CASE DeleteSelected
  <2>1. \A id \in Ids : /\ table'[id].done = table[id].done
                        /\ table'[id].processing = table[id].processing
                        /\ table'[id].errors = table[id].errors
                        /\ table'[id].state =
                             IF id \in doomed THEN "removed" ELSE table[id].state
    BY <1>3 DEF DeleteSelected, TypeInv, TypeOK, RowType
  <2>2. \A id \in doomed : table[id].done
    BY DEF SoleCore, DoomedInv
  <2>3. OthersIdle' /\ BatchInv' /\ ObjInv'
    BY <1>1, <2>1, <2>2, WorkersUndisturbed
  <2>4. RowInv'
    BY <1>1, <2>1, <2>2 DEF SoleCore, RowInv
  <2>5. DoomedInv'
    BY <1>3 DEF DeleteSelected, DoomedInv
  <2> QED
    BY <2>3, <2>4, <2>5 DEF SoleCore
<1> QED
  BY <1>2, <1>3 DEF Cleanup

(* A runner that dies keeps it: its batch and its object are gone. *)
LEMMA SoleCrash ==
  ASSUME TypeInv, SoleCore, NEW w \in Workers, Crash(w)
  PROVE  SoleCore'
<1>1. w \in Runners /\ UNCHANGED <<table, applied, queue, doomed>>
  BY DEF Crash, SoleCore, OthersIdle
<1>2. /\ pc' = [pc EXCEPT ![w] = "idle"]
      /\ batch' = [batch EXCEPT ![w] = {}]
      /\ obj' = [obj EXCEPT ![w] = NoObj]
      /\ msg' = [msg EXCEPT ![w] = NoObj]
  BY DEF Crash
<1>3. OthersIdle'
  BY <1>1, <1>2 DEF SoleCore, OthersIdle, TypeInv, TypeOK
<1>4. BatchInv'
  BY <1>1, <1>2 DEF SoleCore, BatchInv, InHand, Waiting, Live, TypeInv, TypeOK, Workers
<1>5. ObjInv'
  BY <1>1, <1>2
     DEF SoleCore, ObjInv, Waiting, Claimed, Erring, Agrees, Live, TypeInv, TypeOK, Workers
<1>6. RowInv' /\ DoomedInv'
  BY <1>1 DEF SoleCore, RowInv, DoomedInv
<1> QED
  BY <1>3, <1>4, <1>5, <1>6 DEF SoleCore

(* What there being one runner means. *)
LEMMA OnlyRunner ==
  ASSUME OneRunner, NEW w \in Runners
  PROVE  /\ \A v \in Runners : v = w
         /\ w \in Workers
         /\ QueueMode = FALSE /\ Admins = {}
BY DEF OneRunner, Workers

(* The steps of the loop: only the batch and the object in hand change.    *)
LEMMA SoleLoop ==
  ASSUME TypeInv, SoleCore, OneRunner, NEW w \in Runners, Runner(w)
  PROVE  SoleCore'
<1>0. /\ \A v \in Runners : v = w
      /\ w \in Workers
      /\ QueueMode = FALSE /\ Admins = {}
  BY OnlyRunner
<1>1. TypeOK /\ OthersIdle /\ BatchInv /\ ObjInv /\ RowInv /\ DoomedInv
  BY DEF SoleCore, TypeInv
<1>2. ASSUME UNCHANGED <<table, applied, msg, queue, doomed>>
      PROVE  RowInv' /\ DoomedInv'
  BY <1>1, <1>2 DEF RowInv, DoomedInv
<1>3. ASSUME NEW p \in {"idle", "loop", "start"}, pc' = [pc EXCEPT ![w] = p],
             UNCHANGED <<msg, queue>>
      PROVE  OthersIdle'
  BY <1>0, <1>1, <1>3 DEF OthersIdle, TypeOK
<1>4. CASE StartRun(w)
  <2>1. /\ UNCHANGED <<table, applied, msg, queue, doomed>>
        /\ pc' = [pc EXCEPT ![w] = "loop"]
        /\ batch' = [batch EXCEPT ![w] = {Snapshot(id) : id \in {i \in Ids : Eligible(i)}}]
    BY <1>4 DEF StartRun, requestVars
  <2>2. pc'[w] = "loop" /\ batch'[w] = {Snapshot(id) : id \in {i \in Ids : Eligible(i)}}
    BY <1>0, <1>1, <2>1 DEF TypeOK
  <2>3. \A id \in Ids : Eligible(id) => Waiting(Snapshot(id))
    <3> SUFFICES ASSUME NEW id \in Ids, Eligible(id)
                 PROVE  Waiting(Snapshot(id))
      OBVIOUS
    <3>1. /\ Live(id) /\ table[id].done = FALSE /\ table[id].processing = FALSE
          /\ table[id].errors < MaxErrors
      BY <1>1 DEF Eligible, TypeOK, RowType
    <3>2. applied[id] = 0
      BY <1>1, <3>1 DEF RowInv, TypeOK
    <3> QED
      BY <3>1, <3>2 DEF Waiting, Snapshot
  <2>4. \A o : Waiting(o) => Waiting(o)'
    BY <2>1 DEF Waiting, Live
  <2>5. BatchInv'
    BY <1>0, <2>2, <2>3, <2>4 DEF BatchInv, InHand
  <2>6. ObjInv'
    BY <1>0, <2>2 DEF ObjInv
  <2> QED
    BY <1>2, <1>3, <2>1, <2>5, <2>6 DEF SoleCore
<1>5. CASE SkipDuplicate(w) \/ SkipDelayed(w)
  <2>1. /\ UNCHANGED <<table, applied, msg, queue, doomed, pc, obj>>
        /\ \E o \in batch[w] : batch' = [batch EXCEPT ![w] = @ \ {o}]
    BY <1>5 DEF SkipDuplicate, SkipDelayed, LeaveLoop, requestVars
  <2>2. batch'[w] \subseteq batch[w]
    BY <1>0, <1>1, <2>1 DEF TypeOK
  <2>3. \A o : Waiting(o) => Waiting(o)'
    BY <2>1 DEF Waiting, Live
  <2>4. BatchInv'
    BY <1>0, <1>1, <2>1, <2>2, <2>3 DEF BatchInv, InHand
  <2>5. ObjInv'
    BY <1>1, <2>1 DEF ObjInv, Waiting, Claimed, Erring, Agrees, Live
  <2>6. OthersIdle'
    BY <1>1, <2>1 DEF OthersIdle
  <2> QED
    BY <1>2, <2>1, <2>4, <2>5, <2>6 DEF SoleCore
<1>6. CASE Take(w)
  <2>1. PICK o \in batch[w] :
          /\ batch' = [batch EXCEPT ![w] = @ \ {o}]
          /\ obj' = [obj EXCEPT ![w] = o]
    BY <1>6 DEF Take, LeaveLoop
  <2>2. /\ UNCHANGED <<table, applied, msg, queue, doomed>>
        /\ pc' = [pc EXCEPT ![w] = "start"]
    BY <1>0, <1>6 DEF Take, requestVars
  <2>3. pc'[w] = "start" /\ batch'[w] = batch[w] \ {o} /\ obj'[w] = o
    BY <1>0, <1>1, <2>1, <2>2 DEF TypeOK
  <2>4. \A p : Waiting(p) => Waiting(p)'
    BY <2>2 DEF Waiting, Live
  <2>5. \A p \in batch[w] : p.id = o.id => p = o
    <3> SUFFICES ASSUME NEW p \in batch[w], p.id = o.id
                 PROVE  p = o
      OBVIOUS
    <3>1. p \in ObjType /\ o \in ObjType
      BY <1>0, <1>1 DEF TypeOK
    <3>2. Waiting(p) /\ Waiting(o)
      BY <1>1 DEF BatchInv
    <3>3. /\ p.done = o.done /\ p.processing = o.processing
          /\ p.errors = o.errors /\ p.dirty = o.dirty
      BY <3>2 DEF Waiting
    <3> QED
      BY <3>1, <3>3 DEF ObjType
  <2>6. BatchInv'
    BY <1>0, <1>1, <2>3, <2>4, <2>5 DEF BatchInv, InHand
  <2>7. ObjInv'
    BY <1>0, <1>1, <2>3, <2>4 DEF ObjInv, BatchInv
  <2> QED
    BY <1>2, <1>3, <2>2, <2>6, <2>7 DEF SoleCore
<1>7. CASE EndRun(w)
  <2>1. /\ UNCHANGED <<table, applied, msg, queue, doomed, obj, batch>>
        /\ pc' = [pc EXCEPT ![w] = "idle"]
        /\ batch[w] = {}
    BY <1>7 DEF EndRun, requestVars
  <2>2. pc'[w] = "idle"
    BY <1>0, <1>1, <2>1 DEF TypeOK
  <2>3. BatchInv'
    BY <1>0, <2>1 DEF BatchInv
  <2>4. ObjInv'
    BY <1>0, <2>2 DEF ObjInv
  <2> QED
    BY <1>2, <1>3, <2>1, <2>3, <2>4 DEF SoleCore
<1>8. ~MarkQueued(w) /\ ~Publish(w)
  BY <1>1 DEF OthersIdle, MarkQueued, Publish
<1> QED
  BY <1>4, <1>5, <1>6, <1>7, <1>8 DEF Runner

(* A step that changes the row in hand and nothing of another row.         *)
LEMMA HandStep ==
  ASSUME TypeInv, SoleCore, OneRunner, NEW w \in Runners, InHand(w), Elsewhere(w),
         UNCHANGED <<batch, msg, queue, doomed>>,
         NEW p \in {"loop", "claimed", "applied", "erring", "done"},
         pc' = [pc EXCEPT ![w] = p],
         InHand(w)' => obj'[w].id = obj[w].id,
         \A id \in Ids : id # obj[w].id => applied'[id] = applied[id],
         NEW x \in Ids, x = obj[w].id,
         table'[x].errors <= MaxErrors,
         table'[x].errors = MaxErrors => table'[x].done,
         applied'[x] <= 1,
         applied'[x] > 0 => table'[x].done \/ table'[x].processing,
         table'[x].state # "free",
         x \in doomed => table'[x].done /\ ~table'[x].processing
  PROVE  OthersIdle' /\ BatchInv' /\ RowInv' /\ DoomedInv'
<1>0. (\A v \in Runners : v = w) /\ w \in Workers
  BY OnlyRunner
<1>1. TypeOK /\ OthersIdle /\ BatchInv /\ ObjInv /\ RowInv /\ DoomedInv
  BY DEF SoleCore, TypeInv
<1>2. OthersIdle'
  BY <1>0, <1>1 DEF OthersIdle, TypeOK
<1>3. \A id \in Ids : id # x => table'[id] = table[id] /\ applied'[id] = applied[id]
  BY DEF Elsewhere
<1>4. BatchInv'
  <2> SUFFICES ASSUME NEW o \in batch[w]
               PROVE  Waiting(o)' /\ (InHand(w)' => obj'[w].id # o.id)
    BY <1>0 DEF BatchInv
  <2>1. o.id \in Ids /\ o.id # x /\ Waiting(o)
    BY <1>0, <1>1 DEF BatchInv, TypeOK, ObjType
  <2> QED
    BY <1>3, <2>1 DEF Waiting, Live
<1>5. RowInv'
  BY <1>1, <1>3 DEF RowInv
<1>6. DoomedInv'
  BY <1>1, <1>3 DEF DoomedInv, TypeOK
<1> QED
  BY <1>2, <1>4, <1>5, <1>6

(* The steps of processNotification, one by one.                           *)
LEMMA SoleProcessing ==
  ASSUME TypeInv, SoleCore, OneRunner, NEW w \in Workers, ProcessNotification(w)
  PROVE  SoleCore'
<1>0. w \in Runners /\ \A v \in Runners : v = w
  <2>1. pc[w] # "idle"
    BY DEF ProcessNotification, RejectUnidentified, Claim, GiveUp, LeaveForRetry,
           LeaveUnhandled, Apply, MarkDone, RecordError, Finish
  <2>2. w \in Runners
    BY <2>1 DEF SoleCore, OthersIdle
  <2> QED
    BY <2>2, OnlyRunner
<1>1. TypeOK /\ OthersIdle /\ BatchInv /\ ObjInv /\ RowInv /\ DoomedInv
  BY DEF SoleCore, TypeInv
<1>2. CASE Finish(w)
  <2>1. /\ pc' = [pc EXCEPT ![w] = "loop"]
        /\ UNCHANGED <<table, applied, batch, msg, queue, doomed>>
    BY <1>0, <1>2 DEF Finish, Return, requestVars
  <2>2. pc'[w] = "loop"
    BY <1>1, <2>1 DEF TypeOK
  <2>3. OthersIdle'
    BY <1>0, <1>1, <2>1 DEF OthersIdle, TypeOK
  <2>4. \A o : Waiting(o) => Waiting(o)'
    BY <2>1 DEF Waiting, Live
  <2>5. BatchInv'
    BY <1>0, <1>1, <2>1, <2>2, <2>4 DEF BatchInv, InHand
  <2>6. ObjInv'
    BY <1>0, <2>2 DEF ObjInv
  <2>7. RowInv' /\ DoomedInv'
    BY <1>1, <2>1 DEF RowInv, DoomedInv
  <2> QED
    BY <2>3, <2>5, <2>6, <2>7 DEF SoleCore
<1>3. CASE ~Finish(w)
  <2>1. /\ InHand(w) /\ pc[w] \in Busy
        /\ UNCHANGED <<batch, msg, queue, doomed>>
    BY <1>3 DEF ProcessNotification, RejectUnidentified, Claim, GiveUp, LeaveForRetry,
                LeaveUnhandled, Apply, MarkDone, RecordError, InHand, Busy, requestVars
  <2>0. obj[w] \in ObjType
    BY <2>1 DEF TypeInv, HoldsObject
  <2>2. PICK x \in Ids : x = obj[w].id
    BY <2>0 DEF ObjType
  <2>3. /\ table[x] \in RowType /\ applied[x] \in 0..2
        /\ obj[w].done \in BOOLEAN /\ obj[w].processing \in BOOLEAN
        /\ obj[w].errors \in Nat
    BY <1>1, <2>0, <2>2 DEF TypeOK, ObjType
  <2>4. \A p : pc' = [pc EXCEPT ![w] = p] => pc'[w] = p
    BY <1>1 DEF TypeOK
  <2>5. x \in doomed => table[x].done /\ ~table[x].processing
    BY <1>1 DEF DoomedInv
  <2>6. ObjInv' <=>
           /\ pc'[w] = "start" => Waiting(obj[w])'
           /\ pc'[w] = "claimed" => Claimed(obj[w])' /\ applied'[obj'[w].id] = 0
           /\ pc'[w] = "applied" => Claimed(obj[w])' /\ applied'[obj'[w].id] = 1
           /\ pc'[w] = "erring" => Erring(obj[w])'
    BY <1>0 DEF ObjInv
  <2>7. CASE RejectUnidentified(w)
    <3>1. Waiting(obj[w]) /\ Live(x) /\ Synchronised(obj[w])
      BY <1>0, <1>1, <2>2, <2>7 DEF ObjInv, RejectUnidentified, Waiting, Synchronised
    <3>2. /\ UpdateNotification(w, FALSE, TRUE)
          /\ pc' = [pc EXCEPT ![w] = "erring"] /\ applied' = applied
      BY <2>2, <2>7 DEF RejectUnidentified
    <3>3. /\ Elsewhere(w)
          /\ table'[x].done = TRUE /\ table'[x].processing = FALSE
          /\ table'[x].errors = obj[w].errors
          /\ obj'[w].id = x /\ obj'[w].done = TRUE /\ obj'[w].processing = FALSE
          /\ obj'[w].errors = obj[w].errors /\ obj'[w].dirty = {}
      BY <2>1, <2>2, <3>1, <3>2, SoleUpdate
    <3>4. /\ table'[x].state = "live" /\ obj[w].errors < MaxErrors
          /\ applied[x] = 0 /\ table[x].done = FALSE
      BY <2>2, <3>1, <3>3 DEF Waiting, Live, Elsewhere
    <3>5. Erring(obj[w])'
      BY <2>2, <3>2, <3>3, <3>4 DEF Erring, Agrees
    <3>6. ObjInv'
      BY <2>2, <2>4, <2>6, <3>2, <3>5
    <3>7. OthersIdle' /\ BatchInv' /\ RowInv' /\ DoomedInv'
      <4>1. /\ table'[x].errors <= MaxErrors
            /\ table'[x].errors # MaxErrors
            /\ applied'[x] <= 1 /\ ~(applied'[x] > 0)
        BY <2>2, <2>3, <3>2, <3>3, <3>4, BoundsAreNumbers
      <4> QED
        BY <1>0, <2>1, <2>2, <2>5, <3>2, <3>3, <3>4, <4>1, HandStep
    <3> QED
      BY <2>2, <3>6, <3>7 DEF SoleCore
  <2>8. CASE Claim(w)
    <3>1. Waiting(obj[w]) /\ Live(x) /\ Synchronised(obj[w])
      BY <1>0, <1>1, <2>2, <2>8 DEF ObjInv, Claim, Waiting, Synchronised
    <3>2. /\ UpdateNotification(w, TRUE, FALSE)
          /\ pc' = [pc EXCEPT ![w] = "claimed"] /\ applied' = applied
      BY <2>2, <2>8 DEF Claim
    <3>3. /\ Elsewhere(w)
          /\ table'[x].done = obj[w].done /\ table'[x].processing = TRUE
          /\ table'[x].errors = obj[w].errors
          /\ obj'[w].id = x /\ obj'[w].done = obj[w].done /\ obj'[w].processing = TRUE
          /\ obj'[w].errors = obj[w].errors /\ obj'[w].dirty = {}
      BY <2>1, <2>2, <2>3, <3>1, <3>2, SoleUpdate
    <3>4. /\ table'[x].state = "live" /\ obj[w].errors < MaxErrors
          /\ applied[x] = 0 /\ table[x].done = FALSE /\ obj[w].done = FALSE
      BY <2>2, <3>1, <3>3 DEF Waiting, Live, Elsewhere
    <3>5. Claimed(obj[w])' /\ applied'[obj'[w].id] = 0
      BY <2>2, <3>2, <3>3, <3>4 DEF Claimed, Agrees, Live
    <3>6. ObjInv'
      BY <2>2, <2>4, <2>6, <3>2, <3>5
    <3>7. OthersIdle' /\ BatchInv' /\ RowInv' /\ DoomedInv'
      <4>1. /\ table'[x].errors <= MaxErrors
            /\ table'[x].errors # MaxErrors
            /\ applied'[x] <= 1 /\ ~(applied'[x] > 0)
        BY <2>2, <2>3, <3>2, <3>3, <3>4, BoundsAreNumbers
      <4> QED
        BY <1>0, <2>1, <2>2, <2>5, <3>2, <3>3, <3>4, <4>1, HandStep
    <3> QED
      BY <2>2, <3>6, <3>7 DEF SoleCore
  <2>9. CASE GiveUp(w) \/ LeaveForRetry(w)
    <3>1. Claimed(obj[w]) /\ Live(x) /\ Synchronised(obj[w]) /\ applied[x] = 0
      BY <1>0, <1>1, <2>2, <2>9 DEF ObjInv, GiveUp, LeaveForRetry, Claimed, Synchronised
    <3>2. PICK d \in BOOLEAN : UpdateNotification(w, FALSE, d)
      BY <2>2, <2>9 DEF GiveUp, LeaveForRetry
    <3>3. pc' = [pc EXCEPT ![w] = "erring"] /\ applied' = applied
      BY <2>2, <2>9 DEF GiveUp, LeaveForRetry
    <3>4. /\ Elsewhere(w)
          /\ table'[x].done = (obj[w].done \/ d) /\ table'[x].processing = FALSE
          /\ table'[x].errors = obj[w].errors
          /\ obj'[w].id = x /\ obj'[w].done = (obj[w].done \/ d)
          /\ obj'[w].processing = FALSE
          /\ obj'[w].errors = obj[w].errors /\ obj'[w].dirty = {}
      BY <2>1, <2>2, <3>1, <3>2, SoleUpdate
    <3>5. /\ table'[x].state = "live" /\ obj[w].errors < MaxErrors
          /\ table[x].done = FALSE
      BY <2>2, <3>1, <3>4 DEF Claimed, Agrees, Live, Elsewhere
    <3>6. table'[x].state # "free" /\ Live(x)' /\ ~(applied'[x] > 0)
      BY <3>1, <3>3, <3>5 DEF Live
    <3>7. Erring(obj[w])'
      BY <2>2, <3>4, <3>5, <3>6 DEF Erring, Agrees
    <3>8. ObjInv'
      BY <2>2, <2>4, <2>6, <3>3, <3>7
    <3>9. OthersIdle' /\ BatchInv' /\ RowInv' /\ DoomedInv'
      <4>1. /\ table'[x].errors <= MaxErrors
            /\ table'[x].errors # MaxErrors
            /\ applied'[x] <= 1 /\ ~(applied'[x] > 0)
        BY <2>2, <2>3, <3>1, <3>3, <3>4, <3>5, BoundsAreNumbers
      <4> QED
        BY <1>0, <2>1, <2>2, <2>5, <3>3, <3>4, <3>5, <4>1, HandStep
    <3> QED
      BY <2>2, <3>8, <3>9 DEF SoleCore
  <2>10. CASE LeaveUnhandled(w)
    <3>1. Claimed(obj[w]) /\ applied[x] = 0
      BY <1>0, <1>1, <2>2, <2>10 DEF ObjInv, LeaveUnhandled
    <3>2. /\ obj' = [obj EXCEPT ![w] = NoObj] /\ table' = table /\ applied' = applied
          /\ pc' = [pc EXCEPT ![w] = "loop"]
      BY <1>0, <2>2, <2>10 DEF LeaveUnhandled, Return
    <3>3. Elsewhere(w)
      BY <1>1, <2>2, <3>2 DEF Elsewhere, TypeOK
    <3>4. ObjInv'
      BY <2>2, <2>4, <2>6, <3>2
    <3>5. ~InHand(w)'
      BY <2>2, <2>4, <3>2 DEF InHand
    <3>6. OthersIdle' /\ BatchInv' /\ RowInv' /\ DoomedInv'
      <4>1. table[x].state = "live"
        BY <2>2, <3>1 DEF Claimed, Live
      <4>2. /\ table'[x].errors <= MaxErrors
            /\ table'[x].errors = MaxErrors => table'[x].done
            /\ applied'[x] <= 1 /\ ~(applied'[x] > 0)
            /\ table'[x].state # "free"
            /\ x \in doomed => table'[x].done /\ ~table'[x].processing
        BY <1>1, <2>2, <2>5, <3>1, <3>2, <4>1 DEF RowInv
      <4> QED
        BY <1>0, <2>1, <2>2, <3>2, <3>3, <3>5, <4>2, HandStep
    <3> QED
      BY <2>2, <3>4, <3>6 DEF SoleCore
  <2>11. CASE Apply(w)
    <3>1. Claimed(obj[w]) /\ applied[x] = 0
      BY <1>0, <1>1, <2>2, <2>11 DEF ObjInv, Apply
    <3>2. /\ obj' = obj /\ table' = table
          /\ applied' = [applied EXCEPT ![x] = IF @ = 0 THEN 1 ELSE 2]
          /\ pc' = [pc EXCEPT ![w] = "applied"]
      BY <2>2, <2>11 DEF Apply
    <3>3. Elsewhere(w)
      BY <2>2, <3>2 DEF Elsewhere
    <3>4. applied'[x] = 1 /\ \A id \in Ids : id # x => applied'[id] = applied[id]
      BY <1>1, <2>2, <3>1, <3>2 DEF TypeOK
    <3>5. Claimed(obj[w])'
      BY <2>2, <3>1, <3>2 DEF Claimed, Agrees, Live
    <3>6. ObjInv'
      BY <2>2, <2>4, <2>6, <3>2, <3>4, <3>5
    <3>7. OthersIdle' /\ BatchInv' /\ RowInv' /\ DoomedInv'
      <4>1. table[x].state = "live" /\ table[x].processing = TRUE
        BY <2>2, <3>1 DEF Claimed, Agrees, Live
      <4>2. /\ table'[x].errors <= MaxErrors
            /\ table'[x].errors = MaxErrors => table'[x].done
            /\ applied'[x] <= 1
            /\ table'[x].processing /\ table'[x].state # "free"
            /\ x \notin doomed
        BY <1>1, <2>2, <2>5, <3>2, <3>4, <4>1 DEF RowInv
      <4> QED
        BY <1>0, <2>1, <2>2, <3>2, <3>3, <3>4, <4>2, HandStep
    <3> QED
      BY <2>2, <3>6, <3>7 DEF SoleCore
  <2>12. CASE MarkDone(w)
    <3>0. PICK n \in {"done", "erring"} : pc' = [pc EXCEPT ![w] = n]
      BY <2>12 DEF MarkDone
    <3>1. Claimed(obj[w]) /\ Live(x) /\ Synchronised(obj[w]) /\ applied[x] = 1
      BY <1>0, <1>1, <2>2, <2>12 DEF ObjInv, MarkDone, Claimed, Synchronised
    <3>2. /\ UpdateNotification(w, FALSE, TRUE)
          /\ applied' = applied
      BY <2>2, <2>12 DEF MarkDone
    <3>3. /\ Elsewhere(w)
          /\ table'[x].done = TRUE /\ table'[x].processing = FALSE
          /\ table'[x].errors = obj[w].errors
          /\ obj'[w].id = x /\ obj'[w].done = TRUE /\ obj'[w].processing = FALSE
          /\ obj'[w].errors = obj[w].errors /\ obj'[w].dirty = {}
      BY <2>1, <2>2, <3>1, <3>2, SoleUpdate
    <3>4. table'[x].state = "live" /\ obj[w].errors < MaxErrors
      BY <2>2, <3>1, <3>3 DEF Claimed, Live, Elsewhere
    <3>5. Erring(obj[w])'
      BY <3>3, <3>4 DEF Erring, Agrees
    <3>6. ObjInv'
      BY <2>4, <2>6, <3>0, <3>5
    <3>7. OthersIdle' /\ BatchInv' /\ RowInv' /\ DoomedInv'
      <4>1. /\ table'[x].errors <= MaxErrors
            /\ applied'[x] <= 1
        BY <2>2, <2>3, <3>1, <3>2, <3>3, <3>4, BoundsAreNumbers
      <4> QED
        BY <1>0, <2>1, <2>2, <3>0, <3>2, <3>3, <3>4, <4>1, HandStep
    <3> QED
      BY <2>2, <3>6, <3>7 DEF SoleCore
  <2>13. CASE RecordError(w)
    <3>1. Erring(obj[w])
      BY <1>0, <1>1, <2>2, <2>13 DEF ObjInv, RecordError
    <3>2. /\ SetNotificationError(w)
          /\ pc' = [pc EXCEPT ![w] = "done"] /\ applied' = applied
      BY <2>2, <2>13 DEF RecordError
    <3>3. /\ Agrees(obj[w]) /\ obj[w].errors < MaxErrors /\ obj[w].processing = FALSE
          /\ table[x].state # "free" /\ (applied[x] > 0 => obj[w].done)
          /\ applied[x] <= 1
      BY <1>1, <2>2, <3>1 DEF Erring, RowInv
    <3>4. /\ Elsewhere(w)
          /\ ~Live(x) => table' = table
          /\ Live(x) =>
               /\ table'[x].done = (obj[w].done \/ obj[w].errors + 1 = MaxErrors)
               /\ table'[x].processing = obj[w].processing
               /\ table'[x].errors = obj[w].errors + 1
      BY <2>1, <2>2, <3>2, <3>3, SoleError
    <3>5. ObjInv'
      BY <2>2, <2>4, <2>6, <3>2
    <3>6. ~InHand(w)'
      BY <2>2, <2>4, <3>2 DEF InHand
    <3>7. table[x].done = obj[w].done /\ table'[x].state # "free"
      BY <2>2, <3>3, <3>4 DEF Agrees, Elsewhere
    <3>8. OthersIdle' /\ BatchInv' /\ RowInv' /\ DoomedInv'
      <4>1. /\ table'[x].errors <= MaxErrors
            /\ table'[x].errors = MaxErrors => table'[x].done
            /\ applied'[x] <= 1 /\ (applied'[x] > 0 => table'[x].done)
            /\ x \in doomed => table'[x].done /\ ~table'[x].processing
        <5>1. applied'[x] <= 1 /\ (applied'[x] > 0 => table'[x].done)
          BY <3>2, <3>3, <3>4, <3>7, <2>2
        <5>2. CASE Live(x)
          <6>1. table'[x].errors <= MaxErrors
            BY <2>2, <2>3, <3>3, <3>4, <5>2, BoundsAreNumbers
          <6>2. table'[x].errors = MaxErrors => table'[x].done
            BY <2>2, <3>4, <5>2
          <6>3. x \in doomed => table'[x].done /\ ~table'[x].processing
            BY <2>2, <2>5, <3>3, <3>4, <3>7, <5>2
          <6> QED
            BY <5>1, <6>1, <6>2, <6>3
        <5>3. CASE ~Live(x)
          BY <1>1, <2>2, <2>5, <3>4, <5>1, <5>3 DEF RowInv
        <5> QED
          BY <5>2, <5>3
      <4> QED
        BY <1>0, <2>1, <2>2, <3>2, <3>4, <3>6, <3>7, <4>1, HandStep
    <3> QED
      BY <2>2, <3>5, <3>8 DEF SoleCore
  <2> QED
    BY <1>3, <2>7, <2>8, <2>9, <2>10, <2>11, <2>12, <2>13 DEF ProcessNotification
<1> QED
  BY <1>2, <1>3

(* With one runner, every step keeps the core of the invariant. *)
LEMMA SoleStep ==
  ASSUME TypeInv, SoleCore, OneRunner, [Next]_vars
  PROVE  SoleCore'
<1>1. CASE UNCHANGED vars
  BY <1>1 DEF vars, requestVars, workerVars, SoleCore, OthersIdle, BatchInv, ObjInv,
              RowInv, DoomedInv, InHand, Waiting, Claimed, Erring, Agrees, Live
<1>2. ASSUME NEW w \in Consumers, Consumer(w)
      PROVE  FALSE
  BY <1>2, ProcessesAssumption
     DEF Consumer, Receive, Acknowledge, SoleCore, OthersIdle, Workers
<1>3. ASSUME NEW w \in Admins
      PROVE  FALSE
  BY <1>3 DEF OneRunner
<1> QED
  BY <1>1, <1>2, <1>3, SoleRequest, SoleLoop, SoleProcessing, SoleCrash,
     SoleCleanup, SoleTick
     DEF Next

(* So every state satisfies it. *)
LEMMA SoleInvariant ==
  ASSUME OneRunner
  PROVE  Spec => []SoleInv
<1>1. Init => SoleInv
  BY InitTypeInv, SoleInit DEF SoleInv
<1>2. SoleInv /\ [Next]_vars => SoleInv'
  BY NextKeepsTypes, SoleStep DEF SoleInv
<1> QED
  BY <1>1, <1>2, PTL DEF Spec

(* A row that was tried MAX_ERROR_COUNT times is done, and the count stops *)
(* there (Webhook::setNotificationError), crashes included.                *)
THEOREM ErrorsAreBounded ==
  ASSUME OneRunner
  PROVE  Spec => []ErrorBudget
<1>1. SoleInv => ErrorBudget
  BY DEF SoleInv, SoleCore, RowInv, ErrorBudget
<1> QED
  BY <1>1, SoleInvariant, PTL

(* The changes a row makes to its order are saved at most once, wherever   *)
(* the process is killed.                                                  *)
THEOREM NeverAppliedTwice ==
  ASSUME OneRunner
  PROVE  Spec => []AppliedOnce
<1>1. SoleInv => AppliedOnce
  BY DEF SoleInv, SoleCore, RowInv, AppliedOnce
<1> QED
  BY <1>1, SoleInvariant, PTL

(***************************************************************************)
(* What a step may do to a row                                             *)
(***************************************************************************)

Kept(id) ==
  /\ table'[id].state = table[id].state
  /\ table'[id].done = table[id].done
  /\ table'[id].processing = table[id].processing
  /\ table'[id].errors = table[id].errors

Arrived(id) ==
  /\ table[id].state = "free" /\ table[id].done = FALSE /\ table[id].errors = 0
  /\ table'[id].state = "live" /\ table'[id].errors = 0
  /\ table'[id].done = FALSE /\ table'[id].processing = FALSE
  /\ table'[id].item \in Items

Worked(id) ==
  /\ table[id].state = "live" /\ table'[id].state = "live"
  /\ table[id].errors <= table'[id].errors
  /\ table[id].done =>
       table'[id].done /\ ~table[id].processing /\ ~table'[id].processing

Removed(id) ==
  /\ table[id].done /\ ~table[id].processing
  /\ table[id].state # "free" /\ table'[id].state = "removed"
  /\ table'[id].done = table[id].done
  /\ table'[id].processing = table[id].processing
  /\ table'[id].errors = table[id].errors

RowStep ==
  \/ \A id \in Ids : Kept(id)
  \/ \E x \in Ids : /\ Arrived(x) \/ Worked(x)
                    /\ \A id \in Ids : id # x => Kept(id)
  \/ \A id \in Ids : IF id \in doomed THEN Removed(id) ELSE Kept(id)

(* A step of the processing moves rows as a step of the column does. *)
LEMMA ProcessingRowStep ==
  ASSUME TypeInv, SoleCore, OneRunner, NEW w \in Workers, ProcessNotification(w)
  PROVE  RowStep
<1>1. TypeOK /\ OthersIdle /\ ObjInv
  BY DEF SoleCore, TypeInv
<1>2. CASE table' = table
  BY <1>2 DEF RowStep, Kept
<1>3. CASE table' # table
  <2>1. pc[w] \in {"start", "claimed", "applied", "erring"}
    BY <1>3 DEF ProcessNotification, RejectUnidentified, Claim, GiveUp, LeaveForRetry,
                LeaveUnhandled, Apply, MarkDone, RecordError, Finish
  <2>2. w \in Runners /\ pc[w] \in Busy
    BY <1>1, <2>1 DEF OthersIdle, Busy
  <2>3. PICK x \in Ids : x = obj[w].id
    BY <2>2 DEF TypeInv, HoldsObject, ObjType
  <2>4. table[x].errors \in Nat /\ obj[w].errors \in Nat
    BY <1>1, <2>2, <2>3 DEF TypeOK, RowType, TypeInv, HoldsObject, ObjType
  <2>5. ASSUME Elsewhere(w)
        PROVE  \A id \in Ids : /\ id # x => Kept(id)
                               /\ table'[id].state = table[id].state
    BY <2>3, <2>5 DEF Elsewhere, Kept
  <2>6. CASE pc[w] # "erring"
    <3>1. PICK p \in BOOLEAN, d \in BOOLEAN : UpdateNotification(w, p, d)
      BY <1>3, <2>6 DEF ProcessNotification, RejectUnidentified, Claim, GiveUp,
                        LeaveForRetry, LeaveUnhandled, Apply, MarkDone, RecordError,
                        Finish
    <3>2. /\ Live(x) /\ Synchronised(obj[w]) /\ table[x].done = FALSE
          /\ table[x].errors = obj[w].errors
      BY <1>1, <2>1, <2>2, <2>3, <2>6
         DEF ObjInv, Waiting, Claimed, Agrees, Synchronised
    <3>3. Elsewhere(w) /\ table'[x].errors = obj[w].errors
      BY <2>2, <2>3, <3>1, <3>2, SoleUpdate
    <3>4. Worked(x)
      BY <2>4, <2>5, <3>2, <3>3 DEF Worked, Live
    <3> QED
      BY <2>5, <3>3, <3>4 DEF RowStep
  <2>7. CASE pc[w] = "erring"
    <3>1. SetNotificationError(w)
      BY <2>7 DEF ProcessNotification, RejectUnidentified, Claim, GiveUp, LeaveForRetry,
                  LeaveUnhandled, Apply, MarkDone, RecordError, Finish
    <3>2. Agrees(obj[w]) /\ obj[w].errors < MaxErrors /\ obj[w].processing = FALSE
      BY <1>1, <2>2, <2>7 DEF ObjInv, Erring
    <3>3. /\ Elsewhere(w) /\ Live(x)
          /\ table'[x].done = (obj[w].done \/ obj[w].errors + 1 = MaxErrors)
          /\ table'[x].processing = obj[w].processing
          /\ table'[x].errors = obj[w].errors + 1
      BY <1>3, <2>2, <2>3, <3>1, <3>2, SoleError
    <3>4. /\ table[x].done = obj[w].done /\ table[x].errors = obj[w].errors
          /\ table[x].processing = FALSE
      BY <2>3, <3>2 DEF Agrees
    <3>5. table'[x].state = "live"
      BY <2>5, <3>3 DEF Live
    <3>6. table[x].errors <= table'[x].errors
      BY <2>4, <3>3, <3>4
    <3>7. Worked(x)
      BY <3>2, <3>3, <3>4, <3>5, <3>6 DEF Worked, Live
    <3> QED
      BY <2>5, <3>3, <3>7 DEF RowStep
  <2> QED
    BY <2>6, <2>7
<1> QED
  BY <1>2, <1>3

(* With one runner, every step moves rows so. *)
LEMMA SoleRowStep ==
  ASSUME TypeInv, SoleCore, OneRunner, [Next]_vars
  PROVE  RowStep
<1>1. TypeOK /\ OthersIdle /\ RowInv /\ DoomedInv
  BY DEF SoleCore, TypeInv
<1>2. CASE table' = table
  BY <1>2 DEF RowStep, Kept
<1>3. ASSUME NEW r \in Receivers, Receiver(r), table' # table
      PROVE  RowStep
  <2>1. PICK x \in Ids :
           /\ table[x].state = "free"
           /\ checked[r] \in Items
           /\ table' = [table EXCEPT ![x] =
                          [FreeRow EXCEPT !.state = "live", !.item = checked[r]]]
    BY <1>1, <1>3 DEF Receiver, Post, CheckItem, SaveItem, Refuse, Accept, TypeOK
  <2>2. \A id \in Ids : id # x => Kept(id)
    BY <1>1, <2>1 DEF Kept, TypeOK
  <2>3. Arrived(x)
    <3>1. table[x].done = FALSE /\ table[x].errors = 0
      BY <1>1, <2>1 DEF RowInv, TypeOK, RowType
    <3> QED
      BY <1>1, <2>1, <3>1 DEF Arrived, FreeRow, TypeOK
  <2> QED
    BY <2>2, <2>3 DEF RowStep
<1>4. ASSUME NEW w \in Runners, Runner(w)
      PROVE  table' = table
  BY <1>1, <1>4 DEF Runner, StartRun, SkipDuplicate, SkipDelayed, Take, EndRun, MarkQueued,
                    Publish, OthersIdle
<1>5. ASSUME NEW w \in Consumers, Consumer(w)
      PROVE  table' = table
  BY <1>5 DEF Consumer, Receive, Acknowledge
<1>6. ASSUME NEW w \in Admins, Admin(w)
      PROVE  table' = table
  BY <1>6 DEF Admin, ViewLink, FollowLink
<1>7. ASSUME NEW w \in Workers, Crash(w)
      PROVE  table' = table
  BY <1>7 DEF Crash
<1>8. ASSUME Cleanup, table' # table
      PROVE  RowStep
  <2>1. table' = [id \in Ids |-> IF id \in doomed
                                 THEN [table[id] EXCEPT !.state = "removed"]
                                 ELSE table[id]]
    BY <1>8 DEF Cleanup, SelectProcessed, DeleteSelected
  <2>2. \A id \in Ids : id \notin doomed => Kept(id)
    BY <2>1 DEF Kept
  <2>3. \A id \in Ids : id \in doomed => Removed(id)
    <3> SUFFICES ASSUME NEW id \in Ids, id \in doomed
                 PROVE  Removed(id)
      OBVIOUS
    <3>1. table'[id] = [table[id] EXCEPT !.state = "removed"]
      BY <2>1
    <3>2. table[id] \in RowType /\ table[id].done /\ ~table[id].processing
      BY <1>1 DEF TypeOK, DoomedInv
    <3>3. table[id].state # "free"
      BY <1>1, <3>2 DEF RowInv
    <3> QED
      BY <3>1, <3>2, <3>3 DEF Removed, RowType
  <2> QED
    BY <2>2, <2>3 DEF RowStep
<1>9. ASSUME Tick
      PROVE  RowStep
  <2>1. \A id \in Ids : Kept(id)
    BY <1>1, <1>9 DEF Tick, Kept, TypeOK, RowType
  <2> QED
    BY <2>1 DEF RowStep
<1>10. CASE UNCHANGED vars
  BY <1>2, <1>10 DEF vars
<1> QED
  BY <1>2, <1>3, <1>4, <1>5, <1>6, <1>7, <1>8, <1>9, <1>10, ProcessingRowStep DEF Next

(***************************************************************************)
(* One payment or capture of an order, for the rows of one item            *)
(***************************************************************************)

(* The hypotheses: no process is killed between the save of the order and   *)
(* that of the row, processed rows are not removed, and items that agree on *)
(* the payment, the event and its success name the same original payment.  *)
NoCrash == "crash" \notin Faults

RowsStay == Retention > AgeCap

OriginalsTold == \A i, j \in Items : Matches(i, j) => Matches(j, i)

(* Notification::isDuplicate(true) asked of row id in the table t. *)
ProcessedIn(t, id) ==
  \E y \in Ids : /\ t[y].state = "live"
                 /\ t[y].done
                 /\ Matches(t[id].item, t[y].item)

(* A row that has changed its order is done, or about to be marked so, and  *)
(* a row that may change it has no processed duplicate.                    *)
ItemInv ==
  /\ \A id \in Ids : Live(id) => table[id].item \in Items
  /\ \A id \in Ids : applied[id] > 0 =>
       /\ Live(id)
       /\ table[id].done \/ \E w \in Runners : pc[w] = "applied" /\ obj[w].id = id
  /\ \A w \in Runners : pc[w] \in {"start", "claimed"} => ~ProcessedIn(table, obj[w].id)
  /\ AppliedOncePerItem
  /\ doomed = {}

(* Without removal a row stays, with its item, and stays done; a new row    *)
(* has one of the items a request may bring.                               *)
RowStays(id) ==
  /\ Live(id) => /\ Live(id)' /\ table'[id].item = table[id].item
                 /\ table[id].done => table'[id].done
  /\ Live(id)' => Live(id) \/ table'[id].item \in Items

(* Every step is such a step while nothing is selected for removal. *)
LEMMA RowsStayStep ==
  ASSUME TypeInv, SoleCore, OneRunner, doomed = {}, [Next]_vars
  PROVE  \A id \in Ids : RowStays(id)
<1> SUFFICES ASSUME NEW id \in Ids
             PROVE  RowStays(id)
  OBVIOUS
<1>1. Live(id) => table'[id].item = table[id].item
  BY StepKeepsRows DEF RowsKept, Live
<1>2. Kept(id) \/ Arrived(id) \/ Worked(id)
  BY SoleRowStep DEF RowStep
<1> QED
  BY <1>1, <1>2 DEF Kept, Arrived, Worked, Live, RowStays

(* Nothing is selected for removal. *)
LEMMA NothingRemoved ==
  ASSUME TypeOK, RowsStay, doomed = {}, [Next]_vars
  PROVE  doomed' = {}
<1>1. ~SelectProcessed
  <2>1. \A id \in Ids : ~Removable(id)
    <3> SUFFICES ASSUME NEW id \in Ids
                 PROVE  ~(table[id].age >= Retention)
      BY DEF Removable
    <3>1. table[id].age \in 0..AgeCap
      BY DEF TypeOK, RowType
    <3> QED
      BY <3>1, BoundsAreNumbers DEF RowsStay
  <2> QED
    BY <2>1 DEF SelectProcessed
<1> QED
  BY <1>1 DEF Next, Receiver, Post, CheckItem, SaveItem, Refuse, Accept, Runner, StartRun,
     SkipDuplicate, SkipDelayed, Take, EndRun, MarkQueued, Publish, Consumer, Receive,
     Acknowledge, Admin, ViewLink, FollowLink, ProcessNotification, RejectUnidentified,
     Claim, GiveUp, LeaveForRetry, LeaveUnhandled, Apply, MarkDone, RecordError, Finish,
     Crash, Cleanup, DeleteSelected, Tick, vars

(* Steps that change no order keep what is said of the rows that have. *)
LEMMA AppliedStays ==
  ASSUME ItemInv, applied' = applied, doomed' = {}, \A id \in Ids : RowStays(id),
         \A w \in Runners : pc[w] = "applied" =>
            \/ pc'[w] = "applied" /\ obj'[w] = obj[w]
            \/ table'[obj[w].id].done,
         \A w \in Runners : pc'[w] \in {"start", "claimed"} =>
            ~ProcessedIn(table', obj'[w].id)
  PROVE  ItemInv'
<1>1. \A id \in Ids : applied'[id] > 0 =>
        /\ Live(id)'
        /\ table'[id].done \/ \E w \in Runners : pc'[w] = "applied" /\ obj'[w].id = id
  <2> SUFFICES ASSUME NEW id \in Ids, applied[id] > 0
               PROVE  /\ Live(id)'
                      /\ table'[id].done \/ \E w \in Runners : pc'[w] = "applied" /\ obj'[w].id = id
    OBVIOUS
  <2>1. Live(id) /\ RowStays(id)
    BY DEF ItemInv
  <2>2. CASE table[id].done
    BY <2>1, <2>2 DEF RowStays
  <2>3. ASSUME NEW w \in Runners, pc[w] = "applied", obj[w].id = id
        PROVE  table'[id].done \/ \E v \in Runners : pc'[v] = "applied" /\ obj'[v].id = id
    BY <2>3
  <2> QED
    BY <2>1, <2>2, <2>3 DEF ItemInv, RowStays
<1>2. AppliedOncePerItem'
  <2> SUFFICES ASSUME NEW id \in Ids, NEW other \in Ids, id # other,
                      applied[id] > 0, applied[other] > 0
               PROVE  ~Matches(table'[id].item, table'[other].item)
    BY DEF AppliedOncePerItem
  <2>1. table'[id].item = table[id].item /\ table'[other].item = table[other].item
    BY DEF ItemInv, RowStays
  <2> QED
    BY <2>1 DEF ItemInv, AppliedOncePerItem
<1>3. \A id \in Ids : Live(id)' => table'[id].item \in Items
  BY DEF ItemInv, RowStays
<1> QED
  BY <1>1, <1>2, <1>3 DEF ItemInv

(* A row has no more processed duplicates when none was processed. *)
LEMMA StillUnprocessed ==
  ASSUME NEW x \in Ids, Live(x), ~ProcessedIn(table, x), \A id \in Ids : RowStays(id),
         \A id \in Ids : Live(id)' /\ table'[id].done => Live(id) /\ table[id].done
  PROVE  ~ProcessedIn(table', x)
<1> SUFFICES ASSUME NEW y \in Ids, table'[y].state = "live", table'[y].done,
                    Matches(table'[x].item, table'[y].item)
             PROVE  FALSE
  BY DEF ProcessedIn
<1>1. Live(y) /\ table[y].done
  BY DEF Live
<1>2. table'[x].item = table[x].item /\ table'[y].item = table[y].item
  BY <1>1 DEF RowStays
<1> QED
  BY <1>1, <1>2 DEF ProcessedIn, Live

(* Every step keeps the number of times an item is applied at one at      *)
(* most, and where it stands.                                             *)
LEMMA ItemStep ==
  ASSUME TypeInv, SoleCore, OneRunner, NoCrash, RowsStay, OriginalsTold, ItemInv, [Next]_vars
  PROVE  ItemInv'
<1>0. /\ TypeOK /\ OthersIdle /\ ObjInv /\ RowInv /\ doomed = {}
      /\ \A id \in Ids : RowStays(id)
      /\ doomed' = {}
  BY RowsStayStep, NothingRemoved DEF SoleCore, ItemInv, TypeInv
<1>i. \A w \in Runners : pc[w] \in {"start", "claimed"} =>
        obj[w].id \in Ids /\ Live(obj[w].id) /\ ~ProcessedIn(table, obj[w].id)
  <2> SUFFICES ASSUME NEW w \in Runners, pc[w] \in {"start", "claimed"}
               PROVE  obj[w].id \in Ids /\ Live(obj[w].id) /\ ~ProcessedIn(table, obj[w].id)
    OBVIOUS
  <2>1. obj[w].id \in Ids
    BY DEF TypeInv, HoldsObject, Busy, Workers, ObjType
  <2> QED
    BY <1>0, <2>1 DEF ItemInv, ObjInv, Waiting, Claimed
(* Nobody works on a row. *)
<1>1. ASSUME UNCHANGED <<applied, pc, obj>>,
             \A id \in Ids : Live(id)' /\ table'[id].done => Live(id) /\ table[id].done
      PROVE  ItemInv'
  <2>1. \A w \in Runners : pc'[w] \in {"start", "claimed"} =>
           ~ProcessedIn(table', obj'[w].id)
    BY <1>0, <1>1, <1>i, StillUnprocessed
  <2> QED
    BY <1>0, <1>1, <2>1, AppliedStays
<1>2. ASSUME NEW r \in Receivers, Receiver(r)
      PROVE  ItemInv'
  <2>1. UNCHANGED <<applied, pc, obj>>
    BY <1>2 DEF Receiver, Post, CheckItem, SaveItem, Refuse, Accept, workerVars
  <2>2. \A id \in Ids : Live(id)' /\ table'[id].done => Live(id) /\ table[id].done
    <3>1. \/ table' = table
          \/ \E x \in Ids : /\ table[x].state = "free"
                            /\ table' = [table EXCEPT ![x] =
                                 [FreeRow EXCEPT !.state = "live", !.item = checked[r]]]
      BY <1>2 DEF Receiver, Post, CheckItem, SaveItem, Refuse, Accept
    <3> QED
      BY <1>0, <3>1 DEF FreeRow, TypeOK, Live
  <2> QED
    BY <1>1, <2>1, <2>2
<1>3. CASE Tick \/ Cleanup \/ UNCHANGED vars
  <2>1. UNCHANGED <<applied, pc, obj>>
    BY <1>3 DEF Tick, Cleanup, SelectProcessed, DeleteSelected, vars, workerVars
  <2>2. \A id \in Ids : /\ table'[id].done = table[id].done
                        /\ Live(id)' => Live(id)
    BY <1>0, <1>3 DEF Tick, Cleanup, SelectProcessed, DeleteSelected, vars, TypeOK, RowType,
       Live
  <2> QED
    BY <1>1, <2>1, <2>2
<1>4. ASSUME NEW w \in Consumers, Consumer(w)
      PROVE  FALSE
  BY <1>0, <1>4, ProcessesAssumption
     DEF Consumer, Receive, Acknowledge, OthersIdle, Workers
<1>5. ASSUME NEW w \in Admins
      PROVE  FALSE
  BY <1>5 DEF OneRunner
<1>6. ASSUME NEW w \in Workers, Crash(w)
      PROVE  FALSE
  BY <1>6 DEF Crash, NoCrash
(* The runner goes through its list. *)
<1>7. ASSUME NEW w \in Runners, Runner(w)
      PROVE  ItemInv'
  <2>0. (\A v \in Runners : v = w) /\ w \in Workers /\ QueueMode = FALSE
    BY OnlyRunner
  <2>1. /\ UNCHANGED <<table, applied>>
        /\ pc[w] \in {"idle", "loop"}
    BY <1>0, <1>7, <2>0 DEF Runner, StartRun, SkipDuplicate, SkipDelayed, Take, EndRun,
       MarkQueued, Publish, OthersIdle
  <2>2. pc'[w] \in {"start", "claimed"} => ~ProcessedIn(table', obj'[w].id)
    <3>1. CASE Take(w)
      <4>1. PICK o \in batch[w] : ~IsProcessed(o.id) /\ obj' = [obj EXCEPT ![w] = o]
        BY <3>1 DEF Take
      <4>2. obj'[w] = o
        BY <1>0, <2>0, <4>1 DEF TypeOK
      <4> QED
        BY <2>1, <4>1, <4>2 DEF IsProcessed, ProcessedIn, Live
    <3>2. CASE ~Take(w)
      <4>1. \/ pc' = pc
            \/ pc' = [pc EXCEPT ![w] = "loop"]
            \/ pc' = [pc EXCEPT ![w] = "idle"]
        BY <1>0, <1>7, <3>2 DEF Runner, StartRun, SkipDuplicate, SkipDelayed, EndRun,
           MarkQueued, Publish, OthersIdle
      <4> QED
        BY <1>0, <2>0, <2>1, <4>1 DEF TypeOK
    <3> QED
      BY <3>1, <3>2
  <2> QED
    BY <1>0, <2>0, <2>1, <2>2, AppliedStays
(* The runner works on a row. *)
<1>8. ASSUME NEW w \in Workers, ProcessNotification(w)
      PROVE  ItemInv'
  <2>0. w \in Runners /\ (\A v \in Runners : v = w)
    <3>1. pc[w] # "idle"
      BY <1>8 DEF ProcessNotification, RejectUnidentified, Claim, GiveUp, LeaveForRetry,
             LeaveUnhandled, Apply, MarkDone, RecordError, Finish
    <3>2. w \in Runners
      BY <1>0, <3>1 DEF OthersIdle
    <3> QED
      BY <3>2, OnlyRunner
  <2>1. \A p : pc' = [pc EXCEPT ![w] = p] => pc'[w] = p
    BY <1>0 DEF TypeOK
  <2>2. CASE Claim(w)
    <3> DEFINE x == obj[w].id
    <3>1. pc[w] = "start" /\ pc'[w] = "claimed" /\ applied' = applied
      BY <2>1, <2>2 DEF Claim
    <3>2. x \in Ids /\ Live(x) /\ ~ProcessedIn(table, x) /\ Waiting(obj[w]) /\ pc[w] \in Busy
      BY <1>0, <1>i, <2>0, <3>1 DEF ObjInv, Busy
    <3>3. /\ Elsewhere(w) /\ table'[x].done = obj[w].done /\ obj'[w].id = x
      <4>1. UpdateNotification(w, TRUE, FALSE) /\ Synchronised(obj[w])
        BY <2>2, <3>2 DEF Claim, Waiting, Synchronised
      <4>2. obj[w].done = FALSE
        BY <3>2 DEF Waiting
      <4> QED
        BY <3>2, <4>1, <4>2, SoleUpdate
    <3>4. \A id \in Ids : Live(id)' /\ table'[id].done => Live(id) /\ table[id].done
      BY <3>2, <3>3 DEF Elsewhere, Live, Waiting
    <3>5. ~ProcessedIn(table', x)
      BY <1>0, <3>2, <3>4, StillUnprocessed
    <3>6. ~ProcessedIn(table', obj'[w].id)
      BY <3>3, <3>5
    <3> QED
      BY <1>0, <2>0, <3>1, <3>6, AppliedStays
  <2>3. CASE Apply(w)
    <3> DEFINE x == obj[w].id
    <3>1. /\ pc[w] = "claimed" /\ pc'[w] = "applied" /\ obj' = obj /\ table' = table
          /\ applied' = [applied EXCEPT ![x] = IF @ = 0 THEN 1 ELSE 2]
      BY <2>1, <2>3 DEF Apply
    <3>2. x \in Ids /\ Live(x) /\ ~ProcessedIn(table, x)
      BY <1>i, <2>0, <3>1
    <3>3. \A id \in Ids \ {x} : applied'[id] = applied[id]
      BY <1>0, <3>1 DEF TypeOK
    <3>4. \A id \in Ids : applied[id] > 0 => table[id].done /\ Live(id)
      BY <2>0, <3>1 DEF ItemInv
    <3>5. \A id \in Ids : applied'[id] > 0 =>
            /\ Live(id)'
            /\ table'[id].done \/ \E v \in Runners : pc'[v] = "applied" /\ obj'[v].id = id
      BY <2>0, <3>1, <3>2, <3>3, <3>4 DEF Live
    <3>6. \A y \in Ids \ {x} : applied[y] > 0 =>
            ~Matches(table[x].item, table[y].item) /\ ~Matches(table[y].item, table[x].item)
      <4> SUFFICES ASSUME NEW y \in Ids \ {x}, applied[y] > 0
                   PROVE  /\ ~Matches(table[x].item, table[y].item)
                          /\ ~Matches(table[y].item, table[x].item)
        OBVIOUS
      <4>1. ~Matches(table[x].item, table[y].item)
        BY <3>2, <3>4 DEF ProcessedIn, Live
      <4>2. table[x].item \in Items /\ table[y].item \in Items
        BY <3>2, <3>4 DEF ItemInv
      <4> QED
        BY <4>1, <4>2 DEF OriginalsTold
    <3>7. AppliedOncePerItem'
      <4> SUFFICES ASSUME NEW id \in Ids, NEW other \in Ids, id # other,
                          applied'[id] > 0, applied'[other] > 0
                   PROVE  ~Matches(table[id].item, table[other].item)
        BY <3>1 DEF AppliedOncePerItem
      <4> HIDE DEF x
      <4>1. CASE id = x
        BY <3>3, <3>6, <4>1
      <4>2. CASE other = x
        BY <3>3, <3>6, <4>2
      <4>3. CASE id # x /\ other # x
        BY <3>3, <4>3 DEF ItemInv, AppliedOncePerItem
      <4> QED
        BY <4>1, <4>2, <4>3
    <3>8. \A v \in Runners : pc'[v] \notin {"start", "claimed"}
      BY <2>0, <3>1
    <3>9. \A id \in Ids : Live(id)' => table'[id].item \in Items
      BY <3>1 DEF ItemInv, Live
    <3> QED
      BY <1>0, <3>5, <3>7, <3>8, <3>9 DEF ItemInv
  <2>4. CASE ~Claim(w) /\ ~Apply(w)
    <3>1. applied' = applied /\ pc'[w] \notin {"start", "claimed"}
      BY <1>8, <2>0, <2>1, <2>4 DEF ProcessNotification, RejectUnidentified, GiveUp,
         LeaveForRetry, LeaveUnhandled, MarkDone, RecordError, Finish, Return
    <3>2. pc[w] = "applied" => table'[obj[w].id].done
      <4> SUFFICES ASSUME pc[w] = "applied"
                   PROVE  table'[obj[w].id].done
        OBVIOUS
      <4>1. UpdateNotification(w, FALSE, TRUE)
        BY <1>8, <2>4 DEF ProcessNotification, RejectUnidentified, GiveUp,
           LeaveForRetry, LeaveUnhandled, MarkDone, RecordError, Finish
      <4>2. Claimed(obj[w]) /\ pc[w] \in Busy
        BY <1>0, <2>0 DEF ObjInv, Busy
      <4>3. Live(obj[w].id) /\ Synchronised(obj[w])
        BY <4>2 DEF Claimed, Synchronised
      <4> QED
        BY <4>1, <4>2, <4>3, SoleUpdate
    <3> QED
      BY <1>0, <2>0, <3>1, <3>2, AppliedStays
  <2> QED
    BY <2>2, <2>3, <2>4
<1> QED
  BY <1>2, <1>3, <1>4, <1>5, <1>6, <1>7, <1>8 DEF Next

(* Two rows that the receiver let in for one item do not both change the    *)
(* order: isDuplicate(true) looks again before a row is processed           *)
(* (Cron/WebhookProcessor.php, Webhook::processNotification).               *)
THEOREM AppliedOnceEach ==
  ASSUME OneRunner, NoCrash, RowsStay, OriginalsTold
  PROVE  Spec => []AppliedOncePerItem
<1>1. Init => ItemInv
  BY DEF Init, ItemInv, AppliedOncePerItem, Workers, FreeRow, Live
<1>2. SoleInv /\ ItemInv /\ [Next]_vars => ItemInv'
  BY ItemStep DEF SoleInv
<1>3. ItemInv => AppliedOncePerItem
  BY DEF ItemInv
<1> QED
  BY <1>1, <1>2, <1>3, SoleInvariant, PTL DEF Spec

(***************************************************************************)
(* Why a row is called processed, with any number of processes             *)
(***************************************************************************)

(* An error is about to be recorded in row id. *)
Reported(id) == \E w \in Workers : pc[w] = "erring" /\ obj[w].id = id

Explained(id) ==
  Live(id) /\ table[id].done /\ ~table[id].processing
    => applied[id] > 0 \/ table[id].errors > 0 \/ Reported(id)

(* An object that was not saved yet writes every column. *)
FreshInv ==
  /\ \A w \in Workers : pc[w] \in {"enqueue", "start"} => obj[w].dirty = Columns
  /\ \A w \in Workers : \A o \in batch[w] : o.dirty = Columns
  /\ \A s \in Slots : queue[s] # NoObj => queue[s].dirty = Columns

ExplainInv ==
  /\ FreshInv
  /\ \A w \in Workers : pc[w] = "applied" => applied[obj[w].id] > 0
  /\ \A id \in Ids : Explained(id)

(* What has an explanation keeps it while row, order and report stay. *)
LEMMA ExplainedKept ==
  ASSUME NEW id \in Ids, Explained(id), Live(id)' => Live(id),
         table'[id].done = table[id].done,
         table'[id].processing = table[id].processing,
         table'[id].errors = table[id].errors,
         applied[id] > 0 => applied'[id] > 0,
         Reported(id) => Reported(id)'
  PROVE  Explained(id)'
BY DEF Explained

(* A save of processNotification writes one row; a first save all of it. *)
LEMMA UpdateWrites ==
  ASSUME TypeInv, NEW w \in Workers, pc[w] \in Busy,
         NEW p \in BOOLEAN, NEW d \in BOOLEAN, UpdateNotification(w, p, d)
  PROVE  /\ Elsewhere(w)
         /\ obj'[w].id = obj[w].id
         /\ obj[w].dirty = Columns /\ Live(obj[w].id) =>
              table'[obj[w].id].processing = p
<1> DEFINE o == Assign(obj[w], obj[w].done \/ d, p, obj[w].errors)
<1>1. obj[w] \in ObjType /\ TypeOK
  BY DEF TypeInv, HoldsObject
<1>2. o \in ObjType
  <2>1. obj[w].done \in BOOLEAN /\ obj[w].errors \in 0..ErrorCap
    BY <1>1 DEF ObjType
  <2> QED BY <1>1, <2>1, AssignType
<1>3. Save(w, o)
  BY DEF UpdateNotification
<1>4. /\ o.id = obj[w].id /\ o.processing = p
      /\ obj[w].dirty = Columns => "processing" \in o.dirty
  BY DEF Assign, Columns
<1> HIDE DEF o
<1>5. /\ \A id \in Ids : id # o.id => table'[id] = table[id]
      /\ Live(o.id) => table'[o.id] = Written(table[o.id], o)
      /\ \A id \in Ids : /\ table'[id].state = table[id].state
                          /\ table'[id].item = table[id].item
                          /\ table'[id].age = table[id].age
      /\ obj' = [obj EXCEPT ![w] = [o EXCEPT !.dirty = {}]]
  BY <1>1, <1>2, <1>3, SaveEffect
<1>6. table[o.id] \in RowType
  BY <1>1, <1>2 DEF TypeOK, ObjType
<1>7. "processing" \in o.dirty => Written(table[o.id], o).processing = o.processing
  BY <1>6 DEF Written, RowType
<1>8. Elsewhere(w)
  BY <1>1, <1>4, <1>5 DEF Elsewhere, TypeOK
<1>9. obj'[w].id = o.id
  BY <1>1, <1>2, <1>5 DEF TypeOK, ObjType
<1> QED
  BY <1>4, <1>5, <1>7, <1>8, <1>9

(* Recording an error leaves a row with at least one. *)
LEMMA ErrorWrites ==
  ASSUME TypeInv, NEW w \in Workers, pc[w] \in Busy, SetNotificationError(w)
  PROVE  /\ Elsewhere(w)
         /\ Live(obj[w].id) => table'[obj[w].id].errors > 0
<1> DEFINE e == IF obj[w].errors < ErrorCap THEN obj[w].errors + 1 ELSE obj[w].errors
           a == Assign(obj[w], obj[w].done \/ e = MaxErrors, obj[w].processing, e)
           o == [a EXCEPT !.dirty = @ \cup {"errors"}]
<1>1. obj[w] \in ObjType /\ TypeOK
  BY DEF TypeInv, HoldsObject
<1>2. /\ obj[w].processing \in BOOLEAN /\ obj[w].done \in BOOLEAN
      /\ e \in 0..ErrorCap /\ e > 0
  BY <1>1, BoundsAreNumbers DEF ObjType
<1>3. Save(w, o)
  BY DEF SetNotificationError
<1> HIDE DEF e
<1>4. a \in ObjType
  BY <1>1, <1>2, AssignType
<1>5. a.id = obj[w].id /\ a.errors = e
  BY DEF Assign
<1> HIDE DEF a
<1>6. /\ o \in ObjType
      /\ o.id = obj[w].id /\ o.errors = e /\ "errors" \in o.dirty
  BY <1>4, <1>5, CountType DEF ObjType
<1> HIDE DEF o
<1>7. /\ \A id \in Ids : id # o.id => table'[id] = table[id]
      /\ Live(o.id) => table'[o.id] = Written(table[o.id], o)
      /\ \A id \in Ids : /\ table'[id].state = table[id].state
                          /\ table'[id].item = table[id].item
                          /\ table'[id].age = table[id].age
      /\ obj' = [obj EXCEPT ![w] = [o EXCEPT !.dirty = {}]]
  BY <1>1, <1>3, <1>6, SaveEffect
<1>8. table[o.id] \in RowType
  BY <1>1, <1>6 DEF TypeOK, ObjType
<1>9. Written(table[o.id], o).errors = o.errors
  BY <1>6, <1>8 DEF Written, RowType
<1>10. Elsewhere(w)
  BY <1>1, <1>6, <1>7 DEF Elsewhere, TypeOK
<1> QED
  BY <1>2, <1>6, <1>7, <1>9, <1>10

(* A step of one worker that does not end a report keeps the explanations  *)
(* of the rows it does not write.                                          *)
LEMMA OthersExplained ==
  ASSUME TypeOK, NEW w \in Workers, NEW x, \A id \in Ids : Explained(id), Elsewhere(w),
         pc[w] = "erring" => obj[w].id = x,
         NEW p, pc' = [pc EXCEPT ![w] = p], obj[w].id = x, applied' = applied
  PROVE  \A id \in Ids : id # x => Explained(id)'
<1> SUFFICES ASSUME NEW id \in Ids, id # x
             PROVE  Explained(id)'
  OBVIOUS
<1>1. table'[id] = table[id]
  BY DEF Elsewhere
<1>2. Reported(id) => Reported(id)'
  <2> SUFFICES ASSUME NEW v \in Workers, pc[v] = "erring", obj[v].id = id
               PROVE  pc'[v] = "erring" /\ obj'[v].id = id
    BY DEF Reported
  <2>1. v # w
    OBVIOUS
  <2> QED
    BY <2>1 DEF Elsewhere, TypeOK
<1> QED
  BY <1>1, <1>2, ExplainedKept DEF Live

(* Every step keeps a free row fresh, and a row in an object or a batch   *)
(* out of the free ones.                                                  *)
LEMMA FreshStep ==
  ASSUME TypeInv, FreshInv, [Next]_vars
  PROVE  FreshInv'
<1> USE DEF TypeInv, TypeOK, FreshInv
<1>1. ASSUME NEW w \in Workers, ProcessNotification(w)
      PROVE  FreshInv'
  <2>1. /\ UNCHANGED <<batch, queue>>
        /\ \A v \in Workers : v # w => pc'[v] = pc[v] /\ obj'[v] = obj[v]
        /\ pc'[w] \notin {"enqueue", "start"}
    BY <1>1 DEF ProcessNotification, RejectUnidentified, Claim, GiveUp, LeaveForRetry,
       LeaveUnhandled, Apply, MarkDone, RecordError, Finish, Return,
       UpdateNotification, SetNotificationError, Save
  <2> QED
    BY <2>1
<1>2. ASSUME NEW w \in Runners, Runner(w)
      PROVE  FreshInv'
  <2>0. w \in Workers
    BY DEF Workers
  <2>1. CASE StartRun(w)
    BY <2>0, <2>1 DEF StartRun, Snapshot
  <2>2. CASE SkipDuplicate(w) \/ SkipDelayed(w)
    BY <2>0, <2>2 DEF SkipDuplicate, SkipDelayed, LeaveLoop
  <2>3. CASE Take(w)
    BY <2>0, <2>3 DEF Take, LeaveLoop
  <2>4. CASE EndRun(w)
    BY <2>0, <2>4 DEF EndRun
  <2>5. CASE MarkQueued(w)
    BY <2>0, <2>5 DEF MarkQueued, Save
  <2>6. CASE Publish(w)
    <3>1. PICK s \in Slots : queue' = [queue EXCEPT ![s] = [obj[w] EXCEPT !.dirty = Columns]]
      BY <2>6 DEF Publish, Enqueue
    <3>2. obj[w] \in ObjType
      BY <2>0, <2>6 DEF Publish, HoldsObject, Busy
    <3>3. [obj[w] EXCEPT !.dirty = Columns].dirty = Columns
      BY <3>2 DEF ObjType
    <3>4. \A t \in Slots : queue'[t] # NoObj => queue'[t].dirty = Columns
      BY <3>1, <3>3
    <3>5. \A v \in Workers : pc'[v] \in {"enqueue", "start"} => obj'[v].dirty = Columns
      BY <2>0, <2>6 DEF Publish
    <3>6. batch' = batch
      BY <2>6 DEF Publish
    <3> QED
      BY <3>4, <3>5, <3>6
  <2> QED
    BY <1>2, <2>1, <2>2, <2>3, <2>4, <2>5, <2>6 DEF Runner
<1>3. ASSUME NEW w \in Consumers, Consumer(w)
      PROVE  FreshInv'
  <2>0. w \in Workers
    BY DEF Workers
  <2> QED
    BY <1>3, <2>0 DEF Consumer, Receive, Acknowledge
<1>4. ASSUME NEW w \in Admins, Admin(w)
      PROVE  FreshInv'
  <2>0. w \in Workers
    BY DEF Workers
  <2> QED
    BY <1>4, <2>0 DEF Admin, ViewLink, FollowLink, Snapshot
<1>5. ASSUME NEW w \in Workers, Crash(w)
      PROVE  FreshInv'
  <2>1. \A s \in Slots : queue'[s] # NoObj => queue'[s].dirty = Columns
    <3>1. msg[w] # NoObj => [msg[w] EXCEPT !.dirty = Columns].dirty = Columns
      BY DEF ObjType
    <3> QED
      BY <1>5, <3>1 DEF Crash, Enqueue
  <2> QED
    BY <1>5, <2>1 DEF Crash
<1>6. CASE (\E r \in Receivers : Receiver(r)) \/ Cleanup \/ Tick \/ UNCHANGED vars
  <2>1. UNCHANGED <<pc, obj, batch, queue>>
    BY <1>6 DEF Receiver, Post, CheckItem, SaveItem, Refuse, Accept, Cleanup, SelectProcessed,
       DeleteSelected, Tick, vars, workerVars
  <2> QED
    BY <2>1
<1> QED
  BY <1>1, <1>2, <1>3, <1>4, <1>5, <1>6 DEF Next

(* Every step keeps the reason there is for a row being done. *)
LEMMA ExplainStep ==
  ASSUME TypeInv, NoCrash, ExplainInv, [Next]_vars
  PROVE  ExplainInv'
<1>0. /\ TypeOK
      /\ \A id \in Ids : Explained(id)
      /\ \A w \in Workers : pc[w] = "applied" => applied[obj[w].id] > 0
  BY DEF TypeInv, ExplainInv
<1>f. FreshInv'
  BY FreshStep DEF ExplainInv
<1> DEFINE Done(as, ps, os) ==
             \A v \in Workers : ps[v] = "applied" => as[os[v].id] > 0
(* Nobody works on a row. *)
<1>1. ASSUME UNCHANGED <<applied, pc, obj>>,
             \A id \in Ids : Live(id)' /\ table'[id].done =>
                               /\ Live(id)
                               /\ table'[id].done = table[id].done
                               /\ table'[id].processing = table[id].processing
                               /\ table'[id].errors = table[id].errors
      PROVE  ExplainInv'
  <2>1. \A id \in Ids : Reported(id)' = Reported(id)
    BY <1>1 DEF Reported
  <2>2. \A id \in Ids : Explained(id)'
    BY <1>0, <1>1, <2>1 DEF Explained
  <2> QED
    BY <1>0, <1>1, <1>f, <2>2 DEF ExplainInv
<1>2. ASSUME NEW r \in Receivers, Receiver(r)
      PROVE  ExplainInv'
  <2>1. UNCHANGED <<applied, pc, obj>>
    BY <1>2 DEF Receiver, Post, CheckItem, SaveItem, Refuse, Accept, workerVars
  <2>2. \/ table' = table
        \/ \E x \in Ids : /\ table[x].state = "free"
                          /\ table' = [table EXCEPT ![x] =
                               [FreeRow EXCEPT !.state = "live", !.item = checked[r]]]
    BY <1>2 DEF Receiver, Post, CheckItem, SaveItem, Refuse, Accept
  <2> QED
    BY <1>0, <1>1, <2>1, <2>2 DEF FreeRow, TypeOK, Live
<1>3. CASE Tick \/ Cleanup \/ UNCHANGED vars
  <2>1. UNCHANGED <<applied, pc, obj>>
    BY <1>3 DEF Tick, Cleanup, SelectProcessed, DeleteSelected, vars, workerVars
  <2>2. \A id \in Ids : /\ table'[id].done = table[id].done
                        /\ table'[id].processing = table[id].processing
                        /\ table'[id].errors = table[id].errors
                        /\ Live(id)' => Live(id)
    BY <1>0, <1>3 DEF Tick, Cleanup, SelectProcessed, DeleteSelected, vars, TypeOK, RowType,
       Live
  <2> QED
    BY <1>1, <2>1, <2>2
<1>4. ASSUME NEW w \in Workers, Crash(w)
      PROVE  FALSE
  BY <1>4 DEF Crash, NoCrash
(* A worker goes on without writing a row. *)
<1>5. ASSUME NEW w \in Workers, pc[w] # "erring", UNCHANGED <<table, applied>>,
             \A v \in Workers : v # w => pc'[v] = pc[v] /\ obj'[v] = obj[v],
             pc'[w] # "applied"
      PROVE  ExplainInv'
  <2>1. \A id \in Ids : Reported(id) => Reported(id)'
    BY <1>5 DEF Reported
  <2>2. \A id \in Ids : Explained(id)'
    BY <1>0, <1>5, <2>1 DEF Explained, Live
  <2> QED
    BY <1>0, <1>5, <1>f, <2>2 DEF ExplainInv
(* A worker saves a row, and w's own row is explained after that. *)
<1>6. ASSUME NEW w \in Workers, NEW p, pc' = [pc EXCEPT ![w] = p], p # "applied",
             Elsewhere(w), applied' = applied, NEW x \in Ids, obj[w].id = x,
             Explained(x)'
      PROVE  ExplainInv'
  <2>1. \A id \in Ids : id # x => Explained(id)'
    BY <1>0, <1>6, OthersExplained
  <2>2. \A id \in Ids : Explained(id)'
    BY <1>6, <2>1
  <2>3. \A v \in Workers : pc'[v] = "applied" => applied'[obj'[v].id] > 0
    BY <1>0, <1>6 DEF Elsewhere, TypeOK
  <2> QED
    BY <1>f, <2>2, <2>3 DEF ExplainInv
<1>7. ASSUME NEW w \in Workers, ProcessNotification(w)
      PROVE  ExplainInv'
  <2>0. pc[w] \in Busy /\ obj[w] \in ObjType /\ obj[w].id \in Ids
    BY <1>7 DEF ProcessNotification, RejectUnidentified, Claim, GiveUp, LeaveForRetry,
       LeaveUnhandled, Apply, MarkDone, RecordError, Finish, Busy, TypeInv, HoldsObject, ObjType
  <2>x. PICK x \in Ids : obj[w].id = x
    BY <2>0
  <2>1. CASE RejectUnidentified(w) \/ GiveUp(w) \/ LeaveForRetry(w)
    <3>1. PICK d \in BOOLEAN : UpdateNotification(w, FALSE, d)
      BY <2>1 DEF RejectUnidentified, GiveUp, LeaveForRetry
    <3>2. pc' = [pc EXCEPT ![w] = "erring"] /\ applied' = applied
      BY <2>1 DEF RejectUnidentified, GiveUp, LeaveForRetry
    <3>3. Elsewhere(w) /\ obj'[w].id = x
      BY <2>0, <2>x, <3>1, UpdateWrites
    <3>4. Explained(x)'
      <4>1. pc'[w] = "erring"
        BY <1>0, <3>2 DEF TypeOK
      <4>2. \E v \in Workers : pc'[v] = "erring" /\ obj'[v].id = x
        BY <3>3, <4>1
      <4> QED
        BY <4>2 DEF Explained, Reported
    <3> QED
      BY <1>6, <2>x, <3>2, <3>3, <3>4
  <2>2. CASE Claim(w)
    <3>1. /\ UpdateNotification(w, TRUE, FALSE) /\ applied' = applied
          /\ pc' = [pc EXCEPT ![w] = "claimed"]
          /\ obj[w].dirty = Columns
      BY <2>2 DEF Claim, ExplainInv, FreshInv
    <3>2. Elsewhere(w) /\ (Live(x) => table'[x].processing = TRUE)
      BY <2>0, <2>x, <3>1, UpdateWrites
    <3>3. Explained(x)'
      BY <3>2 DEF Explained, Elsewhere, Live
    <3> QED
      BY <1>6, <2>x, <3>1, <3>2, <3>3
  <2>3. CASE MarkDone(w)
    <3>0. PICK n \in {"done", "erring"} : pc' = [pc EXCEPT ![w] = n]
      BY <2>3 DEF MarkDone
    <3>1. /\ UpdateNotification(w, FALSE, TRUE) /\ applied' = applied
          /\ applied[x] > 0
      BY <1>0, <2>x, <2>3 DEF MarkDone
    <3>2. Elsewhere(w)
      BY <2>0, <3>1, UpdateWrites
    <3>3. Explained(x)'
      BY <3>1 DEF Explained
    <3> QED
      BY <1>6, <2>x, <3>0, <3>1, <3>2, <3>3
  <2>4. CASE RecordError(w)
    <3>1. /\ SetNotificationError(w) /\ applied' = applied
          /\ pc' = [pc EXCEPT ![w] = "done"]
      BY <2>4 DEF RecordError
    <3>2. Elsewhere(w) /\ (Live(x) => table'[x].errors > 0)
      BY <2>0, <2>x, <3>1, ErrorWrites
    <3>3. Explained(x)'
      BY <3>2 DEF Explained, Elsewhere, Live
    <3> QED
      BY <1>6, <2>x, <3>1, <3>2, <3>3
  <2>5. CASE LeaveUnhandled(w) \/ Finish(w)
    <3>1. /\ UNCHANGED <<table, applied>> /\ pc[w] # "erring" /\ pc'[w] # "applied"
          /\ \A v \in Workers : v # w => pc'[v] = pc[v] /\ obj'[v] = obj[v]
      BY <1>0, <2>5 DEF LeaveUnhandled, Finish, Return, TypeOK
    <3> QED
      BY <1>5, <3>1
  <2>6. CASE Apply(w)
    <3>1. /\ applied' = [applied EXCEPT ![x] = IF @ = 0 THEN 1 ELSE 2]
          /\ table' = table /\ obj' = obj /\ pc[w] = "claimed"
          /\ pc' = [pc EXCEPT ![w] = "applied"]
      BY <2>x, <2>6 DEF Apply
    <3>2. \A id \in Ids : applied[id] > 0 => applied'[id] > 0
      BY <1>0, <2>0, <3>1 DEF TypeOK
    <3>3. applied'[x] > 0
      BY <1>0, <2>0, <3>1 DEF TypeOK
    <3>4. \A id \in Ids : Reported(id) => Reported(id)'
      BY <1>0, <3>1 DEF Reported, TypeOK
    <3>5. \A id \in Ids : Explained(id)'
      BY <1>0, <3>1, <3>2, <3>4 DEF Explained, Live
    <3>6. \A v \in Workers : pc'[v] = "applied" => applied'[obj'[v].id] > 0
      <4> SUFFICES ASSUME NEW v \in Workers, pc'[v] = "applied"
                   PROVE  applied'[obj[v].id] > 0
        BY <3>1
      <4>1. CASE v = w
        BY <2>x, <3>3, <4>1
      <4>2. CASE v # w
        <5>1. pc[v] = "applied"
          BY <1>0, <3>1, <4>2 DEF TypeOK
        <5>2. obj[v].id \in Ids
          BY <5>1 DEF TypeInv, HoldsObject, Busy, ObjType
        <5> QED
          BY <1>0, <3>2, <5>1, <5>2
      <4> QED
        BY <4>1, <4>2
    <3> QED
      BY <1>f, <3>5, <3>6 DEF ExplainInv
  <2> QED
    BY <1>7, <2>1, <2>2, <2>3, <2>4, <2>5, <2>6 DEF ProcessNotification
<1>8. ASSUME NEW w \in Runners, Runner(w)
      PROVE  ExplainInv'
  <2>0. w \in Workers
    BY DEF Workers
  <2>1. CASE MarkQueued(w)
    <3> DEFINE o == Assign(obj[w], obj[w].done, TRUE, obj[w].errors)
    <3>1. obj[w] \in ObjType /\ obj[w].dirty = Columns /\ pc[w] \in Busy
      BY <2>0, <2>1 DEF MarkQueued, TypeInv, HoldsObject, Busy, ExplainInv, FreshInv
    <3>2. UpdateNotification(w, TRUE, FALSE)
      BY <2>1, <3>1 DEF MarkQueued, UpdateNotification, ObjType
    <3>3. Elsewhere(w) /\ (Live(obj[w].id) => table'[obj[w].id].processing = TRUE)
      BY <2>0, <3>1, <3>2, UpdateWrites
    <3>4. PICK x \in Ids : obj[w].id = x
      BY <3>1 DEF ObjType
    <3>5. Explained(x)'
      BY <3>3, <3>4 DEF Explained, Elsewhere, Live
    <3>6. pc' = [pc EXCEPT ![w] = "publish"] /\ applied' = applied
      BY <2>1 DEF MarkQueued
    <3> QED
      BY <1>6, <2>0, <3>3, <3>4, <3>5, <3>6
  <2>2. CASE ~MarkQueued(w)
    <3>1. /\ UNCHANGED <<table, applied>> /\ pc[w] # "erring" /\ pc'[w] # "applied"
          /\ \A v \in Workers : v # w => pc'[v] = pc[v] /\ obj'[v] = obj[v]
      BY <1>0, <1>8, <2>0, <2>2 DEF Runner, StartRun, SkipDuplicate, SkipDelayed, Take,
         EndRun, Publish, TypeOK
    <3> QED
      BY <1>5, <2>0, <3>1
  <2> QED
    BY <2>1, <2>2
<1>9. ASSUME NEW w \in Consumers, Consumer(w)
      PROVE  ExplainInv'
  <2>1. /\ w \in Workers /\ UNCHANGED <<table, applied>>
        /\ pc[w] # "erring" /\ pc'[w] # "applied"
        /\ \A v \in Workers : v # w => pc'[v] = pc[v] /\ obj'[v] = obj[v]
    BY <1>0, <1>9 DEF Consumer, Receive, Acknowledge, TypeOK, Workers
  <2> QED
    BY <1>5, <2>1
<1>10. ASSUME NEW w \in Admins, Admin(w)
      PROVE  ExplainInv'
  <2>1. /\ w \in Workers /\ UNCHANGED <<table, applied>>
        /\ pc[w] # "erring" /\ pc'[w] # "applied"
        /\ \A v \in Workers : v # w => pc'[v] = pc[v] /\ obj'[v] = obj[v]
    BY <1>0, <1>10 DEF Admin, ViewLink, FollowLink, TypeOK, Workers
  <2> QED
    BY <1>5, <2>1
<1> QED
  BY <1>2, <1>3, <1>4, <1>7, <1>8, <1>9, <1>10 DEF Next

(* A row is called processed for a reason, however many runners, consumers *)
(* and administrators work on it with copies read at different times.      *)
THEOREM ProcessedForAReason ==
  ASSUME NoCrash
  PROVE  Spec => []DoneExplained
<1>1. Init => ExplainInv
  BY DEF Init, ExplainInv, FreshInv, Explained, Live, FreeRow
<1>2. TypeInv /\ ExplainInv /\ [Next]_vars => ExplainInv'
  BY ExplainStep
<1>3. TypeInv /\ ExplainInv => DoneExplained
  <2> SUFFICES ASSUME TypeInv, ExplainInv, NEW id \in Ids, Live(id), table[id].done,
                      ~table[id].processing, Unattended(id)
               PROVE  applied[id] > 0 \/ table[id].errors > 0
    BY DEF DoneExplained
  <2>1. ~Reported(id)
    <3> SUFFICES ASSUME NEW w \in Workers, pc[w] = "erring", obj[w].id = id
                 PROVE  FALSE
      BY DEF Reported
    <3>1. obj[w] # NoObj => FALSE
      BY DEF Unattended, Holds
    <3>2. obj[w] \in ObjType
      BY DEF TypeInv, HoldsObject, Busy
    <3> QED
      BY <3>1, <3>2, NoObjAssumption
  <2> QED
    BY <2>1 DEF ExplainInv, Explained
<1> QED
  BY <1>1, <1>2, <1>3, TypeInvariant, PTL DEF Spec

(***************************************************************************)
(* The deadline: one attempt a minute until the error budget is used up    *)
(***************************************************************************)

FirstAge(i) ==
  IF Delayed(i) /\ DelayAge + 1 > MinAge THEN DelayAge + 1 ELSE MinAge

(* Each minute's work is done in the minute, no process fails, orders are   *)
(* in states the plugin handles, and a row is young enough for all its     *)
(* attempts.                                                               *)
OnTime ==
  /\ Punctual = TRUE
  /\ "crash" \notin Faults /\ "unhandled" \notin Faults
  /\ MinAge > 0
  /\ \A i \in Items : FirstAge(i) + MaxErrors <= MaxAge + 1

(* A duplicate that settled a row does not go away before the row: rows are *)
(* not removed, or there is no duplicate since requests come one by one.   *)
OneReceiver == \A r, other \in Receivers : r = other

DuplicatesStay == RowsStay \/ (OneReceiver /\ OriginalsTold)

TwinFree ==
  \A x, y \in Ids : Live(x) /\ Live(y) /\ Matches(table[x].item, table[y].item) => x = y

CheckedIsNew ==
  \A r \in Receivers : checked[r] # NoItem =>
     \A y \in Ids : Live(y) => ~Matches(checked[r], table[y].item)

LiveItems == \A id \in Ids : Live(id) => table[id].item \in Items

StayInv ==
  /\ LiveItems
  /\ RowsStay => doomed = {}
  /\ OneReceiver /\ OriginalsTold => TwinFree /\ CheckedIsNew

SettledIn(t, id) == t[id].done \/ ProcessedIn(t, id)

(* What a step may do to the live rows: it creates one, or keeps its item. *)
LEMMA LiveRows ==
  ASSUME TypeInv, [Next]_vars, NEW id \in Ids, Live(id)'
  PROVE  \/ /\ table[id].state = "free"
            /\ table'[id].item \in Items /\ table'[id].age = 0
            /\ \E r \in Receivers : SaveItem(r) /\ checked[r] = table'[id].item
               /\ \A y \in Ids \ {id} : table'[y] = table[y]
         \/ Live(id) /\ table'[id].item = table[id].item /\ ~Tick
            /\ table'[id].age = table[id].age
         \/ Live(id) /\ table'[id].item = table[id].item /\ Tick
<1>0. TypeOK
  BY DEF TypeInv
<1>1. ASSUME table' = table, ~Tick
      PROVE  Live(id) /\ table'[id].item = table[id].item /\ table'[id].age = table[id].age
  BY <1>1 DEF Live
<1>2. CASE Tick
  BY <1>0, <1>2 DEF Tick, TypeOK, RowType, Live
<1>3. ASSUME NEW r \in Receivers, Receiver(r), ~Tick
      PROVE  \/ /\ table[id].state = "free"
                /\ table'[id].item \in Items /\ table'[id].age = 0
                /\ SaveItem(r) /\ checked[r] = table'[id].item
                /\ \A y \in Ids \ {id} : table'[y] = table[y]
             \/ Live(id) /\ table'[id].item = table[id].item
                /\ table'[id].age = table[id].age
  <2>1. CASE ~SaveItem(r)
    <3>1. table' = table
      BY <1>3, <2>1 DEF Receiver, Post, CheckItem, Refuse, Accept
    <3> QED
      BY <1>1, <1>3, <3>1
  <2>2. CASE SaveItem(r)
    <3>1. PICK x \in Ids :
             /\ table[x].state = "free"
             /\ table' = [table EXCEPT ![x] =
                            [FreeRow EXCEPT !.state = "live", !.item = checked[r]]]
      BY <2>2 DEF SaveItem
    <3>2. checked[r] \in Items
      BY <1>0, <2>2 DEF SaveItem, TypeOK
    <3>3. CASE x = id
      BY <1>0, <2>2, <3>1, <3>2, <3>3 DEF FreeRow, TypeOK
    <3>4. CASE x # id
      BY <1>0, <3>1, <3>4 DEF TypeOK, Live
    <3> QED
      BY <3>3, <3>4
  <2> QED
    BY <2>1, <2>2
<1>4. ASSUME NEW w \in Workers, Elsewhere(w)
      PROVE  Live(id) /\ table'[id].item = table[id].item /\ table'[id].age = table[id].age
  BY <1>4 DEF Elsewhere, Live
<1>5. ASSUME NEW w \in Workers, ProcessNotification(w), table' # table
      PROVE  Live(id) /\ table'[id].item = table[id].item /\ table'[id].age = table[id].age
  <2>1. CASE RecordError(w)
    BY <1>4, <2>1, ErrorWrites DEF RecordError, Busy
  <2>2. CASE ~RecordError(w)
    <3>1. PICK p \in BOOLEAN, d \in BOOLEAN : UpdateNotification(w, p, d) /\ pc[w] \in Busy
      BY <1>5, <2>2 DEF ProcessNotification, RejectUnidentified, Claim, GiveUp, LeaveForRetry,
         LeaveUnhandled, Apply, MarkDone, Finish, Busy
    <3> QED
      BY <1>4, <3>1, UpdateWrites
  <2> QED
    BY <2>1, <2>2
<1>6. ASSUME NEW w \in Runners, MarkQueued(w)
      PROVE  Live(id) /\ table'[id].item = table[id].item /\ table'[id].age = table[id].age
  <2>1. w \in Workers /\ pc[w] \in Busy
    BY <1>6 DEF Workers, MarkQueued, Busy
  <2>2. obj[w] \in ObjType
    BY <2>1 DEF TypeInv, HoldsObject
  <2>3. UpdateNotification(w, TRUE, FALSE)
    BY <1>6, <2>2 DEF MarkQueued, UpdateNotification, ObjType
  <2> QED
    BY <1>4, <2>1, <2>3, UpdateWrites
<1>7. ASSUME Cleanup
      PROVE  Live(id) /\ table'[id].item = table[id].item /\ table'[id].age = table[id].age
  BY <1>0, <1>7 DEF Cleanup, SelectProcessed, DeleteSelected, Live, TypeOK, RowType
<1>8. CASE ~Tick /\ table' # table
  <2>1. \/ \E r \in Receivers : Receiver(r)
        \/ \E w \in Runners : MarkQueued(w)
        \/ \E w \in Workers : ProcessNotification(w)
        \/ Cleanup
    BY <1>8 DEF Next, Runner, StartRun, SkipDuplicate, SkipDelayed, Take, EndRun, Publish,
       Consumer, Receive, Acknowledge, Admin, ViewLink, FollowLink, Crash, vars
  <2> QED
    BY <1>3, <1>5, <1>6, <1>7, <1>8, <2>1
<1> QED
  BY <1>1, <1>2, <1>8

(* Every step keeps rows where none are to be removed, and duplicates of  *)
(* a notification out where requests come one at a time.                  *)
LEMMA StayStep ==
  ASSUME TypeInv, SoleCore, OneRunner, StayInv, [Next]_vars
  PROVE  StayInv'
<1>0. TypeOK
  BY DEF TypeInv
<1>1. LiveItems'
  BY LiveRows DEF StayInv, LiveItems
<1>2. RowsStay => doomed' = {}
  BY <1>0, NothingRemoved DEF StayInv
<1>3. ASSUME OneReceiver, OriginalsTold
      PROVE  TwinFree'
  <2>0. TwinFree /\ CheckedIsNew /\ LiveItems
    BY <1>3 DEF StayInv
  <2> SUFFICES ASSUME NEW x \in Ids, NEW y \in Ids, Live(x)', Live(y)',
                      Matches(table'[x].item, table'[y].item), x # y
               PROVE  FALSE
    BY DEF TwinFree
  <2>1. CASE Live(x) /\ Live(y)
    <3>1. table'[x].item = table[x].item /\ table'[y].item = table[y].item
      BY <2>1, StepKeepsRows DEF RowsKept, Live
    <3> QED
      BY <2>0, <2>1, <3>1 DEF TwinFree
  <2>2. CASE ~Live(x)
    <3>1. PICK r \in Receivers : /\ SaveItem(r) /\ checked[r] = table'[x].item
                                 /\ \A z \in Ids \ {x} : table'[z] = table[z]
      BY <2>2, LiveRows
    <3>2. checked[r] # NoItem
      BY <3>1 DEF SaveItem
    <3>3. Live(y) /\ Matches(checked[r], table[y].item)
      BY <3>1 DEF Live
    <3> QED
      BY <2>0, <3>2, <3>3 DEF CheckedIsNew
  <2>3. CASE ~Live(y)
    <3>1. PICK r \in Receivers : /\ SaveItem(r) /\ checked[r] = table'[y].item
                                 /\ \A z \in Ids \ {y} : table'[z] = table[z]
      BY <2>3, LiveRows
    <3>2. checked[r] # NoItem
      BY <3>1 DEF SaveItem
    <3>3. Live(x) /\ Matches(table[x].item, checked[r])
      BY <3>1 DEF Live
    <3>4. table[x].item \in Items /\ checked[r] \in Items
      BY <1>0, <2>0, <3>2, <3>3 DEF LiveItems, TypeOK
    <3>5. Matches(checked[r], table[x].item)
      BY <1>3, <3>3, <3>4 DEF OriginalsTold
    <3> QED
      BY <2>0, <3>2, <3>3, <3>5 DEF CheckedIsNew
  <2> QED
    BY <2>1, <2>2, <2>3
<1>4. ASSUME OneReceiver, OriginalsTold
      PROVE  CheckedIsNew'
  <2>0. TwinFree /\ CheckedIsNew /\ LiveItems
    BY <1>4 DEF StayInv
  <2> SUFFICES ASSUME NEW r \in Receivers, checked'[r] # NoItem, NEW y \in Ids, Live(y)'
               PROVE  ~Matches(checked'[r], table'[y].item)
    BY DEF CheckedIsNew
  <2>1. CASE \E q \in Receivers : SaveItem(q)
    <3>1. SaveItem(r)
      BY <1>4, <2>1 DEF OneReceiver
    <3>2. checked'[r] = NoItem
      BY <1>0, <3>1 DEF SaveItem, TypeOK
    <3> QED
      BY <3>2
  <2>2. CASE ~\E q \in Receivers : SaveItem(q)
    <3>1. Live(y) /\ table'[y].item = table[y].item
      BY <2>2, LiveRows
    <3>2. CASE checked'[r] = checked[r]
      BY <2>0, <3>1, <3>2 DEF CheckedIsNew
    <3>3. CASE checked'[r] # checked[r]
      <4>1. \E q \in Receivers : Receiver(q)
        BY <3>3 DEF Next, Runner, StartRun, SkipDuplicate, SkipDelayed, Take, EndRun,
           MarkQueued, Publish, Consumer, Receive, Acknowledge, Admin, ViewLink, FollowLink,
           ProcessNotification, RejectUnidentified, Claim, GiveUp, LeaveForRetry,
           LeaveUnhandled, Apply, MarkDone, RecordError, Finish, Crash, Cleanup,
           SelectProcessed, DeleteSelected, Tick, requestVars, vars
      <4>2. Receiver(r)
        BY <1>4, <4>1 DEF OneReceiver
      <4>3. CheckItem(r)
        BY <1>0, <2>2, <3>3, <4>2 DEF Receiver, Post, Refuse, Accept, EndRequest, TypeOK
      <4>4. ~IsStored(checked'[r])
        BY <1>0, <3>3, <4>3 DEF CheckItem, TypeOK
      <4> QED
        BY <3>1, <4>4 DEF IsStored
    <3> QED
      BY <3>2, <3>3
  <2> QED
    BY <2>1, <2>2
<1> QED
  BY <1>1, <1>2, <1>3, <1>4 DEF StayInv

(* An item is a notification of its own kind. *)
LEMMA MatchesItself ==
  ASSUME NEW i
  PROVE  Matches(i, i)
BY DEF Matches

(* A row that is settled and stays, stays settled. *)
LEMMA SettledStays ==
  ASSUME TypeInv, SoleCore, OneRunner, DuplicatesStay, StayInv, [Next]_vars,
         NEW id \in Ids, Live(id), Live(id)', SettledIn(table, id)
  PROVE  SettledIn(table', id)
<1>1. table[id].done => table'[id].done
  <2>1. Kept(id) \/ Arrived(id) \/ Worked(id) \/ Removed(id)
    BY SoleRowStep DEF RowStep
  <2> QED
    BY <2>1 DEF Kept, Arrived, Worked, Removed, Live
<1>2. ASSUME RowsStay, NEW y \in Ids, Live(y), table[y].done,
             Matches(table[id].item, table[y].item)
      PROVE  ProcessedIn(table', id)
  <2>1. \A z \in Ids : RowStays(z)
    BY <1>2, RowsStayStep DEF StayInv
  <2>2. /\ Live(y)' /\ table'[y].done /\ table'[y].item = table[y].item
        /\ table'[id].item = table[id].item
    BY <1>2, <2>1 DEF RowStays
  <2> QED
    BY <1>2, <2>2 DEF ProcessedIn, Live
<1>3. ASSUME OneReceiver, OriginalsTold, ProcessedIn(table, id)
      PROVE  table[id].done
  BY <1>3 DEF StayInv, TwinFree, ProcessedIn, Live
<1> QED
  BY <1>1, <1>2, <1>3 DEF SettledIn, ProcessedIn, DuplicatesStay, Live

(* The cron job starts idle with nothing left over, and only the row in    *)
(* hand is marked as being processed.                                      *)
ScheduleInv ==
  /\ due => \A w \in Runners : pc[w] = "idle"
  /\ \A w \in Runners : pc[w] = "idle" => batch[w] = {}
  /\ \A id \in Ids : Live(id) /\ table[id].processing =>
       \E w \in Runners : pc[w] \in {"claimed", "applied"} /\ obj[w].id = id

(* Every step keeps the next run of the cron job in time. *)
LEMMA ScheduleStep ==
  ASSUME TypeInv, SoleCore, OneRunner, OnTime, ScheduleInv, [Next]_vars
  PROVE  ScheduleInv'
<1>0. TypeOK /\ OthersIdle /\ ObjInv /\ RowInv
  BY DEF TypeInv, SoleCore
<1> DEFINE InWork(t, ps, os) ==
             \A id \in Ids : t[id].state = "live" /\ t[id].processing =>
                \E w \in Runners : ps[w] \in {"claimed", "applied"} /\ os[w].id = id
<1>w. InWork(table, pc, obj)
  BY DEF ScheduleInv, Live
<1>q. ASSUME due' => \A w \in Runners : pc'[w] = "idle",
             \A w \in Runners : pc'[w] = "idle" => batch'[w] = {},
             InWork(table', pc', obj')
      PROVE  ScheduleInv'
  BY <1>q DEF ScheduleInv, Live
<1>1. ASSUME UNCHANGED <<pc, obj, batch>>, due' => \A w \in Runners : pc[w] = "idle",
             \A id \in Ids : Live(id)' /\ table'[id].processing =>
                               Live(id) /\ table[id].processing
      PROVE  ScheduleInv'
  <2>1. InWork(table', pc', obj')
    BY <1>1, <1>w DEF Live
  <2> QED
    BY <1>1, <1>q, <2>1 DEF ScheduleInv
<1>2. ASSUME NEW r \in Receivers, Receiver(r)
      PROVE  ScheduleInv'
  <2>1. UNCHANGED <<pc, obj, batch, due>>
    BY <1>2 DEF Receiver, Post, CheckItem, SaveItem, Refuse, Accept, workerVars
  <2>2. \/ table' = table
        \/ \E x \in Ids : /\ table[x].state = "free"
                          /\ table' = [table EXCEPT ![x] =
                               [FreeRow EXCEPT !.state = "live", !.item = checked[r]]]
    BY <1>2 DEF Receiver, Post, CheckItem, SaveItem, Refuse, Accept
  <2>3. \A id \in Ids : Live(id)' /\ table'[id].processing =>
                           Live(id) /\ table[id].processing
    BY <1>0, <2>2 DEF FreeRow, TypeOK, Live
  <2> QED
    BY <1>1, <2>1, <2>3 DEF ScheduleInv
<1>3. CASE Cleanup \/ UNCHANGED vars
  <2>1. UNCHANGED <<pc, obj, batch, due>>
    BY <1>3 DEF Cleanup, SelectProcessed, DeleteSelected, vars, workerVars
  <2>2. \A id \in Ids : /\ table'[id].processing = table[id].processing
                        /\ Live(id)' => Live(id)
    BY <1>0, <1>3 DEF Cleanup, SelectProcessed, DeleteSelected, vars, TypeOK, RowType, Live
  <2> QED
    BY <1>1, <2>1, <2>2 DEF ScheduleInv
<1>4. CASE Tick
  <2>1. UNCHANGED <<pc, obj, batch>> /\ \A w \in Runners : pc[w] = "idle"
    BY <1>4 DEF Tick, NoWork, OnTime, Workers, workerVars
  <2>2. \A id \in Ids : /\ table'[id].processing = table[id].processing
                        /\ Live(id)' => Live(id)
    BY <1>0, <1>4 DEF Tick, TypeOK, RowType, Live
  <2> QED
    BY <1>1, <2>1, <2>2
<1>5. ASSUME NEW w \in Workers, Crash(w)
      PROVE  FALSE
  BY <1>5 DEF Crash, OnTime
<1>6. ASSUME NEW w \in Consumers, Consumer(w)
      PROVE  FALSE
  BY <1>0, <1>6, ProcessesAssumption
     DEF Consumer, Receive, Acknowledge, OthersIdle, Workers
<1>7. ASSUME NEW w \in Admins
      PROVE  FALSE
  BY <1>7 DEF OneRunner
<1>8. ASSUME NEW w \in Runners, Runner(w)
      PROVE  ScheduleInv'
  <2>0. (\A v \in Runners : v = w) /\ w \in Workers /\ QueueMode = FALSE
    BY OnlyRunner
  <2>1. table' = table /\ pc[w] \in {"idle", "loop"}
    BY <1>0, <1>8, <2>0 DEF Runner, StartRun, SkipDuplicate, SkipDelayed, Take, EndRun,
       MarkQueued, Publish, OthersIdle
  <2>2. InWork(table', pc', obj')
    BY <1>w, <2>0, <2>1
  <2>3. ~due'
    BY <1>8, <2>0, <2>1 DEF ScheduleInv, Runner, StartRun, SkipDuplicate, SkipDelayed, Take,
       EndRun, MarkQueued, Publish
  <2>4. pc'[w] = "idle" => batch'[w] = {}
    BY <1>0, <1>8, <2>0 DEF Runner, StartRun, SkipDuplicate, SkipDelayed, Take,
       EndRun, MarkQueued, Publish, TypeOK
  <2> QED
    BY <1>q, <2>0, <2>2, <2>3, <2>4
<1>9. ASSUME NEW w \in Workers, ProcessNotification(w)
      PROVE  ScheduleInv'
  <2>0. w \in Runners /\ (\A v \in Runners : v = w) /\ pc[w] \in Busy /\ pc[w] # "idle"
    <3>1. pc[w] # "idle" /\ pc[w] \in Busy
      BY <1>9 DEF ProcessNotification, RejectUnidentified, Claim, GiveUp, LeaveForRetry,
             LeaveUnhandled, Apply, MarkDone, RecordError, Finish, Busy
    <3>2. w \in Runners
      BY <1>0, <3>1 DEF OthersIdle
    <3> QED
      BY <3>1, <3>2, OnlyRunner
  <2>1. ~due' /\ \A v \in Runners : pc'[v] # "idle"
    <3>1. due' = due
      BY <1>9 DEF ProcessNotification, RejectUnidentified, Claim, GiveUp,
         LeaveForRetry, LeaveUnhandled, Apply, MarkDone, RecordError, Finish
    <3>2. \E p \in {"loop", "claimed", "applied", "erring", "done"} :
             pc' = [pc EXCEPT ![w] = p]
      BY <1>9, <2>0 DEF ProcessNotification, RejectUnidentified, Claim, GiveUp,
         LeaveForRetry, LeaveUnhandled, Apply, MarkDone, RecordError, Finish, Return
    <3>3. pc'[w] # "idle"
      BY <1>0, <2>0, <3>2 DEF TypeOK
    <3> QED
      BY <2>0, <3>1, <3>3 DEF ScheduleInv
  <2>2. CASE Claim(w)
    <3>1. UpdateNotification(w, TRUE, FALSE) /\ pc'[w] = "claimed" /\ pc[w] = "start"
      BY <1>0, <2>2 DEF Claim, TypeOK
    <3>2. Elsewhere(w) /\ obj'[w].id = obj[w].id
      BY <2>0, <3>1, UpdateWrites
    <3>3. InWork(table', pc', obj')
      BY <1>w, <2>0, <3>1, <3>2 DEF Elsewhere
    <3> QED
      BY <1>q, <2>1, <3>3
  <2>3. CASE Apply(w)
    <3>1. UNCHANGED <<table, obj>> /\ pc'[w] = "applied" /\ pc[w] = "claimed"
      BY <1>0, <2>3 DEF Apply, TypeOK
    <3>2. InWork(table', pc', obj')
      BY <1>w, <2>0, <3>1
    <3> QED
      BY <1>q, <2>1, <3>2
  <2>4. CASE RejectUnidentified(w) \/ GiveUp(w) \/ LeaveForRetry(w) \/ MarkDone(w)
    <3>1. PICK d \in BOOLEAN : UpdateNotification(w, FALSE, d)
      BY <2>4 DEF RejectUnidentified, GiveUp, LeaveForRetry, MarkDone
    <3>2. Live(obj[w].id) /\ Synchronised(obj[w])
      BY <1>0, <2>0, <2>4 DEF RejectUnidentified, GiveUp, LeaveForRetry, MarkDone, ObjInv,
         Waiting, Claimed, Synchronised
    <3>3. Elsewhere(w) /\ table'[obj[w].id].processing = FALSE
      BY <2>0, <3>1, <3>2, SoleUpdate
    <3>4. InWork(table', pc', obj')
      BY <1>w, <2>0, <3>3 DEF Elsewhere
    <3> QED
      BY <1>q, <2>1, <3>4
  <2>5. CASE RecordError(w)
    <3>1. pc[w] = "erring" /\ SetNotificationError(w) /\ Erring(obj[w])
      BY <1>0, <2>0, <2>5 DEF RecordError, ObjInv
    <3>2. /\ Elsewhere(w)
          /\ Live(obj[w].id) => table'[obj[w].id].processing = obj[w].processing
      BY <2>0, <3>1, SoleError DEF Erring
    <3>3. InWork(table', pc', obj')
      BY <1>w, <2>0, <3>1, <3>2 DEF Elsewhere, Erring, Live
    <3> QED
      BY <1>q, <2>1, <3>3
  <2>6. CASE Finish(w)
    <3>1. table' = table /\ pc[w] = "done"
      BY <2>6 DEF Finish
    <3>2. InWork(table', pc', obj')
      BY <1>w, <2>0, <3>1
    <3> QED
      BY <1>q, <2>1, <3>2
  <2> QED
    BY <1>9, <2>2, <2>3, <2>4, <2>5, <2>6 DEF ProcessNotification, LeaveUnhandled, OnTime
<1> QED
  BY <1>2, <1>3, <1>4, <1>5, <1>6, <1>7, <1>8, <1>9 DEF Next

(* The age up to which row id of table t may be without being settled. *)
Allowed(t, id) == FirstAge(t[id].item) + t[id].errors

(* The attempt of this minute is still to come. *)
Pending(id) ==
  \/ due
  \/ \E w \in Runners : \/ \E o \in batch[w] : o.id = id
                        \/ InHand(w) /\ obj[w].id = id

BudgetInv ==
  \A id \in Ids : Live(id) /\ ~SettledIn(table, id) =>
     /\ table[id].age <= Allowed(table, id)
     /\ ~Pending(id) => table[id].age < Allowed(table, id)

(* The age from which an item is processed is a number, and no less than  *)
(* the age at which the job looks at it.                                  *)
LEMMA FirstAgeType ==
  ASSUME NEW i \in Items
  PROVE  /\ FirstAge(i) \in Nat /\ FirstAge(i) >= MinAge
         /\ Delayed(i) => FirstAge(i) > DelayAge
BY BoundsAreNumbers DEF FirstAge

(* A step that makes an attempt, or leaves it pending, keeps the budgets. *)
LEMMA BudgetKept ==
  ASSUME TypeInv, SoleCore, OneRunner, OnTime, DuplicatesStay, StayInv, BudgetInv,
         [Next]_vars, ~Tick,
         \A id \in Ids : Live(id) /\ ~SettledIn(table, id) /\ Pending(id) =>
            \/ Pending(id)'
            \/ SettledIn(table', id)
            \/ Live(id)' => table[id].errors < table'[id].errors
            \/ table[id].age < Allowed(table, id)
  PROVE  BudgetInv'
<1> SUFFICES ASSUME NEW id \in Ids, Live(id)', ~SettledIn(table', id)
             PROVE  /\ table'[id].age <= Allowed(table', id)
                    /\ ~Pending(id)' => table'[id].age < Allowed(table', id)
  BY DEF BudgetInv
<1>1. /\ table[id].errors \in Nat /\ table'[id].errors \in Nat
      /\ table[id].age \in Nat /\ table'[id].age \in Nat
  <2>1. table \in [Ids -> RowType] /\ table' \in [Ids -> RowType]
    BY NextKeepsTypes DEF TypeInv, TypeOK
  <2> QED
    BY <2>1, BoundsAreNumbers DEF RowType
<1>2. table'[id].item \in Items
  BY StayStep DEF StayInv, LiveItems
<1>3. FirstAge(table'[id].item) \in Nat /\ FirstAge(table'[id].item) > 0
  BY <1>2, FirstAgeType, BoundsAreNumbers DEF OnTime
<1>4. CASE table[id].state = "free"
  <2>1. table'[id].age = 0
    BY <1>4, LiveRows DEF Live
  <2> QED
    BY <1>1, <1>3, <2>1 DEF Allowed
<1>5. CASE table[id].state # "free"
  <2>1. Live(id) /\ table'[id].item = table[id].item /\ table'[id].age = table[id].age
    BY <1>5, LiveRows
  <2>2. ~SettledIn(table, id)
    BY <2>1, SettledStays
  <2>3. table[id].errors <= table'[id].errors
    <3>1. Kept(id) \/ Arrived(id) \/ Worked(id) \/ Removed(id)
      BY SoleRowStep DEF RowStep
    <3> QED
      BY <1>1, <3>1 DEF Kept, Arrived, Worked, Removed
  <2>4. /\ table[id].age <= Allowed(table, id)
        /\ ~Pending(id) => table[id].age < Allowed(table, id)
    BY <2>1, <2>2 DEF BudgetInv
  <2>5. Allowed(table', id) - Allowed(table, id) = table'[id].errors - table[id].errors
        /\ Allowed(table, id) \in Nat /\ Allowed(table', id) \in Nat
    BY <1>1, <1>3, <2>1 DEF Allowed
  <2>6. ~Pending(id)' => table'[id].age < Allowed(table', id)
    <3> SUFFICES ASSUME ~Pending(id)'
                 PROVE  table'[id].age < Allowed(table', id)
      OBVIOUS
    <3>1. \/ table[id].errors < table'[id].errors
          \/ table[id].age < Allowed(table, id)
      BY <2>1, <2>2, <2>4
    <3> QED
      BY <1>1, <2>1, <2>3, <2>4, <2>5, <3>1
  <2> QED
    BY <1>1, <2>1, <2>3, <2>4, <2>5, <2>6
<1> QED
  BY <1>4, <1>5

(* Every step keeps the time that is left to a notification enough for    *)
(* the attempts it has left.                                              *)
LEMMA BudgetStep ==
  ASSUME TypeInv, SoleCore, OneRunner, OnTime, DuplicatesStay, StayInv, ScheduleInv,
         BudgetInv, [Next]_vars
  PROVE  BudgetInv'
<1>0. TypeOK /\ OthersIdle /\ ObjInv /\ RowInv /\ BatchInv
  BY DEF TypeInv, SoleCore
<1>1. CASE Tick
  <2>1. /\ ~due /\ due'
        /\ \A w \in Runners : pc[w] = "idle" /\ batch[w] = {}
    BY <1>1 DEF Tick, NoWork, OnTime, Workers, ScheduleInv
  <2>2. \A id \in Ids : ~Pending(id) /\ Pending(id)'
    BY <2>1 DEF Pending, InHand
  <2>3. \A id \in Ids :
          /\ table'[id].state = table[id].state /\ table'[id].item = table[id].item
          /\ table'[id].done = table[id].done /\ table'[id].errors = table[id].errors
          /\ table'[id].age = table[id].age \/ table'[id].age = table[id].age + 1
    BY <1>0, <1>1 DEF Tick, TypeOK, RowType
  <2> SUFFICES ASSUME NEW id \in Ids, Live(id)', ~SettledIn(table', id)
               PROVE  table'[id].age <= Allowed(table', id)
    BY <2>2 DEF BudgetInv
  <2>4. Live(id) /\ ~SettledIn(table, id)
    BY <2>3 DEF Live, SettledIn, ProcessedIn
  <2>5. table[id].age < Allowed(table, id) /\ Allowed(table', id) = Allowed(table, id)
    BY <2>2, <2>3, <2>4 DEF BudgetInv, Allowed
  <2>6. table[id].age \in Nat /\ Allowed(table, id) \in Nat
    <3>1. table[id].errors \in Nat /\ table[id].age \in Nat
      BY <1>0, BoundsAreNumbers DEF TypeOK, RowType
    <3>2. FirstAge(table[id].item) \in Nat
      BY <2>4, FirstAgeType DEF StayInv, LiveItems
    <3> QED
      BY <3>1, <3>2 DEF Allowed
  <2> QED
    BY <2>3, <2>5, <2>6
<1>2. ASSUME ~Tick, UNCHANGED <<pc, obj, batch, due>>
      PROVE  BudgetInv'
  <2>1. \A id \in Ids : Pending(id) => Pending(id)'
    BY <1>2 DEF Pending, InHand
  <2> QED
    BY <1>2, <2>1, BudgetKept
<1>3. ASSUME NEW r \in Receivers, Receiver(r), ~Tick
      PROVE  BudgetInv'
  BY <1>2, <1>3 DEF Receiver, Post, CheckItem, SaveItem, Refuse, Accept, workerVars
<1>4. CASE (Cleanup \/ UNCHANGED vars) /\ ~Tick
  BY <1>2, <1>4 DEF Cleanup, SelectProcessed, DeleteSelected, vars, workerVars
<1>5. ASSUME NEW w \in Workers, Crash(w)
      PROVE  FALSE
  BY <1>5 DEF Crash, OnTime
<1>6. ASSUME NEW w \in Consumers, Consumer(w)
      PROVE  FALSE
  BY <1>0, <1>6, ProcessesAssumption
     DEF Consumer, Receive, Acknowledge, OthersIdle, Workers
<1>7. ASSUME NEW w \in Admins
      PROVE  FALSE
  BY <1>7 DEF OneRunner
<1>8. ASSUME NEW w \in Runners, Runner(w), ~Tick
      PROVE  BudgetInv'
  <2>0. (\A v \in Runners : v = w) /\ w \in Workers /\ QueueMode = FALSE
    BY OnlyRunner
  <2>p. \A id \in Ids : Pending(id) <=> \/ due \/ \E o \in batch[w] : o.id = id
                                        \/ InHand(w) /\ obj[w].id = id
    BY <2>0 DEF Pending
  <2>q. \A id \in Ids : Pending(id)' <=> \/ due' \/ \E o \in batch'[w] : o.id = id
                                         \/ InHand(w)' /\ obj'[w].id = id
    BY <2>0 DEF Pending
  <2>1. CASE StartRun(w)
    <3> SUFFICES ASSUME NEW id \in Ids, Live(id), ~SettledIn(table, id),
                        ~(table[id].age < Allowed(table, id))
                 PROVE  Pending(id)'
      BY <1>8, BudgetKept
    <3>1. /\ table[id].age = Allowed(table, id)
          /\ table[id].age >= MinAge /\ table[id].age <= MaxAge
          /\ table[id].errors < MaxErrors
      <4>1. table[id].errors \in Nat /\ table[id].age \in Nat
        BY <1>0, BoundsAreNumbers DEF TypeOK, RowType
      <4>2. /\ FirstAge(table[id].item) \in Nat /\ FirstAge(table[id].item) >= MinAge
            /\ FirstAge(table[id].item) + MaxErrors <= MaxAge + 1
        BY FirstAgeType DEF StayInv, LiveItems, OnTime
      <4>3. table[id].age <= Allowed(table, id)
        BY DEF BudgetInv
      <4>4. table[id].errors <= MaxErrors /\ table[id].errors # MaxErrors
        BY <1>0 DEF RowInv, SettledIn
      <4> QED
        BY <4>1, <4>2, <4>3, <4>4, BoundsAreNumbers DEF Allowed
    <3>2. ~table[id].processing
      <4>1. pc[w] = "idle"
        BY <2>1 DEF StartRun
      <4> QED
        BY <2>0, <4>1 DEF ScheduleInv
    <3>3. Eligible(id)
      <4>1. table[id].age \in Nat
        BY <1>0, BoundsAreNumbers DEF TypeOK, RowType
      <4> QED
        BY <3>1, <3>2, <4>1, BoundsAreNumbers DEF Eligible, SettledIn
    <3>4. batch'[w] = {Snapshot(i) : i \in {j \in Ids : Eligible(j)}}
      BY <1>0, <2>0, <2>1 DEF StartRun, TypeOK
    <3>5. Snapshot(id) \in batch'[w] /\ Snapshot(id).id = id
      BY <3>3, <3>4 DEF Snapshot
    <3> QED
      BY <2>q, <3>5
  <2>2. CASE SkipDuplicate(w)
    <3>1. PICK o \in batch[w] : IsProcessed(o.id) /\ LeaveLoop(w, o)
      BY <2>2 DEF SkipDuplicate
    <3>2. batch'[w] = batch[w] \ {o} /\ UNCHANGED <<pc, obj, due>>
      BY <1>0, <2>0, <2>2, <3>1 DEF SkipDuplicate, LeaveLoop, TypeOK
    <3>3. SettledIn(table, o.id)
      BY <3>1 DEF SettledIn, ProcessedIn, IsProcessed, Live
    <3>4. \A id \in Ids : ~SettledIn(table, id) /\ Pending(id) => Pending(id)'
      BY <2>p, <2>q, <3>2, <3>3 DEF InHand
    <3> QED
      BY <1>8, <3>4, BudgetKept
  <2>3. CASE SkipDelayed(w)
    <3>1. PICK o \in batch[w] : StillDelayed(o.id) /\ LeaveLoop(w, o)
      BY <2>3 DEF SkipDelayed
    <3>2. batch'[w] = batch[w] \ {o} /\ UNCHANGED <<pc, obj, due>>
      BY <1>0, <2>0, <2>3, <3>1 DEF SkipDelayed, LeaveLoop, TypeOK
    <3>3. table[o.id].age < Allowed(table, o.id)
      <4>1. o.id \in Ids /\ Live(o.id)
        BY <1>0, <2>0 DEF TypeOK, ObjType, BatchInv, Waiting
      <4>2. table[o.id].errors \in Nat /\ table[o.id].age \in Nat
        BY <1>0, <4>1, BoundsAreNumbers DEF TypeOK, RowType
      <4>3. /\ FirstAge(table[o.id].item) \in Nat
            /\ FirstAge(table[o.id].item) > DelayAge
        BY <3>1, <4>1, FirstAgeType DEF StayInv, LiveItems, StillDelayed
      <4>4. table[o.id].age <= DelayAge
        BY <3>1 DEF StillDelayed
      <4> QED
        BY <4>2, <4>3, <4>4, BoundsAreNumbers DEF Allowed
    <3>4. \A id \in Ids : Pending(id) => Pending(id)' \/ table[id].age < Allowed(table, id)
      BY <2>p, <2>q, <3>2, <3>3 DEF InHand
    <3> QED
      BY <1>8, <3>4, BudgetKept
  <2>4. CASE Take(w)
    <3>1. PICK o \in batch[w] : LeaveLoop(w, o) /\ obj' = [obj EXCEPT ![w] = o]
      BY <2>4 DEF Take
    <3>2. /\ batch'[w] = batch[w] \ {o} /\ due' = due /\ obj'[w] = o
          /\ pc[w] = "loop" /\ pc'[w] = "start"
      BY <1>0, <2>0, <2>4, <3>1 DEF Take, LeaveLoop, TypeOK
    <3>3. \A id \in Ids : Pending(id) => Pending(id)'
      BY <2>p, <2>q, <3>2 DEF InHand
    <3> QED
      BY <1>8, <3>3, BudgetKept
  <2>5. CASE EndRun(w)
    <3>1. pc[w] = "loop" /\ UNCHANGED <<batch, due>>
      BY <2>5 DEF EndRun
    <3>2. \A id \in Ids : Pending(id) => Pending(id)'
      BY <2>p, <2>q, <3>1 DEF InHand
    <3> QED
      BY <1>8, <3>2, BudgetKept
  <2>6. ~MarkQueued(w) /\ ~Publish(w)
    BY <1>0 DEF MarkQueued, Publish, OthersIdle
  <2> QED
    BY <1>8, <2>1, <2>2, <2>3, <2>4, <2>5, <2>6 DEF Runner
<1>9. ASSUME NEW w \in Workers, ProcessNotification(w), ~Tick
      PROVE  BudgetInv'
  <2>0. w \in Runners /\ (\A v \in Runners : v = w) /\ pc[w] \in Busy
    <3>1. pc[w] # "idle" /\ pc[w] \in Busy
      BY <1>9 DEF ProcessNotification, RejectUnidentified, Claim, GiveUp, LeaveForRetry,
             LeaveUnhandled, Apply, MarkDone, RecordError, Finish, Busy
    <3>2. w \in Runners
      BY <1>0, <3>1 DEF OthersIdle
    <3> QED
      BY <3>1, <3>2, OnlyRunner
  <2>1. UNCHANGED <<batch, due>>
    BY <1>9 DEF ProcessNotification, RejectUnidentified, Claim, GiveUp, LeaveForRetry,
       LeaveUnhandled, Apply, MarkDone, RecordError, Finish
  <2>2. ASSUME InHand(w)', obj'[w].id = obj[w].id
        PROVE  BudgetInv'
    <3>1. \A id \in Ids : Pending(id) => Pending(id)'
      BY <2>0, <2>1, <2>2 DEF Pending
    <3> QED
      BY <1>9, <3>1, BudgetKept
  <2>3. ASSUME ~InHand(w) \/ SettledIn(table', obj[w].id)
        PROVE  BudgetInv'
    <3>1. \A id \in Ids : Pending(id) => Pending(id)' \/ SettledIn(table', id)
      BY <2>0, <2>1, <2>3 DEF Pending
    <3> QED
      BY <1>9, <3>1, BudgetKept
  <2>4. CASE RejectUnidentified(w) \/ GiveUp(w) \/ LeaveForRetry(w) \/ Claim(w)
    <3>1. PICK p \in BOOLEAN, d \in BOOLEAN : UpdateNotification(w, p, d)
      BY <2>4 DEF RejectUnidentified, GiveUp, LeaveForRetry, Claim
    <3>2. pc'[w] \in {"erring", "claimed"}
      BY <1>0, <2>4 DEF RejectUnidentified, GiveUp, LeaveForRetry, Claim, TypeOK
    <3>3. obj'[w].id = obj[w].id
      BY <2>0, <3>1, UpdateWrites
    <3> QED
      BY <2>2, <3>2, <3>3 DEF InHand
  <2>5. CASE Apply(w)
    <3>1. pc'[w] = "applied" /\ obj' = obj
      BY <1>0, <2>5 DEF Apply, TypeOK
    <3> QED
      BY <2>2, <3>1 DEF InHand
  <2>6. CASE MarkDone(w)
    <3>1. UpdateNotification(w, FALSE, TRUE) /\ Claimed(obj[w])
      BY <1>0, <2>0, <2>6 DEF MarkDone, ObjInv
    <3>2. table'[obj[w].id].done
      BY <2>0, <3>1, SoleUpdate DEF Claimed, Synchronised
    <3> QED
      BY <2>3, <3>2 DEF SettledIn
  <2>7. CASE RecordError(w)
    <3>1. SetNotificationError(w) /\ Erring(obj[w]) /\ obj[w] \in ObjType
      BY <1>0, <2>0, <2>7 DEF RecordError, ObjInv, TypeInv, HoldsObject
    <3>2. Elsewhere(w) /\ (Live(obj[w].id) =>
                             table'[obj[w].id].errors = obj[w].errors + 1)
      BY <2>0, <3>1, SoleError DEF Erring
    <3>3. /\ obj[w].id \in Ids /\ obj[w].errors \in Nat
          /\ table[obj[w].id].errors = obj[w].errors
      BY <3>1, BoundsAreNumbers DEF Erring, Agrees, ObjType
    <3>4. table'[obj[w].id].state = table[obj[w].id].state
      BY <3>2, <3>3 DEF Elsewhere
    <3>5. table'[obj[w].id].state = "live" => table[obj[w].id].errors < table'[obj[w].id].errors
      BY <3>2, <3>3, <3>4 DEF Live
    <3>6. ASSUME NEW x \in Ids, x = obj[w].id
          PROVE  Live(x)' => table[x].errors < table'[x].errors
      BY <3>5, <3>6 DEF Live
    <3>7. \A id \in Ids : Pending(id) =>
            \/ Pending(id)'
            \/ Live(id)' => table[id].errors < table'[id].errors
      BY <2>0, <2>1, <3>6 DEF Pending
    <3> QED
      BY <1>9, <3>7, BudgetKept
  <2>8. CASE Finish(w)
    <3>1. ~InHand(w)
      BY <2>8 DEF Finish, InHand
    <3> QED
      BY <2>3, <3>1
  <2> QED
    BY <1>9, <2>4, <2>5, <2>6, <2>7, <2>8 DEF ProcessNotification, LeaveUnhandled, OnTime
<1> QED
  BY <1>1, <1>2, <1>3, <1>4, <1>5, <1>6, <1>7, <1>8, <1>9 DEF Next

TimeInv == StayInv /\ ScheduleInv /\ BudgetInv

(* Cron/WebhookProcessor.php keeps its promise to retry until the error    *)
(* budget is used up: with each minute's work done in the minute a row is  *)
(* settled MAX_ERROR_COUNT minutes after it may first be processed, which  *)
(* is ten minutes later for the kinds of notification that are delayed.    *)
THEOREM SettledByTheDeadline ==
  ASSUME OneRunner, OnTime, DuplicatesStay
  PROVE  Spec => []SettledInTime
<1>1. Init => TimeInv
  <2> SUFFICES ASSUME Init
               PROVE  TimeInv
    OBVIOUS
  <2>1. \A id \in Ids : ~Live(id)
    BY DEF Init, FreeRow, Live
  <2>2. StayInv
    BY <2>1 DEF Init, StayInv, LiveItems, TwinFree, CheckedIsNew
  <2>3. ScheduleInv
    BY <2>1 DEF Init, ScheduleInv, Workers
  <2> QED
    BY <2>1, <2>2, <2>3 DEF TimeInv, BudgetInv
<1>2. SoleInv /\ TimeInv /\ [Next]_vars => TimeInv'
  BY StayStep, ScheduleStep, BudgetStep DEF SoleInv, TimeInv
<1>3. SoleInv /\ TimeInv => SettledInTime
  <2> SUFFICES ASSUME SoleInv, TimeInv, NEW id \in Ids, Live(id),
                      table[id].age >= FirstAge(table[id].item) + MaxErrors
               PROVE  Settled(id)
    BY DEF SettledInTime, FirstAge
  <2>1. SettledIn(table, id) => Settled(id)
    BY DEF SettledIn, Settled, ProcessedIn, IsProcessed, Live
  <2>2. CASE ~SettledIn(table, id)
    <3>1. table[id].age <= Allowed(table, id)
      BY <2>2 DEF TimeInv, BudgetInv
    <3>2. table[id].errors \in Nat /\ table[id].age \in Nat
      BY BoundsAreNumbers DEF SoleInv, TypeInv, TypeOK, RowType
    <3>3. FirstAge(table[id].item) \in Nat
      BY FirstAgeType DEF TimeInv, StayInv, LiveItems
    <3>4. table[id].errors >= MaxErrors
      BY <3>1, <3>2, <3>3, BoundsAreNumbers DEF Allowed
    <3>5. /\ table[id].errors <= MaxErrors
          /\ table[id].errors = MaxErrors => table[id].done
      BY DEF SoleInv, SoleCore, RowInv
    <3>6. table[id].done
      BY <3>2, <3>4, <3>5, BoundsAreNumbers
    <3> QED
      BY <2>1, <3>6 DEF SettledIn
  <2> QED
    BY <2>1, <2>2
<1> QED
  BY <1>1, <1>2, <1>3, SoleInvariant, PTL DEF Spec

(***************************************************************************)
(* Queue mode: what a row does to its order is saved once, however its      *)
(* copies travel through messages and consumers                            *)
(***************************************************************************)

(* The default with a queue: the cron job publishes, nobody reprocesses,   *)
(* and the broker does not deliver a message again.                        *)
OneQueue ==
  /\ QueueMode = TRUE /\ Admins = {} /\ "redeliver" \notin Faults
  /\ \E w : Runners = {w}

(* Copies of a row that may still be applied: in a worker's hands, in a    *)
(* message, in the runner's batch.                                         *)
IsAhead(w) == pc[w] \in {"enqueue", "publish", "start", "claimed"}
IsSent(s) == queue[s] # NoObj

(* A row has at most one of them. *)
LoneCopies ==
  /\ \A v, w \in Workers : IsAhead(v) /\ IsAhead(w) /\ obj[v].id = obj[w].id => v = w
  /\ \A s, t \in Slots : IsSent(s) /\ IsSent(t) /\ queue[s].id = queue[t].id => s = t
  /\ \A w \in Workers, s \in Slots : IsAhead(w) /\ IsSent(s) => obj[w].id # queue[s].id
  /\ \A r \in Runners : \A o \in batch[r] :
       /\ \A p \in batch[r] : p.id = o.id => p = o
       /\ \A w \in Workers : IsAhead(w) => obj[w].id # o.id
       /\ \A s \in Slots : IsSent(s) => queue[s].id # o.id

Untouched(o) == applied[o.id] = 0 /\ table[o.id].state # "free" /\ ~o.done
Announced(o) == Live(o.id) => table[o.id].processing

(* The runner only publishes, consumers only process. *)
RolesInv ==
  /\ \A w \in Runners : pc[w] \in {"idle", "loop", "enqueue", "publish"}
  /\ \A w \in Consumers : pc[w] \notin {"loop", "enqueue", "publish"}

(* A copy that may still be applied was not, and its row is in progress    *)
(* from the moment at which it is published.                               *)
CopiesInv ==
  /\ \A r \in Runners : \A o \in batch[r] : Untouched(o) /\ ~o.processing
  /\ \A w \in Workers : pc[w] = "enqueue" => Untouched(obj[w]) /\ ~obj[w].processing
  /\ \A w \in Workers : pc[w] \in {"publish", "start", "claimed"} =>
       Untouched(obj[w]) /\ Announced(obj[w])
  /\ \A s \in Slots : IsSent(s) => Untouched(queue[s]) /\ Announced(queue[s])

(* Nothing takes an applied row back to those that wait. *)
AppliedInv ==
  /\ \A w \in Workers : pc[w] = "applied" => ~obj[w].done /\ applied[obj[w].id] > 0
  /\ \A w \in Workers : pc[w] = "erring" => obj[w].dirty = {}
  /\ \A id \in Ids : applied[id] > 0 =>
       /\ applied[id] = 1
       /\ table[id].state # "free"
       /\ Live(id) => table[id].done \/ table[id].processing

QueueInv == RolesInv /\ LoneCopies /\ CopiesInv /\ AppliedInv

(* A save of updateNotification, as far as the flags go. *)
LEMMA UpdateFlags ==
  ASSUME TypeInv, NEW w \in Workers, pc[w] \in Busy,
         NEW p \in BOOLEAN, NEW d \in BOOLEAN, UpdateNotification(w, p, d)
  PROVE  LET x == obj[w].id IN
         /\ Elsewhere(w)
         /\ obj'[w].id = x /\ obj'[w].dirty = {} /\ obj'[w].done = (obj[w].done \/ d)
         /\ Live(x) /\ table[x].processing = p => table'[x].processing = p
         /\ Live(x) /\ obj[w].processing # p => table'[x].processing = p
         /\ Live(x) /\ d /\ ~obj[w].done => table'[x].done
<1> DEFINE o == Assign(obj[w], obj[w].done \/ d, p, obj[w].errors)
<1>1. obj[w] \in ObjType /\ TypeOK
  BY DEF TypeInv, HoldsObject
<1>2. o \in ObjType
  <2>1. obj[w].done \in BOOLEAN /\ obj[w].errors \in 0..ErrorCap
    BY <1>1 DEF ObjType
  <2> QED BY <1>1, <2>1, AssignType
<1>3. Save(w, o)
  BY DEF UpdateNotification
<1>4. /\ o.id = obj[w].id /\ o.processing = p /\ o.done = (obj[w].done \/ d)
      /\ obj[w].processing # p => "processing" \in o.dirty
      /\ d /\ ~obj[w].done => "done" \in o.dirty
  <2>1. obj[w].done \in BOOLEAN
    BY <1>1 DEF ObjType
  <2> QED
    BY <2>1 DEF Assign, Changed
<1> HIDE DEF o
<1>5. /\ \A id \in Ids : id # o.id => table'[id] = table[id]
      /\ Live(o.id) => table'[o.id] = Written(table[o.id], o)
      /\ \A id \in Ids : /\ table'[id].state = table[id].state
                          /\ table'[id].item = table[id].item
                          /\ table'[id].age = table[id].age
      /\ obj' = [obj EXCEPT ![w] = [o EXCEPT !.dirty = {}]]
  BY <1>1, <1>2, <1>3, SaveEffect
<1>6. table[o.id] \in RowType
  BY <1>1, <1>2 DEF TypeOK, ObjType
<1>7. /\ Written(table[o.id], o).processing =
           IF "processing" \in o.dirty THEN o.processing ELSE table[o.id].processing
      /\ Written(table[o.id], o).done =
           IF "done" \in o.dirty THEN o.done ELSE table[o.id].done
  BY <1>6 DEF Written, RowType
<1>8. Elsewhere(w)
  BY <1>1, <1>4, <1>5 DEF Elsewhere, TypeOK
<1>9. obj'[w].id = o.id /\ obj'[w].dirty = {} /\ obj'[w].done = o.done
  BY <1>1, <1>2, <1>5 DEF TypeOK, ObjType
<1> QED
  BY <1>4, <1>5, <1>7, <1>8, <1>9

(* Recording an error writes neither flag, but may say that a row is done. *)
LEMMA ErrorFlags ==
  ASSUME TypeInv, NEW w \in Workers, pc[w] = "erring", obj[w].dirty = {},
         SetNotificationError(w)
  PROVE  LET x == obj[w].id IN
         /\ Elsewhere(w)
         /\ obj'[w].id = x
         /\ table'[x].processing = table[x].processing
         /\ table[x].done => table'[x].done
<1> DEFINE e == IF obj[w].errors < ErrorCap THEN obj[w].errors + 1 ELSE obj[w].errors
           a == Assign(obj[w], obj[w].done \/ e = MaxErrors, obj[w].processing, e)
           o == [a EXCEPT !.dirty = @ \cup {"errors"}]
<1>1. obj[w] \in ObjType /\ TypeOK
  BY DEF TypeInv, HoldsObject, Busy
<1>2. /\ obj[w].processing \in BOOLEAN /\ obj[w].done \in BOOLEAN
      /\ e \in 0..ErrorCap
  BY <1>1, BoundsAreNumbers DEF ObjType
<1>3. Save(w, o)
  BY DEF SetNotificationError
<1> HIDE DEF e
<1>4. a \in ObjType
  BY <1>1, <1>2, AssignType
<1>5. /\ a.id = obj[w].id
      /\ "processing" \notin a.dirty
      /\ "done" \in a.dirty => a.done
  BY <1>2 DEF Assign, Changed
<1> HIDE DEF a
<1>6. /\ o \in ObjType
      /\ o.id = obj[w].id
      /\ "processing" \notin o.dirty
      /\ "done" \in o.dirty => o.done
  BY <1>4, <1>5, CountType DEF ObjType
<1> HIDE DEF o
<1>7. /\ \A id \in Ids : id # o.id => table'[id] = table[id]
      /\ ~Live(o.id) => table' = table
      /\ Live(o.id) => table'[o.id] = Written(table[o.id], o)
      /\ \A id \in Ids : /\ table'[id].state = table[id].state
                          /\ table'[id].item = table[id].item
                          /\ table'[id].age = table[id].age
      /\ obj' = [obj EXCEPT ![w] = [o EXCEPT !.dirty = {}]]
  BY <1>1, <1>3, <1>6, SaveEffect
<1>8. table[o.id] \in RowType
  BY <1>1, <1>6 DEF TypeOK, ObjType
<1>9. /\ Written(table[o.id], o).processing = table[o.id].processing
      /\ table[o.id].done => Written(table[o.id], o).done
  BY <1>6, <1>8 DEF Written, RowType
<1>10. Elsewhere(w)
  BY <1>1, <1>6, <1>7 DEF Elsewhere, TypeOK
<1>11. obj'[w].id = o.id
  BY <1>1, <1>6, <1>7 DEF TypeOK, ObjType
<1> QED
  BY <1>6, <1>7, <1>9, <1>10, <1>11

(* What arrives, ages or is removed is no row that is copied or applied,   *)
(* or keeps its flags.                                                     *)
LEMMA QueueRows ==
  ASSUME TypeInv, QueueInv, UNCHANGED <<applied, pc, obj, batch, queue>>,
         \A id \in Ids : table[id].state # "free" =>
            /\ table'[id].state # "free"
            /\ Live(id)' => Live(id)
            /\ table'[id].done = table[id].done
            /\ table'[id].processing = table[id].processing
  PROVE  QueueInv'
<1> USE DEF TypeInv, TypeOK, HoldsObject, Busy
<1>1. RolesInv' /\ LoneCopies'
  BY DEF QueueInv, RolesInv, LoneCopies, IsAhead, IsSent
<1>2. \A o \in ObjType : /\ Untouched(o) => Untouched(o)'
                         /\ Untouched(o) /\ Announced(o) => Announced(o)'
  BY DEF Untouched, Announced, ObjType, Live
<1>3. CopiesInv'
  <2>1. \A s \in Slots : IsSent(s) => queue[s] \in ObjType
    BY DEF IsSent
  <2>2. \A r \in Runners : batch[r] \subseteq ObjType
    BY DEF Workers
  <2> QED
    BY <1>2, <2>1, <2>2 DEF QueueInv, CopiesInv, IsSent
<1>4. AppliedInv'
  BY DEF QueueInv, AppliedInv, Live
<1> QED
  BY <1>1, <1>3, <1>4 DEF QueueInv

(* A worker lets go of what it holds. *)
LEMMA QueueDrop ==
  ASSUME TypeInv, QueueInv, NEW w \in Workers, UNCHANGED <<table, applied, queue>>,
         NEW p \in {"idle", "loop", "ack"}, pc' = [pc EXCEPT ![w] = p],
         p = "loop" => w \notin Consumers, p = "ack" => w \notin Runners,
         \A v \in Workers : v # w => obj'[v] = obj[v],
         \A r \in Runners : batch'[r] \subseteq batch[r]
  PROVE  QueueInv'
<1> USE DEF TypeInv, TypeOK
<1>1. \A v \in Workers : v # w => pc'[v] = pc[v] /\ obj'[v] = obj[v]
  OBVIOUS
<1>2. pc'[w] = p
  OBVIOUS
<1>3. RolesInv'
  BY <1>1, <1>2 DEF QueueInv, RolesInv, Workers
<1>4. \A v \in Workers : IsAhead(v)' => v # w /\ IsAhead(v) /\ obj'[v] = obj[v]
  BY <1>1, <1>2 DEF IsAhead
<1>5. LoneCopies'
  BY <1>4 DEF QueueInv, LoneCopies, IsSent
<1>6. CopiesInv'
  BY <1>1, <1>2 DEF QueueInv, CopiesInv, IsSent, Untouched, Announced, Live
<1>7. AppliedInv'
  BY <1>1, <1>2 DEF QueueInv, AppliedInv, Live
<1> QED
  BY <1>3, <1>5, <1>6, <1>7 DEF QueueInv

(* A worker writes its row: no other copy of it is meant to be applied.    *)
LEMMA QueueWrite ==
  ASSUME TypeInv, QueueInv, NEW w \in Workers, UNCHANGED <<applied, queue, batch>>,
         NEW x \in Ids, obj[w].id = x, Elsewhere(w), obj'[w].id = x,
         NEW p \in {"publish", "claimed", "erring", "done"}, pc' = [pc EXCEPT ![w] = p],
         p = "publish" <=> w \in Runners,
         p \in {"publish", "claimed"} =>
            IsAhead(w) /\ ~obj'[w].done /\ (Live(x) => table'[x].processing),
         p = "erring" => obj'[w].dirty = {},
         \/ IsAhead(w)
         \/ pc[w] = "applied"
         \/ table'[x].processing = table[x].processing,
         applied[x] > 0 /\ Live(x) => table'[x].done \/ table'[x].processing
  PROVE  QueueInv'
<1> USE DEF TypeInv, TypeOK
<1>1. \A v \in Workers : v # w => pc'[v] = pc[v] /\ obj'[v] = obj[v]
  BY DEF Elsewhere
<1>2. pc'[w] = p
  OBVIOUS
<1>3. \A id \in Ids : id # x => table'[id] = table[id]
  BY DEF Elsewhere
<1>4. \A id \in Ids : table'[id].state = table[id].state
  BY DEF Elsewhere
<1>5. RolesInv'
  BY <1>1, <1>2, ProcessesAssumption DEF QueueInv, RolesInv, Workers
<1>6. LoneCopies'
  <2>1. \A v \in Workers : IsAhead(v)' => IsAhead(v) /\ obj'[v].id = obj[v].id
    BY <1>1, <1>2 DEF IsAhead
  <2> QED
    BY <2>1 DEF QueueInv, LoneCopies, IsSent
<1>7. \A o \in ObjType : Untouched(o) => Untouched(o)'
  BY <1>4 DEF Untouched, ObjType
<1>8. \A o \in ObjType : Announced(o) /\ (o.id = x => table'[x].processing = table[x].processing)
                           => Announced(o)'
  BY <1>3, <1>4 DEF Announced, Live, ObjType
<1>9. \A o \in ObjType : Untouched(o) /\ Announced(o) /\ (IsAhead(w) => o.id # x) => Announced(o)'
  BY <1>8 DEF Untouched, QueueInv, AppliedInv
<1>10. CopiesInv'
  <2>1. \A r \in Runners : \A o \in batch'[r] : Untouched(o)' /\ ~o.processing
    BY <1>7 DEF QueueInv, CopiesInv, Workers
  <2>2. ASSUME NEW v \in Workers, v # w, IsAhead(v)
        PROVE  /\ Untouched(obj[v])'
               /\ pc[v] # "enqueue" => Announced(obj[v])'
               /\ pc[v] = "enqueue" => ~obj[v].processing
    <3>1. obj[v] \in ObjType /\ obj'[v] = obj[v]
      BY <1>1, <2>2 DEF HoldsObject, Busy, IsAhead
    <3>2. IsAhead(w) => obj[v].id # x
      BY <2>2 DEF QueueInv, LoneCopies
    <3>3. Untouched(obj[v]) /\ (pc[v] # "enqueue" => Announced(obj[v]))
      BY <2>2 DEF QueueInv, CopiesInv, IsAhead
    <3>4. /\ (Untouched(obj[v]))' <=> applied'[obj[v].id] = 0 /\ table'[obj[v].id].state # "free" /\ ~obj[v].done
          /\ (Announced(obj[v]))' <=> (table'[obj[v].id].state = "live" => table'[obj[v].id].processing)
      BY <3>1 DEF Untouched, Announced, Live
    <3>5. /\ applied'[obj[v].id] = 0 /\ table'[obj[v].id].state # "free" /\ ~obj[v].done
          /\ pc[v] # "enqueue" => (table'[obj[v].id].state = "live" => table'[obj[v].id].processing)
      BY <1>7, <1>9, <3>1, <3>2, <3>3 DEF Untouched, Announced, Live
    <3>6. pc[v] = "enqueue" => ~obj[v].processing
      BY <2>2 DEF QueueInv, CopiesInv
    <3> QED
      BY <3>4, <3>5, <3>6
  <2>3. IsAhead(w)' => Untouched(obj[w])' /\ Announced(obj[w])'
    <3>1. SUFFICES ASSUME p \in {"publish", "claimed"}
                   PROVE  Untouched(obj[w])' /\ Announced(obj[w])'
      BY <1>2 DEF IsAhead
    <3>2. Untouched(obj[w])
      BY <3>1 DEF QueueInv, CopiesInv, IsAhead
    <3> QED
      BY <1>4, <3>1, <3>2 DEF Untouched, Announced, Live
  <2>4. \A s \in Slots : IsSent(s)' => Untouched(queue[s])' /\ Announced(queue[s])'
    <3> SUFFICES ASSUME NEW s \in Slots, IsSent(s)
                 PROVE  Untouched(queue[s])' /\ Announced(queue[s])'
      BY DEF IsSent
    <3>1. queue[s] \in ObjType /\ queue' = queue
      BY DEF IsSent
    <3>2. IsAhead(w) => queue[s].id # x
      BY DEF QueueInv, LoneCopies
    <3>3. Untouched(queue[s]) /\ Announced(queue[s])
      BY DEF QueueInv, CopiesInv
    <3> QED
      BY <1>7, <1>9, <3>1, <3>2, <3>3 DEF Untouched, Announced, Live
  <2>5. \A v \in Workers : pc'[v] \in {"enqueue", "publish", "start", "claimed"} => v = w \/ IsAhead(v)
    BY <1>1 DEF IsAhead
  <2> QED
    BY <1>1, <1>2, <2>1, <2>2, <2>3, <2>4, <2>5 DEF CopiesInv, IsAhead, IsSent
<1>11. AppliedInv'
  <2>1. \A v \in Workers : pc'[v] = "applied" => ~obj'[v].done /\ applied'[obj'[v].id] > 0
    BY <1>1, <1>2 DEF QueueInv, AppliedInv
  <2>2. \A v \in Workers : pc'[v] = "erring" => obj'[v].dirty = {}
    BY <1>1, <1>2 DEF QueueInv, AppliedInv
  <2>3. \A id \in Ids : applied'[id] > 0 =>
          /\ applied'[id] = 1
          /\ table'[id].state # "free"
          /\ table'[id].state = "live" => table'[id].done \/ table'[id].processing
    BY <1>3, <1>4 DEF QueueInv, AppliedInv, Live
  <2> QED
    BY <2>1, <2>2, <2>3 DEF AppliedInv, Live
<1> QED
  BY <1>5, <1>6, <1>10, <1>11 DEF QueueInv

(* The cron job: it loads waiting rows, takes them up and publishes them.  *)
LEMMA QueueRunner ==
  ASSUME TypeInv, QueueInv, OneQueue, NEW w \in Runners, Runner(w)
  PROVE  QueueInv'
<1> USE DEF TypeInv, TypeOK
<1>0. w \in Workers /\ w \notin Consumers /\ (\A v \in Runners : v = w)
  BY ProcessesAssumption DEF OneQueue, Workers
<1>1. CASE StartRun(w)
  <2>1. /\ UNCHANGED <<table, applied, obj, queue>> /\ pc[w] = "idle"
        /\ pc' = [pc EXCEPT ![w] = "loop"]
        /\ batch'[w] = {Snapshot(id) : id \in {i \in Ids : Eligible(i)}}
    BY <1>0, <1>1 DEF StartRun
  <2>2. \A v \in Workers : IsAhead(v)' <=> IsAhead(v)
    BY <1>0, <2>1 DEF IsAhead
  <2>3. \A v \in Workers : IsAhead(v) => pc[v] # "enqueue"
    BY <1>0, <2>1 DEF IsAhead, QueueInv, RolesInv, Workers, OneQueue
  <2>4. ASSUME NEW o \in batch'[w]
        PROVE  /\ o \in ObjType /\ o = Snapshot(o.id) /\ Untouched(o) /\ ~o.processing
               /\ Live(o.id) /\ ~table[o.id].processing
    <3>1. PICK id \in Ids : o = Snapshot(id) /\ Eligible(id)
      BY <2>1, <2>4
    <3>2. o.id = id /\ o.done = table[id].done /\ o.processing = table[id].processing
      BY <3>1 DEF Snapshot
    <3>3. applied[id] = 0
      BY <3>1 DEF Eligible, QueueInv, AppliedInv
    <3>4. o \in ObjType
      BY <3>1, SnapshotType
    <3> QED
      BY <3>1, <3>2, <3>3, <3>4 DEF Eligible, Untouched, Live
  <2>5. LoneCopies'
    <3>1. ASSUME NEW o \in batch'[w]
          PROVE  /\ \A p \in batch'[w] : p.id = o.id => p = o
                 /\ \A v \in Workers : IsAhead(v) => obj[v].id # o.id
                 /\ \A s \in Slots : IsSent(s) => queue[s].id # o.id
      <4>1. \A p \in batch'[w] : p.id = o.id => p = o
        BY <2>4
      <4>2. \A v \in Workers : IsAhead(v) => Announced(obj[v])
        BY <2>3 DEF QueueInv, CopiesInv, IsAhead
      <4>3. \A s \in Slots : IsSent(s) => Announced(queue[s])
        BY DEF QueueInv, CopiesInv
      <4> QED
        BY <2>4, <4>1, <4>2, <4>3 DEF Announced
    <3> QED
      BY <1>0, <2>1, <2>2, <3>1 DEF QueueInv, LoneCopies, IsSent
  <2>6. RolesInv'
    BY <1>0, <2>1 DEF QueueInv, RolesInv, Workers
  <2>7. CopiesInv'
    <3>1. \A v \in Workers : v # w => pc'[v] = pc[v]
      BY <2>1
    <3> QED
      BY <1>0, <2>1, <2>4, <3>1 DEF QueueInv, CopiesInv, IsSent, Untouched, Announced, Live
  <2>8. AppliedInv'
    BY <1>0, <2>1 DEF QueueInv, AppliedInv, Live
  <2> QED
    BY <2>5, <2>6, <2>7, <2>8 DEF QueueInv
<1>2. CASE SkipDuplicate(w) \/ SkipDelayed(w) \/ EndRun(w)
  <2>1. PICK p \in {"loop", "idle"} :
          /\ UNCHANGED <<table, applied, obj, queue>> /\ pc' = [pc EXCEPT ![w] = p]
          /\ \A r \in Runners : batch'[r] \subseteq batch[r]
    BY <1>0, <1>2 DEF SkipDuplicate, SkipDelayed, EndRun, LeaveLoop
  <2> QED
    BY <1>0, <2>1, QueueDrop
<1>3. CASE Take(w)
  <2>1. PICK o \in batch[w] :
          /\ UNCHANGED <<table, applied, queue>> /\ pc[w] = "loop"
          /\ pc' = [pc EXCEPT ![w] = "enqueue"] /\ obj' = [obj EXCEPT ![w] = o]
          /\ batch'[w] = batch[w] \ {o}
    BY <1>0, <1>3 DEF Take, LeaveLoop, OneQueue
  <2>2. \A v \in Workers : v # w => pc'[v] = pc[v] /\ obj'[v] = obj[v]
    BY <2>1
  <2>3. pc'[w] = "enqueue" /\ obj'[w] = o
    BY <1>0, <2>1
  <2>4. \A v \in Workers : IsAhead(v)' <=> v = w \/ IsAhead(v)
    BY <1>0, <2>2, <2>3 DEF IsAhead
  <2>5. LoneCopies'
    <3>1. /\ \A v \in Workers : IsAhead(v) => v # w /\ obj[v].id # o.id
          /\ \A s \in Slots : IsSent(s) => queue[s].id # o.id
          /\ \A p \in batch[w] : p.id = o.id => p = o
      BY <2>1 DEF QueueInv, LoneCopies, IsAhead
    <3>2. \A v, u \in Workers :
             IsAhead(v)' /\ IsAhead(u)' /\ obj'[v].id = obj'[u].id => v = u
      BY <2>2, <2>3, <2>4, <3>1 DEF QueueInv, LoneCopies
    <3>3. \A v \in Workers, s \in Slots : IsAhead(v)' /\ IsSent(s) => obj'[v].id # queue[s].id
      BY <2>2, <2>3, <2>4, <3>1 DEF QueueInv, LoneCopies
    <3>4. \A p \in batch'[w] : \A v \in Workers : IsAhead(v)' => obj'[v].id # p.id
      BY <2>1, <2>2, <2>3, <2>4, <3>1 DEF QueueInv, LoneCopies
    <3> QED
      BY <1>0, <2>1, <3>2, <3>3, <3>4 DEF QueueInv, LoneCopies, IsSent
  <2>6. RolesInv'
    BY <1>0, <2>2, <2>3 DEF QueueInv, RolesInv, Workers
  <2>7. CopiesInv'
    <3>1. Untouched(o) /\ ~o.processing
      BY <2>1 DEF QueueInv, CopiesInv
    <3> QED
      BY <1>0, <2>1, <2>2, <2>3, <3>1
         DEF QueueInv, CopiesInv, IsSent, Untouched, Announced, Live
  <2>8. AppliedInv'
    BY <1>0, <2>1, <2>2, <2>3 DEF QueueInv, AppliedInv, Live
  <2> QED
    BY <2>5, <2>6, <2>7, <2>8 DEF QueueInv
<1>4. CASE MarkQueued(w)
  <2>1. /\ pc[w] = "enqueue" /\ UNCHANGED <<applied, queue, batch>>
        /\ pc' = [pc EXCEPT ![w] = "publish"]
    BY <1>4 DEF MarkQueued
  <2>2. obj[w] \in ObjType /\ pc[w] \in Busy
    BY <1>0, <2>1 DEF HoldsObject, Busy
  <2>3. Untouched(obj[w]) /\ ~obj[w].processing
    BY <1>0, <2>1 DEF QueueInv, CopiesInv
  <2>4. UpdateNotification(w, TRUE, FALSE)
    BY <1>4, <2>2 DEF MarkQueued, UpdateNotification, ObjType
  <2>5. PICK x \in Ids : obj[w].id = x
    BY <2>2 DEF ObjType
  <2>6. /\ Elsewhere(w) /\ obj'[w].id = x /\ obj'[w].done = (obj[w].done \/ FALSE)
        /\ Live(x) => table'[x].processing = TRUE
    BY <1>0, <2>2, <2>3, <2>4, <2>5, UpdateFlags DEF ObjType
  <2>7. ~obj'[w].done /\ applied[x] = 0 /\ IsAhead(w)
    BY <2>1, <2>3, <2>5, <2>6 DEF Untouched, IsAhead
  <2> QED
    BY <1>0, <2>1, <2>5, <2>6, <2>7, QueueWrite
<1>5. CASE Publish(w)
  <2>1. PICK s \in Slots :
          /\ queue[s] = NoObj /\ queue' = [queue EXCEPT ![s] = [obj[w] EXCEPT !.dirty = Columns]]
          /\ pc[w] = "publish" /\ pc' = [pc EXCEPT ![w] = "loop"]
          /\ obj' = [obj EXCEPT ![w] = NoObj] /\ UNCHANGED <<table, applied, batch>>
    BY <1>5 DEF Publish, Enqueue
  <2>2. obj[w] \in ObjType
    BY <1>0, <2>1 DEF HoldsObject, Busy
  <2>3. /\ queue'[s].id = obj[w].id /\ queue'[s].done = obj[w].done
        /\ \A t \in Slots : t # s => queue'[t] = queue[t]
    BY <2>1, <2>2 DEF ObjType
  <2>4. \A v \in Workers : v # w => pc'[v] = pc[v] /\ obj'[v] = obj[v]
    BY <2>1
  <2>5. pc'[w] = "loop" /\ IsAhead(w)
    BY <1>0, <2>1 DEF IsAhead
  <2>6. \A v \in Workers : IsAhead(v)' => v # w /\ IsAhead(v) /\ obj'[v] = obj[v]
    BY <2>4, <2>5 DEF IsAhead
  <2>7. \A t \in Slots : IsSent(t)' => t = s \/ (t # s /\ IsSent(t) /\ queue'[t] = queue[t])
    BY <2>3 DEF IsSent
  <2>8. LoneCopies'
    <3>1. /\ \A v \in Workers : IsAhead(v) /\ v # w => obj[v].id # queue'[s].id
          /\ \A t \in Slots : IsSent(t) => queue[t].id # queue'[s].id
          /\ \A r \in Runners : \A o \in batch[r] : o.id # queue'[s].id
      BY <1>0, <2>3, <2>5 DEF QueueInv, LoneCopies
    <3>2. \A t, u \in Slots : IsSent(t)' /\ IsSent(u)' /\ queue'[t].id = queue'[u].id => t = u
      BY <2>7, <3>1 DEF QueueInv, LoneCopies
    <3>3. \A v \in Workers, t \in Slots : IsAhead(v)' /\ IsSent(t)' => obj'[v].id # queue'[t].id
      BY <2>6, <2>7, <3>1 DEF QueueInv, LoneCopies
    <3>4. \A r \in Runners : \A o \in batch[r] : \A t \in Slots : IsSent(t)' => queue'[t].id # o.id
      BY <2>7, <3>1 DEF QueueInv, LoneCopies
    <3> QED
      BY <2>1, <2>6, <3>2, <3>3, <3>4 DEF QueueInv, LoneCopies
  <2>9. RolesInv'
    BY <1>0, <2>4, <2>5 DEF QueueInv, RolesInv, Workers
  <2>10. CopiesInv'
    <3>1. Untouched(obj[w]) /\ Announced(obj[w])
      BY <1>0, <2>1 DEF QueueInv, CopiesInv
    <3>2. \A t \in Slots : IsSent(t)' => Untouched(queue'[t]) /\ Announced(queue'[t])
      BY <2>3, <2>7, <3>1 DEF QueueInv, CopiesInv, Untouched, Announced
    <3> QED
      BY <2>1, <2>4, <2>5, <3>2 DEF QueueInv, CopiesInv, Untouched, Announced, Live
  <2>11. AppliedInv'
    BY <2>1, <2>4, <2>5 DEF QueueInv, AppliedInv, Live
  <2> QED
    BY <2>8, <2>9, <2>10, <2>11 DEF QueueInv
<1> QED
  BY <1>1, <1>2, <1>3, <1>4, <1>5 DEF Runner

(* A consumer takes a message, or is ready for the next. *)
LEMMA QueueConsumer ==
  ASSUME TypeInv, QueueInv, NEW w \in Consumers, Consumer(w)
  PROVE  QueueInv'
<1> USE DEF TypeInv, TypeOK
<1>0. w \in Workers /\ w \notin Runners
  BY ProcessesAssumption DEF Workers
<1>1. CASE Acknowledge(w)
  <2>1. /\ UNCHANGED <<table, applied, obj, queue, batch>> /\ pc' = [pc EXCEPT ![w] = "idle"]
    BY <1>1 DEF Acknowledge
  <2> QED
    BY <1>0, <2>1, QueueDrop
<1>2. CASE Receive(w)
  <2>1. PICK s \in Slots :
          /\ queue[s] # NoObj /\ queue' = [queue EXCEPT ![s] = NoObj]
          /\ obj' = [obj EXCEPT ![w] = queue[s]]
          /\ pc[w] = "idle" /\ pc' = [pc EXCEPT ![w] = "start"]
          /\ UNCHANGED <<table, applied, batch>>
    BY <1>2 DEF Receive
  <2>2. \A v \in Workers : v # w => pc'[v] = pc[v] /\ obj'[v] = obj[v]
    BY <2>1
  <2>3. pc'[w] = "start" /\ obj'[w] = queue[s]
    BY <1>0, <2>1
  <2>4. \A t \in Slots : IsSent(t)' => t # s /\ IsSent(t) /\ queue'[t] = queue[t]
    BY <2>1 DEF IsSent
  <2>5. \A v \in Workers : IsAhead(v)' => v = w \/ (v # w /\ IsAhead(v) /\ obj'[v] = obj[v])
    BY <2>2 DEF IsAhead
  <2>6. LoneCopies'
    <3>1. /\ \A v \in Workers : IsAhead(v) => obj[v].id # queue[s].id
          /\ \A t \in Slots : IsSent(t) /\ t # s => queue[t].id # queue[s].id
          /\ \A r \in Runners : \A o \in batch[r] : o.id # queue[s].id
      BY <2>1 DEF QueueInv, LoneCopies, IsSent
    <3>2. \A v, u \in Workers : IsAhead(v)' /\ IsAhead(u)' /\ obj'[v].id = obj'[u].id => v = u
      BY <2>3, <2>5, <3>1 DEF QueueInv, LoneCopies
    <3>3. \A v \in Workers, t \in Slots : IsAhead(v)' /\ IsSent(t)' => obj'[v].id # queue'[t].id
      BY <2>3, <2>4, <2>5, <3>1 DEF QueueInv, LoneCopies
    <3>4. \A r \in Runners : \A o \in batch[r] : \A v \in Workers : IsAhead(v)' => obj'[v].id # o.id
      BY <2>3, <2>5, <3>1 DEF QueueInv, LoneCopies
    <3> QED
      BY <2>1, <2>4, <3>2, <3>3, <3>4 DEF QueueInv, LoneCopies
  <2>7. RolesInv'
    BY <1>0, <2>2, <2>3 DEF QueueInv, RolesInv, Workers
  <2>8. CopiesInv'
    <3>1. Untouched(queue[s]) /\ Announced(queue[s])
      BY <2>1 DEF QueueInv, CopiesInv, IsSent
    <3> QED
      BY <2>1, <2>2, <2>3, <2>4, <3>1 DEF QueueInv, CopiesInv, Untouched, Announced, Live
  <2>9. AppliedInv'
    BY <2>1, <2>2, <2>3 DEF QueueInv, AppliedInv, Live
  <2> QED
    BY <2>6, <2>7, <2>8, <2>9 DEF QueueInv
<1> QED
  BY <1>1, <1>2 DEF Consumer

(* processNotification, run by a consumer. *)
LEMMA QueueProcessing ==
  ASSUME TypeInv, QueueInv, OneQueue, NEW w \in Workers, ProcessNotification(w)
  PROVE  QueueInv'
<1> USE DEF TypeInv, TypeOK
<1>0. /\ pc[w] \in {"start", "claimed", "applied", "erring", "done"}
      /\ obj[w] \in ObjType /\ pc[w] \in Busy
  BY DEF ProcessNotification, RejectUnidentified, Claim, GiveUp, LeaveForRetry, LeaveUnhandled,
     Apply, MarkDone, RecordError, Finish, HoldsObject, Busy
<1>1. w \in Consumers /\ w \notin Runners
  BY <1>0 DEF QueueInv, RolesInv, Workers, OneQueue
<1>2. PICK x \in Ids : obj[w].id = x
  BY <1>0 DEF ObjType
<1>3. pc[w] \in {"start", "claimed"} =>
        IsAhead(w) /\ applied[x] = 0 /\ ~obj[w].done /\ (Live(x) => table[x].processing)
  BY <1>2 DEF QueueInv, CopiesInv, IsAhead, Untouched, Announced
<1>4. CASE RejectUnidentified(w) \/ GiveUp(w) \/ LeaveForRetry(w)
  <2>1. PICK d \in BOOLEAN : UpdateNotification(w, FALSE, d)
    BY <1>4 DEF RejectUnidentified, GiveUp, LeaveForRetry
  <2>2. /\ UNCHANGED <<applied, queue, batch>> /\ pc' = [pc EXCEPT ![w] = "erring"]
        /\ pc[w] \in {"start", "claimed"}
    BY <1>4 DEF RejectUnidentified, GiveUp, LeaveForRetry
  <2>3. Elsewhere(w) /\ obj'[w].id = x /\ obj'[w].dirty = {}
    BY <1>0, <1>2, <2>1, UpdateFlags
  <2>4. IsAhead(w) /\ ~(applied[x] > 0)
    BY <1>3, <2>2
  <2> QED
    BY <1>1, <1>2, <2>2, <2>3, <2>4, QueueWrite
<1>5. CASE Claim(w)
  <2>1. /\ UpdateNotification(w, TRUE, FALSE) /\ pc[w] = "start"
        /\ UNCHANGED <<applied, queue, batch>> /\ pc' = [pc EXCEPT ![w] = "claimed"]
    BY <1>5 DEF Claim
  <2>2. table[x].processing \in BOOLEAN /\ obj[w].done \in BOOLEAN
    BY <1>0 DEF RowType, ObjType
  <2>3. /\ Elsewhere(w) /\ obj'[w].id = x /\ obj'[w].done = (obj[w].done \/ FALSE)
        /\ Live(x) /\ table[x].processing = TRUE => table'[x].processing = TRUE
    BY <1>0, <1>2, <2>1, UpdateFlags
  <2>4. ~obj'[w].done /\ (Live(x) => table'[x].processing)
    BY <1>3, <2>1, <2>2, <2>3
  <2> QED
    BY <1>1, <1>2, <1>3, <2>1, <2>3, <2>4, QueueWrite
<1>6. CASE Apply(w)
  <2>1. /\ pc[w] = "claimed" /\ pc' = [pc EXCEPT ![w] = "applied"]
        /\ applied' = [applied EXCEPT ![x] = IF @ = 0 THEN 1 ELSE 2]
        /\ UNCHANGED <<table, obj, batch, queue>>
    BY <1>2, <1>6 DEF Apply
  <2>2. applied'[x] = 1 /\ \A id \in Ids : id # x => applied'[id] = applied[id]
    BY <1>3, <2>1
  <2>3. pc'[w] = "applied" /\ \A v \in Workers : v # w => pc'[v] = pc[v]
    BY <2>1
  <2>4. \A v \in Workers : IsAhead(v)' => v # w /\ IsAhead(v) /\ obj[v].id # x
    BY <1>2, <1>3, <2>1, <2>3 DEF IsAhead, QueueInv, LoneCopies
  <2>5. /\ \A s \in Slots : IsSent(s) => queue[s].id # x
        /\ \A r \in Runners : \A o \in batch[r] : o.id # x
    BY <1>2, <1>3, <2>1 DEF QueueInv, LoneCopies
  <2>6. \A o \in ObjType : /\ Untouched(o) /\ o.id # x => Untouched(o)'
                           /\ Announced(o) => Announced(o)'
    BY <2>1, <2>2 DEF Untouched, Announced, Live, ObjType
  <2>7. RolesInv' /\ LoneCopies'
    BY <1>1, <2>1, <2>3, <2>4 DEF QueueInv, RolesInv, LoneCopies, IsSent, Workers
  <2>8. CopiesInv'
    <3>1. \A r \in Runners : batch[r] \subseteq ObjType
      BY DEF Workers
    <3>2. \A v \in Workers : IsAhead(v) => obj[v] \in ObjType
      BY DEF IsAhead, HoldsObject, Busy
    <3>3. \A s \in Slots : IsSent(s) => queue[s] \in ObjType
      BY DEF IsSent
    <3>4. \A r \in Runners : \A o \in batch'[r] : Untouched(o)' /\ ~o.processing
      BY <2>1, <2>5, <2>6, <3>1 DEF QueueInv, CopiesInv
    <3>5. \A s \in Slots : IsSent(s)' => Untouched(queue[s])' /\ Announced(queue[s])'
      BY <2>1, <2>2, <2>5, <3>3 DEF QueueInv, CopiesInv, IsSent, Untouched, Announced, Live, ObjType
    <3>6. \A v \in Workers : IsAhead(v)' =>
             /\ Untouched(obj[v])'
             /\ pc[v] # "enqueue" => Announced(obj[v])'
             /\ pc[v] = "enqueue" => ~obj[v].processing
      <4> SUFFICES ASSUME NEW v \in Workers, IsAhead(v)'
                   PROVE  /\ Untouched(obj[v])'
                          /\ pc[v] # "enqueue" => Announced(obj[v])'
                          /\ pc[v] = "enqueue" => ~obj[v].processing
        OBVIOUS
      <4>1. v # w /\ IsAhead(v) /\ obj[v].id # x /\ obj[v] \in ObjType
        BY <2>4, <3>2
      <4>2. Untouched(obj[v]) /\ (pc[v] # "enqueue" => Announced(obj[v]))
            /\ (pc[v] = "enqueue" => ~obj[v].processing)
        BY <4>1 DEF QueueInv, CopiesInv, IsAhead
      <4> QED
        BY <2>1, <2>2, <4>1, <4>2 DEF Untouched, Announced, Live, ObjType
    <3> QED
      BY <2>1, <2>3, <2>4, <3>4, <3>5, <3>6 DEF CopiesInv, IsAhead
  <2>9. AppliedInv'
    <3>1. \A v \in Workers : pc'[v] = "applied" => ~obj'[v].done /\ applied'[obj'[v].id] > 0
      BY <1>2, <1>3, <2>1, <2>2, <2>3 DEF QueueInv, AppliedInv, HoldsObject, Busy, ObjType
    <3>2. table[x].state # "free" /\ (Live(x) => table[x].processing)
      BY <1>2, <1>3, <2>1 DEF QueueInv, CopiesInv, Untouched
    <3> QED
      BY <2>1, <2>2, <2>3, <3>1, <3>2 DEF QueueInv, AppliedInv, Live
  <2> QED
    BY <2>7, <2>8, <2>9 DEF QueueInv
<1>7. CASE MarkDone(w)
  <2>1. /\ UpdateNotification(w, FALSE, TRUE) /\ pc[w] = "applied"
        /\ UNCHANGED <<applied, queue, batch>>
    BY <1>7 DEF MarkDone
  <2>0. PICK n \in {"done", "erring"} : pc' = [pc EXCEPT ![w] = n]
    BY <1>7 DEF MarkDone
  <2>2. ~obj[w].done
    BY <2>1 DEF QueueInv, AppliedInv
  <2>3. Elsewhere(w) /\ obj'[w].id = x /\ obj'[w].dirty = {} /\ (Live(x) => table'[x].done)
    BY <1>0, <1>2, <2>1, <2>2, UpdateFlags
  <2> QED
    BY <1>1, <1>2, <2>0, <2>1, <2>3, QueueWrite
<1>8. CASE RecordError(w)
  <2>1. /\ SetNotificationError(w) /\ pc[w] = "erring"
        /\ UNCHANGED <<applied, queue, batch>> /\ pc' = [pc EXCEPT ![w] = "done"]
    BY <1>8 DEF RecordError
  <2>2. obj[w].dirty = {}
    BY <2>1 DEF QueueInv, AppliedInv
  <2>3. /\ Elsewhere(w) /\ obj'[w].id = x
        /\ table'[x].processing = table[x].processing
        /\ table[x].done => table'[x].done
    BY <1>2, <2>1, <2>2, ErrorFlags
  <2>4. applied[x] > 0 /\ Live(x) => table'[x].done \/ table'[x].processing
    BY <2>3 DEF QueueInv, AppliedInv
  <2> QED
    BY <1>1, <1>2, <2>1, <2>3, <2>4, QueueWrite
<1>9. CASE LeaveUnhandled(w) \/ Finish(w)
  <2>1. /\ UNCHANGED <<table, applied, batch, queue>> /\ pc' = [pc EXCEPT ![w] = "ack"]
        /\ obj' = [obj EXCEPT ![w] = NoObj]
    BY <1>1, <1>9 DEF LeaveUnhandled, Finish, Return
  <2> QED
    BY <1>1, <2>1, QueueDrop
<1> QED
  BY <1>4, <1>5, <1>6, <1>7, <1>8, <1>9 DEF ProcessNotification

(* Every step keeps the copies of a row apart. *)
LEMMA QueueStep ==
  ASSUME TypeInv, QueueInv, OneQueue, [Next]_vars
  PROVE  QueueInv'
<1> USE DEF TypeInv, TypeOK
<1>1. ASSUME NEW r \in Receivers, Receiver(r)
      PROVE  QueueInv'
  <2>1. UNCHANGED <<applied, pc, obj, batch, queue>>
    BY <1>1 DEF Receiver, Post, CheckItem, SaveItem, Refuse, Accept, workerVars
  <2>2. \A id \in Ids : table[id].state # "free" => table'[id] = table[id]
    BY <1>1 DEF Receiver, Post, CheckItem, SaveItem, Refuse, Accept
  <2> QED
    BY <2>1, <2>2, QueueRows DEF Live
<1>2. CASE Tick \/ Cleanup \/ UNCHANGED vars
  <2>1. UNCHANGED <<applied, pc, obj, batch, queue>>
    BY <1>2 DEF Tick, Cleanup, SelectProcessed, DeleteSelected, vars, workerVars
  <2>2. \A id \in Ids : table[id].state # "free" =>
            /\ table'[id].state # "free"
            /\ Live(id)' => Live(id)
            /\ table'[id].done = table[id].done
            /\ table'[id].processing = table[id].processing
    BY <1>2 DEF Tick, Cleanup, SelectProcessed, DeleteSelected, vars, RowType, Live
  <2> QED
    BY <2>1, <2>2, QueueRows
<1>3. ASSUME NEW w \in Workers, Crash(w)
      PROVE  QueueInv'
  <2>1. /\ UNCHANGED <<table, applied, queue>> /\ pc' = [pc EXCEPT ![w] = "idle"]
        /\ \A v \in Workers : v # w => obj'[v] = obj[v]
        /\ \A r \in Runners : batch'[r] \subseteq batch[r]
    BY <1>3 DEF Crash, OneQueue, Workers
  <2> QED
    BY <2>1, QueueDrop
<1>4. ASSUME NEW w \in Admins, Admin(w)
      PROVE  QueueInv'
  BY <1>4 DEF OneQueue
<1> QED
  BY <1>1, <1>2, <1>3, <1>4, QueueRunner, QueueConsumer, QueueProcessing DEF Next

(* With a queue, too, what a row does to its order is saved at most once,  *)
(* however many consumers there are, wherever one is killed, and although  *)
(* rows are released before their errors are counted: as long as the cron  *)
(* job alone publishes and no message is delivered again.                  *)
THEOREM QueuedAreAppliedOnce ==
  ASSUME OneQueue
  PROVE  Spec => []AppliedOnce
<1>1. Init => QueueInv
  <2> SUFFICES ASSUME Init
               PROVE  QueueInv
    OBVIOUS
  <2>1. /\ \A w \in Workers : pc[w] = "idle" /\ batch[w] = {}
        /\ \A s \in Slots : queue[s] = NoObj
        /\ \A id \in Ids : applied[id] = 0
    BY DEF Init
  <2> QED
    BY <2>1 DEF QueueInv, RolesInv, LoneCopies, CopiesInv, AppliedInv, IsAhead, IsSent, Workers
<1>2. TypeInv /\ QueueInv => AppliedOnce
  <2> SUFFICES ASSUME TypeInv, QueueInv, NEW id \in Ids
               PROVE  applied[id] <= 1
    BY DEF AppliedOnce
  <2>1. applied[id] \in 0..2
    BY DEF TypeInv, TypeOK
  <2>2. applied[id] > 0 => applied[id] = 1
    BY DEF QueueInv, AppliedInv
  <2> QED
    BY <2>1, <2>2
<1>3. TypeInv /\ QueueInv /\ [Next]_vars => QueueInv'
  BY QueueStep
<1> QED
  BY <1>1, <1>2, <1>3, TypeInvariant, PTL DEF Spec

(***************************************************************************)
(* The table implements the status column                                  *)
(***************************************************************************)

Shown == [id \in Ids |-> StatusOf(id)]

(* One row moves as the column says, the others keep their status.         *)
LEMMA ShownMove ==
  ASSUME NEW x \in Ids, NEW from, StatusOf(x) \in from, NEW to, StatusOf(x)' = to,
         \A id \in Ids : id # x => StatusOf(id)' = StatusOf(id)
  PROVE  Column!Move(x, from, to)
BY DEF Column!Move

(* So the table, seen as the status column of the grid shows it, takes a  *)
(* step of the column or none.                                            *)
LEMMA ShownStep ==
  ASSUME TypeInv, RowStep
  PROVE  Column!Next \/ UNCHANGED Shown
<1>1. \A id \in Ids : Kept(id) => StatusOf(id)' = StatusOf(id)
  BY DEF Kept, StatusOf
<1>2. CASE \A id \in Ids : Kept(id)
  BY <1>1, <1>2 DEF Shown
<1>3. ASSUME NEW x \in Ids, Arrived(x), \A id \in Ids : id # x => Kept(id)
      PROVE  Column!Next
  <2>1. StatusOf(x) \in {"Absent"} /\ StatusOf(x)' = "Queued"
    BY <1>3 DEF Arrived, StatusOf
  <2> QED
    BY <1>1, <1>3, <2>1, ShownMove DEF Column!Next, Column!Arrive
<1>4. ASSUME NEW x \in Ids, Worked(x), \A id \in Ids : id # x => Kept(id)
      PROVE  Column!Next \/ UNCHANGED Shown
  <2>1. \A id \in Ids : id # x => StatusOf(id)' = StatusOf(id)
    BY <1>1, <1>4
  <2>2. CASE StatusOf(x)' = StatusOf(x)
    BY <2>1, <2>2 DEF Shown
  <2>3. CASE StatusOf(x)' # StatusOf(x)
    <3>1. StatusOf(x) \in {"Queued", "In progress"}
      BY <1>4, <2>3 DEF Worked, StatusOf
    <3>2. StatusOf(x)' \in {"Queued", "In progress", "Processed"}
      BY <1>4 DEF Worked, StatusOf
    <3>3. CASE StatusOf(x)' = "Processed"
      BY <2>1, <3>1, <3>3, ShownMove DEF Column!Next, Column!Finish
    <3>4. CASE StatusOf(x)' = "Queued"
      <4>1. StatusOf(x) \in {"In progress"}
        BY <2>3, <3>1, <3>4
      <4> QED
        BY <2>1, <3>4, <4>1, ShownMove DEF Column!Next, Column!Requeue
    <3>5. CASE StatusOf(x)' = "In progress"
      <4>1. StatusOf(x) \in {"Queued"}
        BY <2>3, <3>1, <3>5
      <4> QED
        BY <2>1, <3>5, <4>1, ShownMove DEF Column!Next, Column!Start
    <3> QED
      BY <3>2, <3>3, <3>4, <3>5
  <2> QED
    BY <2>2, <2>3
<1>5. ASSUME \A id \in Ids : IF id \in doomed THEN Removed(id) ELSE Kept(id)
      PROVE  Column!Next
  <2> DEFINE S == {id \in Ids : id \in doomed /\ Live(id)}
  <2>1. \A id \in S : StatusOf(id) = "Processed" /\ StatusOf(id)' = "Purged"
    BY <1>5 DEF Removed, StatusOf, Live
  <2>2. \A id \in Ids \ S : StatusOf(id)' = StatusOf(id)
    <3> SUFFICES ASSUME NEW id \in Ids, id \notin S
                 PROVE  StatusOf(id)' = StatusOf(id)
      OBVIOUS
    <3>1. CASE id \notin doomed
      BY <1>1, <1>5, <3>1
    <3>2. CASE id \in doomed
      <4>1. table[id].state = "removed" /\ table'[id].state = "removed"
        BY <1>5, <3>2 DEF Removed, Live, TypeInv, TypeOK, RowType
      <4> QED
        BY <4>1 DEF StatusOf
    <3> QED
      BY <3>1, <3>2
  <2>3. Column!Purge(S)
    <3> HIDE DEF S
    <3>1. S \subseteq Ids
      BY DEF S
    <3> QED
      BY <2>1, <2>2, <3>1 DEF Column!Purge
  <2>4. S \in SUBSET Ids
    OBVIOUS
  <2> HIDE DEF S
  <2> QED
    BY <2>3, <2>4 DEF Column!Next
<1> QED
  BY <1>2, <1>3, <1>4, <1>5 DEF RowStep

(* The status column tells the truth: a row is queued, in progress, maybe  *)
(* queued again, then processed, and removed only after that               *)
(* (NotificationColumn::prepareDataSource, RemoveProcessedWebhooks).       *)
THEOREM StatusIsImplemented ==
  ASSUME OneRunner
  PROVE  Spec => ImplementsStatus
<1>1. Init => Column!Init
  BY DEF Init, Column!Init, StatusOf, FreeRow
<1>2. SoleInv /\ [Next]_vars => [Column!Next]_Shown
  BY SoleRowStep, ShownStep DEF SoleInv
<1>3. SoleInv /\ [Next]_vars => [Column!Next]_([id \in Ids |-> StatusOf(id)])
  BY <1>2 DEF Shown
<1> QED
  BY <1>1, <1>3, SoleInvariant, PTL DEF Spec, ImplementsStatus, Column!Spec
=============================================================================
