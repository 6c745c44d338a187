--------------------------- MODULE LifecycleStore ---------------------------
(***************************************************************************)
(* The tables of the device lifecycle channel and the transactions that    *)
(* the API handlers, the two workers and the operator's commands run on    *)
(* them: device_operations, device_message_outbox, device_message_inbox    *)
(* and the lifecycle columns of devices (internal/store).                  *)
(*                                                                         *)
(* A transaction that locks its rows and commits is one step.  One that    *)
(* returns an error rolls back and is no step at all: whoever called it    *)
(* is told through a predicate of the state (ProjectionFails,              *)
(* SameInboxCreate).                                                       *)
(*                                                                         *)
(* Time.  available_at is compared with the clock (is the row due?) and    *)
(* with the value a worker saw when it claimed the row.  A claim writes    *)
(* now + lease over a value that is not later than now, so the value it    *)
(* writes differs from every earlier one, and any later write replaces it: *)
(* "available_at is still the value my claim wrote" is the same as "the    *)
(* last write of available_at was my claim", which is the row's holder.    *)
(* Whether the row is due is a bit that the passage of time sets.          *)
(***************************************************************************)
EXTENDS Naturals, FiniteSets

CONSTANTS
  Devices,      \* account device ids
  Ops,          \* operation ids; each operation owns one outbox row
  Results,      \* message ids of result messages, the keys of the inbox
  Workers,      \* outbox worker processes
  Activities,   \* activation generations chosen by provision requests
  TypeOf,       \* the type of the operation an id is used for
  DeviceOf,     \* the device an operation is about (also its partition key)
  ActivityOf,   \* the activity_id a provision request carries
  OpOf,         \* the operation a result message names
  NoActivity,   \* no video_cloud_activity_id in the metadata or the payload
  NoWorker,     \* available_at was not written by a claim
  MaxAttempts   \* CROSS_SERVICE_MAX_ATTEMPTS

OperationTypes == {"provision", "deactivate", "unprovision", "entitlement_update"}
OperationStatuses ==
  {"absent", "pending", "published", "retrying", "succeeded", "failed", "dead_lettered"}
OutboxStatuses == {"absent", "pending", "published", "retrying", "dead_lettered"}
InboxStatuses == {"absent", "retrying", "processed", "dead_lettered"}
ActivationStatuses == {"none", "pending", "activated", "failed", "deactivated"}
Verdicts == {"succeeded", "failed"}

ASSUME StoreAssumption ==
  /\ TypeOf \in [Ops -> OperationTypes]
  /\ DeviceOf \in [Ops -> Devices]
  /\ ActivityOf \in [Ops -> Activities]
  /\ OpOf \in [Results -> Ops]
  /\ NoActivity \notin Activities
  /\ NoWorker \notin Workers
  /\ MaxAttempts \in Nat \ {0}

\* The unprovision operation's id is "unprovision-" followed by the device id.
ASSUME UnprovisionIdAssumption ==
  \A o, p \in Ops :
    TypeOf[o] = "unprovision" /\ TypeOf[p] = "unprovision" /\ DeviceOf[o] = DeviceOf[p]
      => o = p

VARIABLES
  operations,   \* device_operations: status by operation id
  outbox,       \* device_message_outbox by operation id
  inbox,        \* device_message_inbox by result message id
  device        \* devices: the row, disabled_at and the video_cloud_ metadata

storeVars == <<operations, outbox, inbox, device>>

OutboxRow == [status : OutboxStatuses, attempt : Nat, due : BOOLEAN,
              holder : Workers \cup {NoWorker}, activity : Activities \cup {NoActivity}]
InboxRow == [status : InboxStatuses, verdict : Verdicts \cup {"none", "malformed"}, at : Nat]
DeviceRow == [row : BOOLEAN, disabled : BOOLEAN, activity : Activities \cup {NoActivity},
              activation : ActivationStatuses, lastError : BOOLEAN]

StoreTypeOK ==
  /\ operations \in [Ops -> OperationStatuses]
  /\ outbox \in [Ops -> OutboxRow]
  /\ inbox \in [Results -> InboxRow]
  /\ device \in [Devices -> DeviceRow]

StoreInit ==
  /\ operations = [o \in Ops |-> "absent"]
  /\ outbox = [o \in Ops |-> [status |-> "absent", attempt |-> 0, due |-> FALSE,
                              holder |-> NoWorker, activity |-> NoActivity]]
  /\ inbox = [r \in Results |-> [status |-> "absent", verdict |-> "none", at |-> 0]]
  /\ device = [d \in Devices |-> [row |-> TRUE, disabled |-> FALSE, activity |-> NoActivity,
                                  activation |-> "none", lastError |-> FALSE]]

-----------------------------------------------------------------------------
(* Operations that the API starts.  A request that names an existing       *)
(* operation id is answered from the stored rows and changes nothing.      *)

\* createOrGetDeviceOperationTx and createOutboxMessageTx of a new operation id.
CreateOperation(o, activity) ==
  /\ operations[o] = "absent"
  /\ operations' = [operations EXCEPT ![o] = "pending"]
  /\ outbox' = [outbox EXCEPT ![o] = [status |-> "pending", attempt |-> 0, due |-> TRUE,
                                      holder |-> NoWorker, activity |-> activity]]
  /\ UNCHANGED inbox

\* A provision request starts a new activation generation of the device.
StartDeviceLifecycleOperation(o) ==
  LET d == DeviceOf[o] IN
  /\ TypeOf[o] = "provision"
  /\ device[d].row /\ ~device[d].disabled
  /\ CreateOperation(o, ActivityOf[o])
  /\ device' = [device EXCEPT ![d].activity = ActivityOf[o],
                              ![d].activation = "pending",
                              ![d].lastError = FALSE]

\* A deactivation pins the activity that is current when it is requested; a
\* disabled device may still be deactivated.
StartDeviceDeactivationOperation(o) ==
  LET d == DeviceOf[o] IN
  /\ TypeOf[o] = "deactivate"
  /\ device[d].row /\ device[d].activity # NoActivity
  /\ CreateOperation(o, device[d].activity)
  /\ UNCHANGED device

\* Unprovisioning commits the command and deletes the device row.
UnprovisionDevice(o) ==
  LET d == DeviceOf[o] IN
  /\ TypeOf[o] = "unprovision"
  /\ device[d].row /\ ~device[d].disabled /\ device[d].activity # NoActivity
  /\ CreateOperation(o, NoActivity)
  /\ device' = [device EXCEPT ![d] = [row |-> FALSE, disabled |-> FALSE, activity |-> NoActivity,
                                      activation |-> "none", lastError |-> FALSE]]

\* An entitlement snapshot needs a baseline: an earlier snapshot of the device,
\* or a provision operation whose status is succeeded.
StartDeviceEntitlementSnapshot(o) ==
  LET d == DeviceOf[o] IN
  /\ TypeOf[o] = "entitlement_update"
  /\ device[d].row /\ ~device[d].disabled
  /\ \E b \in Ops : /\ DeviceOf[b] = d
                    /\ \/ TypeOf[b] = "entitlement_update" /\ operations[b] # "absent"
                       \/ TypeOf[b] = "provision" /\ operations[b] = "succeeded"
  /\ CreateOperation(o, NoActivity)
  /\ UNCHANGED device

\* Deleting a device through the user API only disables it.
DeleteDeviceAsUser(d) ==
  /\ device[d].row /\ ~device[d].disabled
  /\ device' = [device EXCEPT ![d].disabled = TRUE]
  /\ UNCHANGED <<operations, outbox, inbox>>

ApiRequest ==
  \/ \E o \in Ops : \/ StartDeviceLifecycleOperation(o)
                     \/ StartDeviceDeactivationOperation(o)
                     \/ UnprovisionDevice(o)
                     \/ StartDeviceEntitlementSnapshot(o)
  \/ \E d \in Devices : DeleteDeviceAsUser(d)

-----------------------------------------------------------------------------
(* The outbox.                                                             *)

\* Mutant: the claim forgets the rows that wait for a retry.
ReadyMessagesOnlyPending == {o \in Ops : outbox[o].status = "pending" /\ outbox[o].due}

\* Rows that ClaimOutboxMessagesReady may select.
ReadyMessages ==
  {o \in Ops : outbox[o].status \in {"pending", "retrying"} /\ outbox[o].due}

\* A claim moves available_at to the end of w's lease and returns the rows.
ClaimOutboxMessagesReady(w, batch) ==
  /\ batch \subseteq ReadyMessages
  /\ outbox' = [o \in Ops |-> IF o \in batch
                              THEN [outbox[o] EXCEPT !.due = FALSE, !.holder = w]
                              ELSE outbox[o]]
  /\ UNCHANGED <<operations, inbox, device>>

\* available_at passes: a lease runs out or a retry delay ends.
BecomesDue(o) ==
  /\ outbox[o].status \in {"pending", "retrying"} /\ ~outbox[o].due
  /\ outbox' = [outbox EXCEPT ![o].due = TRUE]
  /\ UNCHANGED <<operations, inbox, device>>

\* A publication is recorded over whatever else the row has come to.
IsPublishedOutcomeOverride(o, status) ==
  status = "published" /\ outbox[o].status # "published"

\* The message as w claimed it, compared with the row as it is now.
ShouldApplyOutboxPublishTransition(w, msg, status) ==
  \/ /\ outbox[msg.op].status = msg.status
     /\ outbox[msg.op].attempt = msg.attempt
     /\ outbox[msg.op].holder = w
  \/ IsPublishedOutcomeOverride(msg.op, status)

\* Mutant: a late publication is written to the operation whatever it has come to.
RepairAnyOperation(status) == TRUE

ShouldRepairOperationForPublishedOverride(status) ==
  status \in {"pending", "published", "retrying", "dead_lettered"}

\* attempt_count after the transition: a late publication never lowers it.
RecordedAttempt(msg, status) ==
  IF status = "published" /\ outbox[msg.op].attempt > msg.attempt + 1
  THEN outbox[msg.op].attempt ELSE msg.attempt + 1

\* The worker's outcome for a claimed message: published, retrying or
\* dead_lettered, written to the row and to the operation.
RecordOutboxPublishTransition(w, msg, status) ==
  /\ IF ShouldApplyOutboxPublishTransition(w, msg, status)
     THEN /\ outbox' = [outbox EXCEPT ![msg.op].status = status,
                                      ![msg.op].attempt = RecordedAttempt(msg, status),
                                      ![msg.op].due = FALSE,
                                      ![msg.op].holder = NoWorker]
          /\ operations' =
               IF \/ ~IsPublishedOutcomeOverride(msg.op, status)
                  \/ ShouldRepairOperationForPublishedOverride(operations[msg.op])
               THEN [operations EXCEPT ![msg.op] = status]
               ELSE operations
     ELSE UNCHANGED <<operations, outbox>>
  /\ UNCHANGED <<inbox, device>>

\* The operator's requeue refuses completed operations, except unprovision.
RequeueRefused(o) ==
  operations[o] \in {"succeeded", "failed"} /\ TypeOf[o] # "unprovision"

RequeueOutboxMessage(o) ==
  /\ outbox[o].status \in {"retrying", "dead_lettered"}
  /\ ~RequeueRefused(o)
  /\ outbox' = [outbox EXCEPT ![o].status = "pending", ![o].attempt = 0,
                              ![o].due = TRUE, ![o].holder = NoWorker]
  /\ operations' = [operations EXCEPT ![o] = "pending"]
  /\ UNCHANGED <<inbox, device>>

-----------------------------------------------------------------------------
(* The inbox and the device projection.                                    *)

\* Mutant: deduplication on the message id alone.
SameInboxCreateIdOnly(r, verdict, at) == TRUE

\* compareInboxCreate: the same message id must carry the same payload.
SameInboxCreate(r, verdict, at) == inbox[r].verdict = verdict /\ inbox[r].at = at

CreateInboxMessage(r, verdict, at) ==
  /\ inbox[r].status = "absent"
  /\ inbox' = [inbox EXCEPT ![r] = [status |-> "retrying", verdict |-> verdict, at |-> at]]
  /\ UNCHANGED <<operations, outbox, device>>

\* Only provision and deactivate results touch the device.
HasProjection(o) == TypeOf[o] \in {"provision", "deactivate"}

\* Mutant: results are projected whatever activity they belong to.
NeverStale(o) == FALSE

\* ExpectedActivityID: a result of an older activation generation.
StaleActivity(o) ==
  /\ outbox[o].activity # NoActivity
  /\ device[DeviceOf[o]].activity # outbox[o].activity

\* Mutant: a missing device is ignored.
ProjectionFailsIgnored(o) == FALSE

\* projectDeviceTx returns ErrNotFound or ErrDisabled and the whole
\* transaction of the inbox rolls back.
ProjectionFails(o) ==
  LET dev == device[DeviceOf[o]] IN
  /\ HasProjection(o)
  /\ \/ ~dev.row
     \/ dev.disabled /\ ~StaleActivity(o) /\ TypeOf[o] = "provision"

\* Mutant: the device is left for later.
ProjectedDeviceLater(o, verdict) == device[DeviceOf[o]]

\* The device row after a result has been projected on it.
ProjectedDevice(o, verdict) ==
  LET dev == device[DeviceOf[o]] IN
  IF ~HasProjection(o) \/ StaleActivity(o)
  THEN dev
  ELSE [dev EXCEPT
          !.activation = CASE verdict = "succeeded" /\ TypeOf[o] = "provision" -> "activated"
                           [] verdict = "succeeded" /\ TypeOf[o] = "deactivate" -> "deactivated"
                           [] verdict = "failed" /\ TypeOf[o] = "provision" -> "failed"
                           [] OTHER -> dev.activation,
          !.lastError = (verdict = "failed")]

\* RecordInboxProcessTransition with an operation status and a projection.
RecordInboxProcessTransition(r, verdict) ==
  LET o == OpOf[r] IN
  /\ operations[o] # "absent"
  /\ ~ProjectionFails(o)
  /\ inbox' = [inbox EXCEPT ![r].status = "processed"]
  /\ operations' = [operations EXCEPT ![o] = verdict]
  /\ device' = [device EXCEPT ![DeviceOf[o]] = ProjectedDevice(o, verdict)]
  /\ UNCHANGED outbox

\* The same transaction with nothing but the inbox row's status.
MarkInboxMessage(r, status) ==
  /\ inbox' = [inbox EXCEPT ![r].status = status]
  /\ UNCHANGED <<operations, outbox, device>>

IsCompletedLifecycleOperation(o) == operations[o] \in {"succeeded", "failed"}

\* The operator reopens a dead-lettered inbox row.
RequeueInboxMessage(r) ==
  /\ inbox[r].status = "dead_lettered"
  /\ MarkInboxMessage(r, "retrying")

-----------------------------------------------------------------------------
\* What the outbox says of an operation's command, in the words of DeliveryQueue.
QueueState(o) ==
  CASE outbox[o].status \in {"pending", "retrying"} -> "open"
    [] outbox[o].status = "published" -> "delivered"
    [] outbox[o].status = "dead_lettered" -> "given_up"
    [] OTHER -> "absent"
=============================================================================
