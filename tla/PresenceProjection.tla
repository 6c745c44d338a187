------------------------- MODULE PresenceProjection -------------------------
(***************************************************************************)
(* DeviceOnlineChanged observations of one device: the receiver            *)
(* handleInternalDevicePresenceEvent (internal/api) and the presence part  *)
(* of projectDeviceTx (internal/store).  Video Cloud may send an           *)
(* observation again when it has seen no answer, so several handlers may   *)
(* hold the same message, and messages arrive in any order.  A handler     *)
(* reads the inbox row in one transaction and projects in another.         *)
(***************************************************************************)
EXTENDS Naturals

CONSTANTS
  Messages,   \* message ids of observations
  StatusOf,   \* payload.status of a message
  TimeOf,     \* payload.last_seen_at of a message
  DevidOf,    \* payload.video_cloud_devid of a message
  Devids,     \* Video Cloud's names for the device
  NoDevid,    \* the device is not mapped
  UserTimes,  \* last_seen_at values a user may send; 0 for none
  Handlers,   \* concurrent calls of the receiver
  NoMessage   \* a handler that is idle

ASSUME PresenceAssumption ==
  /\ StatusOf \in [Messages -> {"online", "offline"}]
  /\ TimeOf \in [Messages -> Nat \ {0}]
  /\ DevidOf \in [Messages -> Devids]
  /\ NoDevid \notin Devids /\ NoMessage \notin Messages
  /\ UserTimes \subseteq Nat

VARIABLES
  inbox,     \* status of each message's inbox row
  devid,     \* video_cloud_devid of the metadata
  bound,     \* the metadata have a video_cloud_activation_status
  deviceRow, \* the device's row: "disabled" when disabled_at is set
  status,    \* the device's status column
  lastSeen,  \* last_seen_at; 0 for NULL
  handling,  \* the message each handler is about to record
  given,     \* history: status and time as the last reset or user wrote them
  seen       \* history: messages projected since

presenceVars == <<inbox, devid, bound, deviceRow, status, lastSeen, handling, given, seen>>

DeviceStatuses == {"unknown", "online", "offline", "disabled"}

\* The types of the variables.
PresenceTypeOK ==
  /\ inbox \in [Messages -> {"absent", "retrying", "processed"}]
  /\ devid \in Devids \cup {NoDevid}
  /\ bound \in BOOLEAN
  /\ deviceRow \in {"live", "disabled", "deleted"}
  /\ status \in DeviceStatuses
  /\ lastSeen \in Nat
  /\ handling \in [Handlers -> Messages \cup {NoMessage}]
  /\ given \in [status : DeviceStatuses, time : Nat]
  /\ seen \subseteq Messages

\* A claimed device is created with its video_cloud_devid, another one without.
PresenceInit ==
  /\ inbox = [m \in Messages |-> "absent"]
  /\ devid \in Devids \cup {NoDevid} /\ bound = FALSE
  /\ deviceRow = "live" /\ status = "unknown" /\ lastSeen = 0
  /\ handling = [h \in Handlers |-> NoMessage]
  /\ given = [status |-> "unknown", time |-> 0] /\ seen = {}

-----------------------------------------------------------------------------
(* What else writes the device's row.                                      *)

\* Status and time are written by something other than an observation.
PresenceGiven(s, t) ==
  /\ status' = s /\ lastSeen' = t
  /\ given' = [status |-> s, time |-> t] /\ seen' = {}

\* A provision request maps the device and resets its presence.
Provision(v) ==
  /\ deviceRow = "live"
  /\ devid' = v /\ bound' = TRUE
  /\ PresenceGiven("unknown", 0)
  /\ UNCHANGED <<inbox, deviceRow, handling>>

\* A projection without a status: DeviceMetadataChanged may set or remove both
\* keys; a deactivation's result sets them on a disabled device too.
ProjectMetadata(v, b) ==
  /\ deviceRow = "live" \/ (deviceRow = "disabled" /\ v # NoDevid)
  /\ devid' = v /\ bound' = b
  /\ UNCHANGED <<inbox, deviceRow, status, lastSeen, handling, given, seen>>

\* A user states the status of a device that Video Cloud does not manage.
UpdateDeviceStatusAsUser(s, t) ==
  /\ deviceRow = "live" /\ ~bound /\ devid = NoDevid
  /\ PresenceGiven(s, IF t = 0 THEN lastSeen ELSE t)
  /\ deviceRow' = IF s = "disabled" THEN "disabled" ELSE deviceRow
  /\ UNCHANGED <<inbox, devid, bound, handling>>

DeleteDevice ==
  /\ deviceRow = "live" /\ deviceRow' = "disabled" /\ status' = "disabled"
  /\ UNCHANGED <<inbox, devid, bound, lastSeen, handling, given, seen>>

\* The row itself is deleted.
UnprovisionDevice ==
  /\ deviceRow = "live" /\ devid # NoDevid
  /\ deviceRow' = "deleted"
  /\ UNCHANGED <<inbox, devid, bound, status, lastSeen, handling, given, seen>>

-----------------------------------------------------------------------------
(* The receiver.                                                           *)

\* CreateOrGetInboxMessage; a processed message is answered at once.
Receive(h, m) ==
  /\ handling[h] = NoMessage
  /\ inbox' = [inbox EXCEPT ![m] = IF @ = "absent" THEN "retrying" ELSE @]
  /\ handling' = [handling EXCEPT ![h] = IF inbox[m] = "processed" THEN NoMessage ELSE m]
  /\ UNCHANGED <<devid, bound, deviceRow, status, lastSeen, given, seen>>

\* projectDeviceTx returns ErrNotFound, ErrDisabled or ErrConflict.
Rejected(m) == deviceRow # "live" \/ devid = NoDevid \/ devid # DevidOf[m]

\* Mutant: at equal times the last writer wins.
OlderOnly(m) == lastSeen # 0 /\ TimeOf[m] < lastSeen

\* An observation that may not change what is known.
Superseded(m) ==
  /\ lastSeen # 0
  /\ \/ TimeOf[m] < lastSeen
     \/ TimeOf[m] = lastSeen /\ (status = StatusOf[m] \/ StatusOf[m] # "offline")

Project(m) ==
  IF Superseded(m)
  THEN UNCHANGED <<status, lastSeen>>
  ELSE status' = StatusOf[m] /\ lastSeen' = TimeOf[m]

\* RecordInboxProcessTransition of the message the handler holds.
Record(h) ==
  LET m == handling[h] IN
  /\ m # NoMessage /\ ~Rejected(m)
  /\ inbox' = [inbox EXCEPT ![m] = "processed"]
  /\ Project(m)
  /\ seen' = seen \cup {m}
  /\ handling' = [handling EXCEPT ![h] = NoMessage]
  /\ UNCHANGED <<devid, bound, deviceRow, given>>

\* The transaction is refused, or fails, and the sender is told so.
RecordFails(h) ==
  /\ handling[h] # NoMessage
  /\ handling' = [handling EXCEPT ![h] = NoMessage]
  /\ UNCHANGED <<inbox, devid, bound, deviceRow, status, lastSeen, given, seen>>

PresenceNext ==
  \/ \E v \in Devids : Provision(v)
  \/ \E v \in Devids \cup {NoDevid}, b \in BOOLEAN : ProjectMetadata(v, b)
  \/ \E s \in DeviceStatuses, t \in UserTimes : UpdateDeviceStatusAsUser(s, t)
  \/ DeleteDevice \/ UnprovisionDevice
  \/ \E h \in Handlers : \/ \E m \in Messages : Receive(h, m)
                         \/ Record(h)
                         \/ RecordFails(h)

PresenceSpec == PresenceInit /\ [][PresenceNext]_presenceVars

-----------------------------------------------------------------------------
\* Presence is the latest observation since a provision request or a user last
\* set it, and offline when two observations of that time disagree, in whatever
\* order and however often the observations arrive ("older observations cannot
\* roll presence backward, and offline wins an equal-timestamp conflict",
\* projectDeviceTx); and no observation a handler still holds brings a disabled
\* device back.
PresenceIsLatest ==
  /\ deviceRow = "disabled" => status = "disabled"
  /\ deviceRow = "live" =>
       /\ given.time <= lastSeen
       /\ \/ status = given.status /\ lastSeen = given.time
          \/ \E m \in seen : TimeOf[m] = lastSeen /\ StatusOf[m] = status
       /\ \A m \in seen :
            \/ TimeOf[m] < lastSeen
            \/ TimeOf[m] = lastSeen /\ (status = "offline" \/ StatusOf[m] = "online")
=============================================================================
