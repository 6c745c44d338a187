--------------------------- MODULE InboxProcessor ---------------------------
(***************************************************************************)
(* processMessage of internal/worker/inbox: what an agent (an inbox        *)
(* worker, or an outbox worker with the direct HTTP publisher) does with   *)
(* one result message.  Its store calls are separate transactions, so      *)
(* everything else may happen between any two of them:                     *)
(*                                                                         *)
(*   create   CreateOrGetInboxMessage deduplicates on the message id       *)
(*   decide   GetDeviceOperation: is the operation completed already?      *)
(*   mark     RecordInboxProcessTransition without operation or projection *)
(*   project  RecordInboxProcessTransition with both                       *)
(*                                                                         *)
(* and then processed, skipped, dead_lettered or error until its caller    *)
(* has taken note of the outcome.                                          *)
(***************************************************************************)
EXTENDS LifecycleStore

CONSTANT Agents   \* processes that run processMessage

VARIABLES
  step,     \* where each agent is in processMessage
  result    \* the message each agent is processing

inboxVars == <<step, result>>

Running == {"create", "decide", "mark", "project"}
Finished == {"processed", "skipped", "dead_lettered", "error"}

ResultMessage == [id : Results, verdict : Verdicts \cup {"malformed"}, at : Nat]
NoResult == [id |-> "none", verdict |-> "none", at |-> 0]

InboxTypeOK ==
  /\ step \in [Agents -> {"none"} \cup Running \cup Finished]
  /\ result \in [Agents -> ResultMessage \cup {NoResult}]
  /\ \A a \in Agents :
       /\ step[a] # "none" => result[a] \in ResultMessage
       /\ step[a] \in {"mark", "project"} => result[a].verdict \in Verdicts

InboxInit ==
  /\ step = [a \in Agents |-> "none"]
  /\ result = [a \in Agents |-> NoResult]

\* processMessage is called with a message.
BeginProcess(a, m) ==
  /\ step' = [step EXCEPT ![a] = "create"]
  /\ result' = [result EXCEPT ![a] = m]

\* processMessage returned and its caller is done with the outcome.
EndProcess(a) ==
  /\ step' = [step EXCEPT ![a] = "none"]
  /\ result' = [result EXCEPT ![a] = NoResult]

Goto(a, s) == step' = [step EXCEPT ![a] = s] /\ UNCHANGED result

-----------------------------------------------------------------------------
\* The insert of a new row, or what an existing row leads to: ErrConflict for a
\* different payload, a skip of a message that was processed or dead-lettered.
CreateOrGetInboxMessage(a) ==
  LET m == result[a] IN
  /\ step[a] = "create"
  /\ \/ CreateInboxMessage(m.id, m.verdict, m.at) /\ Goto(a, "decide")
     \/ /\ inbox[m.id].status # "absent"
        /\ ~SameInboxCreate(m.id, m.verdict, m.at)
        /\ Goto(a, "error") /\ UNCHANGED storeVars
     \/ /\ inbox[m.id].status \in {"processed", "dead_lettered"}
        /\ SameInboxCreate(m.id, m.verdict, m.at)
        /\ Goto(a, "skipped") /\ UNCHANGED storeVars
     \/ /\ inbox[m.id].status = "retrying"
        /\ SameInboxCreate(m.id, m.verdict, m.at)
        /\ Goto(a, "decide") /\ UNCHANGED storeVars

\* ValidateAndDecode fails: the row is dead-lettered.
DeadLetterInvalid(a) ==
  /\ step[a] = "decide" /\ result[a].verdict = "malformed"
  /\ MarkInboxMessage(result[a].id, "dead_lettered")
  /\ Goto(a, "dead_lettered")

\* The operation's status is read outside of the transaction that uses it.
ReadOperation(a) ==
  /\ step[a] = "decide" /\ result[a].verdict # "malformed"
  /\ Goto(a, IF IsCompletedLifecycleOperation(OpOf[result[a].id]) THEN "mark" ELSE "project")
  /\ UNCHANGED storeVars

MarkProcessedWithoutProjection(a) ==
  /\ step[a] = "mark"
  /\ MarkInboxMessage(result[a].id, "processed")
  /\ Goto(a, "processed")

ProjectResult(a) ==
  /\ step[a] = "project"
  /\ RecordInboxProcessTransition(result[a].id, result[a].verdict)
  /\ Goto(a, "processed")

\* ErrNotFound or ErrDisabled: nothing is recorded, the row stays retrying.
ProjectResultRefused(a) ==
  /\ step[a] = "project"
  /\ ProjectionFails(OpOf[result[a].id]) \/ operations[OpOf[result[a].id]] = "absent"
  /\ Goto(a, "error") /\ UNCHANGED storeVars

\* Any of the store calls may fail without an effect.
StoreCallFails(a) ==
  /\ step[a] \in Running
  /\ Goto(a, "error") /\ UNCHANGED storeVars

ProcessMessage(a) ==
  \/ CreateOrGetInboxMessage(a)
  \/ DeadLetterInvalid(a)
  \/ ReadOperation(a)
  \/ MarkProcessedWithoutProjection(a)
  \/ ProjectResult(a)
  \/ ProjectResultRefused(a)
  \/ StoreCallFails(a)

-----------------------------------------------------------------------------
\* A result of such an operation of the device's current activity was processed.
ProcessedFor(d, type, verdict) ==
  \E r \in Results : LET o == OpOf[r] IN
    /\ DeviceOf[o] = d /\ TypeOf[o] = type
    /\ outbox[o].activity = device[d].activity
    /\ inbox[r].status = "processed" /\ inbox[r].verdict = verdict

\* What the device shows is the result of an operation of the activity it is in:
\* a late result of an earlier activation generation never shows through
\* (ExpectedActivityID in projectDeviceTx).
ProjectionOfCurrentActivity ==
  \A d \in Devices :
    /\ device[d].activation = "activated" => ProcessedFor(d, "provision", "succeeded")
    /\ device[d].activation = "failed" => ProcessedFor(d, "provision", "failed")
    /\ device[d].activation = "deactivated" => ProcessedFor(d, "deactivate", "succeeded")
=============================================================================
