----------------------- MODULE BrokerLifecycle_proofs -----------------------
(***************************************************************************)
(* Proofs about BrokerLifecycle, for every set of devices, operations,     *)
(* results, outbox workers and inbox workers and every value of the bounds.*)
(* The lemmas on the types of the shared tables are those of the direct    *)
(* mode, without its assumption that a worker processes its own results.   *)
(***************************************************************************)
EXTENDS BrokerLifecycle, TLAPS

\* The initial tables, workers, inbox steps and channels are well typed.
LEMMA InitTypeOK == Init => TypeOK
<1> SUFFICES ASSUME Init PROVE TypeOK
  OBVIOUS
<1>1. StoreTypeOK /\ WorkerTypeOK /\ InboxTypeOK
  BY StoreAssumption, WorkerAssumption
     DEF Init, StoreInit, StoreTypeOK, WorkerInit, WorkerTypeOK, InboxInit, InboxTypeOK,
         OutboxRow, InboxRow, DeviceRow, OperationStatuses, OutboxStatuses, InboxStatuses,
         ActivationStatuses, Verdicts, Outcomes
<1> QED BY <1>1 DEF Init, InboxInit, TypeOK

\* The API requests keep the tables well typed.
LEMMA RequestStoreType ==
  ASSUME StoreTypeOK, Request
  PROVE  StoreTypeOK'
<1>1. ASSUME NEW o \in Ops, NEW act \in Activities \cup {NoActivity}, CreateOperation(o, act)
      PROVE  /\ operations' \in [Ops -> OperationStatuses]
             /\ outbox' \in [Ops -> OutboxRow]
             /\ inbox' \in [Results -> InboxRow]
  BY <1>1 DEF CreateOperation, StoreTypeOK, OperationStatuses, OutboxStatuses, OutboxRow
<1>2. ASSUME NEW o \in Ops, StartDeviceLifecycleOperation(o) PROVE StoreTypeOK'
  <2>1. ActivityOf[o] \in Activities \cup {NoActivity} /\ DeviceOf[o] \in Devices
    BY StoreAssumption
  <2>2. device' \in [Devices -> DeviceRow]
    BY <1>2, <2>1 DEF StartDeviceLifecycleOperation, StoreTypeOK, DeviceRow, ActivationStatuses
  <2>q. QED BY <1>1, <1>2, <2>1, <2>2 DEF StartDeviceLifecycleOperation, StoreTypeOK
<1>3. ASSUME NEW o \in Ops, StartDeviceDeactivationOperation(o) PROVE StoreTypeOK'
  <2>1. device[DeviceOf[o]].activity \in Activities \cup {NoActivity}
    BY StoreAssumption DEF StoreTypeOK, DeviceRow
  <2>q. QED BY <1>1, <1>3, <2>1 DEF StartDeviceDeactivationOperation, StoreTypeOK
<1>4. ASSUME NEW o \in Ops, UnprovisionDevice(o) PROVE StoreTypeOK'
  <2>1. device' \in [Devices -> DeviceRow]
    BY <1>4, StoreAssumption DEF UnprovisionDevice, StoreTypeOK, DeviceRow, ActivationStatuses
  <2>q. QED BY <1>1, <1>4, <2>1 DEF UnprovisionDevice, StoreTypeOK
<1>5. ASSUME NEW o \in Ops, StartDeviceEntitlementSnapshot(o) PROVE StoreTypeOK'
  BY <1>1, <1>5 DEF StartDeviceEntitlementSnapshot, StoreTypeOK
<1>6. ASSUME NEW d \in Devices, DeleteDeviceAsUser(d) PROVE StoreTypeOK'
  BY <1>6 DEF DeleteDeviceAsUser, StoreTypeOK, DeviceRow
<1>q. QED BY <1>2, <1>3, <1>4, <1>5, <1>6 DEF Request, ApiRequest

\* The transactions of the outbox keep the tables well typed.
LEMMA RecordStoreType ==
  ASSUME StoreTypeOK, NEW w \in Workers, NEW m \in ClaimedMessage,
         NEW st \in {"published", "retrying", "dead_lettered"},
         RecordOutboxPublishTransition(w, m, st)
  PROVE  StoreTypeOK'
<1>1. m.op \in Ops /\ m.attempt \in Nat
  BY DEF ClaimedMessage
<1>2. RecordedAttempt(m, st) \in Nat
  BY <1>1 DEF RecordedAttempt, StoreTypeOK, OutboxRow
<1>3. outbox' \in [Ops -> OutboxRow]
  <2>1. outbox[m.op] \in OutboxRow
    BY <1>1 DEF StoreTypeOK
  <2>2. [outbox[m.op] EXCEPT !.status = st, !.attempt = RecordedAttempt(m, st), !.due = FALSE,
                             !.holder = NoWorker] \in OutboxRow
    BY <1>2, <2>1 DEF OutboxRow, OutboxStatuses
  <2>3. \/ UNCHANGED outbox
        \/ outbox' = [outbox EXCEPT ![m.op] =
             [outbox[m.op] EXCEPT !.status = st, !.attempt = RecordedAttempt(m, st),
                                  !.due = FALSE, !.holder = NoWorker]]
    BY <1>1 DEF RecordOutboxPublishTransition, StoreTypeOK
  <2>q. QED BY <1>1, <2>2, <2>3 DEF StoreTypeOK
<1>4. operations' \in [Ops -> OperationStatuses]
  BY <1>1 DEF RecordOutboxPublishTransition, StoreTypeOK, OperationStatuses
<1>q. QED BY <1>3, <1>4 DEF RecordOutboxPublishTransition, StoreTypeOK

\* A lease or a delay that ends, and the operator's requeue, keep the tables well typed.
LEMMA PassageStoreType ==
  ASSUME StoreTypeOK, NEW o \in Ops, BecomesDue(o) \/ RequeueOutboxMessage(o)
  PROVE  StoreTypeOK'
<1>1. CASE BecomesDue(o)
  BY <1>1 DEF BecomesDue, StoreTypeOK, OutboxRow
<1>2. CASE RequeueOutboxMessage(o)
  <2>1. [outbox[o] EXCEPT !.status = "pending", !.attempt = 0, !.due = TRUE, !.holder = NoWorker]
          \in OutboxRow
    BY DEF StoreTypeOK, OutboxRow, OutboxStatuses
  <2>2. outbox' \in [Ops -> OutboxRow]
    BY <1>2, <2>1 DEF RequeueOutboxMessage, StoreTypeOK
  <2>3. operations' \in [Ops -> OperationStatuses]
    BY <1>2 DEF RequeueOutboxMessage, StoreTypeOK, OperationStatuses
  <2>q. QED BY <1>2, <2>2, <2>3 DEF RequeueOutboxMessage, StoreTypeOK
<1>q. QED BY <1>1, <1>2

\* A projected device is a device row.
LEMMA ProjectedDeviceType ==
  ASSUME StoreTypeOK, NEW o \in Ops, NEW v
  PROVE  ProjectedDevice(o, v) \in DeviceRow
<1> DEFINE dev == device[DeviceOf[o]]
<1>1. dev \in DeviceRow
  BY StoreAssumption DEF StoreTypeOK
<1> DEFINE act == CASE v = "succeeded" /\ TypeOf[o] = "provision" -> "activated"
                    [] v = "succeeded" /\ TypeOf[o] = "deactivate" -> "deactivated"
                    [] v = "failed" /\ TypeOf[o] = "provision" -> "failed"
                    [] OTHER -> dev.activation
<1>2. act \in ActivationStatuses
  BY <1>1 DEF ActivationStatuses, DeviceRow
<1> HIDE DEF act
<1>3. [dev EXCEPT !.activation = act, !.lastError = (v = "failed")] \in DeviceRow
  BY <1>1, <1>2 DEF DeviceRow
<1>q. QED BY <1>1, <1>3 DEF ProjectedDevice, act

\* The steps of processMessage keep the tables and their own state well typed.
LEMMA ProcessType ==
  ASSUME StoreTypeOK, InboxTypeOK, NEW a \in Agents, ProcessMessage(a)
  PROVE  StoreTypeOK' /\ InboxTypeOK'
<1>1. result[a] \in ResultMessage /\ step[a] \in Running
  BY DEF ProcessMessage, InboxTypeOK, Running, CreateOrGetInboxMessage, DeadLetterInvalid,
         ReadOperation, MarkProcessedWithoutProjection, ProjectResult, ProjectResultRefused,
         StoreCallFails
<1>2. /\ result[a].id \in Results /\ result[a].at \in Nat
      /\ result[a].verdict \in Verdicts \cup {"malformed"}
  BY <1>1 DEF ResultMessage
<1>3. ASSUME NEW s \in Running \cup Finished, Goto(a, s),
             s \in {"mark", "project"} => result[a].verdict \in Verdicts
      PROVE  InboxTypeOK'
  BY <1>1, <1>3 DEF Goto, InboxTypeOK
<1>4. CASE CreateOrGetInboxMessage(a)
  <2>1. StoreTypeOK'
    BY <1>2, <1>4 DEF CreateOrGetInboxMessage, CreateInboxMessage, StoreTypeOK, InboxRow,
                      InboxStatuses, storeVars
  <2>q. QED BY <1>3, <1>4, <2>1 DEF CreateOrGetInboxMessage, Running, Finished
<1>5. ASSUME NEW st \in InboxStatuses, MarkInboxMessage(result[a].id, st) PROVE StoreTypeOK'
  BY <1>2, <1>5 DEF MarkInboxMessage, StoreTypeOK, InboxRow
<1>6. CASE DeadLetterInvalid(a)
  BY <1>3, <1>5, <1>6 DEF DeadLetterInvalid, Finished, InboxStatuses
<1>7. CASE ReadOperation(a)
  BY <1>2, <1>3, <1>7 DEF ReadOperation, Running, StoreTypeOK, storeVars
<1>8. CASE MarkProcessedWithoutProjection(a)
  BY <1>3, <1>5, <1>8 DEF MarkProcessedWithoutProjection, Finished, InboxStatuses
<1>9. CASE ProjectResult(a)
  <2>1. result[a].verdict \in Verdicts
    BY <1>9 DEF ProjectResult, InboxTypeOK
  <2>2. StoreTypeOK'
    <3> DEFINE o == OpOf[result[a].id]
    <3>1. o \in Ops
      BY <1>2, StoreAssumption
    <3>2. ProjectedDevice(o, result[a].verdict) \in DeviceRow
      BY <3>1, ProjectedDeviceType
    <3>q. QED
      BY <1>2, <1>9, <2>1, <3>1, <3>2
         DEF ProjectResult, RecordInboxProcessTransition, StoreTypeOK, InboxRow, InboxStatuses,
             OperationStatuses, Verdicts
  <2>q. QED BY <1>3, <1>9, <2>2 DEF ProjectResult, Finished
<1>10. CASE ProjectResultRefused(a)
  BY <1>3, <1>10 DEF ProjectResultRefused, Finished, StoreTypeOK, storeVars
<1>11. CASE StoreCallFails(a)
  BY <1>3, <1>11 DEF StoreCallFails, Finished, StoreTypeOK, storeVars
<1>q. QED BY <1>4, <1>6, <1>7, <1>8, <1>9, <1>10, <1>11 DEF ProcessMessage

\* A claim returns messages as they are in the table.
LEMMA ClaimType ==
  ASSUME StoreTypeOK, WorkerTypeOK, NEW w \in Workers, ClaimBatch(w)
  PROVE  StoreTypeOK' /\ WorkerTypeOK'
<1>1. PICK batch \in SUBSET ReadyMessages :
        /\ ClaimOutboxMessagesReady(w, batch)
        /\ claimed' = [claimed EXCEPT ![w] =
             {[op |-> o, status |-> outbox[o].status, attempt |-> outbox[o].attempt] : o \in batch}]
  BY DEF ClaimBatch
<1>2. {[op |-> o, status |-> outbox[o].status, attempt |-> outbox[o].attempt] : o \in batch}
        \in SUBSET ClaimedMessage
  BY DEF ReadyMessages, ClaimedMessage, StoreTypeOK, OutboxRow
<1>3. claimed' \in [Workers -> SUBSET ClaimedMessage]
  BY <1>1, <1>2 DEF WorkerTypeOK
<1>4. WorkerTypeOK'
  BY <1>3 DEF ClaimBatch, WorkerTypeOK
<1>5. ASSUME NEW o \in Ops
      PROVE  [outbox[o] EXCEPT !.due = FALSE, !.holder = w] \in OutboxRow
  BY DEF StoreTypeOK, OutboxRow
<1>6. StoreTypeOK'
  BY <1>1, <1>5 DEF ClaimOutboxMessagesReady, StoreTypeOK
<1>q. QED BY <1>4, <1>6

\* What a worker records is a status of an outbox row and of an operation.
LEMMA RecordedStatusType ==
  ASSUME NEW m, NEW r
  PROVE  RecordedStatus(m, r) \in {"published", "retrying", "dead_lettered"}
BY DEF RecordedStatus

\* A worker that stops forgets what it claimed.
LEMMA RestartType ==
  ASSUME WorkerTypeOK, NEW w \in Workers, Restart(w), faults' \in Nat
  PROVE  WorkerTypeOK'
BY DEF Restart, WorkerTypeOK, Outcomes

\* The end of processMessage, by return or by crash, keeps its state well typed.
LEMMA EndProcessType ==
  ASSUME InboxTypeOK, NEW a \in Agents, EndProcess(a)
  PROVE  InboxTypeOK'
BY DEF EndProcess, InboxTypeOK

-----------------------------------------------------------------------------
(* What the agents and the stream know of each other.                      *)

\* What is on the stream was sent.
DeliveredWasSent == \A a \in Agents : \A e \in unread[a] : emitted[e[1]] # "none"

Settled == {"processed", "dead_lettered"}

\* Another delivery of the result that a processes is still to come.
ComesAgain(a) ==
  \E n \in 1..deliveries[result[a].id] : <<result[a].id, n>> \in unread[a] \ {taken[a]}

\* An agent processes the message as it was sent; from the second transaction on the
\* inbox has its row, and when it is about to acknowledge, the row is settled or was
\* reopened, and has a new delivery once it was replayed.
AgentKnows(a) ==
  /\ step[a] # "none" => /\ emitted[result[a].id] # "none"
                         /\ result[a].verdict = emitted[result[a].id]
  /\ step[a] \in {"decide", "mark", "project"} =>
       /\ inbox[result[a].id].status # "absent"
       /\ inbox[result[a].id].verdict = result[a].verdict
  /\ ShouldAcknowledgeOutcome(a) =>
       inbox[result[a].id].status \in Settled \/ result[a].id \in reopened \/ ComesAgain(a)

StreamInv == TypeOK /\ DeliveredWasSent /\ \A a \in Agents : AgentKnows(a)

\* Steps that leave the channels and the inbox processes alone keep their types.
LEMMA ChannelType ==
  ASSUME TypeOK, UNCHANGED <<inboxVars, channelVars>>, StoreTypeOK', WorkerTypeOK'
  PROVE  TypeOK'
BY DEF TypeOK, inboxVars, channelVars, InboxTypeOK

\* Every step of an outbox worker keeps the state well typed.
LEMMA WorkerStepType ==
  ASSUME TypeOK, NEW w \in Workers, WorkerStep(w)
  PROVE  TypeOK'
<1>1. CASE ClaimBatch(w) /\ UNCHANGED <<inboxVars, channelVars>>
  BY <1>1, ClaimType, ChannelType DEF TypeOK
<1>2. CASE Publish(w)
  <2>1. PICK m \in claimed[w], r \in {"ok", "transient", "permanent"} :
          /\ Take(w, m) /\ PublishReturns(w, r)
          /\ commands' \in {commands, commands \cup {m.op}}
    BY <1>2 DEF Publish
  <2>2. m \in ClaimedMessage /\ m.op \in Ops
    BY DEF TypeOK, WorkerTypeOK, ClaimedMessage
  <2>3. WorkerTypeOK'
    BY <1>2, <2>1, <2>2 DEF Publish, Take, PublishReturns, TypeOK, WorkerTypeOK, Outcomes
  <2>4. commands' \subseteq Ops
    BY <2>1, <2>2 DEF TypeOK
  <2> QED BY <1>2, <2>3, <2>4 DEF Publish, storeVars, inboxVars, TypeOK, StoreTypeOK, InboxTypeOK
<1>3. CASE RecordOutcome(w) /\ UNCHANGED <<inboxVars, channelVars>>
  <2>1. current[w] \in ClaimedMessage
    BY <1>3 DEF RecordOutcome, TypeOK, WorkerTypeOK
  <2>2. StoreTypeOK'
    BY <1>3, <2>1, RecordStoreType, RecordedStatusType DEF RecordOutcome, TypeOK
  <2>3. WorkerTypeOK'
    BY <1>3 DEF RecordOutcome, TypeOK, WorkerTypeOK, Outcomes
  <2> QED BY <1>3, <2>2, <2>3, ChannelType
<1>4. CASE Crash(w) /\ UNCHANGED <<inboxVars, channelVars>>
  <2>1. WorkerTypeOK'
    BY <1>4, RestartType DEF Crash, Fault, TypeOK, WorkerTypeOK
  <2> QED BY <1>4, <2>1, ChannelType DEF Crash, storeVars, TypeOK, StoreTypeOK
<1> QED BY <1>1, <1>2, <1>3, <1>4 DEF WorkerStep

\* A delivery that is received was sent, so it has a verdict.
LEMMA ReceiveType ==
  ASSUME TypeOK, DeliveredWasSent, NEW a \in Agents, Receive(a)
  PROVE  TypeOK'
<1>1. PICK e \in unread[a] :
        /\ BeginProcess(a, [id |-> e[1], verdict |-> emitted[e[1]], at |-> 0])
        /\ taken' = [taken EXCEPT ![a] = e]
  BY DEF Receive
<1>2. e \in Results \X Nat /\ e[1] \in Results
  BY DEF TypeOK
<1>3. [id |-> e[1], verdict |-> emitted[e[1]], at |-> 0] \in ResultMessage
  BY <1>2 DEF DeliveredWasSent, TypeOK, ResultMessage
<1>4. InboxTypeOK'
  BY <1>1, <1>3 DEF BeginProcess, InboxTypeOK, Running, TypeOK
<1>5. taken' \in [Agents -> (Results \X Nat) \cup {<<>>}]
  BY <1>1, <1>2 DEF TypeOK
<1>6. \A b \in Agents : step'[b] # "none" => taken'[b] \in unread'[b] /\ taken'[b][1] = result'[b].id
  BY <1>1 DEF Receive, BeginProcess, TypeOK, InboxTypeOK
<1> QED BY <1>4, <1>5, <1>6 DEF Receive, storeVars, workerVars, TypeOK, StoreTypeOK, WorkerTypeOK

\* An agent that ends processMessage forgets its delivery.
LEMMA EndingType ==
  ASSUME TypeOK, NEW a \in Agents, Acknowledge(a) \/ StopOnError(a) \/ ConsumerCrash(a)
  PROVE  TypeOK'
<1>1. /\ EndProcess(a) /\ taken' = [taken EXCEPT ![a] = <<>>]
      /\ unread' \in {unread, [unread EXCEPT ![a] = @ \ {taken[a]}]}
      /\ UNCHANGED <<storeVars, pc, claimed, current, outcome, commands, emitted, deliveries, reopened>>
      /\ faults' \in Nat
  BY DEF Acknowledge, StopOnError, ConsumerCrash, workerVars, Fault, TypeOK, WorkerTypeOK
<1>2. InboxTypeOK'
  BY <1>1, EndProcessType DEF TypeOK
<1>3. taken' \in [Agents -> (Results \X Nat) \cup {<<>>}]
  BY <1>1 DEF TypeOK
<1>4. /\ unread' \in [Agents -> SUBSET (Results \X Nat)]
      /\ \A b \in Agents : unread'[b] \subseteq unread[b] /\ (b # a => unread'[b] = unread[b])
  BY <1>1 DEF TypeOK
<1>5. \A b \in Agents : step'[b] # "none" => taken'[b] \in unread'[b] /\ taken'[b][1] = result'[b].id
  BY <1>1, <1>4 DEF EndProcess, TypeOK, InboxTypeOK
<1>6. \A b \in Agents : \A e \in unread'[b] : e[2] \in 1..deliveries'[e[1]]
  BY <1>1, <1>4 DEF TypeOK
<1>7. WorkerTypeOK' /\ StoreTypeOK'
  BY <1>1 DEF TypeOK, WorkerTypeOK, StoreTypeOK, storeVars
<1> QED BY <1>1, <1>2, <1>3, <1>4, <1>5, <1>6, <1>7 DEF TypeOK

\* One more delivery of r is well typed.
LEMMA DeliveryType ==
  ASSUME TypeOK, NEW r \in Results, UNCHANGED <<inboxVars, taken>>, commands' = commands, reopened' \subseteq Results,
         emitted' \in [Results -> Verdicts \cup {"none", "malformed"}],
         NEW n \in Nat \ {0}, \A a \in Agents : \A e \in unread[a] : e[1] = r => e[2] <= n,
         deliveries' = [deliveries EXCEPT ![r] = n],
         unread' = [a \in Agents |-> unread[a] \cup {<<r, n>>}], StoreTypeOK', WorkerTypeOK'
  PROVE  TypeOK'
<1>1. unread' \in [Agents -> SUBSET (Results \X Nat)] /\ deliveries' \in [Results -> Nat]
  BY DEF TypeOK
<1>2. ASSUME NEW a \in Agents, NEW e \in unread'[a] PROVE e[2] \in 1..deliveries'[e[1]]
  <2>1. CASE e = <<r, n>>
    BY <2>1 DEF TypeOK
  <2>2. CASE e \in unread[a]
    <3>1. e[1] \in Results /\ e[2] \in 1..deliveries[e[1]] /\ deliveries[e[1]] \in Nat
      BY <2>2 DEF TypeOK
    <3>2. CASE e[1] = r
      BY <2>2, <3>1, <3>2 DEF TypeOK
    <3>3. CASE e[1] # r
      BY <3>1, <3>3 DEF TypeOK
    <3> QED BY <3>2, <3>3
  <2> QED BY <2>1, <2>2
<1>3. InboxTypeOK' /\ \A a \in Agents : step'[a] # "none" => taken'[a] \in unread'[a] /\ taken'[a][1] = result'[a].id
  BY DEF TypeOK, InboxTypeOK, inboxVars
<1> QED BY <1>1, <1>2, <1>3 DEF TypeOK

\* Video Cloud, the broker and the operator keep the state well typed.
LEMMA StreamType ==
  ASSUME TypeOK, DeliveredWasSent, NEW r \in Results,
         VideoCloudAnswers(r) \/ BrokerDuplicate(r) \/ OperatorReopens(r) \/ OperatorReplays(r)
  PROVE  TypeOK'
<1>1. CASE VideoCloudAnswers(r)
  <2>1. emitted' \in [Results -> Verdicts \cup {"none", "malformed"}]
    BY <1>1 DEF VideoCloudAnswers, TypeOK
  <2>2. \A a \in Agents : \A e \in unread[a] : e[1] = r => e[2] <= 1
    BY <1>1 DEF VideoCloudAnswers, DeliveredWasSent
  <2>3. StoreTypeOK' /\ WorkerTypeOK'
    BY <1>1 DEF VideoCloudAnswers, storeVars, workerVars, TypeOK, StoreTypeOK, WorkerTypeOK
  <2>4. /\ UNCHANGED <<inboxVars, taken, reopened>> /\ commands' = commands /\ deliveries' = [deliveries EXCEPT ![r] = 1]
        /\ unread' = [a \in Agents |-> unread[a] \cup {<<r, 1>>}]
    BY <1>1 DEF VideoCloudAnswers
  <2>5. 1 \in Nat \ {0} /\ reopened' \subseteq Results
    BY <2>4 DEF TypeOK
  <2> QED BY <2>1, <2>2, <2>3, <2>4, <2>5, DeliveryType
<1>2. CASE BrokerDuplicate(r) \/ OperatorReplays(r)
  <2>1. StoreTypeOK'
    BY <1>2 DEF BrokerDuplicate, OperatorReplays, storeVars, TypeOK, StoreTypeOK
  <2>2. WorkerTypeOK'
    BY <1>2 DEF BrokerDuplicate, OperatorReplays, workerVars, Fault, TypeOK, WorkerTypeOK
  <2>3. deliveries[r] + 1 \in Nat \ {0} /\ Redelivered(r)
    BY <1>2 DEF TypeOK, BrokerDuplicate, OperatorReplays
  <2>4. ASSUME NEW a \in Agents, NEW e \in unread[a], e[1] = r PROVE e[2] <= deliveries[r] + 1
    <3>1. e[2] \in 1..deliveries[r] /\ deliveries[r] \in Nat
      BY <2>4 DEF TypeOK
    <3> QED BY <3>1
  <2>5. \A a \in Agents : \A e \in unread[a] : e[1] = r => e[2] <= deliveries[r] + 1
    BY <2>4
  <2>6. /\ UNCHANGED <<inboxVars, taken>> /\ commands' = commands /\ emitted' = emitted
        /\ deliveries' = [deliveries EXCEPT ![r] = deliveries[r] + 1]
        /\ unread' = [a \in Agents |-> unread[a] \cup {<<r, deliveries[r] + 1>>}]
    BY <1>2 DEF BrokerDuplicate, OperatorReplays, Redelivered
  <2>7. emitted' \in [Results -> Verdicts \cup {"none", "malformed"}] /\ reopened' \subseteq Results
    BY <2>3, <2>6 DEF TypeOK, Redelivered
  <2> QED BY <2>1, <2>2, <2>3, <2>5, <2>6, <2>7, DeliveryType
<1>3. CASE OperatorReopens(r)
  <2>1. StoreTypeOK'
    BY <1>3 DEF OperatorReopens, RequeueInboxMessage, MarkInboxMessage, TypeOK, StoreTypeOK, InboxRow, InboxStatuses
  <2>2. WorkerTypeOK'
    BY <1>3 DEF OperatorReopens, Fault, TypeOK, WorkerTypeOK
  <2> QED BY <1>3, <2>1, <2>2 DEF OperatorReopens, inboxVars, TypeOK, InboxTypeOK
<1> QED BY <1>1, <1>2, <1>3

\* Every step keeps the state well typed.
LEMMA NextType == TypeOK /\ DeliveredWasSent /\ [Next]_vars => TypeOK'
<1> SUFFICES ASSUME TypeOK, DeliveredWasSent, [Next]_vars PROVE TypeOK'
  OBVIOUS
<1>1. ASSUME NEW a \in Agents, ProcessMessage(a) /\ UNCHANGED <<workerVars, channelVars>> PROVE TypeOK'
  <2>1. StoreTypeOK' /\ InboxTypeOK'
    BY <1>1, ProcessType DEF TypeOK
  <2>2. step[a] # "none" /\ result' = result /\ \E s : step' = [step EXCEPT ![a] = s]
    BY <1>1 DEF ProcessMessage, CreateOrGetInboxMessage, DeadLetterInvalid, ReadOperation,
       MarkProcessedWithoutProjection, ProjectResult, ProjectResultRefused, StoreCallFails, Goto, Running
  <2> QED BY <1>1, <2>1, <2>2 DEF workerVars, channelVars, TypeOK, WorkerTypeOK, InboxTypeOK
<1>2. ASSUME NEW o \in Ops, Passage(o) PROVE TypeOK'
  <2>1. StoreTypeOK'
    BY <1>2, PassageStoreType DEF Passage, DelayEnds, LeaseOverrun, OperatorRequeue, TypeOK
  <2>2. WorkerTypeOK'
    BY <1>2 DEF Passage, DelayEnds, LeaseOverrun, OperatorRequeue, Fault, TypeOK, WorkerTypeOK,
                workerVars
  <2> QED BY <1>2, <2>1, <2>2, ChannelType DEF Passage
<1>3. CASE Request
  BY <1>3, RequestStoreType, ChannelType DEF Request, ApiRequest, TypeOK, workerVars, WorkerTypeOK
<1>4. CASE UNCHANGED vars
  BY <1>4, ChannelType DEF vars, storeVars, workerVars, TypeOK, StoreTypeOK, WorkerTypeOK
<1> QED BY <1>1, <1>2, <1>3, <1>4, WorkerStepType, ReceiveType, EndingType, StreamType DEF Next, ConsumerStep

-----------------------------------------------------------------------------
(* The inbox and the stream, step by step.                                 *)

\* A step of processMessage is one of these writes of the inbox.
LEMMA ProcessInbox ==
  ASSUME StreamInv, NEW a \in Agents, ProcessMessage(a)
  PROVE  /\ result[a].id \in Results /\ result' = result /\ step[a] \in Running
         /\ \E s \in {"decide", "mark", "project"} \cup Finished : step' = [step EXCEPT ![a] = s]
         /\ \/ inbox' = inbox
            \/ /\ inbox[result[a].id].status = "absent" /\ step'[a] = "decide"
               /\ inbox' = [inbox EXCEPT ![result[a].id] =
                    [status |-> "retrying", verdict |-> result[a].verdict, at |-> result[a].at]]
            \/ /\ step[a] \in {"mark", "project"} /\ step'[a] = "processed"
               /\ inbox' = [inbox EXCEPT ![result[a].id].status = "processed"]
            \/ /\ step[a] = "decide" /\ result[a].verdict = "malformed" /\ step'[a] = "dead_lettered"
               /\ inbox' = [inbox EXCEPT ![result[a].id].status = "dead_lettered"]
<1>1. /\ step[a] \in Running /\ step[a] # "none"
  BY DEF ProcessMessage, Running, CreateOrGetInboxMessage, DeadLetterInvalid,
         ReadOperation, MarkProcessedWithoutProjection, ProjectResult, ProjectResultRefused,
         StoreCallFails
<1>2. result[a] \in ResultMessage /\ result[a].id \in Results /\ step \in [Agents -> {"none"} \cup Running \cup Finished]
  BY <1>1 DEF StreamInv, TypeOK, InboxTypeOK, ResultMessage
<1>3. CASE CreateOrGetInboxMessage(a)
  BY <1>1, <1>2, <1>3 DEF CreateOrGetInboxMessage, CreateInboxMessage, Goto, storeVars, Finished
<1>4. CASE DeadLetterInvalid(a)
  BY <1>1, <1>2, <1>4 DEF DeadLetterInvalid, MarkInboxMessage, Goto, Finished
<1>5. CASE MarkProcessedWithoutProjection(a) \/ ProjectResult(a)
  BY <1>1, <1>2, <1>5 DEF MarkProcessedWithoutProjection, ProjectResult, RecordInboxProcessTransition,
                    MarkInboxMessage, Goto, Finished
<1>6. CASE ReadOperation(a) \/ ProjectResultRefused(a) \/ StoreCallFails(a)
  BY <1>1, <1>2, <1>6 DEF ReadOperation, ProjectResultRefused, StoreCallFails, Goto, storeVars, Finished
<1> QED BY <1>3, <1>4, <1>5, <1>6 DEF ProcessMessage

\* Only processMessage and the operator's requeue write the inbox.
LEMMA InboxUnchanged ==
  ASSUME [Next]_vars, \A a \in Agents : ~ProcessMessage(a), \A r \in Results : ~OperatorReopens(r)
  PROVE  inbox' = inbox
<1>1. ASSUME NEW w \in Workers, WorkerStep(w) PROVE inbox' = inbox
  BY <1>1 DEF WorkerStep, ClaimBatch, ClaimOutboxMessagesReady, Publish, RecordOutcome,
     RecordOutboxPublishTransition, Crash, storeVars
<1>2. ASSUME NEW o \in Ops, Passage(o) PROVE inbox' = inbox
  BY <1>2 DEF Passage, DelayEnds, LeaseOverrun, OperatorRequeue, BecomesDue, RequeueOutboxMessage
<1>3. CASE Request
  BY <1>3 DEF Request, ApiRequest, StartDeviceLifecycleOperation, StartDeviceDeactivationOperation,
     UnprovisionDevice, StartDeviceEntitlementSnapshot, CreateOperation, DeleteDeviceAsUser
<1>4. ASSUME NEW a \in Agents, Receive(a) \/ Acknowledge(a) \/ StopOnError(a) \/ ConsumerCrash(a) PROVE inbox' = inbox
  BY <1>4 DEF Receive, Acknowledge, StopOnError, ConsumerCrash, storeVars
<1>5. ASSUME NEW r \in Results, VideoCloudAnswers(r) \/ BrokerDuplicate(r) \/ OperatorReplays(r) PROVE inbox' = inbox
  BY <1>5 DEF VideoCloudAnswers, BrokerDuplicate, OperatorReplays, storeVars
<1>6. CASE UNCHANGED vars
  BY <1>6 DEF vars, storeVars
<1> QED BY <1>1, <1>2, <1>3, <1>4, <1>5, <1>6 DEF Next, ConsumerStep

\* A stored result keeps its payload, a processed one stays processed unless it was
\* malformed, and only the operator reopens a settled one.
LEMMA InboxRowsStay ==
  ASSUME StreamInv, [Next]_vars, NEW r \in Results, inbox[r].status # "absent"
  PROVE  /\ inbox'[r].status # "absent" /\ inbox'[r].verdict = inbox[r].verdict
         /\ inbox[r].status = "processed" /\ inbox[r].verdict # "malformed" => inbox'[r].status = "processed"
         /\ inbox[r].status \in Settled => inbox'[r].status \in Settled \/ OperatorReopens(r)
<1> DEFINE Stays == /\ inbox'[r].status # "absent" /\ inbox'[r].verdict = inbox[r].verdict
                    /\ inbox[r].status = "processed" /\ inbox[r].verdict # "malformed" => inbox'[r].status = "processed"
                    /\ inbox[r].status \in Settled => inbox'[r].status \in Settled \/ OperatorReopens(r)
<1>0. inbox \in [Results -> InboxRow]
  BY DEF StreamInv, TypeOK, StoreTypeOK
<1>1. ASSUME NEW a \in Agents, ProcessMessage(a) PROVE Stays
  <2>1. result[a].id \in Results
    BY <1>1, ProcessInbox
  <2>2. CASE inbox' = inbox
    BY <2>2
  <2>3. CASE /\ inbox[result[a].id].status = "absent"
             /\ inbox' = [inbox EXCEPT ![result[a].id] =
                  [status |-> "retrying", verdict |-> result[a].verdict, at |-> result[a].at]]
    BY <1>0, <2>3
  <2>4. CASE inbox' = [inbox EXCEPT ![result[a].id].status = "processed"]
    BY <1>0, <2>4 DEF InboxRow, Settled
  <2>5. CASE /\ step[a] = "decide" /\ result[a].verdict = "malformed"
             /\ inbox' = [inbox EXCEPT ![result[a].id].status = "dead_lettered"]
    <3>1. inbox[result[a].id].verdict = "malformed"
      BY <2>5 DEF StreamInv, AgentKnows
    <3> QED BY <1>0, <2>5, <3>1 DEF InboxRow, Settled
  <2> QED BY <1>1, <2>2, <2>3, <2>4, <2>5, ProcessInbox
<1>2. ASSUME NEW s \in Results, OperatorReopens(s) PROVE Stays
  BY <1>0, <1>2 DEF OperatorReopens, RequeueInboxMessage, MarkInboxMessage, InboxRow
<1>3. CASE inbox' = inbox
  BY <1>3
<1> QED BY <1>1, <1>2, <1>3, InboxUnchanged

\* What was sent stays as it was sent.
LEMMA EmittedStays ==
  ASSUME TypeOK, [Next]_vars, NEW r \in Results, emitted[r] # "none"
  PROVE  emitted'[r] = emitted[r]
<1>1. ASSUME NEW s \in Results, VideoCloudAnswers(s) PROVE emitted'[r] = emitted[r]
  BY <1>1 DEF VideoCloudAnswers, TypeOK
<1>2. CASE emitted' = emitted
  BY <1>2
<1> QED BY <1>1, <1>2 DEF Next, WorkerStep, ConsumerStep, Publish, Receive, Acknowledge, StopOnError,
     ConsumerCrash, BrokerDuplicate, OperatorReopens, OperatorReplays, Redelivered, Passage, Request, vars, channelVars

\* A row leaves the reopened ones only with a new delivery to every agent.
LEMMA ReopenedStays ==
  ASSUME TypeOK, [Next]_vars, NEW r \in Results, r \in reopened
  PROVE  r \in reopened' \/ Redelivered(r)
<1>1. CASE reopened' = reopened
  BY <1>1
<1>2. ASSUME NEW s \in Results, Redelivered(s) PROVE r \in reopened' \/ Redelivered(r)
  BY <1>2 DEF Redelivered
<1>3. ASSUME NEW s \in Results, OperatorReopens(s) PROVE r \in reopened'
  BY <1>3 DEF OperatorReopens
<1> QED BY <1>1, <1>2, <1>3 DEF Next, WorkerStep, ConsumerStep, Publish, Receive, Acknowledge, StopOnError,
     ConsumerCrash, VideoCloudAnswers, BrokerDuplicate, OperatorReplays, Passage, Request, vars, channelVars

\* What an agent knows stays true while it makes no step, whatever is put on the
\* stream: when a reopened row is replayed there is a new delivery of it.
LEMMA StandingAgent ==
  ASSUME StreamInv, [Next]_vars, NEW a \in Agents,
         step'[a] = step[a], result'[a] = result[a], taken'[a] = taken[a],
         unread[a] \subseteq unread'[a],
         \A r \in Results : emitted[r] # "none" => deliveries[r] <= deliveries'[r]
  PROVE  AgentKnows(a)'
<1> DEFINE r == result[a].id
<1>1. AgentKnows(a)
  BY DEF StreamInv
<1>2. CASE step[a] = "none"
  BY <1>2 DEF AgentKnows, ShouldAcknowledgeOutcome
<1>3. CASE step[a] # "none"
  <2>1. /\ r \in Results /\ taken[a] \in unread[a] /\ taken[a][1] = r
        /\ taken[a][2] \in 1..deliveries[r] /\ deliveries[r] \in Nat
    BY <1>3 DEF StreamInv, TypeOK, InboxTypeOK, ResultMessage
  <2>2. emitted'[r] # "none" /\ result'[a].verdict = emitted'[r]
    BY <1>1, <1>3, <2>1, EmittedStays DEF AgentKnows, StreamInv
  <2>3. step'[a] \in {"decide", "mark", "project"} =>
          inbox'[r].status # "absent" /\ inbox'[r].verdict = result'[a].verdict
    BY <1>1, <2>1, InboxRowsStay DEF AgentKnows
  <2>4. ASSUME ShouldAcknowledgeOutcome(a) PROVE inbox'[r].status \in Settled \/ r \in reopened' \/ ComesAgain(a)'
    <3>1. CASE ComesAgain(a)
      <4>1. PICK n \in 1..deliveries[r] : <<r, n>> \in unread[a] \ {taken[a]}
        BY <3>1 DEF ComesAgain
      <4>2. deliveries[r] <= deliveries'[r] /\ deliveries'[r] \in Nat
        BY <1>1, <1>3, <2>1, NextType DEF StreamInv, TypeOK, AgentKnows
      <4>3. n \in 1..deliveries'[r] /\ <<r, n>> \in unread'[a] \ {taken'[a]}
        BY <2>1, <4>1, <4>2
      <4> QED BY <4>3 DEF ComesAgain
    <3>2. CASE inbox[r].status \in Settled
      <4>1. inbox'[r].status \in Settled \/ OperatorReopens(r)
        BY <2>1, <3>2, InboxRowsStay DEF Settled
      <4> QED BY <4>1 DEF OperatorReopens
    <3>3. CASE r \in reopened
      <4>1. ASSUME Redelivered(r) PROVE ComesAgain(a)'
        <5>1. /\ deliveries'[r] = deliveries[r] + 1
              /\ <<r, deliveries[r] + 1>> \in unread'[a]
          BY <2>1, <4>1 DEF Redelivered, StreamInv, TypeOK
        <5>2. <<r, deliveries[r] + 1>> # taken'[a]
          BY <2>1
        <5>3. deliveries[r] + 1 \in 1..deliveries'[r]
          BY <2>1, <5>1
        <5> QED BY <5>1, <5>2, <5>3 DEF ComesAgain
      <4> QED BY <2>1, <3>3, <4>1, ReopenedStays DEF StreamInv
    <3> QED BY <1>1, <2>4, <3>1, <3>2, <3>3 DEF AgentKnows
  <2> QED BY <2>2, <2>3, <2>4 DEF AgentKnows, ShouldAcknowledgeOutcome
<1> QED BY <1>2, <1>3

\* The step an agent makes itself.
LEMMA MovingAgent ==
  ASSUME StreamInv, [Next]_vars, NEW a \in Agents, ProcessMessage(a), UNCHANGED channelVars
  PROVE  AgentKnows(a)'
<1> DEFINE r == result[a].id
<1>1. /\ r \in Results /\ result' = result /\ step[a] \in Running /\ step[a] # "none"
      /\ step'[a] \in {"decide", "mark", "project"} \cup Finished
  <2>1. r \in Results /\ result' = result /\ step[a] \in Running
    BY ProcessInbox
  <2>2. PICK s \in {"decide", "mark", "project"} \cup Finished : step' = [step EXCEPT ![a] = s]
    BY ProcessInbox
  <2>3. step'[a] = s
    BY <2>2 DEF StreamInv, TypeOK, InboxTypeOK
  <2> QED BY <2>1, <2>2, <2>3 DEF Running
<1>2. AgentKnows(a) /\ inbox \in [Results -> InboxRow]
  BY DEF StreamInv, TypeOK, StoreTypeOK
<1>3. emitted'[r] # "none" /\ result'[a].verdict = emitted'[r]
  BY <1>1, <1>2 DEF AgentKnows, channelVars
<1>4. ASSUME step'[a] = "decide" PROVE inbox'[r].status # "absent" /\ inbox'[r].verdict = result[a].verdict
  <2>1. CreateOrGetInboxMessage(a)
    BY <1>4 DEF ProcessMessage, DeadLetterInvalid, ReadOperation, MarkProcessedWithoutProjection,
       ProjectResult, ProjectResultRefused, StoreCallFails, Goto, StreamInv, TypeOK, InboxTypeOK
  <2> QED BY <1>1, <1>2, <1>4, <2>1 DEF CreateOrGetInboxMessage, CreateInboxMessage, SameInboxCreate, Goto,
       storeVars, StreamInv, TypeOK, InboxTypeOK
<1>5. ASSUME step'[a] \in {"mark", "project"} PROVE inbox'[r].status # "absent" /\ inbox'[r].verdict = result[a].verdict
  <2>1. ReadOperation(a)
    BY <1>5 DEF ProcessMessage, CreateOrGetInboxMessage, DeadLetterInvalid, MarkProcessedWithoutProjection,
       ProjectResult, ProjectResultRefused, StoreCallFails, Goto, StreamInv, TypeOK, InboxTypeOK
  <2> QED BY <1>2, <2>1 DEF ReadOperation, storeVars, AgentKnows
<1>6. ASSUME step'[a] \in {"processed", "skipped", "dead_lettered"} PROVE inbox'[r].status \in Settled
  <2>1. CASE CreateOrGetInboxMessage(a)
    BY <1>6, <2>1 DEF CreateOrGetInboxMessage, Goto, storeVars, Settled, StreamInv, TypeOK, InboxTypeOK
  <2>2. CASE DeadLetterInvalid(a)
    BY <1>1, <1>2, <2>2 DEF DeadLetterInvalid, MarkInboxMessage, Settled, InboxRow
  <2>3. CASE MarkProcessedWithoutProjection(a) \/ ProjectResult(a)
    BY <1>1, <1>2, <2>3 DEF MarkProcessedWithoutProjection, ProjectResult, RecordInboxProcessTransition,
       MarkInboxMessage, Settled, InboxRow
  <2>4. CASE ReadOperation(a) \/ ProjectResultRefused(a) \/ StoreCallFails(a)
    BY <1>6, <2>4 DEF ReadOperation, ProjectResultRefused, StoreCallFails, Goto, StreamInv, TypeOK, InboxTypeOK
  <2> QED BY <2>1, <2>2, <2>3, <2>4 DEF ProcessMessage
<1> QED BY <1>1, <1>3, <1>4, <1>5, <1>6 DEF AgentKnows, ShouldAcknowledgeOutcome

\* An agent that begins knows what was sent, and one that has ended knows nothing.
LEMMA StartingAgent ==
  ASSUME StreamInv, NEW a \in Agents,
         Receive(a) \/ Acknowledge(a) \/ StopOnError(a) \/ ConsumerCrash(a)
  PROVE  AgentKnows(a)'
<1>1. CASE Receive(a)
  <2>1. PICK e \in unread[a] : BeginProcess(a, [id |-> e[1], verdict |-> emitted[e[1]], at |-> 0])
    BY <1>1 DEF Receive
  <2>2. step'[a] = "create" /\ result'[a] = [id |-> e[1], verdict |-> emitted[e[1]], at |-> 0]
    BY <2>1 DEF BeginProcess, StreamInv, TypeOK, InboxTypeOK
  <2>3. emitted[e[1]] # "none" /\ emitted' = emitted
    BY <1>1 DEF StreamInv, DeliveredWasSent, Receive
  <2> QED BY <2>2, <2>3 DEF AgentKnows, ShouldAcknowledgeOutcome
<1>2. CASE EndProcess(a)
  BY <1>2 DEF EndProcess, AgentKnows, ShouldAcknowledgeOutcome, StreamInv, TypeOK, InboxTypeOK
<1> QED BY <1>1, <1>2 DEF Acknowledge, StopOnError, ConsumerCrash

\* Everything on the stream was sent.
LEMMA NextDelivered == StreamInv /\ [Next]_vars => DeliveredWasSent'
<1> SUFFICES ASSUME StreamInv, [Next]_vars, NEW a \in Agents, NEW e \in unread'[a]
             PROVE  emitted'[e[1]] # "none"
  BY DEF DeliveredWasSent
<1>1. CASE e \in unread[a]
  <2>1. e[1] \in Results /\ emitted[e[1]] # "none"
    BY <1>1 DEF StreamInv, TypeOK, DeliveredWasSent
  <2> QED BY <2>1, EmittedStays DEF StreamInv
<1>2. CASE e \notin unread[a]
  <2>1. ASSUME NEW r \in Results, VideoCloudAnswers(r) PROVE emitted'[e[1]] # "none"
    BY <1>2, <2>1 DEF VideoCloudAnswers, Verdicts, StreamInv, TypeOK
  <2>2. ASSUME NEW r \in Results, Redelivered(r) PROVE emitted'[e[1]] # "none"
    BY <1>2, <2>2 DEF Redelivered
  <2>3. ASSUME NEW b \in Agents, Acknowledge(b) PROVE FALSE
    BY <1>2, <2>3 DEF Acknowledge, StreamInv, TypeOK
  <2>4. CASE unread' = unread
    BY <1>2, <2>4
  <2> QED BY <2>1, <2>2, <2>3, <2>4 DEF Next, WorkerStep, ConsumerStep, Publish, Receive, StopOnError,
       ConsumerCrash, BrokerDuplicate, OperatorReopens, OperatorReplays, Passage, Request, vars, channelVars
<1> QED BY <1>1, <1>2

\* Every step keeps what the agents know.
LEMMA NextStream == StreamInv /\ [Next]_vars => StreamInv'
<1> SUFFICES ASSUME StreamInv, [Next]_vars PROVE StreamInv'
  OBVIOUS
<1>1. TypeOK' /\ DeliveredWasSent'
  BY NextType, NextDelivered DEF StreamInv
<1> SUFFICES ASSUME NEW a \in Agents PROVE AgentKnows(a)'
  BY <1>1 DEF StreamInv
<1>0. /\ TypeOK /\ step \in [Agents -> {"none"} \cup Running \cup Finished]
      /\ result \in [Agents -> ResultMessage \cup {NoResult}]
      /\ unread \in [Agents -> SUBSET (Results \X Nat)] /\ deliveries \in [Results -> Nat]
      /\ taken \in [Agents -> (Results \X Nat) \cup {<<>>}]
  BY DEF StreamInv, TypeOK, InboxTypeOK
<1>2. ASSUME UNCHANGED <<inboxVars, unread, deliveries, taken>> PROVE AgentKnows(a)'
  BY <1>0, <1>2, StandingAgent DEF inboxVars
<1>3. ASSUME NEW b \in Agents, ProcessMessage(b), UNCHANGED channelVars PROVE AgentKnows(a)'
  <2>1. CASE a = b
    BY <1>3, <2>1, MovingAgent
  <2>2. CASE a # b
    <3>1. result' = result /\ step'[a] = step[a]
      BY <1>0, <1>3, <2>2, ProcessInbox
    <3> QED BY <1>0, <1>3, <3>1, StandingAgent DEF channelVars
  <2> QED BY <2>1, <2>2
<1>4. ASSUME NEW b \in Agents, Receive(b) \/ Acknowledge(b) \/ StopOnError(b) \/ ConsumerCrash(b)
      PROVE  AgentKnows(a)'
  <2>1. CASE a = b
    BY <1>4, <2>1, StartingAgent
  <2>2. CASE a # b
    <3>1. /\ step'[a] = step[a] /\ result'[a] = result[a] /\ taken'[a] = taken[a]
          /\ unread'[a] = unread[a] /\ deliveries' = deliveries
      BY <1>0, <1>4, <2>2 DEF Receive, Acknowledge, StopOnError, ConsumerCrash, BeginProcess, EndProcess
    <3> QED BY <1>0, <3>1, StandingAgent
  <2> QED BY <2>1, <2>2
<1>5. ASSUME NEW r \in Results, VideoCloudAnswers(r) \/ BrokerDuplicate(r) \/ OperatorReplays(r)
      PROVE  AgentKnows(a)'
  <2>1. UNCHANGED <<inboxVars, taken>> /\ unread[a] \subseteq unread'[a]
    BY <1>0, <1>5 DEF VideoCloudAnswers, BrokerDuplicate, OperatorReplays, Redelivered
  <2>2. CASE BrokerDuplicate(r) \/ OperatorReplays(r)
    <3>1. \A s \in Results : deliveries[s] <= deliveries'[s]
      BY <1>0, <2>2 DEF BrokerDuplicate, OperatorReplays, Redelivered
    <3> QED BY <2>1, <3>1, StandingAgent DEF inboxVars
  <2>3. CASE VideoCloudAnswers(r)
    <3>1. \A s \in Results : emitted[s] # "none" => deliveries'[s] = deliveries[s]
      BY <1>0, <2>3 DEF VideoCloudAnswers
    <3>2. \A s \in Results : emitted[s] # "none" => deliveries[s] <= deliveries'[s]
      BY <1>0, <3>1
    <3> QED BY <2>1, <3>2, StandingAgent DEF inboxVars
  <2> QED BY <1>5, <2>2, <2>3
<1> QED BY <1>2, <1>3, <1>4, <1>5
     DEF Next, WorkerStep, ConsumerStep, Publish, OperatorReopens, Passage, Request, vars, channelVars

\* What the agents know and the stream holds, at every moment.
LEMMA StreamAlways == Spec => []StreamInv
<1>1. Init => StreamInv
  <2> SUFFICES ASSUME Init PROVE StreamInv
    OBVIOUS
  <2>1. DeliveredWasSent /\ \A a \in Agents : AgentKnows(a)
    BY DEF Init, InboxInit, DeliveredWasSent, AgentKnows, ShouldAcknowledgeOutcome
  <2> QED BY <2>1, InitTypeOK DEF StreamInv
<1> QED BY <1>1, NextStream, PTL DEF Spec

\* A delivery that is still to come.
IsComing(r, a) == \E n \in 1..deliveries[r] : <<r, n>> \in unread[a]

\* The step of a single agent, or of the broker, that could lose a result.
LEMMA NextNoResultLost == StreamInv /\ NoResultLost /\ [Next]_vars => NoResultLost'
<1> SUFFICES ASSUME StreamInv, NoResultLost, [Next]_vars, NEW r \in Results, NEW a \in Agents,
                    emitted'[r] # "none", inbox'[r].status \in {"absent", "retrying"}, r \notin reopened'
             PROVE  IsComing(r, a)'
  BY DEF NoResultLost, IsComing
<1>0. /\ unread \in [Agents -> SUBSET (Results \X Nat)] /\ deliveries \in [Results -> Nat]
      /\ taken \in [Agents -> (Results \X Nat) \cup {<<>>}]
  BY DEF StreamInv, TypeOK
<1>1. ASSUME NEW s \in Results, VideoCloudAnswers(s) PROVE IsComing(r, a)'
  <2>1. CASE r = s
    <3>1. deliveries'[r] = 1 /\ <<r, 1>> \in unread'[a]
      BY <1>0, <1>1, <2>1 DEF VideoCloudAnswers
    <3> QED BY <3>1 DEF IsComing
  <2>2. CASE r # s
    <3>1. /\ emitted'[r] = emitted[r] /\ inbox' = inbox /\ deliveries'[r] = deliveries[r]
          /\ reopened' = reopened /\ unread[a] \subseteq unread'[a]
      BY <1>0, <1>1, <2>2 DEF VideoCloudAnswers, storeVars, StreamInv, TypeOK
    <3> QED BY <3>1 DEF NoResultLost, IsComing
  <2> QED BY <2>1, <2>2
<1>2. ASSUME NEW s \in Results, Redelivered(s), inbox' = inbox PROVE IsComing(r, a)'
  <2>1. CASE r = s
    <3>1. deliveries'[r] = deliveries[r] + 1 /\ <<r, deliveries[r] + 1>> \in unread'[a]
      BY <1>0, <1>2, <2>1 DEF Redelivered
    <3>2. deliveries[r] + 1 \in 1..deliveries'[r]
      BY <1>0, <3>1
    <3> QED BY <3>1, <3>2 DEF IsComing
  <2>2. CASE r # s
    <3>1. /\ emitted' = emitted /\ deliveries'[r] = deliveries[r] /\ unread[a] \subseteq unread'[a]
          /\ r \notin reopened
      BY <1>0, <1>2, <2>2 DEF Redelivered
    <3> QED BY <1>2, <3>1 DEF NoResultLost, IsComing
  <2> QED BY <2>1, <2>2
<1>3. ASSUME NEW b \in Agents, Acknowledge(b) PROVE IsComing(r, a)'
  <2>1. /\ inbox' = inbox /\ emitted' = emitted /\ deliveries' = deliveries /\ reopened' = reopened
        /\ unread' = [unread EXCEPT ![b] = @ \ {taken[b]}] /\ step[b] # "none" /\ ShouldAcknowledgeOutcome(b)
    BY <1>3 DEF Acknowledge, storeVars, ShouldAcknowledgeOutcome
  <2>2. PICK n \in 1..deliveries[r] : <<r, n>> \in unread[a]
    BY <2>1 DEF NoResultLost
  <2>3. CASE a # b \/ <<r, n>> # taken[b]
    BY <1>0, <2>1, <2>2, <2>3 DEF IsComing
  <2>4. CASE a = b /\ <<r, n>> = taken[b]
    <3>1. result[b].id = r
      BY <2>1, <2>4 DEF StreamInv, TypeOK
    <3>2. inbox[r].status \notin Settled
      BY <2>1 DEF Settled
    <3>3. ComesAgain(b)
      BY <2>1, <3>1, <3>2 DEF StreamInv, AgentKnows
    <3> QED BY <1>0, <2>1, <2>4, <3>1, <3>3 DEF ComesAgain, IsComing
  <2> QED BY <2>3, <2>4
<1>4. ASSUME UNCHANGED <<emitted, deliveries, unread>>, r \notin reopened, ~OperatorReopens(r)
      PROVE  IsComing(r, a)'
  <2>1. inbox[r].status \in {"absent", "retrying"}
    <3>1. inbox[r].status \in InboxStatuses
      BY DEF StreamInv, TypeOK, StoreTypeOK, InboxRow
    <3> QED BY <1>4, <3>1, InboxRowsStay DEF Settled, InboxStatuses
  <2> QED BY <1>4, <2>1 DEF NoResultLost, IsComing
<1>5. ASSUME UNCHANGED <<emitted, deliveries, unread, reopened>> PROVE IsComing(r, a)'
  BY <1>4, <1>5 DEF OperatorReopens
<1>6. ASSUME NEW s \in Results, OperatorReopens(s) PROVE IsComing(r, a)'
  BY <1>4, <1>6 DEF OperatorReopens
<1>7. CASE \E s \in Results : OperatorReplays(s) \/ BrokerDuplicate(s)
  BY <1>2, <1>7 DEF OperatorReplays, BrokerDuplicate, storeVars
<1> QED BY <1>1, <1>3, <1>5, <1>6, <1>7 DEF Next, WorkerStep, ConsumerStep, Publish, Receive, StopOnError,
       ConsumerCrash, Passage, Request, vars, channelVars

\* No result is lost, for any number of inbox workers, deliveries, crashes and replays:
\* whoever acknowledges a delivery has seen the row settled, and a row that an operator
\* reopened is waiting for its replay, which reaches every worker (RunOnce,
\* RequeueInboxMessage).
THEOREM ResultsAreKept == Spec => []NoResultLost
<1>1. Init => NoResultLost
  BY DEF Init, NoResultLost
<1> QED BY <1>1, NextNoResultLost, StreamAlways, PTL DEF Spec

-----------------------------------------------------------------------------
(* Completion and what the device shows.                                   *)

\* A step of processMessage that projects nothing writes neither operations nor
\* outbox nor devices.
LEMMA ProcessQuiet ==
  ASSUME NEW a \in Agents, ProcessMessage(a), ~ProjectResult(a)
  PROVE  UNCHANGED <<operations, outbox, device>>
BY DEF ProcessMessage, CreateOrGetInboxMessage, CreateInboxMessage, DeadLetterInvalid,
   MarkInboxMessage, ReadOperation, MarkProcessedWithoutProjection, ProjectResultRefused,
   StoreCallFails, storeVars

\* The inbox workers and the broker write operations, outbox and devices only by
\* projecting a result.
LEMMA ChannelQuiet ==
  ASSUME [Next]_vars,
         \A w \in Workers : ~ClaimBatch(w) /\ ~RecordOutcome(w),
         \A o \in Ops : ~Passage(o), ~Request, \A a \in Agents : ~ProjectResult(a)
  PROVE  UNCHANGED <<operations, outbox, device>>
<1>1. ASSUME NEW a \in Agents, ProcessMessage(a) PROVE UNCHANGED <<operations, outbox, device>>
  BY <1>1, ProcessQuiet
<1>2. ASSUME NEW w \in Workers, Publish(w) \/ Crash(w) PROVE UNCHANGED <<operations, outbox, device>>
  BY <1>2 DEF Publish, Crash, storeVars
<1>3. ASSUME NEW a \in Agents, Receive(a) \/ Acknowledge(a) \/ StopOnError(a) \/ ConsumerCrash(a)
      PROVE  UNCHANGED <<operations, outbox, device>>
  BY <1>3 DEF Receive, Acknowledge, StopOnError, ConsumerCrash, storeVars
<1>4. ASSUME NEW r \in Results, VideoCloudAnswers(r) \/ BrokerDuplicate(r) \/ OperatorReopens(r) \/ OperatorReplays(r)
      PROVE  UNCHANGED <<operations, outbox, device>>
  BY <1>4 DEF VideoCloudAnswers, BrokerDuplicate, OperatorReopens, OperatorReplays, RequeueInboxMessage, MarkInboxMessage, storeVars
<1>5. CASE UNCHANGED vars
  BY <1>5 DEF vars, storeVars
<1> QED BY <1>1, <1>2, <1>3, <1>4, <1>5 DEF Next, WorkerStep, ConsumerStep

\* What the projection of a result writes.
LEMMA ProjectionWrites ==
  ASSUME StreamInv, NEW a \in Agents, ProjectResult(a)
  PROVE  LET r == result[a].id  o == OpOf[r] IN
         /\ r \in Results /\ o \in Ops /\ DeviceOf[o] \in Devices /\ operations[o] # "absent"
         /\ result[a].verdict \in Verdicts
         /\ operations' = [operations EXCEPT ![o] = result[a].verdict]
         /\ inbox'[r].status = "processed" /\ inbox'[r].verdict = result[a].verdict
         /\ emitted[r] = result[a].verdict
         /\ outbox' = outbox
         /\ device' = [device EXCEPT ![DeviceOf[o]] = ProjectedDevice(o, result[a].verdict)]
<1> DEFINE r == result[a].id
           o == OpOf[r]
<1>1. /\ r \in Results /\ o \in Ops /\ DeviceOf[o] \in Devices /\ result[a].verdict \in Verdicts
  BY StoreAssumption DEF ProjectResult, StreamInv, TypeOK, InboxTypeOK, ResultMessage
<1>2. inbox[r].verdict = result[a].verdict /\ emitted[r] = result[a].verdict
  BY DEF ProjectResult, StreamInv, AgentKnows
<1>3. inbox'[r].status = "processed" /\ inbox'[r].verdict = result[a].verdict
  BY <1>1, <1>2 DEF ProjectResult, RecordInboxProcessTransition, StreamInv, TypeOK, StoreTypeOK, InboxRow
<1> QED BY <1>1, <1>2, <1>3 DEF ProjectResult, RecordInboxProcessTransition

\* A step completes an operation only by projecting one of its results, with the
\* verdict that was sent.
LEMMA CompletesOnlyByProjection ==
  ASSUME StreamInv, [Next]_vars, NEW o \in Ops, operations'[o] \in {"succeeded", "failed"}
  PROVE  \/ operations'[o] = operations[o]
         \/ \E a \in Agents : /\ ProjectResult(a) /\ o = OpOf[result[a].id]
                              /\ operations'[o] = result[a].verdict
<1>0. operations \in [Ops -> OperationStatuses]
  BY DEF StreamInv, TypeOK, StoreTypeOK
<1>1. ASSUME NEW a \in Agents, ProjectResult(a), operations'[o] # operations[o]
      PROVE  o = OpOf[result[a].id] /\ operations'[o] = result[a].verdict
  BY <1>0, <1>1, ProjectionWrites
<1>2. ASSUME NEW w \in Workers, RecordOutcome(w) PROVE operations'[o] = operations[o]
  <2>1. PICK st \in {"published", "retrying", "dead_lettered"} :
          operations' \in {operations, [operations EXCEPT ![current[w].op] = st]}
    BY <1>2, RecordedStatusType DEF RecordOutcome, RecordOutboxPublishTransition
  <2> QED BY <1>0, <2>1, SMTT(30)
<1>3. ASSUME NEW p \in Ops, Passage(p) PROVE operations'[o] = operations[o]
  BY <1>0, <1>3 DEF Passage, DelayEnds, LeaseOverrun, OperatorRequeue, BecomesDue, RequeueOutboxMessage
<1>4. CASE Request
  BY <1>0, <1>4 DEF Request, ApiRequest, StartDeviceLifecycleOperation, StartDeviceDeactivationOperation,
     UnprovisionDevice, StartDeviceEntitlementSnapshot, CreateOperation, DeleteDeviceAsUser
<1>5. ASSUME NEW w \in Workers, ClaimBatch(w) PROVE UNCHANGED operations
  BY <1>5 DEF ClaimBatch, ClaimOutboxMessagesReady
<1> QED BY <1>1, <1>2, <1>3, <1>4, <1>5, ChannelQuiet

\* A completed operation keeps its result, and a step that completes one has it.
LEMMA NextCompletion == StreamInv /\ CompletionHasResult /\ [Next]_vars => CompletionHasResult'
<1> SUFFICES ASSUME StreamInv, CompletionHasResult, [Next]_vars, NEW o \in Ops,
                    operations'[o] \in {"succeeded", "failed"}
             PROVE  \E r \in Results : /\ OpOf[r] = o /\ inbox'[r].status = "processed"
                                       /\ inbox'[r].verdict = operations'[o] /\ emitted'[r] = operations'[o]
  BY DEF CompletionHasResult, IsCompletedLifecycleOperation
<1>1. CASE operations'[o] = operations[o]
  <2>1. PICK r \in Results : /\ OpOf[r] = o /\ inbox[r].status = "processed"
                             /\ inbox[r].verdict = operations[o] /\ emitted[r] = operations[o]
    BY <1>1 DEF CompletionHasResult, IsCompletedLifecycleOperation
  <2>2. inbox'[r].status = "processed" /\ inbox'[r].verdict = inbox[r].verdict
    BY <1>1, <2>1, InboxRowsStay
  <2>3. emitted'[r] = emitted[r]
    BY <1>1, <2>1, EmittedStays DEF StreamInv
  <2> QED BY <1>1, <2>1, <2>2, <2>3
<1>2. ASSUME NEW a \in Agents, ProjectResult(a), o = OpOf[result[a].id], operations'[o] = result[a].verdict
      PROVE  \E r \in Results : /\ OpOf[r] = o /\ inbox'[r].status = "processed"
                                /\ inbox'[r].verdict = operations'[o] /\ emitted'[r] = operations'[o]
  <2>1. /\ result[a].id \in Results /\ emitted[result[a].id] = result[a].verdict
        /\ inbox'[result[a].id].status = "processed" /\ inbox'[result[a].id].verdict = result[a].verdict
    BY <1>2, ProjectionWrites
  <2>2. emitted'[result[a].id] = result[a].verdict
    BY <1>2, <2>1, EmittedStays DEF StreamInv
  <2> QED BY <1>2, <2>1, <2>2
<1> QED BY <1>1, <1>2, CompletesOnlyByProjection

\* The command of a provision carries the activity of its request.
Named(o) == TypeOf[o] = "provision" => outbox[o].activity = ActivityOf[o]

\* Some row or some worker knows of the operation.
Exists(o) ==
  \/ operations[o] # "absent" \/ outbox[o].status # "absent"
  \/ \E w \in Workers : o \in HeldBy(w)

\* Commands carry their activity from their creation on, and not before.
NamedInv ==
  \A o \in Ops : /\ Exists(o) => Named(o)
                 /\ operations[o] = "absent" => outbox[o].activity = NoActivity

\* The activity of a command is written once, when the operation is created.
LEMMA ActivitySteps ==
  ASSUME TypeOK, [Next]_vars, NEW o \in Ops
  PROVE  \/ outbox'[o].activity = outbox[o].activity
         \/ operations[o] = "absent" /\ operations'[o] = "pending" /\ Named(o)'
<1>0. /\ outbox \in [Ops -> OutboxRow] /\ outbox[o] \in OutboxRow
      /\ operations \in [Ops -> OperationStatuses]
  BY DEF TypeOK, StoreTypeOK
<1>1. ASSUME NEW w \in Workers, RecordOutcome(w) PROVE outbox'[o].activity = outbox[o].activity
  BY <1>0, <1>1 DEF RecordOutcome, RecordOutboxPublishTransition, OutboxRow
<1>2. ASSUME NEW p \in Ops, Passage(p) PROVE outbox'[o].activity = outbox[o].activity
  BY <1>0, <1>2 DEF Passage, DelayEnds, LeaseOverrun, OperatorRequeue, BecomesDue, RequeueOutboxMessage, OutboxRow
<1>3. ASSUME NEW w \in Workers, ClaimBatch(w) PROVE outbox'[o].activity = outbox[o].activity
  <2>1. outbox'[o] = outbox[o] \/ outbox'[o] = [outbox[o] EXCEPT !.due = FALSE, !.holder = w]
    BY <1>3 DEF ClaimBatch, ClaimOutboxMessagesReady
  <2> QED BY <1>0, <2>1 DEF OutboxRow
<1>4. CASE Request
  <2>1. ASSUME NEW p \in Ops, NEW activity, CreateOperation(p, activity)
        PROVE  \/ outbox'[o] = outbox[o]
               \/ /\ p = o /\ operations[o] = "absent" /\ operations'[o] = "pending"
                  /\ outbox'[o].activity = activity
    BY <1>0, <2>1 DEF CreateOperation
  <2>2. ASSUME NEW p \in Ops, StartDeviceLifecycleOperation(p)
        PROVE  \/ outbox'[o].activity = outbox[o].activity
               \/ operations[o] = "absent" /\ operations'[o] = "pending" /\ Named(o)'
    BY <2>1, <2>2 DEF StartDeviceLifecycleOperation, Named
  <2>3. ASSUME NEW p \in Ops, StartDeviceDeactivationOperation(p) \/ UnprovisionDevice(p)
                              \/ StartDeviceEntitlementSnapshot(p)
        PROVE  \/ outbox'[o].activity = outbox[o].activity
               \/ operations[o] = "absent" /\ operations'[o] = "pending" /\ Named(o)'
    <3>1. TypeOf[p] # "provision" /\ \E activity : CreateOperation(p, activity)
      BY <2>3 DEF StartDeviceDeactivationOperation, UnprovisionDevice, StartDeviceEntitlementSnapshot
    <3> QED BY <2>1, <3>1 DEF Named
  <2> QED BY <1>4, <2>2, <2>3 DEF Request, ApiRequest, DeleteDeviceAsUser
<1>5. ASSUME NEW a \in Agents, ProjectResult(a) PROVE UNCHANGED outbox
  BY <1>5 DEF ProjectResult, RecordInboxProcessTransition
<1> QED BY <1>1, <1>2, <1>3, <1>4, <1>5, ChannelQuiet

\* Only the creation of an operation makes anyone know of it, and no operation is
\* ever forgotten.
LEMMA ExistsSteps ==
  ASSUME TypeOK, [Next]_vars, NEW o \in Ops
  PROVE  /\ Exists(o)' => Exists(o) \/ Named(o)'
         /\ operations'[o] = "absent" => operations[o] = "absent"
<1> USE DEF TypeOK, StoreTypeOK
<1>0. ASSUME UNCHANGED <<operations, outbox>>, \A w \in Workers : HeldBy(w)' \subseteq HeldBy(w)
      PROVE  /\ Exists(o)' => Exists(o)
             /\ operations'[o] = "absent" => operations[o] = "absent"
  BY <1>0 DEF Exists
<1>1. ASSUME NEW w \in Workers, ClaimBatch(w)
      PROVE  /\ Exists(o)' => Exists(o)
             /\ operations'[o] = "absent" => operations[o] = "absent"
  <2>1. PICK batch \in SUBSET ReadyMessages :
          /\ ClaimOutboxMessagesReady(w, batch)
          /\ claimed' = [claimed EXCEPT ![w] =
               {[op |-> p, status |-> outbox[p].status, attempt |-> outbox[p].attempt] : p \in batch}]
    BY <1>1 DEF ClaimBatch
  <2>2. outbox'[o].status # "absent" => outbox[o].status # "absent"
    <3>1. outbox'[o] = outbox[o] \/ outbox'[o] = [outbox[o] EXCEPT !.due = FALSE, !.holder = w]
      BY <2>1 DEF ClaimOutboxMessagesReady
    <3>2. outbox[o] \in OutboxRow
      OBVIOUS
    <3> QED BY <3>1, <3>2 DEF OutboxRow
  <2>3. ASSUME NEW v \in Workers, o \in HeldBy(v)' PROVE Exists(o)
    <3>1. CASE v = w
      <4>1. o \in batch
        BY <1>1, <2>1, <2>3, <3>1 DEF HeldBy, ClaimBatch, WorkerTypeOK
      <4> QED BY <4>1 DEF ReadyMessages, Exists
    <3>2. CASE v # w
      BY <1>1, <2>1, <2>3, <3>2 DEF HeldBy, ClaimBatch, WorkerTypeOK, Exists
    <3> QED BY <3>1, <3>2
  <2> QED BY <2>1, <2>2, <2>3 DEF Exists, ClaimOutboxMessagesReady
<1>2. ASSUME NEW w \in Workers, Publish(w) PROVE UNCHANGED <<operations, outbox>> /\ \A v \in Workers : HeldBy(v)' \subseteq HeldBy(v)
  BY <1>2 DEF Publish, Take, PublishReturns, HeldBy, WorkerTypeOK, storeVars
<1>3. ASSUME NEW w \in Workers, RecordOutcome(w)
      PROVE  /\ Exists(o)' => Exists(o)
             /\ operations'[o] = "absent" => operations[o] = "absent"
  <2>1. current[w] \in ClaimedMessage /\ current[w].op \in Ops /\ current[w].op \in HeldBy(w)
    BY <1>3 DEF RecordOutcome, WorkerTypeOK, ClaimedMessage, HeldBy
  <2>2. PICK st \in {"published", "retrying", "dead_lettered"} :
          RecordOutboxPublishTransition(w, current[w], st)
    BY <1>3, RecordedStatusType DEF RecordOutcome
  <2>3. CASE o = current[w].op
    <3>1. Exists(o)
      BY <2>1, <2>3 DEF Exists
    <3>2. operations' \in {operations, [operations EXCEPT ![o] = st]}
      BY <2>2, <2>3 DEF RecordOutboxPublishTransition
    <3> QED BY <3>1, <3>2
  <2>4. CASE o # current[w].op
    <3>1. operations'[o] = operations[o] /\ outbox'[o] = outbox[o]
      BY <2>1, <2>2, <2>4 DEF RecordOutboxPublishTransition
    <3>2. \A v \in Workers : HeldBy(v)' \subseteq HeldBy(v)
      BY <1>3 DEF RecordOutcome, HeldBy, WorkerTypeOK
    <3> QED BY <3>1, <3>2 DEF Exists
  <2> QED BY <2>3, <2>4
<1>4. ASSUME NEW w \in Workers, Crash(w) PROVE UNCHANGED <<operations, outbox>> /\ \A v \in Workers : HeldBy(v)' \subseteq HeldBy(v)
  BY <1>4 DEF Crash, Restart, HeldBy, WorkerTypeOK, storeVars
<1>5. ASSUME NEW p \in Ops, Passage(p)
      PROVE  /\ Exists(o)' => Exists(o)
             /\ operations'[o] = "absent" => operations[o] = "absent"
  <2>1. UNCHANGED <<pc, claimed, current>>
    BY <1>5 DEF Passage, DelayEnds, LeaseOverrun, OperatorRequeue, workerVars
  <2>2. BecomesDue(p) \/ RequeueOutboxMessage(p)
    BY <1>5 DEF Passage, DelayEnds, LeaseOverrun, OperatorRequeue
  <2>3. outbox'[o].status # "absent" => outbox[o].status # "absent"
    BY <2>2 DEF BecomesDue, RequeueOutboxMessage, OutboxRow
  <2>4. /\ operations'[o] # "absent" => operations[o] # "absent" \/ outbox[o].status # "absent"
        /\ operations'[o] = "absent" => operations[o] = "absent"
    BY <2>2 DEF BecomesDue, RequeueOutboxMessage
  <2> QED BY <2>1, <2>3, <2>4 DEF Exists, HeldBy
<1>6. CASE Request
  <2>1. UNCHANGED <<pc, claimed, current>>
    BY <1>6 DEF Request, workerVars
  <2>2. ASSUME NEW p \in Ops, NEW activity, CreateOperation(p, activity),
               TypeOf[p] = "provision" => activity = ActivityOf[p]
        PROVE  /\ Exists(o)' => Exists(o) \/ Named(o)'
               /\ operations'[o] = "absent" => operations[o] = "absent"
    <3>1. CASE o = p
      BY <2>2, <3>1 DEF CreateOperation, Named
    <3>2. CASE o # p
      BY <2>1, <2>2, <3>2 DEF CreateOperation, Exists, HeldBy
    <3> QED BY <3>1, <3>2
  <2>3. ASSUME NEW d \in Devices, DeleteDeviceAsUser(d)
        PROVE  /\ Exists(o)' => Exists(o)
               /\ operations'[o] = "absent" => operations[o] = "absent"
    BY <2>1, <2>3 DEF DeleteDeviceAsUser, Exists, HeldBy
  <2> QED BY <1>6, <2>2, <2>3 DEF Request, ApiRequest, StartDeviceLifecycleOperation,
       StartDeviceDeactivationOperation, UnprovisionDevice, StartDeviceEntitlementSnapshot
<1>7. ASSUME NEW a \in Agents, ConsumerStep(a)
      PROVE  /\ Exists(o)' => Exists(o)
             /\ operations'[o] = "absent" => operations[o] = "absent"
  <2>1. UNCHANGED <<pc, claimed, current>>
    BY <1>7 DEF ConsumerStep, Receive, Acknowledge, StopOnError, ConsumerCrash, workerVars
  <2>2. CASE ProjectResult(a)
    <3>1. /\ operations[OpOf[result[a].id]] # "absent" /\ outbox' = outbox /\ result[a].verdict \in Verdicts
          /\ operations' = [operations EXCEPT ![OpOf[result[a].id]] = result[a].verdict]
      BY <2>2 DEF ProjectResult, RecordInboxProcessTransition, InboxTypeOK
    <3> QED BY <2>1, <3>1 DEF Exists, HeldBy, Verdicts
  <2>3. CASE ~ProjectResult(a)
    <3>1. UNCHANGED <<operations, outbox>>
      BY <1>7, <2>3, ProcessQuiet DEF ConsumerStep, Receive, Acknowledge, StopOnError, ConsumerCrash, storeVars
    <3> QED BY <2>1, <3>1 DEF Exists, HeldBy
  <2> QED BY <2>2, <2>3
<1>8. ASSUME NEW r \in Results, VideoCloudAnswers(r) \/ BrokerDuplicate(r) \/ OperatorReopens(r) \/ OperatorReplays(r)
      PROVE  /\ Exists(o)' => Exists(o)
             /\ operations'[o] = "absent" => operations[o] = "absent"
  BY <1>8 DEF VideoCloudAnswers, BrokerDuplicate, OperatorReopens, OperatorReplays, RequeueInboxMessage, MarkInboxMessage,
     storeVars, workerVars, Exists, HeldBy
<1>9. CASE UNCHANGED vars
  BY <1>9 DEF vars, storeVars, workerVars, Exists, HeldBy
<1> QED BY <1>0, <1>1, <1>2, <1>3, <1>4, <1>5, <1>6, <1>7, <1>8, <1>9 DEF Next, WorkerStep

\* Every command keeps its activity.
LEMMA NextNamed == TypeOK /\ NamedInv /\ [Next]_vars => NamedInv'
<1> SUFFICES ASSUME TypeOK, NamedInv, [Next]_vars, NEW o \in Ops
             PROVE  /\ Exists(o)' => Named(o)'
                    /\ operations'[o] = "absent" => outbox'[o].activity = NoActivity
  BY DEF NamedInv
<1>1. CASE outbox'[o].activity = outbox[o].activity
  BY <1>1, ExistsSteps DEF NamedInv, Named
<1>2. CASE operations[o] = "absent" /\ operations'[o] = "pending" /\ Named(o)'
  BY <1>2
<1> QED BY <1>1, <1>2, ActivitySteps

\* How a step changes the device d: a provision starts, the row is deleted, a result
\* of the device is projected, or what is shown stays.
LEMMA DeviceSteps ==
  ASSUME StreamInv, [Next]_vars, NEW d \in Devices
  PROVE  \/ \E p \in Ops : StartDeviceLifecycleOperation(p) /\ DeviceOf[p] = d
         \/ ~device'[d].row
         \/ \E a \in Agents : ProjectResult(a) /\ DeviceOf[OpOf[result[a].id]] = d
         \/ /\ device'[d].row = device[d].row /\ device'[d].activity = device[d].activity
            /\ device'[d].activation = device[d].activation
<1>0. device \in [Devices -> DeviceRow] /\ device[d] \in DeviceRow
  BY DEF StreamInv, TypeOK, StoreTypeOK
<1>1. ASSUME NEW a \in Agents, ProjectResult(a), DeviceOf[OpOf[result[a].id]] # d PROVE device'[d] = device[d]
  BY <1>0, <1>1, ProjectionWrites
<1>2. ASSUME NEW w \in Workers, ClaimBatch(w) \/ RecordOutcome(w) PROVE device' = device
  BY <1>2 DEF ClaimBatch, ClaimOutboxMessagesReady, RecordOutcome, RecordOutboxPublishTransition
<1>3. ASSUME NEW o \in Ops, Passage(o) PROVE device' = device
  BY <1>3 DEF Passage, DelayEnds, LeaseOverrun, OperatorRequeue, BecomesDue, RequeueOutboxMessage
<1>4. CASE Request
  <2>1. ASSUME NEW p \in Ops, StartDeviceLifecycleOperation(p), DeviceOf[p] # d PROVE device'[d] = device[d]
    BY <1>0, <2>1 DEF StartDeviceLifecycleOperation
  <2>2. ASSUME NEW p \in Ops, UnprovisionDevice(p) PROVE ~device'[d].row \/ device'[d] = device[d]
    BY <1>0, <2>2, StoreAssumption DEF UnprovisionDevice
  <2>3. ASSUME NEW e \in Devices, DeleteDeviceAsUser(e)
        PROVE  /\ device'[d].row = device[d].row /\ device'[d].activity = device[d].activity
               /\ device'[d].activation = device[d].activation
    BY <1>0, <2>3 DEF DeleteDeviceAsUser, DeviceRow
  <2> QED BY <1>4, <2>1, <2>2, <2>3
     DEF Request, ApiRequest, StartDeviceDeactivationOperation, StartDeviceEntitlementSnapshot
<1> QED BY <1>1, <1>2, <1>3, <1>4, ChannelQuiet

\* Provisions that share an activity keep sharing it.
LEMMA SharingStays ==
  ASSUME StreamInv, NamedInv, [Next]_vars, NEW o \in Ops, TypeOf[o] = "provision",
         operations[o] # "absent", SharesActivity(o)
  PROVE  SharesActivity(o)'
<1>1. PICK p \in Ops \ {o} : /\ TypeOf[p] = "provision" /\ DeviceOf[p] = DeviceOf[o]
                             /\ outbox[p].activity = outbox[o].activity
  BY DEF SharesActivity
<1>2. outbox[o].activity # NoActivity
  BY StoreAssumption DEF NamedInv, Exists, Named
<1>3. operations[p] # "absent"
  BY <1>1, <1>2 DEF NamedInv
<1>4. outbox'[p].activity = outbox[p].activity /\ outbox'[o].activity = outbox[o].activity
  BY <1>1, <1>3, ActivitySteps DEF StreamInv
<1> QED BY <1>1, <1>4 DEF SharesActivity

\* The activity of a started provision.
LEMMA StartWrites ==
  ASSUME StreamInv, NEW p \in Ops, StartDeviceLifecycleOperation(p)
  PROVE  /\ TypeOf[p] = "provision" /\ operations'[p] = "pending" /\ outbox'[p].activity = ActivityOf[p]
         /\ device'[DeviceOf[p]].activity = ActivityOf[p]
<1>1. /\ operations \in [Ops -> OperationStatuses] /\ outbox \in [Ops -> OutboxRow]
      /\ device \in [Devices -> DeviceRow] /\ DeviceOf[p] \in Devices
  BY StoreAssumption DEF StreamInv, TypeOK, StoreTypeOK
<1>2. operations'[p] = "pending" /\ outbox'[p].activity = ActivityOf[p]
  BY <1>1 DEF StartDeviceLifecycleOperation, CreateOperation
<1>3. device'[DeviceOf[p]].activity = ActivityOf[p]
  BY <1>1 DEF StartDeviceLifecycleOperation, DeviceRow
<1> QED BY <1>2, <1>3 DEF StartDeviceLifecycleOperation

\* A device keeps showing a success as long as it is in the activity of it.
LEMMA NextShown ==
  StreamInv /\ NamedInv /\ SuccessIsShown /\ [Next]_vars => SuccessIsShown'
<1> SUFFICES ASSUME StreamInv, NamedInv, SuccessIsShown, [Next]_vars, NEW o \in Ops,
                    TypeOf[o] = "provision", operations'[o] = "succeeded", ~SharesActivity(o)',
                    device'[DeviceOf[o]].row, device'[DeviceOf[o]].activity = outbox'[o].activity
             PROVE  device'[DeviceOf[o]].activation \in {"activated", "deactivated"}
  BY DEF SuccessIsShown
<1> DEFINE d == DeviceOf[o]
<1>0. d \in Devices /\ device[d] \in DeviceRow
  BY StoreAssumption DEF StreamInv, TypeOK, StoreTypeOK
<1>1. operations[o] # "absent"
  BY ProjectionWrites, CompletesOnlyByProjection
<1>2. outbox'[o].activity = outbox[o].activity /\ ~SharesActivity(o)
  BY <1>1, ActivitySteps, SharingStays DEF StreamInv
<1>3. ASSUME NEW p \in Ops, StartDeviceLifecycleOperation(p), DeviceOf[p] = d PROVE FALSE
  <2>1. p # o
    BY <1>3, StartWrites
  <2>2. outbox'[p].activity = outbox'[o].activity /\ TypeOf[p] = "provision"
    BY <1>3, StartWrites
  <2> QED BY <1>3, <2>1, <2>2 DEF SharesActivity
<1>4. ASSUME NEW a \in Agents, ProjectResult(a), DeviceOf[OpOf[result[a].id]] = d
      PROVE  device'[d].activation \in {"activated", "deactivated"}
  <2> DEFINE p == OpOf[result[a].id]
             v == result[a].verdict
  <2>1. /\ p \in Ops /\ operations[p] # "absent" /\ v \in Verdicts /\ outbox' = outbox
        /\ operations' = [operations EXCEPT ![p] = v]
        /\ device' = [device EXCEPT ![d] = ProjectedDevice(p, v)]
    BY <1>4, ProjectionWrites
  <2>2. device'[d] = ProjectedDevice(p, v)
    BY <1>0, <2>1 DEF StreamInv, TypeOK, StoreTypeOK
  <2>3. device'[d].row = device[d].row /\ device'[d].activity = device[d].activity
    <3>1. CASE ~HasProjection(p) \/ StaleActivity(p)
      BY <1>4, <2>2, <3>1 DEF ProjectedDevice
    <3>2. CASE HasProjection(p) /\ ~StaleActivity(p)
      <4> DEFINE act == CASE v = "succeeded" /\ TypeOf[p] = "provision" -> "activated"
                          [] v = "succeeded" /\ TypeOf[p] = "deactivate" -> "deactivated"
                          [] v = "failed" /\ TypeOf[p] = "provision" -> "failed"
                          [] OTHER -> device[d].activation
      <4>1. device'[d] = [device[d] EXCEPT !.activation = act, !.lastError = (v = "failed")]
        BY <1>4, <2>2, <3>2 DEF ProjectedDevice
      <4> HIDE DEF act
      <4> QED BY <1>0, <4>1 DEF DeviceRow
    <3> QED BY <3>1, <3>2
  <2>4. CASE p = o
    <3>1. v = "succeeded" /\ ~StaleActivity(o) /\ HasProjection(o)
      BY <1>2, <2>1, <2>3, <2>4 DEF StaleActivity, HasProjection, StreamInv, TypeOK, StoreTypeOK
    <3> QED BY <1>0, <2>2, <2>4, <3>1 DEF ProjectedDevice, DeviceRow
  <2>5. CASE p # o
    <3>1. operations[o] = "succeeded"
      BY <2>1, <2>5 DEF StreamInv, TypeOK, StoreTypeOK
    <3>2. device[d].activation \in {"activated", "deactivated"}
      BY <1>2, <2>3, <3>1 DEF SuccessIsShown
    <3>3. CASE TypeOf[p] = "provision"
      <4>1. outbox[p].activity # NoActivity
        BY <2>1, <3>3, StoreAssumption DEF NamedInv, Exists, Named
      <4>2. outbox[p].activity # outbox[o].activity
        BY <1>2, <1>4, <2>1, <2>5, <3>3 DEF SharesActivity
      <4>3. StaleActivity(p)
        BY <1>2, <1>4, <2>3, <4>1, <4>2 DEF StaleActivity
      <4> QED BY <1>4, <2>2, <3>2, <4>3 DEF ProjectedDevice
    <3>4. CASE TypeOf[p] # "provision"
      BY <1>0, <1>4, <2>2, <3>2, <3>4 DEF ProjectedDevice, DeviceRow
    <3> QED BY <3>3, <3>4
  <2> QED BY <2>4, <2>5
<1>5. ASSUME device'[d].row = device[d].row, device'[d].activity = device[d].activity,
             device'[d].activation = device[d].activation,
             \A a \in Agents : ProjectResult(a) => DeviceOf[OpOf[result[a].id]] # d
      PROVE  device'[d].activation \in {"activated", "deactivated"}
  <2>1. operations[o] = "succeeded"
    BY <1>5, CompletesOnlyByProjection
  <2> QED BY <1>2, <1>5, <2>1 DEF SuccessIsShown
<1> QED BY <1>0, <1>3, <1>4, <1>5, DeviceSteps

\* Outbox, operation, inbox and device agree at every moment, for any number of workers
\* that process duplicated, reordered and disagreeing results at once: only the
\* transaction that settles a result's row completes its operation and shows it on the
\* device, and a result of another activity shows nothing (RecordInboxProcessTransition).
THEOREM ResultsAlwaysAgree == Spec => []ResultsAgree
<1>1. Init => CompletionHasResult /\ SuccessIsShown /\ NamedInv
  BY DEF Init, StoreInit, WorkerInit, CompletionHasResult, IsCompletedLifecycleOperation,
     SuccessIsShown, NamedInv, Exists, HeldBy
<1>2. StreamInv => TypeOK
  BY DEF StreamInv
<1>3. Spec => [](CompletionHasResult /\ SuccessIsShown /\ NamedInv)
  BY <1>1, <1>2, NextCompletion, NextShown, NextNamed, StreamAlways, PTL DEF Spec
<1> QED BY <1>2, <1>3, StreamAlways, PTL DEF ResultsAgree
=============================================================================
