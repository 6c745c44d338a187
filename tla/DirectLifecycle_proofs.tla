----------------------- MODULE DirectLifecycle_proofs -----------------------
(***************************************************************************)
(* Proofs about DirectLifecycle, for every set of devices, operations,     *)
(* workers and activities and every value of the bounds.                   *)
(***************************************************************************)
EXTENDS DirectLifecycle, TLAPS
\* The initial tables, workers and inbox steps are well typed.
LEMMA InitTypeOK == Init => TypeOK
BY StoreAssumption, WorkerAssumption
   DEF Init, TypeOK, StoreInit, StoreTypeOK, WorkerInit, WorkerTypeOK, InboxInit, InboxTypeOK,
       OutboxRow, InboxRow, DeviceRow, OperationStatuses, OutboxStatuses, InboxStatuses,
       ActivationStatuses, Verdicts, Outcomes

\* The API requests keep the tables well typed.
LEMMA RequestStoreType ==
  ASSUME StoreTypeOK, Request
  PROVE  StoreTypeOK'
<1>1. ASSUME NEW o \in Ops, NEW act \in Activities \cup {NoActivity}, CreateOperation(o, act)
      PROVE  /\ operations' \in [Ops -> OperationStatuses]
             /\ outbox' \in [Ops -> OutboxRow]
             /\ inbox' \in [Results -> InboxRow]
  BY <1>1 DEF CreateOperation, StoreTypeOK, OperationStatuses, OutboxStatuses, OutboxRow
<1>2. ASSUME NEW o \in Ops, StartDeviceLifecycleOperation(o) PROVE StoreTypeOK'
  <2>1. ActivityOf[o] \in Activities \cup {NoActivity} /\ DeviceOf[o] \in Devices
    BY StoreAssumption
  <2>2. device' \in [Devices -> DeviceRow]
    BY <1>2, <2>1 DEF StartDeviceLifecycleOperation, StoreTypeOK, DeviceRow, ActivationStatuses
  <2>q. QED BY <1>1, <1>2, <2>1, <2>2 DEF StartDeviceLifecycleOperation, StoreTypeOK
<1>3. ASSUME NEW o \in Ops, StartDeviceDeactivationOperation(o) PROVE StoreTypeOK'
  <2>1. device[DeviceOf[o]].activity \in Activities \cup {NoActivity}
    BY StoreAssumption DEF StoreTypeOK, DeviceRow
  <2>q. QED BY <1>1, <1>3, <2>1 DEF StartDeviceDeactivationOperation, StoreTypeOK
<1>4. ASSUME NEW o \in Ops, UnprovisionDevice(o) PROVE StoreTypeOK'
  <2>1. device' \in [Devices -> DeviceRow]
    BY <1>4, StoreAssumption DEF UnprovisionDevice, StoreTypeOK, DeviceRow, ActivationStatuses
  <2>q. QED BY <1>1, <1>4, <2>1 DEF UnprovisionDevice, StoreTypeOK
<1>5. ASSUME NEW o \in Ops, StartDeviceEntitlementSnapshot(o) PROVE StoreTypeOK'
  BY <1>1, <1>5 DEF StartDeviceEntitlementSnapshot, StoreTypeOK
<1>6. ASSUME NEW d \in Devices, DeleteDeviceAsUser(d) PROVE StoreTypeOK'
  BY <1>6 DEF DeleteDeviceAsUser, StoreTypeOK, DeviceRow
<1>q. QED BY <1>2, <1>3, <1>4, <1>5, <1>6 DEF Request, ApiRequest

\* The transactions of the outbox keep the tables well typed.
LEMMA RecordStoreType ==
  ASSUME StoreTypeOK, NEW w \in Workers, NEW m \in ClaimedMessage,
         NEW st \in {"published", "retrying", "dead_lettered"},
         RecordOutboxPublishTransition(w, m, st)
  PROVE  StoreTypeOK'
<1>1. m.op \in Ops /\ m.attempt \in Nat
  BY DEF ClaimedMessage
<1>2. RecordedAttempt(m, st) \in Nat
  BY <1>1 DEF RecordedAttempt, StoreTypeOK, OutboxRow
<1>3. outbox' \in [Ops -> OutboxRow]
  <2>1. outbox[m.op] \in OutboxRow
    BY <1>1 DEF StoreTypeOK
  <2>2. [outbox[m.op] EXCEPT !.status = st, !.attempt = RecordedAttempt(m, st), !.due = FALSE,
                             !.holder = NoWorker] \in OutboxRow
    BY <1>2, <2>1 DEF OutboxRow, OutboxStatuses
  <2>3. \/ UNCHANGED outbox
        \/ outbox' = [outbox EXCEPT ![m.op] =
             [outbox[m.op] EXCEPT !.status = st, !.attempt = RecordedAttempt(m, st),
                                  !.due = FALSE, !.holder = NoWorker]]
    BY <1>1 DEF RecordOutboxPublishTransition, StoreTypeOK
  <2>q. QED BY <1>1, <2>2, <2>3 DEF StoreTypeOK
<1>4. operations' \in [Ops -> OperationStatuses]
  BY <1>1 DEF RecordOutboxPublishTransition, StoreTypeOK, OperationStatuses
<1>q. QED BY <1>3, <1>4 DEF RecordOutboxPublishTransition, StoreTypeOK

\* A lease or a delay that ends, and the operator's requeue, keep the tables well typed.
LEMMA PassageStoreType ==
  ASSUME StoreTypeOK, NEW o \in Ops, BecomesDue(o) \/ RequeueOutboxMessage(o)
  PROVE  StoreTypeOK'
<1>1. CASE BecomesDue(o)
  BY <1>1 DEF BecomesDue, StoreTypeOK, OutboxRow
<1>2. CASE RequeueOutboxMessage(o)
  <2>1. [outbox[o] EXCEPT !.status = "pending", !.attempt = 0, !.due = TRUE, !.holder = NoWorker]
          \in OutboxRow
    BY DEF StoreTypeOK, OutboxRow, OutboxStatuses
  <2>2. outbox' \in [Ops -> OutboxRow]
    BY <1>2, <2>1 DEF RequeueOutboxMessage, StoreTypeOK
  <2>3. operations' \in [Ops -> OperationStatuses]
    BY <1>2 DEF RequeueOutboxMessage, StoreTypeOK, OperationStatuses
  <2>q. QED BY <1>2, <2>2, <2>3 DEF RequeueOutboxMessage, StoreTypeOK
<1>q. QED BY <1>1, <1>2

\* A projected device is a device row.
LEMMA ProjectedDeviceType ==
  ASSUME StoreTypeOK, NEW o \in Ops, NEW v
  PROVE  ProjectedDevice(o, v) \in DeviceRow
<1> DEFINE dev == device[DeviceOf[o]]
<1>1. dev \in DeviceRow
  BY StoreAssumption DEF StoreTypeOK
<1> DEFINE act == CASE v = "succeeded" /\ TypeOf[o] = "provision" -> "activated"
                    [] v = "succeeded" /\ TypeOf[o] = "deactivate" -> "deactivated"
                    [] v = "failed" /\ TypeOf[o] = "provision" -> "failed"
                    [] OTHER -> dev.activation
<1>2. act \in ActivationStatuses
  BY <1>1 DEF ActivationStatuses, DeviceRow
<1> HIDE DEF act
<1>3. [dev EXCEPT !.activation = act, !.lastError = (v = "failed")] \in DeviceRow
  BY <1>1, <1>2 DEF DeviceRow
<1>q. QED BY <1>1, <1>3 DEF ProjectedDevice, act

\* The steps of processMessage keep the tables and their own state well typed.
LEMMA ProcessType ==
  ASSUME StoreTypeOK, InboxTypeOK, NEW a \in Agents, ProcessMessage(a)
  PROVE  StoreTypeOK' /\ InboxTypeOK'
<1>1. result[a] \in ResultMessage /\ step[a] \in Running
  BY DEF ProcessMessage, InboxTypeOK, Running, CreateOrGetInboxMessage, DeadLetterInvalid,
         ReadOperation, MarkProcessedWithoutProjection, ProjectResult, ProjectResultRefused,
         StoreCallFails
<1>2. /\ result[a].id \in Results /\ result[a].at \in Nat
      /\ result[a].verdict \in Verdicts \cup {"malformed"}
  BY <1>1 DEF ResultMessage
<1>3. ASSUME NEW s \in Running \cup Finished, Goto(a, s),
             s \in {"mark", "project"} => result[a].verdict \in Verdicts
      PROVE  InboxTypeOK'
  BY <1>1, <1>3 DEF Goto, InboxTypeOK
<1>4. CASE CreateOrGetInboxMessage(a)
  <2>1. StoreTypeOK'
    BY <1>2, <1>4 DEF CreateOrGetInboxMessage, CreateInboxMessage, StoreTypeOK, InboxRow,
                      InboxStatuses, storeVars
  <2>q. QED BY <1>3, <1>4, <2>1 DEF CreateOrGetInboxMessage, Running, Finished
<1>5. ASSUME NEW st \in InboxStatuses, MarkInboxMessage(result[a].id, st) PROVE StoreTypeOK'
  BY <1>2, <1>5 DEF MarkInboxMessage, StoreTypeOK, InboxRow
<1>6. CASE DeadLetterInvalid(a)
  BY <1>3, <1>5, <1>6 DEF DeadLetterInvalid, Finished, InboxStatuses
<1>7. CASE ReadOperation(a)
  BY <1>2, <1>3, <1>7 DEF ReadOperation, Running, StoreTypeOK, storeVars
<1>8. CASE MarkProcessedWithoutProjection(a)
  BY <1>3, <1>5, <1>8 DEF MarkProcessedWithoutProjection, Finished, InboxStatuses
<1>9. CASE ProjectResult(a)
  <2>1. result[a].verdict \in Verdicts
    BY <1>9 DEF ProjectResult, InboxTypeOK
  <2>2. StoreTypeOK'
    <3> DEFINE o == OpOf[result[a].id]
    <3>1. o \in Ops
      BY <1>2, StoreAssumption
    <3>2. ProjectedDevice(o, result[a].verdict) \in DeviceRow
      BY <3>1, ProjectedDeviceType
    <3>q. QED
      BY <1>2, <1>9, <2>1, <3>1, <3>2
         DEF ProjectResult, RecordInboxProcessTransition, StoreTypeOK, InboxRow, InboxStatuses,
             OperationStatuses, Verdicts
  <2>q. QED BY <1>3, <1>9, <2>2 DEF ProjectResult, Finished
<1>10. CASE ProjectResultRefused(a)
  BY <1>3, <1>10 DEF ProjectResultRefused, Finished, StoreTypeOK, storeVars
<1>11. CASE StoreCallFails(a)
  BY <1>3, <1>11 DEF StoreCallFails, Finished, StoreTypeOK, storeVars
<1>q. QED BY <1>4, <1>6, <1>7, <1>8, <1>9, <1>10, <1>11 DEF ProcessMessage

\* A claim returns messages as they are in the table.
LEMMA ClaimType ==
  ASSUME StoreTypeOK, WorkerTypeOK, NEW w \in Workers, ClaimBatch(w)
  PROVE  StoreTypeOK' /\ WorkerTypeOK'
<1>1. PICK batch \in SUBSET ReadyMessages :
        /\ ClaimOutboxMessagesReady(w, batch)
        /\ claimed' = [claimed EXCEPT ![w] =
             {[op |-> o, status |-> outbox[o].status, attempt |-> outbox[o].attempt] : o \in batch}]
  BY DEF ClaimBatch
<1>2. {[op |-> o, status |-> outbox[o].status, attempt |-> outbox[o].attempt] : o \in batch}
        \in SUBSET ClaimedMessage
  BY DEF ReadyMessages, ClaimedMessage, StoreTypeOK, OutboxRow
<1>3. claimed' \in [Workers -> SUBSET ClaimedMessage]
  BY <1>1, <1>2 DEF WorkerTypeOK
<1>4. WorkerTypeOK'
  BY <1>3 DEF ClaimBatch, WorkerTypeOK
<1>5. ASSUME NEW o \in Ops
      PROVE  [outbox[o] EXCEPT !.due = FALSE, !.holder = w] \in OutboxRow
  BY DEF StoreTypeOK, OutboxRow
<1>6. StoreTypeOK'
  BY <1>1, <1>5 DEF ClaimOutboxMessagesReady, StoreTypeOK
<1>q. QED BY <1>4, <1>6

\* What a worker records is a status of an outbox row and of an operation.
LEMMA RecordedStatusType ==
  ASSUME NEW m, NEW r
  PROVE  RecordedStatus(m, r) \in {"published", "retrying", "dead_lettered"}
BY DEF RecordedStatus

\* A worker that stops forgets what it claimed.
LEMMA RestartType ==
  ASSUME WorkerTypeOK, NEW w \in Workers, Restart(w), faults' \in Nat
  PROVE  WorkerTypeOK'
BY DEF Restart, WorkerTypeOK, Outcomes

\* The end of processMessage, by return or by crash, keeps its state well typed.
LEMMA EndProcessType ==
  ASSUME InboxTypeOK, NEW a \in Agents, EndProcess(a)
  PROVE  InboxTypeOK'
BY DEF EndProcess, InboxTypeOK

\* Every step of a worker keeps the state well typed.
LEMMA WorkerStepType ==
  ASSUME TypeOK, NEW w \in Workers, WorkerStep(w)
  PROVE  TypeOK'
<1> USE DEF TypeOK
<1>0. w \in Agents
  BY ResultAssumption
<1>1. CASE ClaimBatch(w) /\ UNCHANGED <<inboxVars, applied, responses>>
  BY <1>1, ClaimType DEF inboxVars, InboxTypeOK
<1>2. CASE CallFails(w)
  <2>1. PICK m \in claimed[w] : Take(w, m) /\ PublishReturns(w, "transient")
                                /\ applied' \in {applied, [applied EXCEPT ![m.op] = TRUE]}
    BY <1>2 DEF CallFails
  <2>2. m \in ClaimedMessage
    BY DEF WorkerTypeOK
  <2>3. WorkerTypeOK'
    BY <1>2, <2>1, <2>2 DEF CallFails, Take, PublishReturns, WorkerTypeOK, Outcomes
  <2>4. applied' \in [Ops -> BOOLEAN]
    BY <2>1
  <2>q. QED BY <1>2, <2>3, <2>4
    DEF CallFails, storeVars, inboxVars, StoreTypeOK, InboxTypeOK
<1>3. CASE CallAnswered(w)
  <2>1. PICK m \in claimed[w], verdict \in Verdicts :
          /\ Take(w, m)
          /\ pc' = [pc EXCEPT ![w] = "publishing"]
          /\ applied' = [applied EXCEPT ![m.op] = @ \/ verdict = "succeeded"]
          /\ responses' = [responses EXCEPT ![m.op] = @ + 1]
          /\ BeginProcess(w, [id |-> ResultOf[m.op], verdict |-> verdict,
                              at |-> responses[m.op] + 1])
          /\ UNCHANGED <<storeVars, outcome, faults>>
    BY <1>3 DEF CallAnswered
  <2>2. m \in ClaimedMessage /\ m.op \in Ops
    BY DEF WorkerTypeOK, ClaimedMessage
  <2>3. WorkerTypeOK'
    BY <2>1, <2>2 DEF Take, WorkerTypeOK
  <2>4. applied' \in [Ops -> BOOLEAN] /\ responses' \in [Ops -> Nat]
    BY <2>1, <2>2
  <2>5. [id |-> ResultOf[m.op], verdict |-> verdict, at |-> responses[m.op] + 1] \in ResultMessage
    BY <2>2, ResultAssumption DEF ResultMessage
  <2>6. InboxTypeOK'
    BY <1>0, <2>1, <2>5 DEF BeginProcess, InboxTypeOK, Running
  <2>q. QED BY <2>1, <2>3, <2>4, <2>6 DEF storeVars, StoreTypeOK
<1>4. CASE ProcessMessage(w) /\ UNCHANGED <<workerVars, applied, responses>>
  BY <1>0, <1>4, ProcessType DEF workerVars, WorkerTypeOK
<1>5. CASE ProjectionReturns(w)
  <2>1. InboxTypeOK'
    BY <1>0, <1>5, EndProcessType DEF ProjectionReturns
  <2>2. WorkerTypeOK'
    BY <1>5 DEF ProjectionReturns, PublishReturns, WorkerTypeOK, Outcomes
  <2>q. QED BY <1>5, <2>1, <2>2 DEF ProjectionReturns, storeVars, StoreTypeOK
<1>6. CASE RecordOutcome(w) /\ UNCHANGED <<inboxVars, applied, responses>>
  <2>1. current[w] \in ClaimedMessage
    BY <1>6 DEF RecordOutcome, WorkerTypeOK
  <2>2. StoreTypeOK'
    BY <1>6, <2>1, RecordStoreType, RecordedStatusType DEF RecordOutcome
  <2>3. WorkerTypeOK'
    BY <1>6 DEF RecordOutcome, WorkerTypeOK, Outcomes
  <2>q. QED BY <1>6, <2>2, <2>3 DEF inboxVars, InboxTypeOK
<1>q. QED BY <1>1, <1>2, <1>3, <1>4, <1>5, <1>6 DEF WorkerStep

\* Every step keeps the state well typed.
LEMMA NextType == TypeOK /\ [Next]_vars => TypeOK'
<1> SUFFICES ASSUME TypeOK, [Next]_vars PROVE TypeOK'
  OBVIOUS
<1>1. ASSUME NEW w \in Workers, WorkerCrash(w) PROVE TypeOK'
  <2>1. faults' \in Nat
    BY <1>1 DEF WorkerCrash, Crash, Fault, TypeOK, WorkerTypeOK
  <2>2. WorkerTypeOK' /\ InboxTypeOK'
    BY <1>1, <2>1, RestartType, EndProcessType, ResultAssumption DEF WorkerCrash, Crash, TypeOK
  <2>q. QED BY <1>1, <2>2 DEF WorkerCrash, Crash, TypeOK, storeVars, StoreTypeOK
<1>2. ASSUME NEW o \in Ops, Passage(o) PROVE TypeOK'
  <2>1. StoreTypeOK'
    BY <1>2, PassageStoreType DEF Passage, DelayEnds, LeaseOverrun, OperatorRequeue, TypeOK
  <2>2. WorkerTypeOK'
    BY <1>2 DEF Passage, DelayEnds, LeaseOverrun, OperatorRequeue, Fault, TypeOK, WorkerTypeOK,
                workerVars
  <2>q. QED BY <1>2, <2>1, <2>2 DEF Passage, TypeOK, inboxVars, InboxTypeOK
<1>3. CASE Request
  BY <1>3, RequestStoreType
     DEF Request, ApiRequest, TypeOK, workerVars, WorkerTypeOK, inboxVars, InboxTypeOK
<1>4. CASE UNCHANGED vars
  BY <1>4 DEF vars, storeVars, workerVars, inboxVars, TypeOK, StoreTypeOK, WorkerTypeOK, InboxTypeOK
<1>q. QED BY <1>1, <1>2, <1>3, <1>4, WorkerStepType DEF Next

\* Type correctness: the tables, the workers' memory and the running
\* processMessage calls always have the shapes the code's types and the
\* statuses of model.go give them.
THEOREM TypeCorrect == Spec => []TypeOK
<1>1. QED BY InitTypeOK, NextType, PTL DEF Spec

-----------------------------------------------------------------------------
-----------------------------------------------------------------------------
(* Attempts.                                                               *)

\* A worker never holds a message that has no attempt left.
HeldHaveAttemptsLeft ==
  \A w \in Workers :
    /\ \A m \in claimed[w] : m.attempt < MaxAttempts
    /\ pc[w] \in {"publishing", "record"} => current[w].attempt < MaxAttempts

AttemptsInv == AttemptsBounded /\ HeldHaveAttemptsLeft

\* At first no message has been attempted.
LEMMA InitAttempts == Init => AttemptsInv
BY StoreAssumption
   DEF Init, StoreInit, WorkerInit, AttemptsInv, AttemptsBounded, HeldHaveAttemptsLeft

\* The outcome of a held message leaves its row within the bound.
LEMMA RecordAttempts ==
  ASSUME TypeOK, AttemptsInv, NEW w \in Workers, RecordOutcome(w)
  PROVE  AttemptsInv'
<1> DEFINE m == current[w]
           st == RecordedStatus(m, outcome[w])
<1>1. /\ m \in ClaimedMessage /\ m.op \in Ops /\ m.attempt \in Nat
      /\ m.attempt < MaxAttempts /\ MaxAttempts \in Nat
      /\ outbox[m.op].attempt \in Nat
  BY StoreAssumption DEF RecordOutcome, TypeOK, WorkerTypeOK, ClaimedMessage, AttemptsInv,
                         HeldHaveAttemptsLeft, StoreTypeOK, OutboxRow
<1>2. /\ st \in {"published", "retrying", "dead_lettered"}
      /\ st = "retrying" => m.attempt + 1 < MaxAttempts
  BY DEF RecordedStatus
<1>3. RecordOutboxPublishTransition(w, m, st)
  BY DEF RecordOutcome
<1> HIDE DEF m, st
<1>4. /\ RecordedAttempt(m, st) \in Nat /\ RecordedAttempt(m, st) <= MaxAttempts
      /\ st = "retrying" => RecordedAttempt(m, st) < MaxAttempts
  BY <1>1, <1>2 DEF RecordedAttempt, AttemptsInv, AttemptsBounded
<1>5. AttemptsBounded'
  BY <1>1, <1>2, <1>3, <1>4
     DEF RecordOutboxPublishTransition, AttemptsInv, AttemptsBounded, TypeOK, StoreTypeOK, OutboxRow
<1>6. HeldHaveAttemptsLeft'
  BY DEF RecordOutcome, AttemptsInv, HeldHaveAttemptsLeft, TypeOK, WorkerTypeOK
<1>q. QED BY <1>5, <1>6 DEF AttemptsInv

\* Every step keeps the attempts bounded.
LEMMA NextAttempts == TypeOK /\ AttemptsInv /\ [Next]_vars => AttemptsInv'
<1> SUFFICES ASSUME TypeOK, AttemptsInv, [Next]_vars PROVE AttemptsInv'
  OBVIOUS
<1>0. ASSUME UNCHANGED outbox PROVE AttemptsBounded'
  BY <1>0 DEF AttemptsInv, AttemptsBounded
<1>1. ASSUME NEW w \in Workers, ClaimBatch(w) PROVE AttemptsInv'
  <2>1. PICK batch \in SUBSET ReadyMessages :
          /\ ClaimOutboxMessagesReady(w, batch)
          /\ claimed' = [claimed EXCEPT ![w] =
               {[op |-> o, status |-> outbox[o].status, attempt |-> outbox[o].attempt] : o \in batch}]
    BY <1>1 DEF ClaimBatch
  <2>2. AttemptsBounded'
    BY <2>1 DEF ClaimOutboxMessagesReady, AttemptsInv, AttemptsBounded, TypeOK, StoreTypeOK, OutboxRow
  <2>3. \A m \in claimed'[w] : m.attempt < MaxAttempts
    BY <2>1 DEF ReadyMessages, AttemptsInv, AttemptsBounded, TypeOK, WorkerTypeOK
  <2>4. \A v \in Workers : v # w => claimed'[v] = claimed[v]
    BY <2>1 DEF TypeOK, WorkerTypeOK
  <2>5. HeldHaveAttemptsLeft'
    BY <1>1, <2>3, <2>4 DEF ClaimBatch, AttemptsInv, HeldHaveAttemptsLeft, TypeOK, WorkerTypeOK
  <2>q. QED BY <2>2, <2>5 DEF AttemptsInv
<1>2. ASSUME NEW w \in Workers, CallFails(w) \/ CallAnswered(w) PROVE AttemptsInv'
  <2>1. PICK m \in claimed[w] : Take(w, m)
    BY <1>2 DEF CallFails, CallAnswered
  <2>2. /\ pc' \in {[pc EXCEPT ![w] = "record"], [pc EXCEPT ![w] = "publishing"]}
        /\ UNCHANGED outbox
    BY <1>2 DEF CallFails, CallAnswered, PublishReturns, storeVars
  <2>3. HeldHaveAttemptsLeft'
    BY <2>1, <2>2 DEF Take, AttemptsInv, HeldHaveAttemptsLeft, TypeOK, WorkerTypeOK
  <2>q. QED BY <1>0, <2>2, <2>3 DEF AttemptsInv
<1>3. ASSUME NEW w \in Workers, ProcessMessage(w), UNCHANGED workerVars PROVE AttemptsInv'
  <2>1. UNCHANGED outbox
    BY <1>3 DEF ProcessMessage, CreateOrGetInboxMessage, CreateInboxMessage, DeadLetterInvalid,
                MarkInboxMessage, ReadOperation, MarkProcessedWithoutProjection, ProjectResult,
                RecordInboxProcessTransition, ProjectResultRefused, StoreCallFails, storeVars
  <2>q. QED BY <1>0, <1>3, <2>1 DEF AttemptsInv, HeldHaveAttemptsLeft, workerVars
<1>4. ASSUME NEW w \in Workers, ProjectionReturns(w) PROVE AttemptsInv'
  <2>1. HeldHaveAttemptsLeft'
    BY <1>4 DEF ProjectionReturns, PublishReturns, AttemptsInv, HeldHaveAttemptsLeft, TypeOK, WorkerTypeOK
  <2>q. QED BY <1>0, <1>4, <2>1 DEF ProjectionReturns, storeVars, AttemptsInv
<1>5. ASSUME NEW w \in Workers, WorkerCrash(w) PROVE AttemptsInv'
  <2>1. HeldHaveAttemptsLeft'
    BY <1>5 DEF WorkerCrash, Crash, Restart, AttemptsInv, HeldHaveAttemptsLeft, TypeOK, WorkerTypeOK
  <2>q. QED BY <1>0, <1>5, <2>1 DEF WorkerCrash, Crash, storeVars, AttemptsInv
<1>6. ASSUME NEW o \in Ops, Passage(o) PROVE AttemptsInv'
  <2>1. HeldHaveAttemptsLeft'
    BY <1>6 DEF Passage, DelayEnds, LeaseOverrun, OperatorRequeue, workerVars, AttemptsInv,
                HeldHaveAttemptsLeft
  <2>2. CASE BecomesDue(o)
    BY <2>1, <2>2 DEF BecomesDue, AttemptsInv, AttemptsBounded, TypeOK, StoreTypeOK, OutboxRow
  <2>3. CASE RequeueOutboxMessage(o)
    BY <2>1, <2>3, StoreAssumption
       DEF RequeueOutboxMessage, AttemptsInv, AttemptsBounded, TypeOK, StoreTypeOK, OutboxRow
  <2>q. QED BY <1>6, <2>2, <2>3 DEF Passage, DelayEnds, LeaseOverrun, OperatorRequeue
<1>7. CASE Request
  <2>1. HeldHaveAttemptsLeft'
    BY <1>7 DEF Request, ApiRequest, workerVars, AttemptsInv, HeldHaveAttemptsLeft
  <2>2. ASSUME NEW o \in Ops, NEW act, CreateOperation(o, act) PROVE AttemptsBounded'
    BY <2>2, StoreAssumption
       DEF CreateOperation, AttemptsInv, AttemptsBounded, TypeOK, StoreTypeOK, OutboxRow
  <2>q. QED BY <1>0, <1>7, <2>1, <2>2
     DEF Request, ApiRequest, StartDeviceLifecycleOperation, StartDeviceDeactivationOperation,
         UnprovisionDevice, StartDeviceEntitlementSnapshot, DeleteDeviceAsUser, AttemptsInv
<1>8. CASE UNCHANGED vars
  BY <1>0, <1>8 DEF vars, storeVars, workerVars, AttemptsInv, HeldHaveAttemptsLeft
<1>q. QED BY <1>1, <1>2, <1>3, <1>4, <1>5, <1>6, <1>7, <1>8, RecordAttempts DEF Next, WorkerStep

\* No interleaving of claims, overrun leases, crashes, late outcomes and
\* requeues lets a message be attempted more than MaxAttempts times, or wait
\* for an attempt it does not have (RecordOutboxPublishTransition, publishMessage).
THEOREM AttemptsAreBounded == Spec => []AttemptsBounded
<1>1. AttemptsInv => AttemptsBounded
  BY DEF AttemptsInv
<1>q. QED BY <1>1, InitAttempts, NextAttempts, TypeCorrect, PTL DEF Spec

-----------------------------------------------------------------------------
(* The rows of an operation.                                               *)

\* The outbox row and the inbox rows of an operation exist only with it, and a
\* command about the activation names the activity it is for.
RowsTogether ==
  /\ \A o \in Ops : outbox[o].status # "absent" => operations[o] # "absent"
  /\ \A o \in Ops : operations[o] # "absent" /\ HasProjection(o) => outbox[o].activity # NoActivity

\* A worker holds messages of operations that exist.
HeldExist ==
  \A w \in Workers :
    /\ \A m \in claimed[w] : operations[m.op] # "absent"
    /\ pc[w] \in {"publishing", "record"} => operations[current[w].op] # "absent"

RowsInv == RowsTogether /\ HeldExist

\* At first there are no rows.
LEMMA InitRows == Init => RowsInv
BY DEF Init, StoreInit, WorkerInit, RowsInv, RowsTogether, HeldExist

\* Once created, an operation stays.
LEMMA OperationsStay ==
  ASSUME TypeOK, [Next]_vars, NEW o \in Ops, operations[o] # "absent"
  PROVE  operations'[o] # "absent"
<1>0. ASSUME UNCHANGED operations PROVE operations'[o] # "absent"
  BY <1>0
<1>1. ASSUME NEW w \in Workers, ProcessMessage(w) PROVE operations'[o] # "absent"
  <2>1. CASE ProjectResult(w)
    <3>1. result[w].verdict \in Verdicts
      BY <2>1, ResultAssumption DEF ProjectResult, TypeOK, InboxTypeOK
    <3>q. QED BY <2>1, <3>1
       DEF ProjectResult, RecordInboxProcessTransition, Verdicts, TypeOK, StoreTypeOK
  <2>2. CASE ~ProjectResult(w)
    BY <1>0, <1>1, <2>2 DEF ProcessMessage, CreateOrGetInboxMessage, CreateInboxMessage,
         DeadLetterInvalid, MarkInboxMessage, ReadOperation, MarkProcessedWithoutProjection,
         ProjectResultRefused, StoreCallFails, storeVars
  <2>q. QED BY <2>1, <2>2
<1>2. ASSUME NEW w \in Workers, RecordOutcome(w) PROVE operations'[o] # "absent"
  BY <1>0, <1>2, RecordedStatusType, SMTT(30)
     DEF RecordOutcome, RecordOutboxPublishTransition, TypeOK, StoreTypeOK
<1>3. ASSUME NEW p \in Ops, Passage(p) PROVE operations'[o] # "absent"
  BY <1>0, <1>3 DEF Passage, DelayEnds, LeaseOverrun, OperatorRequeue, BecomesDue,
                    RequeueOutboxMessage, TypeOK, StoreTypeOK
<1>4. CASE Request
  BY <1>0, <1>4 DEF Request, ApiRequest, StartDeviceLifecycleOperation, StartDeviceDeactivationOperation,
     UnprovisionDevice, StartDeviceEntitlementSnapshot, DeleteDeviceAsUser, CreateOperation,
     TypeOK, StoreTypeOK
<1>5. ASSUME NEW w \in Workers,
             ClaimBatch(w) \/ CallFails(w) \/ CallAnswered(w) \/ ProjectionReturns(w) \/ WorkerCrash(w)
      PROVE  operations'[o] # "absent"
  BY <1>0, <1>5 DEF ClaimBatch, ClaimOutboxMessagesReady, CallFails, CallAnswered, ProjectionReturns,
     WorkerCrash, Crash, storeVars
<1>6. CASE UNCHANGED vars
  BY <1>0, <1>6 DEF vars, storeVars
<1>q. QED BY <1>1, <1>2, <1>3, <1>4, <1>5, <1>6 DEF Next, WorkerStep

\* What a step writes to the rows keeps them together.
LEMMA NextRowsTogether == TypeOK /\ RowsInv /\ [Next]_vars => RowsTogether'
<1> SUFFICES ASSUME TypeOK, RowsInv, [Next]_vars PROVE RowsTogether'
  OBVIOUS
<1> USE DEF RowsInv
\* It is enough that existing operations' rows keep their activity and that no row appears alone.
<1>0. ASSUME \A o \in Ops : /\ operations[o] # "absent" => outbox'[o].activity = outbox[o].activity
                            /\ outbox'[o].status # "absent" => operations[o] # "absent"
                            /\ operations'[o] # "absent" => operations[o] # "absent"
      PROVE  RowsTogether'
  BY <1>0, OperationsStay DEF RowsTogether, HasProjection
<1>1. ASSUME NEW w \in Workers, ClaimBatch(w) PROVE RowsTogether'
  <2>1. \A o \in Ops : /\ outbox'[o].activity = outbox[o].activity
                       /\ outbox'[o].status = outbox[o].status
    <3>1. PICK batch : ClaimOutboxMessagesReady(w, batch)
      BY <1>1 DEF ClaimBatch
    <3>2. \A o \in Ops : outbox'[o] \in {outbox[o], [outbox[o] EXCEPT !.due = FALSE, !.holder = w]}
      BY <3>1 DEF ClaimOutboxMessagesReady
    <3>3. \A o \in Ops : LET row == [outbox[o] EXCEPT !.due = FALSE, !.holder = w]
                         IN  row.activity = outbox[o].activity /\ row.status = outbox[o].status
      BY DEF TypeOK, StoreTypeOK, OutboxRow
    <3>q. QED BY <3>2, <3>3
  <2>q. QED BY <1>0, <1>1, <2>1 DEF ClaimBatch, ClaimOutboxMessagesReady, RowsTogether
<1>2. ASSUME NEW w \in Workers, ProcessMessage(w) PROVE RowsTogether'
  <2>1. UNCHANGED outbox
    BY <1>2 DEF ProcessMessage, CreateOrGetInboxMessage, CreateInboxMessage, DeadLetterInvalid,
                MarkInboxMessage, ReadOperation, MarkProcessedWithoutProjection, ProjectResult,
                RecordInboxProcessTransition, ProjectResultRefused, StoreCallFails, storeVars
  <2>2. \A o \in Ops : operations'[o] # "absent" => operations[o] # "absent"
    BY <1>2 DEF ProcessMessage, CreateOrGetInboxMessage, CreateInboxMessage, DeadLetterInvalid,
                MarkInboxMessage, ReadOperation, MarkProcessedWithoutProjection, ProjectResult,
                RecordInboxProcessTransition, ProjectResultRefused, StoreCallFails, storeVars,
                TypeOK, StoreTypeOK
  <2>q. QED BY <1>0, <2>1, <2>2 DEF RowsTogether
<1>3. ASSUME NEW w \in Workers, RecordOutcome(w) PROVE RowsTogether'
  <2>1. /\ current[w].op \in Ops /\ operations[current[w].op] # "absent"
    BY <1>3 DEF RecordOutcome, TypeOK, WorkerTypeOK, ClaimedMessage, HeldExist
  <2>2. PICK st : RecordOutboxPublishTransition(w, current[w], st)
    BY <1>3 DEF RecordOutcome
  <2>3. \A o \in Ops : /\ outbox'[o].activity = outbox[o].activity
                       /\ o # current[w].op => outbox'[o] = outbox[o] /\ operations'[o] = operations[o]
    BY <2>1, <2>2, SMTT(30) DEF RecordOutboxPublishTransition, TypeOK, StoreTypeOK, OutboxRow
  <2>q. QED BY <1>0, <2>1, <2>3 DEF RowsTogether
<1>4. ASSUME NEW o \in Ops, Passage(o) PROVE RowsTogether'
  <2>1. operations[o] # "absent"
    BY <1>4 DEF Passage, DelayEnds, LeaseOverrun, OperatorRequeue, BecomesDue, RequeueOutboxMessage,
                RowsTogether
  <2>2. \A p \in Ops : /\ outbox'[p].activity = outbox[p].activity
                       /\ p # o => outbox'[p] = outbox[p] /\ operations'[p] = operations[p]
    BY <1>4 DEF Passage, DelayEnds, LeaseOverrun, OperatorRequeue, BecomesDue, RequeueOutboxMessage,
                TypeOK, StoreTypeOK, OutboxRow
  <2>q. QED BY <1>0, <2>1, <2>2 DEF RowsTogether
<1>5. CASE Request
  <2>1. ASSUME NEW o \in Ops, NEW act, CreateOperation(o, act),
               HasProjection(o) => act # NoActivity
        PROVE  RowsTogether'
    BY <2>1 DEF CreateOperation, RowsTogether, HasProjection, TypeOK, StoreTypeOK, OutboxRow
  <2>2. ASSUME NEW o \in Ops, StartDeviceLifecycleOperation(o) PROVE RowsTogether'
    BY <2>1, <2>2, StoreAssumption DEF StartDeviceLifecycleOperation
  <2>3. ASSUME NEW o \in Ops, StartDeviceDeactivationOperation(o) PROVE RowsTogether'
    BY <2>1, <2>3 DEF StartDeviceDeactivationOperation
  <2>4. ASSUME NEW o \in Ops, UnprovisionDevice(o) \/ StartDeviceEntitlementSnapshot(o)
        PROVE  RowsTogether'
    BY <2>1, <2>4 DEF UnprovisionDevice, StartDeviceEntitlementSnapshot, HasProjection
  <2>5. ASSUME NEW d \in Devices, DeleteDeviceAsUser(d) PROVE RowsTogether'
    BY <1>0, <2>5 DEF DeleteDeviceAsUser, RowsTogether
  <2>q. QED BY <1>5, <2>2, <2>3, <2>4, <2>5 DEF Request, ApiRequest
<1>6. ASSUME NEW w \in Workers, CallFails(w) \/ CallAnswered(w) \/ ProjectionReturns(w) \/ WorkerCrash(w)
      PROVE  RowsTogether'
  BY <1>0, <1>6 DEF CallFails, CallAnswered, ProjectionReturns, WorkerCrash, Crash, storeVars,
                    RowsTogether
<1>7. CASE UNCHANGED vars
  BY <1>0, <1>7 DEF vars, storeVars, RowsTogether
<1>q. QED BY <1>1, <1>2, <1>3, <1>4, <1>5, <1>6, <1>7 DEF Next, WorkerStep

\* Every message a worker holds after a step it held before, or has just claimed.
LEMMA NextHeldExist == TypeOK /\ RowsInv /\ [Next]_vars => HeldExist'
<1> SUFFICES ASSUME TypeOK, RowsInv, [Next]_vars PROVE HeldExist'
  OBVIOUS
<1>0. ASSUME \A w \in Workers :
               /\ \A m \in claimed'[w] : m.op \in Ops /\ operations[m.op] # "absent"
               /\ pc'[w] \in {"publishing", "record"} =>
                    current'[w].op \in Ops /\ operations[current'[w].op] # "absent"
      PROVE  HeldExist'
  BY <1>0, OperationsStay DEF HeldExist
<1>1. \A w \in Workers :
        /\ \A m \in claimed[w] : m.op \in Ops /\ operations[m.op] # "absent"
        /\ pc[w] \in {"publishing", "record"} =>
             current[w].op \in Ops /\ operations[current[w].op] # "absent"
  BY DEF RowsInv, HeldExist, TypeOK, WorkerTypeOK, ClaimedMessage
<1>2. ASSUME NEW w \in Workers, ClaimBatch(w) PROVE HeldExist'
  <2>1. PICK batch \in SUBSET ReadyMessages :
          claimed' = [claimed EXCEPT ![w] =
               {[op |-> o, status |-> outbox[o].status, attempt |-> outbox[o].attempt] : o \in batch}]
    BY <1>2 DEF ClaimBatch
  <2>2. \A m \in claimed'[w] : m.op \in Ops /\ operations[m.op] # "absent"
    BY <2>1 DEF ReadyMessages, RowsInv, RowsTogether, TypeOK, WorkerTypeOK
  <2>3. \A v \in Workers : v # w => claimed'[v] = claimed[v]
    BY <2>1 DEF TypeOK, WorkerTypeOK
  <2>q. QED BY <1>0, <1>1, <1>2, <2>2, <2>3 DEF ClaimBatch, TypeOK, WorkerTypeOK
<1>3. ASSUME NEW w \in Workers, CallFails(w) \/ CallAnswered(w) PROVE HeldExist'
  <2>1. PICK m \in claimed[w] : Take(w, m)
    BY <1>3 DEF CallFails, CallAnswered
  <2>2. pc' \in {[pc EXCEPT ![w] = "record"], [pc EXCEPT ![w] = "publishing"]}
    BY <1>3 DEF CallFails, CallAnswered, PublishReturns
  <2>q. QED BY <1>0, <1>1, <2>1, <2>2 DEF Take, TypeOK, WorkerTypeOK
<1>4. ASSUME NEW w \in Workers, ProjectionReturns(w) \/ RecordOutcome(w) \/ WorkerCrash(w)
      PROVE  HeldExist'
  BY <1>0, <1>1, <1>4 DEF ProjectionReturns, PublishReturns, RecordOutcome, WorkerCrash, Crash, Restart,
                          TypeOK, WorkerTypeOK
<1>5. ASSUME UNCHANGED <<pc, claimed, current>> PROVE HeldExist'
  BY <1>0, <1>1, <1>5
<1>q. QED BY <1>2, <1>3, <1>4, <1>5
   DEF Next, WorkerStep, Passage, DelayEnds, LeaseOverrun, OperatorRequeue, Request, vars, workerVars

\* Rows and held messages stay together.
LEMMA NextRows == TypeOK /\ RowsInv /\ [Next]_vars => RowsInv'
BY NextRowsTogether, NextHeldExist DEF RowsInv

\* A published row is final: neither a late outcome of an earlier claim nor a
\* claim, an overrun lease, a requeue or a request that reuses the operation's
\* id writes it again.
THEOREM PublishedRowsAreFinal == Spec => PublishedIsFinal
<1> DEFINE Final == \A o \in Ops : outbox[o].status = "published" => outbox'[o] = outbox[o]
<1>1. ASSUME TypeOK, RowsInv, [Next]_vars PROVE Final
  <2>0. ASSUME UNCHANGED outbox PROVE Final
    BY <2>0
  <2>1. ASSUME NEW w \in Workers, ClaimBatch(w) PROVE Final
    BY <1>1, <2>1 DEF ClaimBatch, ClaimOutboxMessagesReady, ReadyMessages
  <2>2. ASSUME NEW w \in Workers, RecordOutcome(w) PROVE Final
    <3>1. /\ current[w] \in ClaimedMessage /\ current[w].op \in Ops
          /\ current[w].status \in {"pending", "retrying"}
      BY <1>1, <2>2 DEF RecordOutcome, TypeOK, WorkerTypeOK, ClaimedMessage
    <3>2. PICK st : RecordOutboxPublishTransition(w, current[w], st)
      BY <2>2 DEF RecordOutcome
    <3>q. QED BY <1>1, <3>1, <3>2
       DEF RecordOutboxPublishTransition, ShouldApplyOutboxPublishTransition,
           IsPublishedOutcomeOverride, TypeOK, StoreTypeOK
  <2>3. ASSUME NEW o \in Ops, Passage(o) PROVE Final
    BY <1>1, <2>3 DEF Passage, DelayEnds, LeaseOverrun, OperatorRequeue, BecomesDue,
                      RequeueOutboxMessage, TypeOK, StoreTypeOK
  <2>4. CASE Request
    <3>1. ASSUME NEW o \in Ops, NEW act, CreateOperation(o, act) PROVE Final
      BY <1>1, <3>1 DEF CreateOperation, RowsInv, RowsTogether, TypeOK, StoreTypeOK
    <3>q. QED BY <2>0, <2>4, <3>1
       DEF Request, ApiRequest, StartDeviceLifecycleOperation, StartDeviceDeactivationOperation,
           UnprovisionDevice, StartDeviceEntitlementSnapshot, DeleteDeviceAsUser
  <2>5. ASSUME NEW w \in Workers, ProcessMessage(w) PROVE Final
    BY <2>0, <2>5 DEF ProcessMessage, CreateOrGetInboxMessage, CreateInboxMessage,
       DeadLetterInvalid, MarkInboxMessage, ReadOperation, MarkProcessedWithoutProjection,
       ProjectResult, RecordInboxProcessTransition, ProjectResultRefused, StoreCallFails, storeVars
  <2>6. ASSUME NEW w \in Workers,
               CallFails(w) \/ CallAnswered(w) \/ ProjectionReturns(w) \/ WorkerCrash(w)
        PROVE  Final
    BY <2>0, <2>6 DEF CallFails, CallAnswered, ProjectionReturns, WorkerCrash, Crash, storeVars
  <2>7. CASE UNCHANGED vars
    BY <2>0, <2>7 DEF vars, storeVars
  <2>q. QED BY <1>1, <2>1, <2>2, <2>3, <2>4, <2>5, <2>6, <2>7 DEF Next, WorkerStep
<1>2. TypeOK /\ RowsInv /\ [Next]_vars => [Final]_vars
  BY <1>1
<1>q. QED BY <1>2, InitRows, NextRows, TypeCorrect, PTL DEF Spec, PublishedIsFinal

-----------------------------------------------------------------------------
\* A running processMessage works on the one result id of its operation, and
\* from its second transaction on the inbox holds the row of its message.
RunningMatches ==
  \A a \in Agents :
    /\ step[a] # "none" => /\ result[a].id = ResultOf[OpOf[result[a].id]]
                           /\ result[a].verdict \in Verdicts
    /\ step[a] \in {"decide", "mark", "project"} =>
         /\ inbox[result[a].id].status # "absent"
         /\ inbox[result[a].id].verdict = result[a].verdict

\* At first nothing is running.
LEMMA InitRunning == Init => RunningMatches
BY DEF Init, InboxInit, RunningMatches

\* A processMessage step is one of these writes of the inbox.
LEMMA ProcessInbox ==
  ASSUME TypeOK, RunningMatches, NEW a \in Agents, ProcessMessage(a)
  PROVE  /\ result[a] \in ResultMessage /\ result[a].id \in Results
         /\ result[a].id = ResultOf[OpOf[result[a].id]] /\ result[a].verdict \in Verdicts
         /\ \/ inbox' = inbox
            \/ /\ inbox[result[a].id].status = "absent"
               /\ inbox' = [inbox EXCEPT ![result[a].id] =
                    [status |-> "retrying", verdict |-> result[a].verdict, at |-> result[a].at]]
            \/ /\ inbox[result[a].id].status # "absent"
               /\ inbox[result[a].id].verdict = result[a].verdict
               /\ inbox' = [inbox EXCEPT ![result[a].id].status = "processed"]
<1>1. /\ step[a] \in Running /\ step[a] # "none"
  BY DEF ProcessMessage, InboxTypeOK, Running, CreateOrGetInboxMessage, DeadLetterInvalid,
         ReadOperation, MarkProcessedWithoutProjection, ProjectResult, ProjectResultRefused,
         StoreCallFails
<1>2. /\ result[a] \in ResultMessage /\ result[a].id \in Results
      /\ result[a].id = ResultOf[OpOf[result[a].id]] /\ result[a].verdict \in Verdicts
  BY <1>1 DEF TypeOK, InboxTypeOK, ResultMessage, RunningMatches
<1>3. ~DeadLetterInvalid(a)
  BY <1>2 DEF DeadLetterInvalid, Verdicts
<1>4. CASE CreateOrGetInboxMessage(a)
  BY <1>2, <1>4 DEF CreateOrGetInboxMessage, CreateInboxMessage, storeVars
<1>5. CASE MarkProcessedWithoutProjection(a) \/ ProjectResult(a)
  BY <1>2, <1>5 DEF MarkProcessedWithoutProjection, ProjectResult, RecordInboxProcessTransition,
                    MarkInboxMessage, RunningMatches
<1>6. CASE ReadOperation(a) \/ ProjectResultRefused(a) \/ StoreCallFails(a)
  BY <1>2, <1>6 DEF ReadOperation, ProjectResultRefused, StoreCallFails, storeVars
<1>q. QED BY <1>3, <1>4, <1>5, <1>6 DEF ProcessMessage

\* Steps that are not of processMessage leave the inbox alone.
LEMMA InboxUnchanged ==
  ASSUME [Next]_vars, \A w \in Workers : ~ProcessMessage(w)
  PROVE  inbox' = inbox
<1>1. ASSUME NEW w \in Workers, WorkerStep(w) \/ WorkerCrash(w) PROVE inbox' = inbox
  BY <1>1 DEF WorkerStep, ClaimBatch, ClaimOutboxMessagesReady, CallFails, CallAnswered,
     ProjectionReturns, RecordOutcome, RecordOutboxPublishTransition, WorkerCrash, Crash, storeVars
<1>2. ASSUME NEW o \in Ops, Passage(o) PROVE inbox' = inbox
  BY <1>2 DEF Passage, DelayEnds, LeaseOverrun, OperatorRequeue, BecomesDue, RequeueOutboxMessage
<1>3. CASE Request
  BY <1>3 DEF Request, ApiRequest, StartDeviceLifecycleOperation, StartDeviceDeactivationOperation,
     UnprovisionDevice, StartDeviceEntitlementSnapshot, CreateOperation, DeleteDeviceAsUser
<1>4. CASE UNCHANGED vars
  BY <1>4 DEF vars, storeVars
<1>q. QED BY <1>1, <1>2, <1>3, <1>4 DEF Next

\* A stored result keeps its payload, and a processed one stays processed.
LEMMA InboxRowsStay ==
  ASSUME TypeOK, RunningMatches, [Next]_vars, NEW r \in Results
  PROVE  /\ inbox[r].status # "absent" =>
              inbox'[r].status # "absent" /\ inbox'[r].verdict = inbox[r].verdict
         /\ inbox[r].status = "processed" => inbox'[r].status = "processed"
<1>1. ASSUME NEW w \in Workers, ProcessMessage(w)
      PROVE  /\ inbox[r].status # "absent" =>
                  inbox'[r].status # "absent" /\ inbox'[r].verdict = inbox[r].verdict
             /\ inbox[r].status = "processed" => inbox'[r].status = "processed"
  <2>1. w \in Agents
    BY ResultAssumption
  <2>2. CASE inbox' = inbox
    BY <2>2
  <2>3. CASE /\ inbox[result[w].id].status = "absent"
             /\ inbox' = [inbox EXCEPT ![result[w].id] =
                  [status |-> "retrying", verdict |-> result[w].verdict, at |-> result[w].at]]
    BY <2>3 DEF TypeOK, StoreTypeOK
  <2>4. CASE inbox' = [inbox EXCEPT ![result[w].id].status = "processed"]
    BY <2>4 DEF TypeOK, StoreTypeOK, InboxRow
  <2>q. QED BY <1>1, <2>1, <2>2, <2>3, <2>4, ProcessInbox
<1>q. QED BY <1>1, InboxUnchanged

\* What an agent remembers between two transactions stays true of the inbox.
LEMMA NextRunning == TypeOK /\ RunningMatches /\ [Next]_vars => RunningMatches'
<1> SUFFICES ASSUME TypeOK, RunningMatches, [Next]_vars PROVE RunningMatches'
  OBVIOUS
<1> DEFINE Matches(a) ==
      /\ step[a] # "none" => /\ result[a].id = ResultOf[OpOf[result[a].id]]
                             /\ result[a].verdict \in Verdicts
      /\ step[a] \in {"decide", "mark", "project"} =>
           /\ inbox[result[a].id].status # "absent"
           /\ inbox[result[a].id].verdict = result[a].verdict
<1>0. SUFFICES ASSUME NEW a \in Agents PROVE Matches(a)'
  BY DEF RunningMatches
<1>1. Matches(a) /\ (step[a] # "none" => result[a].id \in Results)
  BY DEF RunningMatches, TypeOK, InboxTypeOK, ResultMessage
\* An agent that makes no step of its own is where it was.
<1>2. ASSUME step'[a] = step[a], result'[a] = result[a] PROVE Matches(a)'
  BY <1>1, <1>2, InboxRowsStay
<1>3. ASSUME NEW w \in Workers, CallAnswered(w) PROVE Matches(a)'
  <2>1. PICK m \in claimed[w], verdict \in Verdicts :
          BeginProcess(w, [id |-> ResultOf[m.op], verdict |-> verdict, at |-> responses[m.op] + 1])
    BY <1>3 DEF CallAnswered
  <2>2. m.op \in Ops
    BY DEF TypeOK, WorkerTypeOK, ClaimedMessage
  <2>3. CASE a = w
    BY <2>1, <2>2, <2>3, ResultAssumption DEF BeginProcess, TypeOK, InboxTypeOK
  <2>4. CASE a # w
    BY <1>2, <2>1, <2>4 DEF BeginProcess, TypeOK, InboxTypeOK
  <2>q. QED BY <2>3, <2>4
<1>4. ASSUME NEW w \in Workers, ProcessMessage(w) PROVE Matches(a)'
  <2>1. /\ result' = result
        /\ \E s : step' = [step EXCEPT ![w] = s]
    BY <1>4 DEF ProcessMessage, CreateOrGetInboxMessage, DeadLetterInvalid, ReadOperation,
       MarkProcessedWithoutProjection, ProjectResult, ProjectResultRefused, StoreCallFails, Goto
  <2>2. CASE a # w
    BY <1>2, <2>1, <2>2 DEF TypeOK, InboxTypeOK
  <2>3. CASE a = w
    <3>1. step[a] # "none"
      BY <1>4, <2>3 DEF ProcessMessage, CreateOrGetInboxMessage, DeadLetterInvalid, ReadOperation,
         MarkProcessedWithoutProjection, ProjectResult, ProjectResultRefused, StoreCallFails, Running
    <3>2. CASE CreateOrGetInboxMessage(a)
      <4>1. CASE step'[a] = "decide"
        <5>1. /\ inbox'[result[a].id].status # "absent"
              /\ inbox'[result[a].id].verdict = result[a].verdict
          BY <1>1, <3>1, <3>2, <4>1
             DEF CreateOrGetInboxMessage, CreateInboxMessage, SameInboxCreate, storeVars, Goto, TypeOK,
                 StoreTypeOK, InboxTypeOK
        <5>q. QED BY <1>1, <2>1, <3>1, <5>1
      <4>2. CASE step'[a] \in {"error", "skipped"}
        BY <1>1, <2>1, <3>1, <4>2
      <4>q. QED BY <3>2, <4>1, <4>2 DEF CreateOrGetInboxMessage, Goto, TypeOK, InboxTypeOK
    <3>3. CASE ReadOperation(a)
      BY <1>1, <2>1, <3>1, <3>3 DEF ReadOperation, storeVars
    <3>4. CASE \/ MarkProcessedWithoutProjection(a) \/ ProjectResult(a)
               \/ ProjectResultRefused(a) \/ StoreCallFails(a) \/ DeadLetterInvalid(a)
      <4>1. step'[a] \in {"processed", "error", "dead_lettered"}
        BY <3>4 DEF MarkProcessedWithoutProjection, ProjectResult, ProjectResultRefused, StoreCallFails,
                    DeadLetterInvalid, Goto, TypeOK, InboxTypeOK
      <4>q. QED BY <1>1, <2>1, <3>1, <4>1
    <3>q. QED BY <1>4, <2>3, <3>2, <3>3, <3>4 DEF ProcessMessage
  <2>q. QED BY <2>2, <2>3
<1>5. ASSUME NEW w \in Workers, EndProcess(w) PROVE Matches(a)'
  <2>1. CASE a = w
    BY <1>5, <2>1 DEF EndProcess, TypeOK, InboxTypeOK
  <2>2. CASE a # w
    BY <1>2, <1>5, <2>2 DEF EndProcess, TypeOK, InboxTypeOK
  <2>q. QED BY <2>1, <2>2
<1>6. ASSUME UNCHANGED inboxVars PROVE Matches(a)'
  BY <1>2, <1>6 DEF inboxVars
<1>q. QED BY <1>3, <1>4, <1>5, <1>6
   DEF Next, WorkerStep, CallFails, ProjectionReturns, WorkerCrash, Passage, Request, vars, inboxVars

-----------------------------------------------------------------------------
(* Completion.                                                             *)

\* A step completes an operation only in the transaction that marks the
\* operation's result processed, with the verdict of that result.
LEMMA CompletesOnlyByProjection ==
  ASSUME TypeOK, RunningMatches, [Next]_vars, NEW o \in Ops,
         operations'[o] \in {"succeeded", "failed"}
  PROVE  \/ operations'[o] = operations[o]
         \/ \E w \in Workers : /\ ProjectResult(w) /\ w \in Agents
                               /\ o = OpOf[result[w].id] /\ result[w].id = ResultOf[o]
                               /\ operations'[o] = result[w].verdict
                               /\ inbox'[ResultOf[o]].status = "processed"
                               /\ inbox'[ResultOf[o]].verdict = result[w].verdict
<1>0. CASE UNCHANGED operations
  BY <1>0
<1>1. ASSUME NEW w \in Workers, ProjectResult(w)
      PROVE  \/ operations'[o] = operations[o]
             \/ /\ w \in Agents
                /\ o = OpOf[result[w].id] /\ result[w].id = ResultOf[o]
                /\ operations'[o] = result[w].verdict
                /\ inbox'[ResultOf[o]].status = "processed"
                /\ inbox'[ResultOf[o]].verdict = result[w].verdict
  <2>1. w \in Agents
    BY ResultAssumption
  <2>2. /\ result[w].id \in Results
        /\ result[w].id = ResultOf[OpOf[result[w].id]]
        /\ inbox[result[w].id].verdict = result[w].verdict
    BY <1>1, <2>1 DEF ProjectResult, RunningMatches, TypeOK, InboxTypeOK, ResultMessage
  <2>3. CASE o = OpOf[result[w].id]
    <3>1. operations'[o] = result[w].verdict
      BY <1>1, <2>3 DEF ProjectResult, RecordInboxProcessTransition, TypeOK, StoreTypeOK
    <3>2. /\ inbox'[result[w].id].status = "processed"
          /\ inbox'[result[w].id].verdict = result[w].verdict
      BY <1>1, <2>2 DEF ProjectResult, RecordInboxProcessTransition, TypeOK, StoreTypeOK, InboxRow
    <3>q. QED BY <2>1, <2>2, <2>3, <3>1, <3>2
  <2>4. CASE o # OpOf[result[w].id]
    BY <1>1, <2>4 DEF ProjectResult, RecordInboxProcessTransition, TypeOK, StoreTypeOK
  <2>q. QED BY <2>3, <2>4
<1>2. ASSUME NEW w \in Workers, ProcessMessage(w), ~ProjectResult(w) PROVE UNCHANGED operations
  BY <1>2 DEF ProcessMessage, CreateOrGetInboxMessage, CreateInboxMessage, DeadLetterInvalid,
     MarkInboxMessage, ReadOperation, MarkProcessedWithoutProjection, ProjectResultRefused,
     StoreCallFails, storeVars
<1>3. ASSUME NEW w \in Workers, RecordOutcome(w) PROVE operations'[o] = operations[o]
  <2>1. PICK st \in {"published", "retrying", "dead_lettered"} :
          operations' \in {operations, [operations EXCEPT ![current[w].op] = st]}
    BY <1>3, RecordedStatusType DEF RecordOutcome, RecordOutboxPublishTransition
  <2>q. QED BY <2>1, SMTT(30) DEF TypeOK, StoreTypeOK
<1>4. ASSUME NEW p \in Ops, Passage(p) PROVE operations'[o] = operations[o]
  BY <1>4 DEF Passage, DelayEnds, LeaseOverrun, OperatorRequeue, BecomesDue, RequeueOutboxMessage,
              TypeOK, StoreTypeOK
<1>5. CASE Request
  BY <1>5 DEF Request, ApiRequest, StartDeviceLifecycleOperation, StartDeviceDeactivationOperation,
     UnprovisionDevice, StartDeviceEntitlementSnapshot, CreateOperation, DeleteDeviceAsUser,
     TypeOK, StoreTypeOK
<1>6. ASSUME NEW w \in Workers,
             ClaimBatch(w) \/ CallFails(w) \/ CallAnswered(w) \/ ProjectionReturns(w) \/ WorkerCrash(w)
      PROVE  UNCHANGED operations
  BY <1>6 DEF ClaimBatch, ClaimOutboxMessagesReady, CallFails, CallAnswered, ProjectionReturns,
     WorkerCrash, Crash, storeVars
<1>7. CASE UNCHANGED vars
  BY <1>7 DEF vars, storeVars
<1>q. QED BY <1>0, <1>1, <1>2, <1>3, <1>4, <1>5, <1>6, <1>7 DEF Next, WorkerStep

\* A completed operation's status is the verdict of its processed result, for
\* any number of workers that process results of the same operation at once.
THEOREM CompletionIsTheInboxVerdict == Spec => []CompletionMatchesInbox
<1>1. Init => CompletionMatchesInbox
  BY DEF Init, StoreInit, CompletionMatchesInbox
<1>2. ASSUME TypeOK, RunningMatches, CompletionMatchesInbox, [Next]_vars PROVE CompletionMatchesInbox'
  <2>1. SUFFICES ASSUME NEW o \in Ops, operations'[o] \in {"succeeded", "failed"}
                 PROVE  /\ inbox'[ResultOf[o]].status = "processed"
                        /\ inbox'[ResultOf[o]].verdict = operations'[o]
    BY DEF CompletionMatchesInbox
  <2>2. CASE operations'[o] = operations[o]
    BY <1>2, <2>1, <2>2, InboxRowsStay, ResultAssumption DEF CompletionMatchesInbox
  <2>3. CASE operations'[o] # operations[o]
    BY <1>2, <2>1, <2>3, CompletesOnlyByProjection
  <2>q. QED BY <2>2, <2>3
<1>q. QED BY <1>1, <1>2, InitRunning, NextRunning, TypeCorrect, PTL DEF Spec

\* A running result that says succeeded is of a command that was carried out.
RunningApplied ==
  \A a \in Agents : step[a] # "none" /\ result[a].verdict = "succeeded" => applied[OpOf[result[a].id]]

AppliedInv == SucceededOnlyIfApplied /\ RunningApplied

\* Nothing un-applies a command.
LEMMA AppliedStays ==
  ASSUME TypeOK, [Next]_vars, NEW o \in Ops, applied[o]
  PROVE  applied'[o]
<1>1. ASSUME NEW w \in Workers, CallFails(w) PROVE applied'[o]
  BY <1>1 DEF CallFails, TypeOK
<1>2. ASSUME NEW w \in Workers, CallAnswered(w) PROVE applied'[o]
  BY <1>2 DEF CallAnswered, TypeOK
<1>3. CASE UNCHANGED applied
  BY <1>3
<1>q. QED BY <1>1, <1>2, <1>3
   DEF Next, WorkerStep, ProjectionReturns, WorkerCrash, Passage, Request, vars

\* An operation is reported succeeded only if Video Cloud carried it out,
\* whatever responses are lost, repeated or contradicted by later ones.
THEOREM SuccessIsReal == Spec => []SucceededOnlyIfApplied
<1>1. Init => AppliedInv
  BY DEF Init, StoreInit, InboxInit, AppliedInv, SucceededOnlyIfApplied, RunningApplied
<1>2. ASSUME TypeOK, RunningMatches, AppliedInv, [Next]_vars PROVE SucceededOnlyIfApplied'
  <2>1. SUFFICES ASSUME NEW o \in Ops, operations'[o] = "succeeded" PROVE applied'[o]
    BY DEF SucceededOnlyIfApplied
  <2>2. CASE operations'[o] = operations[o]
    BY <1>2, <2>1, <2>2, AppliedStays DEF AppliedInv, SucceededOnlyIfApplied
  <2>3. CASE operations'[o] # operations[o]
    <3>1. PICK w \in Workers : /\ ProjectResult(w) /\ w \in Agents
                               /\ o = OpOf[result[w].id] /\ result[w].verdict = "succeeded"
      BY <1>2, <2>1, <2>3, CompletesOnlyByProjection
    <3>2. applied[o]
      BY <1>2, <3>1 DEF ProjectResult, AppliedInv, RunningApplied
    <3>q. QED BY <1>2, <3>2, AppliedStays
  <2>q. QED BY <2>2, <2>3
<1>3. ASSUME TypeOK, RunningMatches, AppliedInv, [Next]_vars PROVE RunningApplied'
  <2>1. SUFFICES ASSUME NEW a \in Agents, step'[a] # "none", result'[a].verdict = "succeeded"
                 PROVE  applied'[OpOf[result'[a].id]]
    BY DEF RunningApplied
  <2>2. CASE step[a] # "none" /\ result'[a] = result[a]
    <3>1. OpOf[result[a].id] \in Ops
      BY <1>3, <2>2, StoreAssumption DEF TypeOK, InboxTypeOK, ResultMessage
    <3>q. QED BY <1>3, <2>1, <2>2, <3>1, AppliedStays DEF AppliedInv, RunningApplied
  <2>3. ASSUME NEW w \in Workers, CallAnswered(w) PROVE applied'[OpOf[result'[a].id]]
    <3>1. PICK m \in claimed[w], verdict \in Verdicts :
            /\ BeginProcess(w, [id |-> ResultOf[m.op], verdict |-> verdict, at |-> responses[m.op] + 1])
            /\ applied' = [applied EXCEPT ![m.op] = @ \/ verdict = "succeeded"]
      BY <2>3 DEF CallAnswered
    <3>2. m.op \in Ops
      BY <1>3 DEF TypeOK, WorkerTypeOK, ClaimedMessage
    <3>3. CASE a = w
      BY <1>3, <2>1, <3>1, <3>2, <3>3, ResultAssumption DEF BeginProcess, TypeOK, InboxTypeOK
    <3>4. CASE a # w
      BY <1>3, <2>1, <2>2, <3>1, <3>4 DEF BeginProcess, TypeOK, InboxTypeOK
    <3>q. QED BY <3>3, <3>4
  <2>4. ASSUME NEW w \in Workers, ProcessMessage(w) PROVE step[a] # "none" /\ result'[a] = result[a]
    BY <1>3, <2>1, <2>4
       DEF ProcessMessage, CreateOrGetInboxMessage, DeadLetterInvalid, ReadOperation,
       MarkProcessedWithoutProjection, ProjectResult, ProjectResultRefused, StoreCallFails, Goto, Running,
       TypeOK, InboxTypeOK
  <2>5. ASSUME NEW w \in Workers, EndProcess(w) PROVE step[a] # "none" /\ result'[a] = result[a]
    BY <1>3, <2>1, <2>5 DEF EndProcess, TypeOK, InboxTypeOK
  <2>6. CASE UNCHANGED inboxVars
    BY <2>1, <2>2, <2>6 DEF inboxVars
  <2>q. QED BY <1>3, <2>2, <2>3, <2>4, <2>5, <2>6
     DEF Next, WorkerStep, CallFails, ProjectionReturns, WorkerCrash, Passage, Request, vars, inboxVars
<1>4. AppliedInv => SucceededOnlyIfApplied
  BY DEF AppliedInv
<1>5. TypeOK /\ RunningMatches /\ AppliedInv /\ [Next]_vars => AppliedInv'
  BY <1>2, <1>3 DEF AppliedInv
<1>q. QED BY <1>1, <1>4, <1>5, InitRunning, NextRunning, TypeCorrect, PTL DEF Spec

-----------------------------------------------------------------------------
(* The outbox as a DeliveryQueue.                                          *)

\* A worker that is about to record a publication has seen an answer.
PublishedAnswered ==
  \A w \in Workers :
    pc[w] = "publishing" \/ (pc[w] = "record" /\ outcome[w] = "ok") => responses[current[w].op] > 0

\* Every operation has its outbox row.
OperationsHaveRows == \A o \in Ops : operations[o] # "absent" => outbox[o].status # "absent"

QueueInv == PublishedAnswered /\ OperationsHaveRows

\* At first nothing is on its way.
LEMMA InitQueue == Init => QueueInv
BY DEF Init, StoreInit, WorkerInit, QueueInv, PublishedAnswered, OperationsHaveRows

\* Answers are never taken back.
LEMMA ResponsesGrow ==
  ASSUME TypeOK, [Next]_vars, NEW o \in Ops
  PROVE  responses'[o] \in Nat /\ responses'[o] >= responses[o]
<1>1. ASSUME NEW w \in Workers, CallAnswered(w)
      PROVE  responses'[o] \in Nat /\ responses'[o] >= responses[o]
  BY <1>1 DEF CallAnswered, TypeOK
<1>2. CASE UNCHANGED responses
  BY <1>2 DEF TypeOK
<1>q. QED BY <1>1, <1>2
   DEF Next, WorkerStep, CallFails, ProjectionReturns, WorkerCrash, Passage, Request, vars

\* How a step moves the queue state of the commands: at most one of them, and
\* only as DeliveryQueue allows.
LEMMA RowSteps ==
  ASSUME TypeOK, RowsInv, QueueInv, [Next]_vars
  PROVE  \/ \A o \in Ops : QueueState(o)' = QueueState(o)
         \/ /\ UNCHANGED <<applied, responses>>
            /\ \E o \in Ops :
                 /\ \A p \in Ops : p # o => QueueState(p)' = QueueState(p)
                 /\ \/ QueueState(o) = "absent" /\ QueueState(o)' = "open"
                    \/ /\ QueueState(o) \in {"open", "given_up"} /\ QueueState(o)' = "delivered"
                       /\ responses[o] > 0
                    \/ QueueState(o) = "open" /\ QueueState(o)' = "given_up"
                    \/ QueueState(o) = "given_up" /\ QueueState(o)' = "open"
<1> DEFINE Same == \A o \in Ops : QueueState(o)' = QueueState(o)
<1>0. ASSUME UNCHANGED outbox PROVE Same
  BY <1>0 DEF QueueState
<1>1. ASSUME NEW w \in Workers, ClaimBatch(w) PROVE Same
  <2>1. PICK batch \in SUBSET ReadyMessages : ClaimOutboxMessagesReady(w, batch)
    BY <1>1 DEF ClaimBatch
  <2>2. \A o \in Ops : outbox'[o].status = outbox[o].status
    BY <2>1 DEF ClaimOutboxMessagesReady, TypeOK, StoreTypeOK, OutboxRow
  <2>q. QED BY <2>2 DEF QueueState
<1>2. ASSUME NEW w \in Workers, RecordOutcome(w), UNCHANGED <<applied, responses>>
      PROVE  \/ Same
             \/ \E o \in Ops :
                  /\ \A p \in Ops : p # o => QueueState(p)' = QueueState(p)
                  /\ \/ /\ QueueState(o) \in {"open", "given_up"} /\ QueueState(o)' = "delivered"
                        /\ responses[o] > 0
                     \/ QueueState(o) = "open" /\ QueueState(o)' = "given_up"
  <2> DEFINE m == current[w]
             st == RecordedStatus(m, outcome[w])
  <2>1. /\ m.op \in Ops /\ m.status \in {"pending", "retrying"}
        /\ operations[m.op] # "absent"
        /\ outbox[m.op].status # "absent" /\ outbox[m.op].status \in OutboxStatuses
    BY <1>2 DEF RecordOutcome, TypeOK, WorkerTypeOK, ClaimedMessage, RowsInv, HeldExist, QueueInv,
                OperationsHaveRows, StoreTypeOK, OutboxRow
  <2>2. /\ st \in {"published", "retrying", "dead_lettered"}
        /\ st = "published" => responses[m.op] > 0
    BY <1>2 DEF RecordOutcome, RecordedStatus, QueueInv, PublishedAnswered, TypeOK, WorkerTypeOK, Outcomes
  <2>3. RecordOutboxPublishTransition(w, m, st)
    BY <1>2 DEF RecordOutcome
  <2> HIDE DEF m, st
  <2>4. \/ UNCHANGED outbox
        \/ /\ \A p \in Ops : p # m.op => outbox'[p] = outbox[p]
           /\ outbox'[m.op].status = st
           /\ \/ outbox[m.op].status \in {"pending", "retrying"}
              \/ st = "published" /\ outbox[m.op].status # "published"
    BY <2>1, <2>3 DEF RecordOutboxPublishTransition, ShouldApplyOutboxPublishTransition,
                      IsPublishedOutcomeOverride, TypeOK, StoreTypeOK, OutboxRow
  <2>5. CASE /\ \A p \in Ops : p # m.op => outbox'[p] = outbox[p]
             /\ outbox'[m.op].status = st
             /\ \/ outbox[m.op].status \in {"pending", "retrying"}
                \/ st = "published" /\ outbox[m.op].status # "published"
    <3>1. PICK o \in Ops : o = m.op
      BY <2>1
    <3>2. \A p \in Ops : p # o => QueueState(p)' = QueueState(p)
      BY <2>5, <3>1 DEF QueueState
    <3>3. \/ QueueState(o)' = QueueState(o)
          \/ /\ QueueState(o) \in {"open", "given_up"} /\ QueueState(o)' = "delivered"
             /\ responses[o] > 0
          \/ QueueState(o) = "open" /\ QueueState(o)' = "given_up"
      BY <2>1, <2>2, <2>5, <3>1 DEF QueueState, OutboxStatuses
    <3>q. QED BY <3>2, <3>3
  <2>q. QED BY <1>0, <2>4, <2>5
<1>3. ASSUME NEW o \in Ops, Passage(o)
      PROVE  \/ Same
             \/ /\ \A p \in Ops : p # o => QueueState(p)' = QueueState(p)
                /\ QueueState(o) = "given_up" /\ QueueState(o)' = "open"
  <2>1. \A p \in Ops : p # o => outbox'[p] = outbox[p]
    BY <1>3 DEF Passage, DelayEnds, LeaseOverrun, OperatorRequeue, BecomesDue, RequeueOutboxMessage,
                TypeOK, StoreTypeOK
  <2>2. \/ outbox'[o].status = outbox[o].status
        \/ outbox[o].status \in {"retrying", "dead_lettered"} /\ outbox'[o].status = "pending"
    BY <1>3 DEF Passage, DelayEnds, LeaseOverrun, OperatorRequeue, BecomesDue, RequeueOutboxMessage,
                TypeOK, StoreTypeOK, OutboxRow
  <2>q. QED BY <2>1, <2>2 DEF QueueState
<1>4. CASE Request
  <2>1. ASSUME NEW o \in Ops, NEW act, CreateOperation(o, act)
        PROVE  /\ \A p \in Ops : p # o => QueueState(p)' = QueueState(p)
               /\ QueueState(o) = "absent" /\ QueueState(o)' = "open"
    <3>1. /\ \A p \in Ops : p # o => outbox'[p] = outbox[p]
          /\ outbox'[o].status = "pending"
      <4>1. outbox \in [Ops -> OutboxRow]
        BY DEF TypeOK, StoreTypeOK
      <4>2. outbox' = [outbox EXCEPT ![o] = [status |-> "pending", attempt |-> 0, due |-> TRUE,
                                            holder |-> NoWorker, activity |-> act]]
        BY <2>1 DEF CreateOperation
      <4>3. outbox'[o] = [status |-> "pending", attempt |-> 0, due |-> TRUE,
                          holder |-> NoWorker, activity |-> act]
        BY <4>1, <4>2
      <4>4. \A p \in Ops : p # o => outbox'[p] = outbox[p]
        BY <4>1, <4>2
      <4>q. QED BY <4>3, <4>4
    <3>2. outbox[o].status = "absent"
      BY <2>1 DEF CreateOperation, RowsInv, RowsTogether
    <3>3. QueueState(o) = "absent" /\ QueueState(o)' = "open"
      BY <3>1, <3>2 DEF QueueState
    <3>4. \A p \in Ops : p # o => QueueState(p)' = QueueState(p)
      BY <3>1 DEF QueueState
    <3>q. QED BY <3>3, <3>4
  <2>2. \/ UNCHANGED outbox
        \/ \E o \in Ops : \E act : CreateOperation(o, act)
    BY <1>4 DEF Request, ApiRequest, StartDeviceLifecycleOperation, StartDeviceDeactivationOperation,
                UnprovisionDevice, StartDeviceEntitlementSnapshot, DeleteDeviceAsUser
  <2>q. QED BY <1>0, <1>4, <2>1, <2>2 DEF Request
<1>5. ASSUME NEW w \in Workers,
             ProcessMessage(w) \/ CallFails(w) \/ CallAnswered(w) \/ ProjectionReturns(w) \/ WorkerCrash(w)
      PROVE  UNCHANGED outbox
  BY <1>5 DEF ProcessMessage, CreateOrGetInboxMessage, CreateInboxMessage, DeadLetterInvalid,
     MarkInboxMessage, ReadOperation, MarkProcessedWithoutProjection, ProjectResult,
     RecordInboxProcessTransition, ProjectResultRefused, StoreCallFails, CallFails, CallAnswered,
     ProjectionReturns, WorkerCrash, Crash, storeVars
<1>6. CASE UNCHANGED vars
  BY <1>0, <1>6 DEF vars, storeVars
<1>7. ASSUME NEW o \in Ops, Passage(o) PROVE UNCHANGED <<applied, responses>>
  BY <1>7 DEF Passage
<1>q. QED BY <1>0, <1>1, <1>2, <1>3, <1>4, <1>5, <1>6, <1>7 DEF Next, WorkerStep

\* The workers' memory of answers and the rows stay right.
LEMMA NextQueue == TypeOK /\ RowsInv /\ QueueInv /\ [Next]_vars => QueueInv'
<1> SUFFICES ASSUME TypeOK, RowsInv, QueueInv, [Next]_vars PROVE QueueInv'
  OBVIOUS
<1>1. OperationsHaveRows'
  <2>1. \A o \in Ops : outbox[o].status \in OutboxStatuses
    BY DEF TypeOK, StoreTypeOK, OutboxRow
  <2>2. \A o \in Ops : outbox[o].status # "absent" => QueueState(o) # "absent"
    BY <2>1 DEF QueueState, OutboxStatuses
  <2>3. \A o \in Ops : outbox'[o].status = "absent" => QueueState(o)' = "absent"
    BY DEF QueueState
  <2>4. \A o \in Ops : QueueState(o)' = "absent" => QueueState(o) = "absent"
    BY RowSteps
  <2>5. ASSUME NEW o \in Ops, operations'[o] # "absent", operations[o] = "absent"
        PROVE  outbox'[o].status # "absent"
    <3>1. CASE Request
      <4>1. \/ UNCHANGED operations
            \/ \E p \in Ops : \E act : CreateOperation(p, act)
        BY <3>1 DEF Request, ApiRequest, StartDeviceLifecycleOperation,
           StartDeviceDeactivationOperation, UnprovisionDevice, StartDeviceEntitlementSnapshot,
           DeleteDeviceAsUser
      <4>2. PICK act : CreateOperation(o, act)
        BY <2>5, <4>1 DEF CreateOperation, TypeOK, StoreTypeOK
      <4>3. outbox'[o] = [status |-> "pending", attempt |-> 0, due |-> TRUE,
                          holder |-> NoWorker, activity |-> act]
        BY <4>2 DEF CreateOperation, TypeOK, StoreTypeOK
      <4>q. QED BY <4>3
    <3>2. ASSUME NEW w \in Workers, ProcessMessage(w) PROVE operations'[o] = operations[o]
      BY <2>5, <3>2 DEF ProcessMessage, CreateOrGetInboxMessage, CreateInboxMessage, DeadLetterInvalid,
         MarkInboxMessage, ReadOperation, MarkProcessedWithoutProjection, ProjectResult,
         RecordInboxProcessTransition, ProjectResultRefused, StoreCallFails, storeVars, TypeOK, StoreTypeOK
    <3>3. ASSUME NEW w \in Workers, RecordOutcome(w) PROVE operations'[o] = operations[o]
      <4>1. current[w].op \in Ops /\ operations[current[w].op] # "absent"
        BY <3>3 DEF RecordOutcome, TypeOK, WorkerTypeOK, ClaimedMessage, RowsInv, HeldExist
      <4>q. QED BY <2>5, <3>3, <4>1 DEF RecordOutcome, RecordOutboxPublishTransition, TypeOK, StoreTypeOK
    <3>4. ASSUME NEW p \in Ops, Passage(p) PROVE operations'[o] = operations[o]
      BY <2>5, <3>4 DEF Passage, DelayEnds, LeaseOverrun, OperatorRequeue, BecomesDue,
         RequeueOutboxMessage, RowsInv, RowsTogether, TypeOK, StoreTypeOK
    <3>5. ASSUME NEW w \in Workers,
                 ClaimBatch(w) \/ CallFails(w) \/ CallAnswered(w) \/ ProjectionReturns(w) \/ WorkerCrash(w)
          PROVE  UNCHANGED operations
      BY <3>5 DEF ClaimBatch, ClaimOutboxMessagesReady, CallFails, CallAnswered, ProjectionReturns,
         WorkerCrash, Crash, storeVars
    <3>6. CASE UNCHANGED vars
      BY <2>5, <3>6 DEF vars, storeVars
    <3>q. QED BY <2>5, <3>1, <3>2, <3>3, <3>4, <3>5, <3>6 DEF Next, WorkerStep
  <2>q. QED BY <2>2, <2>3, <2>4, <2>5 DEF QueueInv, OperationsHaveRows
<1>2. PublishedAnswered'
  <2>0. ASSUME NEW v \in Workers,
               pc'[v] = pc[v] /\ current'[v] = current[v] /\ outcome'[v] = outcome[v]
        PROVE  pc'[v] = "publishing" \/ (pc'[v] = "record" /\ outcome'[v] = "ok")
                 => responses'[current'[v].op] > 0
    <3>1. pc[v] \in {"publishing", "record"} => /\ current[v].op \in Ops
                                                /\ responses[current[v].op] \in Nat
      BY DEF TypeOK, WorkerTypeOK, ClaimedMessage
    <3>q. QED BY <2>0, <3>1, ResponsesGrow DEF QueueInv, PublishedAnswered
  <2>1. ASSUME NEW w \in Workers, CallAnswered(w) PROVE PublishedAnswered'
    <3>1. PICK m \in claimed[w] : /\ Take(w, m) /\ pc' = [pc EXCEPT ![w] = "publishing"]
                                  /\ responses' = [responses EXCEPT ![m.op] = @ + 1]
                                  /\ UNCHANGED outcome
      BY <2>1 DEF CallAnswered
    <3>2. m.op \in Ops
      BY DEF TypeOK, WorkerTypeOK, ClaimedMessage
    <3>3. responses'[m.op] > 0 /\ current'[w] = m
      BY <3>1, <3>2 DEF Take, TypeOK, WorkerTypeOK
    <3>4. \A v \in Workers : v # w =>
            pc'[v] = pc[v] /\ current'[v] = current[v] /\ outcome'[v] = outcome[v]
      BY <3>1 DEF Take, TypeOK, WorkerTypeOK
    <3>q. QED BY <2>0, <3>3, <3>4 DEF PublishedAnswered
  <2>2. ASSUME NEW w \in Workers, CallFails(w) PROVE PublishedAnswered'
    <3>1. PICK m \in claimed[w] : Take(w, m) /\ PublishReturns(w, "transient")
      BY <2>2 DEF CallFails
    <3>2. pc'[w] = "record" /\ outcome'[w] = "transient"
      BY <3>1 DEF PublishReturns, TypeOK, WorkerTypeOK
    <3>3. \A v \in Workers : v # w =>
            pc'[v] = pc[v] /\ current'[v] = current[v] /\ outcome'[v] = outcome[v]
      BY <3>1 DEF Take, PublishReturns, TypeOK, WorkerTypeOK
    <3>q. QED BY <2>0, <3>2, <3>3 DEF PublishedAnswered
  <2>3. ASSUME NEW w \in Workers, ProjectionReturns(w) PROVE PublishedAnswered'
    <3>1. UNCHANGED <<current, responses>> /\ pc[w] = "publishing"
      BY <2>3 DEF ProjectionReturns
    <3>2. \A v \in Workers : v # w => pc'[v] = pc[v] /\ outcome'[v] = outcome[v]
      BY <2>3 DEF ProjectionReturns, PublishReturns, TypeOK, WorkerTypeOK
    <3>3. responses[current[w].op] > 0
      BY <3>1 DEF QueueInv, PublishedAnswered
    <3>q. QED BY <2>0, <3>1, <3>2, <3>3 DEF PublishedAnswered
  <2>4. ASSUME NEW w \in Workers, ClaimBatch(w) \/ RecordOutcome(w) \/ WorkerCrash(w)
        PROVE  PublishedAnswered'
    <3>1. pc'[w] \in {"idle", "batch"}
      BY <2>4 DEF ClaimBatch, RecordOutcome, WorkerCrash, Crash, Restart, TypeOK, WorkerTypeOK
    <3>2. \A v \in Workers : v # w =>
            pc'[v] = pc[v] /\ current'[v] = current[v] /\ outcome'[v] = outcome[v]
      BY <2>4 DEF ClaimBatch, RecordOutcome, WorkerCrash, Crash, Restart, TypeOK, WorkerTypeOK
    <3>q. QED BY <2>0, <3>1, <3>2 DEF PublishedAnswered
  <2>5. CASE UNCHANGED <<pc, current, outcome>>
    BY <2>0, <2>5 DEF PublishedAnswered
  <2>q. QED BY <2>1, <2>2, <2>3, <2>4, <2>5
     DEF Next, WorkerStep, Passage, DelayEnds, LeaseOverrun, OperatorRequeue, Request, vars, workerVars
<1>q. QED BY <1>1, <1>2 DEF QueueInv

\* Commands reach Video Cloud one at a time, and only commands of the outbox.
LEMMA ReceivedSteps ==
  ASSUME TypeOK, RowsInv, QueueInv, [Next]_vars
  PROVE  LET received == {o \in Ops : responses[o] > 0 \/ applied[o]} IN
         \/ received' = received
         \/ \E o \in Ops : QueueState(o) # "absent" /\ received' = received \cup {o}
<1> DEFINE received == {o \in Ops : responses[o] > 0 \/ applied[o]}
<1>1. CASE UNCHANGED <<applied, responses>>
  BY <1>1
<1>2. ASSUME NEW w \in Workers, CallFails(w) \/ CallAnswered(w)
      PROVE  \/ received' = received
             \/ \E o \in Ops : QueueState(o) # "absent" /\ received' = received \cup {o}
  <2>1. PICK m \in claimed[w] :
          /\ \A o \in Ops \ {m.op} : responses'[o] = responses[o] /\ applied'[o] = applied[o]
    BY <1>2 DEF CallFails, CallAnswered, TypeOK
  <2>2. m.op \in Ops /\ operations[m.op] # "absent"
    BY DEF TypeOK, WorkerTypeOK, ClaimedMessage, RowsInv, HeldExist
  <2>3. QueueState(m.op) # "absent"
    BY <2>2 DEF QueueInv, OperationsHaveRows, QueueState, TypeOK, StoreTypeOK, OutboxRow, OutboxStatuses
  <2>4. m.op \in received => m.op \in received'
    BY <2>2, AppliedStays, ResponsesGrow DEF TypeOK
  <2>5. \A o \in Ops \ {m.op} : o \in received' <=> o \in received
    BY <2>1
  <2>6. received' = received \/ received' = received \cup {m.op}
    BY <2>2, <2>4, <2>5
  <2>q. QED BY <2>2, <2>3, <2>6
<1>q. QED BY <1>1, <1>2
   DEF Next, WorkerStep, ProjectionReturns, WorkerCrash, Passage, Request, vars

\* The device outbox with the direct publisher implements DeliveryQueue: for any
\* number of workers a command is published only after Video Cloud answered it,
\* and neither a late outcome nor a requeue takes a publication back.
THEOREM DirectImplementsQueue == Spec => ImplementsQueue
<1>1. Init => Queue!Init
  BY DEF Init, StoreInit, Queue!Init, QueueState
<1>2. ASSUME TypeOK, RowsInv, QueueInv, [Next]_vars PROVE [Queue!Next]_(Queue!vars)
  <2> DEFINE st == [o \in Ops |-> QueueState(o)]
             rc == {o \in Ops : responses[o] > 0 \/ applied[o]}
  <2>1. CASE \A o \in Ops : QueueState(o)' = QueueState(o)
    <3>1. st' = st
      BY <2>1
    <3>2. CASE rc' = rc
      BY <3>1, <3>2 DEF Queue!vars
    <3>3. ASSUME NEW o \in Ops, QueueState(o) # "absent", rc' = rc \cup {o}
          PROVE  Queue!Next
      BY <3>1, <3>3 DEF Queue!Next, Queue!Arrive
    <3>q. QED BY <1>2, <3>2, <3>3, ReceivedSteps
  <2>2. ASSUME UNCHANGED <<applied, responses>>, NEW o \in Ops,
               \A p \in Ops : p # o => QueueState(p)' = QueueState(p),
               \/ QueueState(o) = "absent" /\ QueueState(o)' = "open"
               \/ /\ QueueState(o) \in {"open", "given_up"} /\ QueueState(o)' = "delivered"
                  /\ responses[o] > 0
               \/ QueueState(o) = "open" /\ QueueState(o)' = "given_up"
               \/ QueueState(o) = "given_up" /\ QueueState(o)' = "open"
        PROVE  Queue!Next
    <3>1. rc' = rc
      BY <2>2
    <3>2. st' = [st EXCEPT ![o] = QueueState(o)']
      BY <2>2
    <3>3. CASE QueueState(o) = "absent" /\ QueueState(o)' = "open"
      BY <3>1, <3>2, <3>3 DEF Queue!Next, Queue!Enqueue, Queue!Move
    <3>4. CASE /\ QueueState(o) \in {"open", "given_up"} /\ QueueState(o)' = "delivered"
               /\ responses[o] > 0
      BY <3>1, <3>2, <3>4 DEF Queue!Next, Queue!Confirm, Queue!Move
    <3>5. CASE QueueState(o) = "open" /\ QueueState(o)' = "given_up"
      BY <3>1, <3>2, <3>5 DEF Queue!Next, Queue!GiveUp, Queue!Move
    <3>6. CASE QueueState(o) = "given_up" /\ QueueState(o)' = "open"
      BY <3>1, <3>2, <3>6 DEF Queue!Next, Queue!Reopen, Queue!Move
    <3>q. QED BY <2>2, <3>3, <3>4, <3>5, <3>6
  <2>q. QED BY <1>2, <2>1, <2>2, RowSteps
<1>q. QED BY <1>1, <1>2, InitRows, NextRows, InitQueue, NextQueue, TypeCorrect, PTL
   DEF Spec, ImplementsQueue, Queue!Spec

-----------------------------------------------------------------------------
(* The device, and a completed operation.                                  *)

\* Only the transaction that also projects the result completes an operation, and
\* it fails as a whole without the row of the device.
THEOREM DeletedDevicesCompleteNothing == Spec => DeletedDeviceCompletesNothing
<1>1. ASSUME TypeOK, RunningMatches, [Next]_vars, NEW o \in Ops,
             HasProjection(o), ~device[DeviceOf[o]].row,
             ~IsCompletedLifecycleOperation(o), IsCompletedLifecycleOperation(o)'
      PROVE  FALSE
  <2>1. operations'[o] \in {"succeeded", "failed"} /\ operations'[o] # operations[o]
    BY <1>1 DEF IsCompletedLifecycleOperation
  <2>2. PICK w \in Workers : ProjectResult(w) /\ o = OpOf[result[w].id]
    BY <1>1, <2>1, CompletesOnlyByProjection
  <2>q. QED BY <1>1, <2>2 DEF ProjectResult, RecordInboxProcessTransition, ProjectionFails
<1>2. TypeOK /\ RunningMatches /\ [Next]_vars =>
        [\A o \in Ops : /\ HasProjection(o) /\ ~device[DeviceOf[o]].row
                        /\ ~IsCompletedLifecycleOperation(o)
                        => ~IsCompletedLifecycleOperation(o)']_vars
  BY <1>1
<1>q. QED BY <1>2, InitRunning, NextRunning, TypeCorrect, PTL DEF Spec, DeletedDeviceCompletesNothing

\* A result is of an operation that exists, on its way and in the inbox.
ResultsExist ==
  /\ \A a \in Agents : step[a] # "none" => operations[OpOf[result[a].id]] # "absent"
  /\ \A r \in Results : inbox[r].status # "absent" => operations[OpOf[r]] # "absent"

\* A worker that publishes runs processMessage on the result of its command.
WorkerPublishes ==
  \A w \in Workers :
    /\ pc[w] = "publishing" <=> step[w] # "none"
    /\ pc[w] = "publishing" => OpOf[result[w].id] = current[w].op

\* A worker's lease covers whatever it works on.
LeaseCovers == \A w \in Workers : \A o \in HeldBy(w) : outbox[o].holder = w /\ ~outbox[o].due

\* A worker works on a message once, and records a publication for an operation that
\* its result has completed.
CurrentIsOk ==
  \A w \in Workers : pc[w] \in {"publishing", "record"} =>
    /\ \A m \in claimed[w] : m.op # current[w].op
    /\ IsCompletedLifecycleOperation(current[w].op) =>
         \/ pc[w] = "publishing" /\ step[w] = "processed"
         \/ pc[w] = "record" /\ outcome[w] = "ok"

\* No completed operation waits to be published again.
ClaimedIsOpen == \A w \in Workers : \A m \in claimed[w] : ~IsCompletedLifecycleOperation(m.op)

\* The publication of a completed operation is recorded, or is about to be.
CompletedIsPublished ==
  \A o \in Ops : IsCompletedLifecycleOperation(o) =>
    \/ outbox[o].status = "published"
    \/ \E w \in Workers : pc[w] \in {"publishing", "record"} /\ current[w].op = o

\* What holds before the first crash, overrun or requeue.
LeasesHold == LeaseCovers /\ CurrentIsOk /\ ClaimedIsOpen /\ CompletedIsPublished

\* A batch holds a message once.
BatchesAreSets == \A w \in Workers : \A m, n \in claimed[w] : m.op = n.op => m = n

WithoutFaults == faults = 0 => LeasesHold

\* A step of processMessage keeps its agent's message.
LEMMA ProcessResult ==
  ASSUME TypeOK, NEW w \in Workers, ProcessMessage(w)
  PROVE  /\ step[w] \in Running /\ result' = result /\ step'[w] # "none"
         /\ \A a \in Agents \ {w} : step'[a] = step[a]
<1>1. w \in Agents
  BY ResultAssumption
<1>q. QED BY <1>1 DEF ProcessMessage, CreateOrGetInboxMessage, DeadLetterInvalid, ReadOperation,
     MarkProcessedWithoutProjection, ProjectResult, ProjectResultRefused, StoreCallFails, Goto, Running,
     TypeOK, InboxTypeOK

\* At first there is no result.
LEMMA InitResults == Init => ResultsExist /\ WorkerPublishes /\ BatchesAreSets /\ WithoutFaults
<1> SUFFICES ASSUME Init PROVE ResultsExist /\ WorkerPublishes /\ BatchesAreSets /\ LeasesHold
  BY DEF WithoutFaults
<1> USE ResultAssumption DEF Init, StoreInit, WorkerInit, InboxInit
<1>1. ResultsExist /\ WorkerPublishes /\ BatchesAreSets
  BY DEF ResultsExist, WorkerPublishes, BatchesAreSets
<1>2. LeasesHold
  BY DEF LeasesHold, LeaseCovers, CurrentIsOk, ClaimedIsOpen, CompletedIsPublished, HeldBy,
         IsCompletedLifecycleOperation
<1>q. QED BY <1>1, <1>2

\* A result comes from a command, and a command from an operation.
LEMMA NextResults ==
  TypeOK /\ RowsInv /\ RunningMatches /\ ResultsExist /\ [Next]_vars => ResultsExist'
<1> SUFFICES ASSUME TypeOK, RowsInv, RunningMatches, ResultsExist, [Next]_vars PROVE ResultsExist'
  OBVIOUS
<1>1. ASSUME NEW r \in Results, operations[OpOf[r]] # "absent" PROVE operations'[OpOf[r]] # "absent"
  BY <1>1, StoreAssumption, OperationsStay
<1>2. ASSUME NEW a \in Agents, step'[a] # "none" PROVE operations'[OpOf[result'[a].id]] # "absent"
  <2>1. CASE step[a] # "none" /\ result'[a] = result[a]
    <3>1. result[a].id \in Results
      BY <2>1 DEF TypeOK, InboxTypeOK, ResultMessage
    <3>q. QED BY <1>1, <2>1, <3>1 DEF ResultsExist
  <2>2. ASSUME NEW w \in Workers, CallAnswered(w) PROVE operations'[OpOf[result'[a].id]] # "absent"
    <3>1. PICK m \in claimed[w], verdict \in Verdicts :
            BeginProcess(w, [id |-> ResultOf[m.op], verdict |-> verdict, at |-> responses[m.op] + 1])
      BY <2>2 DEF CallAnswered
    <3>2. m.op \in Ops /\ operations[m.op] # "absent"
      BY DEF TypeOK, WorkerTypeOK, ClaimedMessage, RowsInv, HeldExist
    <3>3. CASE a = w
      BY <3>1, <3>2, <3>3, ResultAssumption, OperationsStay DEF BeginProcess, TypeOK, InboxTypeOK
    <3>4. CASE a # w
      BY <1>2, <2>1, <3>1, <3>4 DEF BeginProcess, TypeOK, InboxTypeOK
    <3>q. QED BY <3>3, <3>4
  <2>3. ASSUME NEW w \in Workers, ProcessMessage(w) PROVE step[a] # "none" /\ result'[a] = result[a]
    BY <1>2, <2>3, ProcessResult DEF Running
  <2>4. ASSUME NEW w \in Workers, EndProcess(w) PROVE step[a] # "none" /\ result'[a] = result[a]
    BY <1>2, <2>4 DEF EndProcess, TypeOK, InboxTypeOK
  <2>5. CASE UNCHANGED inboxVars
    BY <1>2, <2>1, <2>5 DEF inboxVars
  <2>q. QED BY <2>1, <2>2, <2>3, <2>4, <2>5
     DEF Next, WorkerStep, CallFails, ProjectionReturns, WorkerCrash, Passage, Request, vars, inboxVars
<1>3. ASSUME NEW r \in Results, inbox'[r].status # "absent" PROVE operations'[OpOf[r]] # "absent"
  <2>1. CASE inbox[r].status # "absent"
    BY <1>1, <2>1 DEF ResultsExist
  <2>2. CASE inbox[r].status = "absent"
    <3>1. PICK w \in Workers : ProcessMessage(w)
      BY <1>3, <2>2, InboxUnchanged
    <3>2. w \in Agents /\ step[w] # "none"
      BY <3>1, ProcessResult, ResultAssumption DEF Running
    <3>3. r = result[w].id
      BY <1>3, <2>2, <3>1, <3>2, ProcessInbox DEF TypeOK, StoreTypeOK
    <3>q. QED BY <1>1, <3>2, <3>3 DEF ResultsExist
  <2>q. QED BY <2>1, <2>2
<1>q. QED BY <1>2, <1>3 DEF ResultsExist

\* The activity a command was created for stays with its row.
LEMMA ActivityStays ==
  ASSUME TypeOK, [Next]_vars, NEW o \in Ops, operations[o] # "absent"
  PROVE  outbox'[o].activity = outbox[o].activity
<1> USE DEF TypeOK, StoreTypeOK, OutboxRow
<1>0. CASE UNCHANGED outbox
  BY <1>0
<1>1. ASSUME NEW w \in Workers, ProcessMessage(w) PROVE UNCHANGED outbox
  BY <1>1 DEF ProcessMessage, CreateOrGetInboxMessage, CreateInboxMessage, DeadLetterInvalid,
     MarkInboxMessage, ReadOperation, MarkProcessedWithoutProjection, ProjectResult,
     RecordInboxProcessTransition, ProjectResultRefused, StoreCallFails, storeVars
<1>2. ASSUME NEW w \in Workers, RecordOutcome(w) PROVE outbox'[o].activity = outbox[o].activity
  BY <1>2 DEF RecordOutcome, RecordOutboxPublishTransition
<1>3. ASSUME NEW p \in Ops, Passage(p) PROVE outbox'[o].activity = outbox[o].activity
  BY <1>3 DEF Passage, DelayEnds, LeaseOverrun, OperatorRequeue, BecomesDue, RequeueOutboxMessage
<1>4. CASE Request
  <2>1. ASSUME NEW p \in Ops, NEW activity, CreateOperation(p, activity) PROVE outbox'[o] = outbox[o]
    BY <2>1 DEF CreateOperation
  <2>q. QED BY <1>0, <1>4, <2>1
     DEF Request, ApiRequest, StartDeviceLifecycleOperation, StartDeviceDeactivationOperation,
     UnprovisionDevice, StartDeviceEntitlementSnapshot, DeleteDeviceAsUser
<1>5. ASSUME NEW w \in Workers, ClaimBatch(w) PROVE outbox'[o].activity = outbox[o].activity
  <2>1. outbox'[o] = outbox[o] \/ outbox'[o] = [outbox[o] EXCEPT !.due = FALSE, !.holder = w]
    BY <1>5 DEF ClaimBatch, ClaimOutboxMessagesReady
  <2>2. outbox[o] \in OutboxRow
    OBVIOUS
  <2>q. QED BY <2>1, <2>2
<1>6. ASSUME NEW w \in Workers,
             CallFails(w) \/ CallAnswered(w) \/ ProjectionReturns(w) \/ WorkerCrash(w)
      PROVE  UNCHANGED outbox
  BY <1>6 DEF CallFails, CallAnswered, ProjectionReturns, WorkerCrash, Crash, storeVars
<1>7. CASE UNCHANGED vars
  BY <1>7 DEF vars, storeVars
<1>q. QED BY <1>0, <1>1, <1>2, <1>3, <1>4, <1>5, <1>6, <1>7 DEF Next, WorkerStep

\* How a step changes what a device shows: the request of a new activation, the
\* deletion of the row, or the projection of a result of the current activity.
LEMMA DeviceSteps ==
  ASSUME TypeOK, RowsInv, RunningMatches, [Next]_vars, NEW d \in Devices
  PROVE  \/ device'[d].activation \in {"none", "pending"}
         \/ device'[d].activation = device[d].activation /\ device'[d].activity = device[d].activity
         \/ \E w \in Workers : LET o == OpOf[result[w].id] IN
              /\ result[w].id \in Results /\ DeviceOf[o] = d /\ operations[o] # "absent"
              /\ outbox[o].activity = device[d].activity /\ device'[d].activity = device[d].activity
              /\ inbox'[result[w].id].status = "processed"
              /\ inbox'[result[w].id].verdict = result[w].verdict
              /\ \/ device'[d].activation = "activated" /\ TypeOf[o] = "provision"
                                                        /\ result[w].verdict = "succeeded"
                 \/ device'[d].activation = "failed" /\ TypeOf[o] = "provision"
                                                     /\ result[w].verdict = "failed"
                 \/ device'[d].activation = "deactivated" /\ TypeOf[o] = "deactivate"
                                                          /\ result[w].verdict = "succeeded"
<1> USE DEF TypeOK, StoreTypeOK
<1>0. CASE UNCHANGED device
  BY <1>0
<1>1. ASSUME NEW w \in Workers, ProjectResult(w), device'[d] # device[d],
             device'[d].activation # device[d].activation
      PROVE  LET o == OpOf[result[w].id] IN
              /\ result[w].id \in Results /\ DeviceOf[o] = d /\ operations[o] # "absent"
              /\ outbox[o].activity = device[d].activity /\ device'[d].activity = device[d].activity
              /\ inbox'[result[w].id].status = "processed"
              /\ inbox'[result[w].id].verdict = result[w].verdict
              /\ \/ device'[d].activation = "activated" /\ TypeOf[o] = "provision"
                                                        /\ result[w].verdict = "succeeded"
                 \/ device'[d].activation = "failed" /\ TypeOf[o] = "provision"
                                                     /\ result[w].verdict = "failed"
                 \/ device'[d].activation = "deactivated" /\ TypeOf[o] = "deactivate"
                                                          /\ result[w].verdict = "succeeded"
  <2> DEFINE o == OpOf[result[w].id]
  <2>1. w \in Agents /\ result[w].id \in Results /\ o \in Ops /\ DeviceOf[o] \in Devices
    BY <1>1, ResultAssumption, StoreAssumption DEF ProjectResult, InboxTypeOK, ResultMessage
  <2>2. result[w].verdict \in Verdicts /\ inbox[result[w].id].verdict = result[w].verdict
    BY <1>1, <2>1 DEF ProjectResult, RunningMatches, InboxTypeOK
  <2>3. inbox'[result[w].id].status = "processed" /\ inbox'[result[w].id].verdict = result[w].verdict
    BY <1>1, <2>1, <2>2 DEF ProjectResult, RecordInboxProcessTransition, InboxRow
  <2>4. /\ operations[o] # "absent" /\ ~ProjectionFails(o)
        /\ device' = [device EXCEPT ![DeviceOf[o]] = ProjectedDevice(o, result[w].verdict)]
    BY <1>1 DEF ProjectResult, RecordInboxProcessTransition
  <2>5. DeviceOf[o] = d /\ device'[d] = ProjectedDevice(o, result[w].verdict)
    BY <1>1, <2>1, <2>4
  <2>6. HasProjection(o) /\ ~StaleActivity(o)
    BY <1>1, <2>5 DEF ProjectedDevice
  <2>7. outbox[o].activity = device[d].activity
    BY <2>1, <2>4, <2>5, <2>6 DEF RowsInv, RowsTogether, StaleActivity
  <2>8. device[d] \in DeviceRow
    BY <2>1
  <2>9. /\ device'[d].activity = device[d].activity
        /\ device'[d].activation =
             CASE result[w].verdict = "succeeded" /\ TypeOf[o] = "provision" -> "activated"
               [] result[w].verdict = "succeeded" /\ TypeOf[o] = "deactivate" -> "deactivated"
               [] result[w].verdict = "failed" /\ TypeOf[o] = "provision" -> "failed"
               [] OTHER -> device[d].activation
    BY <2>5, <2>6, <2>8 DEF ProjectedDevice, DeviceRow
  <2>10. TypeOf[o] \in {"provision", "deactivate"}
    BY <2>6 DEF HasProjection
  <2>q. QED BY <1>1, <2>1, <2>2, <2>3, <2>4, <2>5, <2>7, <2>9, <2>10 DEF Verdicts
<1>2. ASSUME NEW w \in Workers, ProjectResult(w) PROVE device'[d].activity = device[d].activity
  <2>1. result[w].id \in Results /\ OpOf[result[w].id] \in Ops /\ DeviceOf[OpOf[result[w].id]] \in Devices
    BY <1>2, ResultAssumption, StoreAssumption DEF ProjectResult, InboxTypeOK, ResultMessage
  <2>q. QED BY <1>2, <2>1 DEF ProjectResult, RecordInboxProcessTransition, ProjectedDevice, DeviceRow
<1>3. ASSUME NEW w \in Workers, ProcessMessage(w), ~ProjectResult(w) PROVE UNCHANGED device
  BY <1>3 DEF ProcessMessage, CreateOrGetInboxMessage, CreateInboxMessage, DeadLetterInvalid,
     MarkInboxMessage, ReadOperation, MarkProcessedWithoutProjection, ProjectResultRefused,
     StoreCallFails, storeVars
<1>4. ASSUME NEW w \in Workers,
             \/ ClaimBatch(w) \/ CallFails(w) \/ CallAnswered(w) \/ ProjectionReturns(w)
             \/ WorkerCrash(w) \/ RecordOutcome(w)
      PROVE  UNCHANGED device
  BY <1>4 DEF ClaimBatch, ClaimOutboxMessagesReady, CallFails, CallAnswered, ProjectionReturns,
     WorkerCrash, Crash, RecordOutcome, RecordOutboxPublishTransition, storeVars
<1>5. ASSUME NEW o \in Ops, Passage(o) PROVE UNCHANGED device
  BY <1>5 DEF Passage, DelayEnds, LeaseOverrun, OperatorRequeue, BecomesDue, RequeueOutboxMessage
<1>6. CASE Request
  <2>1. ASSUME NEW o \in Ops, StartDeviceLifecycleOperation(o) \/ UnprovisionDevice(o)
        PROVE  device'[d].activation \in {"none", "pending"} \/ device'[d] = device[d]
    BY <2>1, StoreAssumption DEF StartDeviceLifecycleOperation, UnprovisionDevice, DeviceRow
  <2>2. ASSUME NEW e \in Devices, DeleteDeviceAsUser(e)
        PROVE  device'[d].activation = device[d].activation /\ device'[d].activity = device[d].activity
    BY <2>2 DEF DeleteDeviceAsUser, DeviceRow
  <2>q. QED BY <1>0, <1>6, <2>1, <2>2
     DEF Request, ApiRequest, StartDeviceDeactivationOperation, StartDeviceEntitlementSnapshot
<1>7. CASE UNCHANGED vars
  BY <1>7 DEF vars, storeVars
<1>q. QED BY <1>0, <1>1, <1>2, <1>3, <1>4, <1>5, <1>6, <1>7 DEF Next, WorkerStep

\* A processed result stays, with the activity of its command.
LEMMA ProcessedStays ==
  ASSUME TypeOK, RunningMatches, ResultsExist, [Next]_vars,
         NEW d \in Devices, NEW type, NEW verdict, ProcessedFor(d, type, verdict),
         device'[d].activity = device[d].activity
  PROVE  ProcessedFor(d, type, verdict)'
<1>1. PICK r \in Results : LET o == OpOf[r] IN
        /\ DeviceOf[o] = d /\ TypeOf[o] = type
        /\ outbox[o].activity = device[d].activity
        /\ inbox[r].status = "processed" /\ inbox[r].verdict = verdict
  BY DEF ProcessedFor
<1>2. OpOf[r] \in Ops /\ operations[OpOf[r]] # "absent"
  BY <1>1, StoreAssumption DEF ResultsExist
<1>3. inbox'[r].status = "processed" /\ inbox'[r].verdict = verdict
  BY <1>1, InboxRowsStay
<1>4. outbox'[OpOf[r]].activity = device'[d].activity
  BY <1>1, <1>2, ActivityStays
<1>q. QED BY <1>1, <1>3, <1>4 DEF ProcessedFor

\* What a device shows is the processed result of an operation of the activity it is
\* in, whatever late results of earlier activities arrive (ExpectedActivityID).
THEOREM ProjectionIsCurrent == Spec => []ProjectionOfCurrentActivity
<1>1. Init => ProjectionOfCurrentActivity
  BY DEF Init, StoreInit, ProjectionOfCurrentActivity
<1>2. ASSUME TypeOK, RowsInv, RunningMatches, ResultsExist, ProjectionOfCurrentActivity, [Next]_vars
      PROVE  ProjectionOfCurrentActivity'
  <2> SUFFICES ASSUME NEW d \in Devices
               PROVE  /\ device'[d].activation = "activated" => ProcessedFor(d, "provision", "succeeded")'
                      /\ device'[d].activation = "failed" => ProcessedFor(d, "provision", "failed")'
                      /\ device'[d].activation = "deactivated" => ProcessedFor(d, "deactivate", "succeeded")'
    BY DEF ProjectionOfCurrentActivity
  <2>1. CASE device'[d].activation \in {"none", "pending"}
    BY <2>1
  <2>2. CASE device'[d].activation = device[d].activation /\ device'[d].activity = device[d].activity
    BY <1>2, <2>2, ProcessedStays DEF ProjectionOfCurrentActivity
  <2>3. ASSUME NEW r \in Results, NEW verdict, DeviceOf[OpOf[r]] = d, operations[OpOf[r]] # "absent",
              outbox[OpOf[r]].activity = device[d].activity, device'[d].activity = device[d].activity,
              inbox'[r].status = "processed", inbox'[r].verdict = verdict
        PROVE ProcessedFor(d, TypeOf[OpOf[r]], verdict)'
    BY <1>2, <2>3, ActivityStays, StoreAssumption DEF ProcessedFor
  <2>q. QED BY <1>2, <2>1, <2>2, <2>3, DeviceSteps
<1>3. TypeOK /\ RowsInv /\ RunningMatches /\ ResultsExist /\ ProjectionOfCurrentActivity /\ [Next]_vars
        => ProjectionOfCurrentActivity'
  BY <1>2
<1>q. QED BY <1>1, <1>3, InitRunning, NextRunning, InitRows, NextRows, InitResults, NextResults,
             TypeCorrect, PTL DEF Spec

\* Publish and processMessage begin and end together.
LEMMA NextPublishes ==
  TypeOK /\ WorkerPublishes /\ [Next]_vars => WorkerPublishes'
<1> SUFFICES ASSUME TypeOK, WorkerPublishes, [Next]_vars, NEW w \in Workers
             PROVE  /\ pc'[w] = "publishing" <=> step'[w] # "none"
                    /\ pc'[w] = "publishing" => OpOf[result'[w].id] = current'[w].op
  BY DEF WorkerPublishes
<1>0. w \in Agents
  BY ResultAssumption
<1> USE <1>0 DEF TypeOK, WorkerTypeOK, InboxTypeOK, WorkerPublishes
<1>1. ASSUME NEW v \in Workers, ProcessMessage(v), UNCHANGED workerVars
      PROVE  /\ pc'[w] = "publishing" <=> step'[w] # "none"
             /\ pc'[w] = "publishing" => OpOf[result'[w].id] = current'[w].op
  BY <1>1, ProcessResult DEF workerVars, Running
<1>2. ASSUME NEW v \in Workers, CallAnswered(v)
      PROVE  /\ pc'[w] = "publishing" <=> step'[w] # "none"
             /\ pc'[w] = "publishing" => OpOf[result'[w].id] = current'[w].op
  <2>1. PICK m \in claimed[v], verdict \in Verdicts :
          /\ Take(v, m) /\ pc' = [pc EXCEPT ![v] = "publishing"]
          /\ BeginProcess(v, [id |-> ResultOf[m.op], verdict |-> verdict, at |-> responses[m.op] + 1])
    BY <1>2 DEF CallAnswered
  <2>2. m.op \in Ops /\ v \in Agents
    BY ResultAssumption DEF ClaimedMessage
  <2>3. CASE v = w
    BY <2>1, <2>2, <2>3, ResultAssumption DEF Take, BeginProcess
  <2>4. CASE v # w
    BY <2>1, <2>2, <2>4 DEF Take, BeginProcess
  <2>q. QED BY <2>3, <2>4
<1>3. ASSUME NEW v \in Workers,
             \/ (ClaimBatch(v) \/ RecordOutcome(v)) /\ UNCHANGED inboxVars
             \/ CallFails(v)
      PROVE  /\ pc'[w] = "publishing" <=> step'[w] # "none"
             /\ pc'[w] = "publishing" => OpOf[result'[w].id] = current'[w].op
  BY <1>3 DEF ClaimBatch, RecordOutcome, CallFails, Take, PublishReturns, inboxVars
<1>4. ASSUME NEW v \in Workers, ProjectionReturns(v) \/ WorkerCrash(v)
      PROVE  /\ pc'[w] = "publishing" <=> step'[w] # "none"
             /\ pc'[w] = "publishing" => OpOf[result'[w].id] = current'[w].op
  BY <1>4 DEF ProjectionReturns, WorkerCrash, Crash, Restart, EndProcess, PublishReturns
<1>5. CASE UNCHANGED <<pc, current, inboxVars>>
  BY <1>5 DEF inboxVars
<1>q. QED BY <1>1, <1>2, <1>3, <1>4, <1>5
   DEF Next, WorkerStep, Passage, DelayEnds, LeaseOverrun, OperatorRequeue, Request, vars, workerVars

\* A claim returns a row once, and taking a message out keeps the rest.
LEMMA NextBatches == TypeOK /\ BatchesAreSets /\ [Next]_vars => BatchesAreSets'
<1> SUFFICES ASSUME TypeOK, BatchesAreSets, [Next]_vars PROVE BatchesAreSets'
  OBVIOUS
<1> USE DEF TypeOK, WorkerTypeOK, BatchesAreSets
<1>1. ASSUME NEW v \in Workers, ClaimBatch(v) PROVE BatchesAreSets'
  BY <1>1 DEF ClaimBatch
<1>2. ASSUME NEW v \in Workers, NEW m \in claimed[v], Take(v, m) PROVE BatchesAreSets'
  BY <1>2 DEF Take
<1>3. ASSUME NEW v \in Workers, WorkerCrash(v) PROVE BatchesAreSets'
  BY <1>3 DEF WorkerCrash, Crash, Restart
<1>4. CASE UNCHANGED claimed
  BY <1>4
<1>q. QED BY <1>1, <1>2, <1>3, <1>4
   DEF Next, WorkerStep, CallFails, CallAnswered, ProjectionReturns, RecordOutcome, Passage, DelayEnds,
   LeaseOverrun, OperatorRequeue, Request, vars, workerVars

\* The claim of a batch: what is due is held by nobody and not completed.
LEMMA ClaimLeases ==
  ASSUME TypeOK, LeasesHold, NEW v \in Workers, ClaimBatch(v), UNCHANGED inboxVars
  PROVE  LeasesHold'
<1> USE DEF TypeOK, StoreTypeOK, WorkerTypeOK, LeasesHold
<1>1. PICK batch \in SUBSET ReadyMessages :
        /\ ClaimOutboxMessagesReady(v, batch)
        /\ claimed' = [claimed EXCEPT ![v] =
             {[op |-> o, status |-> outbox[o].status, attempt |-> outbox[o].attempt] : o \in batch}]
  BY DEF ClaimBatch
<1>2. /\ pc[v] = "idle" /\ pc' = [pc EXCEPT ![v] = "batch"] /\ UNCHANGED <<current, outcome, inboxVars>>
      /\ operations' = operations /\ batch \subseteq Ops
      /\ \A o \in batch : outbox[o].due /\ outbox[o].status \in {"pending", "retrying"}
  BY <1>1 DEF ClaimBatch, ClaimOutboxMessagesReady, ReadyMessages
<1>3. \A o \in batch : outbox'[o].holder = v /\ ~outbox'[o].due /\ outbox'[o].status = outbox[o].status
  BY <1>1, <1>2 DEF ClaimOutboxMessagesReady, OutboxRow
<1>4. \A o \in Ops \ batch : outbox'[o] = outbox[o]
  BY <1>1, <1>2 DEF ClaimOutboxMessagesReady
<1>5. \A w \in Workers, o \in batch : o \notin HeldBy(w)
  BY <1>2 DEF LeaseCovers
<1>6. \A o \in batch : ~IsCompletedLifecycleOperation(o)
  <2> SUFFICES ASSUME NEW o \in batch, IsCompletedLifecycleOperation(o) PROVE FALSE
    OBVIOUS
  <2>1. PICK w \in Workers : pc[w] \in {"publishing", "record"} /\ current[w].op = o
    BY <1>2 DEF CompletedIsPublished
  <2>q. QED BY <1>5, <2>1 DEF HeldBy
<1>7. HeldBy(v)' \subseteq batch
  <2>1. pc'[v] = "batch" /\ \A m \in claimed'[v] : m.op \in batch
    BY <1>1, <1>2
  <2>2. HeldBy(v)' = {m.op : m \in claimed'[v]}
    BY <2>1 DEF HeldBy
  <2>q. QED BY <2>1, <2>2
<1>8. ASSUME NEW w \in Workers, w # v PROVE HeldBy(w)' = HeldBy(w) /\ HeldBy(w) \subseteq Ops \ batch
  <2>1. HeldBy(w) \subseteq Ops
    BY DEF HeldBy, ClaimedMessage
  <2>q. QED BY <1>1, <1>2, <1>5, <1>8, <2>1 DEF HeldBy
<1>9. LeaseCovers'
  BY <1>3, <1>4, <1>7, <1>8 DEF LeaseCovers
<1>10. CurrentIsOk'
  BY <1>1, <1>2 DEF CurrentIsOk, IsCompletedLifecycleOperation, inboxVars
<1>11. ClaimedIsOpen'
  BY <1>1, <1>2, <1>6 DEF ClaimedIsOpen, IsCompletedLifecycleOperation
<1>12. CompletedIsPublished'
  <2>1. \A o \in Ops : outbox'[o].status = outbox[o].status
    BY <1>3, <1>4
  <2>2. \A w \in Workers : pc[w] \in {"publishing", "record"} =>
           pc'[w] \in {"publishing", "record"} /\ current'[w] = current[w]
    BY <1>2
  <2>q. QED BY <1>2, <2>1, <2>2 DEF CompletedIsPublished, IsCompletedLifecycleOperation
<1>q. QED BY <1>9, <1>10, <1>11, <1>12

\* A message is taken from the batch into Publish: it is held as before.
LEMMA TakeLeases ==
  ASSUME TypeOK, LeasesHold, BatchesAreSets, NEW v \in Workers, NEW m \in claimed[v], Take(v, m),
         pc' \in {[pc EXCEPT ![v] = "publishing"], [pc EXCEPT ![v] = "record"]},
         UNCHANGED storeVars, \A w \in Workers \ {v} : step'[w] = step[w] /\ outcome'[w] = outcome[w]
  PROVE  LeasesHold'
<1> USE DEF TypeOK, StoreTypeOK, WorkerTypeOK, LeasesHold, Take, storeVars
<1>1. m.op \in Ops /\ ~IsCompletedLifecycleOperation(m.op) /\ \A n \in claimed[v] \ {m} : n.op # m.op
  BY DEF ClaimedIsOpen, ClaimedMessage, BatchesAreSets
<1>2. HeldBy(v)' = HeldBy(v)
  BY <1>1 DEF HeldBy
<1>3. \A w \in Workers \ {v} : HeldBy(w)' = HeldBy(w)
  BY DEF HeldBy
<1>4. LeaseCovers'
  BY <1>2, <1>3 DEF LeaseCovers
<1>5. CurrentIsOk'
  <2>1. ASSUME NEW w \in Workers, w # v PROVE
            /\ claimed'[w] = claimed[w] /\ current'[w] = current[w] /\ pc'[w] = pc[w]
            /\ step'[w] = step[w] /\ outcome'[w] = outcome[w]
    BY <2>1
  <2>2. claimed'[v] = claimed[v] \ {m} /\ current'[v] = m
    OBVIOUS
  <2>q. QED BY <1>1, <2>1, <2>2 DEF CurrentIsOk, IsCompletedLifecycleOperation
<1>6. ClaimedIsOpen'
  BY DEF ClaimedIsOpen, IsCompletedLifecycleOperation
<1>7. CompletedIsPublished'
  <2>1. \A w \in Workers : pc[w] \in {"publishing", "record"} =>
           pc'[w] \in {"publishing", "record"} /\ current'[w] = current[w]
    OBVIOUS
  <2>q. QED BY <2>1 DEF CompletedIsPublished, IsCompletedLifecycleOperation
<1>q. QED BY <1>4, <1>5, <1>6, <1>7

\* Two workers never hold the same message.
LEMMA LeasesExclude ==
  ASSUME TypeOK, LeasesHold, NEW v \in Workers, NEW w \in Workers, v # w,
         pc[v] \in {"publishing", "record"}
  PROVE  /\ \A m \in claimed[w] : m.op # current[v].op
         /\ pc[w] \in {"publishing", "record"} => current[w].op # current[v].op
BY DEF LeasesHold, LeaseCovers, HeldBy

\* The result completes the operation of the worker's own command, and Publish will
\* return ok.
LEMMA ProcessLeases ==
  ASSUME TypeOK, LeasesHold, WorkerPublishes, NEW v \in Workers, ProcessMessage(v), UNCHANGED workerVars
  PROVE  LeasesHold'
<1> USE DEF LeasesHold, workerVars
<1>0. v \in Agents /\ pc[v] = "publishing" /\ step[v] \in Running /\ current[v].op \in Ops
      /\ OpOf[result[v].id] = current[v].op
  BY ProcessResult, ResultAssumption
     DEF Running, WorkerPublishes, TypeOK, WorkerTypeOK, ClaimedMessage
<1>1. outbox' = outbox
  BY DEF ProcessMessage, CreateOrGetInboxMessage, CreateInboxMessage, DeadLetterInvalid,
     MarkInboxMessage, ReadOperation, MarkProcessedWithoutProjection, ProjectResult,
     RecordInboxProcessTransition, ProjectResultRefused, StoreCallFails, storeVars
<1>2. ~IsCompletedLifecycleOperation(current[v].op)
  BY <1>0 DEF CurrentIsOk, Running
<1>3. LeaseCovers'
  BY <1>1 DEF LeaseCovers, HeldBy
<1>4. \A w \in Workers \ {v} : step'[w] = step[w]
  BY ProcessResult, ResultAssumption
<1>5. CASE ProjectResult(v)
  <2>1. \A o \in Ops : o # current[v].op => operations'[o] = operations[o]
    BY <1>0, <1>5 DEF ProjectResult, RecordInboxProcessTransition, TypeOK, StoreTypeOK
  <2>2. step'[v] = "processed"
    BY <1>0, <1>5 DEF ProjectResult, Goto, TypeOK, InboxTypeOK
  <2>3. CurrentIsOk'
    <3> SUFFICES ASSUME NEW w \in Workers, pc[w] \in {"publishing", "record"}
                 PROVE  /\ \A m \in claimed[w] : m.op # current[w].op
                        /\ IsCompletedLifecycleOperation(current[w].op)' =>
                             \/ pc[w] = "publishing" /\ step'[w] = "processed"
                             \/ pc[w] = "record" /\ outcome[w] = "ok"
      BY DEF CurrentIsOk
    <3>1. \A m \in claimed[w] : m.op # current[w].op
      BY DEF CurrentIsOk
    <3>2. CASE w = v
      BY <1>0, <2>2, <3>1, <3>2
    <3>3. CASE w # v
      <4>1. current[w].op \in Ops /\ current[w].op # current[v].op
        BY <1>0, <3>3, LeasesExclude DEF TypeOK, WorkerTypeOK, ClaimedMessage
      <4>q. QED BY <1>4, <2>1, <3>1, <3>3, <4>1 DEF CurrentIsOk, IsCompletedLifecycleOperation
    <3>q. QED BY <3>2, <3>3
  <2>4. ClaimedIsOpen'
    <3>1. ASSUME NEW w \in Workers, NEW m \in claimed[w] PROVE m.op \in Ops /\ m.op # current[v].op
      <4>1. m.op \in Ops
        BY DEF TypeOK, WorkerTypeOK, ClaimedMessage
      <4>2. CASE w = v
        BY <1>0, <4>1, <4>2 DEF CurrentIsOk
      <4>3. CASE w # v
        BY <1>0, <4>1, <4>3, LeasesExclude
      <4>q. QED BY <4>2, <4>3
    <3>q. QED BY <2>1, <3>1 DEF ClaimedIsOpen, IsCompletedLifecycleOperation
  <2>5. CompletedIsPublished'
    BY <1>0, <1>1, <2>1 DEF CompletedIsPublished, IsCompletedLifecycleOperation
  <2>q. QED BY <1>3, <2>3, <2>4, <2>5
<1>6. CASE ~ProjectResult(v)
  <2>1. operations' = operations
    BY <1>6 DEF ProcessMessage, CreateOrGetInboxMessage, CreateInboxMessage, DeadLetterInvalid,
       MarkInboxMessage, ReadOperation, MarkProcessedWithoutProjection, ProjectResultRefused,
       StoreCallFails, storeVars
  <2>2. CurrentIsOk'
    BY <1>2, <1>4, <2>1 DEF CurrentIsOk, IsCompletedLifecycleOperation
  <2>3. ClaimedIsOpen' /\ CompletedIsPublished'
    BY <1>1, <2>1 DEF ClaimedIsOpen, CompletedIsPublished, IsCompletedLifecycleOperation
  <2>q. QED BY <1>3, <2>2, <2>3
<1>q. QED BY <1>5, <1>6

\* Publish returns ok for an operation that it has completed.
LEMMA ReturnLeases ==
  ASSUME TypeOK, LeasesHold, NEW v \in Workers, ProjectionReturns(v)
  PROVE  LeasesHold'
<1> USE DEF TypeOK, WorkerTypeOK, InboxTypeOK, LeasesHold, ProjectionReturns, PublishReturns, EndProcess, storeVars
<1>0. v \in Agents
  BY ResultAssumption
<1>1. /\ pc[v] = "publishing" /\ pc' = [pc EXCEPT ![v] = "record"]
      /\ UNCHANGED <<claimed, current, outbox, operations>>
  OBVIOUS
<1>2. LeaseCovers'
  BY <1>1 DEF LeaseCovers, HeldBy
<1>3. CurrentIsOk'
  BY <1>0 DEF CurrentIsOk, IsCompletedLifecycleOperation
<1>4. ClaimedIsOpen'
  BY <1>1 DEF ClaimedIsOpen, IsCompletedLifecycleOperation
<1>5. CompletedIsPublished'
  <2>1. \A w \in Workers : pc[w] \in {"publishing", "record"} => pc'[w] \in {"publishing", "record"}
    BY <1>1
  <2>q. QED BY <1>1, <2>1 DEF CompletedIsPublished, IsCompletedLifecycleOperation
<1>q. QED BY <1>2, <1>3, <1>4, <1>5

\* The worker records the outcome and lets go of the message.
LEMMA RecordLeases ==
  ASSUME TypeOK, LeasesHold, NEW v \in Workers, RecordOutcome(v), UNCHANGED inboxVars
  PROVE  LeasesHold'
<1> DEFINE st == RecordedStatus(current[v], outcome[v])
<1> USE DEF LeasesHold
<1>0. /\ pc[v] = "record" /\ current[v] \in ClaimedMessage /\ current[v].op \in Ops
      /\ current[v].status \in {"pending", "retrying"}
      /\ pc' = [pc EXCEPT ![v] = IF claimed[v] = {} THEN "idle" ELSE "batch"]
      /\ current' = [current EXCEPT ![v] = NoMessage] /\ claimed' = claimed
      /\ outcome' = [outcome EXCEPT ![v] = "none"] /\ step' = step
      /\ st \in {"published", "retrying", "dead_lettered"}
      /\ outcome[v] = "ok" => st = "published"
  BY RecordedStatusType
     DEF RecordOutcome, TypeOK, WorkerTypeOK, ClaimedMessage, inboxVars, RecordedStatus
<1>1. \A o \in Ops \ {current[v].op} : outbox'[o] = outbox[o] /\ operations'[o] = operations[o]
  BY <1>0 DEF RecordOutcome, RecordOutboxPublishTransition, TypeOK, StoreTypeOK
<1>2. \A w \in Workers \ {v} : /\ pc'[w] = pc[w] /\ current'[w] = current[w] /\ claimed'[w] = claimed[w]
                               /\ outcome'[w] = outcome[w] /\ step'[w] = step[w]
  BY <1>0 DEF TypeOK, WorkerTypeOK
<1>3. pc'[v] \in {"idle", "batch"}
  BY <1>0 DEF TypeOK, WorkerTypeOK
<1>4. \A w \in Workers : \A o \in HeldBy(w)' : o \in HeldBy(w) /\ o \in Ops /\ o # current[v].op
  <2> SUFFICES ASSUME NEW w \in Workers, NEW o \in HeldBy(w)'
               PROVE  o \in HeldBy(w) /\ o \in Ops /\ o # current[v].op
    OBVIOUS
  <2>0. HeldBy(w) \subseteq Ops
    BY DEF HeldBy, TypeOK, WorkerTypeOK, ClaimedMessage
  <2>1. CASE w = v
    <3>1. PICK m \in claimed[v] : o = m.op
      BY <1>0, <1>3, <2>1 DEF HeldBy
    <3>q. QED BY <1>0, <2>0, <2>1, <3>1 DEF HeldBy, CurrentIsOk
  <2>2. CASE w # v
    <3>1. o \in HeldBy(w)
      BY <1>2, <2>2 DEF HeldBy
    <3>2. o # current[v].op
      BY <1>0, <2>2, <3>1, LeasesExclude DEF HeldBy
    <3>q. QED BY <2>0, <3>1, <3>2
  <2>q. QED BY <2>1, <2>2
<1>5. LeaseCovers'
  BY <1>1, <1>4 DEF LeaseCovers
<1>6. CurrentIsOk'
  <2> SUFFICES ASSUME NEW w \in Workers, pc'[w] \in {"publishing", "record"}
               PROVE  /\ \A m \in claimed'[w] : m.op # current'[w].op
                      /\ IsCompletedLifecycleOperation(current[w].op)' =>
                           \/ pc'[w] = "publishing" /\ step'[w] = "processed"
                           \/ pc'[w] = "record" /\ outcome'[w] = "ok"
    BY DEF CurrentIsOk
  <2>1. w # v /\ pc[w] = pc'[w] /\ current'[w] = current[w]
    BY <1>2, <1>3
  <2>2. current[w].op \in Ops /\ current[w].op # current[v].op
    BY <1>0, <2>1, LeasesExclude DEF TypeOK, WorkerTypeOK, ClaimedMessage
  <2>3. operations'[current[w].op] = operations[current[w].op]
    BY <1>1, <2>2
  <2>q. QED BY <1>2, <2>1, <2>3 DEF CurrentIsOk, IsCompletedLifecycleOperation
<1>7. ClaimedIsOpen'
  <2> SUFFICES ASSUME NEW w \in Workers, NEW m \in claimed[w]
               PROVE  ~(operations'[m.op] \in {"succeeded", "failed"})
    BY <1>0 DEF ClaimedIsOpen, IsCompletedLifecycleOperation
  <2>1. m.op \in Ops /\ m.op # current[v].op
    <3>1. m.op \in Ops
      BY DEF TypeOK, WorkerTypeOK, ClaimedMessage
    <3>2. CASE w = v
      BY <1>0, <3>1, <3>2 DEF CurrentIsOk
    <3>3. CASE w # v
      BY <1>0, <3>1, <3>3, LeasesExclude
    <3>q. QED BY <3>2, <3>3
  <2>q. QED BY <1>1, <2>1 DEF ClaimedIsOpen, IsCompletedLifecycleOperation
<1>8. CompletedIsPublished'
  <2> SUFFICES ASSUME NEW o \in Ops, operations'[o] \in {"succeeded", "failed"}
               PROVE  \/ outbox'[o].status = "published"
                      \/ \E w \in Workers : pc'[w] \in {"publishing", "record"} /\ current'[w].op = o
    BY DEF CompletedIsPublished, IsCompletedLifecycleOperation
  <2>1. CASE o # current[v].op
    BY <1>1, <1>2, <2>1 DEF CompletedIsPublished, IsCompletedLifecycleOperation
  <2>2. CASE o = current[v].op
    <3>1. operations' \in {operations, [operations EXCEPT ![o] = st]}
      BY <2>2 DEF RecordOutcome, RecordOutboxPublishTransition
    <3>2. operations[o] \in {"succeeded", "failed"}
      BY <1>0, <3>1 DEF TypeOK, StoreTypeOK
    <3>3. st = "published"
      BY <1>0, <2>2, <3>2 DEF CurrentIsOk, IsCompletedLifecycleOperation
    <3>4. CASE outbox[o].status = "published"
      <4>1. outbox' = outbox \/ outbox'[o].status = st
        BY <1>0, <2>2 DEF RecordOutcome, RecordOutboxPublishTransition, TypeOK, StoreTypeOK, OutboxRow
      <4>q. QED BY <3>3, <3>4, <4>1
    <3>5. CASE outbox[o].status # "published"
      <4>1. ShouldApplyOutboxPublishTransition(v, current[v], st)
        BY <2>2, <3>3, <3>5 DEF ShouldApplyOutboxPublishTransition, IsPublishedOutcomeOverride
      <4>2. outbox'[o].status = st
        BY <1>0, <2>2, <4>1 DEF RecordOutcome, RecordOutboxPublishTransition, TypeOK, StoreTypeOK, OutboxRow
      <4>q. QED BY <3>3, <4>2
    <3>q. QED BY <3>4, <3>5
  <2>q. QED BY <2>1, <2>2
<1>q. QED BY <1>5, <1>6, <1>7, <1>8

\* Time passes only for a row that its holder has let go of, and a request writes the
\* rows of a new operation.
LEMMA QuietLeases ==
  ASSUME TypeOK, RowsInv, LeasesHold, Request \/ (\E o \in Ops : DelayEnds(o)),
         UNCHANGED <<workerVars, inboxVars>>
  PROVE  LeasesHold'
<1> USE DEF LeasesHold, workerVars, inboxVars
<1>1. ASSUME NEW w \in Workers, NEW o \in HeldBy(w) PROVE o \in Ops /\ operations[o] # "absent"
  BY <1>1 DEF HeldBy, TypeOK, WorkerTypeOK, ClaimedMessage, RowsInv, HeldExist
<1>2. ASSUME NEW o \in Ops, NEW activity, CreateOperation(o, activity) PROVE LeasesHold'
  <2>1. /\ operations[o] = "absent" /\ operations'[o] = "pending"
        /\ \A p \in Ops \ {o} : outbox'[p] = outbox[p] /\ operations'[p] = operations[p]
    BY <1>2 DEF CreateOperation, TypeOK, StoreTypeOK
  <2>2. \A w \in Workers : o \notin HeldBy(w) /\ HeldBy(w) \subseteq Ops /\ HeldBy(w)' = HeldBy(w)
    BY <1>1, <2>1 DEF HeldBy
  <2>3. LeaseCovers'
    BY <2>1, <2>2 DEF LeaseCovers
  <2>4. \A w \in Workers : /\ \A m \in claimed[w] : m.op \in Ops /\ m.op # o
                           /\ pc[w] \in {"publishing", "record"} => current[w].op \in Ops /\ current[w].op # o
    BY <2>2 DEF HeldBy
  <2>5. CurrentIsOk' /\ ClaimedIsOpen'
    BY <2>1, <2>4 DEF CurrentIsOk, ClaimedIsOpen, IsCompletedLifecycleOperation
  <2>6. CompletedIsPublished'
    BY <2>1 DEF CompletedIsPublished, IsCompletedLifecycleOperation
  <2>q. QED BY <2>3, <2>5, <2>6
<1>3. ASSUME NEW o \in Ops, DelayEnds(o) PROVE LeasesHold'
  <2>1. /\ operations' = operations /\ outbox' = [outbox EXCEPT ![o].due = TRUE]
        /\ \A w \in Workers : outbox[o].holder = w => o \notin HeldBy(w)
    BY <1>3 DEF DelayEnds, BecomesDue
  <2>2. \A w \in Workers : o \notin HeldBy(w) /\ HeldBy(w) \subseteq Ops /\ HeldBy(w)' = HeldBy(w)
    BY <1>1, <2>1 DEF HeldBy, LeaseCovers
  <2>3. LeaseCovers'
    BY <2>1, <2>2 DEF LeaseCovers, TypeOK, StoreTypeOK
  <2>4. \A p \in Ops : outbox'[p].status = outbox[p].status
    BY <2>1 DEF TypeOK, StoreTypeOK, OutboxRow
  <2>q. QED BY <2>1, <2>3, <2>4 DEF CurrentIsOk, ClaimedIsOpen, CompletedIsPublished, IsCompletedLifecycleOperation
<1>4. CASE UNCHANGED <<operations, outbox>>
  BY <1>4 DEF LeaseCovers, HeldBy, CurrentIsOk, ClaimedIsOpen, CompletedIsPublished, IsCompletedLifecycleOperation
<1>q. QED BY <1>2, <1>3, <1>4
   DEF Request, ApiRequest, StartDeviceLifecycleOperation, StartDeviceDeactivationOperation,
   UnprovisionDevice, StartDeviceEntitlementSnapshot, DeleteDeviceAsUser

\* As long as nothing has failed the leases hold.
LEMMA NextLeases ==
  TypeOK /\ RowsInv /\ WorkerPublishes /\ BatchesAreSets /\ WithoutFaults /\ [Next]_vars => WithoutFaults'
<1> SUFFICES ASSUME TypeOK, RowsInv, WorkerPublishes, BatchesAreSets, WithoutFaults, [Next]_vars, faults' = 0
             PROVE  LeasesHold'
  BY DEF WithoutFaults
<1>1. ~Fault
  BY DEF Fault, TypeOK, WorkerTypeOK
<1>2. /\ \A w \in Workers : ~WorkerCrash(w)
      /\ \A o \in Ops : ~LeaseOverrun(o) /\ ~OperatorRequeue(o)
  BY <1>1 DEF WorkerCrash, Crash, LeaseOverrun, OperatorRequeue
<1>3. faults = 0
  BY <1>2 DEF Next, WorkerStep, ClaimBatch, CallFails, CallAnswered, ProjectionReturns, RecordOutcome,
     Passage, DelayEnds, Request, vars, workerVars
<1>4. LeasesHold
  BY <1>3 DEF WithoutFaults
<1>5. ASSUME NEW w \in Workers, WorkerStep(w) PROVE LeasesHold'
  <2>1. CASE ClaimBatch(w) /\ UNCHANGED inboxVars
    BY <1>4, <2>1, ClaimLeases
  <2>2. CASE CallFails(w)
    <3>1. PICK m \in claimed[w] : Take(w, m) /\ PublishReturns(w, "transient")
      BY <2>2 DEF CallFails
    <3>2. pc' = [pc EXCEPT ![w] = "record"] /\ UNCHANGED storeVars
          /\ \A v \in Workers \ {w} : step'[v] = step[v] /\ outcome'[v] = outcome[v]
      BY <2>2, <3>1 DEF CallFails, PublishReturns, inboxVars, TypeOK, WorkerTypeOK
    <3>q. QED BY <1>4, <3>1, <3>2, TakeLeases
  <2>3. CASE CallAnswered(w)
    <3>1. PICK m \in claimed[w], verdict \in Verdicts :
            /\ Take(w, m)
            /\ BeginProcess(w, [id |-> ResultOf[m.op], verdict |-> verdict, at |-> responses[m.op] + 1])
      BY <2>3 DEF CallAnswered
    <3>2. pc' = [pc EXCEPT ![w] = "publishing"] /\ UNCHANGED <<storeVars, outcome>>
      BY <2>3 DEF CallAnswered
    <3>3. \A v \in Workers \ {w} : step'[v] = step[v] /\ outcome'[v] = outcome[v]
      BY <3>1, <3>2, ResultAssumption DEF BeginProcess, TypeOK, InboxTypeOK
    <3>q. QED BY <1>4, <3>1, <3>2, <3>3, TakeLeases
  <2>4. CASE ProcessMessage(w) /\ UNCHANGED workerVars
    BY <1>4, <2>4, ProcessLeases
  <2>5. CASE ProjectionReturns(w)
    BY <1>4, <2>5, ReturnLeases
  <2>6. CASE RecordOutcome(w) /\ UNCHANGED inboxVars
    BY <1>4, <2>6, RecordLeases
  <2>q. QED BY <1>5, <2>1, <2>2, <2>3, <2>4, <2>5, <2>6 DEF WorkerStep
<1>6. ASSUME NEW o \in Ops, Passage(o) PROVE LeasesHold'
  BY <1>2, <1>4, <1>6, QuietLeases DEF Passage, DelayEnds
<1>7. CASE Request
  BY <1>4, <1>7, QuietLeases DEF Request
<1>8. CASE UNCHANGED vars
  BY <1>4, <1>8 DEF vars, storeVars, workerVars, inboxVars, LeasesHold, LeaseCovers, HeldBy, CurrentIsOk,
     ClaimedIsOpen, CompletedIsPublished, IsCompletedLifecycleOperation
<1>q. QED BY <1>2, <1>5, <1>6, <1>7, <1>8 DEF Next

\* A completed operation is opened again only after a crash, an overrun lease or a
\* requeue, and never by a late publication (RecordOutboxPublishTransition).
THEOREM RepairsKeepCompletion == Spec => RepairKeepsCompletion
<1>1. ASSUME TypeOK, RunningMatches, CompletionMatchesInbox, WithoutFaults, [Next]_vars,
             NEW o \in Ops, IsCompletedLifecycleOperation(o), operations'[o] # operations[o]
      PROVE  operations'[o] \in {"pending", "retrying", "dead_lettered"} /\ faults' > 0
  <2> USE DEF TypeOK, StoreTypeOK, WorkerTypeOK
  <2>0. operations[o] \in {"succeeded", "failed"}
    BY <1>1 DEF IsCompletedLifecycleOperation
  <2>1. ASSUME NEW w \in Workers, ProcessMessage(w) PROVE FALSE
    <3>1. ProjectResult(w) /\ o = OpOf[result[w].id]
      <4>1. CASE ~ProjectResult(w)
        BY <1>1, <2>1, <4>1 DEF ProcessMessage, CreateOrGetInboxMessage, CreateInboxMessage,
           DeadLetterInvalid, MarkInboxMessage, ReadOperation, MarkProcessedWithoutProjection,
           ProjectResultRefused, StoreCallFails, storeVars
      <4>2. CASE ProjectResult(w)
        BY <1>1, <4>2 DEF ProjectResult, RecordInboxProcessTransition
      <4>q. QED BY <4>1, <4>2
    <3>2. w \in Agents /\ step[w] = "project"
      BY <3>1, ResultAssumption DEF ProjectResult
    <3>3. result[w].id = ResultOf[o] /\ inbox[ResultOf[o]].verdict = result[w].verdict
      BY <1>1, <3>1, <3>2 DEF RunningMatches
    <3>4. operations'[o] = result[w].verdict
      BY <1>1, <3>1 DEF ProjectResult, RecordInboxProcessTransition
    <3>q. QED BY <1>1, <2>0, <3>3, <3>4 DEF CompletionMatchesInbox
  <2>2. ASSUME NEW w \in Workers, RecordOutcome(w)
        PROVE  operations'[o] \in {"pending", "retrying", "dead_lettered"} /\ faults' > 0
    <3> DEFINE st == RecordedStatus(current[w], outcome[w])
    <3>1. /\ pc[w] = "record" /\ current[w] \in ClaimedMessage /\ faults' = faults
          /\ current[w].status \in {"pending", "retrying"}
          /\ RecordOutboxPublishTransition(w, current[w], st)
      BY <1>1, <2>2 DEF RecordOutcome, ClaimedMessage
    <3>2. st \in {"published", "retrying", "dead_lettered"} /\ (outcome[w] = "ok" => st = "published")
      BY <3>1, RecordedStatusType DEF RecordedStatus
    <3>3. o = current[w].op /\ operations'[o] = st
      BY <1>1, <3>1 DEF RecordOutboxPublishTransition
    <3>4. st # "published"
      BY <1>1, <2>0, <3>1, <3>3 DEF RecordOutboxPublishTransition, IsPublishedOutcomeOverride,
         ShouldApplyOutboxPublishTransition, ShouldRepairOperationForPublishedOverride
    <3>5. faults # 0
      BY <1>1, <3>1, <3>2, <3>3, <3>4 DEF WithoutFaults, LeasesHold, CurrentIsOk
    <3>q. QED BY <1>1, <3>1, <3>2, <3>3, <3>4, <3>5
  <2>3. ASSUME NEW p \in Ops, Passage(p)
        PROVE  operations'[o] \in {"pending", "retrying", "dead_lettered"} /\ faults' > 0
    <3>1. OperatorRequeue(p)
      BY <1>1, <2>3 DEF Passage, DelayEnds, LeaseOverrun, BecomesDue
    <3>q. QED BY <1>1, <3>1 DEF OperatorRequeue, RequeueOutboxMessage, Fault
  <2>4. CASE Request
    <3>1. ASSUME NEW p \in Ops, NEW activity, CreateOperation(p, activity) PROVE operations'[o] = operations[o]
      BY <1>1, <2>0, <3>1 DEF CreateOperation
    <3>q. QED BY <1>1, <2>4, <3>1
       DEF Request, ApiRequest, StartDeviceLifecycleOperation, StartDeviceDeactivationOperation,
       UnprovisionDevice, StartDeviceEntitlementSnapshot, DeleteDeviceAsUser
  <2>5. ASSUME NEW w \in Workers,
               ClaimBatch(w) \/ CallFails(w) \/ CallAnswered(w) \/ ProjectionReturns(w) \/ WorkerCrash(w)
        PROVE  FALSE
    BY <1>1, <2>5 DEF ClaimBatch, ClaimOutboxMessagesReady, CallFails, CallAnswered, ProjectionReturns,
       WorkerCrash, Crash, storeVars
  <2>6. CASE UNCHANGED vars
    BY <1>1, <2>6 DEF vars, storeVars
  <2>q. QED BY <1>1, <2>1, <2>2, <2>3, <2>4, <2>5, <2>6 DEF Next, WorkerStep
<1>2. TypeOK /\ RunningMatches /\ CompletionMatchesInbox /\ WithoutFaults /\ [Next]_vars =>
        [\A o \in Ops : IsCompletedLifecycleOperation(o) /\ operations'[o] # operations[o]
           => operations'[o] \in {"pending", "retrying", "dead_lettered"} /\ faults' > 0]_vars
  BY <1>1
<1>q. QED BY <1>2, InitRunning, NextRunning, InitRows, NextRows, InitResults, NextPublishes, NextBatches,
             NextLeases, CompletionIsTheInboxVerdict, TypeCorrect, PTL DEF Spec, RepairKeepsCompletion
=============================================================================
