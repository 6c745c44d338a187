-------------------------- MODULE DirectLifecycle --------------------------
(***************************************************************************)
(* The lifecycle channel with CROSS_SERVICE_BROKER=direct_http: Publish    *)
(* (internal/lifecyclehttp) calls Video Cloud, turns the response into a   *)
(* result message whose id is the request's id followed by "-result" and   *)
(* whose payload carries the time of the response, and runs the inbox      *)
(* service on it before it returns.  API requests, the operator and any    *)
(* number of outbox workers interleave.                                    *)
(***************************************************************************)
EXTENDS OutboxWorker, InboxProcessor

CONSTANT ResultOf   \* the id of an operation's result message

ASSUME ResultAssumption ==
  /\ ResultOf \in [Ops -> Results]
  /\ \A o \in Ops : OpOf[ResultOf[o]] = o
  /\ Agents = Workers

VARIABLES
  applied,    \* Video Cloud has carried out the operation's command
  responses   \* responses so far to the operation's command: the clock that
              \* stamps their results (two responses never share a timestamp)

vars == <<storeVars, workerVars, inboxVars, applied, responses>>

\* The types of the variables.
TypeOK ==
  /\ StoreTypeOK /\ WorkerTypeOK /\ InboxTypeOK
  /\ applied \in [Ops -> BOOLEAN]
  /\ responses \in [Ops -> Nat]

Init ==
  /\ StoreInit /\ WorkerInit /\ InboxInit
  /\ applied = [o \in Ops |-> FALSE]
  /\ responses = [o \in Ops |-> 0]

-----------------------------------------------------------------------------
\* No usable answer: a transport error, 429, 5xx, an entitlement that was
\* accepted but not applied, or a receipt that does not match.  Video Cloud may
\* or may not have carried the command out.
CallFails(w) ==
  \E m \in claimed[w] :
    /\ Take(w, m) /\ PublishReturns(w, "transient")
    /\ \/ applied' = [applied EXCEPT ![m.op] = TRUE]
       \/ UNCHANGED applied
    /\ UNCHANGED <<storeVars, faults, inboxVars, responses>>

\* Mutant: an answer that only accepts the command counts as success.
CallAnsweredUnapplied(w) ==
  \E m \in claimed[w], verdict \in Verdicts :
    /\ Take(w, m)
    /\ pc' = [pc EXCEPT ![w] = "publishing"]
    /\ responses' = [responses EXCEPT ![m.op] = @ + 1]
    /\ BeginProcess(w, [id |-> ResultOf[m.op], verdict |-> verdict, at |-> responses[m.op] + 1])
    /\ UNCHANGED <<storeVars, outcome, faults, applied>>

\* Video Cloud answers 2xx (it has carried out the command) or refuses with
\* another status, and the result is handed to the inbox service.
CallAnswered(w) ==
  \E m \in claimed[w], verdict \in Verdicts :
    /\ Take(w, m)
    /\ pc' = [pc EXCEPT ![w] = "publishing"]
    /\ applied' = [applied EXCEPT ![m.op] = @ \/ verdict = "succeeded"]
    /\ responses' = [responses EXCEPT ![m.op] = @ + 1]
    /\ BeginProcess(w, [id |-> ResultOf[m.op], verdict |-> verdict, at |-> responses[m.op] + 1])
    /\ UNCHANGED <<storeVars, outcome, faults>>

\* projectWithInbox: processed or skipped is a successful publication, every
\* other outcome a transient error.
ProjectionReturns(w) ==
  /\ pc[w] = "publishing" /\ step[w] \in Finished
  /\ PublishReturns(w, IF step[w] \in {"processed", "skipped"} THEN "ok" ELSE "transient")
  /\ EndProcess(w)
  /\ UNCHANGED <<storeVars, claimed, current, faults, applied, responses>>

WorkerStep(w) ==
  \/ ClaimBatch(w) /\ UNCHANGED <<inboxVars, applied, responses>>
  \/ CallFails(w)
  \/ CallAnswered(w)
  \/ ProcessMessage(w) /\ UNCHANGED <<workerVars, applied, responses>>
  \/ ProjectionReturns(w)
  \/ RecordOutcome(w) /\ UNCHANGED <<inboxVars, applied, responses>>

\* A worker's crash takes its running Publish with it.
WorkerCrash(w) == Crash(w) /\ EndProcess(w) /\ UNCHANGED <<applied, responses>>

Passage(o) ==
  /\ DelayEnds(o) \/ LeaseOverrun(o) \/ OperatorRequeue(o)
  /\ UNCHANGED <<inboxVars, applied, responses>>

Request ==
  /\ ApiRequest
  /\ UNCHANGED <<workerVars, inboxVars, applied, responses>>

Next ==
  \/ \E w \in Workers : WorkerStep(w) \/ WorkerCrash(w)
  \/ \E o \in Ops : Passage(o)
  \/ Request

Spec == Init /\ [][Next]_vars

\* Workers are restarted and poll for ever, and time passes.
Fairness ==
  /\ \A w \in Workers : WF_vars(WorkerStep(w))
  /\ \A o \in Ops : WF_vars(DelayEnds(o) /\ UNCHANGED <<inboxVars, applied, responses>>)

LiveSpec == Spec /\ Fairness

-----------------------------------------------------------------------------
(* Properties.                                                             *)

Queue == INSTANCE DeliveryQueue WITH
  Messages <- Ops,
  state <- [o \in Ops |-> QueueState(o)],
  received <- {o \in Ops : responses[o] > 0 \/ applied[o]}

\* The device outbox keeps the promise of a transactional outbox: a command is
\* published only after Video Cloud has
\* answered or carried out it, a published command is published
\* for good, and a late publication corrects a command that was given up
\* (publishMessage, RecordOutboxPublishTransition).
ImplementsQueue == Queue!Spec

\* A published outbox row is never written again: not by a worker whose lease
\* has passed to another one, not by a claim, not by the operator's requeue
\* (shouldApplyOutboxPublishTransition, ClaimOutboxMessagesReady,
\* RequeueOutboxMessage).
PublishedIsFinal ==
  [][\A o \in Ops : outbox[o].status = "published" => outbox'[o] = outbox[o]]_vars

\* A message waits for another attempt only while it has attempts left, and no
\* sequence of claims, overruns and crashes uses more than MaxAttempts.
AttemptsBounded ==
  \A o \in Ops :
    /\ outbox[o].attempt <= MaxAttempts
    /\ outbox[o].status \in {"pending", "retrying"} => outbox[o].attempt < MaxAttempts

\* A completed operation's status is the verdict of its processed inbox row:
\* operation, inbox row and projection are written together, and a second
\* response with another verdict cannot complete the operation again
\* (compareInboxCreate, RecordInboxProcessTransition).
CompletionMatchesInbox ==
  \A o \in Ops : operations[o] \in {"succeeded", "failed"} =>
    /\ inbox[ResultOf[o]].status = "processed"
    /\ inbox[ResultOf[o]].verdict = operations[o]

\* An operation is reported succeeded only if Video Cloud has carried it out
\* (the status and receipt checks of Publish).
SucceededOnlyIfApplied ==
  \A o \in Ops : operations[o] = "succeeded" => applied[o]

\* Once the device is deleted no provision or deactivation of it completes any
\* more: the result's transaction rolls back as a whole (ErrNotFound of
\* projectDeviceTx in RecordInboxProcessTransition).
DeletedDeviceCompletesNothing ==
  [][\A o \in Ops :
       /\ HasProjection(o) /\ ~device[DeviceOf[o]].row
       /\ ~IsCompletedLifecycleOperation(o)
       => ~IsCompletedLifecycleOperation(o)']_vars

\* Every message is published or dead-lettered in the end, through lost
\* responses, overrun leases and crashed workers.
MessageSettles ==
  \A o \in Ops : (outbox[o].status # "absent") ~>
                 (outbox[o].status \in {"published", "dead_lettered"})

\* A publication that is recorded late corrects the outbox row and never the
\* operation that its result has completed meanwhile; a completed operation is
\* opened again only by a requeue of the operator, or by a retry or a dead letter
\* after a crash, an overrun lease or such a requeue (the published override of
\* RecordOutboxPublishTransition: "fix the outbox row without rolling the
\* operation backward").
RepairKeepsCompletion ==
  [][\A o \in Ops : IsCompletedLifecycleOperation(o) /\ operations'[o] # operations[o]
        => operations'[o] \in {"pending", "retrying", "dead_lettered"} /\ faults' > 0]_vars
=============================================================================
