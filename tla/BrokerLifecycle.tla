-------------------------- MODULE BrokerLifecycle --------------------------
(***************************************************************************)
(* The lifecycle channel with a message broker: the outbox workers publish *)
(* commands to account.video.commands, Video Cloud (external) answers with *)
(* result messages on video.account.events, and inbox workers consume      *)
(* them.  A publication may be delivered although Publish reports an       *)
(* error.  A result is delivered at least once to each inbox worker; a     *)
(* delivery that is not acknowledged comes back after the worker restarts. *)
(* Video Cloud may answer a command that reached it twice with two results *)
(* of different ids and even different verdicts, in any order with the     *)
(* results of other commands.                                              *)
(***************************************************************************)
EXTENDS OutboxWorker, InboxProcessor

VARIABLES
  commands,    \* operations whose command has reached Video Cloud
  emitted,     \* the verdict each result message was sent with
  deliveries,  \* how many times each result message was put on the stream
  unread,      \* deliveries each inbox worker has not acknowledged
  taken,       \* the delivery each inbox worker is processing
  reopened     \* history: rows an operator reopened and nobody has replayed since

channelVars == <<commands, emitted, deliveries, unread, taken, reopened>>
vars == <<storeVars, workerVars, inboxVars, channelVars>>

\* The types of the variables.
TypeOK ==
  /\ StoreTypeOK /\ WorkerTypeOK /\ InboxTypeOK
  /\ commands \subseteq Ops
  /\ emitted \in [Results -> Verdicts \cup {"none", "malformed"}]
  /\ deliveries \in [Results -> Nat]
  /\ unread \in [Agents -> SUBSET (Results \X Nat)]
  /\ taken \in [Agents -> (Results \X Nat) \cup {<<>>}]
  /\ reopened \subseteq Results
  /\ \A a \in Agents : \A e \in unread[a] : e[2] \in 1..deliveries[e[1]]
  /\ \A a \in Agents : step[a] # "none" => taken[a] \in unread[a] /\ taken[a][1] = result[a].id

Init ==
  /\ StoreInit /\ WorkerInit /\ InboxInit
  /\ commands = {}
  /\ emitted = [r \in Results |-> "none"]
  /\ deliveries = [r \in Results |-> 0]
  /\ unread = [a \in Agents |-> {}]
  /\ taken = [a \in Agents |-> <<>>]
  /\ reopened = {}

-----------------------------------------------------------------------------
(* The outbox side.                                                        *)

\* Publish of the Azure Event Hubs adapter: sent, or an error the SDK marks as
\* recoverable, or any other one (a deadline, missing authorization).  The
\* event may be on the stream although an error is returned.
Publish(w) ==
  \E m \in claimed[w], r \in {"ok", "transient", "permanent"} :
    /\ Take(w, m) /\ PublishReturns(w, r)
    /\ \/ commands' = commands \cup {m.op}
       \/ r # "ok" /\ UNCHANGED commands
    /\ UNCHANGED <<storeVars, faults, inboxVars, emitted, deliveries, unread, taken, reopened>>

\* Video Cloud answers a command that it received.
VideoCloudAnswers(r) ==
  /\ OpOf[r] \in commands /\ emitted[r] = "none"
  /\ \E verdict \in Verdicts \cup {"malformed"} : emitted' = [emitted EXCEPT ![r] = verdict]
  /\ deliveries' = [deliveries EXCEPT ![r] = 1]
  /\ unread' = [a \in Agents |-> unread[a] \cup {<<r, 1>>}]
  /\ UNCHANGED <<storeVars, workerVars, inboxVars, commands, taken, reopened>>

\* The same message is put on the stream once more.
Redelivered(r) ==
  /\ emitted[r] # "none"
  /\ deliveries' = [deliveries EXCEPT ![r] = @ + 1]
  /\ unread' = [a \in Agents |-> unread[a] \cup {<<r, deliveries[r] + 1>>}]
  /\ reopened' = reopened \ {r}
  /\ UNCHANGED <<commands, emitted, taken>>

-----------------------------------------------------------------------------
(* The inbox side: RunOnce of the inbox worker.                            *)

Receive(a) ==
  /\ step[a] = "none"
  /\ \E e \in unread[a] :
       /\ BeginProcess(a, [id |-> e[1], verdict |-> emitted[e[1]], at |-> 0])
       /\ taken' = [taken EXCEPT ![a] = e]
  /\ UNCHANGED <<storeVars, workerVars, commands, emitted, deliveries, unread, reopened>>

\* Mutant: every outcome is acknowledged.
ShouldAcknowledgeAlways(a) == step[a] \in Finished

\* An error returns from RunOnce before the acknowledgement.
ShouldAcknowledgeOutcome(a) == step[a] \in {"processed", "skipped", "dead_lettered"}

Acknowledge(a) ==
  /\ ShouldAcknowledgeOutcome(a)
  /\ unread' = [unread EXCEPT ![a] = @ \ {taken[a]}]
  /\ taken' = [taken EXCEPT ![a] = <<>>]
  /\ EndProcess(a)
  /\ UNCHANGED <<storeVars, workerVars, commands, emitted, deliveries, reopened>>

\* The error stops the worker; it restarts and reads from its checkpoint.
StopOnError(a) ==
  /\ step[a] = "error"
  /\ taken' = [taken EXCEPT ![a] = <<>>]
  /\ EndProcess(a)
  /\ UNCHANGED <<storeVars, workerVars, commands, emitted, deliveries, unread, reopened>>

\* The worker dies anywhere, between the transaction and the checkpoint too.
ConsumerCrash(a) ==
  /\ step[a] # "none" /\ Fault
  /\ taken' = [taken EXCEPT ![a] = <<>>]
  /\ EndProcess(a)
  /\ UNCHANGED <<storeVars, pc, claimed, current, outcome, commands, emitted, deliveries, unread, reopened>>

\* Duplicate on the stream.
BrokerDuplicate(r) ==
  /\ Redelivered(r) /\ Fault
  /\ UNCHANGED <<storeVars, pc, claimed, current, outcome, inboxVars>>

\* lifecycle-admin inbox requeue: only the dedupe row is reopened ("acknowledged
\* broker messages still require replay or redelivery").
OperatorReopens(r) ==
  /\ RequeueInboxMessage(r) /\ Fault
  /\ reopened' = reopened \cup {r}
  /\ UNCHANGED <<pc, claimed, current, outcome, inboxVars, commands, emitted, deliveries, unread, taken>>

\* The replay the tool asks for, if the operator makes it.
OperatorReplays(r) ==
  /\ r \in reopened /\ Redelivered(r)
  /\ UNCHANGED <<storeVars, workerVars, inboxVars>>

-----------------------------------------------------------------------------
WorkerStep(w) ==
  \/ ClaimBatch(w) /\ UNCHANGED <<inboxVars, channelVars>>
  \/ Publish(w)
  \/ RecordOutcome(w) /\ UNCHANGED <<inboxVars, channelVars>>
  \/ Crash(w) /\ UNCHANGED <<inboxVars, channelVars>>

ConsumerStep(a) ==
  \/ Receive(a)
  \/ ProcessMessage(a) /\ UNCHANGED <<workerVars, channelVars>>
  \/ Acknowledge(a)
  \/ StopOnError(a)
  \/ ConsumerCrash(a)

Passage(o) ==
  /\ DelayEnds(o) \/ LeaseOverrun(o) \/ OperatorRequeue(o)
  /\ UNCHANGED <<inboxVars, channelVars>>

Request ==
  /\ ApiRequest
  /\ UNCHANGED <<workerVars, inboxVars, channelVars>>

Next ==
  \/ \E w \in Workers : WorkerStep(w)
  \/ \E a \in Agents : ConsumerStep(a)
  \/ \E r \in Results : \/ VideoCloudAnswers(r) \/ BrokerDuplicate(r)
                        \/ OperatorReopens(r) \/ OperatorReplays(r)
  \/ \E o \in Ops : Passage(o)
  \/ Request

Spec == Init /\ [][Next]_vars

-----------------------------------------------------------------------------
(* Properties.                                                             *)

\* No result is lost: as long as a result is neither processed nor
\* dead-lettered, every inbox worker still has a delivery of it to come, through
\* crashes between the transaction and the acknowledgement, duplicates, errors
\* and replays.  The one exception is a dead-lettered row that an operator has
\* reopened without replaying the message: what was acknowledged before stays
\* acknowledged, and the replay makes it come again (shouldAcknowledgeOutcome,
\* the skip of settled duplicates in processMessage, the note of inbox requeue).
NoResultLost ==
  \A r \in Results \ reopened, a \in Agents :
    /\ emitted[r] # "none"
    /\ inbox[r].status \in {"absent", "retrying"}
    => \E n \in 1..deliveries[r] : <<r, n>> \in unread[a]

\* A completed operation has a processed result with the operation's verdict: a
\* malformed, duplicated or skipped result completes nothing
\* (RecordInboxProcessTransition writes inbox row and operation together).
CompletionHasResult ==
  \A o \in Ops : IsCompletedLifecycleOperation(o) =>
    \E r \in Results : /\ OpOf[r] = o /\ inbox[r].status = "processed"
                       /\ inbox[r].verdict = operations[o] /\ emitted[r] = operations[o]

\* Another provision of the device was started with the activity of o: the
\* activity id is chosen by the caller, and the second request resets what is shown.
SharesActivity(o) ==
  \E p \in Ops \ {o} : /\ TypeOf[p] = "provision" /\ DeviceOf[p] = DeviceOf[o]
                       /\ outbox[p].activity = outbox[o].activity

\* The operation and the device never tell different stories: while a succeeded
\* provision is the device's current activity the device is not shown as pending
\* or failed, although two results of one operation may disagree
\* (RecordInboxProcessTransition projects in the same transaction).
SuccessIsShown ==
  \A o \in Ops :
    LET d == DeviceOf[o] IN
    /\ TypeOf[o] = "provision" /\ operations[o] = "succeeded" /\ ~SharesActivity(o)
    /\ device[d].row /\ device[d].activity = outbox[o].activity
    => device[d].activation \in {"activated", "deactivated"}

\* Outbox, operation, inbox and device agree at every moment, although two results of
\* one command may disagree, are duplicated and are processed by two workers at
\* once: the row's transaction is all or nothing (RecordInboxProcessTransition), and
\* a duplicate of a settled row is skipped (processMessage).
ResultsAgree == TypeOK /\ CompletionHasResult /\ SuccessIsShown
=============================================================================
