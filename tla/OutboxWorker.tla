---------------------------- MODULE OutboxWorker ----------------------------
(***************************************************************************)
(* The outbox worker (internal/worker/outbox): RunOnce claims a batch of   *)
(* ready messages under a lease and handles them one after the other.      *)
(* What Publish does is left to the module that composes the worker with a *)
(* publisher.                                                              *)
(*                                                                         *)
(* A worker may be slow: its lease runs out, another worker claims the     *)
(* same message, and both publish it.  A worker may die (or stop on an     *)
(* error) at any point; it restarts with nothing claimed.  Both are        *)
(* counted by faults and bounded by MaxFaults.                             *)
(***************************************************************************)
EXTENDS LifecycleStore

CONSTANTS
  BatchSize,    \* messages claimed at once
  MaxFaults     \* bound on crashes, overrun leases and operator requeues

ASSUME WorkerAssumption == BatchSize \in Nat \ {0} /\ MaxFaults \in Nat

VARIABLES
  pc,        \* idle, or working through a batch, or inside Publish, or recording
  claimed,   \* claimed messages that are still to be handled
  current,   \* the message being handled
  outcome,   \* what Publish returned: ok, transient or permanent error
  faults     \* crashes, overruns and requeues so far

workerVars == <<pc, claimed, current, outcome, faults>>

\* A message as ClaimOutboxMessagesReady returned it.
ClaimedMessage == [op : Ops, status : {"pending", "retrying"}, attempt : Nat]
NoMessage == [op |-> "none", status |-> "none", attempt |-> 0]
Outcomes == {"none", "ok", "transient", "permanent"}

WorkerTypeOK ==
  /\ pc \in [Workers -> {"idle", "batch", "publishing", "record"}]
  /\ claimed \in [Workers -> SUBSET ClaimedMessage]
  /\ current \in [Workers -> ClaimedMessage \cup {NoMessage}]
  /\ outcome \in [Workers -> Outcomes]
  /\ faults \in Nat
  /\ \A w \in Workers :
       /\ pc[w] \in {"publishing", "record"} => current[w] \in ClaimedMessage
       /\ pc[w] = "record" => outcome[w] # "none"

WorkerInit ==
  /\ pc = [w \in Workers |-> "idle"]
  /\ claimed = [w \in Workers |-> {}]
  /\ current = [w \in Workers |-> NoMessage]
  /\ outcome = [w \in Workers |-> "none"]
  /\ faults = 0

\* The messages w works on: its lease on one of them may still be running.
HeldBy(w) ==
  {m.op : m \in claimed[w]} \cup (IF pc[w] \in {"publishing", "record"} THEN {current[w].op} ELSE {})

-----------------------------------------------------------------------------
\* SKIP LOCKED and the limit make the batch any non-empty part of what is ready.
ClaimBatch(w) ==
  /\ pc[w] = "idle"
  /\ \E batch \in SUBSET ReadyMessages :
       /\ batch # {} /\ Cardinality(batch) <= BatchSize
       /\ ClaimOutboxMessagesReady(w, batch)
       /\ claimed' = [claimed EXCEPT ![w] =
            {[op |-> o, status |-> outbox[o].status, attempt |-> outbox[o].attempt] : o \in batch}]
  /\ pc' = [pc EXCEPT ![w] = "batch"]
  /\ UNCHANGED <<current, outcome, faults>>

\* publishMessage takes the next message of the batch into Publish.
Take(w, m) ==
  /\ pc[w] = "batch" /\ m \in claimed[w]
  /\ claimed' = [claimed EXCEPT ![w] = @ \ {m}]
  /\ current' = [current EXCEPT ![w] = m]

\* Publish returns.
PublishReturns(w, r) ==
  /\ pc' = [pc EXCEPT ![w] = "record"]
  /\ outcome' = [outcome EXCEPT ![w] = r]

\* Mutants: one attempt too many; the operation's status name on the row.
RecordedStatusLate(m, r) ==
  CASE r = "ok" -> "published"
    [] r = "transient" /\ m.attempt + 1 <= MaxAttempts -> "retrying"
    [] OTHER -> "dead_lettered"
RecordedStatusFailed(m, r) == IF r = "ok" THEN "published" ELSE "failed"
\* Mutant: a call without an answer counts as a publication.
RecordedStatusOptimistic(m, r) == IF r = "permanent" THEN "dead_lettered" ELSE "published"

\* The status that publishMessage records for what Publish returned.
RecordedStatus(m, r) ==
  CASE r = "ok" -> "published"
    [] r = "transient" /\ m.attempt + 1 < MaxAttempts -> "retrying"
    [] OTHER -> "dead_lettered"

\* The outcome is recorded, or refused as stale, and the batch goes on.
RecordOutcome(w) ==
  /\ pc[w] = "record"
  /\ RecordOutboxPublishTransition(w, current[w], RecordedStatus(current[w], outcome[w]))
  /\ pc' = [pc EXCEPT ![w] = IF claimed[w] = {} THEN "idle" ELSE "batch"]
  /\ current' = [current EXCEPT ![w] = NoMessage]
  /\ outcome' = [outcome EXCEPT ![w] = "none"]
  /\ UNCHANGED <<claimed, faults>>

\* The process dies, or stops on an error or a signal, and starts again.
Restart(w) ==
  /\ pc' = [pc EXCEPT ![w] = "idle"]
  /\ claimed' = [claimed EXCEPT ![w] = {}]
  /\ current' = [current EXCEPT ![w] = NoMessage]
  /\ outcome' = [outcome EXCEPT ![w] = "none"]

Fault == faults < MaxFaults /\ faults' = faults + 1

Crash(w) ==
  /\ pc[w] # "idle" /\ Fault /\ Restart(w)
  /\ UNCHANGED storeVars

\* A retry delay ends, or the lease of a worker that is gone.
DelayEnds(o) ==
  /\ BecomesDue(o)
  /\ \A w \in Workers : outbox[o].holder = w => o \notin HeldBy(w)
  /\ UNCHANGED workerVars

\* The lease runs out under a worker that still works on the message.
LeaseOverrun(o) ==
  /\ BecomesDue(o) /\ Fault
  /\ \E w \in Workers : outbox[o].holder = w /\ o \in HeldBy(w)
  /\ UNCHANGED <<pc, claimed, current, outcome>>

\* lifecycle-admin outbox requeue.
OperatorRequeue(o) ==
  /\ RequeueOutboxMessage(o) /\ Fault
  /\ UNCHANGED <<pc, claimed, current, outcome>>
=============================================================================
