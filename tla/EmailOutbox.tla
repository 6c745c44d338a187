---------------------------- MODULE EmailOutbox ----------------------------
(***************************************************************************)
(* The encrypted email queue: the email_outbox table                       *)
(* (internal/store/email_outbox.go), the worker that delivers it           *)
(* (internal/worker/emailoutbox) and the operator's requeue.               *)
(*                                                                         *)
(* A worker claims a batch under a lease, delivers every item in a         *)
(* goroutine of its own and claims again when all of them have returned.   *)
(* The claim also takes rows that another worker left in sending after its *)
(* lease ran out.  A transition compares the row with the status sending   *)
(* and the attempt count of the claim, and not with the lease or its       *)
(* owner.                                                                  *)
(*                                                                         *)
(* The Send Mail service may have accepted a mail although Send returns an *)
(* error.  Faults are what may cost a second copy of a mail: a worker that *)
(* dies or cannot record an outcome, a lease that runs out under a running *)
(* delivery, an error after acceptance, and the operator's requeue.        *)
(* Payload and nonce are in the row exactly when it is not sent or expired *)
(* (a constraint of the table), so they are no state of the model.         *)
(***************************************************************************)
EXTENDS Naturals, FiniteSets

CONSTANTS
  Mails,        \* idempotency keys
  Expiring,     \* mails with an expires_at
  Workers,      \* email worker processes
  BatchSize,    \* EMAIL_OUTBOX_BATCH_SIZE
  MaxAttempts,  \* EMAIL_OUTBOX_MAX_ATTEMPTS
  MaxFaults     \* bound on faults

ASSUME EmailAssumption ==
  /\ Expiring \subseteq Mails
  /\ BatchSize \in Nat \ {0} /\ MaxAttempts \in Nat \ {0} /\ MaxFaults \in Nat

VARIABLES
  row,       \* email_outbox: status, attempt_count, and whether available_at
             \* (of a sending row: lease_until) has passed
  lapsed,    \* mails whose expires_at has passed
  work,      \* items each worker has claimed and not finished
  accepted,  \* copies of each mail the Send Mail service has accepted
  faults

vars == <<row, lapsed, work, accepted, faults>>

Statuses == {"absent", "pending", "sending", "retrying", "sent", "dead_lettered", "expired"}
Row == [status : Statuses, attempt : Nat, due : BOOLEAN]

\* An item as ClaimEmailOutboxReady returned it, whether it had expired at that
\* time, and what its delivery has come to.
Item == [mail : Mails, attempt : Nat, late : BOOLEAN,
         result : {"none", "ok", "transient", "permanent"}]

\* The types of the variables.
TypeOK ==
  /\ row \in [Mails -> Row]
  /\ lapsed \subseteq Expiring
  /\ work \in [Workers -> SUBSET Item]
  /\ accepted \in [Mails -> Nat]
  /\ faults \in Nat

Init ==
  /\ row = [m \in Mails |-> [status |-> "absent", attempt |-> 0, due |-> FALSE]]
  /\ lapsed = {}
  /\ work = [w \in Workers |-> {}]
  /\ accepted = [m \in Mails |-> 0]
  /\ faults = 0

Fault == faults < MaxFaults /\ faults' = faults + 1
Held(m) == \E w \in Workers : \E i \in work[w] : i.mail = m

-----------------------------------------------------------------------------
(* The table.                                                              *)

\* enqueueEmailTx, in the transaction of the token or quota change it belongs to.
EnqueueEmail(m) ==
  /\ row[m].status = "absent"
  /\ row' = [row EXCEPT ![m] = [status |-> "pending", attempt |-> 0, due |-> TRUE]]
  /\ UNCHANGED <<lapsed, work, accepted, faults>>

\* Mutant: rows a dead worker left in sending are forgotten.
ReadyUnclaimed == {m \in Mails : row[m].status \in {"pending", "retrying"} /\ row[m].due}

\* Mutant: the claim does not look at the lease of a sending row.
ReadyLeased == {m \in Mails : \/ row[m].status \in {"pending", "retrying"} /\ row[m].due
                              \/ row[m].status = "sending"}

Ready == {m \in Mails : row[m].status \in {"pending", "retrying", "sending"} /\ row[m].due}

ClaimEmailOutboxReady(w) ==
  /\ work[w] = {}
  /\ \E batch \in SUBSET Ready :
       /\ batch # {} /\ Cardinality(batch) <= BatchSize
       /\ row' = [m \in Mails |-> IF m \in batch
                                  THEN [row[m] EXCEPT !.status = "sending", !.due = FALSE]
                                  ELSE row[m]]
       /\ work' = [work EXCEPT ![w] =
            {[mail |-> m, attempt |-> row[m].attempt, late |-> m \in lapsed,
              result |-> "none"] : m \in batch}]
  /\ UNCHANGED <<lapsed, accepted, faults>>

\* The row is still in the state of a claim with that attempt count.
TransitionApplies(i) == row[i.mail].status = "sending" /\ row[i.mail].attempt = i.attempt

TransitionEmailOutbox(i, status, attempt) ==
  IF TransitionApplies(i)
  THEN row' = [row EXCEPT ![i.mail] = [status |-> status, attempt |-> attempt,
                                       due |-> FALSE]]
  ELSE UNCHANGED row

\* email-outbox-admin requeue.
RequeueEmailOutbox(m) ==
  /\ row[m].status = "dead_lettered" /\ m \notin lapsed
  /\ row' = [row EXCEPT ![m] = [status |-> "retrying", attempt |-> 0, due |-> TRUE]]
  /\ Fault
  /\ UNCHANGED <<lapsed, work, accepted>>

-----------------------------------------------------------------------------
(* deliver.                                                                *)

\* Decrypt or Render fails: no Send call, and the mail is dead-lettered.
Unrenderable(w, i) ==
  /\ i \in work[w] /\ i.result = "none" /\ ~i.late
  /\ work' = [work EXCEPT ![w] = (@ \ {i}) \cup {[i EXCEPT !.result = "permanent"]}]
  /\ UNCHANGED <<row, lapsed, accepted, faults>>

\* Send returns, possibly with an error after the mail was accepted.
Send(w, i) ==
  /\ i \in work[w] /\ i.result = "none" /\ ~i.late
  /\ \E r \in {"ok", "transient", "permanent"} :
       /\ work' = [work EXCEPT ![w] = (@ \ {i}) \cup {[i EXCEPT !.result = r]}]
       /\ \/ r # "ok" /\ UNCHANGED <<accepted, faults>>
          \/ /\ accepted' = [accepted EXCEPT ![i.mail] = @ + 1]
             /\ IF r = "ok" THEN UNCHANGED faults ELSE Fault
  /\ UNCHANGED <<row, lapsed>>

\* Mutant: a failure that may have reached the receiver counts as sent.
OutcomeOptimistic(i) ==
  CASE i.late -> "expired"
    [] i.result \in {"ok", "transient"} -> "sent"
    [] OTHER -> "dead_lettered"

\* The status deliver records.
Outcome(i) ==
  CASE i.late -> "expired"
    [] i.result = "ok" -> "sent"
    [] i.result = "transient" /\ i.attempt + 1 < MaxAttempts -> "retrying"
    [] OTHER -> "dead_lettered"

Finish(w, i) ==
  /\ i \in work[w] /\ (i.late \/ i.result # "none")
  /\ TransitionEmailOutbox(i, Outcome(i), IF i.late THEN i.attempt ELSE i.attempt + 1)
  /\ work' = [work EXCEPT ![w] = @ \ {i}]
  /\ UNCHANGED <<lapsed, accepted, faults>>

\* The transition fails in the store; the worker stops when its other deliveries
\* have returned.
FinishFails(w, i) ==
  /\ i \in work[w] /\ (i.late \/ i.result # "none")
  /\ work' = [work EXCEPT ![w] = @ \ {i}]
  /\ Fault
  /\ UNCHANGED <<row, lapsed, accepted>>

Crash(w) ==
  /\ work[w] # {}
  /\ work' = [work EXCEPT ![w] = {}]
  /\ Fault
  /\ UNCHANGED <<row, lapsed, accepted>>

-----------------------------------------------------------------------------
(* Time.                                                                   *)

ExpiryPasses(m) ==
  /\ m \in Expiring \ lapsed
  /\ lapsed' = lapsed \cup {m}
  /\ UNCHANGED <<row, work, accepted, faults>>

BecomesDue(m) ==
  /\ row[m].status \in {"retrying", "sending"} /\ ~row[m].due
  /\ row' = [row EXCEPT ![m].due = TRUE]

\* A retry delay ends, or the lease of a worker that is gone.
DelayEnds(m) ==
  /\ BecomesDue(m) /\ (row[m].status = "sending" => ~Held(m))
  /\ UNCHANGED <<lapsed, work, accepted, faults>>

\* The lease runs out under a delivery.
LeaseOverrun(m) ==
  /\ BecomesDue(m) /\ row[m].status = "sending" /\ Held(m)
  /\ Fault
  /\ UNCHANGED <<lapsed, work, accepted>>

-----------------------------------------------------------------------------
Deliver(w) == \E i \in work[w] : Unrenderable(w, i) \/ Send(w, i) \/ Finish(w, i)

Next ==
  \/ \E m \in Mails : \/ EnqueueEmail(m) \/ RequeueEmailOutbox(m)
                      \/ ExpiryPasses(m) \/ DelayEnds(m) \/ LeaseOverrun(m)
  \/ \E w \in Workers : \/ ClaimEmailOutboxReady(w) \/ Deliver(w) \/ Crash(w)
                        \/ \E i \in work[w] : FinishFails(w, i)

Spec == Init /\ [][Next]_vars

\* Workers are restarted and poll for ever, Send has a timeout, and time passes.
Fairness ==
  /\ \A w \in Workers : WF_vars(ClaimEmailOutboxReady(w)) /\ WF_vars(Deliver(w))
  /\ \A m \in Mails : WF_vars(DelayEnds(m))

LiveSpec == Spec /\ Fairness

-----------------------------------------------------------------------------
(* Properties.                                                             *)

QueueState(m) ==
  CASE row[m].status \in {"pending", "sending", "retrying"} -> "open"
    [] row[m].status = "sent" -> "delivered"
    [] row[m].status = "dead_lettered" -> "given_up"
    [] OTHER -> row[m].status

Queue == INSTANCE DeliveryQueue WITH
  Messages <- Mails,
  state <- [m \in Mails |-> QueueState(m)],
  received <- {m \in Mails : accepted[m] > 0}

\* The email queue keeps the promise of a transactional outbox: sent only if the
\* Send Mail service accepted the mail, sent and expired for good, whatever
\* outcome of an overrun claim arrives late (deliver, TransitionEmailOutbox).
ImplementsQueue == Queue!Spec

\* A row that may be claimed has attempts left, also for a worker that claimed
\* it before a requeue set the count back (the limit in deliver).
AttemptsBounded ==
  \A m \in Mails :
    /\ row[m].attempt <= MaxAttempts
    /\ QueueState(m) = "open" => row[m].attempt < MaxAttempts

\* Every copy of a mail after the first one is paid for by a fault: as long as
\* nothing fails, two workers never deliver the same mail (the lease and the
\* comparison in TransitionEmailOutbox).
CopiesCostFaults == \A m \in Mails : accepted[m] <= 1 + faults

\* Every mail is sent, dead-lettered or expired in the end, the ones left behind
\* in sending by a dead worker included (the second branch of the claim).
MailSettles ==
  \A m \in Mails : (QueueState(m) = "open") ~> (QueueState(m) # "open")
=============================================================================
