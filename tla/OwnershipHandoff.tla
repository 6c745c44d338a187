-------------------------- MODULE OwnershipHandoff --------------------------
(***************************************************************************)
(* The ownership handoff of one brand cloud: internal/store/               *)
(* ownership_handoff*.go, its saga worker internal/worker/handoff, and the *)
(* triggers of migrations 058 and 059.                                     *)
(*                                                                         *)
(* An accepted transfer freezes the cloud at Billing and at every          *)
(* producer, both users confirm the balance Billing has settled, Billing   *)
(* authorizes the commit, the owner is swapped in one transaction, and     *)
(* everyone releases.  Until the swap the source may cancel, and then      *)
(* everyone lets go of what they hold.                                     *)
(*                                                                         *)
(* A transaction under the cloud's lock is one step, and so is a remote    *)
(* call; what a worker or a browser session has read is kept between them. *)
(* Billing and the producers are external: they are idempotent per         *)
(* operation, and a producer's abort is a tombstone for a late prepare.    *)
(***************************************************************************)
EXTENDS Naturals, FiniteSets

CONSTANTS
  Producers,     \* the participants other than Billing
  Workers,       \* concurrent steps of the saga workers
  Sessions,      \* requests of the two users that are handled concurrently
  NoWorker,
  MaxSnapshots,  \* balances Billing settles for this operation
  MaxFaults      \* crashes, overrun leases, failing calls, refusals, disabled users, expiry

ASSUME HandoffAssumption ==
  /\ Producers # {} /\ "billing" \notin Producers
  /\ NoWorker \notin Workers /\ Workers \cap Sessions = {}
  /\ MaxSnapshots \in Nat \ {0} /\ MaxFaults \in Nat

Users == {"source", "target"}
Participants == Producers \cup {"billing"}
Actors == Workers \cup Sessions
Snapshots == 1..MaxSnapshots

VARIABLES
  transfer,      \* status of the invitation
  expired,       \* its time has passed
  active,        \* users who are enabled and verified
  enrollments,   \* factory enrollments of the cloud are still open
  phase,         \* phase of the handoff, none before the acceptance
  prepared, aborted, finalized,  \* participants with an acknowledgement
  snapshot,      \* newest balance stored, 0 if none
  requests,      \* confirmations asked for, as <<user, snapshot>>
  confirmed,     \* confirmations Billing has acknowledged
  commitRequest, \* balance of the commit request, 0 if none
  committed,     \* there is a committed decision
  canceled,      \* there is a canceled decision
  revoked,       \* balance of the commit request it names, 0 if none
  owner,
  due,           \* the saga's job is available
  lease,         \* the worker whose lease on it is not over
  woken,         \* the generation has changed since the last claim
  bill,          \* the operation at Billing
  hold,          \* what each producer holds for the operation
  pc,            \* what each worker and each browser session does
  part,          \* the participant a worker attends to, or none
  about,         \* the confirmation a session or a worker is about
  answer,        \* Billing's answer: a balance and whose consent it shows
  progress,      \* the worker's step has got somewhere
  faults

handoffVars == <<phase, prepared, aborted, finalized, snapshot, requests, confirmed, commitRequest,
                 committed, canceled, revoked, owner>>
userVars == <<transfer, expired, active, enrollments>>
jobVars == <<due, lease, woken>>
localVars == <<part, about, answer, progress>>
vars == <<handoffVars, userVars, jobVars, localVars, pc, bill, hold, faults>>

Phases == {"none", "preparing", "committing", "finalizing", "succeeded", "canceling", "canceled"}
NoConfirmation == [user |-> "none", version |-> 0]
NoAnswer == [version |-> 0, consents |-> {}]

\* The types of the variables.
TypeOK ==
  /\ transfer \in {"pending", "accepted", "canceled"} /\ expired \in BOOLEAN
  /\ active \subseteq Users /\ enrollments \in BOOLEAN
  /\ phase \in Phases
  /\ prepared \subseteq Participants /\ aborted \subseteq Participants
  /\ finalized \subseteq Participants
  /\ snapshot \in 0..MaxSnapshots /\ requests \subseteq Users \X Snapshots
  /\ confirmed \subseteq requests /\ commitRequest \in 0..MaxSnapshots
  /\ committed \in BOOLEAN /\ canceled \in BOOLEAN /\ revoked \in 0..MaxSnapshots
  /\ owner \in Users
  /\ due \in BOOLEAN /\ lease \in Workers \cup {NoWorker} /\ woken \in BOOLEAN
  /\ bill \in [phase : {"none", "prepared", "authorized", "finalized", "aborting", "aborted"},
               version : 0..MaxSnapshots, consents : SUBSET Users, grant : 0..MaxSnapshots]
  /\ hold \in [Producers -> {"none", "held", "aborted", "released"}]
  /\ pc \in [Actors -> {"idle", "advance", "prepare_billing", "check_prepare", "prepare",
                        "settlement", "record_prepare", "commit", "authorize", "swap", "release",
                        "record_release", "replay_prepare", "abort_billing",
                        "record_abort_billing", "check_abort", "abort", "record_abort", "preview",
                        "balance", "request", "confirm", "acknowledge", "finish"}]
  /\ part \in [Workers -> Participants \cup {"none"}]
  /\ about \in [Actors -> [user : Users \cup {"none"}, version : 0..MaxSnapshots]]
  /\ answer \in [Actors -> [version : 0..MaxSnapshots, consents : SUBSET Users]]
  /\ progress \in [Workers -> BOOLEAN]
  /\ faults \in 0..MaxFaults

Init ==
  /\ transfer = "pending" /\ expired = FALSE /\ active = Users /\ enrollments \in BOOLEAN
  /\ phase = "none" /\ prepared = {} /\ aborted = {} /\ finalized = {}
  /\ snapshot = 0 /\ requests = {} /\ confirmed = {} /\ commitRequest = 0
  /\ committed = FALSE /\ canceled = FALSE /\ revoked = 0 /\ owner = "source"
  /\ due = FALSE /\ lease = NoWorker /\ woken = FALSE
  /\ bill = [phase |-> "none", version |-> 0, consents |-> {}, grant |-> 0]
  /\ hold = [p \in Producers |-> "none"]
  /\ pc = [a \in Actors |-> "idle"]
  /\ part = [w \in Workers |-> "none"]
  /\ about = [a \in Actors |-> NoConfirmation] /\ answer = [a \in Actors |-> NoAnswer]
  /\ progress = [w \in Workers |-> FALSE] /\ faults = 0

-----------------------------------------------------------------------------
(* The saga's job.  A claim writes a new lease id and its end, and reads   *)
(* the generation.  A worker has at most one claim and a lease that is     *)
(* over never counts again, so its worker's name stands for both columns.  *)

\* The trigger wake_cloud_handoff_job.
Wake == due' = TRUE /\ woken' = TRUE /\ UNCHANGED lease

HoldsLease(w) == lease = w

Goto(w, step) == pc' = [pc EXCEPT ![w] = step]

\* A worker or a session is done with its locals.
Forget(a) ==
  /\ about' = [about EXCEPT ![a] = NoConfirmation]
  /\ answer' = [answer EXCEPT ![a] = NoAnswer]

\* AdvanceHandoffJob returns an outcome; for a browser session, the handler returns.
Return(a, ok) ==
  /\ Forget(a)
  /\ IF a \in Workers
     THEN /\ Goto(a, "finish") /\ progress' = [progress EXCEPT ![a] = ok]
          /\ part' = [part EXCEPT ![a] = "none"]
     ELSE Goto(a, "idle") /\ UNCHANGED <<part, progress>>

\* The worker drops what it does without touching the job.
Abandon(w) ==
  /\ Forget(w) /\ Goto(w, "idle")
  /\ progress' = [progress EXCEPT ![w] = FALSE]
  /\ part' = [part EXCEPT ![w] = "none"]

\* checkHandoffLease after a call to Billing; the call it precedes comes later.
CheckHandoffLease(w, step, next) ==
  /\ pc[w] = step /\ HoldsLease(w) /\ Goto(w, next)
  /\ UNCHANGED <<handoffVars, userVars, jobVars, localVars, bill, hold, faults>>

\* ErrHandoffLeaseLost.
LeaseLost(w, step) ==
  /\ pc[w] = step /\ ~HoldsLease(w)
  /\ Abandon(w)
  /\ UNCHANGED <<handoffVars, userVars, jobVars, bill, hold, faults>>

\* Mutant: a canceled transfer has nothing left to do.
ClaimableUntilVerdict == phase \in {"preparing", "committing", "finalizing"}

\* The handoff has a job and is not over.
Claimable == phase \notin {"none", "succeeded", "canceled"}

ClaimHandoffJobs(w) ==
  /\ pc[w] = "idle" /\ due /\ lease = NoWorker /\ Claimable
  /\ lease' = w /\ woken' = FALSE
  /\ Goto(w, "advance")
  /\ UNCHANGED <<handoffVars, userVars, localVars, bill, hold, due, faults>>

\* available_at after the step: a wake-up since the claim wins over its delay.
AvailableNow(w) == progress[w] \/ woken

FinishHandoffJob(w) ==
  /\ pc[w] = "finish"
  /\ IF HoldsLease(w)
     THEN due' = AvailableNow(w) /\ lease' = NoWorker /\ UNCHANGED woken
     ELSE UNCHANGED jobVars
  /\ Abandon(w)
  /\ UNCHANGED <<handoffVars, userVars, bill, hold, faults>>

\* A delay of the job ends.
JobBecomesDue ==
  /\ phase # "none" /\ ~due /\ due' = TRUE
  /\ UNCHANGED <<handoffVars, userVars, localVars, lease, woken, pc, bill, hold, faults>>

Fault == faults < MaxFaults /\ faults' = faults + 1

\* A lease ends; before its worker has finished only if that one is stuck.
LeaseEnds ==
  /\ lease # NoWorker /\ lease' = NoWorker
  /\ IF pc[lease] = "idle" THEN UNCHANGED faults ELSE Fault
  /\ UNCHANGED <<handoffVars, userVars, localVars, due, woken, pc, bill, hold>>

WorkerCrash(w) ==
  /\ pc[w] # "idle" /\ Fault /\ Abandon(w)
  /\ UNCHANGED <<handoffVars, userVars, jobVars, bill, hold>>

\* AdvanceHandoffJob: a worker with its lease looks at the phase and at what is
\* missing, and starts on the first thing it finds.
Advances(w, phases) == pc[w] = "advance" /\ HoldsLease(w) /\ phase \in phases

-----------------------------------------------------------------------------
(* Remote calls.  A failing call may have had its effect or not.           *)

CallBilling(w, effect, next) ==
  /\ \/ bill' = effect /\ Goto(w, next) /\ UNCHANGED <<localVars, faults>>
     \/ bill' \in {bill, effect} /\ Fault /\ Return(w, FALSE)
  /\ UNCHANGED <<handoffVars, userVars, jobVars, hold>>

CallProducer(w, effect, next) ==
  /\ \/ hold' = [hold EXCEPT ![part[w]] = effect] /\ Goto(w, next)
        /\ UNCHANGED <<localVars, faults>>
     \/ hold' \in {hold, [hold EXCEPT ![part[w]] = effect]} /\ Fault /\ Return(w, FALSE)
  /\ UNCHANGED <<handoffVars, userVars, jobVars, bill>>

\* The calls at Billing, which are idempotent per operation.
BillPrepared == IF bill.phase = "none" THEN [bill EXCEPT !.phase = "prepared"] ELSE bill
BillAuthorizes(version) ==
  \/ bill.phase = "authorized"
  \/ bill.phase = "prepared" /\ bill.version = version /\ bill.consents = Users
BillAuthorized(version) ==
  [bill EXCEPT !.phase = "authorized", !.grant = version]
BillAborts == bill.phase # "finalized" /\ (bill.grant # 0 => revoked = bill.grant)
BillAborted ==
  IF bill.phase = "aborted" THEN bill ELSE [bill EXCEPT !.phase = "aborting"]

\* A new settled balance voids the consents to the one before.
BillingSettles ==
  /\ bill.phase = "prepared" /\ bill.version < MaxSnapshots
  /\ bill' = [bill EXCEPT !.version = @ + 1, !.consents = {}]
  /\ UNCHANGED <<handoffVars, userVars, jobVars, localVars, pc, hold, faults>>

\* Billing certifies that it has let go.
BillingReleases ==
  /\ bill.phase = "aborting" /\ bill' = [bill EXCEPT !.phase = "aborted"]
  /\ UNCHANGED <<handoffVars, userVars, jobVars, localVars, pc, hold, faults>>

-----------------------------------------------------------------------------
(* Preparation.                                                            *)

\* The users and the factory side change on their own.
InviteExpires ==
  /\ ~expired /\ expired' = TRUE /\ Fault
  /\ UNCHANGED <<handoffVars, jobVars, localVars, transfer, active, enrollments, pc, bill, hold>>

UserChanges(u) ==
  /\ IF u \in active THEN active' = active \ {u} /\ Fault
                     ELSE active' = active \cup {u} /\ UNCHANGED faults
  /\ UNCHANGED <<handoffVars, jobVars, localVars, transfer, expired, enrollments, pc, bill, hold>>

EnrollmentsDrain ==
  /\ enrollments /\ enrollments' = FALSE
  /\ UNCHANGED <<handoffVars, jobVars, localVars, transfer, expired, active, pc, bill, hold,
                 faults>>

AcceptOwnerHandoff ==
  /\ transfer = "pending" /\ ~expired /\ active = Users
  /\ transfer' = "accepted" /\ phase' = "preparing" /\ Wake
  /\ UNCHANGED <<localVars, prepared, aborted, finalized, snapshot, requests, confirmed,
                 commitRequest, committed, canceled, revoked, owner, expired, active, enrollments,
                 pc, bill, hold, faults>>

\* handoffPreparation: every participant holds and has drained.
AllParticipantsPrepared == prepared = Participants /\ ~enrollments

\* confirmableHandoff, and the part of validateHandoffCommitTx it shares.
Unhindered ==
  /\ transfer = "accepted" /\ ~expired /\ active = Users /\ owner = "source"
  /\ AllParticipantsPrepared
ConfirmableHandoff == phase = "preparing" /\ Unhindered

\* advanceHandoffPreparation: Billing first, then one producer, then the
\* confirmations the users have asked for, then the commit.  A confirmed request
\* has an open row again if the user repeats it under another idempotency key.
AdvanceHandoffPreparation(w) ==
  LET missing == Participants \ prepared
      current == {r \in requests : r[2] = snapshot}
  IN
  /\ Advances(w, {"preparing"})
  /\ \/ /\ missing # {}
        /\ \E p \in IF missing = {"billing"} THEN {"none"} ELSE missing \ {"billing"} :
             part' = [part EXCEPT ![w] = p]
        /\ Goto(w, IF "billing" \in missing THEN "prepare_billing" ELSE "prepare")
        /\ UNCHANGED <<about, answer, progress>>
     \/ /\ missing = {}
        /\ \E r \in current : about' = [about EXCEPT ![w] = [user |-> r[1], version |-> r[2]]]
        /\ Goto(w, "preview")
        /\ UNCHANGED <<part, answer, progress>>
     \/ /\ missing = {} /\ current \subseteq confirmed
        /\ IF \A u \in Users : <<u, snapshot>> \in confirmed
           THEN Goto(w, "commit") /\ UNCHANGED localVars
           ELSE Return(w, FALSE)
  /\ UNCHANGED <<handoffVars, userVars, jobVars, bill, hold, faults>>

PrepareBilling(w) ==
  /\ pc[w] = "prepare_billing"
  /\ CallBilling(w, BillPrepared, IF part[w] = "none" THEN "settlement" ELSE "check_prepare")

\* A producer that has let go refuses a late prepare.
PrepareProducer(w) ==
  /\ pc[w] = "prepare"
  /\ IF hold[part[w]] \in {"none", "held"}
     THEN CallProducer(w, "held", "record_prepare")
     ELSE Return(w, FALSE) /\ UNCHANGED <<handoffVars, userVars, jobVars, bill, hold, faults>>

\* Billing's balance is the evidence that it has drained; it may have blockers.
Settlement(w) ==
  /\ pc[w] = "settlement"
  /\ \/ /\ bill.phase = "prepared" /\ bill.version # 0
        /\ part' = [part EXCEPT ![w] = "billing"] /\ Goto(w, "record_prepare")
        /\ UNCHANGED <<about, answer, progress>>
     \/ Return(w, FALSE)
  /\ UNCHANGED <<handoffVars, userVars, jobVars, bill, hold, faults>>

\* An acknowledgement that is there already may differ from the new one.
RecordCloudHandoffPrepareAck(w) ==
  /\ pc[w] = "record_prepare"
  /\ \/ /\ part[w] \in prepared
        /\ \E ok \in BOOLEAN : Return(w, ok)
        /\ UNCHANGED <<prepared, jobVars>>
     \/ /\ part[w] \notin prepared /\ phase \in {"preparing", "canceling"}
        /\ prepared' = prepared \cup {part[w]}
        /\ Wake /\ Return(w, TRUE)
     \/ /\ part[w] \notin prepared /\ phase \notin {"preparing", "canceling"}
        /\ Return(w, FALSE)
        /\ UNCHANGED <<prepared, jobVars>>
  /\ UNCHANGED <<userVars, bill, hold, faults, phase, aborted, finalized, snapshot, requests,
                 confirmed, commitRequest, committed, canceled, revoked, owner>>

-----------------------------------------------------------------------------
(* Confirmation: by the browser session of a user, or by a worker that     *)
(* repeats what a user has asked for.                                      *)

Settled == [version |-> bill.version, consents |-> bill.consents]

\* GetOwnerHandoffStatus up to Billing's answer, for the confirmation c.
Preview(a, c) ==
  IF ConfirmableHandoff
  THEN /\ about' = [about EXCEPT ![a] = c]
       /\ \E reply \in {NoAnswer} \cup (IF bill.phase = "prepared" THEN {Settled} ELSE {}) :
            answer' = [answer EXCEPT ![a] = reply]
       /\ Goto(a, "balance") /\ UNCHANGED <<part, progress>>
  ELSE Return(a, FALSE)

\* A user looks at the balance, or confirms the one shown last.
OpenSession(a) ==
  /\ pc[a] = "idle" /\ phase = "preparing"
  /\ \E c \in {NoConfirmation} \cup [user : active, version : {snapshot} \ {0}] : Preview(a, c)
  /\ UNCHANGED <<handoffVars, userVars, jobVars, bill, hold, faults>>

\* A worker repeats the confirmation a user has asked for.
PreviewOwnerHandoff(w) ==
  /\ pc[w] = "preview" /\ Preview(w, about[w])
  /\ UNCHANGED <<handoffVars, userVars, jobVars, bill, hold, faults>>

\* recordHandoffBalance keeps an answer that is not older than what is stored.
Recordable(a) ==
  ConfirmableHandoff /\ answer[a].version # 0 /\ answer[a].version >= snapshot

RecordHandoffBalance(a) ==
  /\ pc[a] = "balance"
  /\ IF Recordable(a) THEN snapshot' = answer[a].version ELSE UNCHANGED snapshot
  /\ IF Recordable(a) /\ about[a].version = answer[a].version
     THEN /\ answer' = [answer EXCEPT ![a] = NoAnswer]
          /\ Goto(a, "request") /\ UNCHANGED <<part, about, progress>>
     ELSE Return(a, FALSE)
  /\ UNCHANGED <<userVars, jobVars, bill, hold, faults, phase, prepared, aborted, finalized,
                 requests, confirmed, commitRequest, committed, canceled, revoked, owner>>

Confirmation(a) == <<about[a].user, about[a].version>>

\* The durable intent that precedes the call; repeated, it is the same row, or a
\* new one if the user sends another idempotency key.
RequestConfirmation(a) ==
  /\ pc[a] = "request"
  /\ IF ConfirmableHandoff /\ snapshot = about[a].version
     THEN /\ requests' = requests \cup {Confirmation(a)}
          /\ Wake \/ (Confirmation(a) \in requests /\ UNCHANGED jobVars)
          /\ Goto(a, "confirm") /\ UNCHANGED localVars
     ELSE Return(a, FALSE) /\ UNCHANGED <<requests, jobVars>>
  /\ UNCHANGED <<userVars, bill, hold, faults, phase, prepared, aborted, finalized, snapshot,
                 confirmed, commitRequest, committed, canceled, revoked, owner>>

\* Billing takes the consent to its current balance; the answer may be lost.
ConfirmAtBilling(a) ==
  /\ pc[a] = "confirm"
  /\ \/ /\ bill.phase = "prepared" /\ bill.version = about[a].version
        /\ bill' = [bill EXCEPT !.consents = @ \cup {about[a].user}]
        /\ answer' \in {answer, [answer EXCEPT ![a] = [version |-> bill'.version,
                                                      consents |-> bill'.consents]]}
     \/ UNCHANGED <<bill, answer>>
  /\ Goto(a, "acknowledge")
  /\ UNCHANGED <<handoffVars, userVars, jobVars, hold, part, about, progress, faults>>

AcknowledgeConfirmation(a) ==
  LET ok == /\ Recordable(a) /\ answer[a].version = about[a].version
            /\ about[a].user \in answer[a].consents
  IN
  /\ pc[a] = "acknowledge"
  /\ IF ok THEN /\ confirmed' = confirmed \cup {Confirmation(a)}
                /\ snapshot' = answer[a].version
           ELSE UNCHANGED <<confirmed, snapshot>>
  /\ \/ ok /\ Wake
     \/ (ok => Confirmation(a) \in confirmed) /\ UNCHANGED jobVars
  /\ Return(a, ok)
  /\ UNCHANGED <<userVars, bill, hold, faults, phase, prepared, aborted, finalized, requests,
                 commitRequest, committed, canceled, revoked, owner>>

-----------------------------------------------------------------------------
(* Commit.                                                                 *)

BothConfirmed(version) == \A u \in Users : <<u, version>> \in confirmed

\* validateHandoffCommitTx.
CommitValid ==
  /\ phase \in {"preparing", "committing"} /\ Unhindered
  /\ snapshot # 0 /\ BothConfirmed(snapshot)

\* AdvanceHandoffJob in phase committing.
AdvanceCommit(w) ==
  /\ Advances(w, {"committing"})
  /\ Goto(w, "commit")
  /\ UNCHANGED <<handoffVars, userVars, jobVars, localVars, bill, hold, faults>>

\* CommitOwnerHandoff up to the call: the commit request is durable before
\* Billing can authorize it.
CommitOwnerHandoff(w) ==
  /\ pc[w] = "commit"
  /\ IF ~committed /\ CommitValid /\ commitRequest \in {0, snapshot}
     THEN /\ IF commitRequest = 0
             THEN commitRequest' = snapshot /\ phase' = "committing" /\ Wake
             ELSE UNCHANGED <<commitRequest, phase, jobVars>>
          /\ about' = [about EXCEPT ![w].version = snapshot]
          /\ Goto(w, "authorize") /\ UNCHANGED <<part, answer, progress>>
     ELSE Return(w, committed) /\ UNCHANGED <<commitRequest, phase, jobVars>>
  /\ UNCHANGED <<userVars, bill, hold, faults, prepared, aborted, finalized, snapshot, requests,
                 confirmed, committed, canceled, revoked, owner>>

\* The target has more clouds than its limit, or its membership is disabled.
CommitRefused(w) ==
  /\ pc[w] \in {"commit", "swap"} /\ ~committed /\ Fault /\ Return(w, FALSE)
  /\ UNCHANGED <<handoffVars, userVars, jobVars, bill, hold>>

AuthorizeCommit(w) ==
  /\ pc[w] = "authorize"
  /\ IF BillAuthorizes(about[w].version)
     THEN CallBilling(w, BillAuthorized(about[w].version), "swap")
     ELSE Return(w, FALSE) /\ UNCHANGED <<handoffVars, userVars, jobVars, bill, hold, faults>>

\* Mutant: the phase is not read again after the call.
SwapFromAnyPhase(w) ==
  /\ transfer = "accepted" /\ snapshot = about[w].version /\ commitRequest = about[w].version

\* What commitAuthorizedHandoff checks again under the lock.
SwapValid(w) ==
  /\ CommitValid /\ phase = "committing"
  /\ snapshot = about[w].version /\ commitRequest = about[w].version

\* commitAuthorizedHandoff: decision, owner and phase in one transaction.
CommitAuthorizedHandoff(w) ==
  /\ pc[w] = "swap"
  /\ IF ~committed /\ SwapValid(w)
     THEN /\ committed' = TRUE /\ owner' = "target" /\ phase' = "finalizing"
          /\ Wake /\ Return(w, TRUE)
     ELSE Return(w, committed) /\ UNCHANGED <<committed, owner, phase, jobVars>>
  /\ UNCHANGED <<userVars, bill, hold, faults, prepared, aborted, finalized, snapshot, requests,
                 confirmed, commitRequest, canceled, revoked>>

-----------------------------------------------------------------------------
(* Finalization: Billing first, then the producers.                        *)

\* No participant is missing.
AllDone(acknowledged) == acknowledged = Participants

\* Nobody is missing, and there is nothing to do, once another worker has
\* completed the handoff.
AdvanceHandoffFinalization(w) ==
  LET missing == Participants \ finalized IN
  /\ Advances(w, {"finalizing", "succeeded"})
  /\ IF missing = {} THEN Return(w, FALSE)
     ELSE /\ \E p \in IF "billing" \in missing THEN {"billing"} ELSE missing :
               part' = [part EXCEPT ![w] = p]
          /\ Goto(w, "release") /\ UNCHANGED <<about, answer, progress>>
  /\ UNCHANGED <<handoffVars, userVars, jobVars, bill, hold, faults>>

\* Finalize at Billing, Release at a producer.
Release(w) ==
  /\ pc[w] = "release"
  /\ IF part[w] = "billing"
     THEN CallBilling(w, [bill EXCEPT !.phase = "finalized"], "record_release")
     ELSE CallProducer(w, "released", "record_release")

\* A receipt that differs from the recorded one is refused.
RecordHandoffFinalizationAck(w) ==
  LET new == part[w] \notin finalized /\ phase = "finalizing" IN
  /\ pc[w] = "record_release"
  /\ IF new
     THEN /\ finalized' = finalized \cup {part[w]}
          /\ phase' = IF AllDone(finalized') THEN "succeeded" ELSE phase
          /\ Wake
     ELSE UNCHANGED <<finalized, phase, jobVars>>
  /\ \/ (new \/ part[w] \in finalized) /\ Return(w, TRUE)
     \/ ~new /\ Return(w, FALSE)
  /\ UNCHANGED <<userVars, bill, hold, faults, prepared, aborted, snapshot, requests, confirmed,
                 commitRequest, committed, canceled, revoked, owner>>

-----------------------------------------------------------------------------
(* Cancellation.                                                           *)

\* Mutant: the cancellation does not name the authorization.
NoAuthorization == 0

\* The authorization Billing may have been asked for.
CancellationAuthorization == commitRequest

\* cancelOwnerHandoff, by the source.
CancelOwnerHandoff ==
  /\ "source" \in active
  /\ \/ /\ transfer = "pending" /\ ~expired /\ transfer' = "canceled"
        /\ UNCHANGED <<phase, canceled, revoked, jobVars>>
     \/ /\ transfer = "accepted" /\ phase \in {"preparing", "committing"}
        /\ phase' = "canceling" /\ canceled' = TRUE /\ revoked' = CancellationAuthorization
        /\ Wake /\ UNCHANGED transfer
  /\ UNCHANGED <<localVars, prepared, aborted, finalized, snapshot, requests, confirmed,
                 commitRequest, committed, owner, expired, active, enrollments, pc, bill, hold,
                 faults>>

\* advanceHandoffCancellation: Billing is asked first, but not waited for; a
\* cancellation that another worker has completed misses nobody.
AdvanceHandoffCancellation(w) ==
  LET missing == Participants \ aborted IN
  /\ Advances(w, {"canceling", "canceled"})
  /\ IF missing = {} THEN Return(w, FALSE)
     ELSE /\ \E p \in IF missing = {"billing"} THEN {"none"} ELSE missing \ {"billing"} :
               part' = [part EXCEPT ![w] = p]
          /\ Goto(w, IF "billing" \in missing THEN "replay_prepare" ELSE "abort")
          /\ UNCHANGED <<about, answer, progress>>
  /\ UNCHANGED <<handoffVars, userVars, jobVars, bill, hold, faults>>

\* AdvanceBillingHandoffAbort: the operation is created at Billing if it is not
\* there, so that a late prepare cannot take a hold after the abort.
ReplayPrepare(w) == pc[w] = "replay_prepare" /\ CallBilling(w, BillPrepared, "abort_billing")

\* The worker goes on with a producer, if one is missing.
NextAbort(w) ==
  IF part[w] = "none" THEN Return(w, FALSE) ELSE Goto(w, "check_abort") /\ UNCHANGED localVars

AbortBilling(w) ==
  /\ pc[w] = "abort_billing"
  /\ \/ /\ BillAborts /\ bill' = BillAborted /\ UNCHANGED faults
        /\ IF bill.phase = "aborted" THEN Goto(w, "record_abort_billing") /\ UNCHANGED localVars
                                     ELSE NextAbort(w)
     \/ /\ BillAborts /\ bill' \in {bill, BillAborted} /\ Fault /\ Return(w, FALSE)
     \/ ~BillAborts /\ Return(w, FALSE) /\ UNCHANGED <<bill, faults>>
  /\ UNCHANGED <<handoffVars, userVars, jobVars, hold>>

\* RecordCloudHandoffAbortAck; the last one ends the handoff and wakes the job.
\* As above, a receipt may differ from the recorded one.
AbortAck(p) ==
  IF p \in aborted \/ phase # "canceling"
  THEN UNCHANGED <<aborted, phase, transfer, jobVars>>
  ELSE /\ aborted' = aborted \cup {p}
       /\ IF AllDone(aborted')
          THEN phase' = "canceled" /\ transfer' = "canceled" /\ Wake
          ELSE UNCHANGED <<phase, transfer, jobVars>>

RecordBillingAbortAck(w) ==
  /\ pc[w] = "record_abort_billing"
  /\ AbortAck("billing")
  /\ \/ ("billing" \in aborted \/ phase = "canceling") /\ NextAbort(w)
     \/ ("billing" \in aborted \/ phase # "canceling") /\ Return(w, FALSE)
  /\ UNCHANGED <<bill, hold, faults, expired, active, enrollments, prepared, finalized, snapshot,
                 requests, confirmed, commitRequest, committed, canceled, revoked, owner>>

AbortProducer(w) ==
  pc[w] = "abort" /\ CallProducer(w, "aborted", "record_abort")

RecordCloudHandoffAbortAck(w) ==
  /\ pc[w] = "record_abort"
  /\ AbortAck(part[w])
  /\ \/ (part[w] \in aborted \/ phase = "canceling") /\ Return(w, TRUE)
     \/ (part[w] \in aborted \/ phase # "canceling") /\ Return(w, FALSE)
  /\ UNCHANGED <<bill, hold, faults, expired, active, enrollments, prepared, finalized, snapshot,
                 requests, confirmed, commitRequest, committed, canceled, revoked, owner>>

-----------------------------------------------------------------------------
ConfirmationStep(a) ==
  \/ RecordHandoffBalance(a) \/ RequestConfirmation(a)
  \/ ConfirmAtBilling(a) \/ AcknowledgeConfirmation(a)

WorkerStep(w) ==
  \/ ClaimHandoffJobs(w) \/ FinishHandoffJob(w)
  \/ \E step \in {"advance", "check_prepare", "check_abort"} : LeaseLost(w, step)
  \/ CheckHandoffLease(w, "check_prepare", "prepare") \/ CheckHandoffLease(w, "check_abort", "abort")
  \/ AdvanceHandoffPreparation(w) \/ PrepareBilling(w) \/ PrepareProducer(w) \/ Settlement(w)
  \/ RecordCloudHandoffPrepareAck(w) \/ PreviewOwnerHandoff(w)
  \/ ConfirmationStep(w)
  \/ AdvanceCommit(w) \/ CommitOwnerHandoff(w) \/ AuthorizeCommit(w) \/ CommitAuthorizedHandoff(w)
  \/ CommitRefused(w)
  \/ AdvanceHandoffFinalization(w) \/ Release(w) \/ RecordHandoffFinalizationAck(w)
  \/ AdvanceHandoffCancellation(w) \/ ReplayPrepare(w) \/ AbortBilling(w)
  \/ RecordBillingAbortAck(w) \/ AbortProducer(w) \/ RecordCloudHandoffAbortAck(w)

Next ==
  \/ \E w \in Workers : WorkerStep(w) \/ WorkerCrash(w)
  \/ \E a \in Sessions : OpenSession(a) \/ ConfirmationStep(a)
  \/ \E u \in Users : UserChanges(u)
  \/ AcceptOwnerHandoff \/ CancelOwnerHandoff \/ InviteExpires \/ EnrollmentsDrain
  \/ JobBecomesDue \/ LeaseEnds \/ BillingSettles \/ BillingReleases

Spec == Init /\ [][Next]_vars

\* The workers are restarted and poll for ever, time passes, and Billing
\* completes an abort it has accepted.
LiveSpec ==
  /\ Spec
  /\ \A w \in Workers : WF_vars(WorkerStep(w))
  /\ WF_vars(JobBecomesDue) /\ WF_vars(LeaseEnds) /\ WF_vars(BillingReleases)

-----------------------------------------------------------------------------
(* Properties.                                                             *)

Grip(p) ==
  IF p = "billing"
  THEN CASE bill.phase = "none" -> "none"
         [] bill.phase \in {"aborted", "finalized"} -> "free"
         [] OTHER -> "held"
  ELSE CASE hold[p] = "none" -> "none"
         [] hold[p] = "held" -> "held"
         [] OTHER -> "free"

Atomic == INSTANCE AtomicHandoff WITH
  verdict <- IF committed THEN "commit" ELSE IF canceled THEN "cancel" ELSE "open",
  grip <- [p \in Participants |-> Grip(p)],
  closed <- phase \in {"succeeded", "canceled"}

\* The saga is an atomic handoff: it commits or is canceled, never both; the
\* owner changes only while Billing and every producer hold the cloud; nobody
\* lets go before the verdict, and a late prepare never takes a hold that
\* outlives the handoff (commitAuthorizedHandoff, cancelOwnerHandoff,
\* RecordCloudHandoffAbortAck, RecordHandoffFinalizationAck).
ImplementsAtomicHandoff == Atomic!Spec

\* What Billing has authorized is the balance of the commit request, and both
\* users' confirmations of exactly that balance are stored, whatever balance
\* Billing has settled between preview, confirmation, commit request and call
\* (validateHandoffCommitTx, recordHandoffBalance).
GrantHasConsent ==
  bill.grant # 0 =>
    bill.grant = commitRequest /\ \A u \in Users : <<u, bill.grant>> \in confirmed

\* A cancellation that meets an authorization at Billing names it, also when the
\* call that obtained it was on its way at the time of the cancellation
\* (ensureHandoffCancellationTx).
CancellationNamesGrant ==
  canceled /\ bill.grant # 0 => revoked = bill.grant

\* A phase change, an acknowledgement or a confirmation that arrives after the
\* job was claimed leaves it due, whatever delay the step asks for
\* (wake_cloud_handoff_job, FinishHandoffJob).
WakeIsKept == woken => due

\* Once decided, the handoff is carried out: the cloud is released to the new
\* owner or back to the old one, through crashes, overrun leases, lost answers
\* and users who are disabled (AdvanceHandoffJob).
DecisionIsCarriedOut ==
  /\ phase = "finalizing" ~> phase = "succeeded"
  /\ phase = "canceling" ~> phase = "canceled"
=============================================================================
