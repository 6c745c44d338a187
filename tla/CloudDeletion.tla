--------------------------- MODULE CloudDeletion ---------------------------
(***************************************************************************)
(* The deletion of one brand cloud: internal/store/cloud_deletion*.go, its *)
(* worker internal/worker/clouddeletion, and the triggers of migrations    *)
(* 061 to 063.                                                             *)
(*                                                                         *)
(* A request that finds the cloud empty and settled puts up a fence.  The  *)
(* worker then lets Billing prepare, collects a hold from every producer,  *)
(* writes down a close command and sends it; once Billing has closed, the  *)
(* tombstone is set.  Until then the owner may cancel: the command is      *)
(* retired, everybody lets go, and the fence comes down.                   *)
(*                                                                         *)
(* A transaction under the owner's and the cloud's row locks is one step,  *)
(* and so is a remote call.  The lease of a job is looked at once, before  *)
(* the first call: a worker whose lease is over goes on beside the next    *)
(* one.  An operation is named by its idempotency key.  Billing and the    *)
(* producers are external.                                                 *)
(***************************************************************************)
EXTENDS Naturals, FiniteSets

CONSTANTS
  Producers,       \* the participants other than Billing
  Keys,            \* idempotency keys the owner sends
  Workers, Sessions, NoWorker, NoKey,
  MaxSettlements,  \* settlement receipts Billing issues for an operation
  MaxOwners,       \* changes of ownership
  MaxChanges,      \* changes of members and roles
  MaxFaults        \* crashes, overrun leases, failing calls, disabled owners

ASSUME DeletionAssumption ==
  /\ Producers # {} /\ "billing" \notin Producers /\ Keys # {} /\ NoKey \notin Keys
  /\ NoWorker \notin Workers /\ Workers \cap Sessions = {}
  /\ MaxSettlements \in Nat \ {0} /\ MaxOwners \in Nat /\ MaxChanges \in Nat /\ MaxFaults \in Nat

Actors == Workers \cup Sessions
Settlements == 1..MaxSettlements

VARIABLES
  resources,   \* the cloud has a product, a device, a job or an active run
  access,      \* an enabled member, a pending invitation or transfer, a claim token
  deleted,     \* the tombstone
  ownership,   \* ownership version: the requester owns the cloud when it is even
  authorization,
  ownerActive, \* the requester is enabled and verified
  phase, opOwnership, blocked,            \* the row of each operation
  receipts, attempts, retired, releases,  \* its evidence: holds, close commands, ...
  due, lease, woken,                      \* its job
  bill,        \* the operation at Billing
  hold,        \* what each producer holds for it
  pc, key, seen, scope, todo, command, remote,  \* what each worker and session has read
  changes, faults

opVars == <<phase, opOwnership, blocked, receipts, attempts, retired, releases>>
jobVars == <<due, lease, woken>>
cloudVars == <<resources, access, deleted, ownership, authorization, ownerActive, changes>>
localVars == <<pc, key, seen, scope, todo, command, remote>>
vars == <<opVars, jobVars, cloudVars, localVars, bill, hold, faults>>

Terminal == {"succeeded", "canceled"}
NoVersions == <<0, 0>>
Versions == <<ownership, authorization>>

\* Where a session (the first four) or a worker is.
Steps ==
  {"idle", "preflight", "observed", "admit", "process", "prepare_billing", "hold",
   "record_hold", "status", "prepare_close", "lookup", "status_again", "prepare_again",
   "lookup_again", "close", "resolve", "record_retirement", "complete", "cancel_resolve",
   "cancel_retirement", "cancel_prepare", "cancel_billing", "release", "record_release",
   "record_billing", "cancel_finish", "blockers", "finish"}

\* What Billing knows of an operation.
BillRow == [phase : {"none", "preparing", "closed", "canceling", "canceled"},
            ready : 0..MaxSettlements, issued : 0..MaxSettlements,
            retired : SUBSET Settlements]

\* The types of the variables.
TypeOK ==
  /\ resources \in BOOLEAN /\ access \in BOOLEAN /\ deleted \in BOOLEAN
  /\ ownership \in 0..MaxOwners /\ authorization \in Nat /\ ownerActive \in BOOLEAN
  /\ phase \in [Keys -> {"none", "preparing", "closing", "canceling"} \cup Terminal]
  /\ opOwnership \in [Keys -> 0..MaxOwners] /\ blocked \in [Keys -> BOOLEAN]
  /\ receipts \in [Keys -> SUBSET Producers] /\ attempts \in [Keys -> SUBSET Settlements]
  /\ retired \in [Keys -> SUBSET Settlements] /\ \A k \in Keys : retired[k] \subseteq attempts[k]
  /\ releases \in [Keys -> SUBSET (Producers \cup {"billing"})]
  /\ due \in [Keys -> BOOLEAN] /\ lease \in [Keys -> Workers \cup {NoWorker}]
  /\ woken \in [Keys -> BOOLEAN]
  /\ bill \in [Keys -> BillRow]
  /\ hold \in [Keys -> [Producers -> {"none", "draining", "held", "released"}]]
  /\ pc \in [Actors -> Steps]
  /\ key \in [Actors -> Keys \cup {NoKey}]
  /\ seen \in [Sessions -> (0..MaxOwners) \X Nat] /\ scope \in [Sessions -> (0..MaxOwners) \X Nat]
  /\ todo \in [Workers -> SUBSET Producers] /\ command \in [Workers -> 0..MaxSettlements]
  /\ remote \in [Workers -> {"none", "canceling", "canceled"}]
  /\ changes \in 0..MaxChanges /\ faults \in 0..MaxFaults

Init ==
  /\ resources \in BOOLEAN /\ access = TRUE /\ deleted = FALSE
  /\ ownership = 0 /\ authorization = 1 /\ ownerActive = TRUE
  /\ phase = [k \in Keys |-> "none"] /\ opOwnership = [k \in Keys |-> 0]
  /\ blocked = [k \in Keys |-> FALSE] /\ receipts = [k \in Keys |-> {}]
  /\ attempts = [k \in Keys |-> {}] /\ retired = [k \in Keys |-> {}]
  /\ releases = [k \in Keys |-> {}]
  /\ due = [k \in Keys |-> FALSE] /\ lease = [k \in Keys |-> NoWorker]
  /\ woken = [k \in Keys |-> FALSE]
  /\ bill = [k \in Keys |-> [phase |-> "none", ready |-> 0, issued |-> 0, retired |-> {}]]
  /\ hold = [k \in Keys |-> [p \in Producers |-> "none"]]
  /\ pc = [a \in Actors |-> "idle"] /\ key = [a \in Actors |-> NoKey]
  /\ seen = [s \in Sessions |-> NoVersions] /\ scope = [s \in Sessions |-> NoVersions]
  /\ todo = [w \in Workers |-> {}] /\ command = [w \in Workers |-> 0]
  /\ remote = [w \in Workers |-> "none"] /\ changes = 0 /\ faults = 0

Goto(a, step) == pc' = [pc EXCEPT ![a] = step]
Fault == faults < MaxFaults /\ faults' = faults + 1

-----------------------------------------------------------------------------
(* The cloud, and what the fence keeps out.                                *)

\* fence_cloud_deletion_write, and the fence in user_can_access_brand_cloud.
Fenced == deleted \/ \E k \in Keys : phase[k] \notin {"none", "canceled"}

\* lockDeletionOwner: nothing but the user and the ownership counts.
OwnerLocks == ownerActive /\ ownership % 2 = 0

\* user_can_access_brand_cloud_without_handoff, for the owner.
Operational == OwnerLocks /\ ~deleted

\* cloudDeletionEmptyTx.
Empty == ~resources

ResourcesChange ==
  /\ resources \/ ~Fenced
  /\ resources' = ~resources
  /\ UNCHANGED <<opVars, jobVars, localVars, bill, hold, faults, access, deleted, ownership,
                 authorization, ownerActive, changes>>

\* Invitations, members and roles; each change counts up the version.
AccessChanges ==
  /\ ~Fenced /\ changes < MaxChanges
  /\ changes' = changes + 1 /\ authorization' = authorization + 1
  /\ UNCHANGED <<opVars, jobVars, localVars, bill, hold, faults, resources, access, deleted,
                 ownership, ownerActive>>

OwnershipChanges ==
  /\ ~Fenced /\ ownership < MaxOwners
  /\ ownership' = ownership + 1 /\ authorization' = authorization + 1
  /\ UNCHANGED <<opVars, jobVars, localVars, bill, hold, faults, resources, access, deleted,
                 ownerActive, changes>>

OwnerChanges ==
  /\ ownerActive' = ~ownerActive
  /\ IF ownerActive THEN Fault ELSE UNCHANGED faults
  /\ UNCHANGED <<opVars, jobVars, localVars, bill, hold, resources, access, deleted, ownership,
                 authorization, changes>>

-----------------------------------------------------------------------------
(* The owner's requests.                                                   *)

\* The operation of the same key, or any that is not canceled, answers the request.
HasPrior(k) == phase[k] # "none" \/ \E j \in Keys : phase[j] \notin {"none", "canceled"}

\* The handler returns.
Leave(s) ==
  /\ Goto(s, "idle") /\ key' = [key EXCEPT ![s] = NoKey]
  /\ seen' = [seen EXCEPT ![s] = NoVersions] /\ scope' = [scope EXCEPT ![s] = NoVersions]

\* RequestDeveloperCloudDeletion up to the preflight.
RequestDeveloperCloudDeletion(s, k) ==
  /\ pc[s] = "idle" /\ OwnerLocks /\ ~HasPrior(k)
  /\ seen' = [seen EXCEPT ![s] = Versions] /\ key' = [key EXCEPT ![s] = k]
  /\ Goto(s, "preflight")
  /\ UNCHANGED <<opVars, jobVars, cloudVars, bill, hold, faults, scope, todo, command, remote>>

\* deletionLocalSnapshot before the dependencies are asked.
PreflightBegins(s) ==
  /\ pc[s] = "preflight"
  /\ IF Operational
     THEN scope' = [scope EXCEPT ![s] = Versions] /\ Goto(s, "observed") /\ UNCHANGED <<key, seen>>
     ELSE Leave(s)
  /\ UNCHANGED <<opVars, jobVars, cloudVars, bill, hold, faults, todo, command, remote>>

\* The second snapshot decides, with what the dependencies have said.
PreflightEnds(s) ==
  /\ pc[s] = "observed"
  /\ \/ Operational /\ scope[s] = Versions /\ Empty /\ ~Fenced /\ Goto(s, "admit")
        /\ UNCHANGED <<key, seen, scope>>
     \/ Leave(s)
  /\ UNCHANGED <<opVars, jobVars, cloudVars, bill, hold, faults, todo, command, remote>>

\* Mutant: the preflight has just found the cloud empty.
AdmitsUnchecked(s) ==
  /\ OwnerLocks /\ ~HasPrior(key[s]) /\ seen[s] = Versions /\ ~deleted

\* The second transaction, and the guard of its insert.
Admits(s) ==
  /\ OwnerLocks /\ ~HasPrior(key[s]) /\ seen[s] = Versions /\ Empty
  /\ ~deleted

AdmitDeletion(s) ==
  LET k == key[s] IN
  /\ pc[s] = "admit"
  /\ IF Admits(s)
     THEN /\ phase' = [phase EXCEPT ![k] = "preparing"]
          /\ opOwnership' = [opOwnership EXCEPT ![k] = ownership]
          /\ authorization' = authorization + 1
          /\ due' = [due EXCEPT ![k] = TRUE]
     ELSE UNCHANGED <<phase, opOwnership, authorization, due>>
  /\ Leave(s)
  /\ UNCHANGED <<bill, hold, faults, blocked, receipts, attempts, retired, releases, lease, woken,
                 resources, access, deleted, ownership, ownerActive, changes, todo, command,
                 remote>>

\* The trigger wake_cloud_deletion_job.
Wake(k) ==
  /\ due' = [due EXCEPT ![k] = TRUE] /\ woken' = [woken EXCEPT ![k] = TRUE]
  /\ UNCHANGED lease

SetPhase(k, p) ==
  phase' = [phase EXCEPT ![k] = p] /\ blocked' = [blocked EXCEPT ![k] = FALSE] /\ Wake(k)

RequestCloudDeletionCancellation(k) ==
  /\ OwnerLocks /\ ownership = opOwnership[k] /\ phase[k] \in {"preparing", "closing"}
  /\ SetPhase(k, "canceling")
  /\ UNCHANGED <<cloudVars, localVars, bill, hold, faults, opOwnership, receipts, attempts,
                 retired, releases>>

-----------------------------------------------------------------------------
(* The job.  A claim writes a new lease id and reads the generation, which *)
(* the triggers count up; the worker's name stands for the lease id.       *)

Forget(w) ==
  /\ Goto(w, "idle") /\ key' = [key EXCEPT ![w] = NoKey]
  /\ todo' = [todo EXCEPT ![w] = {}] /\ command' = [command EXCEPT ![w] = 0]
  /\ remote' = [remote EXCEPT ![w] = "none"]

\* AdvanceCloudDeletion has failed and goes on to note why.
Fails(w) == Goto(w, "blockers") /\ UNCHANGED <<key, todo, command, remote>>

ClaimCloudDeletionJobs(w, k) ==
  /\ pc[w] = "idle" /\ phase[k] \notin {"none"} \cup Terminal
  /\ due[k] /\ lease[k] = NoWorker
  /\ lease' = [lease EXCEPT ![k] = w] /\ woken' = [woken EXCEPT ![k] = FALSE]
  /\ key' = [key EXCEPT ![w] = k] /\ Goto(w, "process")
  /\ UNCHANGED <<opVars, cloudVars, bill, hold, faults, due, seen, scope, todo, command, remote>>

\* The close command that is not retired; at most one.
Active(k) == attempts[k] \ retired[k]

\* ProcessCloudDeletionJob and the first read of advanceCloudDeletion.
ProcessCloudDeletionJob(w) ==
  LET k == key[w] IN
  /\ pc[w] = "process"
  /\ \/ lease[k] # w /\ Forget(w)
     \/ /\ lease[k] = w
        /\ \/ phase[k] \in Terminal /\ Goto(w, "finish") /\ UNCHANGED command
           \/ phase[k] = "preparing" /\ Goto(w, "prepare_billing") /\ UNCHANGED command
           \/ phase[k] = "closing" /\ Goto(w, "lookup") /\ UNCHANGED command
           \/ /\ phase[k] = "canceling" /\ Active(k) = {}
              /\ Goto(w, "cancel_prepare") /\ UNCHANGED command
           \/ /\ phase[k] = "canceling" /\ Goto(w, "cancel_resolve")
              /\ \E r \in Active(k) : command' = [command EXCEPT ![w] = r]
        /\ UNCHANGED <<key, todo, remote>>
  /\ UNCHANGED <<opVars, jobVars, cloudVars, bill, hold, faults, seen, scope>>

\* The error path: status metadata, never of an operation that is over.
RecordBlockers(w) ==
  LET k == key[w] IN
  /\ pc[w] = "blockers"
  /\ blocked' = [blocked EXCEPT ![k] = @ \/ phase[k] \notin Terminal]
  /\ Goto(w, "finish")
  /\ UNCHANGED <<jobVars, cloudVars, bill, hold, faults, phase, opOwnership, receipts, attempts,
                 retired, releases, key, seen, scope, todo, command, remote>>

\* A wake-up since the claim wins over the delay of the retry.
FinishCloudDeletionJob(w) ==
  LET k == key[w] IN
  /\ pc[w] = "finish"
  /\ IF lease[k] = w
     THEN /\ lease' = [lease EXCEPT ![k] = NoWorker]
          /\ due' = [due EXCEPT ![k] = woken[k]] /\ UNCHANGED woken
     ELSE UNCHANGED jobVars
  /\ Forget(w)
  /\ UNCHANGED <<opVars, cloudVars, bill, hold, faults, seen, scope>>

JobBecomesDue(k) ==
  /\ phase[k] # "none" /\ ~due[k] /\ due' = [due EXCEPT ![k] = TRUE]
  /\ UNCHANGED <<opVars, cloudVars, localVars, bill, hold, faults, lease, woken>>

\* A lease ends; before its worker has finished only if that one is stuck.
LeaseEnds(k) ==
  /\ lease[k] # NoWorker /\ lease' = [lease EXCEPT ![k] = NoWorker]
  /\ IF key[lease[k]] = k THEN Fault ELSE UNCHANGED faults
  /\ UNCHANGED <<opVars, cloudVars, localVars, bill, hold, due, woken>>

WorkerCrash(w) ==
  /\ pc[w] # "idle" /\ Fault /\ Forget(w)
  /\ UNCHANGED <<opVars, jobVars, cloudVars, bill, hold, seen, scope>>

-----------------------------------------------------------------------------
(* Remote calls.  A call that fails may have had its effect or not.        *)

CallBilling(w, effect, Answered) ==
  /\ \/ bill' = [bill EXCEPT ![key[w]] = effect] /\ Answered /\ UNCHANGED <<key, faults>>
     \/ bill' \in {bill, [bill EXCEPT ![key[w]] = effect]} /\ Fault /\ Fails(w)
  /\ UNCHANGED <<opVars, jobVars, cloudVars, hold, seen, scope>>

CallProducer(w, p, effect, next) ==
  /\ \/ hold' = [hold EXCEPT ![key[w]][p] = effect] /\ Goto(w, next) /\ UNCHANGED faults
     \/ hold' \in {hold, [hold EXCEPT ![key[w]][p] = effect]} /\ Fault /\ Goto(w, "blockers")
  /\ UNCHANGED <<opVars, jobVars, cloudVars, bill, key, seen, scope, todo, command, remote>>

\* An answer that is an error.
Refused(w) ==
  Fails(w) /\ UNCHANGED <<opVars, jobVars, cloudVars, bill, hold, faults, seen, scope>>

\* Usage arrives at Billing, and is settled with a new receipt.
BillingSettles(k) ==
  /\ bill[k].phase = "preparing"
  /\ \/ bill[k].ready # 0 /\ bill' = [bill EXCEPT ![k].ready = 0]
     \/ /\ bill[k].ready = 0 /\ bill[k].issued < MaxSettlements
        /\ bill' = [bill EXCEPT ![k].ready = bill[k].issued + 1, ![k].issued = @ + 1]
  /\ UNCHANGED <<opVars, jobVars, cloudVars, localVars, hold, faults>>

\* Billing's provider certifies that it has let go.
BillingReleases(k) ==
  /\ bill[k].phase = "canceling" /\ bill' = [bill EXCEPT ![k].phase = "canceled"]
  /\ UNCHANGED <<opVars, jobVars, cloudVars, localVars, hold, faults>>

\* A producer that holds finishes the work it has taken on before.
ProducerDrains(k, p) ==
  /\ hold[k][p] = "draining" /\ hold' = [hold EXCEPT ![k][p] = "held"]
  /\ UNCHANGED <<opVars, jobVars, cloudVars, localVars, bill, faults>>

\* The participants of a list are asked one after the other, in a fixed order.
First(names) == CHOOSE p \in names : TRUE
Ask(w, names, step, done) ==
  todo' = [todo EXCEPT ![w] = names] /\ Goto(w, IF names = {} THEN done ELSE step)

BillPrepared(k) ==
  IF bill[k].phase = "none" THEN [bill[k] EXCEPT !.phase = "preparing"] ELSE bill[k]

-----------------------------------------------------------------------------
(* Towards the closing.                                                    *)

PrepareCloudClosure(w) ==
  LET k == key[w] IN
  /\ pc[w] = "prepare_billing"
  /\ IF BillPrepared(k).phase = "preparing"
     THEN CallBilling(w, BillPrepared(k),
            Ask(w, Producers \ receipts[k], "hold", "status") /\ UNCHANGED <<command, remote>>)
     ELSE Refused(w)

\* Mutant: a producer's hold is a receipt although it is not empty yet.
HoldsUndrained(w) ==
  LET k == key[w]  p == First(todo[w]) IN
  /\ pc[w] = "hold"
  /\ IF hold[k][p] = "released" THEN Refused(w)
     ELSE CallProducer(w, p, IF hold[k][p] = "held" THEN "held" ELSE "draining", "record_hold")

\* A producer that was told to cancel refuses a late prepare; one that is not
\* empty yet holds, but its answer is no receipt.
PrepareCloudDeletion(w) ==
  LET k == key[w]  p == First(todo[w]) IN
  /\ pc[w] = "hold"
  /\ CASE hold[k][p] = "held" -> CallProducer(w, p, "held", "record_hold")
       [] hold[k][p] = "none" -> \/ CallProducer(w, p, "held", "record_hold")
                                 \/ CallProducer(w, p, "draining", "blockers")
       [] hold[k][p] = "draining" -> CallProducer(w, p, "draining", "blockers")
       [] hold[k][p] = "released" -> Refused(w)

\* A receipt that is there is the same one; a new one only before the closing,
\* and not once a cancellation has won.
RecordDeletionHold(w) ==
  LET k == key[w]  p == First(todo[w]) IN
  /\ pc[w] = "record_hold"
  /\ IF OwnerLocks /\ (p \in receipts[k] \/ phase[k] = "preparing")
     THEN /\ receipts' = [receipts EXCEPT ![k] = @ \cup {p}]
          /\ Ask(w, todo[w] \ {p}, "hold", "status") /\ UNCHANGED <<key, command, remote>>
     ELSE Fails(w) /\ UNCHANGED receipts
  /\ UNCHANGED <<jobVars, cloudVars, bill, hold, faults, phase, opOwnership, blocked, attempts,
                 retired, releases, seen, scope>>

\* Without an active command the status is asked once more.
CloudClosureStatus(w) ==
  LET ready == bill[key[w]].phase = "preparing" /\ bill[key[w]].ready # 0 IN
  /\ pc[w] \in {"status", "status_again"}
  /\ IF ready
     THEN CallBilling(w, bill[key[w]],
            /\ command' = [command EXCEPT ![w] = bill[key[w]].ready]
            /\ Goto(w, IF pc[w] = "status" THEN "prepare_close" ELSE "prepare_again")
            /\ UNCHANGED <<todo, remote>>)
     ELSE Refused(w)

\* prepareDeletionClose, with guard_cloud_deletion_attempt and the guard of the
\* phase.  The digest of a settlement is the primary key of its attempt.
Closable(w, k) ==
  /\ Operational /\ Empty /\ receipts[k] = Producers /\ command[w] \notin attempts[k]

PrepareDeletionClose(w) ==
  LET k == key[w]
      open == OwnerLocks /\ ownership = opOwnership[k] /\ phase[k] \in {"preparing", "closing"}
      next == IF pc[w] = "prepare_close" THEN "lookup" ELSE "lookup_again"
  IN
  /\ pc[w] \in {"prepare_close", "prepare_again"}
  /\ \/ /\ open /\ Active(k) # {}
        /\ Goto(w, next) /\ UNCHANGED <<attempts, phase, blocked, jobVars, key, todo, command, remote>>
     \/ /\ open /\ Active(k) = {} /\ Closable(w, k)
        /\ attempts' = [attempts EXCEPT ![k] = @ \cup {command[w]}]
        /\ IF phase[k] = "preparing" THEN SetPhase(k, "closing")
                                     ELSE UNCHANGED <<phase, blocked, jobVars>>
        /\ Goto(w, next) /\ UNCHANGED <<key, todo, command, remote>>
     \/ /\ ~(open /\ (Active(k) # {} \/ Closable(w, k)))
        /\ Fails(w) /\ UNCHANGED <<attempts, phase, blocked, jobVars>>
  /\ UNCHANGED <<cloudVars, bill, hold, faults, opOwnership, receipts, retired, releases, seen,
                 scope>>

ActiveDeletionClose(w) ==
  LET k == key[w] IN
  /\ pc[w] \in {"lookup", "lookup_again"}
  /\ \/ /\ Active(k) # {} /\ Goto(w, "close")
        /\ \E r \in Active(k) : command' = [command EXCEPT ![w] = r]
     \/ /\ Active(k) = {} /\ UNCHANGED command
        /\ Goto(w, IF pc[w] = "lookup" THEN "status_again" ELSE "blockers")
  /\ UNCHANGED <<opVars, jobVars, cloudVars, bill, hold, faults, key, seen, scope, todo, remote>>

\* Billing closes for the settlement that stands, and says so again when asked
\* again; 409 NOT_READY and COMMAND_RETIRED are resolved.
CloseCloud(w) ==
  LET b == bill[key[w]]
      closes == b.phase = "closed" \/ (b.phase = "preparing" /\ b.ready = command[w]
                                       /\ command[w] \notin b.retired)
  IN
  /\ pc[w] = "close"
  /\ IF closes THEN CallBilling(w, [b EXCEPT !.phase = "closed"],
                      Goto(w, "complete") /\ UNCHANGED <<todo, command, remote>>)
               ELSE CallBilling(w, b, Goto(w, "resolve") /\ UNCHANGED <<todo, command, remote>>)

\* RetireCloudClose: either Billing has closed already, or it never will for this command.
RetireCloudClose(w) ==
  LET b == bill[key[w]]
      retires == [b EXCEPT !.retired = @ \cup {command[w]},
                           !.ready = IF @ = command[w] THEN 0 ELSE @]
  IN
  /\ pc[w] \in {"resolve", "cancel_resolve"}
  /\ IF b.phase = "closed"
     THEN CallBilling(w, b, Goto(w, "complete") /\ UNCHANGED <<todo, command, remote>>)
     ELSE CallBilling(w, retires,
            /\ Goto(w, IF pc[w] = "resolve" THEN "record_retirement" ELSE "cancel_retirement")
            /\ UNCHANGED <<todo, command, remote>>)

\* resolveDeletionClose, with guard_cloud_deletion_recovery_receipt.  Outside a
\* cancellation the step ends: the next one needs a new settlement.
RecordRetirement(w) ==
  LET k == key[w]
      next == IF pc[w] = "record_retirement" THEN "blockers" ELSE "cancel_prepare"
  IN
  /\ pc[w] \in {"record_retirement", "cancel_retirement"}
  /\ \/ command[w] \in retired[k] /\ Goto(w, next) /\ UNCHANGED <<retired, jobVars>>
     \/ /\ command[w] \notin retired[k] /\ phase[k] \in {"closing", "canceling"}
        /\ retired' = [retired EXCEPT ![k] = @ \cup {command[w]}]
        /\ Wake(k) /\ Goto(w, next)
     \/ /\ command[w] \notin retired[k] /\ phase[k] \notin {"closing", "canceling"}
        /\ Goto(w, "blockers") /\ UNCHANGED <<retired, jobVars>>
  /\ UNCHANGED <<cloudVars, bill, hold, faults, phase, opOwnership, blocked, receipts, attempts,
                 releases, key, seen, scope, todo, command, remote>>

\* A cancellation that came after Billing's closing has lost; a disabled owner
\* does not matter any more.
Completes(k) == phase[k] \in {"closing", "canceling"} /\ Empty

CompleteDeletion(w) ==
  LET k == key[w] IN
  /\ pc[w] = "complete"
  /\ IF Completes(k)
     THEN /\ SetPhase(k, "succeeded")
          /\ deleted' = TRUE /\ access' = FALSE /\ authorization' = authorization + 1
     ELSE UNCHANGED <<phase, blocked, jobVars, deleted, access, authorization>>
  /\ Goto(w, IF Completes(k) \/ phase[k] = "succeeded" THEN "finish" ELSE "blockers")
  /\ UNCHANGED <<bill, hold, faults, opOwnership, receipts, attempts, retired, releases,
                 resources, ownership, ownerActive, changes, key, seen, scope, todo, command,
                 remote>>

-----------------------------------------------------------------------------
(* Cancellation, after the command, if there was one, has been retired.    *)

\* The preparation is repeated: the cancellation may come before its delivery.
CancelPrepare(w) ==
  LET k == key[w] IN
  /\ pc[w] = "cancel_prepare"
  /\ CallBilling(w, BillPrepared(k),
       Goto(w, "cancel_billing") /\ UNCHANGED <<todo, command, remote>>)

\* Mutant: the producers are released before Billing has agreed to cancel.
ReleasesFirst(w) ==
  LET k == key[w] IN
  /\ pc[w] = "cancel_billing"
  /\ CallBilling(w, bill[k],
       /\ remote' = [remote EXCEPT ![w] = "canceling"]
       /\ Ask(w, Producers \ releases[k], "release", "blockers") /\ UNCHANGED command)

\* Billing refuses when it has closed; otherwise it cannot close any more.
CancelCloudClosure(w) ==
  LET k == key[w]  b == bill[k]
      out == IF b.phase = "canceled" THEN b ELSE [b EXCEPT !.phase = "canceling"]
  IN
  /\ pc[w] = "cancel_billing"
  /\ IF b.phase = "closed" THEN Refused(w)
     ELSE CallBilling(w, out,
            /\ remote' = [remote EXCEPT ![w] = out.phase]
            /\ Ask(w, Producers \ releases[k], "release",
                   IF out.phase = "canceled" THEN "record_billing" ELSE "blockers")
            /\ UNCHANGED command)

\* The tombstone of a producer: it lets go, and a late prepare finds it released.
CancelCloudDeletion(w) ==
  /\ pc[w] = "release" /\ CallProducer(w, First(todo[w]), "released", "record_release")

\* Mutant: the owner must be there for the release too.
ReleasableByOwner(k) == OwnerLocks /\ phase[k] = "canceling" /\ Active(k) = {}

\* recordDeletionRelease, with guard_cloud_deletion_recovery_receipt.
Releasable(k) == phase[k] = "canceling" /\ Active(k) = {}

RecordDeletionRelease(w) ==
  LET k == key[w]
      p == IF pc[w] = "record_billing" THEN "billing" ELSE First(todo[w])
  IN
  /\ pc[w] \in {"record_release", "record_billing"}
  /\ IF p \in releases[k] \/ Releasable(k)
     THEN /\ releases' = [releases EXCEPT ![k] = @ \cup {p}]
          /\ IF p \in releases[k] THEN UNCHANGED jobVars ELSE Wake(k)
          /\ IF p = "billing" THEN Goto(w, "cancel_finish") /\ UNCHANGED todo
             ELSE Ask(w, todo[w] \ {p}, "release",
                      IF remote[w] = "canceled" THEN "record_billing" ELSE "blockers")
     ELSE Goto(w, "blockers") /\ UNCHANGED <<releases, jobVars, todo>>
  /\ UNCHANGED <<cloudVars, bill, hold, faults, phase, opOwnership, blocked, receipts, attempts,
                 retired, key, seen, scope, command, remote>>

\* The guard of the phase: every participant has released, every command is retired.
CancelFinish(w) ==
  LET k == key[w]
      resolved == releases[k] = Producers \cup {"billing"} /\ Active(k) = {}
  IN
  /\ pc[w] = "cancel_finish"
  /\ \/ /\ phase[k] = "canceling" /\ resolved /\ SetPhase(k, "canceled")
        /\ authorization' = authorization + 1 /\ Goto(w, "finish")
     \/ /\ phase[k] = "canceled" /\ Goto(w, "finish")
        /\ UNCHANGED <<phase, blocked, jobVars, authorization>>
     \/ /\ ~(phase[k] = "canceled" \/ (phase[k] = "canceling" /\ resolved))
        /\ Goto(w, "blockers") /\ UNCHANGED <<phase, blocked, jobVars, authorization>>
  /\ UNCHANGED <<bill, hold, faults, opOwnership, receipts, attempts, retired, releases,
                 resources, access, deleted, ownership, ownerActive, changes, key, seen, scope,
                 todo, command, remote>>

-----------------------------------------------------------------------------
WorkerStep(w) ==
  \/ ProcessCloudDeletionJob(w) \/ RecordBlockers(w) \/ FinishCloudDeletionJob(w)
  \/ PrepareCloudClosure(w) \/ PrepareCloudDeletion(w) \/ RecordDeletionHold(w)
  \/ CloudClosureStatus(w) \/ PrepareDeletionClose(w) \/ ActiveDeletionClose(w)
  \/ CloseCloud(w) \/ RetireCloudClose(w) \/ RecordRetirement(w) \/ CompleteDeletion(w)
  \/ CancelPrepare(w) \/ CancelCloudClosure(w) \/ CancelCloudDeletion(w)
  \/ RecordDeletionRelease(w) \/ CancelFinish(w)

Next ==
  \/ ResourcesChange \/ AccessChanges \/ OwnershipChanges \/ OwnerChanges
  \/ \E s \in Sessions :
       \/ \E k \in Keys : RequestDeveloperCloudDeletion(s, k)
       \/ PreflightBegins(s) \/ PreflightEnds(s) \/ AdmitDeletion(s)
  \/ \E k \in Keys :
       \/ RequestCloudDeletionCancellation(k) \/ JobBecomesDue(k) \/ LeaseEnds(k)
       \/ BillingSettles(k) \/ BillingReleases(k)
       \/ \E p \in Producers : ProducerDrains(k, p)
  \/ \E w \in Workers :
       \/ \E k \in Keys : ClaimCloudDeletionJobs(w, k)
       \/ WorkerStep(w) \/ WorkerCrash(w)

Spec == Init /\ [][Next]_vars

\* A job becomes due, a lease that nobody uses ends, and some worker claims and
\* goes on; Billing certifies a release in the end.  Calls fail finitely often.
Fairness ==
  /\ \A k \in Keys :
       /\ WF_vars(JobBecomesDue(k)) /\ WF_vars(BillingReleases(k))
       /\ WF_vars(lease[k] # NoWorker /\ key[lease[k]] # k /\ LeaseEnds(k))
       /\ WF_vars(\E w \in Workers : ClaimCloudDeletionJobs(w, k))
  /\ \A w \in Workers : WF_vars(WorkerStep(w))

LiveSpec == Spec /\ Fairness

-----------------------------------------------------------------------------
(* Properties.                                                             *)

\* From the admission to the end the cloud stays empty and its owner the same,
\* whatever was created or transferred between the preflight and the admission.
FenceHolds ==
  \A k \in Keys : phase[k] \notin {"none", "canceled"} =>
                    ~resources /\ ownership = opOwnership[k]

\* A tombstone stands only on what it says: Billing has closed the operation, no
\* producer has let go or was not empty, and nothing and nobody is left inside;
\* and it is never undone by a cancellation.
TombstoneIsFinal ==
  deleted => /\ ~resources /\ ~access
             /\ \E k \in Keys :
                  /\ phase[k] = "succeeded" /\ bill[k].phase = "closed"
                  /\ \A p \in Producers : hold[k][p] = "held"

\* Nobody lets go while Billing could still close, and a deletion counts as
\* canceled only when Billing and every producer have let go.
NobodyLetsGoEarly ==
  \A k \in Keys :
    /\ \A p \in Producers : hold[k][p] = "released" => bill[k].phase \in {"canceling", "canceled"}
    /\ phase[k] = "canceled" => /\ bill[k].phase = "canceled"
                                /\ \A p \in Producers : hold[k][p] = "released"

\* Whatever the workers repeat, one close command is outstanding at most, and the
\* one Billing has obeyed is never taken for retired.
OneCommand ==
  \A k \in Keys : /\ Cardinality(Active(k)) <= 1
                  /\ bill[k].phase = "closed" => Active(k) # {}

\* An operation that is over shows no blockers, however late a failing step ends.
OverIsNotBlocked == \A k \in Keys : phase[k] \in Terminal => ~blocked[k]

\* What Billing has closed is deleted here too, also when the answer was lost or the
\* owner is disabled meanwhile (finishing a close in the worker's step).
ClosedIsDeleted == \A k \in Keys : bill[k].phase = "closed" ~> deleted

\* A cancellation comes to an end, through retired commands, lost answers and
\* producers that still have to let go.
CancellationEnds == \A k \in Keys : phase[k] = "canceling" ~> phase[k] \in Terminal

\* The records of a deletion never contradict each other, in whatever order its
\* workers, the owner, Billing and the cloud's users act: the fence keeps out what
\* the admission has checked, one close command is outstanding at most and an
\* operation that is over has no blockers (RequestDeveloperCloudDeletion,
\* prepareDeletionClose, AdvanceCloudDeletion).
RecordsAreSound == TypeOK /\ FenceHolds /\ OneCommand /\ OverIsNotBlocked

\* What is decided is carried out in the end, here and at every participant,
\* whichever worker crashes or overruns its lease (AdvanceCloudDeletion).
DecisionIsCarriedOut == ClosedIsDeleted /\ CancellationEnds
=============================================================================
