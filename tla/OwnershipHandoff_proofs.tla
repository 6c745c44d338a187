---------------------- MODULE OwnershipHandoff_proofs ----------------------
(***************************************************************************)
(* Proofs about OwnershipHandoff, for any participants, workers, sessions, *)
(* balances and faults: what Billing has authorized, and that the saga is  *)
(* an atomic handoff.                                                      *)
(***************************************************************************)
EXTENDS OwnershipHandoff, TLAPS

-----------------------------------------------------------------------------
(* The authorization.                                                      *)

\* The records and functions the steps update keep their fields.
GrantShape ==
  /\ DOMAIN pc = Actors /\ DOMAIN about = Actors
  /\ \A a \in Actors : DOMAIN about[a] = {"user", "version"}
  /\ DOMAIN bill = {"phase", "version", "consents", "grant"}

\* Who asks for the authorization asks for the balance of the commit request.
Authorizing ==
  \A a \in Actors : pc[a] \in {"authorize", "swap"} =>
    commitRequest # 0 /\ about[a].version = commitRequest

\* A commit request has both confirmations.
RequestConfirmed ==
  commitRequest # 0 => \A u \in Users : <<u, commitRequest>> \in confirmed

Granted == bill.grant # 0 => bill.grant = commitRequest

\* After a cancellation there is no new commit request.
Revocation ==
  canceled => /\ revoked = commitRequest /\ phase \in {"canceling", "canceled"}
              /\ transfer # "pending"

GrantInv ==
  GrantShape /\ Authorizing /\ RequestConfirmed /\ Granted /\ Revocation /\ WakeIsKept

\* The invariant holds before the transfer is accepted.
LEMMA GrantInit == Init => GrantInv
BY HandoffAssumption DEF Init, GrantInv, GrantShape, Authorizing, RequestConfirmed, Granted,
     Revocation, WakeIsKept, NoConfirmation

\* No step of a worker, a user, a session or Billing breaks it.
LEMMA GrantStep == GrantInv /\ [Next]_vars => GrantInv'
<1> SUFFICES ASSUME GrantInv, [Next]_vars PROVE GrantInv'
  OBVIOUS
<1> USE HandoffAssumption DEF GrantInv, GrantShape, Authorizing, RequestConfirmed, Granted,
    Revocation, WakeIsKept, Wake, Actors, NoConfirmation, Goto, Forget, Return, Abandon,
    handoffVars, userVars, jobVars, localVars
<1>1. ASSUME NEW a \in Actors, ConfirmationStep(a) PROVE GrantInv'
  <2>1. CASE RecordHandoffBalance(a)
    BY <2>1 DEF RecordHandoffBalance
  <2>2. CASE RequestConfirmation(a)
    BY <2>2 DEF RequestConfirmation
  <2>3. CASE ConfirmAtBilling(a)
    BY <2>3 DEF ConfirmAtBilling
  <2>4. CASE AcknowledgeConfirmation(a)
    BY <2>4 DEF AcknowledgeConfirmation
  <2> HIDE DEF GrantInv
  <2> QED BY <1>1, <2>1, <2>2, <2>3, <2>4 DEF ConfirmationStep
<1>2. ASSUME NEW w \in Workers, WorkerStep(w) PROVE GrantInv'
  <2>1. CASE ClaimHandoffJobs(w)
    BY <2>1 DEF ClaimHandoffJobs
  <2>2. CASE FinishHandoffJob(w)
    BY <2>2 DEF FinishHandoffJob, AvailableNow
  <2>3. CASE \E step \in {"advance", "check_prepare", "check_abort"} : LeaseLost(w, step)
    BY <2>3 DEF LeaseLost
  <2>4. CASE \/ CheckHandoffLease(w, "check_prepare", "prepare")
            \/ CheckHandoffLease(w, "check_abort", "abort")
    BY <2>4 DEF CheckHandoffLease
  <2>5. CASE AdvanceHandoffPreparation(w)
    BY <2>5 DEF AdvanceHandoffPreparation
  <2>6. CASE PrepareBilling(w)
    BY <2>6 DEF PrepareBilling, CallBilling, BillPrepared
  <2>7. CASE PrepareProducer(w)
    BY <2>7 DEF PrepareProducer, CallProducer
  <2>8. CASE Settlement(w)
    BY <2>8 DEF Settlement
  <2>9. CASE RecordCloudHandoffPrepareAck(w)
    <3>1. /\ pc' = [pc EXCEPT ![w] = "finish"] /\ about' = [about EXCEPT ![w] = NoConfirmation]
          /\ UNCHANGED <<phase, transfer, confirmed, commitRequest, canceled, revoked, bill>>
      BY <2>9 DEF RecordCloudHandoffPrepareAck
    <3>2. Wake \/ UNCHANGED jobVars
      <4> HIDE DEF Wake, jobVars
      <4> QED BY <2>9, Zenon DEF RecordCloudHandoffPrepareAck
    <3> QED BY <3>1, <3>2
  <2>10. CASE PreviewOwnerHandoff(w)
    BY <2>10 DEF PreviewOwnerHandoff, Preview
  <2>11. CASE ConfirmationStep(w)
    BY <2>11, <1>1 DEF Actors
  <2>12. CASE AdvanceCommit(w)
    BY <2>12 DEF AdvanceCommit
  <2>13. CASE CommitOwnerHandoff(w)
    BY <2>13 DEF CommitOwnerHandoff, CommitValid, BothConfirmed
  <2>14. CASE AuthorizeCommit(w)
    <3>1. bill' = bill \/ bill' = BillAuthorized(about[w].version)
      BY <2>14 DEF AuthorizeCommit, CallBilling
    <3>2. /\ UNCHANGED <<handoffVars, userVars, jobVars>>
          /\ \/ pc' = [pc EXCEPT ![w] = "swap"] /\ UNCHANGED about
             \/ /\ pc' = [pc EXCEPT ![w] = "finish"]
                /\ about' = [about EXCEPT ![w] = NoConfirmation]
      BY <2>14 DEF AuthorizeCommit, CallBilling
    <3>3. commitRequest # 0 /\ about[w].version = commitRequest
      BY <2>14 DEF AuthorizeCommit
    <3>4. Granted' /\ DOMAIN bill' = DOMAIN bill
      BY <3>1, <3>2, <3>3 DEF BillAuthorized
    <3> QED BY <3>2, <3>3, <3>4
  <2>15. CASE CommitAuthorizedHandoff(w)
    BY <2>15 DEF CommitAuthorizedHandoff, SwapValid, CommitValid
  <2>16. CASE CommitRefused(w)
    BY <2>16 DEF CommitRefused
  <2>17. CASE AdvanceHandoffFinalization(w)
    BY <2>17 DEF AdvanceHandoffFinalization
  <2>18. CASE Release(w)
    BY <2>18 DEF Release, CallBilling, CallProducer
  <2>19. CASE RecordHandoffFinalizationAck(w)
    BY <2>19 DEF RecordHandoffFinalizationAck
  <2>20. CASE AdvanceHandoffCancellation(w)
    BY <2>20 DEF AdvanceHandoffCancellation
  <2>21. CASE ReplayPrepare(w)
    BY <2>21 DEF ReplayPrepare, CallBilling, BillPrepared
  <2>22. CASE AbortBilling(w)
    BY <2>22 DEF AbortBilling, BillAborted, NextAbort
  <2>23. CASE RecordBillingAbortAck(w)
    BY <2>23 DEF RecordBillingAbortAck, AbortAck, NextAbort
  <2>24. CASE AbortProducer(w)
    BY <2>24 DEF AbortProducer, CallProducer
  <2>25. CASE RecordCloudHandoffAbortAck(w)
    BY <2>25 DEF RecordCloudHandoffAbortAck, AbortAck
  <2> HIDE DEF GrantInv
  <2> QED BY <1>2, <2>1, <2>2, <2>3, <2>4, <2>5, <2>6, <2>7, <2>8, <2>9, <2>10, <2>11, <2>12,
     <2>13, <2>14, <2>15, <2>16, <2>17, <2>18, <2>19, <2>20, <2>21, <2>22, <2>23, <2>24, <2>25
     DEF WorkerStep
<1>3. ASSUME NEW w \in Workers, WorkerCrash(w) PROVE GrantInv'
  BY <1>3 DEF WorkerCrash
<1>4. ASSUME NEW a \in Sessions, OpenSession(a) PROVE GrantInv'
  BY <1>4 DEF OpenSession, Preview
<1>5. ASSUME NEW u \in Users, UserChanges(u) PROVE GrantInv'
  BY <1>5 DEF UserChanges
<1>6. CASE AcceptOwnerHandoff
  BY <1>6 DEF AcceptOwnerHandoff
<1>7. CASE CancelOwnerHandoff
  BY <1>7 DEF CancelOwnerHandoff, CancellationAuthorization
<1>8. CASE InviteExpires
  BY <1>8 DEF InviteExpires
<1>9. CASE EnrollmentsDrain
  BY <1>9 DEF EnrollmentsDrain
<1>10. CASE JobBecomesDue
  BY <1>10 DEF JobBecomesDue
<1>11. CASE LeaseEnds
  BY <1>11 DEF LeaseEnds
<1>12. CASE BillingSettles
  BY <1>12 DEF BillingSettles
<1>13. CASE BillingReleases
  BY <1>13 DEF BillingReleases
<1>14. CASE UNCHANGED vars
  BY <1>14 DEF vars
<1> HIDE DEF GrantInv
<1> QED BY <1>1, <1>2, <1>3, <1>4, <1>5, <1>6, <1>7, <1>8, <1>9, <1>10, <1>11, <1>12, <1>13, <1>14 DEF
   Next, Actors

\* Billing authorizes only the balance of the one commit request, with both users'
\* confirmations of it stored (CommitOwnerHandoff, validateHandoffCommitTx).
THEOREM GrantsHaveConsent == Spec => []GrantHasConsent
<1>1. GrantInv => GrantHasConsent
  BY DEF GrantInv, Granted, RequestConfirmed, GrantHasConsent
<1> QED BY <1>1, GrantInit, GrantStep, PTL DEF Spec

\* A cancellation names the authorization Billing has given or may still give
\* (ensureHandoffCancellationTx).
THEOREM CancellationsNameGrants == Spec => []CancellationNamesGrant
<1>1. GrantInv => CancellationNamesGrant
  BY DEF GrantInv, Granted, Revocation, CancellationNamesGrant
<1> QED BY <1>1, GrantInit, GrantStep, PTL DEF Spec

\* A wake-up is never lost to the delay of the step it overtakes
\* (wake_cloud_handoff_job, FinishHandoffJob).
THEOREM WakesAreKept == Spec => []WakeIsKept
<1>1. GrantInv => WakeIsKept
  BY DEF GrantInv
<1> QED BY <1>1, GrantInit, GrantStep, PTL DEF Spec

-----------------------------------------------------------------------------
(* The refinement.                                                         *)

\* The participant has let go.
Free(p) ==
  IF p = "billing" THEN bill.phase \in {"aborted", "finalized"}
                   ELSE hold[p] \in {"aborted", "released"}

HoldShape ==
  /\ DOMAIN pc = Actors /\ DOMAIN part = Workers
  /\ DOMAIN bill = {"phase", "version", "consents", "grant"}
  /\ bill.phase \in {"none", "prepared", "authorized", "finalized", "aborting", "aborted"}
  /\ hold \in [Producers -> {"none", "held", "aborted", "released"}]
  /\ prepared \subseteq Participants
  /\ aborted \subseteq Participants /\ finalized \subseteq Participants

\* The phase tells the verdict.
Verdict ==
  /\ committed <=> phase \in {"finalizing", "succeeded"}
  /\ canceled <=> phase \in {"canceling", "canceled"}
  /\ phase # "none" => transfer # "pending"

\* Nobody lets go without a verdict, and a commit finds everybody holding.
Holds ==
  /\ bill.phase \in {"aborting", "aborted"} => canceled
  /\ bill.phase = "finalized" => committed
  /\ committed => bill.phase # "none"
  /\ \A p \in Producers :
       /\ hold[p] = "aborted" => canceled
       /\ hold[p] = "released" => committed
       /\ p \in prepared \/ committed => hold[p] # "none"

\* An acknowledgement of an abort or a release is true and stays true.
Released ==
  /\ \A p \in aborted \cup finalized : Free(p)
  /\ phase = "canceled" => aborted = Participants
  /\ phase = "succeeded" => finalized = Participants

\* What a worker is about to do or to record.
Doing ==
  \A w \in Workers :
    /\ pc[w] \in {"check_prepare", "prepare", "check_abort", "abort", "record_abort"}
         => part[w] \in Producers
    /\ pc[w] \in {"release", "record_release", "record_prepare"} => part[w] \in Participants
    /\ pc[w] \in {"prepare_billing", "replay_prepare", "abort_billing", "record_abort_billing"}
         => part[w] \in Producers \cup {"none"}
    /\ pc[w] = "record_prepare" /\ part[w] \in Producers => hold[part[w]] # "none"
    /\ pc[w] = "swap" => bill.phase # "none"
    /\ pc[w] \in {"release", "record_release"} => committed
    /\ pc[w] \in {"replay_prepare", "abort_billing", "record_abort_billing", "check_abort",
                 "abort", "record_abort"} => canceled
    /\ pc[w] = "abort_billing" => bill.phase # "none"
    /\ pc[w] = "record_abort_billing" => bill.phase = "aborted"
    /\ pc[w] \in {"record_abort", "record_release"} => Free(part[w])

HoldInv == HoldShape /\ Verdict /\ Holds /\ Released /\ Doing

\* The invariant holds before the transfer is accepted.
LEMMA HoldInit == Init => HoldInv
BY HandoffAssumption DEF Init, HoldInv, HoldShape, Verdict, Holds, Released, Doing, Actors,
     Participants

\* No step of a worker, a user, a session or Billing breaks it.
LEMMA HoldStep == HoldInv /\ [Next]_vars => HoldInv'
<1> SUFFICES ASSUME HoldInv, [Next]_vars PROVE HoldInv'
  OBVIOUS
<1> USE HandoffAssumption DEF HoldInv, HoldShape, Verdict, Holds, Released, Doing, Free,
    Participants, Actors, Goto, Forget, Return, Abandon, handoffVars, userVars, localVars
<1>1. ASSUME NEW a \in Actors, ConfirmationStep(a) PROVE HoldInv'
  <2>1. CASE RecordHandoffBalance(a)
    BY <2>1 DEF RecordHandoffBalance
  <2>2. CASE RequestConfirmation(a)
    BY <2>2 DEF RequestConfirmation
  <2>3. CASE ConfirmAtBilling(a)
    BY <2>3 DEF ConfirmAtBilling
  <2>4. CASE AcknowledgeConfirmation(a)
    BY <2>4 DEF AcknowledgeConfirmation
  <2> HIDE DEF HoldInv
  <2> QED BY <1>1, <2>1, <2>2, <2>3, <2>4 DEF ConfirmationStep
<1>2. ASSUME NEW w \in Workers, WorkerStep(w) PROVE HoldInv'
  <2>1. CASE ClaimHandoffJobs(w)
    BY <2>1 DEF ClaimHandoffJobs
  <2>2. CASE FinishHandoffJob(w)
    BY <2>2 DEF FinishHandoffJob
  <2>3. CASE \E step \in {"advance", "check_prepare", "check_abort"} : LeaseLost(w, step)
    BY <2>3 DEF LeaseLost
  <2>4. CASE \/ CheckHandoffLease(w, "check_prepare", "prepare")
            \/ CheckHandoffLease(w, "check_abort", "abort")
    BY <2>4 DEF CheckHandoffLease
  <2>5. CASE AdvanceHandoffPreparation(w)
    BY <2>5 DEF AdvanceHandoffPreparation, Advances
  <2>6. CASE PrepareBilling(w)
    BY <2>6 DEF PrepareBilling, CallBilling, BillPrepared
  <2>7. CASE PrepareProducer(w)
    BY <2>7 DEF PrepareProducer, CallProducer
  <2>8. CASE Settlement(w)
    BY <2>8 DEF Settlement
  <2>9. CASE RecordCloudHandoffPrepareAck(w)
    <3>1. /\ prepared' \in {prepared, prepared \cup {part[w]}}
          /\ pc' = [pc EXCEPT ![w] = "finish"] /\ part' = [part EXCEPT ![w] = "none"]
          /\ UNCHANGED <<phase, committed, canceled, aborted, finalized, transfer, bill, hold>>
      BY <2>9 DEF RecordCloudHandoffPrepareAck
    <3>2. part[w] \in Participants /\ (part[w] \in Producers => hold[part[w]] # "none")
      BY <2>9 DEF RecordCloudHandoffPrepareAck
    <3> QED BY <3>1, <3>2
  <2>10. CASE PreviewOwnerHandoff(w)
    BY <2>10 DEF PreviewOwnerHandoff, Preview
  <2>11. CASE ConfirmationStep(w)
    BY <2>11, <1>1 DEF Actors
  <2>12. CASE AdvanceCommit(w)
    BY <2>12 DEF AdvanceCommit, Advances
  <2>13. CASE CommitOwnerHandoff(w)
    BY <2>13 DEF CommitOwnerHandoff, CommitValid, Unhindered
  <2>14. CASE AuthorizeCommit(w)
    <3>1. CASE ~BillAuthorizes(about[w].version)
      BY <2>14, <3>1 DEF AuthorizeCommit
    <3>2. CASE BillAuthorizes(about[w].version)
      <4>1. bill.phase \in {"prepared", "authorized"}
        BY <3>2 DEF BillAuthorizes
      <4>2. /\ bill' \in {bill, BillAuthorized(about[w].version)}
            /\ \/ pc' = [pc EXCEPT ![w] = "swap"] /\ UNCHANGED part
               \/ pc' = [pc EXCEPT ![w] = "finish"] /\ part' = [part EXCEPT ![w] = "none"]
            /\ UNCHANGED <<handoffVars, userVars, hold>>
        BY <2>14, <3>2 DEF AuthorizeCommit, CallBilling
      <4>3. DOMAIN bill' = DOMAIN bill /\ bill'.phase \in {"prepared", "authorized"}
        BY <4>1, <4>2 DEF BillAuthorized
      <4> QED BY <4>1, <4>2, <4>3
    <3> QED BY <3>1, <3>2
  <2>15. CASE CommitAuthorizedHandoff(w)
    BY <2>15 DEF CommitAuthorizedHandoff, SwapValid, CommitValid, Unhindered,
       AllParticipantsPrepared
  <2>16. CASE CommitRefused(w)
    BY <2>16 DEF CommitRefused
  <2>17. CASE AdvanceHandoffFinalization(w)
    BY <2>17 DEF AdvanceHandoffFinalization, Advances
  <2>18. CASE Release(w)
    BY <2>18 DEF Release, CallBilling, CallProducer
  <2>19. CASE RecordHandoffFinalizationAck(w)
    BY <2>19 DEF RecordHandoffFinalizationAck, AllDone
  <2>20. CASE AdvanceHandoffCancellation(w)
    BY <2>20 DEF AdvanceHandoffCancellation, Advances
  <2>21. CASE ReplayPrepare(w)
    BY <2>21 DEF ReplayPrepare, CallBilling, BillPrepared
  <2>22. CASE AbortBilling(w)
    BY <2>22 DEF AbortBilling, BillAborted, NextAbort, BillAborts
  <2>23. CASE RecordBillingAbortAck(w)
    BY <2>23 DEF RecordBillingAbortAck, AbortAck, NextAbort, AllDone
  <2>24. CASE AbortProducer(w)
    BY <2>24 DEF AbortProducer, CallProducer
  <2>25. CASE RecordCloudHandoffAbortAck(w)
    BY <2>25 DEF RecordCloudHandoffAbortAck, AbortAck, AllDone
  <2> HIDE DEF HoldInv
  <2> QED BY <1>2, <2>1, <2>2, <2>3, <2>4, <2>5, <2>6, <2>7, <2>8, <2>9, <2>10, <2>11, <2>12,
     <2>13, <2>14, <2>15, <2>16, <2>17, <2>18, <2>19, <2>20, <2>21, <2>22, <2>23, <2>24, <2>25
     DEF WorkerStep
<1>3. ASSUME NEW w \in Workers, WorkerCrash(w) PROVE HoldInv'
  BY <1>3 DEF WorkerCrash
<1>4. ASSUME NEW a \in Sessions, OpenSession(a) PROVE HoldInv'
  BY <1>4 DEF OpenSession, Preview
<1>5. ASSUME NEW u \in Users, UserChanges(u) PROVE HoldInv'
  BY <1>5 DEF UserChanges
<1>6. CASE AcceptOwnerHandoff
  BY <1>6 DEF AcceptOwnerHandoff
<1>7. CASE CancelOwnerHandoff
  BY <1>7 DEF CancelOwnerHandoff, CancellationAuthorization
<1>8. CASE InviteExpires
  BY <1>8 DEF InviteExpires
<1>9. CASE EnrollmentsDrain
  BY <1>9 DEF EnrollmentsDrain
<1>10. CASE JobBecomesDue
  BY <1>10 DEF JobBecomesDue
<1>11. CASE LeaseEnds
  BY <1>11 DEF LeaseEnds
<1>12. CASE BillingSettles
  BY <1>12 DEF BillingSettles
<1>13. CASE BillingReleases
  BY <1>13 DEF BillingReleases
<1>14. CASE UNCHANGED vars
  BY <1>14 DEF vars
<1> HIDE DEF HoldInv
<1> QED BY <1>1, <1>2, <1>3, <1>4, <1>5, <1>6, <1>7, <1>8, <1>9, <1>10, <1>11, <1>12, <1>13, <1>14 DEF
   Next, Actors

Closed == phase \in {"succeeded", "canceled"}

\* A step that moves nobody's grip and takes no decision is a stutter.
LEMMA QuietStep ==
  ASSUME UNCHANGED <<committed, canceled, owner, hold>>, Closed' <=> Closed,
         Grip("billing")' = Grip("billing")
  PROVE  UNCHANGED Atomic!vars
<1>1. \A p \in Participants : Grip(p)' = Grip(p)
  <2> SUFFICES ASSUME NEW p \in Participants, p # "billing" PROVE Grip(p)' = Grip(p)
    OBVIOUS
  <2> QED BY DEF Grip
<1> QED BY <1>1 DEF Atomic!vars, Closed

\* Billing takes its hold at most once, before a commit and before the end.
LEMMA BillingTakes ==
  ASSUME HoldInv, bill' \in {bill, BillPrepared},
         UNCHANGED <<committed, canceled, owner, phase, hold>>
  PROVE  [Atomic!Next]_(Atomic!vars)
<1>1. CASE bill.phase # "none"
  <2>1. bill' = bill
    BY <1>1 DEF BillPrepared
  <2> QED BY <2>1, QuietStep DEF Grip, Closed
<1>2. CASE bill.phase = "none" /\ bill' = BillPrepared
  <2>1. bill'.phase = "prepared"
    BY <1>2 DEF BillPrepared, HoldInv, HoldShape
  <2>2. Grip("billing") = "none" /\ Grip("billing")' = "held"
    BY <1>2, <2>1 DEF Grip
  <2>3. \A p \in Participants \ {"billing"} : Grip(p)' = Grip(p)
    BY DEF Grip
  <2>4. ~committed /\ ~Closed
    BY <1>2 DEF HoldInv, Holds, Released, Free, Verdict, Closed, Participants
  <2>5. Atomic!Take("billing")
    BY <2>2, <2>3, <2>4 DEF Atomic!Take, Participants, Closed
  <2> QED BY <2>5 DEF Atomic!Next, Participants
<1>3. CASE bill' = bill
  BY <1>3, QuietStep DEF Grip, Closed
<1> QED BY <1>1, <1>2, <1>3

\* A participant that lets go, or has done so before, does it after the verdict.
LEMMA LetsGo ==
  ASSUME NEW p \in Participants, committed \/ canceled,
         Grip(p)' \in {Grip(p), "free"},
         \A q \in Participants \ {p} : Grip(q)' = Grip(q),
         UNCHANGED <<committed, canceled, owner, phase>>
  PROVE  [Atomic!Next]_(Atomic!vars)
<1>1. CASE Grip(p)' = Grip(p)
  <2>1. \A q \in Participants : Grip(q)' = Grip(q)
    BY <1>1
  <2> QED BY <2>1 DEF Atomic!vars
<1>2. CASE Grip(p) # "free" /\ Grip(p)' = "free"
  <2>1. Atomic!LetGo(p)
    BY <1>2 DEF Atomic!LetGo
  <2> QED BY <2>1 DEF Atomic!Next
<1> QED BY <1>1, <1>2

\* The handoff is closed when everybody has let go.
LEMMA Closes ==
  ASSUME HoldInv', committed \/ canceled, ~Closed, Closed',
         UNCHANGED <<committed, canceled, owner, bill, hold>>
  PROVE  Atomic!Next
<1>1. \A p \in Participants : Grip(p)' = "free"
  BY DEF HoldInv, Released, Verdict, Closed, Free, Grip, Participants
<1>2. \A p \in Participants : Grip(p)' = Grip(p)
  BY DEF Grip
<1>3. Atomic!Close
  BY <1>1, <1>2 DEF Atomic!Close, Closed
<1> QED BY <1>3 DEF Atomic!Next

\* Every step is a step of the atomic handoff or a stutter.
LEMMA RefinementStep == HoldInv /\ HoldInv' /\ [Next]_vars => [Atomic!Next]_(Atomic!vars)
<1> SUFFICES ASSUME HoldInv, HoldInv', [Next]_vars PROVE [Atomic!Next]_(Atomic!vars)
  OBVIOUS
<1>1. ASSUME NEW a \in Actors, ConfirmationStep(a) PROVE [Atomic!Next]_(Atomic!vars)
  <2>1. CASE RecordHandoffBalance(a)
    BY <2>1, QuietStep DEF RecordHandoffBalance, Grip, Closed, handoffVars, userVars
  <2>2. CASE RequestConfirmation(a)
    BY <2>2, QuietStep DEF RequestConfirmation, Grip, Closed, handoffVars, userVars
  <2>3. CASE ConfirmAtBilling(a)
    <3>1. bill'.phase = bill.phase
      BY <2>3 DEF ConfirmAtBilling, HoldInv, HoldShape
    <3> QED BY <2>3, <3>1, QuietStep DEF ConfirmAtBilling, Grip, Closed, handoffVars
  <2>4. CASE AcknowledgeConfirmation(a)
    BY <2>4, QuietStep DEF AcknowledgeConfirmation, Grip, Closed, handoffVars, userVars
  <2> QED BY <1>1, <2>1, <2>2, <2>3, <2>4 DEF ConfirmationStep
<1>2. ASSUME NEW w \in Workers, WorkerStep(w) PROVE [Atomic!Next]_(Atomic!vars)
  <2>1. CASE ClaimHandoffJobs(w)
    BY <2>1, QuietStep DEF ClaimHandoffJobs, Grip, Closed, handoffVars, userVars
  <2>2. CASE FinishHandoffJob(w)
    BY <2>2, QuietStep DEF FinishHandoffJob, Grip, Closed, handoffVars, userVars
  <2>3. CASE \E step \in {"advance", "check_prepare", "check_abort"} : LeaseLost(w, step)
    BY <2>3, QuietStep DEF LeaseLost, Grip, Closed, handoffVars, userVars
  <2>4. CASE \/ CheckHandoffLease(w, "check_prepare", "prepare")
            \/ CheckHandoffLease(w, "check_abort", "abort")
    BY <2>4, QuietStep DEF CheckHandoffLease, Grip, Closed, handoffVars, userVars
  <2>5. CASE AdvanceHandoffPreparation(w)
    BY <2>5, QuietStep DEF AdvanceHandoffPreparation, Grip, Closed, handoffVars, userVars
  <2>6. CASE PrepareBilling(w)
    BY <2>6, BillingTakes DEF PrepareBilling, CallBilling, handoffVars
  <2>7. CASE PrepareProducer(w)
    <3>0. PICK p \in Producers : p = part[w]
      BY <2>7 DEF PrepareProducer, HoldInv, Doing
    <3>1. p \in Participants /\ p # "billing"
      BY HandoffAssumption DEF Participants
    <3>2. UNCHANGED <<handoffVars, bill>>
      BY <2>7 DEF PrepareProducer, CallProducer
    <3>3. CASE hold' = hold
      BY <3>2, <3>3, QuietStep DEF Grip, Closed, handoffVars
    <3>4. CASE hold[p] \in {"none", "held"} /\ hold' = [hold EXCEPT ![p] = "held"]
      <4>1. hold'[p] = "held" /\ \A r \in Producers \ {p} : hold'[r] = hold[r]
        BY <3>1, <3>4 DEF HoldInv, HoldShape
      <4>2. Grip(p)' = "held" /\ \A r \in Participants \ {p} : Grip(r)' = Grip(r)
        BY <3>1, <3>2, <4>1 DEF Grip, Participants
      <4>3. CASE hold[p] = "none"
        <5>1. Grip(p) = "none" /\ ~committed /\ ~Closed /\ p \notin aborted
          BY <3>1, <4>3 DEF Grip, HoldInv, Holds, Released, Free, Verdict, Closed
        <5>2. Atomic!Take(p)
          BY <3>1, <3>2, <4>2, <5>1 DEF Atomic!Take, Closed, handoffVars
        <5> QED BY <3>1, <5>2 DEF Atomic!Next
      <4>4. CASE hold[p] = "held"
        <5>1. \A r \in Participants : Grip(r)' = Grip(r)
          BY <3>1, <4>2, <4>4 DEF Grip
        <5> QED BY <3>2, <5>1 DEF Atomic!vars, handoffVars
      <4> QED BY <3>4, <4>3, <4>4
    <3> QED BY <2>7, <3>0, <3>3, <3>4 DEF PrepareProducer, CallProducer
  <2>8. CASE Settlement(w)
    BY <2>8, QuietStep DEF Settlement, Grip, Closed, handoffVars, userVars
  <2>9. CASE RecordCloudHandoffPrepareAck(w)
    BY <2>9, QuietStep DEF RecordCloudHandoffPrepareAck, Grip, Closed, handoffVars, userVars
  <2>10. CASE PreviewOwnerHandoff(w)
    BY <2>10, QuietStep DEF PreviewOwnerHandoff, Grip, Closed, handoffVars, userVars
  <2>11. CASE ConfirmationStep(w)
    BY <2>11, <1>1 DEF Actors
  <2>12. CASE AdvanceCommit(w)
    BY <2>12, QuietStep DEF AdvanceCommit, Grip, Closed, handoffVars, userVars
  <2>13. CASE CommitOwnerHandoff(w)
    <3>1. Closed' <=> Closed
      BY <2>13 DEF CommitOwnerHandoff, CommitValid, Closed
    <3> QED BY <2>13, <3>1, QuietStep DEF CommitOwnerHandoff, Grip
  <2>14. CASE AuthorizeCommit(w)
    <3>1. UNCHANGED <<handoffVars, hold>>
      BY <2>14 DEF AuthorizeCommit, CallBilling
    <3>2. \/ bill' = bill
          \/ BillAuthorizes(about[w].version) /\ bill' = BillAuthorized(about[w].version)
      BY <2>14 DEF AuthorizeCommit, CallBilling
    <3>3. Grip("billing")' = Grip("billing")
      BY <3>2 DEF BillAuthorizes, BillAuthorized, Grip, HoldInv, HoldShape
    <3> QED BY <3>1, <3>3, QuietStep DEF Closed, handoffVars
  <2>15. CASE CommitAuthorizedHandoff(w)
    <3>1. CASE ~(~committed /\ SwapValid(w))
      BY <2>15, <3>1, QuietStep DEF CommitAuthorizedHandoff, Grip, Closed
    <3>2. CASE ~committed /\ SwapValid(w)
      <4>1. ~canceled /\ ~Closed /\ ~Closed' /\ UNCHANGED <<canceled, bill, hold>>
            /\ committed' = TRUE /\ owner' = "target"
        BY <2>15, <3>2 DEF CommitAuthorizedHandoff, SwapValid, Closed, HoldInv, Verdict
      <4>2. \A p \in Producers : hold[p] = "held"
        BY <3>2, <4>1 DEF SwapValid, CommitValid, Unhindered, AllParticipantsPrepared,
             Participants, HoldInv, HoldShape, Holds
      <4>3. bill.phase \in {"prepared", "authorized"}
        BY <2>15, <3>2, <4>1 DEF CommitAuthorizedHandoff, HoldInv, HoldShape, Holds, Doing
      <4>4. \A p \in Participants : Grip(p) = "held" /\ Grip(p)' = Grip(p)
        BY <4>1, <4>2, <4>3 DEF Grip, Participants
      <4>5. Atomic!Commit
        BY <3>2, <4>1, <4>4 DEF Atomic!Commit, Closed
      <4> QED BY <4>5 DEF Atomic!Next
    <3> QED BY <3>1, <3>2
  <2>16. CASE CommitRefused(w)
    BY <2>16, QuietStep DEF CommitRefused, Grip, Closed, handoffVars, userVars
  <2>17. CASE AdvanceHandoffFinalization(w)
    BY <2>17, QuietStep DEF AdvanceHandoffFinalization, Grip, Closed, handoffVars, userVars
  <2>18. CASE Release(w)
    <3>1. committed /\ part[w] \in Participants /\ UNCHANGED handoffVars
      BY <2>18 DEF Release, CallBilling, CallProducer, HoldInv, Doing
    <3>2. CASE part[w] = "billing"
      <4>1. bill'.phase \in {bill.phase, "finalized"} /\ UNCHANGED hold
        BY <2>18, <3>2 DEF Release, CallBilling, HoldInv, HoldShape
      <4>2. Grip("billing")' \in {Grip("billing"), "free"}
        BY <4>1 DEF Grip
      <4>3. \A p \in Participants \ {"billing"} : Grip(p)' = Grip(p)
        BY <4>1 DEF Grip
      <4> QED BY <3>1, <3>2, <4>2, <4>3, LetsGo DEF handoffVars
    <3>3. CASE part[w] # "billing"
      <4>0. PICK p \in Producers : p = part[w]
        BY <3>1, <3>3 DEF Participants
      <4>1. p # "billing" /\ p \in Participants /\ UNCHANGED bill
            /\ hold' \in {hold, [hold EXCEPT ![p] = "released"]}
        BY <2>18, <3>3, <4>0 DEF Release, CallProducer, Participants
      <4>2. Grip(p)' \in {Grip(p), "free"}
        BY <4>1 DEF Grip, HoldInv, HoldShape
      <4>3. \A q \in Participants \ {p} : Grip(q)' = Grip(q)
        BY <4>1 DEF Grip, HoldInv, HoldShape, Participants
      <4> QED BY <3>1, <4>1, <4>2, <4>3, LetsGo DEF handoffVars
    <3> QED BY <3>2, <3>3
  <2>19. CASE RecordHandoffFinalizationAck(w)
    <3>1. UNCHANGED <<committed, canceled, owner, bill, hold>>
      BY <2>19 DEF RecordHandoffFinalizationAck
    <3>2. phase' = phase \/ (phase = "finalizing" /\ phase' = "succeeded")
      BY <2>19 DEF RecordHandoffFinalizationAck
    <3>3. CASE phase' = phase
      BY <3>1, <3>3, QuietStep DEF Grip, Closed
    <3>4. CASE phase = "finalizing" /\ phase' = "succeeded"
      BY <3>1, <3>4, Closes DEF Closed, HoldInv, Verdict
    <3> QED BY <3>2, <3>3, <3>4
  <2>20. CASE AdvanceHandoffCancellation(w)
    BY <2>20, QuietStep DEF AdvanceHandoffCancellation, Grip, Closed, handoffVars, userVars
  <2>21. CASE ReplayPrepare(w)
    BY <2>21, BillingTakes DEF ReplayPrepare, CallBilling, handoffVars
  <2>22. CASE AbortBilling(w)
    <3>1. UNCHANGED <<handoffVars, hold>>
      BY <2>22 DEF AbortBilling
    <3>2. \/ bill' = bill
          \/ BillAborts /\ bill' = BillAborted /\ bill.phase # "none"
      BY <2>22 DEF AbortBilling, HoldInv, Doing
    <3>3. Grip("billing")' = Grip("billing")
      BY <3>2 DEF BillAborts, BillAborted, Grip, HoldInv, HoldShape
    <3> QED BY <3>1, <3>3, QuietStep DEF Closed, handoffVars
  <2>23. CASE RecordBillingAbortAck(w)
    <3>1. UNCHANGED <<committed, canceled, owner, bill, hold>>
      BY <2>23 DEF RecordBillingAbortAck
    <3>2. phase' = phase \/ (phase = "canceling" /\ phase' = "canceled")
      BY <2>23 DEF RecordBillingAbortAck, AbortAck
    <3>3. CASE phase' = phase
      BY <3>1, <3>3, QuietStep DEF Grip, Closed
    <3>4. CASE phase = "canceling" /\ phase' = "canceled"
      BY <3>1, <3>4, Closes DEF Closed, HoldInv, Verdict
    <3> QED BY <3>2, <3>3, <3>4
  <2>24. CASE AbortProducer(w)
    <3>0. PICK p \in Producers : p = part[w]
      BY <2>24 DEF AbortProducer, HoldInv, Doing
    <3>1. p # "billing" /\ p \in Participants /\ canceled
      BY <2>24, HandoffAssumption DEF AbortProducer, HoldInv, Doing, Participants
    <3>2. UNCHANGED <<handoffVars, bill>> /\ hold' \in {hold, [hold EXCEPT ![p] = "aborted"]}
      BY <2>24, <3>0 DEF AbortProducer, CallProducer
    <3>3. Grip(p)' \in {Grip(p), "free"}
      BY <3>1, <3>2 DEF Grip, HoldInv, HoldShape
    <3>4. \A q \in Participants \ {p} : Grip(q)' = Grip(q)
      BY <3>1, <3>2 DEF Grip, HoldInv, HoldShape, Participants
    <3> QED BY <3>1, <3>2, <3>3, <3>4, LetsGo DEF handoffVars
  <2>25. CASE RecordCloudHandoffAbortAck(w)
    <3>1. UNCHANGED <<committed, canceled, owner, bill, hold>>
      BY <2>25 DEF RecordCloudHandoffAbortAck
    <3>2. phase' = phase \/ (phase = "canceling" /\ phase' = "canceled")
      BY <2>25 DEF RecordCloudHandoffAbortAck, AbortAck
    <3>3. CASE phase' = phase
      BY <3>1, <3>3, QuietStep DEF Grip, Closed
    <3>4. CASE phase = "canceling" /\ phase' = "canceled"
      BY <3>1, <3>4, Closes DEF Closed, HoldInv, Verdict
    <3> QED BY <3>2, <3>3, <3>4
  <2> QED BY <1>2, <2>1, <2>2, <2>3, <2>4, <2>5, <2>6, <2>7, <2>8, <2>9, <2>10, <2>11, <2>12,
     <2>13, <2>14, <2>15, <2>16, <2>17, <2>18, <2>19, <2>20, <2>21, <2>22, <2>23, <2>24, <2>25
     DEF WorkerStep
<1>3. ASSUME NEW w \in Workers, WorkerCrash(w) PROVE [Atomic!Next]_(Atomic!vars)
  BY <1>3, QuietStep DEF WorkerCrash, Grip, Closed, handoffVars, userVars
<1>4. ASSUME NEW a \in Sessions, OpenSession(a) PROVE [Atomic!Next]_(Atomic!vars)
  BY <1>4, QuietStep DEF OpenSession, Grip, Closed, handoffVars, userVars
<1>5. ASSUME NEW u \in Users, UserChanges(u) PROVE [Atomic!Next]_(Atomic!vars)
  BY <1>5, QuietStep DEF UserChanges, Grip, Closed, handoffVars, userVars
<1>6. CASE AcceptOwnerHandoff
  <2>1. ~Closed /\ ~Closed'
    BY <1>6 DEF AcceptOwnerHandoff, Closed, HoldInv, Verdict
  <2> QED BY <1>6, <2>1, QuietStep DEF AcceptOwnerHandoff, Grip
<1>7. CASE CancelOwnerHandoff
  <2>1. UNCHANGED <<committed, owner, bill, hold>>
    BY <1>7 DEF CancelOwnerHandoff
  <2>2. CASE UNCHANGED <<phase, canceled>>
    BY <2>1, <2>2, QuietStep DEF Grip, Closed
  <2>3. CASE phase \in {"preparing", "committing"} /\ phase' = "canceling" /\ canceled' = TRUE
    <3>1. ~committed /\ ~canceled /\ ~Closed /\ ~Closed'
      BY <2>3 DEF HoldInv, Verdict, Closed
    <3>2. \A p \in Participants : Grip(p)' = Grip(p)
      BY <2>1 DEF Grip
    <3>3. Atomic!Cancel
      BY <2>1, <2>3, <3>1, <3>2 DEF Atomic!Cancel, Closed
    <3> QED BY <3>3 DEF Atomic!Next
  <2> QED BY <1>7, <2>2, <2>3 DEF CancelOwnerHandoff
<1>8. CASE InviteExpires
  BY <1>8, QuietStep DEF InviteExpires, Grip, Closed, handoffVars, userVars
<1>9. CASE EnrollmentsDrain
  BY <1>9, QuietStep DEF EnrollmentsDrain, Grip, Closed, handoffVars, userVars
<1>10. CASE JobBecomesDue
  BY <1>10, QuietStep DEF JobBecomesDue, Grip, Closed, handoffVars, userVars
<1>11. CASE LeaseEnds
  BY <1>11, QuietStep DEF LeaseEnds, Grip, Closed, handoffVars, userVars
<1>12. CASE BillingSettles
  <2>1. bill'.phase = bill.phase
    BY <1>12 DEF BillingSettles, HoldInv, HoldShape
  <2> QED BY <1>12, <2>1, QuietStep DEF BillingSettles, Grip, Closed, handoffVars
<1>13. CASE BillingReleases
  <2>1. bill'.phase = "aborted" /\ canceled /\ UNCHANGED <<handoffVars, hold>>
    BY <1>13 DEF BillingReleases, HoldInv, HoldShape, Holds
  <2>2. Grip("billing")' = "free" /\ \A p \in Participants \ {"billing"} : Grip(p)' = Grip(p)
    BY <2>1 DEF Grip
  <2> QED BY <2>1, <2>2, LetsGo DEF handoffVars, Participants
<1>14. CASE UNCHANGED vars
  BY <1>14, QuietStep DEF vars, Grip, Closed, handoffVars
<1> QED BY <1>1, <1>2, <1>3, <1>4, <1>5, <1>6, <1>7, <1>8, <1>9, <1>10, <1>11, <1>12, <1>13, <1>14 DEF
   Next, Actors

\* The saga commits or is canceled, never both; the owner changes only while all
\* participants hold the cloud; nobody lets go before the verdict, and nobody holds
\* on after the end (commitAuthorizedHandoff, cancelOwnerHandoff,
\* RecordHandoffFinalizationAck, RecordCloudHandoffAbortAck).
THEOREM HandoffIsAtomic == Spec => ImplementsAtomicHandoff
<1>1. Init => Atomic!Init
  BY HandoffAssumption DEF Init, Atomic!Init, Grip, Participants
<1> QED BY <1>1, HoldInit, HoldStep, RefinementStep, PTL
          DEF Spec, ImplementsAtomicHandoff, Atomic!Spec
=============================================================================
