------------------------ MODULE CloudDeletion_proofs ------------------------
(***************************************************************************)
(* CloudDeletion for any number of producers, operations, workers and      *)
(* faults: the records of a deletion agree with what Billing and the       *)
(* producers have done.                                                    *)
(*                                                                         *)
(* What a worker has read before its next call stays true because the      *)
(* other side only moves forward: a command stays written down, Billing    *)
(* never reopens, and a producer that let go stays so (Forward).           *)
(***************************************************************************)
EXTENDS CloudDeletion, FiniteSetTheorems, TLAPS

LetGo == {"canceling", "canceled"}
Holding == {"held", "released"}

\* What a worker has read and done so far, by the place where it is.
LocalInv(w) ==
  LET k == key[w] IN
  /\ pc[w] # "idle" => k \in Keys
  /\ pc[w] = "idle" => remote[w] = "none"
  /\ pc[w] \in {"hold", "record_hold", "release", "record_release"} => todo[w] # {}
  /\ pc[w] \in {"prepare_close", "prepare_again"} => command[w] # 0
  /\ pc[w] \in {"close", "resolve", "record_retirement", "cancel_resolve", "cancel_retirement"} =>
       command[w] \in attempts[k]
  /\ pc[w] \in {"record_retirement", "cancel_retirement"} => command[w] \in bill[k].retired
  /\ pc[w] = "complete" => bill[k].phase = "closed"
  /\ pc[w] = "record_hold" => hold[k][First(todo[w])] \in Holding
  /\ pc[w] \in {"release", "record_release"} => bill[k].phase \in LetGo
  /\ pc[w] = "record_release" => hold[k][First(todo[w])] = "released"
  /\ pc[w] = "record_billing" => remote[w] = "canceled"
  /\ remote[w] = "canceled" => k \in Keys /\ bill[k].phase = "canceled"

\* The evidence an operation has collected is true of Billing and the producers.
EvidenceInv(k) ==
  /\ retired[k] \subseteq bill[k].retired
  /\ attempts[k] # {} => receipts[k] = Producers
  /\ \A p \in receipts[k] : hold[k][p] \in Holding
  /\ \A p \in Producers : hold[k][p] = "released" => bill[k].phase \in LetGo
  /\ \A p \in Producers : p \in releases[k] => hold[k][p] = "released"
  /\ "billing" \in releases[k] => bill[k].phase = "canceled"
  /\ \A r, s \in Active(k) : r = s
  /\ bill[k].phase = "closed" => \E r \in Active(k) : r \notin bill[k].retired

\* What the phase of an operation says.
PhaseInv(k) ==
  /\ phase[k] = "canceled" => releases[k] = Producers \cup {"billing"}
  /\ phase[k] = "succeeded" => bill[k].phase = "closed"
  /\ phase[k] \in Terminal => ~blocked[k]
  /\ phase[k] \notin {"none", "canceled"} => ~resources /\ ownership = opOwnership[k]

CloudInv ==
  /\ \A s \in Sessions : pc[s] # "idle" => key[s] \in Keys
  /\ deleted => ~resources /\ ~access /\ \E k \in Keys : phase[k] = "succeeded"

DeletionInv ==
  /\ TypeOK /\ CloudInv
  /\ \A w \in Workers : LocalInv(w)
  /\ \A k \in Keys : EvidenceInv(k) /\ PhaseInv(k)

-----------------------------------------------------------------------------
(* The parts of the type invariant.                                        *)

CloudTypes ==
  /\ resources \in BOOLEAN /\ access \in BOOLEAN /\ deleted \in BOOLEAN
  /\ ownership \in 0..MaxOwners /\ authorization \in Nat /\ ownerActive \in BOOLEAN
  /\ changes \in 0..MaxChanges /\ faults \in 0..MaxFaults

OpTypes ==
  /\ phase \in [Keys -> {"none", "preparing", "closing", "canceling"} \cup Terminal]
  /\ opOwnership \in [Keys -> 0..MaxOwners] /\ blocked \in [Keys -> BOOLEAN]
  /\ receipts \in [Keys -> SUBSET Producers] /\ attempts \in [Keys -> SUBSET Settlements]
  /\ retired \in [Keys -> SUBSET Settlements] /\ \A k \in Keys : retired[k] \subseteq attempts[k]
  /\ releases \in [Keys -> SUBSET (Producers \cup {"billing"})]

JobTypes ==
  /\ due \in [Keys -> BOOLEAN] /\ lease \in [Keys -> Workers \cup {NoWorker}]
  /\ woken \in [Keys -> BOOLEAN]

RemoteTypes ==
  /\ bill \in [Keys -> BillRow]
  /\ hold \in [Keys -> [Producers -> {"none", "draining", "held", "released"}]]

LocalTypes ==
  /\ pc \in [Actors -> Steps] /\ key \in [Actors -> Keys \cup {NoKey}]
  /\ seen \in [Sessions -> (0..MaxOwners) \X Nat] /\ scope \in [Sessions -> (0..MaxOwners) \X Nat]
  /\ todo \in [Workers -> SUBSET Producers] /\ command \in [Workers -> 0..MaxSettlements]
  /\ remote \in [Workers -> {"none", "canceling", "canceled"}]

\* The type invariant, in parts.
LEMMA TypeParts ==
  TypeOK <=> CloudTypes /\ OpTypes /\ JobTypes /\ RemoteTypes /\ LocalTypes
BY DEF TypeOK, CloudTypes, OpTypes, JobTypes, RemoteTypes, LocalTypes

\* The same of the next state.
LEMMA TypePartsNext ==
  TypeOK' <=> CloudTypes' /\ OpTypes' /\ JobTypes' /\ RemoteTypes' /\ LocalTypes'
BY TypeParts, PTL

\* The first of a list is one of it.
LEMMA FirstIsIn == ASSUME NEW S, S # {} PROVE First(S) \in S
BY DEF First

-----------------------------------------------------------------------------
(* What may change under a worker.                                         *)

Forward ==
  \A k \in Keys :
    /\ attempts[k] \subseteq attempts'[k]
    /\ bill[k].retired \subseteq bill'[k].retired
    /\ bill[k].phase = "closed" => bill'[k].phase = "closed"
    /\ bill[k].phase \in LetGo => bill'[k].phase \in LetGo
    /\ bill[k].phase = "canceled" => bill'[k].phase = "canceled"
    /\ \A p \in Producers : /\ hold[k][p] \in Holding => hold'[k][p] \in Holding
                            /\ hold[k][p] = "released" => hold'[k][p] = "released"

\* A step of w leaves the others where they are.
Moved(w) ==
  /\ LocalTypes'
  /\ \A s \in Sessions : pc'[s] = pc[s] /\ key'[s] = key[s]
  /\ \A v \in Workers \ {w} : /\ pc'[v] = pc[v] /\ key'[v] = key[v] /\ todo'[v] = todo[v]
                              /\ command'[v] = command[v] /\ remote'[v] = remote[v]

\* What a worker has read stays true while it does nothing.
LEMMA OthersStay ==
  ASSUME DeletionInv, Forward, NEW v \in Workers,
         pc'[v] = pc[v], key'[v] = key[v], todo'[v] = todo[v], command'[v] = command[v],
         remote'[v] = remote[v]
  PROVE  LocalInv(v)'
<1>1. LocalInv(v) /\ LocalTypes
  BY TypeParts DEF DeletionInv
<1>2. pc[v] \in {"record_hold", "record_release"} => First(todo[v]) \in Producers /\ key[v] \in Keys
  BY <1>1, FirstIsIn DEF LocalInv, LocalTypes
<1>3. pc[v] # "idle" => key[v] \in Keys
  BY <1>1 DEF LocalInv
<1>4. pc[v] = "record_hold" => hold'[key[v]][First(todo[v])] \in Holding
  BY <1>1, <1>2 DEF LocalInv, Forward
<1>5. pc[v] = "record_release" => hold'[key[v]][First(todo[v])] = "released"
  BY <1>1, <1>2 DEF LocalInv, Forward
<1>6. remote[v] = "canceled" => key[v] \in Keys /\ bill'[key[v]].phase = "canceled"
  BY <1>1 DEF LocalInv, Forward
<1>7. /\ pc[v] = "complete" => bill'[key[v]].phase = "closed"
      /\ pc[v] \in {"release", "record_release"} => bill'[key[v]].phase \in LetGo
  BY <1>1, <1>3 DEF LocalInv, Forward
<1>8. /\ pc[v] \in {"close", "resolve", "record_retirement", "cancel_resolve", "cancel_retirement"} =>
           command[v] \in attempts'[key[v]]
      /\ pc[v] \in {"record_retirement", "cancel_retirement"} => command[v] \in bill'[key[v]].retired
  BY <1>1, <1>3 DEF LocalInv, Forward
<1>9. /\ pc[v] = "idle" => remote[v] = "none"
      /\ pc[v] \in {"hold", "record_hold", "release", "record_release"} => todo[v] # {}
      /\ pc[v] \in {"prepare_close", "prepare_again"} => command[v] # 0
      /\ pc[v] = "record_billing" => remote[v] = "canceled"
  BY <1>1 DEF LocalInv
<1>q. QED BY <1>3, <1>4, <1>5, <1>6, <1>7, <1>8, <1>9 DEF LocalInv

\* Nothing the operation has on record, and nothing outside, changes.
LEMMA EvidenceKeeps ==
  ASSUME DeletionInv, UNCHANGED <<receipts, attempts, retired, releases, bill, hold>>
  PROVE  Forward /\ RemoteTypes' /\ \A k \in Keys : EvidenceInv(k)'
<1>1. Forward
  BY DEF Forward
<1>2. RemoteTypes'
  BY TypeParts DEF DeletionInv, RemoteTypes
<1>3. \A k \in Keys : EvidenceInv(k)'
  BY DEF DeletionInv, EvidenceInv, Active
<1>q. QED BY <1>1, <1>2, <1>3

\* A phase that does not change keeps saying what it says.
LEMMA PhaseKeeps ==
  ASSUME DeletionInv, Forward, NEW k \in Keys,
         phase'[k] = phase[k], opOwnership'[k] = opOwnership[k],
         phase[k] \in Terminal => blocked'[k] = blocked[k],
         phase[k] = "canceled" => releases'[k] = releases[k],
         phase[k] \notin {"none", "canceled"} => resources' = resources /\ ownership' = ownership
  PROVE  PhaseInv(k)'
BY DEF DeletionInv, PhaseInv, Forward, Terminal

\* A new row at Billing that moves forward, and is closed only for a command that
\* is on record and not retired.
LEMMA BillStep ==
  ASSUME DeletionInv, NEW k \in Keys, NEW e \in BillRow,
         bill' \in {bill, [bill EXCEPT ![k] = e]},
         UNCHANGED <<receipts, attempts, retired, releases, hold>>,
         bill[k].retired \subseteq e.retired,
         bill[k].phase = "closed" => e.phase = "closed",
         bill[k].phase \in LetGo => e.phase \in LetGo,
         bill[k].phase = "canceled" => e.phase = "canceled",
         e.phase = "closed" => \E r \in Active(k) : r \notin e.retired
  PROVE  Forward /\ RemoteTypes' /\ \A j \in Keys : EvidenceInv(j)'
<1>1. CASE UNCHANGED bill
  BY <1>1, EvidenceKeeps
<1>2. CASE bill' = [bill EXCEPT ![k] = e]
  <2>1. RemoteTypes
    BY TypeParts DEF DeletionInv
  <2>2. bill'[k] = e /\ \A j \in Keys : j # k => bill'[j] = bill[j]
    BY <1>2, <2>1 DEF RemoteTypes
  <2>3. Forward
    BY <2>2 DEF Forward
  <2>4. RemoteTypes'
    BY <1>2, <2>1 DEF RemoteTypes
  <2>5. ASSUME NEW j \in Keys PROVE EvidenceInv(j)'
    <3>1. EvidenceInv(j) /\ Active(j)' = Active(j)
      BY DEF DeletionInv, Active
    <3>2. CASE j # k
      BY <2>2, <3>1, <3>2 DEF EvidenceInv
    <3>3. CASE j = k
      BY <2>2, <3>1, <3>3 DEF EvidenceInv, LetGo
    <3>q. QED BY <3>2, <3>3
  <2>q. QED BY <2>3, <2>4, <2>5
<1>q. QED BY <1>1, <1>2

\* A new answer of a producer that moves forward.
LEMMA HoldStep ==
  ASSUME DeletionInv, NEW k \in Keys, NEW p \in Producers,
         NEW e \in {"none", "draining", "held", "released"},
         hold' \in {hold, [hold EXCEPT ![k][p] = e]},
         UNCHANGED <<receipts, attempts, retired, releases, bill>>,
         hold[k][p] \in Holding => e \in Holding,
         hold[k][p] = "released" => e = "released",
         e = "released" => bill[k].phase \in LetGo
  PROVE  Forward /\ RemoteTypes' /\ \A j \in Keys : EvidenceInv(j)'
<1>1. CASE UNCHANGED hold
  BY <1>1, EvidenceKeeps
<1>2. CASE hold' = [hold EXCEPT ![k][p] = e]
  <2>1. RemoteTypes
    BY TypeParts DEF DeletionInv
  <2>2. /\ hold'[k][p] = e
        /\ \A j \in Keys, r \in Producers : j # k \/ r # p => hold'[j][r] = hold[j][r]
    BY <1>2, <2>1 DEF RemoteTypes
  <2>3. Forward
    BY <2>2 DEF Forward
  <2>4. RemoteTypes'
    BY <1>2, <2>1 DEF RemoteTypes
  <2>5. ASSUME NEW j \in Keys PROVE EvidenceInv(j)'
    <3>1. EvidenceInv(j) /\ Active(j)' = Active(j) /\ receipts[j] \subseteq Producers
      BY TypeParts DEF DeletionInv, Active, OpTypes
    <3>2. \A r \in receipts[j] : hold'[j][r] \in Holding
      BY <2>2, <3>1 DEF EvidenceInv
    <3>3. \A r \in Producers : hold'[j][r] = "released" => bill[j].phase \in LetGo
      BY <2>2, <3>1 DEF EvidenceInv
    <3>4. \A r \in Producers : r \in releases[j] => hold'[j][r] = "released"
      BY <2>2, <3>1 DEF EvidenceInv
    <3>q. QED BY <3>1, <3>2, <3>3, <3>4 DEF EvidenceInv
  <2>q. QED BY <2>3, <2>4, <2>5
<1>q. QED BY <1>1, <1>2

-----------------------------------------------------------------------------
(* Steps of a worker, put together.                                        *)

\* A step of a worker that keeps the records, and after which it knows what it
\* should, keeps the invariant.
LEMMA WorkerDone ==
  ASSUME DeletionInv, NEW w \in Workers, Moved(w), LocalInv(w)', Forward,
         JobTypes', OpTypes', RemoteTypes', faults' \in 0..MaxFaults, UNCHANGED cloudVars,
         \A k \in Keys : EvidenceInv(k)' /\ PhaseInv(k)',
         \A k \in Keys : phase[k] = "succeeded" => phase'[k] = "succeeded"
  PROVE  DeletionInv'
<1>1. CloudTypes'
  BY TypeParts DEF DeletionInv, CloudTypes, cloudVars
<1>2. TypeOK'
  BY <1>1, TypePartsNext DEF Moved
<1>3. CloudInv'
  BY DEF DeletionInv, CloudInv, Moved, cloudVars
<1>4. ASSUME NEW v \in Workers PROVE LocalInv(v)'
  <2>1. CASE v # w
    BY <2>1, OthersStay DEF Moved
  <2>q. QED BY <2>1
<1>q. QED BY <1>2, <1>3, <1>4 DEF DeletionInv

\* The same for a step that changes no record of an operation.
LEMMA CallDone ==
  ASSUME DeletionInv, NEW w \in Workers, Moved(w), LocalInv(w)', Forward,
         UNCHANGED <<opVars, cloudVars>>, JobTypes', RemoteTypes', faults' \in 0..MaxFaults,
         \A k \in Keys : EvidenceInv(k)'
  PROVE  DeletionInv'
<1>1. OpTypes'
  BY TypeParts DEF DeletionInv, OpTypes, opVars
<1>2. \A k \in Keys : PhaseInv(k)'
  BY PhaseKeeps DEF opVars, cloudVars
<1>3. \A k \in Keys : phase[k] = "succeeded" => phase'[k] = "succeeded"
  BY DEF opVars
<1>q. QED BY <1>1, <1>2, <1>3, WorkerDone

\* Types and shape of the steps that failing calls, returning workers and
\* wake-ups consist of.
LEMMA StepShapes ==
  ASSUME DeletionInv
  PROVE  /\ Fault => faults' \in 0..MaxFaults
         /\ UNCHANGED jobVars => JobTypes'
         /\ \A k \in Keys : Wake(k) => JobTypes'
         /\ UNCHANGED faults => faults' \in 0..MaxFaults
<1>1. JobTypes /\ faults \in 0..MaxFaults
  BY TypeParts DEF DeletionInv, CloudTypes
<1>2. Fault => faults' \in 0..MaxFaults
  BY <1>1, DeletionAssumption DEF Fault
<1>3. UNCHANGED jobVars => JobTypes'
  BY <1>1 DEF JobTypes, jobVars
<1>4. \A k \in Keys : Wake(k) => JobTypes'
  BY <1>1 DEF JobTypes, Wake
<1>q. QED BY <1>1, <1>2, <1>3, <1>4

\* A worker that goes on with what it has.
LEMMA GotoMoves ==
  ASSUME DeletionInv, NEW w \in Workers, NEW c \in Steps, Goto(w, c),
         UNCHANGED <<key, seen, scope>>,
         \/ UNCHANGED todo
         \/ \E t \in SUBSET Producers : todo' = [todo EXCEPT ![w] = t],
         \/ UNCHANGED command
         \/ \E n \in 0..MaxSettlements : command' = [command EXCEPT ![w] = n],
         \/ UNCHANGED remote
         \/ \E r \in LetGo : remote' = [remote EXCEPT ![w] = r]
  PROVE  Moved(w) /\ pc'[w] = c
<1>1. LocalTypes /\ w \in Actors /\ Workers \subseteq Actors /\ Sessions \subseteq Actors /\ w \notin Sessions
  BY TypeParts, DeletionAssumption DEF DeletionInv, Actors
<1>2. /\ pc' \in [Actors -> Steps] /\ pc'[w] = c /\ \A a \in Actors : a # w => pc'[a] = pc[a]
  BY <1>1 DEF LocalTypes, Goto
<1>3. todo' \in [Workers -> SUBSET Producers] /\ \A v \in Workers : v # w => todo'[v] = todo[v]
  BY <1>1 DEF LocalTypes
<1>4. command' \in [Workers -> 0..MaxSettlements] /\ \A v \in Workers : v # w => command'[v] = command[v]
  BY <1>1 DEF LocalTypes
<1>5. /\ remote' \in [Workers -> {"none", "canceling", "canceled"}]
      /\ \A v \in Workers : v # w => remote'[v] = remote[v]
  BY <1>1 DEF LocalTypes, LetGo
<1>q. QED BY <1>1, <1>2, <1>3, <1>4, <1>5 DEF Moved, LocalTypes

\* A worker that returns.
LEMMA ForgetMoves ==
  ASSUME DeletionInv, NEW w \in Workers, Forget(w), UNCHANGED <<seen, scope>>
  PROVE  Moved(w) /\ LocalInv(w)'
<1>1. LocalTypes /\ w \in Actors /\ Workers \subseteq Actors /\ Sessions \subseteq Actors /\ w \notin Sessions
  BY TypeParts, DeletionAssumption DEF DeletionInv, Actors
<1>2. /\ pc' \in [Actors -> Steps] /\ pc'[w] = "idle" /\ \A a \in Actors : a # w => pc'[a] = pc[a]
      /\ key' \in [Actors -> Keys \cup {NoKey}] /\ \A a \in Actors : a # w => key'[a] = key[a]
  BY <1>1 DEF LocalTypes, Forget, Goto, Steps
<1>3. todo' \in [Workers -> SUBSET Producers] /\ \A v \in Workers : v # w => todo'[v] = todo[v]
  BY <1>1 DEF LocalTypes, Forget
<1>4. command' \in [Workers -> 0..MaxSettlements] /\ \A v \in Workers : v # w => command'[v] = command[v]
  BY <1>1, DeletionAssumption DEF LocalTypes, Forget
<1>5. /\ remote' \in [Workers -> {"none", "canceling", "canceled"}] /\ remote'[w] = "none"
      /\ \A v \in Workers : v # w => remote'[v] = remote[v]
  BY <1>1 DEF LocalTypes, Forget
<1>6. Moved(w)
  BY <1>1, <1>2, <1>3, <1>4, <1>5 DEF Moved, LocalTypes
<1>7. LocalInv(w)'
  BY <1>2, <1>5 DEF LocalInv
<1>q. QED BY <1>6, <1>7

\* A worker that goes to a place where it needs to know nothing but its operation.
LEMMA PlainStep ==
  ASSUME DeletionInv, Forward, NEW w \in Workers, Moved(w), key'[w] = key[w], key[w] \in Keys,
         remote'[w] = remote[w],
         pc'[w] \in {"process", "prepare_billing", "status", "lookup", "status_again",
                     "lookup_again", "cancel_prepare", "cancel_billing", "cancel_finish",
                     "blockers", "finish"}
  PROVE  LocalInv(w)'
<1>1. remote[w] = "canceled" => bill'[key[w]].phase = "canceled"
  BY DEF DeletionInv, LocalInv, Forward
<1>q. QED BY <1>1 DEF LocalInv

\* A call or a transaction that has failed.
LEMMA FailsStep ==
  ASSUME DeletionInv, Forward, NEW w \in Workers, pc[w] # "idle", Fails(w), UNCHANGED <<seen, scope>>
  PROVE  Moved(w) /\ LocalInv(w)'
<1>1. key[w] \in Keys
  BY DEF DeletionInv, LocalInv
<1>2. Moved(w) /\ pc'[w] = "blockers"
  BY GotoMoves DEF Fails, Steps
<1>3. key'[w] = key[w] /\ remote'[w] = remote[w]
  BY DEF Fails
<1>q. QED BY <1>1, <1>2, <1>3, PlainStep

-----------------------------------------------------------------------------
(* The job.                                                                *)

\* Claiming, reading and finishing a job, and dying with it, change no evidence.
LEMMA JobSteps ==
  ASSUME DeletionInv, NEW w \in Workers,
         \/ \E k \in Keys : ClaimCloudDeletionJobs(w, k)
         \/ ProcessCloudDeletionJob(w) \/ RecordBlockers(w) \/ FinishCloudDeletionJob(w)
         \/ WorkerCrash(w)
  PROVE  DeletionInv'
<1>1. /\ LocalTypes /\ OpTypes /\ JobTypes /\ LocalInv(w)
      /\ w \in Actors /\ Workers \subseteq Actors /\ Sessions \subseteq Actors /\ w \notin Sessions
  BY TypeParts, DeletionAssumption DEF DeletionInv, Actors
<1>2. UNCHANGED <<receipts, attempts, retired, releases, bill, hold>>
  BY DEF ClaimCloudDeletionJobs, ProcessCloudDeletionJob, RecordBlockers, FinishCloudDeletionJob,
         WorkerCrash, opVars
<1>3. Forward /\ RemoteTypes' /\ \A k \in Keys : EvidenceInv(k)'
  BY <1>2, EvidenceKeeps
<1>4. UNCHANGED cloudVars /\ faults' \in 0..MaxFaults /\ UNCHANGED <<seen, scope>>
  BY StepShapes DEF ClaimCloudDeletionJobs, ProcessCloudDeletionJob, RecordBlockers,
                    FinishCloudDeletionJob, WorkerCrash
<1>5. ASSUME NEW k \in Keys, ClaimCloudDeletionJobs(w, k) PROVE DeletionInv'
  <2>1. UNCHANGED opVars /\ JobTypes'
    BY <1>1, <1>5 DEF ClaimCloudDeletionJobs, JobTypes
  <2>2. Moved(w) /\ pc'[w] = "process" /\ key'[w] = k /\ remote'[w] = "none"
    BY <1>1, <1>5 DEF ClaimCloudDeletionJobs, Goto, Moved, LocalTypes, Steps, LocalInv
  <2>3. LocalInv(w)'
    BY <2>2 DEF LocalInv
  <2>q. QED BY <1>3, <1>4, <2>1, <2>2, <2>3, CallDone
<1>6. ASSUME WorkerCrash(w) PROVE DeletionInv'
  <2>1. UNCHANGED opVars /\ JobTypes' /\ Forget(w)
    BY <1>6, StepShapes DEF WorkerCrash
  <2>q. QED BY <1>3, <1>4, <2>1, ForgetMoves, CallDone
<1>7. ASSUME FinishCloudDeletionJob(w) PROVE DeletionInv'
  <2>1. UNCHANGED opVars /\ JobTypes' /\ Forget(w)
    BY <1>1, <1>7, StepShapes DEF FinishCloudDeletionJob, JobTypes
  <2>q. QED BY <1>3, <1>4, <2>1, ForgetMoves, CallDone
<1>8. ASSUME ProcessCloudDeletionJob(w) PROVE DeletionInv'
  <2>1. UNCHANGED opVars /\ JobTypes' /\ key[w] \in Keys
    BY <1>1, <1>8, StepShapes DEF ProcessCloudDeletionJob, LocalInv
  <2>2. CASE Forget(w)
    BY <1>3, <1>4, <2>1, <2>2, ForgetMoves, CallDone
  <2>3. ASSUME NEW c \in {"finish", "prepare_billing", "lookup", "cancel_prepare"}, Goto(w, c),
               UNCHANGED <<command, key, todo, remote>>
        PROVE  DeletionInv'
    <3>1. Moved(w) /\ pc'[w] = c
      BY <1>4, <2>3, GotoMoves DEF Steps
    <3>2. LocalInv(w)'
      BY <1>3, <2>1, <2>3, <3>1, PlainStep
    <3>q. QED BY <1>3, <1>4, <2>1, <3>1, <3>2, CallDone
  <2>4. ASSUME NEW r \in Active(key[w]), Goto(w, "cancel_resolve"),
               command' = [command EXCEPT ![w] = r], UNCHANGED <<key, todo, remote>>
        PROVE  DeletionInv'
    <3>1. r \in attempts[key[w]] /\ r \in 0..MaxSettlements
      BY <1>1, <2>1, DeletionAssumption DEF Active, OpTypes, Settlements
    <3>2. Moved(w) /\ pc'[w] = "cancel_resolve"
      BY <1>4, <2>4, <3>1, GotoMoves DEF Steps
    <3>3. command'[w] = r /\ key'[w] = key[w] /\ remote'[w] = remote[w]
      BY <1>1, <2>4 DEF LocalTypes
    <3>4. remote[w] = "canceled" => bill'[key[w]].phase = "canceled"
      BY <1>1, <1>2 DEF LocalInv
    <3>5. LocalInv(w)'
      BY <1>2, <2>1, <3>1, <3>2, <3>3, <3>4 DEF LocalInv
    <3>q. QED BY <1>3, <1>4, <2>1, <3>2, <3>5, CallDone
  <2>q. QED BY <1>8, <2>2, <2>3, <2>4 DEF ProcessCloudDeletionJob
<1>9. ASSUME RecordBlockers(w) PROVE DeletionInv'
  <2>1. JobTypes' /\ key[w] \in Keys
    BY <1>1, <1>9, StepShapes DEF RecordBlockers, LocalInv
  <2>2. /\ UNCHANGED <<phase, opOwnership, releases, receipts, attempts, retired>>
        /\ blocked' = [blocked EXCEPT ![key[w]] = @ \/ phase[key[w]] \notin Terminal]
    BY <1>9 DEF RecordBlockers
  <2>3. OpTypes' /\ \A k \in Keys : phase[k] \in Terminal => blocked'[k] = blocked[k]
    <3>1. /\ blocked' \in [Keys -> BOOLEAN]
          /\ \A k \in Keys : phase[k] \in Terminal => blocked'[k] = blocked[k]
      BY <1>1, <2>1, <2>2, Zenon DEF OpTypes
    <3>q. QED BY <1>1, <2>2, <3>1 DEF OpTypes
  <2>4. \A k \in Keys : PhaseInv(k)'
    BY <1>3, <1>4, <2>2, <2>3, PhaseKeeps DEF cloudVars
  <2>5. Moved(w) /\ pc'[w] = "finish"
    BY <1>9, GotoMoves DEF RecordBlockers, Steps
  <2>6. LocalInv(w)'
    BY <1>3, <1>9, <2>1, <2>5, PlainStep DEF RecordBlockers
  <2>q. QED BY <1>3, <1>4, <2>1, <2>2, <2>3, <2>4, <2>5, <2>6, WorkerDone
<1>q. QED BY <1>5, <1>6, <1>7, <1>8, <1>9

-----------------------------------------------------------------------------
(* Calls to Billing.                                                       *)

\* A call of Billing in general: what it did or may have done, and where an answer
\* leads.
LEMMA BillingCall ==
  ASSUME DeletionInv, NEW w \in Workers, pc[w] # "idle", NEW e \in BillRow,
         UNCHANGED <<opVars, jobVars, cloudVars, hold, seen, scope>>,
         \/ bill' = [bill EXCEPT ![key[w]] = e] /\ UNCHANGED <<key, faults>>
         \/ bill' \in {bill, [bill EXCEPT ![key[w]] = e]} /\ Fault /\ Fails(w),
         LET b == bill[key[w]] IN
           /\ b.retired \subseteq e.retired
           /\ b.phase = "closed" => e.phase = "closed"
           /\ b.phase \in LetGo => e.phase \in LetGo
           /\ b.phase = "canceled" => e.phase = "canceled"
           /\ e.phase = "closed" => \E r \in Active(key[w]) : r \notin e.retired
  PROVE  /\ Forward /\ (Moved(w) /\ LocalInv(w)' => DeletionInv')
         /\ Fails(w) => DeletionInv'
<1>1. key[w] \in Keys
  BY DEF DeletionInv, LocalInv
<1>2. UNCHANGED <<receipts, attempts, retired, releases, hold>>
  BY DEF opVars
<1>3. Forward /\ RemoteTypes' /\ \A j \in Keys : EvidenceInv(j)'
  BY <1>1, <1>2, BillStep
<1>4. faults' \in 0..MaxFaults /\ JobTypes'
  BY StepShapes
<1>5. Moved(w) /\ LocalInv(w)' => DeletionInv'
  BY <1>3, <1>4, CallDone
<1>6. Fails(w) => DeletionInv'
  BY <1>3, <1>5, FailsStep
<1>q. QED BY <1>3, <1>5, <1>6

\* An answer that is an error.
LEMMA RefusedStep ==
  ASSUME DeletionInv, NEW w \in Workers, pc[w] # "idle", Refused(w)
  PROVE  DeletionInv'
<1>1. Fails(w) /\ UNCHANGED <<opVars, jobVars, cloudVars, bill, hold, faults, seen, scope>>
  BY DEF Refused
<1>2. UNCHANGED <<receipts, attempts, retired, releases, bill, hold>>
  BY <1>1 DEF opVars
<1>3. Forward /\ RemoteTypes' /\ \A j \in Keys : EvidenceInv(j)'
  BY <1>2, EvidenceKeeps
<1>q. QED BY <1>1, <1>3, StepShapes, FailsStep, CallDone

\* What Billing knows is in its type, and repeating it moves nothing backward.
LEMMA SameRow ==
  ASSUME DeletionInv, NEW k \in Keys
  PROVE  /\ bill[k] \in BillRow
         /\ bill[k].phase = "closed" => \E r \in Active(k) : r \notin bill[k].retired
BY TypeParts DEF DeletionInv, RemoteTypes, EvidenceInv

\* A preparation opens an operation at Billing, or changes nothing.
LEMMA PreparedRow ==
  ASSUME DeletionInv, NEW k \in Keys
  PROVE  LET e == BillPrepared(k)  b == bill[k] IN
           /\ e \in BillRow
           /\ e.retired = b.retired
           /\ b.phase # "none" => e.phase = b.phase
           /\ b.phase = "none" => e.phase = "preparing"
BY SameRow DEF BillPrepared, BillRow

\* Billing prepares, and the producers without a receipt are asked next.
LEMMA PrepareCloudClosureStep ==
  ASSUME DeletionInv, NEW w \in Workers, PrepareCloudClosure(w)
  PROVE  DeletionInv'
<1>1. key[w] \in Keys /\ pc[w] = "prepare_billing" /\ LocalInv(w) /\ LocalTypes
  BY TypeParts DEF PrepareCloudClosure, DeletionInv, LocalInv
<1>2. CASE Refused(w)
  BY <1>1, <1>2, RefusedStep
<1> DEFINE k == key[w]
           e == BillPrepared(k)
<1>3. CASE /\ e.phase = "preparing"
           /\ CallBilling(w, e, Ask(w, Producers \ receipts[k], "hold", "status")
                                /\ UNCHANGED <<command, remote>>)
  <2>1. /\ UNCHANGED <<opVars, jobVars, cloudVars, hold, seen, scope>>
        /\ \/ bill' = [bill EXCEPT ![k] = e] /\ UNCHANGED <<key, faults>>
           \/ bill' \in {bill, [bill EXCEPT ![k] = e]} /\ Fault /\ Fails(w)
    BY <1>3 DEF CallBilling
  <2>2. /\ e \in BillRow /\ bill[k].retired \subseteq e.retired /\ bill[k].phase # "closed"
        /\ bill[k].phase \notin LetGo
    BY <1>1, <1>3, PreparedRow DEF LetGo
  <2> HIDE DEF e
  <2>3. /\ Forward /\ (Moved(w) /\ LocalInv(w)' => DeletionInv')
        /\ Fails(w) => DeletionInv'
    BY <1>1, <1>3, <2>1, <2>2, BillingCall DEF LetGo
  <2>4. CASE /\ Ask(w, Producers \ receipts[k], "hold", "status")
             /\ UNCHANGED <<key, command, remote>>
    <3> DEFINE t == Producers \ receipts[k]
               c == IF t = {} THEN "status" ELSE "hold"
    <3>1. todo' = [todo EXCEPT ![w] = t] /\ t \in SUBSET Producers /\ Goto(w, c)
      BY <2>4 DEF Ask
    <3>2. c \in Steps /\ (c = "hold" => t # {})
      BY DEF Steps
    <3>3. todo'[w] = t
      BY <1>1, <3>1 DEF LocalTypes
    <3> HIDE DEF t, c
    <3>4. Moved(w) /\ pc'[w] = c
      BY <2>1, <2>4, <3>1, <3>2, GotoMoves
    <3>5. remote[w] = "canceled" => bill'[key[w]].phase = "canceled"
      BY <1>1, <2>3 DEF LocalInv, Forward
    <3>6. c \in {"status", "hold"}
      BY DEF c
    <3>7. LocalInv(w)'
      BY <1>1, <2>4, <3>2, <3>3, <3>4, <3>5, <3>6 DEF LocalInv
    <3>q. QED BY <2>3, <3>4, <3>7
  <2>q. QED BY <1>3, <2>3, <2>4 DEF CallBilling
<1>q. QED BY <1>2, <1>3 DEF PrepareCloudClosure

\* A settlement becomes the next command only when Billing has issued it.
LEMMA CloudClosureStatusStep ==
  ASSUME DeletionInv, NEW w \in Workers, CloudClosureStatus(w)
  PROVE  DeletionInv'
<1>1. key[w] \in Keys /\ pc[w] \in {"status", "status_again"} /\ LocalInv(w) /\ LocalTypes
  BY TypeParts DEF CloudClosureStatus, DeletionInv, LocalInv
<1>2. CASE Refused(w)
  BY <1>1, <1>2, RefusedStep
<1> DEFINE b == bill[key[w]]
           c == IF pc[w] = "status" THEN "prepare_close" ELSE "prepare_again"
<1>3. CASE /\ b.phase = "preparing" /\ b.ready # 0
           /\ CallBilling(w, b, /\ command' = [command EXCEPT ![w] = b.ready]
                                /\ Goto(w, c) /\ UNCHANGED <<todo, remote>>)
  <2>1. /\ UNCHANGED <<opVars, jobVars, cloudVars, hold, seen, scope>>
        /\ \/ bill' = [bill EXCEPT ![key[w]] = b] /\ UNCHANGED <<key, faults>>
           \/ bill' \in {bill, [bill EXCEPT ![key[w]] = b]} /\ Fault /\ Fails(w)
    BY <1>3 DEF CallBilling
  <2>2. b \in BillRow /\ b.ready \in 0..MaxSettlements
    BY <1>1, SameRow DEF BillRow
  <2>3. /\ Forward /\ (Moved(w) /\ LocalInv(w)' => DeletionInv')
        /\ Fails(w) => DeletionInv'
    BY <1>1, <1>3, <2>1, <2>2, BillingCall
  <2>4. CASE /\ command' = [command EXCEPT ![w] = b.ready]
             /\ Goto(w, c) /\ UNCHANGED <<key, todo, remote>>
    <3>1. Moved(w) /\ pc'[w] = c
      BY <2>1, <2>2, <2>4, GotoMoves DEF Steps
    <3>2. remote[w] = "canceled" => bill'[key[w]].phase = "canceled"
      BY <1>1, <2>3 DEF LocalInv, Forward
    <3>3. command'[w] # 0
      BY <1>1, <1>3, <2>4 DEF LocalTypes
    <3>4. LocalInv(w)'
      BY <1>1, <2>4, <3>1, <3>2, <3>3 DEF LocalInv
    <3>q. QED BY <2>3, <3>1, <3>4
  <2>q. QED BY <1>3, <2>3, <2>4 DEF CallBilling
<1>q. QED BY <1>2, <1>3 DEF CloudClosureStatus

\* Billing closes only for a command that is on record and that it has not retired.
LEMMA CloseCloudStep ==
  ASSUME DeletionInv, NEW w \in Workers, CloseCloud(w)
  PROVE  DeletionInv'
<1>1. key[w] \in Keys /\ pc[w] = "close" /\ LocalInv(w) /\ LocalTypes /\ EvidenceInv(key[w])
  BY TypeParts DEF CloseCloud, DeletionInv, LocalInv
<1>2. command[w] \in attempts[key[w]]
  BY <1>1 DEF LocalInv
<1> DEFINE b == bill[key[w]]
<1>3. b \in BillRow
  BY <1>1, SameRow
<1>4. ASSUME NEW e \in BillRow, NEW c \in {"complete", "resolve"},
             CallBilling(w, e, Goto(w, c) /\ UNCHANGED <<todo, command, remote>>),
             e.retired = b.retired, e.phase = b.phase \/ (b.phase = "preparing" /\ e.phase = "closed"),
             e.phase = "closed" => \E r \in Active(key[w]) : r \notin e.retired,
             c = "complete" => e.phase = "closed"
      PROVE  DeletionInv'
  <2>1. /\ UNCHANGED <<opVars, jobVars, cloudVars, hold, seen, scope>>
        /\ \/ bill' = [bill EXCEPT ![key[w]] = e] /\ UNCHANGED <<key, faults>>
           \/ bill' \in {bill, [bill EXCEPT ![key[w]] = e]} /\ Fault /\ Fails(w)
    BY <1>4 DEF CallBilling
  <2>2. /\ Forward /\ (Moved(w) /\ LocalInv(w)' => DeletionInv')
        /\ Fails(w) => DeletionInv'
    BY <1>1, <1>4, <2>1, BillingCall DEF LetGo
  <2>3. CASE /\ Goto(w, c) /\ UNCHANGED <<key, todo, command, remote>>
             /\ bill' = [bill EXCEPT ![key[w]] = e]
    <3>1. Moved(w) /\ pc'[w] = c
      BY <2>1, <2>3, GotoMoves DEF Steps
    <3>2. /\ remote[w] = "canceled" => bill'[key[w]].phase = "canceled"
          /\ attempts[key[w]] \subseteq attempts'[key[w]]
      BY <1>1, <2>2 DEF LocalInv, Forward
    <3>3. c = "complete" => bill'[key[w]].phase = "closed"
      BY <1>1, <1>4, <2>3, TypeParts DEF DeletionInv, RemoteTypes
    <3>4. LocalInv(w)'
      BY <1>1, <1>2, <2>3, <3>1, <3>2, <3>3 DEF LocalInv
    <3>q. QED BY <2>2, <3>1, <3>4
  <2>q. QED BY <1>4, <2>2, <2>3 DEF CallBilling
<1> DEFINE closes == b.phase = "closed" \/ (b.phase = "preparing" /\ b.ready = command[w]
                                            /\ command[w] \notin b.retired)
<1>5. CASE closes /\ CallBilling(w, [b EXCEPT !.phase = "closed"],
                                 Goto(w, "complete") /\ UNCHANGED <<todo, command, remote>>)
  <2> DEFINE e == [b EXCEPT !.phase = "closed"]
  <2>1. e \in BillRow /\ e.phase = "closed" /\ e.retired = b.retired
    BY <1>3 DEF BillRow
  <2>2. \E r \in Active(key[w]) : r \notin b.retired
    <3>1. CASE b.phase = "closed"
      BY <1>1, <3>1, SameRow
    <3>2. CASE command[w] \notin b.retired
      BY <1>1, <1>2, <3>2 DEF EvidenceInv, Active
    <3>q. QED BY <1>5, <3>1, <3>2
  <2> HIDE DEF e
  <2>3. CallBilling(w, e, Goto(w, "complete") /\ UNCHANGED <<todo, command, remote>>)
    BY <1>5 DEF e
  <2>q. QED BY <1>4, <1>5, <2>1, <2>2, <2>3
<1>6. CASE CallBilling(w, b, Goto(w, "resolve") /\ UNCHANGED <<todo, command, remote>>)
  BY <1>1, <1>3, <1>4, <1>6, SameRow
<1>q. QED BY <1>1, <1>5, <1>6 DEF CloseCloud

\* A retired command is retired for good, and none is when Billing has closed.
LEMMA RetireCloudCloseStep ==
  ASSUME DeletionInv, NEW w \in Workers, RetireCloudClose(w)
  PROVE  DeletionInv'
<1>1. /\ key[w] \in Keys /\ pc[w] \in {"resolve", "cancel_resolve"} /\ LocalInv(w) /\ LocalTypes
      /\ EvidenceInv(key[w]) /\ OpTypes
  BY TypeParts DEF RetireCloudClose, DeletionInv, LocalInv
<1>2. command[w] \in attempts[key[w]] /\ command[w] \in Settlements
  BY <1>1 DEF LocalInv, OpTypes
<1> DEFINE b == bill[key[w]]
<1>3. b \in BillRow
  BY <1>1, SameRow
<1>4. ASSUME NEW e \in BillRow, NEW c \in {"complete", "record_retirement", "cancel_retirement"},
             CallBilling(w, e, Goto(w, c) /\ UNCHANGED <<todo, command, remote>>),
             b.retired \subseteq e.retired, e.phase = b.phase,
             b.phase = "closed" => e = b,
             c = "complete" => e.phase = "closed",
             c # "complete" => command[w] \in e.retired
      PROVE  DeletionInv'
  <2>1. /\ UNCHANGED <<opVars, jobVars, cloudVars, hold, seen, scope>>
        /\ \/ bill' = [bill EXCEPT ![key[w]] = e] /\ UNCHANGED <<key, faults>>
           \/ bill' \in {bill, [bill EXCEPT ![key[w]] = e]} /\ Fault /\ Fails(w)
    BY <1>4 DEF CallBilling
  <2>2. e.phase = "closed" => \E r \in Active(key[w]) : r \notin e.retired
    BY <1>1, <1>4, SameRow
  <2>3. /\ Forward /\ (Moved(w) /\ LocalInv(w)' => DeletionInv')
        /\ Fails(w) => DeletionInv'
    BY <1>1, <1>4, <2>1, <2>2, BillingCall
  <2>4. CASE /\ Goto(w, c) /\ UNCHANGED <<key, todo, command, remote>>
             /\ bill' = [bill EXCEPT ![key[w]] = e]
    <3>1. Moved(w) /\ pc'[w] = c
      BY <2>1, <2>4, GotoMoves DEF Steps
    <3>2. /\ remote[w] = "canceled" => bill'[key[w]].phase = "canceled"
          /\ attempts[key[w]] \subseteq attempts'[key[w]]
      BY <1>1, <2>3 DEF LocalInv, Forward
    <3>3. bill'[key[w]] = e
      BY <1>1, <2>4, TypeParts DEF DeletionInv, RemoteTypes
    <3>4. LocalInv(w)'
      BY <1>1, <1>2, <1>4, <2>4, <3>1, <3>2, <3>3 DEF LocalInv
    <3>q. QED BY <2>3, <3>1, <3>4
  <2>q. QED BY <1>4, <2>3, <2>4 DEF CallBilling
<1>5. CASE b.phase = "closed"
  BY <1>1, <1>3, <1>4, <1>5 DEF RetireCloudClose
<1>6. CASE b.phase # "closed"
  <2> DEFINE e == [b EXCEPT !.retired = @ \cup {command[w]},
                            !.ready = IF @ = command[w] THEN 0 ELSE @]
             c == IF pc[w] = "resolve" THEN "record_retirement" ELSE "cancel_retirement"
  <2>1. e \in BillRow /\ e.phase = b.phase /\ e.retired = b.retired \cup {command[w]}
    <3> DEFINE n == IF b.ready = command[w] THEN 0 ELSE b.ready
    <3>1. n \in 0..MaxSettlements /\ b.retired \cup {command[w]} \in SUBSET Settlements
      BY <1>2, <1>3, DeletionAssumption DEF BillRow
    <3> DEFINE f == [b EXCEPT !.retired = b.retired \cup {command[w]}]
    <3>2. f \in BillRow /\ f.phase = b.phase /\ f.retired = b.retired \cup {command[w]}
      BY <1>3, <3>1 DEF BillRow
    <3>3. e = [f EXCEPT !.ready = n]
      BY <1>3 DEF BillRow
    <3> HIDE DEF e, f, n
    <3>q. QED BY <3>1, <3>2, <3>3 DEF BillRow
  <2>2. CallBilling(w, e, Goto(w, c) /\ UNCHANGED <<todo, command, remote>>)
    BY <1>6 DEF RetireCloudClose
  <2>3. c \in {"complete", "record_retirement", "cancel_retirement"} /\ c # "complete"
    OBVIOUS
  <2> HIDE DEF e, c
  <2>q. QED BY <1>4, <1>6, <2>1, <2>2, <2>3
<1>q. QED BY <1>5, <1>6

\* The preparation that is repeated for a cancellation.
LEMMA CancelPrepareStep ==
  ASSUME DeletionInv, NEW w \in Workers, CancelPrepare(w)
  PROVE  DeletionInv'
<1>1. key[w] \in Keys /\ pc[w] = "cancel_prepare" /\ LocalInv(w)
  BY DEF CancelPrepare, DeletionInv, LocalInv
<1> DEFINE e == BillPrepared(key[w])
<1>2. /\ UNCHANGED <<opVars, jobVars, cloudVars, hold, seen, scope>>
      /\ \/ /\ bill' = [bill EXCEPT ![key[w]] = e] /\ UNCHANGED <<key, faults>>
            /\ Goto(w, "cancel_billing") /\ UNCHANGED <<todo, command, remote>>
         \/ bill' \in {bill, [bill EXCEPT ![key[w]] = e]} /\ Fault /\ Fails(w)
  BY DEF CancelPrepare, CallBilling
<1>3. /\ e \in BillRow /\ bill[key[w]].retired \subseteq e.retired
      /\ bill[key[w]].phase = "closed" => e.phase = "closed"
      /\ bill[key[w]].phase \in LetGo => e.phase \in LetGo
      /\ bill[key[w]].phase = "canceled" => e.phase = "canceled"
      /\ e.phase = "closed" => \E r \in Active(key[w]) : r \notin e.retired
  BY <1>1, SameRow, PreparedRow DEF LetGo
<1> HIDE DEF e
<1>4. /\ Forward /\ (Moved(w) /\ LocalInv(w)' => DeletionInv')
      /\ Fails(w) => DeletionInv'
  BY <1>1, <1>2, <1>3, BillingCall
<1>5. CASE Goto(w, "cancel_billing") /\ UNCHANGED <<key, todo, command, remote>>
  <2>1. Moved(w) /\ pc'[w] = "cancel_billing"
    BY <1>2, <1>5, GotoMoves DEF Steps
  <2>q. QED BY <1>1, <1>4, <1>5, <2>1, PlainStep
<1>q. QED BY <1>2, <1>4, <1>5

\* A producer is told to let go only after Billing has agreed to cancel.
LEMMA CancelCloudClosureStep ==
  ASSUME DeletionInv, NEW w \in Workers, CancelCloudClosure(w)
  PROVE  DeletionInv'
<1>1. key[w] \in Keys /\ pc[w] = "cancel_billing" /\ LocalInv(w) /\ LocalTypes
  BY TypeParts DEF CancelCloudClosure, DeletionInv, LocalInv
<1> DEFINE b == bill[key[w]]
           e == IF b.phase = "canceled" THEN b ELSE [b EXCEPT !.phase = "canceling"]
           t == Producers \ releases[key[w]]
           d == IF e.phase = "canceled" THEN "record_billing" ELSE "blockers"
           c == IF t = {} THEN d ELSE "release"
<1>2. b \in BillRow
  BY <1>1, SameRow
<1>3. CASE b.phase = "closed"
  BY <1>1, <1>3, RefusedStep DEF CancelCloudClosure
<1>4. CASE b.phase # "closed"
  <2>1. /\ UNCHANGED <<opVars, jobVars, cloudVars, hold, seen, scope>>
        /\ \/ /\ bill' = [bill EXCEPT ![key[w]] = e] /\ UNCHANGED <<key, faults>>
              /\ remote' = [remote EXCEPT ![w] = e.phase]
              /\ Ask(w, t, "release", d) /\ UNCHANGED command
           \/ bill' \in {bill, [bill EXCEPT ![key[w]] = e]} /\ Fault /\ Fails(w)
    BY <1>4 DEF CancelCloudClosure, CallBilling
  <2>2. /\ e \in BillRow /\ e.retired = b.retired /\ e.phase \in LetGo
        /\ b.phase = "canceled" => e.phase = "canceled"
    BY <1>2 DEF BillRow, LetGo
  <2>3. /\ c \in {"release", "record_billing", "blockers"}
        /\ c = "record_billing" => e.phase = "canceled"
        /\ c = "release" => t # {}
    OBVIOUS
  <2>4. Ask(w, t, "release", d) => todo' = [todo EXCEPT ![w] = t] /\ Goto(w, c)
    BY DEF Ask
  <2> HIDE DEF e, t, d, c
  <2>5. /\ Forward /\ (Moved(w) /\ LocalInv(w)' => DeletionInv')
        /\ Fails(w) => DeletionInv'
    BY <1>1, <1>4, <2>1, <2>2, BillingCall DEF LetGo
  <2>6. CASE /\ bill' = [bill EXCEPT ![key[w]] = e] /\ UNCHANGED <<key, command>>
             /\ remote' = [remote EXCEPT ![w] = e.phase]
             /\ todo' = [todo EXCEPT ![w] = t] /\ Goto(w, c)
    <3>1. Moved(w) /\ pc'[w] = c
      BY <2>1, <2>2, <2>3, <2>6, GotoMoves DEF Steps, t
    <3>2. /\ bill'[key[w]] = e /\ remote'[w] = e.phase /\ todo'[w] = t /\ key'[w] = key[w]
      BY <1>1, <2>6, TypeParts DEF DeletionInv, RemoteTypes, LocalTypes
    <3>3. LocalInv(w)'
      BY <1>1, <2>2, <2>3, <3>1, <3>2 DEF LocalInv
    <3>q. QED BY <2>5, <3>1, <3>3
  <2>q. QED BY <2>1, <2>4, <2>5, <2>6
<1>q. QED BY <1>3, <1>4

-----------------------------------------------------------------------------
(* Calls to the producers.                                                 *)

\* A call of a producer in general.
LEMMA ProducerCall ==
  ASSUME DeletionInv, NEW w \in Workers, pc[w] \in {"hold", "release"}, NEW p, p = First(todo[w]),
         NEW e \in {"draining", "held", "released"},
         NEW c \in {"blockers", "record_hold", "record_release"},
         CallProducer(w, p, e, c),
         hold[key[w]][p] \in Holding => e \in Holding,
         hold[key[w]][p] = "released" => e = "released",
         pc[w] = "hold" => e # "released" /\ c # "record_release",
         pc[w] = "release" => e = "released" /\ c # "record_hold",
         c = "record_hold" => e \in Holding
  PROVE  DeletionInv'
<1>1. /\ key[w] \in Keys /\ LocalInv(w) /\ LocalTypes /\ todo[w] # {} /\ p \in Producers
      /\ pc[w] = "release" => bill[key[w]].phase \in LetGo
  BY TypeParts, FirstIsIn DEF DeletionInv, LocalInv, LocalTypes
<1>2. /\ UNCHANGED <<opVars, jobVars, cloudVars, bill, key, seen, scope, todo, command, remote>>
      /\ \/ hold' = [hold EXCEPT ![key[w]][p] = e] /\ Goto(w, c) /\ UNCHANGED faults
         \/ hold' \in {hold, [hold EXCEPT ![key[w]][p] = e]} /\ Fault /\ Goto(w, "blockers")
  BY DEF CallProducer
<1>3. Forward /\ RemoteTypes' /\ \A j \in Keys : EvidenceInv(j)'
  <2>1. UNCHANGED <<receipts, attempts, retired, releases, bill>>
    BY <1>2 DEF opVars
  <2>2. hold' \in {hold, [hold EXCEPT ![key[w]][p] = e]}
    BY <1>2
  <2>q. QED BY <1>1, <2>1, <2>2, HoldStep
<1>4. faults' \in 0..MaxFaults /\ JobTypes'
  BY <1>2, StepShapes
<1>5. Moved(w) /\ LocalInv(w)' => DeletionInv'
  BY <1>2, <1>3, <1>4, CallDone
<1>6. CASE Goto(w, "blockers")
  <2>1. Moved(w) /\ pc'[w] = "blockers"
    BY <1>2, <1>6, GotoMoves DEF Steps
  <2>q. QED BY <1>1, <1>2, <1>3, <1>5, <2>1, PlainStep
<1>7. CASE hold' = [hold EXCEPT ![key[w]][p] = e] /\ Goto(w, c)
  <2>1. Moved(w) /\ pc'[w] = c
    BY <1>2, <1>7, GotoMoves DEF Steps
  <2>2. hold'[key[w]][p] = e
    BY <1>1, <1>7, TypeParts DEF DeletionInv, RemoteTypes
  <2>3. remote[w] = "canceled" => bill'[key[w]].phase = "canceled"
    BY <1>1, <1>3 DEF LocalInv, Forward
  <2>4. ASSUME c = "record_hold" PROVE LocalInv(w)'
    BY <1>1, <1>2, <2>1, <2>2, <2>3, <2>4 DEF LocalInv, Holding
  <2>5. ASSUME c = "record_release" PROVE LocalInv(w)'
    <3>1. pc[w] = "release" /\ e = "released"
      BY <2>5
    <3>2. bill'[key[w]].phase \in LetGo
      BY <1>1, <1>2, <3>1
    <3>q. QED BY <1>1, <1>2, <2>1, <2>2, <2>3, <2>5, <3>1, <3>2 DEF LocalInv
  <2>q. QED BY <1>5, <1>6, <1>7, <2>1, <2>4, <2>5
<1>q. QED BY <1>2, <1>6, <1>7

\* A producer holds or drains when it is asked to, and lets go when it is told to.
LEMMA ProducerSteps ==
  ASSUME DeletionInv, NEW w \in Workers, PrepareCloudDeletion(w) \/ CancelCloudDeletion(w)
  PROVE  DeletionInv'
<1>1. ASSUME CancelCloudDeletion(w) PROVE DeletionInv'
  BY <1>1, ProducerCall DEF CancelCloudDeletion, Holding
<1>2. ASSUME PrepareCloudDeletion(w) PROVE DeletionInv'
  <2> DEFINE p == First(todo[w])
  <2>1. pc[w] = "hold" /\ key[w] \in Keys /\ p \in Producers
    BY <1>2, TypeParts, FirstIsIn DEF PrepareCloudDeletion, DeletionInv, LocalInv, LocalTypes
  <2>2. hold[key[w]][p] \in {"none", "draining", "held", "released"}
    BY <2>1, TypeParts DEF DeletionInv, RemoteTypes
  <2>3. CASE hold[key[w]][p] \in {"none", "held"} /\ CallProducer(w, p, "held", "record_hold")
    BY <2>1, <2>3, ProducerCall DEF Holding
  <2>4. CASE hold[key[w]][p] \in {"none", "draining"} /\ CallProducer(w, p, "draining", "blockers")
    BY <2>1, <2>4, ProducerCall DEF Holding
  <2>5. CASE Refused(w)
    BY <2>1, <2>5, RefusedStep
  <2>q. QED BY <1>2, <2>2, <2>3, <2>4, <2>5 DEF PrepareCloudDeletion
<1>q. QED BY <1>1, <1>2

-----------------------------------------------------------------------------
(* The records of a worker.                                                *)

\* A receipt is recorded for a producer that holds.
LEMMA RecordDeletionHoldStep ==
  ASSUME DeletionInv, NEW w \in Workers, RecordDeletionHold(w)
  PROVE  DeletionInv'
<1> DEFINE k == key[w]
           p == First(todo[w])
<1>1. /\ k \in Keys /\ pc[w] = "record_hold" /\ LocalInv(w) /\ LocalTypes /\ OpTypes /\ RemoteTypes
      /\ p \in Producers /\ hold[k][p] \in Holding
  BY TypeParts, FirstIsIn DEF RecordDeletionHold, DeletionInv, LocalInv, LocalTypes
<1>2. UNCHANGED <<jobVars, cloudVars, bill, hold, faults, phase, opOwnership, blocked, attempts,
                  retired, releases, seen, scope>>
  BY DEF RecordDeletionHold
<1>3. receipts' \in {receipts, [receipts EXCEPT ![k] = @ \cup {p}]}
  BY DEF RecordDeletionHold
<1>4. /\ receipts' \in [Keys -> SUBSET Producers]
      /\ receipts'[k] \in {receipts[k], receipts[k] \cup {p}}
      /\ \A j \in Keys : j # k => receipts'[j] = receipts[j]
  BY <1>1, <1>3 DEF OpTypes
<1>5. OpTypes' /\ RemoteTypes' /\ JobTypes' /\ faults' \in 0..MaxFaults
  BY <1>1, <1>2, <1>4, StepShapes DEF OpTypes, RemoteTypes
<1>6. Forward
  BY <1>2 DEF Forward
<1>7. ASSUME NEW j \in Keys PROVE EvidenceInv(j)' /\ PhaseInv(j)'
  <2>1. EvidenceInv(j) /\ Active(j)' = Active(j) /\ receipts[j] \subseteq Producers
    BY <1>1, <1>2 DEF DeletionInv, Active, OpTypes
  <2>2. attempts[j] # {} => receipts'[j] = Producers
    BY <1>1, <1>4, <2>1 DEF EvidenceInv
  <2>3. \A q \in receipts'[j] : hold[j][q] \in Holding
    BY <1>1, <1>4, <2>1 DEF EvidenceInv
  <2>4. EvidenceInv(j)'
    BY <1>2, <2>1, <2>2, <2>3 DEF EvidenceInv
  <2>5. PhaseInv(j)'
    BY <1>2, <1>6, PhaseKeeps DEF cloudVars
  <2>q. QED BY <2>4, <2>5
<1>8. Moved(w) /\ LocalInv(w)'
  <2>1. CASE Fails(w)
    BY <1>1, <1>2, <1>6, <2>1, FailsStep
  <2>2. CASE Ask(w, todo[w] \ {p}, "hold", "status") /\ UNCHANGED <<key, command, remote>>
    <3> DEFINE t == todo[w] \ {p}
               c == IF t = {} THEN "status" ELSE "hold"
    <3>1. /\ todo' = [todo EXCEPT ![w] = t] /\ Goto(w, c) /\ t \in SUBSET Producers
          /\ todo'[w] = t /\ c \in {"status", "hold"} /\ (c = "hold" => t # {})
      BY <1>1, <2>2 DEF Ask, LocalTypes
    <3> HIDE DEF t, c
    <3>2. Moved(w) /\ pc'[w] = c
      BY <1>2, <2>2, <3>1, GotoMoves DEF Steps
    <3>3. remote[w] = "canceled" => bill'[key[w]].phase = "canceled"
      BY <1>1, <1>2 DEF LocalInv
    <3>4. LocalInv(w)'
      BY <1>1, <2>2, <3>1, <3>2, <3>3 DEF LocalInv
    <3>q. QED BY <3>2, <3>4
  <2>q. QED BY <2>1, <2>2 DEF RecordDeletionHold
<1>q. QED BY <1>2, <1>5, <1>6, <1>7, <1>8, WorkerDone

\* A close command is written down when no other is outstanding and every
\* producer holds.
LEMMA PrepareDeletionCloseStep ==
  ASSUME DeletionInv, NEW w \in Workers, PrepareDeletionClose(w)
  PROVE  DeletionInv'
<1> DEFINE k == key[w]
           c == IF pc[w] = "prepare_close" THEN "lookup" ELSE "lookup_again"
<1>1. /\ k \in Keys /\ pc[w] # "idle" /\ LocalInv(w) /\ LocalTypes /\ OpTypes /\ RemoteTypes
      /\ command[w] # 0 /\ command[w] \in Settlements
  BY TypeParts, DeletionAssumption
     DEF PrepareDeletionClose, DeletionInv, LocalInv, LocalTypes, Settlements
<1>2. UNCHANGED <<cloudVars, bill, hold, faults, opOwnership, receipts, retired, releases, seen, scope>>
  BY DEF PrepareDeletionClose
<1>3. CASE /\ UNCHANGED <<attempts, phase, blocked, jobVars>>
           /\ Fails(w) \/ (Goto(w, c) /\ UNCHANGED <<key, todo, command, remote>>)
  <2>1. UNCHANGED <<receipts, attempts, retired, releases, bill, hold>> /\ UNCHANGED opVars
    BY <1>2, <1>3 DEF opVars
  <2>2. Forward /\ RemoteTypes' /\ \A j \in Keys : EvidenceInv(j)'
    BY <2>1, EvidenceKeeps
  <2>3. Moved(w) /\ LocalInv(w)'
    <3>1. CASE Fails(w)
      BY <1>1, <1>2, <2>2, <3>1, FailsStep
    <3>2. CASE Goto(w, c) /\ UNCHANGED <<key, todo, command, remote>>
      <4>1. Moved(w) /\ pc'[w] = c
        BY <1>2, <3>2, GotoMoves DEF Steps
      <4>q. QED BY <1>1, <2>2, <3>2, <4>1, PlainStep
    <3>q. QED BY <1>3, <3>1, <3>2
  <2>q. QED BY <1>2, <1>3, <2>1, <2>2, <2>3, StepShapes, CallDone
<1>4. CASE /\ phase[k] \in {"preparing", "closing"} /\ Active(k) = {} /\ Closable(w, k)
           /\ attempts' = [attempts EXCEPT ![k] = @ \cup {command[w]}]
           /\ IF phase[k] = "preparing" THEN SetPhase(k, "closing")
                                        ELSE UNCHANGED <<phase, blocked, jobVars>>
           /\ Goto(w, c) /\ UNCHANGED <<key, todo, command, remote>>
  <2>1. /\ attempts' \in [Keys -> SUBSET Settlements] /\ attempts'[k] = attempts[k] \cup {command[w]}
        /\ \A j \in Keys : j # k => attempts'[j] = attempts[j]
    BY <1>1, <1>4 DEF OpTypes
  <2>2. /\ phase' \in [Keys -> {"none", "preparing", "closing", "canceling"} \cup Terminal]
        /\ phase'[k] = "closing" /\ \A j \in Keys : j # k => phase'[j] = phase[j]
    BY <1>1, <1>4 DEF OpTypes, SetPhase
  <2>3. /\ blocked' \in [Keys -> BOOLEAN]
        /\ \A j \in Keys : j # k => blocked'[j] = blocked[j]
    BY <1>1, <1>4, Zenon DEF OpTypes, SetPhase
  <2>4. JobTypes'
    BY <1>1, <1>4, StepShapes DEF SetPhase
  <2>5. OpTypes' /\ RemoteTypes' /\ faults' \in 0..MaxFaults
    <3>1. \A j \in Keys : retired'[j] \subseteq attempts'[j]
      BY <1>1, <1>2, <2>1 DEF OpTypes
    <3>q. QED BY <1>1, <1>2, <2>1, <2>2, <2>3, <3>1, StepShapes DEF OpTypes, RemoteTypes
  <2>6. Forward
    BY <1>2, <2>1 DEF Forward
  <2>7. ASSUME NEW j \in Keys PROVE EvidenceInv(j)'
    <3>1. EvidenceInv(j)
      BY DEF DeletionInv
    <3>2. CASE j # k
      <4>1. Active(j)' = Active(j)
        BY <1>2, <2>1, <3>2 DEF Active
      <4>q. QED BY <1>2, <2>1, <3>1, <3>2, <4>1 DEF EvidenceInv
    <3>3. CASE j = k
      <4>1. Active(j)' = {command[w]} /\ receipts[j] = Producers
        BY <1>1, <1>2, <1>4, <2>1, <3>3 DEF Active, Closable, OpTypes
      <4>2. bill[k].phase # "closed"
        BY <1>4, <3>1, <3>3 DEF EvidenceInv
      <4>q. QED BY <1>2, <3>1, <3>3, <4>1, <4>2 DEF EvidenceInv
    <3>q. QED BY <3>2, <3>3
  <2>8. ASSUME NEW j \in Keys PROVE PhaseInv(j)'
    <3>1. CASE j # k
      BY <1>2, <2>2, <2>3, <2>6, <3>1, PhaseKeeps DEF cloudVars
    <3>2. CASE j = k
      BY <1>1, <1>2, <1>4, <2>2, <3>2 DEF DeletionInv, PhaseInv, cloudVars, Terminal
    <3>q. QED BY <3>1, <3>2
  <2>9. Moved(w) /\ pc'[w] = c
    BY <1>2, <1>4, GotoMoves DEF Steps
  <2>10. LocalInv(w)'
    BY <1>1, <1>4, <2>6, <2>9, PlainStep
  <2>11. \A j \in Keys : phase[j] = "succeeded" => phase'[j] = "succeeded"
    BY <1>4, <2>2
  <2>q. QED BY <1>2, <2>4, <2>5, <2>6, <2>7, <2>8, <2>9, <2>10, <2>11, WorkerDone
<1>q. QED BY <1>3, <1>4 DEF PrepareDeletionClose

\* The command that is sent is one on record.
LEMMA ActiveDeletionCloseStep ==
  ASSUME DeletionInv, NEW w \in Workers, ActiveDeletionClose(w)
  PROVE  DeletionInv'
<1>1. key[w] \in Keys /\ LocalInv(w) /\ LocalTypes /\ OpTypes
  BY TypeParts DEF ActiveDeletionClose, DeletionInv, LocalInv
<1>2. UNCHANGED <<opVars, jobVars, cloudVars, bill, hold, faults, key, seen, scope, todo, remote>>
  BY DEF ActiveDeletionClose
<1>3. Forward /\ RemoteTypes' /\ \A j \in Keys : EvidenceInv(j)'
  BY <1>2, EvidenceKeeps DEF opVars
<1>4. Moved(w) /\ LocalInv(w)'
  <2>1. ASSUME NEW r \in Active(key[w]), Goto(w, "close"), command' = [command EXCEPT ![w] = r]
        PROVE  Moved(w) /\ LocalInv(w)'
    <3>1. r \in attempts[key[w]] /\ r \in 0..MaxSettlements
      BY <1>1, DeletionAssumption DEF Active, OpTypes, Settlements
    <3>2. Moved(w) /\ pc'[w] = "close"
      BY <1>2, <2>1, <3>1, GotoMoves DEF Steps
    <3>3. command'[w] = r /\ UNCHANGED attempts
      BY <1>1, <1>2, <2>1 DEF LocalTypes, opVars
    <3>4. LocalInv(w)'
      BY <1>1, <1>2, <3>1, <3>2, <3>3 DEF LocalInv
    <3>q. QED BY <3>2, <3>4
  <2>2. ASSUME NEW c \in {"status_again", "blockers"}, Goto(w, c), UNCHANGED command
        PROVE  Moved(w) /\ LocalInv(w)'
    <3>1. Moved(w) /\ pc'[w] = c
      BY <1>2, <2>2, GotoMoves DEF Steps
    <3>q. QED BY <1>1, <1>2, <1>3, <2>2, <3>1, PlainStep
  <2>q. QED BY <2>1, <2>2 DEF ActiveDeletionClose
<1>q. QED BY <1>2, <1>3, <1>4, StepShapes, CallDone

\* A command is recorded as retired only when Billing has retired it.
LEMMA RecordRetirementStep ==
  ASSUME DeletionInv, NEW w \in Workers, RecordRetirement(w)
  PROVE  DeletionInv'
<1> DEFINE k == key[w]
<1>1. /\ k \in Keys /\ LocalInv(w) /\ LocalTypes /\ OpTypes /\ RemoteTypes
      /\ command[w] \in attempts[k] /\ command[w] \in bill[k].retired
  BY TypeParts DEF RecordRetirement, DeletionInv, LocalInv
<1>2. UNCHANGED <<cloudVars, bill, hold, faults, phase, opOwnership, blocked, receipts, attempts,
                  releases, key, seen, scope, todo, command, remote>>
  BY DEF RecordRetirement
<1>3. /\ retired' \in {retired, [retired EXCEPT ![k] = @ \cup {command[w]}]}
      /\ UNCHANGED jobVars \/ Wake(k)
      /\ \E c \in {"blockers", "cancel_prepare"} : Goto(w, c)
  BY DEF RecordRetirement
<1>4. /\ retired' \in [Keys -> SUBSET Settlements]
      /\ retired'[k] \in {retired[k], retired[k] \cup {command[w]}}
      /\ \A j \in Keys : j # k => retired'[j] = retired[j]
  BY <1>1, <1>3 DEF OpTypes
<1>5. OpTypes' /\ RemoteTypes' /\ JobTypes' /\ faults' \in 0..MaxFaults
  <2>1. \A j \in Keys : retired'[j] \subseteq attempts'[j]
    BY <1>1, <1>2, <1>4 DEF OpTypes
  <2>q. QED BY <1>1, <1>2, <1>3, <1>4, <2>1, StepShapes DEF OpTypes, RemoteTypes
<1>6. Forward
  BY <1>2 DEF Forward
<1>7. ASSUME NEW j \in Keys PROVE EvidenceInv(j)' /\ PhaseInv(j)'
  <2>1. EvidenceInv(j)
    BY DEF DeletionInv
  <2>2. retired'[j] \subseteq bill[j].retired
    BY <1>1, <1>4, <2>1 DEF EvidenceInv
  <2>3. Active(j)' \subseteq Active(j)
    BY <1>2, <1>4 DEF Active
  <2>4. bill[j].phase = "closed" => \E r \in Active(j)' : r \notin bill[j].retired
    BY <1>2, <2>1, <2>2 DEF EvidenceInv, Active
  <2>5. EvidenceInv(j)'
    BY <1>2, <2>1, <2>2, <2>3, <2>4 DEF EvidenceInv
  <2>6. PhaseInv(j)'
    BY <1>2, <1>6, PhaseKeeps DEF cloudVars
  <2>q. QED BY <2>5, <2>6
<1>8. Moved(w) /\ LocalInv(w)'
  <2>1. PICK c \in {"blockers", "cancel_prepare"} : Goto(w, c)
    BY <1>3
  <2>2. Moved(w) /\ pc'[w] = c
    BY <1>2, <2>1, GotoMoves DEF Steps
  <2>q. QED BY <1>1, <1>2, <1>6, <2>2, PlainStep
<1>q. QED BY <1>2, <1>5, <1>6, <1>7, <1>8, WorkerDone

\* The tombstone is set on a closed operation whose cloud is empty.
LEMMA CompleteDeletionStep ==
  ASSUME DeletionInv, NEW w \in Workers, CompleteDeletion(w)
  PROVE  DeletionInv'
<1> DEFINE k == key[w]
<1>1. /\ k \in Keys /\ LocalInv(w) /\ LocalTypes /\ OpTypes /\ RemoteTypes /\ CloudTypes
      /\ bill[k].phase = "closed"
  BY TypeParts DEF CompleteDeletion, DeletionInv, LocalInv
<1>2. UNCHANGED <<bill, hold, faults, opOwnership, receipts, attempts, retired, releases,
                  resources, ownership, ownerActive, changes, key, seen, scope, todo, command, remote>>
  BY DEF CompleteDeletion
<1>3. \E c \in {"finish", "blockers"} : Goto(w, c)
  BY DEF CompleteDeletion
<1>4. Forward /\ RemoteTypes' /\ \A j \in Keys : EvidenceInv(j)'
  BY <1>2, EvidenceKeeps
<1>5. Moved(w) /\ LocalInv(w)'
  <2>1. PICK c \in {"blockers", "finish"} : Goto(w, c)
    BY <1>3
  <2>2. Moved(w) /\ pc'[w] = c
    BY <1>2, <2>1, GotoMoves DEF Steps
  <2>q. QED BY <1>1, <1>2, <1>4, <2>2, PlainStep
<1>6. CASE UNCHANGED <<phase, blocked, jobVars, deleted, access, authorization>>
  <2>1. UNCHANGED <<opVars, cloudVars>>
    BY <1>2, <1>6 DEF opVars, cloudVars
  <2>q. QED BY <1>2, <1>4, <1>5, <1>6, <2>1, StepShapes, CallDone
<1>7. CASE /\ Completes(k) /\ SetPhase(k, "succeeded")
           /\ deleted' = TRUE /\ access' = FALSE /\ authorization' = authorization + 1
  <2>1. /\ phase' \in [Keys -> {"none", "preparing", "closing", "canceling"} \cup Terminal]
        /\ phase'[k] = "succeeded" /\ \A j \in Keys : j # k => phase'[j] = phase[j]
    BY <1>1, <1>7 DEF OpTypes, SetPhase, Terminal
  <2>2. /\ blocked' \in [Keys -> BOOLEAN] /\ ~blocked'[k]
        /\ \A j \in Keys : j # k => blocked'[j] = blocked[j]
    BY <1>1, <1>7, Zenon DEF OpTypes, SetPhase
  <2>3. JobTypes' /\ OpTypes' /\ CloudTypes'
    <3>0. access' \in BOOLEAN /\ deleted' \in BOOLEAN
      BY <1>7, Zenon
    <3>1. authorization' \in Nat
      BY <1>1, <1>7 DEF CloudTypes
    <3>2. CloudTypes'
      BY <1>1, <1>2, <3>0, <3>1 DEF CloudTypes
    <3>3. JobTypes' /\ OpTypes'
      BY <1>1, <1>2, <1>7, <2>1, <2>2, StepShapes DEF SetPhase, OpTypes
    <3>q. QED BY <3>2, <3>3
  <2>4. ASSUME NEW j \in Keys PROVE PhaseInv(j)'
    <3>1. CASE j # k
      BY <1>2, <1>4, <2>1, <2>2, <3>1, PhaseKeeps
    <3>2. CASE j = k
      BY <1>1, <1>2, <1>7, <2>1, <2>2, <3>2 DEF DeletionInv, PhaseInv, Completes, Terminal
    <3>q. QED BY <3>1, <3>2
  <2>5. CloudInv'
    <3>1. \A s \in Sessions : pc'[s] # "idle" => key'[s] \in Keys
      BY <1>5 DEF DeletionInv, CloudInv, Moved
    <3>2. ~resources' /\ ~access'
      BY <1>2, <1>7 DEF Completes, Empty
    <3>3. \E j \in Keys : phase'[j] = "succeeded"
      BY <1>1, <2>1
    <3>q. QED BY <3>1, <3>2, <3>3 DEF CloudInv
  <2>6. \A v \in Workers : LocalInv(v)'
    <3>1. ASSUME NEW v \in Workers, v # w PROVE LocalInv(v)'
      BY <1>4, <1>5, <3>1, OthersStay DEF Moved
    <3>q. QED BY <1>5, <3>1
  <2>7. TypeOK'
    BY <1>4, <1>5, <2>3, TypePartsNext DEF Moved
  <2>q. QED BY <1>4, <2>4, <2>5, <2>6, <2>7 DEF DeletionInv
<1>q. QED BY <1>6, <1>7 DEF CompleteDeletion

\* A release is recorded for a participant that has let go.
LEMMA RecordDeletionReleaseStep ==
  ASSUME DeletionInv, NEW w \in Workers, RecordDeletionRelease(w)
  PROVE  DeletionInv'
<1> DEFINE k == key[w]
           p == IF pc[w] = "record_billing" THEN "billing" ELSE First(todo[w])
<1>1. /\ k \in Keys /\ LocalInv(w) /\ LocalTypes /\ OpTypes /\ RemoteTypes
      /\ pc[w] \in {"record_release", "record_billing"}
  BY TypeParts DEF RecordDeletionRelease, DeletionInv, LocalInv
<1>2. /\ pc[w] = "record_billing" => p = "billing" /\ bill[k].phase = "canceled"
      /\ pc[w] = "record_release" => p \in Producers /\ hold[k][p] = "released" /\ bill[k].phase \in LetGo
      /\ p \in Producers \cup {"billing"} /\ "billing" \notin Producers
  <2>1. ASSUME pc[w] = "record_release"
        PROVE  p = First(todo[w]) /\ First(todo[w]) \in Producers
    BY <1>1, <2>1, FirstIsIn DEF LocalInv, LocalTypes
  <2>q. QED BY <1>1, <2>1, DeletionAssumption DEF LocalInv
<1>3. UNCHANGED <<cloudVars, bill, hold, faults, phase, opOwnership, blocked, receipts, attempts,
                  retired, key, seen, scope, command, remote>>
  BY DEF RecordDeletionRelease
<1>4. /\ \/ UNCHANGED releases
         \/ /\ releases' = [releases EXCEPT ![k] = @ \cup {p}]
            /\ p \in releases[k] \/ phase[k] = "canceling"
      /\ UNCHANGED jobVars \/ Wake(k)
      /\ \/ \E c \in {"blockers", "cancel_finish"} : Goto(w, c) /\ UNCHANGED todo
         \/ /\ pc[w] = "record_release"
            /\ Ask(w, todo[w] \ {p}, "release", IF remote[w] = "canceled" THEN "record_billing"
                                                                          ELSE "blockers")
  BY <1>1, <1>2 DEF RecordDeletionRelease, Releasable
<1>5. /\ releases' \in [Keys -> SUBSET (Producers \cup {"billing"})]
      /\ releases'[k] \in {releases[k], releases[k] \cup {p}}
      /\ \A j \in Keys : j # k => releases'[j] = releases[j]
      /\ phase[k] = "canceled" => releases'[k] = releases[k]
  <2> HIDE DEF p
  <2>1. releases \in [Keys -> SUBSET (Producers \cup {"billing"})]
    BY <1>1 DEF OpTypes
  <2>2. CASE UNCHANGED releases
    BY <2>1, <2>2
  <2>3. CASE /\ releases' = [releases EXCEPT ![k] = @ \cup {p}]
             /\ p \in releases[k] \/ phase[k] = "canceling"
    <3>1. releases[k] \cup {p} \in SUBSET (Producers \cup {"billing"})
      BY <1>1, <1>2, <2>1
    <3>2. p \in releases[k] => releases[k] \cup {p} = releases[k]
      OBVIOUS
    <3>q. QED BY <1>1, <2>1, <2>3, <3>1, <3>2
  <2>q. QED BY <1>4, <2>2, <2>3
<1> HIDE DEF p
<1>6. OpTypes' /\ RemoteTypes' /\ JobTypes' /\ faults' \in 0..MaxFaults
  BY <1>1, <1>3, <1>4, <1>5, StepShapes DEF OpTypes, RemoteTypes
<1>7. Forward
  BY <1>3 DEF Forward
<1>8. ASSUME NEW j \in Keys PROVE EvidenceInv(j)' /\ PhaseInv(j)'
  <2>1. EvidenceInv(j) /\ Active(j)' = Active(j)
    BY <1>3 DEF DeletionInv, Active
  <2>2. \A q \in Producers : q \in releases'[j] => hold[j][q] = "released"
    BY <1>1, <1>2, <1>5, <2>1 DEF EvidenceInv
  <2>3. "billing" \in releases'[j] => bill[j].phase = "canceled"
    BY <1>1, <1>2, <1>5, <2>1 DEF EvidenceInv
  <2>4. EvidenceInv(j)'
    BY <1>3, <2>1, <2>2, <2>3 DEF EvidenceInv
  <2>5. PhaseInv(j)'
    BY <1>3, <1>5, <1>7, PhaseKeeps DEF cloudVars
  <2>q. QED BY <2>4, <2>5
<1>9. Moved(w) /\ LocalInv(w)'
  <2>1. ASSUME NEW c \in {"blockers", "cancel_finish"}, Goto(w, c), UNCHANGED todo
        PROVE  Moved(w) /\ LocalInv(w)'
    <3>1. Moved(w) /\ pc'[w] = c
      BY <1>3, <2>1, GotoMoves DEF Steps
    <3>q. QED BY <1>1, <1>3, <1>7, <3>1, PlainStep
  <2>2. ASSUME pc[w] = "record_release",
               Ask(w, todo[w] \ {p}, "release", IF remote[w] = "canceled" THEN "record_billing"
                                                                          ELSE "blockers")
        PROVE  Moved(w) /\ LocalInv(w)'
    <3> DEFINE t == todo[w] \ {p}
               c == IF t = {} THEN (IF remote[w] = "canceled" THEN "record_billing" ELSE "blockers")
                              ELSE "release"
    <3>1. /\ todo' = [todo EXCEPT ![w] = t] /\ Goto(w, c) /\ t \in SUBSET Producers
          /\ todo'[w] = t /\ c \in {"record_billing", "blockers", "release"}
          /\ (c = "release" => t # {}) /\ (c = "record_billing" => remote[w] = "canceled")
      BY <1>1, <2>2 DEF Ask, LocalTypes
    <3> HIDE DEF t, c
    <3>2. Moved(w) /\ pc'[w] = c
      BY <1>3, <3>1, GotoMoves DEF Steps
    <3>3. remote[w] = "canceled" => bill'[key[w]].phase = "canceled"
      BY <1>1, <1>3 DEF LocalInv
    <3>4. bill'[key[w]].phase \in LetGo
      BY <1>2, <1>3, <2>2
    <3>5. LocalInv(w)'
      BY <1>1, <1>3, <3>1, <3>2, <3>3, <3>4 DEF LocalInv
    <3>q. QED BY <3>2, <3>5
  <2>q. QED BY <1>4, <2>1, <2>2
<1>q. QED BY <1>3, <1>6, <1>7, <1>8, <1>9, WorkerDone

\* An operation is canceled when everybody's release is on record.
LEMMA CancelFinishStep ==
  ASSUME DeletionInv, NEW w \in Workers, CancelFinish(w)
  PROVE  DeletionInv'
<1> DEFINE k == key[w]
<1>1. k \in Keys /\ LocalInv(w) /\ LocalTypes /\ OpTypes /\ RemoteTypes /\ CloudTypes
  BY TypeParts DEF CancelFinish, DeletionInv, LocalInv
<1>2. UNCHANGED <<bill, hold, faults, opOwnership, receipts, attempts, retired, releases,
                  resources, access, deleted, ownership, ownerActive, changes, key, seen, scope,
                  todo, command, remote>>
  BY DEF CancelFinish
<1>3. \E c \in {"finish", "blockers"} : Goto(w, c)
  BY DEF CancelFinish
<1>4. Forward /\ RemoteTypes' /\ \A j \in Keys : EvidenceInv(j)'
  BY <1>2, EvidenceKeeps
<1>5. Moved(w) /\ LocalInv(w)'
  <2>1. PICK c \in {"blockers", "finish"} : Goto(w, c)
    BY <1>3
  <2>2. Moved(w) /\ pc'[w] = c
    BY <1>2, <2>1, GotoMoves DEF Steps
  <2>q. QED BY <1>1, <1>2, <1>4, <2>2, PlainStep
<1>6. CASE UNCHANGED <<phase, blocked, jobVars, authorization>>
  <2>1. UNCHANGED <<opVars, cloudVars>>
    BY <1>2, <1>6 DEF opVars, cloudVars
  <2>q. QED BY <1>2, <1>4, <1>5, <1>6, <2>1, StepShapes, CallDone
<1>7. CASE /\ phase[k] = "canceling" /\ releases[k] = Producers \cup {"billing"}
           /\ SetPhase(k, "canceled") /\ authorization' = authorization + 1
  <2>1. /\ phase' \in [Keys -> {"none", "preparing", "closing", "canceling"} \cup Terminal]
        /\ phase'[k] = "canceled" /\ \A j \in Keys : j # k => phase'[j] = phase[j]
    BY <1>1, <1>7 DEF OpTypes, SetPhase, Terminal
  <2>2. /\ blocked' \in [Keys -> BOOLEAN] /\ ~blocked'[k]
        /\ \A j \in Keys : j # k => blocked'[j] = blocked[j]
    BY <1>1, <1>7, Zenon DEF OpTypes, SetPhase
  <2>3. JobTypes' /\ OpTypes' /\ CloudTypes'
    BY <1>1, <1>2, <1>7, <2>1, <2>2, StepShapes DEF SetPhase, OpTypes, CloudTypes
  <2>4. ASSUME NEW j \in Keys PROVE PhaseInv(j)'
    <3>1. CASE j # k
      BY <1>2, <1>4, <2>1, <2>2, <3>1, PhaseKeeps
    <3>2. CASE j = k
      BY <1>1, <1>2, <1>7, <2>1, <2>2, <3>2 DEF PhaseInv
    <3>q. QED BY <3>1, <3>2
  <2>5. CloudInv'
    BY <1>1, <1>2, <1>5, <1>7, <2>1 DEF DeletionInv, CloudInv, Moved
  <2>6. \A v \in Workers : LocalInv(v)'
    <3>1. ASSUME NEW v \in Workers, v # w PROVE LocalInv(v)'
      BY <1>4, <1>5, <3>1, OthersStay DEF Moved
    <3>q. QED BY <1>5, <3>1
  <2>7. TypeOK'
    BY <1>4, <1>5, <2>3, TypePartsNext DEF Moved
  <2>q. QED BY <1>4, <2>4, <2>5, <2>6, <2>7 DEF DeletionInv
<1>q. QED BY <1>6, <1>7 DEF CancelFinish

-----------------------------------------------------------------------------
(* Everybody else.                                                         *)

\* A step that moves no worker and changes no record of an operation.
LEMMA QuietStep ==
  ASSUME DeletionInv, CloudTypes', JobTypes', LocalTypes', RemoteTypes', Forward,
         UNCHANGED <<opVars, access, deleted, todo, command, remote>>,
         \A w \in Workers : pc'[w] = pc[w] /\ key'[w] = key[w],
         \A s \in Sessions : pc'[s] # "idle" => key'[s] \in Keys,
         \A k \in Keys : EvidenceInv(k)',
         Fenced => (resources' => resources) /\ ownership' = ownership
  PROVE  DeletionInv'
<1>1. OpTypes'
  BY TypeParts DEF DeletionInv, OpTypes, opVars
<1>2. TypeOK'
  BY <1>1, TypePartsNext
<1>3. CloudInv'
  <2>1. deleted => ~resources'
    BY DEF DeletionInv, CloudInv, Fenced
  <2>q. QED BY <2>1 DEF DeletionInv, CloudInv, opVars
<1>4. \A w \in Workers : LocalInv(w)'
  BY OthersStay
<1>5. ASSUME NEW k \in Keys PROVE PhaseInv(k)'
  <2>1. phase[k] \notin {"none", "canceled"} => ~resources' /\ ownership' = opOwnership[k]
    BY DEF DeletionInv, PhaseInv, Fenced
  <2>q. QED BY <2>1 DEF DeletionInv, PhaseInv, Forward, opVars
<1>q. QED BY <1>2, <1>3, <1>4, <1>5 DEF DeletionInv

\* The users of the cloud, its owner and the clock.
LEMMA CloudSteps ==
  ASSUME DeletionInv,
         \/ ResourcesChange \/ AccessChanges \/ OwnershipChanges \/ OwnerChanges
         \/ \E k \in Keys : JobBecomesDue(k) \/ LeaseEnds(k)
  PROVE  DeletionInv'
<1>1. CloudTypes /\ JobTypes /\ LocalTypes
  BY TypeParts DEF DeletionInv
<1>2. UNCHANGED <<opVars, localVars, bill, hold, access, deleted>>
  BY DEF ResourcesChange, AccessChanges, OwnershipChanges, OwnerChanges, JobBecomesDue, LeaseEnds,
         cloudVars
<1>3. Forward /\ RemoteTypes' /\ \A k \in Keys : EvidenceInv(k)'
  BY <1>2, EvidenceKeeps DEF opVars
<1>4. LocalTypes' /\ UNCHANGED <<pc, key, todo, command, remote>>
  BY <1>1, <1>2 DEF LocalTypes, localVars
<1>5. JobTypes'
  <2>1. CASE UNCHANGED jobVars
    BY <2>1, StepShapes
  <2>2. ASSUME NEW k \in Keys, JobBecomesDue(k) \/ LeaseEnds(k) PROVE JobTypes'
    BY <1>1, <2>2 DEF JobBecomesDue, LeaseEnds, JobTypes
  <2>q. QED BY <2>1, <2>2 DEF ResourcesChange, AccessChanges, OwnershipChanges, OwnerChanges
<1>6. CloudTypes' /\ (Fenced => (resources' => resources) /\ ownership' = ownership)
  <2>1. CASE ResourcesChange
    <3>1. resources' \in BOOLEAN
      BY <2>1, Zenon DEF ResourcesChange
    <3>q. QED BY <1>1, <2>1, <3>1 DEF ResourcesChange, CloudTypes
  <2>2. CASE AccessChanges
    BY <1>1, <2>2, DeletionAssumption DEF AccessChanges, CloudTypes
  <2>3. CASE OwnershipChanges
    BY <1>1, <2>3, DeletionAssumption DEF OwnershipChanges, CloudTypes
  <2>4. CASE OwnerChanges
    <3>1. ownerActive' \in BOOLEAN
      BY <2>4, Zenon DEF OwnerChanges
    <3>2. faults' \in 0..MaxFaults
      BY <2>4, StepShapes DEF OwnerChanges
    <3>q. QED BY <1>1, <2>4, <3>1, <3>2 DEF OwnerChanges, CloudTypes
  <2>5. ASSUME NEW k \in Keys, JobBecomesDue(k) \/ LeaseEnds(k)
        PROVE  CloudTypes' /\ UNCHANGED <<resources, ownership>>
    <3>1. faults' \in 0..MaxFaults /\ UNCHANGED cloudVars
      BY <2>5, StepShapes DEF JobBecomesDue, LeaseEnds
    <3>q. QED BY <1>1, <3>1 DEF CloudTypes, cloudVars
  <2>q. QED BY <2>1, <2>2, <2>3, <2>4, <2>5
<1>7. \A s \in Sessions : pc'[s] # "idle" => key'[s] \in Keys
  BY <1>4 DEF DeletionInv, CloudInv
<1>q. QED BY <1>2, <1>3, <1>4, <1>5, <1>6, <1>7, QuietStep

\* Billing settles and certifies, and producers drain.
LEMMA RemoteSteps ==
  ASSUME DeletionInv, NEW k \in Keys,
         \/ BillingSettles(k) \/ BillingReleases(k)
         \/ \E p \in Producers : ProducerDrains(k, p)
  PROVE  DeletionInv'
<1>1. UNCHANGED <<opVars, jobVars, cloudVars, localVars, faults>>
  BY DEF BillingSettles, BillingReleases, ProducerDrains
<1>2. CloudTypes' /\ JobTypes' /\ LocalTypes' /\ UNCHANGED <<pc, key, todo, command, remote>>
      /\ UNCHANGED <<access, deleted, resources, ownership>>
  BY <1>1, TypeParts, StepShapes DEF DeletionInv, CloudTypes, LocalTypes, cloudVars, localVars
<1>3. UNCHANGED <<receipts, attempts, retired, releases>>
  BY <1>1 DEF opVars
<1>4. Forward /\ RemoteTypes' /\ \A j \in Keys : EvidenceInv(j)'
  <2>0. bill[k] \in BillRow /\ bill \in [Keys -> BillRow]
    BY TypeParts DEF DeletionInv, RemoteTypes
  <2>1. ASSUME BillingSettles(k) PROVE Forward /\ RemoteTypes' /\ \A j \in Keys : EvidenceInv(j)'
    <3>1. PICK e \in BillRow : /\ bill' = [bill EXCEPT ![k] = e]
                               /\ e.phase = bill[k].phase /\ e.retired = bill[k].retired
      <4>1. CASE bill' = [bill EXCEPT ![k].ready = 0]
        <5> DEFINE e == [bill[k] EXCEPT !.ready = 0]
        <5>1. e \in BillRow /\ e.phase = bill[k].phase /\ e.retired = bill[k].retired
          BY <2>0, DeletionAssumption DEF BillRow
        <5>2. bill' = [bill EXCEPT ![k] = e]
          BY <2>0, <4>1
        <5>q. QED BY <5>1, <5>2
      <4>2. CASE /\ bill[k].ready = 0 /\ bill[k].issued < MaxSettlements
                 /\ bill' = [bill EXCEPT ![k].ready = bill[k].issued + 1, ![k].issued = @ + 1]
        <5> DEFINE n == bill[k].issued + 1
                   f == [bill[k] EXCEPT !.ready = n]
                   e == [f EXCEPT !.issued = n]
        <5>1. n \in 0..MaxSettlements
          BY <2>0, <4>2, DeletionAssumption DEF BillRow
        <5>2. f \in BillRow /\ f.phase = bill[k].phase /\ f.retired = bill[k].retired
              /\ f.issued = bill[k].issued
          BY <2>0, <5>1 DEF BillRow
        <5>3. e \in BillRow /\ e.phase = f.phase /\ e.retired = f.retired
          BY <5>1, <5>2 DEF BillRow
        <5>4. bill' = [bill EXCEPT ![k] = e]
          BY <2>0, <4>2, <5>2 DEF BillRow
        <5>q. QED BY <5>2, <5>3, <5>4
      <4>q. QED BY <2>1, <4>1, <4>2 DEF BillingSettles
    <3>2. UNCHANGED hold
      BY <2>1 DEF BillingSettles
    <3>q. QED BY <1>3, <3>1, <3>2, SameRow, BillStep
  <2>2. ASSUME BillingReleases(k) PROVE Forward /\ RemoteTypes' /\ \A j \in Keys : EvidenceInv(j)'
    <3> DEFINE e == [bill[k] EXCEPT !.phase = "canceled"]
    <3>1. e \in BillRow /\ e.phase = "canceled" /\ e.retired = bill[k].retired
      BY <2>0 DEF BillRow
    <3>2. bill' = [bill EXCEPT ![k] = e] /\ bill[k].phase = "canceling" /\ UNCHANGED hold
      BY <2>0, <2>2 DEF BillingReleases
    <3> HIDE DEF e
    <3>q. QED BY <1>3, <3>1, <3>2, BillStep DEF LetGo
  <2>3. ASSUME NEW p \in Producers, ProducerDrains(k, p)
        PROVE  Forward /\ RemoteTypes' /\ \A j \in Keys : EvidenceInv(j)'
    BY <1>3, <2>3, HoldStep DEF ProducerDrains, Holding
  <2>q. QED BY <2>1, <2>2, <2>3
<1>5. \A s \in Sessions : pc'[s] # "idle" => key'[s] \in Keys
  BY <1>2 DEF DeletionInv, CloudInv
<1>q. QED BY <1>1, <1>2, <1>4, <1>5, QuietStep

\* Where a session goes, and that it names its operation while it is on its way.
LEMMA SessionMoves ==
  ASSUME DeletionInv, NEW s \in Sessions,
         \/ \E k \in Keys : RequestDeveloperCloudDeletion(s, k)
         \/ PreflightBegins(s) \/ PreflightEnds(s) \/ AdmitDeletion(s)
  PROVE  /\ LocalTypes' /\ UNCHANGED <<todo, command, remote>>
         /\ \A w \in Workers : pc'[w] = pc[w] /\ key'[w] = key[w]
         /\ \A t \in Sessions : pc'[t] # "idle" => key'[t] \in Keys
<1>1. /\ LocalTypes /\ CloudTypes /\ s \in Actors /\ Workers \subseteq Actors /\ Sessions \subseteq Actors
      /\ s \notin Workers /\ \A t \in Sessions : pc[t] # "idle" => key[t] \in Keys
  BY TypeParts, DeletionAssumption DEF DeletionInv, CloudInv, Actors
<1>2. Versions \in (0..MaxOwners) \X Nat /\ NoVersions \in (0..MaxOwners) \X Nat
  BY <1>1, DeletionAssumption DEF CloudTypes, Versions, NoVersions
<1>3. UNCHANGED <<todo, command, remote>>
  BY DEF RequestDeveloperCloudDeletion, PreflightBegins, PreflightEnds, AdmitDeletion
<1>4. PICK c \in {"idle", "preflight", "observed", "admit"}, q \in Keys \cup {NoKey} :
        /\ pc' = [pc EXCEPT ![s] = c] /\ key' = [key EXCEPT ![s] = q]
        /\ c # "idle" => q \in Keys
  <2>1. CASE Leave(s)
    BY <2>1 DEF Leave, Goto
  <2>2. ASSUME NEW c \in {"observed", "admit"}, Goto(s, c), UNCHANGED key, pc[s] # "idle"
        PROVE  /\ pc' = [pc EXCEPT ![s] = c] /\ key' = [key EXCEPT ![s] = key[s]]
               /\ key[s] \in Keys
    BY <1>1, <2>2 DEF Goto, LocalTypes
  <2>3. ASSUME NEW k \in Keys, RequestDeveloperCloudDeletion(s, k)
        PROVE  /\ pc' = [pc EXCEPT ![s] = "preflight"] /\ key' = [key EXCEPT ![s] = k]
    BY <2>3 DEF RequestDeveloperCloudDeletion, Goto
  <2>4. \/ Leave(s) \/ \E k \in Keys : RequestDeveloperCloudDeletion(s, k)
        \/ \E c \in {"observed", "admit"} : Goto(s, c) /\ UNCHANGED key /\ pc[s] # "idle"
    BY DEF PreflightBegins, PreflightEnds, AdmitDeletion
  <2>q. QED BY <1>1, <2>1, <2>2, <2>3, <2>4
<1>5. /\ seen' \in [Sessions -> (0..MaxOwners) \X Nat]
      /\ scope' \in [Sessions -> (0..MaxOwners) \X Nat]
  <2>1. /\ seen \in [Sessions -> (0..MaxOwners) \X Nat]
        /\ scope \in [Sessions -> (0..MaxOwners) \X Nat]
    BY <1>1 DEF LocalTypes
  <2>2. /\ seen' \in {seen, [seen EXCEPT ![s] = Versions], [seen EXCEPT ![s] = NoVersions]}
        /\ scope' \in {scope, [scope EXCEPT ![s] = Versions], [scope EXCEPT ![s] = NoVersions]}
    BY DEF RequestDeveloperCloudDeletion, PreflightBegins, PreflightEnds, AdmitDeletion, Leave
  <2> HIDE DEF Versions, NoVersions
  <2>q. QED BY <1>2, <2>1, <2>2
<1>6. c \in Steps
  BY DEF Steps
<1>7. LocalTypes'
  BY <1>1, <1>3, <1>4, <1>5, <1>6 DEF LocalTypes
<1>8. \A a \in Actors : a # s => pc'[a] = pc[a] /\ key'[a] = key[a]
  BY <1>1, <1>4 DEF LocalTypes
<1>9. pc'[s] = c /\ key'[s] = q
  BY <1>1, <1>4 DEF LocalTypes
<1>q. QED BY <1>1, <1>3, <1>4, <1>7, <1>8, <1>9

\* The owner's requests: nothing is admitted that was not empty under the locks.
LEMMA SessionSteps ==
  ASSUME DeletionInv, NEW s \in Sessions,
         \/ \E k \in Keys : RequestDeveloperCloudDeletion(s, k)
         \/ PreflightBegins(s) \/ PreflightEnds(s) \/ AdmitDeletion(s)
  PROVE  DeletionInv'
<1>1. /\ LocalTypes' /\ UNCHANGED <<todo, command, remote>>
      /\ \A w \in Workers : pc'[w] = pc[w] /\ key'[w] = key[w]
      /\ \A t \in Sessions : pc'[t] # "idle" => key'[t] \in Keys
  BY SessionMoves
<1>2. CloudTypes /\ OpTypes /\ JobTypes
  BY TypeParts DEF DeletionInv
<1>3. UNCHANGED <<receipts, attempts, retired, releases, bill, hold>>
  BY DEF RequestDeveloperCloudDeletion, PreflightBegins, PreflightEnds, AdmitDeletion, opVars
<1>4. Forward /\ RemoteTypes' /\ \A j \in Keys : EvidenceInv(j)'
  BY <1>3, EvidenceKeeps
<1>5. CASE UNCHANGED <<opVars, jobVars, cloudVars, faults>>
  <2>1. CloudTypes' /\ JobTypes' /\ UNCHANGED <<access, deleted, resources, ownership>>
    BY <1>2, <1>5, StepShapes DEF CloudTypes, cloudVars
  <2>q. QED BY <1>1, <1>4, <1>5, <2>1, QuietStep
<1>6. CASE AdmitDeletion(s) /\ Admits(s)
  <2> DEFINE k == key[s]
  <2>1. k \in Keys
    BY <1>6 DEF AdmitDeletion, DeletionInv, CloudInv
  <2>2. phase[k] = "none" /\ ~resources /\ ~deleted
    BY <1>6 DEF Admits, HasPrior, Empty
  <2>3. /\ phase' = [phase EXCEPT ![k] = "preparing"]
        /\ opOwnership' = [opOwnership EXCEPT ![k] = ownership]
        /\ authorization' = authorization + 1 /\ due' = [due EXCEPT ![k] = TRUE]
        /\ UNCHANGED <<faults, blocked, lease, woken, resources, access, deleted, ownership,
                       ownerActive, changes>>
    BY <1>6 DEF AdmitDeletion
  <2>4. CloudTypes' /\ JobTypes'
    <3>1. authorization' \in Nat
      BY <1>2, <2>3 DEF CloudTypes
    <3>2. due' \in [Keys -> BOOLEAN]
      BY <1>2, <2>1, <2>3, Zenon DEF JobTypes
    <3>q. QED BY <1>2, <2>3, <3>1, <3>2 DEF CloudTypes, JobTypes
  <2>5. /\ phase' \in [Keys -> {"none", "preparing", "closing", "canceling"} \cup Terminal]
        /\ opOwnership' \in [Keys -> 0..MaxOwners]
        /\ phase'[k] = "preparing" /\ opOwnership'[k] = ownership
        /\ \A j \in Keys : j # k => phase'[j] = phase[j] /\ opOwnership'[j] = opOwnership[j]
    BY <1>2, <2>1, <2>3 DEF OpTypes, CloudTypes
  <2>6. OpTypes'
    BY <1>2, <1>3, <2>3, <2>5 DEF OpTypes
  <2>7. TypeOK'
    BY <1>1, <1>4, <2>4, <2>6, TypePartsNext
  <2>8. CloudInv'
    BY <1>1, <2>2, <2>3 DEF CloudInv
  <2>9. ASSUME NEW j \in Keys PROVE PhaseInv(j)'
    <3>1. CASE j # k
      BY <1>3, <1>4, <2>3, <2>5, <3>1, PhaseKeeps
    <3>2. CASE j = k
      BY <2>2, <2>3, <2>5, <3>2 DEF PhaseInv, Terminal
    <3>q. QED BY <3>1, <3>2
  <2>10. \A w \in Workers : LocalInv(w)'
    BY <1>1, <1>4, OthersStay
  <2>q. QED BY <1>4, <2>7, <2>8, <2>9, <2>10 DEF DeletionInv
<1>7. ASSUME AdmitDeletion(s), ~Admits(s)
      PROVE  UNCHANGED <<opVars, jobVars, cloudVars, faults>>
  BY <1>7 DEF AdmitDeletion, opVars, jobVars, cloudVars
<1>8. ASSUME \/ \E k \in Keys : RequestDeveloperCloudDeletion(s, k)
             \/ PreflightBegins(s) \/ PreflightEnds(s)
      PROVE  UNCHANGED <<opVars, jobVars, cloudVars, faults>>
  BY <1>8 DEF RequestDeveloperCloudDeletion, PreflightBegins, PreflightEnds
<1>q. QED BY <1>5, <1>6, <1>7, <1>8

\* The owner cancels: the evidence stays as it is.
LEMMA CancellationStep ==
  ASSUME DeletionInv, NEW k \in Keys, RequestCloudDeletionCancellation(k)
  PROVE  DeletionInv'
<1>1. CloudTypes /\ OpTypes /\ JobTypes /\ LocalTypes
  BY TypeParts DEF DeletionInv
<1>2. UNCHANGED <<cloudVars, localVars, bill, hold, faults, opOwnership, receipts, attempts,
                  retired, releases>>
  BY DEF RequestCloudDeletionCancellation
<1>3. Forward /\ RemoteTypes' /\ \A j \in Keys : EvidenceInv(j)'
  BY <1>2, EvidenceKeeps
<1>4. phase[k] \in {"preparing", "closing"} /\ SetPhase(k, "canceling")
  BY DEF RequestCloudDeletionCancellation
<1>5. /\ phase' \in [Keys -> {"none", "preparing", "closing", "canceling"} \cup Terminal]
      /\ phase'[k] = "canceling" /\ \A j \in Keys : j # k => phase'[j] = phase[j]
  BY <1>1, <1>4 DEF OpTypes, SetPhase
<1>6. /\ blocked' \in [Keys -> BOOLEAN] /\ \A j \in Keys : j # k => blocked'[j] = blocked[j]
  BY <1>1, <1>4, Zenon DEF OpTypes, SetPhase
<1>7. CloudTypes' /\ OpTypes' /\ JobTypes' /\ LocalTypes'
  BY <1>1, <1>2, <1>4, <1>5, <1>6, StepShapes
     DEF SetPhase, OpTypes, CloudTypes, LocalTypes, cloudVars, localVars
<1>8. TypeOK'
  BY <1>3, <1>7, TypePartsNext
<1>9. CloudInv'
  BY <1>2, <1>4, <1>5 DEF DeletionInv, CloudInv, cloudVars, localVars
<1>10. ASSUME NEW j \in Keys PROVE PhaseInv(j)'
  <2>1. CASE j # k
    BY <1>2, <1>3, <1>5, <1>6, <2>1, PhaseKeeps DEF cloudVars
  <2>2. CASE j = k
    BY <1>2, <1>4, <1>5, <2>2 DEF DeletionInv, PhaseInv, cloudVars, Terminal
  <2>q. QED BY <2>1, <2>2
<1>11. \A w \in Workers : LocalInv(w)'
  BY <1>2, <1>3, OthersStay DEF localVars
<1>q. QED BY <1>3, <1>8, <1>9, <1>10, <1>11 DEF DeletionInv

-----------------------------------------------------------------------------
(* The theorems.                                                           *)

\* At first nothing is on record and nobody works.
LEMMA InitDeletion == Init => DeletionInv
<1> SUFFICES ASSUME Init PROVE DeletionInv
  OBVIOUS
<1>1. CloudTypes
  <2>1. access \in BOOLEAN /\ deleted \in BOOLEAN /\ ownerActive \in BOOLEAN
    BY Zenon DEF Init
  <2>q. QED BY <2>1, DeletionAssumption DEF Init, CloudTypes
<1>2. OpTypes
  BY DeletionAssumption DEF Init, OpTypes
<1>3. JobTypes
  BY DEF Init, JobTypes
<1>4. RemoteTypes
  BY DeletionAssumption DEF Init, RemoteTypes, BillRow
<1>5. LocalTypes
  BY DeletionAssumption DEF Init, LocalTypes, Steps, NoVersions
<1>6. TypeOK
  BY <1>1, <1>2, <1>3, <1>4, <1>5, TypeParts
<1>7. CloudInv
  BY DEF Init, CloudInv, Actors
<1>8. \A w \in Workers : LocalInv(w)
  BY DEF Init, LocalInv, Actors
<1>9. ASSUME NEW k \in Keys PROVE EvidenceInv(k) /\ PhaseInv(k)
  BY DEF Init, EvidenceInv, PhaseInv, Active, Terminal
<1>q. QED BY <1>6, <1>7, <1>8, <1>9 DEF DeletionInv

\* Every step keeps the invariant.
LEMMA NextDeletion == DeletionInv /\ [Next]_vars => DeletionInv'
<1> SUFFICES ASSUME DeletionInv, [Next]_vars PROVE DeletionInv'
  OBVIOUS
<1>1. ASSUME NEW w \in Workers, WorkerStep(w) PROVE DeletionInv'
  BY <1>1, JobSteps, PrepareCloudClosureStep, ProducerSteps, RecordDeletionHoldStep,
     CloudClosureStatusStep, PrepareDeletionCloseStep, ActiveDeletionCloseStep, CloseCloudStep,
     RetireCloudCloseStep, RecordRetirementStep, CompleteDeletionStep, CancelPrepareStep,
     CancelCloudClosureStep, RecordDeletionReleaseStep, CancelFinishStep
     DEF WorkerStep
<1>2. CASE UNCHANGED vars
  <2>1. UNCHANGED <<opVars, jobVars, cloudVars, localVars, bill, hold, faults>>
    BY <1>2 DEF vars
  <2>2. Forward /\ RemoteTypes' /\ \A j \in Keys : EvidenceInv(j)'
    BY <2>1, EvidenceKeeps DEF opVars
  <2>3. CloudTypes' /\ JobTypes' /\ LocalTypes' /\ UNCHANGED <<pc, key, todo, command, remote>>
        /\ UNCHANGED <<access, deleted, resources, ownership>>
    BY <2>1, TypeParts, StepShapes DEF DeletionInv, CloudTypes, LocalTypes, cloudVars, localVars
  <2>4. \A s \in Sessions : pc'[s] # "idle" => key'[s] \in Keys
    BY <2>3 DEF DeletionInv, CloudInv
  <2>q. QED BY <2>1, <2>2, <2>3, <2>4, QuietStep
<1>q. QED BY <1>1, <1>2, CloudSteps, SessionSteps, CancellationStep, RemoteSteps, JobSteps DEF Next

\* The records of a deletion never contradict each other, for any number of
\* producers, operations, workers and faults: the fence keeps out what the
\* admission has checked, one close command is outstanding at most, and the one
\* Billing has obeyed is never taken for retired.
THEOREM DeletionRecordsAreSound == Spec => []RecordsAreSound
<1>1. DeletionInv => RecordsAreSound
  <2>1. SUFFICES ASSUME DeletionInv PROVE RecordsAreSound
    OBVIOUS
  <2>2. TypeOK /\ FenceHolds /\ OverIsNotBlocked
    BY <2>1 DEF DeletionInv, PhaseInv, FenceHolds, OverIsNotBlocked
  <2>3. ASSUME NEW k \in Keys PROVE Cardinality(Active(k)) <= 1
    <3>1. \A r, s \in Active(k) : r = s
      BY <2>1 DEF DeletionInv, EvidenceInv
    <3>2. CASE Active(k) = {}
      BY <3>2, FS_EmptySet
    <3>3. ASSUME NEW r \in Active(k) PROVE Cardinality(Active(k)) <= 1
      <4>1. Active(k) = {r}
        BY <3>1, <3>3
      <4>q. QED BY <4>1, FS_Singleton
    <3>q. QED BY <3>2, <3>3
  <2>4. \A k \in Keys : bill[k].phase = "closed" => Active(k) # {}
    BY <2>1 DEF DeletionInv, EvidenceInv
  <2>q. QED BY <2>2, <2>3, <2>4 DEF RecordsAreSound, OneCommand
<1>q. QED BY <1>1, InitDeletion, NextDeletion, PTL DEF Spec

\* A tombstone stands only on what it says, whatever cancellation raced it: Billing
\* has closed, every producer holds, and nothing and nobody is left inside.
THEOREM TombstonesAreFinal == Spec => []TombstoneIsFinal
<1>1. DeletionInv => TombstoneIsFinal
  <2>1. SUFFICES ASSUME DeletionInv, deleted PROVE TombstoneIsFinal
    BY DEF TombstoneIsFinal
  <2>2. PICK k \in Keys : phase[k] = "succeeded"
    BY <2>1 DEF DeletionInv, CloudInv
  <2>3. EvidenceInv(k) /\ bill[k].phase = "closed" /\ OpTypes
    BY <2>1, <2>2, TypeParts DEF DeletionInv, PhaseInv
  <2>4. attempts[k] # {}
    BY <2>3 DEF EvidenceInv, Active
  <2>5. \A p \in Producers : hold[k][p] = "held"
    BY <2>3, <2>4 DEF EvidenceInv, Holding, LetGo
  <2>6. ~resources /\ ~access
    BY <2>1 DEF DeletionInv, CloudInv
  <2>q. QED BY <2>2, <2>3, <2>5, <2>6 DEF TombstoneIsFinal
<1>q. QED BY <1>1, InitDeletion, NextDeletion, PTL DEF Spec

\* No producer lets go while Billing could still close, and a deletion counts as
\* canceled only when Billing and every producer have let go.
THEOREM ParticipantsWait == Spec => []NobodyLetsGoEarly
<1>1. DeletionInv => NobodyLetsGoEarly
  <2>1. SUFFICES ASSUME DeletionInv, NEW k \in Keys
                 PROVE  /\ \A p \in Producers : hold[k][p] = "released" =>
                             bill[k].phase \in {"canceling", "canceled"}
                        /\ phase[k] = "canceled" =>
                             /\ bill[k].phase = "canceled"
                             /\ \A p \in Producers : hold[k][p] = "released"
    BY DEF NobodyLetsGoEarly
  <2>q. QED BY <2>1 DEF DeletionInv, EvidenceInv, PhaseInv, LetGo
<1>q. QED BY <1>1, InitDeletion, NextDeletion, PTL DEF Spec
=============================================================================
