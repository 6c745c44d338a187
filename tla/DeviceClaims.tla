---------------------------- MODULE DeviceClaims ----------------------------
(***************************************************************************)
(* The claim of a device and its transfer between organizations:           *)
(* internal/store/device_claims.go, device_claim_reconciliation.go,        *)
(* device_claim_token_administration.go, device_unprovision.go and         *)
(* end_users.go, with the client of the Video Cloud transfer fence in      *)
(* internal/api/video_presence.go.                                         *)
(*                                                                         *)
(* The module is about ONE Video Cloud device, for which several claim     *)
(* tokens were issued.  A claim makes an account device, named here by its *)
(* token.  A platform operator may move a claim to another organization as *)
(* long as Video Cloud knows nothing of the device: under the row locks of *)
(* the account the operator takes out a fence at Video Cloud, and only     *)
(* then commits.  Video Cloud activates the device for the organization a  *)
(* request names, unless the fence names another generation.               *)
(*                                                                         *)
(* A transaction without a remote call is one step.  The transfer and the  *)
(* cancellation of a fence hold the rows of device, claim and token across *)
(* their remote calls, so they are several steps under `lock'.             *)
(***************************************************************************)
EXTENDS Naturals, FiniteSets

CONSTANTS
  Tokens,       \* claim tokens issued for the device
  Orgs,         \* organizations
  BrandClouds,  \* those that are brand clouds
  Maker,        \* the brand cloud of the product
  Evaluation,   \* organizations of the evaluation tier
  Quota,        \* devices an evaluation organization may claim
  Operators,    \* requests of platform operators in flight
  NoOrg, NoOperator, None,
  MaxFaults,    \* failing writes and calls, crashes
  MaxCalls      \* revocations, deletions, provisions, unprovisions, foreign activations

\* claimTransferReservationID: the claim, its organization and the target.  The
\* time of the claim's last change adds nothing, a claim changes only once.
Reservations == {r \in Tokens \X Orgs \X Orgs : r[2] # r[3]}

\* What Video Cloud keeps of an activated device.
Activations == [device : Tokens, org : Orgs]

ASSUME ClaimsAssumption ==
  /\ Tokens # {} /\ BrandClouds \subseteq Orgs /\ Maker \in BrandClouds
  /\ Evaluation \subseteq Orgs /\ Quota \in Nat /\ MaxFaults \in Nat /\ MaxCalls \in Nat
  /\ NoOrg \notin Orgs /\ NoOperator \notin Operators /\ NoOrg \notin Tokens
  /\ None \notin Tokens /\ None \notin Reservations /\ None \notin Activations

VARIABLES
  bound,        \* organization of each token
  product,      \* tokens issued for the product
  issued, revoked,
  claim,        \* its claim: resolved, then moved (transferred or reclaimed)
  home,         \* organization of the claim and of its device
  disabled,     \* devices a user has deleted
  gone,         \* devices that were unprovisioned: the row is gone, the claim stays
  provisioned,  \* devices with a recorded provision operation
  stored,       \* transfer generation in the metadata of the device
  lock,         \* holder of the rows of device, claim and token
  fence,        \* Video Cloud: the reservation, if any
  requests,     \* Video Cloud: activation requests on their way
  withdrawals,  \* Video Cloud: unprovision requests on their way
  active,       \* Video Cloud: the device is bound to an organization
  pc, tok, seen, target, expected,  \* what each operator request has read
  faults, calls

tokenVars == <<bound, product, issued, revoked>>
accountVars == <<claim, home, disabled, gone, provisioned, stored>>
remoteVars == <<fence, requests, withdrawals, active>>
videoVars == <<remoteVars, calls>>
operatorVars == <<pc, tok, seen, target, expected>>
vars == <<tokenVars, accountVars, videoVars, operatorVars, lock, faults>>

Requests == [device : Tokens, org : Orgs, generation : Reservations \cup {None}]

\* The types of the variables.
TypeOK ==
  /\ bound \in [Tokens -> Orgs \cup {NoOrg}] /\ home \in [Tokens -> Orgs \cup {NoOrg}]
  /\ issued \subseteq Tokens /\ product \subseteq issued
  /\ revoked \subseteq issued
  /\ claim \in [Tokens -> {"none", "resolved", "moved"}]
  /\ \A t \in Tokens : home[t] = NoOrg <=> claim[t] = "none"
  /\ disabled \subseteq Tokens /\ provisioned \subseteq Tokens
  /\ gone \subseteq Tokens /\ withdrawals \subseteq gone
  /\ stored \in [Tokens -> Reservations \cup {None}]
  /\ lock \in [Tokens -> Operators \cup {NoOperator}]
  /\ fence \in Reservations \cup {None} /\ requests \subseteq Requests
  /\ active \in {None} \cup Activations
  /\ pc \in [Operators -> {"idle", "observed", "reserve", "write", "release",
                           "inspected", "cancel"}]
  /\ tok \in [Operators -> Tokens \cup {None}]
  /\ seen \in [Operators -> Orgs \cup {NoOrg}] /\ target \in [Operators -> Orgs]
  /\ expected \in [Operators -> Reservations \cup {None}] /\ faults \in 0..MaxFaults
  /\ calls \in 0..MaxCalls

Init ==
  /\ bound = [t \in Tokens |-> NoOrg] /\ product = {} /\ issued = {}
  /\ revoked = {}
  /\ claim = [t \in Tokens |-> "none"] /\ home = [t \in Tokens |-> NoOrg]
  /\ disabled = {} /\ provisioned = {} /\ gone = {} /\ withdrawals = {}
  /\ stored = [t \in Tokens |-> None] /\ lock = [t \in Tokens |-> NoOperator]
  /\ fence = None /\ requests = {} /\ active = None
  /\ pc = [o \in Operators |-> "idle"] /\ tok = [o \in Operators |-> None]
  /\ seen = [o \in Operators |-> NoOrg] /\ target = [o \in Operators |-> Maker]
  /\ expected = [o \in Operators |-> None] /\ faults = 0 /\ calls = 0

Fault == faults < MaxFaults /\ faults' = faults + 1
Call == calls < MaxCalls /\ calls' = calls + 1
Free(t) == lock[t] = NoOperator

\* The device of a claim is there: getDeviceForUpdateTx finds it.
Present(t) == claim[t] # "none" /\ t \notin gone

-----------------------------------------------------------------------------
(* Tokens.                                                                 *)

\* A brand cloud takes only devices of its own products; a token without a
\* product, and an organization that is no brand cloud, take any.
Allowed(org, ofProduct) == ofProduct => org = Maker \/ org \notin BrandClouds

\* lockClaimTokenCloudsTx, which an organization may leave open.
TokenScope(org, ofProduct) == org = NoOrg \/ Allowed(org, ofProduct)

\* createDeviceClaimTokenTx for an active product; the service grant that the
\* token pins is the business of ProductServices.
CreateDeviceClaimToken(t, org, ofProduct) ==
  /\ t \notin issued /\ TokenScope(org, ofProduct)
  /\ issued' = issued \cup {t} /\ bound' = [bound EXCEPT ![t] = org]
  /\ product' = IF ofProduct THEN product \cup {t} ELSE product
  /\ UNCHANGED <<revoked, accountVars, videoVars, operatorVars, lock, faults>>

RevokeDeviceClaimToken(t) ==
  /\ t \in issued \ revoked /\ Free(t) /\ Call
  /\ revoked' = revoked \cup {t}
  /\ UNCHANGED <<bound, product, issued, accountVars, remoteVars, operatorVars, lock, faults>>

-----------------------------------------------------------------------------
(* Claims, and what the users of an organization do with their device.     *)

Enabled(org) == {t \in Tokens : home[t] = org} \ (disabled \cup gone)

\* lockOrganizationAndCheckQuota.
UnderQuota(org) == org \in Evaluation => Cardinality(Enabled(org)) < Quota

\* getClaimedDeviceByVideoDevidTx: one live account device per organization.
ClaimedIn(org) == Enabled(org) # {}

\* resolveLockedDeviceClaimTokenTx, up to the writes.  A token past its time is
\* one that nobody resolves any more.
Resolvable(t, org) ==
  /\ t \in issued /\ Free(t) /\ claim[t] = "none"
  /\ t \notin revoked /\ bound[t] \in {NoOrg, org}
  /\ Allowed(org, t \in product) /\ UnderQuota(org) /\ ~ClaimedIn(org)

\* createClaimedDeviceTx and the insert of the claim.
ClaimDevice(t, org) ==
  /\ claim' = [claim EXCEPT ![t] = "resolved"] /\ home' = [home EXCEPT ![t] = org]

ResolveDeviceClaimToken(t, org) ==
  /\ Resolvable(t, org) /\ ClaimDevice(t, org)
  /\ UNCHANGED <<tokenVars, disabled, gone, provisioned, stored, videoVars, operatorVars,
                 lock, faults>>

\* The end user of an app claims in the cloud of the token.  The binding of the
\* user to the device is left out: a transfer does not touch it.
ResolveEndUserDeviceClaimToken(t) ==
  /\ bound[t] # NoOrg /\ Resolvable(t, bound[t]) /\ ClaimDevice(t, bound[t])
  /\ UNCHANGED <<tokenVars, disabled, gone, provisioned, stored, videoVars, operatorVars,
                 lock, faults>>

\* DeleteDeviceAsUser keeps the row.
DeleteDevice(t) ==
  /\ Present(t) /\ t \notin disabled /\ Free(t) /\ Call
  /\ disabled' = disabled \cup {t}
  /\ UNCHANGED <<tokenVars, claim, home, gone, provisioned, stored, remoteVars, operatorVars,
                 lock, faults>>

\* mergeUserDeviceMetadata: the user's metadata replaces what is there, but
\* for the keys the service owns.
MergedGeneration(t) == stored[t]

UpdateDeviceAsUser(t) ==
  /\ Present(t) /\ Free(t)
  /\ stored' = [stored EXCEPT ![t] = MergedGeneration(t)]
  /\ UNCHANGED <<tokenVars, claim, home, disabled, gone, provisioned, videoVars, operatorVars,
                 lock, faults>>

\* StartDeviceProvision: the operation is recorded with the row of the device
\* locked, and its command carries the transfer generation of the device.
ProvisionDevice(t) ==
  /\ Present(t) /\ t \notin disabled /\ t \notin provisioned /\ Free(t) /\ Call
  /\ provisioned' = provisioned \cup {t}
  /\ requests' = requests \cup {[device |-> t, org |-> home[t], generation |-> stored[t]]}
  /\ UNCHANGED <<tokenVars, claim, home, disabled, gone, stored, fence, withdrawals, active,
                 operatorVars, lock, faults>>

\* UnprovisionDevice, by a member or by platform support: only for a claim that
\* was never overridden.  The row of the device goes whatever fence there is,
\* the claim keeps its organization, and a fresh token may claim the device.
UnprovisionDevice(t) ==
  /\ Present(t) /\ claim[t] = "resolved" /\ t \notin disabled /\ Free(t) /\ Call
  /\ gone' = gone \cup {t} /\ withdrawals' = withdrawals \cup {t}
  /\ UNCHANGED <<tokenVars, claim, home, disabled, provisioned, stored, fence, requests, active,
                 operatorVars, lock, faults>>

-----------------------------------------------------------------------------
(* Video Cloud.                                                            *)

\* An activation the account knows nothing of, for the owner of the moment.
IndependentActivation(t) ==
  /\ Present(t) /\ Call
  /\ requests' = requests \cup {[device |-> t, org |-> home[t], generation |-> None]}
  /\ UNCHANGED <<tokenVars, accountVars, fence, withdrawals, active, operatorVars, lock, faults>>

\* "Video Cloud rejects stale or independent activation" (docs/spec.md).
Accepts(r) == active = None /\ (fence = None \/ r.generation = fence)

Activate(r) ==
  /\ r \in requests /\ requests' = requests \ {r}
  /\ active' = IF Accepts(r) THEN [device |-> r.device, org |-> r.org] ELSE active
  /\ UNCHANGED <<tokenVars, accountVars, fence, withdrawals, calls, operatorVars, lock, faults>>

\* The command names the Video Cloud device alone: whoever it is bound to, the
\* binding is cleared.
Unbind(t) ==
  /\ t \in withdrawals /\ withdrawals' = withdrawals \ {t} /\ active' = None
  /\ UNCHANGED <<tokenVars, accountVars, fence, requests, calls, operatorVars, lock, faults>>

-----------------------------------------------------------------------------
(* overrideDeviceClaim: transfer and reclaim.                              *)

Goto(o, step) == pc' = [pc EXCEPT ![o] = step]

\* The request is over, and what it has read forgotten.
Leave(o) ==
  /\ Goto(o, "idle") /\ tok' = [tok EXCEPT ![o] = None] /\ seen' = [seen EXCEPT ![o] = NoOrg]
  /\ target' = [target EXCEPT ![o] = Maker] /\ expected' = [expected EXCEPT ![o] = None]

Take(o) == lock' = [lock EXCEPT ![tok[o]] = o]
Drop(o) == lock' = [lock EXCEPT ![tok[o]] = NoOperator]

\* claimTransferReservationID.
Generation(o) == <<tok[o], home[tok[o]], target[o]>>

\* The claim is looked at without a lock, to know which clouds to lock.
ObserveClaim(o, t, org) ==
  /\ pc[o] = "idle" /\ claim[t] # "none"
  /\ tok' = [tok EXCEPT ![o] = t] /\ target' = [target EXCEPT ![o] = org]
  /\ seen' = [seen EXCEPT ![o] = home[t]] /\ Goto(o, "observed")
  /\ UNCHANGED <<tokenVars, accountVars, videoVars, expected, lock, faults>>

\* A device goes to an organization that is no brand cloud, or to the brand cloud
\* of its product; without a product, to no brand cloud.
TargetAllowed(org, ofProduct) == org \notin BrandClouds \/ (ofProduct /\ org = Maker)

\* Mutant: the operations of the device were looked at before the locks.
MovableAsSeen(t, from, org) ==
  /\ Present(t) /\ home[t] = from /\ claim[t] = "resolved"
  /\ t \notin revoked /\ bound[t] \in {NoOrg, home[t]} /\ TargetAllowed(org, t \in product)

\* Read again under the locks: everything that stands in the way.  The device has
\* the product of its token.
Movable(t, from, org) ==
  /\ Present(t) /\ home[t] = from /\ claim[t] = "resolved"
  /\ org # home[t] => t \notin provisioned
  /\ t \notin revoked /\ bound[t] \in {NoOrg, home[t]} /\ TargetAllowed(org, t \in product)

LockClaim(o) ==
  /\ pc[o] = "observed" /\ Free(tok[o])
  /\ IF Movable(tok[o], seen[o], target[o])
     THEN /\ Take(o) /\ Goto(o, IF target[o] = home[tok[o]] THEN "write" ELSE "reserve")
          /\ UNCHANGED <<tok, seen, target, expected>>
     ELSE Leave(o) /\ UNCHANGED lock
  /\ UNCHANGED <<tokenVars, accountVars, videoVars, faults>>

\* Video Cloud: the fence of the same generation is confirmed again.
Reservable(g) == active = None /\ fence \in {None, g}

\* Mutant: a conflict is taken for success.
ReservesAnyway(o) ==
  /\ pc[o] = "reserve" /\ Goto(o, "write")
  /\ fence' = IF Reservable(Generation(o)) THEN Generation(o) ELSE fence
  /\ expected' = [expected EXCEPT ![o] = Generation(o)]
  /\ UNCHANGED <<tokenVars, accountVars, requests, withdrawals, active, calls, lock, tok, seen,
                 target, faults>>

ReserveTransferFence(o) ==
  /\ pc[o] = "reserve"
  /\ IF Reservable(Generation(o))
     THEN /\ fence' = Generation(o) /\ Goto(o, "write")
          /\ expected' = [expected EXCEPT ![o] = Generation(o)]
          /\ UNCHANGED <<lock, tok, seen, target>>
     ELSE Drop(o) /\ Leave(o) /\ UNCHANGED fence
  /\ UNCHANGED <<tokenVars, accountVars, requests, withdrawals, active, calls, faults>>

\* The call fails, before or after Video Cloud has obeyed: nothing is released.
ReserveFails(o) ==
  /\ pc[o] = "reserve" /\ Fault
  /\ \/ UNCHANGED fence
     \/ Reservable(Generation(o)) /\ fence' = Generation(o)
  /\ Drop(o) /\ Leave(o)
  /\ UNCHANGED <<tokenVars, accountVars, requests, withdrawals, active, calls>>

\* An update of device, token or claim fails, or the audit row.
WriteFails(o) ==
  /\ pc[o] = "write" /\ Fault
  /\ IF expected[o] = None THEN Drop(o) /\ Leave(o)
     ELSE Goto(o, "release") /\ UNCHANGED <<lock, tok, seen, target, expected>>
  /\ UNCHANGED <<tokenVars, accountVars, videoVars>>

ApplyTransfer(o) ==
  LET t == tok[o] IN
  /\ claim' = [claim EXCEPT ![t] = "moved"]
  /\ home' = [home EXCEPT ![t] = target[o]] /\ bound' = [bound EXCEPT ![t] = target[o]]
  /\ stored' = IF target[o] = home[t] THEN stored ELSE [stored EXCEPT ![t] = Generation(o)]
  /\ UNCHANGED <<disabled, gone, provisioned>>

\* Mutant: an uncertain commit releases the fence like any other failure.
AfterCommitReleases(o) ==
  IF expected[o] = None THEN Leave(o) /\ Drop(o)
  ELSE Goto(o, "release") /\ UNCHANGED <<lock, tok, seen, target, expected>>

\* After a commit has been tried nothing is released, whatever its answer.
AfterCommit(o) == Leave(o) /\ Drop(o)

CommitTransfer(o) ==
  /\ pc[o] = "write" /\ ApplyTransfer(o) /\ AfterCommit(o)
  /\ UNCHANGED <<product, issued, revoked, videoVars, faults>>

\* The answer to the commit is lost, and the transaction with it or not.
CommitFails(o) ==
  /\ pc[o] = "write" /\ Fault
  /\ ApplyTransfer(o) \/ UNCHANGED <<accountVars, bound>>
  /\ AfterCommit(o)
  /\ UNCHANGED <<product, issued, revoked, videoVars>>

\* Video Cloud forgets exactly this generation, and only before any lifecycle.
Forgotten(g) == IF fence = g /\ active = None THEN None ELSE fence

\* The deferred release, still under the locks.
ReleaseTransferFence(o) ==
  /\ pc[o] = "release"
  /\ \/ fence' = Forgotten(expected[o]) /\ UNCHANGED faults
     \/ Fault /\ UNCHANGED fence
  /\ Drop(o) /\ Leave(o)
  /\ UNCHANGED <<tokenVars, accountVars, requests, withdrawals, active, calls>>

\* The process stops: the database rolls back, nobody calls Video Cloud.
OperatorCrash(o) ==
  /\ pc[o] \notin {"idle", "observed", "inspected"} /\ Fault
  /\ Drop(o) /\ Leave(o)
  /\ UNCHANGED <<tokenVars, accountVars, videoVars>>

-----------------------------------------------------------------------------
(* ReconcileDeviceTransferFence: what an operator is told, and may undo.   *)

Committed(t) ==
  /\ fence # None /\ fence[1] = t /\ claim[t] = "moved"
  /\ home[t] = fence[3] /\ bound[t] = fence[3] /\ stored[t] = fence

\* A claim without its device is a conflict, not an answer.
Cancelable(t) ==
  /\ Present(t) /\ fence # None /\ fence[1] = t /\ claim[t] = "resolved" /\ home[t] # fence[3]
  /\ t \notin revoked /\ bound[t] \in {NoOrg, home[t]} /\ stored[t] = None
  /\ t \notin provisioned /\ fence = <<t, home[t], fence[3]>>

\* Inspection only reads; its answer may be old when it is used.
InspectTransferFence(o, t) ==
  /\ pc[o] = "idle" /\ Present(t) /\ Free(t) /\ fence # None
  /\ expected' = [expected EXCEPT ![o] = fence] /\ tok' = [tok EXCEPT ![o] = t]
  /\ Goto(o, "inspected")
  /\ UNCHANGED <<tokenVars, accountVars, videoVars, seen, target, lock, faults>>

MayCancel(o) == Cancelable(tok[o]) /\ fence = expected[o]

CancelTransferFence(o) ==
  /\ pc[o] = "inspected" /\ Free(tok[o])
  /\ IF MayCancel(o) THEN Take(o) /\ Goto(o, "cancel") /\ UNCHANGED <<tok, seen, target, expected>>
                     ELSE Leave(o) /\ UNCHANGED lock
  /\ UNCHANGED <<tokenVars, accountVars, videoVars, faults>>

\* The call may fail, before or after Video Cloud has obeyed.
CancelAtVideoCloud(o) ==
  /\ pc[o] = "cancel"
  /\ \/ fence' = Forgotten(expected[o]) /\ UNCHANGED faults
     \/ Fault /\ UNCHANGED fence
  /\ Drop(o) /\ Leave(o)
  /\ UNCHANGED <<tokenVars, accountVars, requests, withdrawals, active, calls>>

Next ==
  \/ \E t \in Tokens, org \in Orgs \cup {NoOrg}, p \in BOOLEAN : CreateDeviceClaimToken(t, org, p)
  \/ \E t \in Tokens : RevokeDeviceClaimToken(t)
  \/ \E t \in Tokens, org \in Orgs : ResolveDeviceClaimToken(t, org)
  \/ \E t \in Tokens : ResolveEndUserDeviceClaimToken(t) \/ DeleteDevice(t)
  \/ \E t \in Tokens : UpdateDeviceAsUser(t) \/ ProvisionDevice(t) \/ IndependentActivation(t)
  \/ \E t \in Tokens : UnprovisionDevice(t) \/ Unbind(t)
  \/ \E r \in requests : Activate(r)
  \/ \E o \in Operators, t \in Tokens, org \in Orgs : ObserveClaim(o, t, org)
  \/ \E o \in Operators, t \in Tokens : InspectTransferFence(o, t)
  \/ \E o \in Operators : LockClaim(o) \/ ReserveTransferFence(o) \/ ReserveFails(o)
  \/ \E o \in Operators : WriteFails(o) \/ CommitTransfer(o) \/ CommitFails(o)
  \/ \E o \in Operators : ReleaseTransferFence(o) \/ OperatorCrash(o)
  \/ \E o \in Operators : CancelTransferFence(o) \/ CancelAtVideoCloud(o)

Spec == Init /\ [][Next]_vars

-----------------------------------------------------------------------------
(* What has to hold.                                                       *)

\* A device that is active at Video Cloud is active for the organization of its
\* claim, whatever was lost on the way: overrideDeviceClaim never moves an
\* active device, and never lets the former owner activate a moved one.  The
\* claim of an unprovisioned device still counts: a command delivered late binds
\* the device to the organization that released it.
ActivatedWhereOwned == active # None => home[active.device] = active.org

\* A claim that has changed its organization keeps its fence, and its device: no
\* release, no cancellation, no unprovision and no second transfer of another
\* claim removes the fence of a committed transfer.
TransferKeepsFence ==
  \A t \in Tokens : stored[t] # None => Committed(t) /\ t \notin gone

\* What closes both ways out of a fence left behind: the token is revoked, the
\* device provisioned or unprovisioned, or the claim overridden within its
\* organization.  None of these looks at the fence.
Overtaken(t) == t \in revoked \cup provisioned \cup gone \/ claim[t] = "moved"

\* Whatever fails, a fence is explained by the account: its transfer is
\* committed, or the claim is where it was when the generation was derived, and
\* then a retry of the transfer confirms the fence and an operator can cancel
\* it, unless the claim was overtaken.
FenceIsDerivable ==
  fence # None =>
    LET t == fence[1] IN
    \/ Committed(t)
    \/ /\ claim[t] # "none" /\ home[t] = fence[2] /\ stored[t] = None
       /\ Overtaken(t) \/ (Cancelable(t) /\ Movable(t, home[t], fence[3]))

\* The fence of Video Cloud and the rows of the account explain each other at every
\* moment, through lost answers, uncertain commits, crashes, cancellations and
\* unprovisions: a committed transfer never loses its fence, and a fence without one
\* can be confirmed or cancelled unless a revocation, a provision, an unprovision or
\* an override within the organization came after it (overrideDeviceClaim,
\* ReconcileDeviceTransferFence, UnprovisionDevice, mergeUserDeviceMetadata).
FenceIsSound == TypeOK /\ TransferKeepsFence /\ FenceIsDerivable

\* A device changes its organization at most once, never after a provision or an
\* unprovision, and into a brand cloud only with a product of that cloud, also
\* with two operators who both looked at the claim before either had the locks and
\* with a user who provisions it meanwhile: moving only the account's rows would
\* leave its clips and telemetry behind (overrideDeviceClaim).
DevicesStay ==
  [][\A t \in Tokens : home[t] # NoOrg /\ home'[t] # home[t] =>
        /\ claim[t] = "resolved" /\ claim'[t] = "moved" /\ t \notin provisioned \cup gone
        /\ home'[t] \in BrandClouds => t \in product /\ home'[t] = Maker]_vars
=============================================================================
