-------------------------- MODULE ProductServices --------------------------
(***************************************************************************)
(* From the catalogue of services to the device in the field, for one      *)
(* product and one device of it:                                           *)
(*  - the product selects options and gets an immutable service grant      *)
(*    (device_item_profiles.go, device_item_profile_user_mutations.go,     *)
(*    legacy_product_service_grants.go);                                   *)
(*  - a production run pins the latest grant; the factory reserves,        *)
(*    issues, cancels and reports certificates against its quota           *)
(*    (production_runs.go, factory_enrollment_reservations.go,             *)
(*    factory_enrollment_cancellation.go, provision_grant_pin.go);         *)
(*  - the device is provisioned with the pinned grant and then follows     *)
(*    entitlement snapshots, one by one or through an apply job of the     *)
(*    product (device_entitlement_snapshots.go, product_service_apply.go). *)
(*                                                                         *)
(* The store requires service grants (product writes are on).  Log         *)
(* retention and PKI readiness of the product are left out, and a grant    *)
(* carries its contents, so that its digest adds nothing.                  *)
(***************************************************************************)
EXTENDS ServiceCatalog, Sequences

CONSTANTS
  Runs,       \* production runs
  Quantity,   \* certificates a run may issue
  Enrollments, \* enrollment requests of the factory, all for the device
  Jobs,       \* apply jobs
  Updates,    \* entitlement updates of a user
  NoRun, NoPreview

ASSUME ProductAssumption ==
  /\ Quantity \in Nat \ {0} /\ IsFiniteSet(Enrollments)
  /\ NoRun \notin Runs /\ Jobs \cap Updates = {} /\ "provision" \notin Jobs \cup Updates

Ops == Jobs \cup Updates \cup {"provision"}

VARIABLES
  profile,      \* options (none: no product) and whether it is disabled
  grants,       \* product_service_grants by revision
  listed,       \* the catalogue as the user last listed it
  report,       \* product and grants as the last backfill report saw them
  cloud,        \* ownership version, and whether it admits the signer's writes
  run,          \* status, pinned grant, signed options, ownership version, issued
  reservation,  \* of each request: run, status, admitted
  heard,        \* requests the issuer knows to be admitted
  certificate,  \* at the issuer: none, issued or fenced
  operation,    \* status of the device's operations
  baseline,     \* grant revision of the succeeded provisioning, 0 before it
  deactivated,  \* the entitlement revision at which the device was deactivated, if it was
  snapshots,    \* device_entitlement_snapshots by revision
  inForce,      \* entitlement revision Video Cloud applies
  preview,      \* the preview the user holds
  job,          \* status, target revision, baseline of its device, the preview it was
                \* admitted with (its preview_token)
  requeueing    \* jobs between the check of a retry and its requeue

productVars == <<profile, grants, listed, report>>
factoryVars == <<run, reservation, heard, certificate>>
deviceVars == <<operation, baseline, deactivated, snapshots, inForce>>
jobVars == <<preview, job, requeueing>>
servicesVars == <<catalogVars, left, productVars, cloud, factoryVars, deviceVars, jobVars>>

Latest == Len(grants)
Pins == 0..Latest
Effective == {"active", "suspended", "revoked"}
NoJob == [status |-> "none", target |-> 0, expected |-> NoPreview,
          shown |-> NoPreview]
Statements == [revision : Nat, grant : Nat, options : SUBSET Codes, state : Effective]

Bound == [code : Codes, requires : SUBSET Codes, service : Services, version : Versions]
Grants == [options : SUBSET Codes, bindings : SUBSET Bound]
RunRows == [status : {"none", "active", "disabled"}, pin : Nat, options : SUBSET Codes,
            version : Nat, issued : Nat]
ReservationRows ==
  [run : Runs \cup {NoRun}, admitted : BOOLEAN,
   status : {"none", "reserved", "cancel_requested", "issued", "not_issued"}]
OperationStatuses == {"absent", "open", "succeeded", "failed", "retryable", "dead_lettered"}
SnapshotRows == [grant : Nat, options : SUBSET Codes, state : Effective, op : Jobs \cup Updates]
JobRows == [status : {"none", "active", "completed", "canceled"}, target : Nat,
            expected : Statements \cup {NoPreview},
            shown : [target : Nat, device : Statements] \cup {NoPreview}]

ProductTypeOK ==
  /\ profile \in [options : SUBSET Codes, disabled : BOOLEAN] /\ grants \in Seq(Grants)
  /\ listed \in [revision : Nat, options : SUBSET Bound]

\* A run counts what was reported as issued.
FactoryTypeOK ==
  /\ cloud \in [version : Nat, admits : BOOLEAN]
  /\ run \in [Runs -> RunRows] /\ reservation \in [Enrollments -> ReservationRows]
  /\ \A r \in Runs : /\ run[r].pin \in Pins
                     /\ run[r].issued = Cardinality({q \in Enrollments :
                          reservation[q].run = r /\ reservation[q].status = "issued"})
  /\ \A q \in Enrollments : reservation[q].run = NoRun <=> reservation[q].status = "none"
  /\ heard \subseteq Enrollments /\ certificate \in [Enrollments -> {"none", "issued", "fenced"}]

DeviceTypeOK ==
  /\ operation \in [Ops -> OperationStatuses] /\ baseline \in Pins /\ deactivated \subseteq Nat
  /\ snapshots \in Seq(SnapshotRows) /\ inForce \in 0..Len(snapshots)
  /\ \A n \in 1..Len(snapshots) :
       snapshots[n].grant \in 1..Latest /\ operation[snapshots[n].op] # "absent"

\* One job is active at most.
JobTypeOK ==
  /\ job \in [Jobs -> JobRows] /\ requeueing \subseteq Jobs
  /\ \A j \in Jobs : job[j].status # "none" => job[j].target \in 1..Latest
                                                /\ job[j].expected \in Statements
  /\ Cardinality({j \in Jobs : job[j].status = "active"}) <= 1

\* The types of the variables: the catalogue, the product, the factory, the device
\* and the jobs; a pin, a baseline and a target are grants of the product.
ServicesTypeOK == CatalogTypeOK /\ ProductTypeOK /\ FactoryTypeOK /\ DeviceTypeOK /\ JobTypeOK

ServicesInit ==
  /\ \E start \in Starts :
       /\ CatalogInit(start.known) /\ left = start.calls
       /\ profile = [options |-> start.legacy, disabled |-> FALSE]
  /\ grants = <<>>
  /\ listed = [revision |-> 0, options |-> {}]
  /\ report = [options |-> {}, grants |-> <<>>]
  /\ cloud = [version |-> 1, admits |-> TRUE]
  /\ run = [r \in Runs |-> [status |-> "none", pin |-> 0, options |-> {}, version |-> 0, issued |-> 0]]
  /\ reservation = [q \in Enrollments |-> [run |-> NoRun, status |-> "none", admitted |-> FALSE]]
  /\ heard = {} /\ certificate = [q \in Enrollments |-> "none"]
  /\ operation = [o \in Ops |-> "absent"] /\ baseline = 0 /\ deactivated = {}
  /\ snapshots = <<>> /\ inForce = 0
  /\ preview = NoPreview /\ job = [j \in Jobs |-> NoJob] /\ requeueing = {}

-----------------------------------------------------------------------------
(* The product and its grants.                                             *)

\* authorizeProductUserMutationTx: the cloud is operational and the actor may
\* manage the product.
AuthorizeProductUserMutation == cloud.admits

ListPlatformServiceOptions ==
  /\ Spend("reads") /\ listed' = [revision |-> revision, options |-> Selectable]
  /\ UNCHANGED <<catalogVars, profile, grants, report, cloud, factoryVars, deviceVars, jobVars>>

\* validateProductServiceSelection: every option selected with all it requires.
ClosedUnder(options, bindings) ==
  "mqtt" \in options /\ \A o \in bindings : o.requires \subseteq options

\* The bindings of some options, each found and selectable.
Bindings(options) ==
  LET bound == {o \in Selectable : o.code \in options}
  IN IF options \subseteq CodesOf(bound) THEN {bound} ELSE {}

InsertProductServiceGrant(options, bindings) ==
  grants' = Append(grants, [options |-> options, bindings |-> bindings])

\* createDeviceItemProfileTx and updateDeviceItemProfileTx.
CreateProfile(options) == profile.options = {} /\ profile' = [profile EXCEPT !.options = options]
UpdateProfile(options) ==
  profile.options \notin {{}, options} /\ profile' = [profile EXCEPT !.options = options]

\* validateProductServiceSelectionTx.
Selection(options) == {b \in Bindings(options) : listed.revision = revision}

CreateDeviceItemProfileAsUser(options) ==
  /\ Spend("product") /\ AuthorizeProductUserMutation /\ CreateProfile(options)
  /\ \E bindings \in Selection(options) :
       ClosedUnder(options, bindings) /\ InsertProductServiceGrant(options, bindings)
  /\ UNCHANGED <<catalogVars, listed, report, cloud, factoryVars, deviceVars, jobVars>>

\* Options that stay keep their binding.
Kept(options) == {o \in grants[Latest].bindings : o.code \in options \cap profile.options}

\* Mutant: the revision the user saw is not compared.
ValidateUpdateUnseen(options) ==
  {Kept(options) \cup added : added \in Bindings(options \ profile.options)}

\* validateProductServiceUpdateTx: new options need the catalogue.
ValidateProductServiceUpdate(options) ==
  IF options \subseteq profile.options THEN {Kept(options)}
  ELSE {Kept(options) \cup added : added \in Selection(options \ profile.options)}

UpdateDeviceItemProfileAsUser(options) ==
  /\ Spend("product") /\ AuthorizeProductUserMutation /\ Latest > 0 /\ UpdateProfile(options)
  /\ \E bindings \in ValidateProductServiceUpdate(options) :
       ClosedUnder(options, bindings) /\ InsertProductServiceGrant(options, bindings)
  /\ UNCHANGED <<catalogVars, listed, report, cloud, factoryVars, deviceVars, jobVars>>

\* disableDeviceItemProfileTx, and an update of the status alone, which inserts
\* no grant either.
SetDisabled(disabled) ==
  /\ profile.options # {} /\ profile.disabled # disabled
  /\ profile' = [profile EXCEPT !.disabled = disabled]

DisableDeviceItemProfileAsUser(disabled) ==
  /\ Spend("product") /\ AuthorizeProductUserMutation /\ SetDisabled(disabled)
  /\ UNCHANGED <<catalogVars, grants, listed, report, cloud, factoryVars, deviceVars, jobVars>>

\* The report of a backfill, and its application to exactly what was reported.
\* It invents no binding, and no product is ready whose grant differs from it.
Snapshot == [options |-> profile.options, grants |-> grants]
ReportLegacyGrants ==
  /\ Spend("reads") /\ report' = Snapshot
  /\ UNCHANGED <<catalogVars, profile, grants, listed, cloud, factoryVars, deviceVars, jobVars>>

BackfillLegacyProductServiceGrants ==
  /\ Spend("product") /\ report = Snapshot
  /\ Latest = 0 /\ profile.options # {}
  /\ InsertProductServiceGrant(profile.options, {})
  /\ UNCHANGED <<catalogVars, profile, listed, report, cloud, factoryVars, deviceVars, jobVars>>

-----------------------------------------------------------------------------
(* Production runs and the factory.                                        *)

\* A handover of the cloud, or a fence or a lost role that keeps the signer out.
CloudChanges ==
  /\ Spend("cloud")
  /\ \/ cloud' = [cloud EXCEPT !.version = @ + 1]
     \/ cloud' = [cloud EXCEPT !.admits = ~@]
  /\ UNCHANGED <<catalogVars, productVars, factoryVars, deviceVars, jobVars>>

\* createProductionRunTx: the latest grant, for the current owner.
CreateProductionRun(r) ==
  /\ run[r].status = "none" /\ ~profile.disabled /\ Latest > 0
  /\ run' = [run EXCEPT ![r] = [status |-> "active", pin |-> Latest,
                                options |-> grants[Latest].options,
                                version |-> cloud.version, issued |-> 0]]

\* Repeating the idempotency key of an active run signs the same claims again.
IssueProductionRunAsUser(r) ==
  /\ Spend("factory") /\ AuthorizeProductUserMutation /\ CreateProductionRun(r)
  /\ UNCHANGED <<catalogVars, productVars, cloud, reservation, heard, certificate, deviceVars, jobVars>>

\* Stopping a run; a run whose time is over behaves the same.
StopProductionRunAsUser(r) ==
  /\ Spend("factory") /\ AuthorizeProductUserMutation /\ run[r].status = "active"
  /\ run' = [run EXCEPT ![r].status = "disabled"]
  /\ UNCHANGED <<catalogVars, productVars, cloud, reservation, heard, certificate, deviceVars, jobVars>>

Of(r, statuses) == {q \in Enrollments : reservation[q].run = r /\ reservation[q].status \in statuses}
Admitted == {q \in Enrollments : reservation[q].admitted}

\* Mutant: a cancelled reservation gives its place back at once.
PendingUncancelled(r) == Of(r, {"reserved"}) \cap Admitted

\* Quota is held until the issuer has answered, also by what is being cancelled.
Pending(r) == Of(r, {"reserved", "cancel_requested"}) \cap Admitted

\* verifyProductionServiceGrantTx: the factory shows the claims signed with the
\* run, which must be the pinned grant.
VerifyProductionServiceGrant(r) == run[r].options = grants[run[r].pin].options

MayReserve(r) ==
  /\ AuthorizeProductUserMutation /\ ~profile.disabled
  /\ run[r].status = "active" /\ run[r].version = cloud.version
  /\ VerifyProductionServiceGrant(r)

\* A repetition is answered with the row, unless it was cancelled.  An answer
\* may be lost: the reservation then holds its place, and nobody knows.
Repeats(q, r) == reservation[q].run = r /\ reservation[q].status # "cancel_requested"

ReserveFactoryEnrollment(q, r, answered) ==
  /\ Spend("factory") /\ MayReserve(r)
  /\ \/ Repeats(q, r) /\ UNCHANGED reservation
     \/ /\ reservation[q].status = "none"
        /\ run[r].issued + Cardinality(Pending(r)) < Quantity
        /\ reservation' = [reservation EXCEPT ![q] =
                             [run |-> r, status |-> "reserved", admitted |-> TRUE]]
  /\ heard' = IF answered THEN heard \cup {q} ELSE heard
  /\ UNCHANGED <<catalogVars, productVars, cloud, run, certificate, deviceVars, jobVars>>

\* Cancelling needs no authority.  A request nobody knows leaves a tombstone,
\* which the delayed reservation will meet.
BeginFactoryEnrollmentCancellation(q, r) ==
  /\ Spend("factory") /\ run[r].status # "none"
  /\ reservation[q].run \in {NoRun, r} /\ reservation[q].status \in {"none", "reserved"}
  /\ reservation' = [reservation EXCEPT ![q].run = r, ![q].status = "cancel_requested"]
  /\ UNCHANGED <<catalogVars, productVars, cloud, run, heard, certificate, deviceVars, jobVars>>

\* The issuer: it issues for an admitted request, once, and fences a request
\* that is being cancelled and has no certificate.
IssueCertificate(q) ==
  /\ q \in heard /\ certificate[q] = "none" /\ reservation[q].status # "not_issued"
  /\ certificate' = [certificate EXCEPT ![q] = "issued"]
  /\ UNCHANGED <<catalogVars, left, productVars, cloud, run, reservation, heard, deviceVars, jobVars>>

FenceRequest(q) ==
  /\ reservation[q].status = "cancel_requested" /\ certificate[q] = "none"
  /\ certificate' = [certificate EXCEPT ![q] = "fenced"]
  /\ UNCHANGED <<catalogVars, left, productVars, cloud, run, reservation, heard, deviceVars, jobVars>>

\* Only the issuer's evidence ends a reservation; it still counts after a stop,
\* a fence of the cloud or the end of the run.
CompleteFactoryEnrollment(q) ==
  LET r == reservation[q].run
      issued == certificate[q] = "issued"
  IN /\ reservation[q].status \in {"reserved", "cancel_requested"} /\ certificate[q] # "none"
     /\ issued => reservation[q].admitted /\ run[r].issued < Quantity
     /\ run' = IF issued THEN [run EXCEPT ![r].issued = @ + 1] ELSE run
     /\ reservation' = [reservation EXCEPT ![q].status = IF issued THEN "issued" ELSE "not_issued"]
     /\ UNCHANGED <<catalogVars, left, productVars, cloud, heard, certificate, deviceVars, jobVars>>

-----------------------------------------------------------------------------
(* The device.                                                             *)

\* A dead-lettered operation is not over: it still stands in the way of others.
Unfinished(o) == operation[o] \in {"open", "dead_lettered"}
Conflicting(o) == \E p \in Ops \ {o} : Unfinished(p)

\* trustedProvisionGrantPinTx: all issued certificates of the device name one
\* grant; without any the latest grant counts.
PinnedBy == {run[reservation[q].run].pin : q \in {p \in Enrollments : reservation[p].status = "issued"}}

StartProvision ==
  /\ Spend("device") /\ cloud.admits /\ operation["provision"] = "absent"
  /\ Latest > 0 /\ Cardinality(PinnedBy) <= 1
  /\ operation' = [operation EXCEPT !["provision"] = "open"]
  /\ baseline' = IF PinnedBy = {} THEN Latest ELSE CHOOSE p \in PinnedBy : TRUE
  /\ UNCHANGED <<catalogVars, productVars, cloud, factoryVars, deactivated, snapshots, inForce, jobVars>>

Deactivate ==
  /\ Spend("device") /\ operation["provision"] = "succeeded" /\ deactivated = {}
  /\ deactivated' = {Len(snapshots)}
  /\ UNCHANGED <<catalogVars, productVars, cloud, factoryVars, operation, baseline, snapshots,
                 inForce, jobVars>>

\* latestDeviceEntitlementBaselineTx: the last snapshot, applied or not, else
\* the provisioning; a deactivated device counts as suspended.
HasBaseline == snapshots # <<>> \/ operation["provision"] = "succeeded"
Suspended(state) == IF deactivated # {} /\ state = "active" THEN "suspended" ELSE state
Baseline ==
  LET n == Len(snapshots)
  IN IF n = 0 THEN [revision |-> 0, grant |-> baseline, options |-> grants[baseline].options,
                    state |-> Suspended("active")]
     ELSE [revision |-> n, grant |-> snapshots[n].grant, options |-> snapshots[n].options,
           state |-> Suspended(snapshots[n].state)]

\* validateEffectiveDeviceServices: part of the grant, and closed.
Effectual(options, g) ==
  /\ options \subseteq grants[g].options
  /\ ClosedUnder(options, {o \in grants[g].bindings : o.code \in options})

StartSnapshot(o, g, options, state) ==
  /\ operation' = [operation EXCEPT ![o] = "open"]
  /\ snapshots' = Append(snapshots, [grant |-> g, options |-> options, state |-> state, op |-> o])

\* A user narrows the options of the grant in force, or takes the latest one;
\* other operations do not stop it.
StartDeviceEntitlementSnapshot(o, g, options, state) ==
  /\ Spend("device") /\ AuthorizeProductUserMutation
  /\ operation[o] = "absent" /\ HasBaseline /\ g \in {Baseline.grant, Latest}
  /\ Effectual(options, g)
  /\ StartSnapshot(o, g, options, state)
  /\ UNCHANGED <<catalogVars, productVars, cloud, factoryVars, baseline, deactivated, inForce, jobVars>>

\* Video Cloud applies a command that is not older than what it has; the answer
\* that reports it may be lost, and counts only if it names the revision.
RevisionOf(o) == CHOOSE n \in 1..Len(snapshots) : snapshots[n].op = o

VideoCloudApplies(o) ==
  /\ o # "provision" /\ operation[o] = "open" /\ inForce < RevisionOf(o)
  /\ inForce' = RevisionOf(o)
  /\ UNCHANGED <<catalogVars, left, productVars, cloud, factoryVars, operation, baseline,
                 deactivated, snapshots, jobVars>>

OperationEnds(o, status) ==
  /\ operation[o] = "open"
  /\ IF status = "succeeded"
     THEN UNCHANGED left /\ (o # "provision" => inForce = RevisionOf(o))
     ELSE Spend("faults")
  /\ operation' = [operation EXCEPT ![o] = status]
  /\ UNCHANGED <<catalogVars, productVars, cloud, factoryVars, baseline, deactivated, snapshots,
                 inForce, jobVars>>

-----------------------------------------------------------------------------
(* Apply jobs.                                                             *)

\* previewProductServiceApplyTx without blockers: nothing open, the baseline
\* trusted and applied.
Unblocked ==
  /\ HasBaseline /\ \A o \in Ops : ~Unfinished(o)
  /\ snapshots # <<>> => operation[snapshots[Len(snapshots)].op] = "succeeded"
  /\ Baseline.options \subseteq grants[Baseline.grant].options

\* What the preview token is the digest of.
Preview == [target |-> Latest, device |-> Baseline]

PreviewProductServiceApply ==
  /\ Spend("reads") /\ AuthorizeProductUserMutation
  /\ ~profile.disabled /\ Latest > 0 /\ "mqtt" \in grants[Latest].options /\ Unblocked
  /\ preview' = Preview
  /\ UNCHANGED <<catalogVars, productVars, cloud, factoryVars, deviceVars, job, requeueing>>

\* The preview is computed again and must be the one the user saw.
AdmitProductServiceApply(j) ==
  /\ Spend("jobs") /\ AuthorizeProductUserMutation
  /\ job[j].status = "none" /\ \A k \in Jobs : job[k].status # "active"
  /\ ~profile.disabled /\ Unblocked /\ preview = Preview
  /\ job' = [job EXCEPT ![j] = [status |-> "active", target |-> Latest, expected |-> Baseline,
                                shown |-> preview]]
  /\ UNCHANGED <<catalogVars, productVars, cloud, factoryVars, deviceVars, preview, requeueing>>

\* Mutant: only the entitlement revision is compared.
BaselineRevisionHolds(j) == Baseline.revision = job[j].expected.revision /\ ~Conflicting(j)

\* validateProductApplyBaselineTx.
BaselineHolds(j) == Baseline = job[j].expected /\ ~Conflicting(j)

\* validateProductApplyItemTx: the item belongs to an active job.
ItemOpen(j) == job[j].status = "active"

\* The first dispatch of the job's device.
DispatchItem(j) ==
  /\ Spend("jobs") /\ AuthorizeProductUserMutation /\ ItemOpen(j)
  /\ operation[j] = "absent" /\ HasBaseline /\ BaselineHolds(j)
  /\ Effectual(grants[job[j].target].options, job[j].target)
  /\ StartSnapshot(j, job[j].target, grants[job[j].target].options, job[j].expected.state)
  /\ UNCHANGED <<catalogVars, productVars, cloud, factoryVars, baseline, deactivated, inForce, jobVars>>

\* validateProductApplyReplayTx: nothing newer, and nothing else under way.
ReplayHolds(j) ==
  /\ RevisionOf(j) = Len(snapshots) /\ ~Conflicting(j)
  /\ ~(deactivated # {} /\ snapshots[Len(snapshots)].state = "active")

\* A retry of a failed item: the check and the requeue are two transactions.
RetryItem(j) ==
  /\ Spend("jobs") /\ AuthorizeProductUserMutation /\ ItemOpen(j)
  /\ operation[j] \in {"retryable", "dead_lettered"} /\ j \notin requeueing
  /\ ReplayHolds(j)
  /\ requeueing' = requeueing \cup {j}
  /\ UNCHANGED <<catalogVars, productVars, cloud, factoryVars, deviceVars, preview, job>>

RequeueItem(j) ==
  /\ j \in requeueing /\ requeueing' = requeueing \ {j}
  /\ operation' = IF operation[j] \in {"retryable", "dead_lettered"}
                  THEN [operation EXCEPT ![j] = "open"] ELSE operation
  /\ UNCHANGED <<catalogVars, left, productVars, cloud, factoryVars, baseline, deactivated,
                 snapshots, inForce, preview, job>>

\* Mutant: an item is done when its operation is over.
AppliedOrOver(j) == operation[j] \in {"succeeded", "failed"}

\* An item is applied when its operation succeeded for the target grant.
Applied(j) == operation[j] = "succeeded" /\ snapshots[RevisionOf(j)].grant = job[j].target

FinishProductServiceApply(j, status) ==
  /\ Spend("jobs") /\ AuthorizeProductUserMutation /\ ItemOpen(j)
  /\ status = "completed" => Applied(j)
  /\ job' = [job EXCEPT ![j].status = status]
  /\ UNCHANGED <<catalogVars, productVars, cloud, factoryVars, deviceVars, preview, requeueing>>

-----------------------------------------------------------------------------
(* The handlers.                                                           *)

createDeviceItemProfile == \E options \in SUBSET Codes : CreateDeviceItemProfileAsUser(options)
updateDeviceItemProfile ==
  \/ \E options \in SUBSET Codes : UpdateDeviceItemProfileAsUser(options)
  \/ DisableDeviceItemProfileAsUser(FALSE)
disableDeviceItemProfile == DisableDeviceItemProfileAsUser(TRUE)

createProductionRun == \E r \in Runs : IssueProductionRunAsUser(r)
stopOrganizationProductionRun == \E r \in Runs : StopProductionRunAsUser(r)

reserveFactoryEnrollment(q) ==
  \E r \in Runs, answered \in BOOLEAN : ReserveFactoryEnrollment(q, r, answered)
cancelFactoryEnrollment(q) == \E r \in Runs : BeginFactoryEnrollmentCancellation(q, r)
completeFactoryEnrollment(q) == CompleteFactoryEnrollment(q)

\* Any device revision may follow, with the options and the state asked for.
createDeviceEntitlementSnapshot ==
  \E o \in Updates, g \in 1..Latest, options \in SUBSET Codes, state \in Effective :
    StartDeviceEntitlementSnapshot(o, g, options, state)

dispatchProductServiceApplyItem(j) == DispatchItem(j) \/ RetryItem(j) \/ RequeueItem(j)
finishProductServiceApply(j) ==
  \E status \in {"completed", "canceled"} : FinishProductServiceApply(j, status)

Others == <<productVars, cloud, factoryVars, deviceVars, jobVars>>

ServicesNext ==
  \/ CatalogNext /\ UNCHANGED Others
  \/ ListPlatformServiceOptions
  \/ createDeviceItemProfile \/ updateDeviceItemProfile \/ disableDeviceItemProfile
  \/ ReportLegacyGrants \/ BackfillLegacyProductServiceGrants \/ CloudChanges
  \/ createProductionRun \/ stopOrganizationProductionRun
  \/ \E q \in Enrollments : \/ reserveFactoryEnrollment(q) \/ cancelFactoryEnrollment(q)
                         \/ IssueCertificate(q) \/ FenceRequest(q) \/ completeFactoryEnrollment(q)
  \/ StartProvision \/ Deactivate \/ createDeviceEntitlementSnapshot
  \/ \E o \in Ops : \/ VideoCloudApplies(o)
                    \/ \E status \in {"succeeded", "failed", "retryable", "dead_lettered"} :
                         OperationEnds(o, status)
  \/ PreviewProductServiceApply
  \/ \E j \in Jobs : \/ AdmitProductServiceApply(j) \/ dispatchProductServiceApplyItem(j)
                     \/ finishProductServiceApply(j)

ServicesSpec == ServicesInit /\ [][ServicesNext]_servicesVars

-----------------------------------------------------------------------------
\* GetProductOTAGrant, what the update service is told: it trusts the grant only
\* while the product has the same options.
OTAEnabled ==
  /\ ~profile.disabled /\ Latest > 0 /\ profile.options = grants[Latest].options
  /\ "ota" \in grants[Latest].options

\* The options of the product are those of its latest grant, so that the update
\* service is told the truth, and every binding of a grant has all it requires:
\* updates, status changes and the backfill of old products keep the two in step.
ProductMatchesGrant ==
  /\ Latest > 0 => profile.options = grants[Latest].options
  /\ OTAEnabled <=> Latest > 0 /\ ~profile.disabled /\ "ota" \in profile.options
  /\ \A g \in 1..Latest : \A o \in grants[g].bindings :
       o.code \in grants[g].options /\ o.requires \subseteq grants[g].options

\* A binding that enters a grant is one the user saw selectable, in the same
\* version and with the same requirements: the observed catalogue revision is
\* enough to tell, although leases end and services are published and revoked
\* between the listing and the write.
GrantIsWhatWasSeen ==
  [][\A g \in DOMAIN grants' \ DOMAIN grants :
       \A o \in grants'[g].bindings :
         o \in listed.options \/ (Latest > 0 /\ o \in grants[Latest].bindings)]_servicesVars

\* The issuer never holds more certificates of a run than its quantity, also
\* while answers are lost and reservations are cancelled.
QuotaHolds ==
  \A r \in Runs : Cardinality({q \in Enrollments : certificate[q] = "issued"
                                                /\ reservation[q].run = r}) <= Quantity

\* No certificate for a request that was never admitted or was reported as not
\* issued: a reservation delayed past its cancellation gains nothing.
CertificateIsAdmitted ==
  \A q \in Enrollments : certificate[q] = "issued" =>
    reservation[q].admitted /\ reservation[q].status # "not_issued"

\* What a job does to a device is what its preview showed the user
\* (previewProductServiceApplyTx, DispatchProductServiceApplyItem): the device
\* goes to the target shown, from the entitlement shown, directly after it, so
\* that no update or other job in between is overwritten; the entitlement shown
\* was applied by Video Cloud; and no device deactivated before is made active.
BatchIsAsPreviewed ==
  \A n \in 1..Len(snapshots) : snapshots[n].op \in Jobs =>
    LET shown == job[snapshots[n].op].shown
        had == shown.device
    IN /\ shown.target = snapshots[n].grant /\ had.state = snapshots[n].state
       /\ had.revision = n - 1 /\ n - 1 <= inForce
       /\ IF n = 1 THEN operation["provision"] = "succeeded" /\ had.grant = baseline
          ELSE had.grant = snapshots[n - 1].grant /\ had.options = snapshots[n - 1].options
       /\ snapshots[n].state = "active" => \A m \in deactivated : m >= n

\* A completed job has its device at its target: Video Cloud applied the job's
\* snapshot, or a later one.
CompletedIsApplied ==
  \A j \in Jobs : job[j].status = "completed" =>
    \E n \in 1..Len(snapshots) :
      snapshots[n].op = j /\ snapshots[n].grant = job[j].target /\ inForce >= n

\* The catalogue, the product and its grants stay in step, however services register,
\* publish, lapse and are revoked between the steps of the product
\* (validateManifestDependencies, updateDeviceItemProfileTx): the catalogue is
\* sound, the product has the options of its latest grant, and one job is active
\* at most.
CatalogAndGrantsAgree == ServicesTypeOK /\ CatalogIsSound /\ ProductMatchesGrant

\* The factory never gets more out of a production run than was admitted, although
\* the issuer's answers are lost, repeated and overtaken by cancellations
\* (ReserveFactoryEnrollment, the cancellation fence of the issuer).
FactoryWithinRun == QuotaHolds /\ CertificateIsAdmitted
=============================================================================
