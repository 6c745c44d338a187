# Verification of the account manager

The account manager keeps accounts, brand clouds, devices and their
entitlements in PostgreSQL, with a user cache in front of the accounts, and talks
to Video Cloud, Billing, the factory, a mail service and the browser. What is hard
to get right is what happens *between* transactions: a command that is stored
first and published later, a result that comes back late or twice, a worker that
overruns its lease, a saga that waits for several other services, a handler that
acts on a check made earlier, a cache that is written after the row has changed
again. This project models that in TLA+, checks small instances with TLC, and
proves the central invariants of the delivery channels and of the ownership
handoff for every instance with TLAPS.

## The system

| component | state it keeps | operations | interacts with |
| --- | --- | --- | --- |
| lifecycle requests (`internal/api/provisioning.go`, `internal/store/device_lifecycle.go`, `device_unprovision.go`, `device_entitlement_snapshots.go`) | `device_operations`, `device_message_outbox`, `devices` | provision, deactivate, unprovision, entitlement snapshot, disable | one transaction writes operation, outbox row and device |
| outbox worker (`internal/worker/outbox`, `internal/store/outbox_worker.go`) | lease in `available_at`, `attempt_count`, `status` | claim a batch, publish, record the outcome | several processes; publisher is a broker or a direct HTTP call |
| direct delivery (`internal/lifecyclehttp`) | none | call Video Cloud, check the receipt, run the inbox service on the answer | Video Cloud, inbox |
| Event Hubs adapter (`internal/broker/azure_eventhubs.go`) | per-partition tracker in memory, checkpoint file | publish, receive, track, acknowledge | Event Hubs |
| inbox worker (`internal/worker/inbox`, `internal/store/inbox_worker.go`) | `device_message_inbox` | create or get, check the operation, one transaction of inbox row, operation and device | broker, device projection |
| device projection and presence (`internal/store/device_projection.go`, `internal/api/internal_device_presence.go`) | metadata, `status`, `last_seen_at` of `devices` | project a lifecycle result, a metadata change, a presence observation | inbox worker, presence receiver, user API |
| lifecycle administration (`internal/store/lifecycle_admin.go`, `cmd/lifecycle-admin`) | – | requeue outbox, requeue inbox | races with the workers |
| email outbox (`internal/store/email_outbox.go`, `internal/worker/emailoutbox`) | `email_outbox` | enqueue, claim, render, send, record, requeue | Send Mail service |
| ownership handoff (`internal/store/ownership_handoff*.go`, `internal/worker/handoff`) | handoff, jobs, participants' acknowledgements, confirmations, decision | accept, prepare, confirm, commit, finalise, cancel | Billing, factory, MQTT usage, Video control plane |
| cloud deletion (`internal/store/cloud_deletion*.go`, `internal/worker/clouddeletion`) | deletion operation, fence, holds, close command, job | preflight, request, advance, cancel | Billing, producers, ownership and membership changes |
| device claims (`internal/store/device_claims.go`, `device_claim_*.go`, `end_users.go`) | claim tokens, claims, transfer fence | issue, resolve, override, reclaim, inspect and cancel a fence | Video Cloud, devices |
| service catalogue (`internal/store/platform_services.go`) | workloads, manifests, leases, catalogue revision | enroll, register, publish, renew, suspend, retire | products |
| products and production (`device_item_profile*.go`, `production_runs.go`, `factory_enrollment_*.go`, `provision_grant_pin.go`) | options, service grants, runs, reservations, pins | select, backfill, issue and stop a run, reserve, cancel, complete | factory, issuer, update service |
| product service apply (`product_service_apply.go`) | job, preview, items | preview, admit, dispatch, retry, finish | entitlement snapshots, Video Cloud |
| user cache, sessions and sign-in (`internal/usercache`, `internal/auth`, `internal/api/api.go`, `store.go`, `oidc.go`) | accounts, mailed tokens, login states, refresh tokens, Redis entries | sign up, verify, sign in, renew, change and reset, delete | browser, mail, identity providers |
| brand clouds, members, invitations, collaborators (`brand_clouds.go`, `developer_brand_clouds.go`, `*_invitations.go`, `acl.go`) | memberships, holds, invitations, grants on a product | provision, invite, accept, change, suspend, remove, hand off | mail, handoff |
| quotas (`managed_cloud_writes.go`, `eval_tier.go`, `ownership_handoff.go`) | clouds per owner, transfers per cloud, devices per organization | create, offer, accept, commit, raise | handoff |
| platform administration and recovery (`acl.go`, `bootstrap.go`, `admin_recovery.go`, migration 076) | administrators, role assignments, group mappings, recovery requests | assign, revoke, map, request, approve, execute | identity provider |
| PKI, test lab, job authorizations, OTA seal, Billing bootstrap | their tables | single transactions, one small queue | issuers, Billing |

`PROJECT.json` lists every component with its sources and what of it is
modelled, and every hazard with the line where it bites and the properties that
would catch it.

What makes the modelled part hard:

* two workers hold the same row once a lease has run out, and both record an
  outcome;
* a command may have been carried out although the caller saw an error;
* results arrive late, twice, contradicting each other, or for an activation
  that is no longer current;
* a process dies between a committed transaction and the acknowledgement;
* a status is read outside the transaction that relies on it;
* an operator reopens rows that a worker still holds;
* the consumer's checkpoint is one number per partition although outcomes are
  settled in any order;
* the handoff's participants hold and let go on calls that may be late, lost or
  repeated, while the source may cancel between any two of them;
* deleting a cloud needs the agreement of everybody who could still use it, and
  the owner may change his mind until the moment Billing closes;
* a device is moved between organizations by two systems, each of which can do
  only its half, and the call between them may be lost;
* the options a user selects depend on a catalogue that other services change;
* a handler checks the caller in one transaction and works in another, in which
  the caller may have lost what was checked;
* the last owner, the last administrator and a limit are properties of many rows,
  which two requests change from both sides.

## Modules

| module | models | extended by |
| --- | --- | --- |
| `DeliveryQueue` | abstract: what a transactional outbox promises | refined by `DirectLifecycle` and `EmailOutbox` |
| `LifecycleStore` | the tables and their transactions | `OutboxWorker`, `InboxProcessor` |
| `OutboxWorker` | claim, take, record, crash, overrun lease, requeue | `DirectLifecycle`, `BrokerLifecycle` |
| `InboxProcessor` | `processMessage`, one step per store call | `DirectLifecycle`, `BrokerLifecycle` |
| `DirectLifecycle` | the channel with the direct HTTP publisher | `MCDirectLifecycle`, proofs |
| `BrokerLifecycle` | the channel with a broker and Video Cloud's answers | `MCBrokerLifecycle`, proofs |
| `EventHubConsumer` | receive round, tracker, checkpoint file, exit and restart | `MCEventHubConsumer`, proofs |
| `PresenceProjection` | the presence receiver and the presence rules of `projectDeviceTx` | `MCPresenceProjection`, proofs |
| `EmailOutbox` | email queue, worker and operator | `MCEmailOutbox`, proofs |
| `AtomicHandoff` | abstract: what an ownership handoff promises | refined by `OwnershipHandoff` |
| `OwnershipHandoff` | the handoff of one cloud, its job and workers, the users' confirmations | `MCOwnershipHandoff`, proofs |
| `CloudDeletion` | the deletion of one cloud, its job and workers, Billing and the producers | `MCCloudDeletion`, proofs |
| `DeviceClaims` | the claims of one device and the transfer fence at Video Cloud | `MCDeviceClaims`, proofs |
| `ServiceCatalog` | the registry of platform services | `ProductServices` |
| `ProductServices` | one product and one device of it, from the catalogue to the entitlement in force | `MCProductServices`, proofs |
| `AccountSessions` | one account, the ways in, its sessions, its cached copy, and one end user | `MCAccountSessions`, proofs |
| `PlatformAdmin` | administrators, group mappings, recovery by two approvals | `CloudMembers`, `CloudQuota` |
| `CloudMembers` | members of a cloud and of an organization, collaborators of a product, and the assignments of roles on all of these | `Administration` |
| `CloudQuota` | limits on clouds, transfers and devices | `Administration` |
| `Administration` | the three before it over the same accounts and checked requests | `MCAdministration`, proofs |

**Lifecycle channel.** `operations`, `outbox`, `inbox` and `device` are the
rows of the four tables, with the columns the code branches on. A transaction
that locks its rows is one step, and a transaction that fails is no step; its
caller learns of it through `ProjectionFails` or `SameInboxCreate`. A row's
`available_at` has two uses in the code, "is it due" and "is it still the value
my claim wrote". The first is a bit that time sets (`BecomesDue`), the second
the `holder` of the row: a claim always writes a value that differs from every
earlier one, and every later write replaces it. A worker keeps the message as it
claimed it (`claimed`, `current`), because that copy is what
`shouldApplyOutboxPublishTransition` compares with the row. `processMessage` is
split at its store calls (`create`, `decide`, `mark` or `project`), since
everything else may happen between them. In the direct mode the answer's time is
part of the result's payload, so every answer to a command carries a new number
(`responses`) and `compareInboxCreate` can tell them apart. A permanent publish
error cannot occur there: it would need a stored envelope that the code does not
write. In the broker mode Video Cloud is external: it may answer a command with
two results of different verdicts, in any order, and the broker may repeat any
of them.

**Event Hubs consumer.** A partition is a log; a partition client reads forward
only. `track` registers what was read, `acknowledge` marks it and moves the
checkpoint to the end of the acknowledged prefix. A receive error on a later
partition drops what was read from the earlier ones in the same round. Errors
that are not transient end the process, and it starts again from the file, or
from the earliest event when the file cannot be read.

**Presence.** Two handlers, messages with a time and a status, and everything else
that writes the row: provisioning maps the device and resets its presence, a
metadata change may remap or unmap it, a user states the status of a device that
Video Cloud does not manage (and may disable it so), deleting a device disables it
and writes `disabled` to its status, unprovisioning removes the row. `given` and
`seen` are history variables: what a reset or a user wrote last, and the
observations recorded since. `PresenceIsLatest` says what status and time a live
device shows, and that a disabled one shows `disabled` whatever a handler still
holds. There is one organization: a device that has moved refuses the observation
like a deleted one does (`RecordFails`).

**Email.** A row in `sending` carries a lease. The claim also takes rows whose
lease has passed, a transition compares status and attempt count only. `faults`
counts what may cost a second copy: crash, failed recording, overrun lease, an
error after acceptance, requeue.

**Ownership handoff.** One transfer of one cloud. A transaction under the cloud's
lock (`lockBrandCloudCollaborationTx`) is one step, and every remote call is a
step of its own, so a step of `AdvanceHandoffJob` is a path through `pc`: what it
reads at its start (phase, missing participants, open requests) is read in the
step that also checks the lease, and from then on only what the code checks again
is checked again. The two lease checks that follow a call to Billing are steps of
their own, separate from the producer call they precede, since a lease may end in
between. A balance is a number: Billing settles the next one at will, which voids
the consents to the one before, and `about` and `answer` hold what a browser
session or a worker knows of it. A user may repeat a confirmation under another
idempotency key, which is a new row; the model keeps one row per user and balance
and lets such a repetition wake the job and be replayed. The job is `due`,
`lease` and `woken`: lease id, end of the lease and generation are only compared
with what the claim read, so the holder's name and one bit stand for them.
Billing and the producers are external and modelled from the calls: idempotent
per operation, a producer's abort refuses a late prepare, Billing authorizes the
balance both users have consented to, and aborts an authorized operation only
for a cancellation that names the authorization. A call may fail before or after
its effect. A refusal for the target's quota or a disabled membership can strike
any commit attempt and counts as a fault, like crashes, overrun leases, failing
calls, disabled users and the expiry of the invitation.

**Cloud deletion.** An operation is named by its idempotency key. The preflight
reads what the request compares again; the request puts up the fence (migrations
061 to 063 keep resources, members and ownership as they are behind it), the
worker asks Billing to prepare, collects a hold from every producer, writes the
close command down before it sends it, and sets the tombstone when Billing has
closed. The lease is checked once per step, before the first call, so a worker
beyond its lease works beside the next one. A cancellation retires the command
first. The blockers that a failing step reports are one flag.

**Device claims.** Tokens are issued for one Video Cloud device, and the account
device a claim makes is named by its token. A transfer takes the rows' locks,
reads Video Cloud, takes out the fence and commits; the lock is held across the
calls and the process may die in between. The fence's generation is derived from
the claim, which is how a retry and an operator recognise it. A product belongs to
one brand cloud (`Maker`); a device goes there, or to an organization that is no
brand cloud, and a device without a product goes to no brand cloud at all. An
unprovision deletes the device's row whatever fence stands at Video Cloud, and the
claim row stays behind (migration 024 has dropped its foreign key), so a claim may be
without its device (`gone`). What follows from the code and is in the model:

* A fence that a failed transfer forgot can be cancelled, or the transfer repeated,
  as long as the claim is as it was. Once the claim is revoked, its device
  provisioned or unprovisioned, or an override within the same organization has gone
  past it (which does not look at the fence), neither works any more: inspection and
  override answer with a conflict or "not found", and only Video Cloud can lift the
  fence. `FenceIsDerivable` says that these are the only ways (`Overtaken`); the
  fence then stops every further activation, it lets none through.
* The unbinding that an unprovision sends names Video Cloud's device alone. Delivered
  late it also unbinds a device that somebody has claimed again in the meantime. A
  provision delivered after the unprovision of its device binds the organization that
  released it; `ActivatedWhereOwned` counts the claim that stayed behind.
* A transfer checks neither the quota of the organization that receives nor the end
  users bound to the device.

Expiry, categories and service options of a token are left out.

**Service catalogue and products.** Every catalogue operation locks the revision
row, so each is one step, and a product names the revision its user saw. A grant
carries its bindings instead of their digest. The factory's calls may lose their
answers, a reservation may be delayed past its cancellation, and the issuer is
external. Apply jobs preview, admit, dispatch and finish against other updates of
the device; Video Cloud (external) applies the entitlement with the highest
revision. Log retention, PKI readiness and metadata are left out; the time window
of a run is its stop.

**Accounts and sessions.** A request makes its database step and then works
through `todo`, the calls its handler still has to make, among them the cache
commands, key by key. The cache has no expiry, so a late write stays. `apart` is a
history variable: the copies (of the user, of the credentials) that may differ
from the row, because the write that made them was overtaken by a change of the
row, a command failed, or the row was written past the cache. A write that is
current and a deletion that succeeds take a copy out again. Besides what the user
does, the account is suspended and given back by an administrator of an
organization (`DisableMemberUser`, `EnableMemberUser`) and provisioned for a brand
cloud at once (`ProvisionBrandCloudAccount`). A password is a number. `former` are
the sessions there were at the last change of the password or at the deletion,
`uses` counts redemptions. A mailed token, a login state and a refresh token are
consumed under their row's lock; the window of the rate limit never ends, which is
the strictest case. A login that checked the old password may save its token after
a reset: `SessionsEndWithPassword` is about the sessions that existed.

What the model shows of the cache beside this, all of it in the code: suspending a
member leaves the copies as they are (see below); giving an account back also
revives one that its user has deleted; provisioning a known account without rotating
its password caches the hash of the password given although the row keeps its own
(`usercache/store.go:92-104` with `brand_clouds.go:229`), and provisioning with
rotation ends no session.

**Administration.** A request of an administrator, an owner or a manager is
checked in the handler and carried out in the store; `past` holds the checks that
were passed, and a store operation that repeats its check does so in the model.
Lower-case operators are the handlers, upper-case ones the store's transactions,
the triggers of the migrations included. In `CloudMembers` a handoff is its fence
and its commit; in `CloudQuota` it is an offer, a reservation and the commit. The
permissions bound to roles, the second factor of the recovery, names, descriptions
and listings are left out.

Roles are rows of `role_assignments`, of which the model has those on the platform
(`assigned`), on the organizations (`bound`) and on the product (`grants`). Three
kinds of callers write them. The managers of a cloud or product do so through
memberships, invitations and collaborators, and the trigger
`sync_membership_role_assignment` keeps an organization's assignments with its
members. An administrator assigns any role on any scope (`acl_admin.go:138-164`,
`acl.go:475-504`), and a group mapping does the same at a sign-in
(`acl.go:727-776`): neither asks for a membership, an admission or a viewer's
ceiling, and both may give a product a second owner. An organization's managers
assign roles on their own scope (`acl_customer.go:74-127`), where the product's roles
are refused by name. The history variable `direct` holds the grants on the product
that came from an administrator or a mapping. `MembershipIsConsistent` is about the
others: what the product's managers have granted is backed by a membership or an
admission and within the ceiling, and one of them at most is the owner's. A direct grant
ends like any other when the member is removed or his ceiling changes. Left out are regions,
groups of devices and single devices as scopes, a role on a scope that is not its
own, `tenant_admin`, disabling roles other than the platform's, and an assignment
that names another organization than its scope's.

`MayRevoke` and `FullAdmins` do not ask whether the role `platform_admin` is itself
enabled (`076:28-29,55`): once an administrator is sealed the role cannot be disabled.

## Runs

| run | bounds | shows |
| --- | --- | --- |
| `direct_race` | 2 workers, 1 command, 2 attempts, 2 faults, fairness | attempts bounded, a completed operation has its inbox verdict, success was applied, a completed operation is opened again only after a fault and never by a publication, refinement of `DeliveryQueue`, every command is published or dead-lettered |
| `direct_device` | 1 worker with batches of 2; two provisions, deactivation, unprovision and entitlement snapshot of one device | a late result of an older activation never shows; nothing completes for a deleted device |
| `broker_duplicates` | 1 outbox worker, 2 inbox workers, 2 results, 1 fault | no result lost, operation, inbox and device agree |
| `hub_checkpoint` | 2 partitions, 3 events each of which the last cannot be decoded or is refused, rounds of 2, 2 crashes, 2 drops, fairness | the checkpoint never passes an open event; without a drop or such an event everything is settled |
| `presence` | 5 observations (equal times, another device), 2 handlers, a user's time or none | a live device shows the latest observation or statement, a disabled one `disabled` |
| `email_race` | 3 workers, 1 expiring mail, 2 attempts, 4 faults, fairness | copies cost faults, refinement of `DeliveryQueue`, the mail settles |
| `handoff` | 1 worker, 1 browser session, Billing and 1 producer, 1 balance, 2 faults, fairness | refinement of `AtomicHandoff`, a cancellation names the authorization, a decided handoff is carried out |
| `deletion` | 2 workers, 1 session, 1 key, Billing and 1 producer, 2 settlements, 2 changes of ownership, 1 change of members, 1 fault, fairness | the fence keeps the cloud empty and its owner, the tombstone says what Billing and the producers did, nobody lets go early, one command, no blockers at the end; what Billing closed is deleted, a cancellation ends |
| `claims` | 2 tokens with or without a product, 3 organizations (the product's brand cloud, another one, and one that is none), 2 operators, quota 1, 1 fault, 2 calls of users or foreign activations | a device is active only for the organization of its claim, a committed transfer keeps its fence, every fence can be derived until the claim is overtaken, a claim moves once, a provisioned device stays |
| `services` | 3 services with 2 versions, 2 runs of 1 certificate, 2 reservations, 2 jobs, 1 update; 8 starts with 4 to 14 calls | the catalogue is sound, a product agrees with its grant, a grant holds what the user saw, the run's quota holds, certificates are admitted, jobs do what their preview showed and end with their target in force |
| `accounts` | 2 requests at a time, 4 calls in all (changes of a provider or identity, expiry and logout count too), 3 mailed tokens, 1 login state, 2 refresh tokens, 2 passwords, 1 failing cache command | sessions need a verified address and end with the password, evidence is used once, the rate limit, a copy in the cache is current or its last write explains why not, of two first logins of an end user one wins |
| `clouds` | 4 accounts, 1 cloud with 1 product, 1 organization, 2 more clouds, limit 1, 1 recovery, 1 group; 12 starts with 5 to 12 calls | activation holds, what a product's managers grant and invite follows membership, limits on clouds, transfers and devices, keys apply once, the last owner and the last administrator stay, two-person rule |

Where one question has several parts the property is a conjunction of them, each
defined and explained beside it: `ResultsAgree`, `CheckpointIsSound`,
`RecordsAreSound`, `FenceIsSound`, `CatalogAndGrantsAgree`,
`FactoryWithinRun`, `SignInIsSound`, `MembershipIsConsistent` and `LimitsHold`. The
types of a module's variables are the first part of one of them, or proved.

Why the bounds are enough. The races of the channels need two holders of one row
(two workers), one stale and one current outcome (two attempts), and two of crash,
overrun and requeue in one behaviour (two faults); the activity check needs two
activation generations and one deactivation between them; the checkpoint needs a
partition that is ahead of another and an event behind an open one. The handoff's
races need an overrun lease or a lost answer against the source's cancellation,
which is always possible and costs nothing, and against the confirmations of the
users' sessions. A second worker on the job and a second balance are too much for
TLC together with liveness: that a late prepare finds the cloud aborted, and that
two workers on one operation agree, rests on the theorem `HandoffIsAtomic`, and
`WakesAreKept` and `GrantsHaveConsent` too hold for any number of both. The
deletion has two workers, one of which may go on without its lease, a second
settlement that voids the first, and an owner who comes back after a transfer. The
claims need two tokens for one device, since the fence belongs to the device and a
claim to its token, and two operators who saw the same claim, and a third
organization, since a cross-organization transfer between two brand clouds is
refused. The accounts need two requests at once for every race between a row and
its cached copy, and a third token for a rate limit of one. `services` and
`clouds` are many small races in one state space: each start of their MC modules
gives a number of calls to some of the parts (`calls`), long enough there for a
check, a change by somebody else, the use of the check and the repetition of the
call, and short elsewhere. `TypeOf`, `DeviceOf`, `OpOf` and the other constant
functions are arbitrary in the modules; the MC modules fix one device and name
operations after their types. Symmetry is used only in runs without liveness.
Deadlock is not checked because each of these instances has finitely much to do
and then stops.

Fairness. The workers are services that are restarted and poll for ever, and
time passes: weak fairness on each worker's own steps and on the end of delays
and leases. Nothing is assumed of the outcome of a call, of crashes (they are
bounded), of the operator, or of Video Cloud. In `handoff` and `deletion` Billing
completes a release it has accepted, and a lease that nobody uses ends; in
`deletion` a due job is also claimed by some worker in the end. The users, and
Billing's balance, may do nothing for ever, so the liveness properties start at
the verdict, the close and the cancellation.

## Where the code departs from its documents

Five behaviours that the documents or comments read otherwise.
The models have them, and the properties around them say how far they reach.

* *A completed operation may be opened again.* `RecordOutboxPublishTransition`
  protects it only in the branch of the published override. A direct call that is
  repeated (its first worker died after the inbox transaction) is answered with a
  new time; the result differs from the processed inbox row, the conflict is a
  transient error, and recording the retry writes `retrying` or `dead_lettered`
  over `succeeded`. The comment at `internal/store/outbox_worker.go:92` speaks of
  fixing the row "without rolling the operation backward".
  `RepairKeepsCompletion`: this takes a crash, an overrun lease or an operator,
  and a publication never does it.
* *A second verdict may replace the first.* The completed check of the inbox
  worker is outside the transaction (`internal/worker/inbox/service.go:229`), so
  two results with different ids, read before either is recorded, both complete
  the operation; `docs/spec.md:2742` calls the projection idempotent by operation
  id. `ResultsAgree`: operation, inbox and device
  agree on the verdict that came last.
* *No redelivery in a living process.* A retrying outcome is left unacknowledged
  so that the hub can redeliver it (`internal/worker/inbox/service.go:172`), but
  nothing rewinds the partition client: it is read again only after a restart.
  `CheckpointIsSound` and `SettledUnlessDisturbed`: the checkpoint never
  passes it, and without such an outcome or a dropped batch everything is settled.
* *A replay across a reset.* Two deliveries of one presence message pass the
  status check together (`internal/api/internal_device_presence.go:59`); if a
  provision resets presence between their transactions, the second applies an
  observation from before the reset. `PresenceIsLatest`: presence is a function of
  the observations since the reset, so without one the second changes nothing.
* *A suspended member stays in the cache.* `docs/spec.md:2660-2669` says the user
  cache is refreshed or deleted after successful writes, but
  `DisableMemberUser` and `EnableMemberUser` (`internal/store/store.go:1501-1556`)
  are not among the methods `usercache.Store` wraps, and the handlers
  (`internal/api/api.go:1419-1438`) do not touch the cache: the copy says "enabled"
  of a suspended account, and the other way round, until something else writes or
  deletes it. `CacheIsCurrent`: that, a late write and a failed command are the only
  ways a copy differs from its row at rest.

## Proofs

| module | theorem | says |
| --- | --- | --- |
| `DirectLifecycle_proofs` | `TypeCorrect` | `Spec => []TypeOK` |
| | `AttemptsAreBounded` | `Spec => []AttemptsBounded` |
| | `PublishedRowsAreFinal` | `Spec => PublishedIsFinal` |
| | `CompletionIsTheInboxVerdict` | `Spec => []CompletionMatchesInbox` |
| | `SuccessIsReal` | `Spec => []SucceededOnlyIfApplied` |
| | `DirectImplementsQueue` | `Spec => ImplementsQueue` |
| | `DeletedDevicesCompleteNothing` | `Spec => DeletedDeviceCompletesNothing` |
| | `ProjectionIsCurrent` | `Spec => []ProjectionOfCurrentActivity` |
| | `RepairsKeepCompletion` | `Spec => RepairKeepsCompletion` |
| `BrokerLifecycle_proofs` | `ResultsAreKept` | `Spec => []NoResultLost` |
| | `ResultsAlwaysAgree` | `Spec => []ResultsAgree` |
| `Messages_proofs` | `EmailAttemptsAreBounded` | `Spec => []AttemptsBounded` |
| | `EmailImplementsQueue` | `Spec => ImplementsQueue` |
| | `CopiesArePaidFor` | `Spec => []CopiesCostFaults` |
| | `PresenceCorrect` | `PresenceSpec => []PresenceIsLatest` |
| | `CheckpointsAreSound` | `HubSpec => []CheckpointIsSound` |
| `OwnershipHandoff_proofs` | `GrantsHaveConsent` | `Spec => []GrantHasConsent` |
| | `CancellationsNameGrants` | `Spec => []CancellationNamesGrant` |
| | `WakesAreKept` | `Spec => []WakeIsKept` |
| | `HandoffIsAtomic` | `Spec => ImplementsAtomicHandoff` |
| `CloudDeletion_proofs` | `DeletionRecordsAreSound` | `Spec => []RecordsAreSound` |
| | `TombstonesAreFinal` | `Spec => []TombstoneIsFinal` |
| | `ParticipantsWait` | `Spec => []NobodyLetsGoEarly` |
| `Devices_proofs` | `ActiveForItsOwner` | `Spec => []ActivatedWhereOwned` |
| | `FencesAreSound` | `Spec => []FenceIsSound` |
| | `ClaimedDevicesStay` | `Spec => DevicesStay` |
| | `CatalogAndGrantsHold` | `ServicesSpec => []CatalogAndGrantsAgree` |
| | `FactoryHolds` | `ServicesSpec => []FactoryWithinRun` |
| | `CompletedJobsAreApplied` | `ServicesSpec => []CompletedIsApplied` |
| | `GrantsAreWhatWasSeen` | `ServicesSpec => GrantIsWhatWasSeen` |
| | `BatchesAreAsPreviewed` | `ServicesSpec => []BatchIsAsPreviewed` |
| `Administration_proofs` | `PlatformKeepsAnAdmin` | `Spec => AdminStays` |
| | `RecoveryTakesTwo` | `Spec => TwoPersonRule` |
| | `LimitsAlwaysHold` | `Spec => []LimitsHold` |
| | `MembershipStaysConsistent` | `Spec => []MembershipIsConsistent` |
| | `OrganizationsKeepAnOwner` | `Spec => LastOwnerStays` |
| `AccountSessions_proofs` | `NobodySlipsIn` | `Spec => []SignInIsSound` |
| | `PasswordsEndSessions` | `Spec => []SessionsEndWithPassword` |
| | `CacheAgreesAtRest` | `Spec => []CacheIsCurrent` |

They hold for any number of workers, devices, operations, mails, messages,
attempts, results, deliveries, partitions, events, producers, sessions, balances,
tokens, accounts, clouds, requests, services, runs and jobs, and for any number of
calls. `Messages_proofs` holds the proofs of three modules that share nothing,
`EmailOutbox`, `PresenceProjection` and `EventHubConsumer`, and `Devices_proofs`
those of two more, `DeviceClaims` and `ProductServices` with its `ServiceCatalog`.

**Assumptions.** Most only type the constants, keep the names for "none" apart from
the values they stand beside, or tie a result's id to its operation:
`StoreAssumption`, `UnprovisionIdAssumption`, `WorkerAssumption`,
`ResultAssumption`, `PresenceAssumption`, `EmailAssumption`, `ConsumerAssumption`,
`HandoffAssumption`,
`DeletionAssumption`, `ClaimsAssumption`, `AdminAssumption`,
`QuotaAssumption`, `NamesAssumption`. Some say more:

* Sets whose members are counted are finite: the clouds, the accounts, the
  requests, the mailed tokens and the enrollments. They are rows of a table or requests of a
  process.
* `BoundsAssumption` has a rate limit of at least one, since
  `ConfigureAuthTokenRateLimit` ignores any other value.
* `StartsAssumption` and `MembersAssumption` say of an initial situation of
  `Administration` what the tables enforce: foreign keys lead to accounts, a
  viewer and nobody else has a scope and only a brand cloud has viewers (constraint
  and trigger of migration 054), a brand cloud has exactly one owner (051, 052).

* `CatalogAssumption` has manifests that `ValidatePlatformServiceRegistration`
  accepts, since the handler refuses any other, and says of a start that the
  services already known, `mqtt` among them, each have a manifest of their own code
  to start from. `ProductAssumption` has a quantity of at least one
  (`validateProductionRunCreate`) and keeps jobs, updates and the provisioning
  apart.

Every inductive invariant below was also checked by TLC on the run's instance
before its proof, `DeletionInv` on two operations and two producers as well and
`NamedInv` on two provisions of one device.

**The arguments.**

* *Attempts.* `AttemptsBounded` speaks of rows, but the next count is computed
  from a worker's copy. The invariant adds that every held copy has an attempt
  left. A copy may be older than the row, so nothing relates the two counts
  otherwise.
* *Published is final.* A held copy has status pending or retrying, so the
  comparison with a published row fails and the override does not apply to it;
  the invariant adds that operations and rows come into being together and that
  every held copy belongs to an existing row.
* *Completion.* The verdict of an inbox row never changes once the row exists,
  and an agent past `create` carries the verdict of the row. So whichever agent
  records, and however many do, the operation gets the row's verdict.
* *Success.* A verdict of success in flight or stored implies that the command
  was applied, and `applied` is never taken back.
* *Refinement.* Every worker step is a step of `DeliveryQueue` or a stutter.
  That a confirmation follows an arrival needs: a published row's command was
  answered, and so was one whose worker is about to record `ok`.
* *The device.* What is shown was projected by the transaction that processed the
  result, which compares the activity. `ResultsExist` adds that a result on its
  way or in the inbox is of an operation that exists, so its row keeps the activity
  it was compared with.
* *Repairs.* `WithoutFaults` holds until the first crash, overrun or requeue: the
  lease covers whoever holds a message (`LeaseCovers`), nobody waits to publish a
  completed operation again (`ClaimedIsOpen`), and the publication of a completed
  one is recorded or about to be. The proof attempt showed that the property was
  first stated too strongly: a requeue can reopen an operation whose publication is
  under way without anything having gone wrong before, and TLC found that behaviour
  on a larger instance. The property now counts the requeue itself as the fault.
* *Results of a broker.* `StreamInv` says what an inbox worker knows
  (`AgentKnows`): it carries the verdict that was sent, from the second transaction
  on the inbox has the row with that verdict, and when it is about to acknowledge,
  the row is settled, or reopened, or there is another delivery of it to come. The
  last two cases are the operator's. `lifecycle-admin` reopens the dedupe row and
  nothing else (`OperatorReopens`): a message that was acknowledged stays so, and the
  tool says that it has to be replayed (`cmd/lifecycle-admin/main.go:253`). Between
  the two the row is open and nobody will deliver it; `reopened` marks the rows in
  this state and `NoResultLost` excepts them until the replay (`OperatorReplays`), a
  step of its own that may come late or never. That a delivery once taken is not the
  new one follows from the numbers of the deliveries.
* *Agreement with a broker.* A completed operation got its status in the transaction
  that settled a result with that verdict, and a settled result that is not
  malformed stays settled. For what the device shows, `NamedInv` adds that the
  command of a provision carries the activity of its request from its creation on
  and no activity before, so a result of another provision is recognized as stale.
  The proof attempt showed that `SuccessIsShown` was stated too strongly: the
  activity id is chosen by the caller (`internal/api/provisioning.go:140`), and two
  provisions of one device that name the same activity are one activation to the
  device, which then shows the later request or result. The property now excludes
  them (`SharesActivity`).
* *The checkpoint.* `ConsumerInv`: a tracker holds exactly the events between what is
  committed and what was read, in order, and an acknowledged one is settled; the
  file, the map and the trackers' committed numbers each cover settled events only.
  The map has to be in it because one partition's checkpoint writes the whole map,
  which after an unreadable file is behind the file and may move it back.
* *Presence.* `PresenceIsLatest` is inductive with the types.
* *Email.* The held items have attempts left, exist, and an item whose result is
  `ok` is of a mail that was accepted. For `CopiesArePaidFor` the chances of a copy
  are counted (`ChancesCounted`): copies sent, workers that may still send one or
  hand the mail back, and the row if it can be claimed, are together at most one
  more than the faults. A claim moves a chance from the row to a worker, a delivery
  spends it, a retry moves it back, and only a fault makes one.
* *The grant.* `GrantHasConsent` speaks of Billing and of stored confirmations
  only. `GrantInv` adds what ties them: a worker between the commit request and
  the swap carries the balance of that request, the request exists once and has
  both confirmations, and after a cancellation there is no new request. So an
  authorization that arrives late is still for the balance the cancellation
  names.
* *The handoff.* `HoldInv` says that the phase tells the verdict, that nobody
  lets go without one (an aborted hold means canceled, a released one committed),
  that whoever has an acknowledged preparation has taken its hold and a recorded
  release is true and stays true, and what a worker at each point of its step has
  seen or is about to do. A late prepare finds either a hold or a tombstone. Then
  every step maps to a step of `AtomicHandoff` or to a stutter.
* *The deletion.* The worker beyond its lease writes what it learnt before, so
  `DeletionInv` has one part for each worker's place (`LocalInv`: what it carries is
  still true of Billing and the producers), one for the stored evidence
  (`EvidenceInv`: retired commands are retired at Billing, receipts are of holds,
  releases of released holds, one command at most is outstanding, and it is the one
  Billing obeyed if it closed), and one for what the phase says (`PhaseInv`). All of
  it is about facts that Billing and the producers never take back, which is why a
  late step cannot make it false.
* *Claims.* `ClaimInv` adds to the properties what an operator request knows while
  it holds the rows (`OperatorKnows`: between the reservation and the commit its
  fence stands and nothing is active) and what an activation on its way names
  (`RequestIsKnown`: the committed generation and its owner, or no generation). The
  second is what stops a late activation by the former owner. A moved claim cannot be
  unprovisioned, so the device of a committed transfer is there.
* *The catalogue.* A manifest is checked beside what the others have published, once
  when it is registered and again when it is published. `NewOffers` shows that this
  is enough: what is published afterwards is unique, closed and acyclic. The
  invariant adds that only a registered service has manifests (`Registered`). What a
  code requires is the least set closed under requirements (`Closure`), so that
  nothing is proved by recursion.
* *The listing.* `ListingHolds` says that while the revision is the one the user
  listed, nothing can be selected that was not listed. The proof goes through every
  step of the registry: it moves the revision, or takes away. A lease that lapses
  moves nothing and takes away; its return is noticed (`Noticed`) and moves the
  revision. So a grant holds what was seen.
* *The factory.* `Places` are the requests of a run that may have, or may still get,
  a certificate: the issued and the pending ones, cancelled or not. They are never
  more than the quantity, because a reservation counts both (`PlacesCount`), a
  cancellation gives none back and the issuer's evidence only moves one.
  `RequestIsSound` ties each row to the issuer, which hears of admitted requests
  only and fences before it answers "not issued".
* *The device and its jobs.* `DeviceInv` says that an operation has one snapshot and
  that one that succeeded is not newer than what is in force. Revisions in force only
  grow, so a completed job stays applied. That one job is active at most is proved as
  "two active jobs are the same". `BatchIsAsPreviewed` compares every snapshot a job
  has written, for as long as it exists, with what its preview showed.
  `JobsAreAsPreviewed` adds what is known of a job before that: it was admitted with
  what was shown, and the entitlement shown was applied by then; the baseline that
  the dispatch looks at again tells whether the device is still there.
* *Administration.* `AdminStays` needs no invariant: the trigger looks at the tables
  as the statement leaves them, and the proof goes through every way in which an
  administrator can stop being one. The two-person rule rests on `RecoveryInv`: no
  two approvals share a principal or a role, and nobody named in the recovery
  approves it. The limits rest on reservations that are counted with the clouds
  (`Places`) and on the allowance under which a transfer was accepted. Membership
  rests on the single owner of a cloud (`OwnerInv`) and on what a product role is
  backed by (`IsBacked`, over `grants \ direct`): a direct grant may stand beside the
  managers' and be raised, demoted or inherited with them, and the proof follows it
  through each. `AssignSteps` reduces every assignment, by an administrator, a
  mapping or a customer, to what it adds to or takes from the three sets, so that
  each property is shown for it once.
* *Accounts.* `SessionInv` says for every point of every handler what the request
  has seen and what it still has to do (`ReqInv`). The types, evidence and
  sessions follow from what a request at that point knows. For the password the
  lock counts: a renewal under way holds the user's row and its token is live
  (`LockInv`), so what ends sessions waits for it. For the cache a copy that
  differs from the row has a request that will still remove or replace it
  (`WillFix`), or is in `apart`. The rate limit counts rows together with the
  requests that have counted and not yet inserted.

**Only model-checked.** Liveness: `MessageSettles`, `MailSettles`,
`SettledUnlessDisturbed` and both `DecisionIsCarriedOut`. They need fairness and
ENABLED, which are out of the prover's reach. Every other property of a run is also
a theorem.

## Not modelled

* Envelope validation and encoding (`internal/channel`): a payload is valid or
  malformed. Pure functions over text, covered by their unit tests.
* The development brokers (`internal/broker/broker.go`, `log.go`): no
  acknowledgement of their own.
* The OTA period seal: one read-only aggregation and one idempotent call.
* The Billing bootstrap: a leased queue without an attempt limit, whose promise is
  that of `DeliveryQueue`; the outbox and the email queue are the harder cases.
* Job authorizations, test lab, PKI and application certificates: single
  transactions behind an authorization check; issuance itself is external.
* Configuration, readiness, logging, migrations (their triggers are in the models
  of the tables they guard), routing, metrics, listings and other read models.
* Inside the modelled parts: the cryptography and formats of tokens, the protocols
  of identity providers, the contents of mails, the permissions bound to roles,
  names and descriptions, log retention.

## Plan

Every invariant and action property the runs check is proved. What is left is to
model more: the parts listed as partly modelled or not modelled, of which the
billing bootstrap and job authorizations are the ones with behaviour of their own.
