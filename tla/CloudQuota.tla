----------------------------- MODULE CloudQuota -----------------------------
(***************************************************************************)
(* How many brand clouds a user may own: creation by its owner, with an    *)
(* idempotency key, by an administrator and by the bootstrap of the        *)
(* platform, and the transfers that reserve a place before they use it     *)
(* (managed_cloud_writes.go, brand_clouds.go, ownership_handoff.go); and   *)
(* the device quota of the evaluation organization (eval_tier.go).         *)
(*                                                                         *)
(* Nothing but tests changes a user's limit, so it is a constant.  The     *)
(* name and the description of a cloud are left out: a write is counted,   *)
(* and a repeated one only answers.                                        *)
(***************************************************************************)
EXTENDS PlatformAdmin

CONSTANTS
  Clouds,
  Keys,          \* idempotency keys
  Limit,         \* users.developer_cloud_limit
  Transfers,     \* values of organizations.owner_transfer_limit
  FirstTransfers,\* its default
  QuotaRequests, \* quota_raise_requests
  Amounts,       \* quotas asked for and approved; 0 approves what was asked
  BaseQuota, MaxQuota

ASSUME QuotaAssumption ==
  /\ IsFiniteSet(Clouds)
  /\ Limit \in Nat \ {0} /\ Transfers \subseteq Nat /\ FirstTransfers \in Transfers
  /\ BaseQuota \in Nat /\ MaxQuota \in Nat /\ BaseQuota <= MaxQuota /\ Amounts \subseteq Nat

VARIABLES
  clouds,    \* the brand clouds
  offers,    \* pending brand_cloud_owner_transfers
  receipts,  \* managed_cloud_write_receipts: the cloud each write was made on
  writes,    \* how often each write was made
  asked,     \* quota_raise_requests
  quota      \* organizations.evaluation_device_quota

quotaVars == <<clouds, offers, receipts, writes, asked, quota>>

Create == "create"  \* the scope of a write that creates a cloud
Writes == Users \X (Clouds \cup {Create}) \X Keys
\* "granted" is the transfer limit when the last transfer was accepted.
NoCloud == [owner |-> NoUser, version |-> 0, active |-> FALSE, target |-> NoUser, allowed |-> 0, granted |-> 0]
NoReceipt == [cloud |-> Create, version |-> 0]
NoRequest == [status |-> "none", amount |-> 0, granted |-> 0]

QuotaTypeOK ==
  /\ \A c \in Clouds : /\ clouds[c].owner \in known \cup {NoUser} /\ clouds[c].target \in known \cup {NoUser}
                       /\ clouds[c].version \in Nat /\ {clouds[c].allowed, clouds[c].granted} \subseteq Nat
  /\ \A o \in offers : o.cloud \in Clouds /\ {o.by, o.target} \subseteq known
  /\ \A w \in Writes : receipts[w].cloud \in Clouds \cup {Create} /\ writes[w] \in Nat
  /\ \A q \in QuotaRequests : asked[q].status \in {"none", "pending", "approved", "declined"}
  /\ quota \in BaseQuota..MaxQuota

QuotaInit ==
  /\ clouds = [c \in Clouds |-> NoCloud] /\ offers = {}
  /\ receipts = [w \in Writes |-> NoReceipt] /\ writes = [w \in Writes |-> 0]
  /\ asked = [q \in QuotaRequests |-> NoRequest] /\ quota = BaseQuota

-----------------------------------------------------------------------------
(* The places of a user.                                                   *)

Owned(u) == {c \in Clouds : clouds[c].owner = u}
Reserved(u) == {c \in Clouds : clouds[c].target = u}

\* countCloudQuotaUsageTx
OwnedOnly(u) == Cardinality(Owned(u))
Usage(u) == Cardinality(Owned(u)) + Cardinality(Reserved(u))

IsActivated(u) == u \in enabled \cap verified
MayOwnMore(u) == IsActivated(u) /\ Usage(u) < Limit

\* requireBrandCloudOwnerTx, for a cloud without other members.
OwnsCloud(u, c) ==
  /\ clouds[c].owner = u /\ clouds[c].active /\ clouds[c].target = NoUser /\ IsActivated(u)

NewCloud(u) == [NoCloud EXCEPT !.owner = u, !.version = 1, !.active = TRUE, !.allowed = FirstTransfers]

\* createDeveloperBrandCloudTx, where the limit is enforced.
CreateDeveloperBrandCloud(c, u) ==
  clouds[c] = NoCloud /\ MayOwnMore(u) /\ clouds' = [clouds EXCEPT ![c] = NewCloud(u)]

CreateBrandCloud(c, u) ==
  /\ CreateDeveloperBrandCloud(c, u)
  /\ UNCHANGED <<users, roleVars, recovery, offers, receipts, writes, asked, quota>>

createBrandCloud(c, u) == Spend("quota") /\ Proceed("admin") /\ CreateBrandCloud(c, u)

\* The first administrator gets a cloud whatever its limit, once.
BootstrapPlatformAdmin(c, u) ==
  /\ Spend("quota") /\ ~sealed
  /\ sealed' = TRUE
  /\ IF IsInstalled THEN UNCHANGED <<users, flag, assigned, clouds>>
     ELSE /\ u \notin known /\ "platform_admin" \notin disabledRoles /\ clouds[c] = NoCloud
          /\ EnsurePlatformAdmin(u) /\ clouds' = [clouds EXCEPT ![c] = NewCloud(u)]
  /\ UNCHANGED <<past, revoked, disabledRoles, mappings, recovery, offers, receipts, writes, asked, quota>>

-----------------------------------------------------------------------------
(* Writes with an idempotency key (writeManagedBrandCloud).                *)

\* A write with a receipt is not made again: it answers, or is refused when
\* the caller or the ownership has changed.
IsReplay(u, scope, key) == receipts[<<u, scope, key>>] # NoReceipt

WriteManagedBrandCloud(u, scope, key, c, version) ==
  /\ IsActivated(u) /\ ~IsReplay(u, scope, key)
  /\ receipts' = [receipts EXCEPT ![<<u, scope, key>>] = [cloud |-> c, version |-> version]]
  /\ writes' = [writes EXCEPT ![<<u, scope, key>>] = @ + 1]

CreateManagedBrandCloud(u, key, c) ==
  /\ WriteManagedBrandCloud(u, Create, key, c, 1) /\ CreateDeveloperBrandCloud(c, u)
  /\ UNCHANGED <<past, users, adminVars, offers, asked, quota>>

createDeveloperBrandCloud(u, key, c) == Spend("quota") /\ CreateManagedBrandCloud(u, key, c)

UpdateManagedBrandCloud(u, key, c) ==
  /\ OwnsCloud(u, c)
  /\ WriteManagedBrandCloud(u, c, key, c, clouds[c].version)
  /\ UNCHANGED <<past, users, adminVars, clouds, offers, asked, quota>>

updateDeveloperBrandCloud(u, key, c) == Spend("quota") /\ UpdateManagedBrandCloud(u, key, c)

-----------------------------------------------------------------------------
(* Transfers: accepting an offer reserves a place, the commit uses it.     *)

\* ownerTransferQuota counts the committed decisions, one for each version.
OwnerTransferUsed(c) == clouds[c].version - 1
CheckOwnerTransferQuota(c) == OwnerTransferUsed(c) < clouds[c].allowed

\* handoffVersion: the source owns the cloud, the target is in good standing.
HandoffVersion(c, source, target) == OwnsCloud(source, c) /\ target # source /\ IsActivated(target)

CreateBrandCloudOwnerTransfer(c, target) ==
  LET source == clouds[c].owner
  IN  /\ clouds[c] # NoCloud
      /\ HandoffVersion(c, source, target) /\ CheckOwnerTransferQuota(c)
      /\ offers' = offers \cup {[cloud |-> c, by |-> source, target |-> target, version |-> clouds[c].version]}
      /\ UNCHANGED <<past, users, adminVars, clouds, receipts, writes, asked, quota>>

createBrandCloudOwnerTransfer(c, target) == Spend("quota") /\ CreateBrandCloudOwnerTransfer(c, target)

AcceptOwnerHandoff(offer) ==
  LET c == offer.cloud
  IN  /\ HandoffVersion(c, offer.by, offer.target) /\ offer.version = clouds[c].version
      /\ CheckOwnerTransferQuota(c) /\ MayOwnMore(offer.target)
      /\ clouds' = [clouds EXCEPT ![c].target = offer.target, ![c].granted = clouds[c].allowed]
      /\ offers' = offers \ {offer}
      /\ UNCHANGED <<past, users, adminVars, receipts, writes, asked, quota>>

acceptBrandCloudOwnerTransfer(offer) == Spend("quota") /\ AcceptOwnerHandoff(offer)

\* The limit is not looked at again: the transfer has been let in.
CommitTransfer(c) ==
  LET target == clouds[c].target
  IN  /\ Spend("quota") /\ target # NoUser
      /\ clouds[c].active /\ IsActivated(target) /\ IsActivated(clouds[c].owner) /\ Usage(target) <= Limit
      /\ clouds' = [clouds EXCEPT ![c].owner = target, ![c].target = NoUser, ![c].version = @ + 1]
      /\ UNCHANGED <<past, users, adminVars, offers, receipts, writes, asked, quota>>

\* An accepted transfer gives its place back when its cancellation has ended,
\* an offer is cancelled at once (cancelOwnerHandoff).
CancelTransfer(c) ==
  /\ Spend("quota") /\ clouds[c].target # NoUser
  /\ clouds' = [clouds EXCEPT ![c].target = NoUser]
  /\ UNCHANGED <<past, users, adminVars, offers, receipts, writes, asked, quota>>

CancelOffer(offer) ==
  /\ IsActivated(offer.by) /\ offers' = offers \ {offer}
  /\ UNCHANGED <<past, users, adminVars, clouds, receipts, writes, asked, quota>>

cancelBrandCloudOwnerTransfer(offer) == Spend("quota") /\ CancelOffer(offer)

SetOwnerTransferLimit(c, limit) ==
  /\ clouds[c] # NoCloud
  /\ clouds' = [clouds EXCEPT ![c].allowed = limit]
  /\ UNCHANGED <<users, adminVars, offers, receipts, writes, asked, quota>>

updateOwnerTransferLimit(c, limit) == Spend("quota") /\ Proceed("admin") /\ SetOwnerTransferLimit(c, limit)

-----------------------------------------------------------------------------
(* The quota of the evaluation tier.                                       *)

CreateQuotaRaiseRequest(q, amount) ==
  /\ asked[q] = NoRequest
  /\ amount > 0 /\ amount <= MaxQuota
  /\ asked' = [asked EXCEPT ![q] = [NoRequest EXCEPT !.status = "pending", !.amount = amount]]
  /\ UNCHANGED <<past, users, adminVars, clouds, offers, receipts, writes, quota>>

createQuotaRaiseRequest(q, amount) == Spend("raises") /\ CreateQuotaRaiseRequest(q, amount)

Lower(a, b) == IF a < b THEN a ELSE b
ApprovedLimit(q, amount) == Lower(IF amount = 0 THEN asked[q].amount ELSE amount, MaxQuota)

\* An approval never lowers the quota.
ApprovedQuota(limit) == IF limit > quota THEN limit ELSE quota

DecideQuotaRaiseRequest(q, approved, amount) ==
  LET limit == ApprovedLimit(q, amount)
  IN  /\ asked[q].status = "pending"
      /\ asked' = [asked EXCEPT ![q].status = IF approved THEN "approved" ELSE "declined",
                                ![q].granted = IF approved THEN limit ELSE 0]
      /\ quota' = IF approved THEN ApprovedQuota(limit) ELSE quota
      /\ UNCHANGED <<users, adminVars, clouds, offers, receipts, writes>>

decideQuotaRaiseRequest(q, approved, amount) ==
  Spend("raises") /\ Proceed("admin") /\ DecideQuotaRaiseRequest(q, approved, amount)

QuotaNext ==
  \/ \E c \in Clouds, u \in Users : BootstrapPlatformAdmin(c, u)
  \/ \E c \in Clouds, u \in known :
       \/ createBrandCloud(c, u) \/ createBrandCloudOwnerTransfer(c, u)
       \/ \E key \in Keys : createDeveloperBrandCloud(u, key, c) \/ updateDeveloperBrandCloud(u, key, c)
  \/ \E offer \in offers : acceptBrandCloudOwnerTransfer(offer) \/ cancelBrandCloudOwnerTransfer(offer)
  \/ \E c \in Clouds : CommitTransfer(c) \/ CancelTransfer(c)
  \/ \E c \in Clouds, limit \in Transfers : updateOwnerTransferLimit(c, limit)
  \/ \E q \in QuotaRequests, amount \in Amounts :
       \/ createQuotaRaiseRequest(q, amount)
       \/ \E approved \in BOOLEAN : decideQuotaRaiseRequest(q, approved, amount)

-----------------------------------------------------------------------------
(* Whatever order clouds are created, offered and taken over in, nobody    *)
(* owns and has reserved more of them than the limit allows                *)
(* (countCloudQuotaUsageTx, acceptOwnerHandoff, validateHandoffCommitTx).  *)
LimitHolds ==
  \A u \in Users : Cardinality({c \in Clouds : u \in {clouds[c].owner, clouds[c].target}}) <= Limit

(* A cloud changes hands no more often than the limit in force when the    *)
(* transfer was accepted allows (checkOwnerTransferQuota), whichever       *)
(* offers were pending when the limit was lowered or used up.              *)
AllowanceHolds == \A c \in Clouds : OwnerTransferUsed(c) <= clouds[c].granted

(* A key writes once (writeManagedBrandCloud): a retry after the cloud has *)
(* gone to another owner, and perhaps come back, neither creates a second  *)
(* cloud nor repeats the change.                                           *)
AppliedOnce == \A w \in Writes : writes[w] <= 1

(* The quota is the largest limit any approval gave, in whatever order the *)
(* approvals came, and never beyond the maximum (DecideQuotaRaiseRequest). *)
QuotaIsApproved ==
  LET limits == {BaseQuota} \cup {asked[q].granted : q \in {r \in QuotaRequests : asked[r].status = "approved"}}
  IN  quota \in limits /\ \A limit \in limits : limit <= quota
=============================================================================
