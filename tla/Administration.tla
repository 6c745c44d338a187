--------------------------- MODULE Administration ---------------------------
(***************************************************************************)
(* The administrators of the platform, the members of a cloud and of an    *)
(* organization, and the limits on clouds and devices, over the same       *)
(* accounts and the same checked requests.  The clouds of CloudQuota come  *)
(* beside the one whose members CloudMembers has.                          *)
(***************************************************************************)
EXTENDS CloudMembers, CloudQuota

vars == <<left, past, users, adminVars, memberVars, quotaVars>>

\* The types of the variables.
TypeOK ==
  /\ AdminTypeOK /\ MembersTypeOK /\ QuotaTypeOK
  /\ past \subseteq Checks

Init == \E start \in Starts : AdminInit(start) /\ MembersInit(start) /\ QuotaInit

Next ==
  \/ AdminNext /\ UNCHANGED <<memberVars, quotaVars>>
  \/ MembersNext /\ UNCHANGED <<adminVars, quotaVars>>
  \/ AssignNext /\ UNCHANGED quotaVars
  \/ QuotaNext /\ UNCHANGED memberVars

Spec == Init /\ [][Next]_vars

-----------------------------------------------------------------------------
(* Properties.                                                             *)

\* Memberships and what hangs on them never come apart: holds, admissions, roles on
\* the product and pending invitations end with the row, the role or the owner they
\* depend on, whichever handler or trigger changes it (migrations 051, 053 and 054).
MembershipIsConsistent == TypeOK /\ HoldIsOurs /\ GrantsFollowMembership /\ PendingIsLive

\* No limit is passed in any order of creations, offers, takeovers, retries and
\* approvals: clouds of one owner, transfers of one cloud, writes of one key and
\* the device quota (countCloudQuotaUsageTx, checkOwnerTransferQuota,
\* writeManagedBrandCloud, DecideQuotaRaiseRequest).
LimitsHold == LimitHolds /\ AllowanceHolds /\ AppliedOnce /\ QuotaIsApproved
=============================================================================
