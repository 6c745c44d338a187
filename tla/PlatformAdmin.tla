--------------------------- MODULE PlatformAdmin ---------------------------
(***************************************************************************)
(* Who administers the platform: the accounts and their platform roles,    *)
(* the guard that keeps one administrator (migration 076), the mapping of  *)
(* external groups to roles of any scope (acl.go), and the recovery of an  *)
(* administrator by two independent approvals (admin_recovery.go).  The    *)
(* operations that assign and revoke roles are in CloudMembers, which has  *)
(* the other scopes.                                                       *)
(*                                                                         *)
(* A request of an administrator is checked when it arrives                *)
(* (requirePlatformAdmin) and works on the store later, so the check and   *)
(* the work are two steps.  The permissions bound to a role and the        *)
(* optional second factor of the recovery are left out; "pki_auditor" only *)
(* reads.                                                                  *)
(***************************************************************************)
EXTENDS Integers, FiniteSets

CONSTANTS
  Users, NoUser,
  Recoveries,  \* keys of recovery requests
  Groups,      \* groups of the external identity provider
  Starts       \* initial situations, with the calls each part may still make

ASSUME AdminAssumption == IsFiniteSet(Users) /\ NoUser \notin Users

PlatformRoles == {"platform_admin", "pki_admin", "security_custodian"}
ProductRoles == {"owner", "editor", "viewer"}
ManagerRoles == {"owner", "admin"}  \* of a member, those with a permission to manage
Orgs == {"cloud", "org"}

\* What an assignment and a mapping give: a role, and the scope it holds on.
Targets == ({"platform"} \X PlatformRoles) \cup ({"product"} \X ProductRoles) \cup (Orgs \X ManagerRoles)

\* A situation is one the tables allow: their foreign keys lead to accounts.
ASSUME StartsAssumption ==
  \A start \in Starts :
    /\ start.known \subseteq Users /\ start.verified \subseteq start.known
    /\ start.flag \subseteq start.known /\ start.assigned \subseteq start.known \X PlatformRoles
    /\ start.sealed \in BOOLEAN

VARIABLES
  left,           \* calls each part may still make: the bound of the model
  past,           \* checked requests that have not reached the store
  known, enabled, verified,  \* accounts
  flag,           \* users.platform_admin
  assigned,       \* active platform-wide role assignments
  revoked,        \* disabled assignments of platform_admin, by user
  disabledRoles,  \* disabled roles
  sealed,         \* the bootstrap is sealed
  mappings,       \* external_group_mappings
  recovery        \* platform_admin_recovery and its approvals

users == <<known, enabled, verified>>
roleVars == <<flag, assigned, revoked, disabledRoles, sealed, mappings>>
adminVars == <<roleVars, recovery>>

NoRecovery == [status |-> "none", by |-> NoUser, target |-> NoUser, approvals |-> {}, late |-> FALSE]

AdminTypeOK ==
  /\ enabled \subseteq known /\ verified \subseteq known /\ known \subseteq Users
  /\ flag \subseteq known /\ assigned \subseteq known \X PlatformRoles
  /\ revoked \in [Users -> Nat] /\ disabledRoles \subseteq PlatformRoles
  /\ sealed \in BOOLEAN /\ mappings \subseteq Groups \X Targets
  /\ \A r \in Recoveries :
       /\ recovery[r].status \in {"none", "requested", "completed", "cancelled"}
       /\ recovery[r].status # "none" => recovery[r].target \in known \ {recovery[r].by}
       /\ recovery[r].approvals \subseteq known \X PlatformRoles

AdminInit(start) ==
  /\ left = start.calls /\ past = {}
  /\ known = start.known /\ enabled = known /\ verified = start.verified
  /\ flag = start.flag /\ assigned = start.assigned /\ sealed = start.sealed
  /\ revoked = [u \in Users |-> 0] /\ disabledRoles = {} /\ mappings = {}
  /\ recovery = [r \in Recoveries |-> NoRecovery]

Spend(part) == left[part] > 0 /\ left' = [left EXCEPT ![part] = @ - 1]

-----------------------------------------------------------------------------
(* Platform administrators.                                                *)

IsPlatformAdmin(u) == u \in flag \cap enabled \cap verified

\* The middleware looks at the flag of the account, not at its assignments.
RequirePlatformAdmin ==
  /\ Spend("checks") /\ "admin" \notin past /\ \E u \in Users : IsPlatformAdmin(u)
  /\ past' = past \cup {"admin"}
  /\ UNCHANGED <<users, adminVars>>

\* A request goes on with the rights it was checked for.
Proceed(check) == check \in past /\ past' = past \ {check}

FullAdmins == {u \in Users : IsPlatformAdmin(u) /\ <<u, "platform_admin">> \in assigned}

\* protect_last_platform_admin, once the bootstrap is sealed.
SurvivesByFlag(u) == \E v \in Users \ {u} : IsPlatformAdmin(v)
Survives(u) == FullAdmins \ {u} # {}
MayDisable(u) == sealed /\ IsPlatformAdmin(u) => Survives(u)
MayRevoke(u, role) == sealed /\ role = "platform_admin" => Survives(u)

\* An account with the flag and the role, created or made so.
EnsurePlatformAdmin(u) ==
  /\ known' = known \cup {u} /\ enabled' = enabled \cup {u} /\ verified' = verified \cup {u}
  /\ flag' = flag \cup {u} /\ assigned' = assigned \cup {<<u, "platform_admin">>}

\* BootstrapPlatformAdmin: some account is or was an administrator.
IsInstalled == \/ flag # {}
               \/ \E u \in Users : <<u, "platform_admin">> \in assigned \/ revoked[u] > 0

\* GetRoleByName finds no disabled role.  Only platform roles are ever disabled here.
IsLiveRole(t) == t[1] = "platform" => t[2] \notin disabledRoles

\* Calls about platform roles and about the others are counted apart.
AclPart(t) == IF t[1] = "platform" THEN "acl" ELSE "scoped"

DisableRole(role) ==
  /\ role \notin disabledRoles /\ (sealed => role # "platform_admin")
  /\ disabledRoles' = disabledRoles \cup {role}
  /\ UNCHANGED <<users, flag, assigned, revoked, sealed, mappings, recovery>>

deleteACLRole(role) == Spend("acl") /\ Proceed("admin") /\ DisableRole(role)

CreateExternalGroupMapping(g, t) ==
  /\ IsLiveRole(t) /\ <<g, t>> \notin mappings
  /\ mappings' = mappings \cup {<<g, t>>}
  /\ UNCHANGED <<users, flag, assigned, revoked, disabledRoles, sealed, recovery>>

createACLExternalGroupMapping(g, t) ==
  Spend(AclPart(t)) /\ Proceed("admin") /\ CreateExternalGroupMapping(g, t)

DisableExternalGroupMapping(g, t) ==
  /\ <<g, t>> \in mappings /\ mappings' = mappings \ {<<g, t>>}
  /\ UNCHANGED <<users, flag, assigned, revoked, disabledRoles, sealed, recovery>>

deleteACLExternalGroupMapping(g, t) ==
  Spend(AclPart(t)) /\ Proceed("admin") /\ DisableExternalGroupMapping(g, t)

-----------------------------------------------------------------------------
(* Recovery of an administrator (AdminRecovery).                           *)

\* recoveryRole: one of the roles, held live by an account in good standing.
RecoveryRole(u, wanted) ==
  /\ u \in enabled \cap verified
  /\ \E role \in wanted \ disabledRoles : <<u, role>> \in assigned

RecoveryTarget(u) == u \in enabled \cap verified

MayRecover(u) == sealed /\ RecoveryRole(u, PlatformRoles)
IsOpen(r) == recovery[r].status = "requested" /\ ~recovery[r].late

CreateRecovery(r, u, target) ==
  /\ RecoveryRole(u, {"platform_admin", "pki_admin"})
  /\ target # u /\ RecoveryTarget(target) /\ recovery[r].status = "none"
  /\ recovery' = [recovery EXCEPT ![r] = [NoRecovery EXCEPT !.status = "requested", !.by = u, !.target = target]]
  /\ UNCHANGED roleVars

\* One approval for each principal and for each role.
ApproveRecovery(r, u, role) ==
  /\ IsOpen(r) /\ u \notin {recovery[r].by, recovery[r].target}
  /\ role \in {"pki_admin", "security_custodian"} /\ RecoveryRole(u, {role})
  /\ \A a \in recovery[r].approvals : a[1] # u /\ a[2] # role
  /\ recovery' = [recovery EXCEPT ![r].approvals = @ \cup {<<u, role>>}]
  /\ UNCHANGED roleVars

CancelRecovery(r, u) ==
  /\ IsOpen(r) /\ u = recovery[r].by
  /\ recovery' = [recovery EXCEPT ![r].status = "cancelled"]
  /\ UNCHANGED roleVars

\* Two approvals, and both approvers still hold the role they approved with.
ApprovalsCount(r) == Cardinality(recovery[r].approvals) = 2
ApprovalsStand(r) ==
  ApprovalsCount(r) /\ \A a \in recovery[r].approvals : RecoveryRole(a[1], {a[2]})

\* The execution enables every disabled assignment of the target: with two of
\* them, or with one beside an active one, the unique index refuses it.
ExecuteRecovery(r, u) ==
  LET target == recovery[r].target
      rows == revoked[target] + (IF <<target, "platform_admin">> \in assigned THEN 1 ELSE 0)
  IN  /\ RecoveryRole(u, {"pki_admin"}) /\ u # target
      /\ IsOpen(r) /\ ApprovalsStand(r) /\ RecoveryTarget(target)
      /\ "platform_admin" \notin disabledRoles /\ rows <= 1
      /\ flag' = flag \cup {target}
      /\ assigned' = assigned \cup {<<target, "platform_admin">>}
      /\ revoked' = [revoked EXCEPT ![target] = 0]
      /\ recovery' = [recovery EXCEPT ![r].status = "completed"]
      /\ UNCHANGED <<disabledRoles, sealed, mappings>>

AdminRecovery(r, u) ==
  /\ MayRecover(u) /\ UNCHANGED <<past, users>>
  /\ \/ \E target \in known : CreateRecovery(r, u, target)
     \/ \E role \in PlatformRoles : ApproveRecovery(r, u, role)
     \/ CancelRecovery(r, u) \/ ExecuteRecovery(r, u)

adminRecovery(r, u) == Spend("recovery") /\ AdminRecovery(r, u)

RecoveryExpires(r) ==
  /\ Spend("recovery") /\ IsOpen(r)
  /\ recovery' = [recovery EXCEPT ![r].late = TRUE]
  /\ UNCHANGED <<past, users, roleVars>>

AdminNext ==
  \/ RequirePlatformAdmin
  \/ \E role \in PlatformRoles : deleteACLRole(role)
  \/ \E g \in Groups, t \in Targets : createACLExternalGroupMapping(g, t) \/ deleteACLExternalGroupMapping(g, t)
  \/ \E r \in Recoveries, u \in known : adminRecovery(r, u)
  \/ \E r \in Recoveries : RecoveryExpires(r)

-----------------------------------------------------------------------------
(* A recovery is completed (AdminRecovery, "execute") only when, at that   *)
(* moment, two different users other than the requester and the target     *)
(* hold the two approving roles and had approved: an approver who lost the *)
(* role or the account since then does not count.                          *)
TwoPersonRule ==
  [][\A r \in Recoveries :
       recovery[r].status # "completed" /\ recovery'[r].status = "completed" =>
         \E a, b \in Users \ {recovery[r].by, recovery[r].target} :
           /\ a # b
           /\ {<<a, "pki_admin">>, <<b, "security_custodian">>} \subseteq recovery[r].approvals
           /\ RecoveryRole(a, {"pki_admin"}) /\ RecoveryRole(b, {"security_custodian"})]_recovery

(* Whatever order assignments are revoked, accounts are disabled through   *)
(* their organizations and administrators are recovered in, a sealed       *)
(* platform with an administrator keeps one                                *)
(* (protect_last_platform_admin of migration 076).                         *)
AdminStays == [][sealed /\ FullAdmins # {} => FullAdmins' # {}]_<<users, roleVars>>
=============================================================================
