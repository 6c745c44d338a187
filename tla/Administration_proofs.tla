----------------------- MODULE Administration_proofs -----------------------
(***************************************************************************)
(* Proofs about Administration, for any accounts, organizations' members,  *)
(* recoveries, clouds, keys and limits.                                    *)
(*                                                                         *)
(* The calls that are left and the requests that were checked bound and    *)
(* order the behaviour, and no invariant but the type of "past" needs      *)
(* them.  The steps of the members are therefore first reduced to what     *)
(* they do to the store (MembersStep).                                     *)
(***************************************************************************)
EXTENDS Administration, FiniteSetTheorems, TLAPS

-----------------------------------------------------------------------------
(* What the steps of the members do to the store.                          *)

AccountStep ==
  \/ \E o \in Orgs, u \in known : DisableMemberUser(o, u) \/ EnableMemberUser(o, u)
  \/ \E u \in known : DisableCurrentUser(u)
  \/ \E u \in known : VerifyEmail(u)
  \/ \E u \in Users, role \in {"admin", "member"}, mode \in {"email", "immediate"}, rotate \in BOOLEAN :
       ProvisionBrandCloudAccount(u, role, mode, rotate)

RowStep ==
  \/ \E u \in known : CreateOrganization(u)
  \/ \E u \in known, role \in {"owner", "admin", "member"} : AddMember(u, role) \/ UpdateMemberRole(u, role)
  \/ \E o \in Orgs, u \in known : RemoveMember(o, u)
  \/ \E u \in known : DisableDeveloperBrandCloudMember(u) \/ EnableDeveloperBrandCloudMember(u)
  \/ \E actor, u \in known, role \in {"admin", "member", "viewer"}, scope \in Scopes :
       UpdateDeveloperBrandCloudMember(actor, u, role, scope)
  \/ \E u \in known : AcceptBrandCloudMemberInvitation(u)
  \/ CommitOwnerHandoff

InviteStep ==
  \/ \E actor, u \in known, role \in {"admin", "member", "viewer"}, scope \in Scopes :
       CreateBrandCloudMemberInvitation(actor, u, role, scope)
  \/ \E u \in known : ListBrandCloudMemberInvitations(u) \/ TimePasses(u)
  \/ \E actor, u \in known :
       ResendBrandCloudMemberInvitation(actor, u) \/ CancelBrandCloudMemberInvitation(actor, u)
  \/ \E actor, u \in known, role \in Collaborators : CreateProductCollaboratorInvitation(actor, u, role)
  \/ \E u \in known : ListProductCollaboratorInvitations(u)
  \/ \E actor, u \in known :
       ResendProductCollaboratorInvitation(actor, u) \/ CancelProductCollaboratorInvitation(actor, u)

ProductStep ==
  \/ \E u \in known : AcceptProductCollaboratorInvitation(u)
  \/ \E actor, u \in known, role \in Collaborators : UpdateProductCollaborator(actor, u, role)
  \/ \E actor, u \in known : RemoveProductCollaborator(actor, u) \/ TransferProductOwnership(actor, u)

CloudStep ==
  \/ \E active \in BOOLEAN : UpdateBrandCloud(active)
  \/ \E u \in known : OpenOwnerHandoff(u)
  \/ EndOwnerHandoff

\* A step of the members is a check, or one of these with a checked or an own request.
LEMMA MembersSteps ==
  MembersNext => UNCHANGED <<users, memberVars>> \/ AccountStep \/ RowStep \/ InviteStep \/ ProductStep \/ CloudStep
<1>1. ASSUME MembersNext PROVE UNCHANGED <<users, memberVars>> \/ AccountStep \/ RowStep \/ InviteStep \/ ProductStep \/ CloudStep
  <2>1. CASE DeveloperBrandCloudManager 
           \/ \E o \in Orgs : RequirePermission(o, o, {"owner"}) \/ RequirePermission(o, RoleCheck(o), ManagerRoles)
    BY <2>1 DEF DeveloperBrandCloudManager, RequirePermission
  <2>2. ASSUME NEW u \in known,
               \/ createOrganization(u) \/ VerifyEmail(u) \/ deleteCurrentUser(u)
               \/ \E role \in {"owner", "admin", "member"} : addMember(u, role) \/ updateMemberRole(u, role)
               \/ \E o \in Orgs : removeMember(o, u) \/ disableMemberUser(o, u) \/ enableMemberUser(o, u)
        PROVE AccountStep \/ RowStep
    BY <2>2 DEF createOrganization, deleteCurrentUser, addMember, updateMemberRole, removeMember,
                disableMemberUser, enableMemberUser, AccountStep, RowStep
  <2>3. ASSUME NEW u \in known,
               \/ disableDeveloperBrandCloudMember(u) \/ enableDeveloperBrandCloudMember(u)
               \/ removeDeveloperBrandCloudMember(u)
               \/ disableBrandCloudUser(u) \/ enableBrandCloudUser(u) \/ deleteBrandCloudUser(u)
               \/ acceptDeveloperBrandCloudMemberInvitation(u)
        PROVE RowStep
    BY <2>3 DEF disableDeveloperBrandCloudMember, enableDeveloperBrandCloudMember, removeDeveloperBrandCloudMember,
                disableBrandCloudUser, enableBrandCloudUser, deleteBrandCloudUser,
                acceptDeveloperBrandCloudMemberInvitation, RowStep, Orgs
  <2>4. ASSUME NEW u \in known,
               \/ ListBrandCloudMemberInvitations(u) \/ ListProductCollaboratorInvitations(u)
               \/ acceptProductCollaboratorInvitation(u) \/ OpenOwnerHandoff(u) \/ TimePasses(u)
        PROVE InviteStep \/ ProductStep \/ CloudStep
    BY <2>4 DEF acceptProductCollaboratorInvitation, InviteStep, ProductStep, CloudStep
  <2>5. ASSUME NEW u \in Users, NEW role \in {"admin", "member"}, NEW mode \in {"email", "immediate"},
               NEW rotate \in BOOLEAN, createBrandCloudUser(u, role, mode, rotate)
        PROVE AccountStep
    BY <2>5 DEF createBrandCloudUser, AccountStep
  <2>6. ASSUME NEW actor \in known, NEW u \in known, NEW role \in {"admin", "member", "viewer"}, NEW scope \in Scopes,
               \/ updateDeveloperBrandCloudMember(actor, u, role, scope)
               \/ inviteDeveloperBrandCloudMember(actor, u, role, scope)
        PROVE RowStep \/ InviteStep
    BY <2>6 DEF updateDeveloperBrandCloudMember, inviteDeveloperBrandCloudMember, RowStep, InviteStep
  <2>7. ASSUME NEW actor \in known, NEW u \in known,
               \/ resendDeveloperBrandCloudMemberInvitation(actor, u) \/ CancelBrandCloudMemberInvitation(actor, u)
               \/ \E role \in Collaborators :
                    inviteProductCollaborator(actor, u, role) \/ UpdateProductCollaborator(actor, u, role)
               \/ resendProductCollaboratorInvitation(actor, u) \/ CancelProductCollaboratorInvitation(actor, u)
               \/ RemoveProductCollaborator(actor, u) \/ TransferProductOwnership(actor, u)
        PROVE InviteStep \/ ProductStep
    BY <2>7 DEF resendDeveloperBrandCloudMemberInvitation, inviteProductCollaborator,
                resendProductCollaboratorInvitation, InviteStep, ProductStep
  <2>8. ASSUME NEW active \in BOOLEAN, updateBrandCloud(active) PROVE CloudStep
    BY <2>8 DEF updateBrandCloud, CloudStep
  <2>9. CASE CommitOwnerHandoff \/ EndOwnerHandoff
    BY <2>9 DEF RowStep, CloudStep
  <2> QED BY <1>1, <2>1, <2>2, <2>3, <2>4, <2>5, <2>6, <2>7, <2>8, <2>9 DEF MembersNext
<1> QED BY <1>1

\* Only the account steps change accounts.
LEMMA AccountsRest ==
  RowStep \/ InviteStep \/ ProductStep \/ CloudStep => UNCHANGED users
<1>1. RowStep => UNCHANGED users
  BY DEF RowStep, CreateOrganization, AddMember, UpdateMemberRole, RemoveMember, DisableDeveloperBrandCloudMember,
         EnableDeveloperBrandCloudMember, UpdateDeveloperBrandCloudMember, AcceptBrandCloudMemberInvitation,
         CommitOwnerHandoff
<1>2. InviteStep => UNCHANGED users
  BY DEF InviteStep, CreateBrandCloudMemberInvitation, ListBrandCloudMemberInvitations, TimePasses,
         ResendBrandCloudMemberInvitation, CancelBrandCloudMemberInvitation, CreateProductCollaboratorInvitation,
         ListProductCollaboratorInvitations, ResendProductCollaboratorInvitation,
         CancelProductCollaboratorInvitation, MemberInvites, ProductInvites
<1>3. ProductStep => UNCHANGED users
  BY DEF ProductStep, AcceptProductCollaboratorInvitation, UpdateProductCollaborator, RemoveProductCollaborator,
         TransferProductOwnership, Grants
<1>4. CloudStep => UNCHANGED users
  BY DEF CloudStep, UpdateBrandCloud, OpenOwnerHandoff, EndOwnerHandoff
<1> QED BY <1>1, <1>2, <1>3, <1>4

\* A step of the members adds accounts, or disables one that MayDisable lets go.
LEMMA AccountsMove ==
  ASSUME MembersNext
  PROVE  /\ known \subseteq known' /\ verified \subseteq verified'
         /\ \/ enabled \subseteq enabled'
            \/ \E u \in known : MayDisable(u) /\ enabled' = enabled \ {u}
<1>1. CASE AccountStep
  BY <1>1 DEF AccountStep, DisableMemberUser, EnableMemberUser, DisableCurrentUser, VerifyEmail,
              ProvisionBrandCloudAccount
<1>2. CASE UNCHANGED users
  BY <1>2 DEF users
<1> QED BY <1>1, <1>2, MembersSteps, AccountsRest

-----------------------------------------------------------------------------
(* What the assignments of roles do to the store.                          *)

\* Whoever makes it, a step of the assignments inserts rows or disables one.
LEMMA AssignSteps ==
  AssignNext =>
    /\ AssignRest
    /\ \E u \in known : \/ \E targets \in SUBSET Targets : InsertAssignments(u, targets)
                       \/ \E t \in Targets : DisableRoleAssignment(u, t)
<1>1. ASSUME NEW u \in known, NEW t \in Targets, CreateRoleAssignment(u, t)
      PROVE AssignRest /\ \E targets \in SUBSET Targets : InsertAssignments(u, targets)
  BY <1>1 DEF CreateRoleAssignment, InsertAssignments
<1>2. ASSUME NEW u \in known, NEW t \in Targets, DisableRoleAssignment(u, t) PROVE AssignRest
  BY <1>2 DEF DisableRoleAssignment
<1>3. ASSUME NEW u \in known, NEW g \in Groups, ApplyExternalGroupMappings(u, g)
      PROVE AssignRest /\ \E targets \in SUBSET Targets : InsertAssignments(u, targets)
  <2>1. PICK targets \in SUBSET Targets : InsertAssignments(u, targets)
    BY <1>3 DEF ApplyExternalGroupMappings
  <2> QED BY <2>1 DEF InsertAssignments
<1>4. ASSUME NEW o \in Orgs, NEW role \in ManagerRoles PROVE <<o, role>> \in Targets
  BY <1>4 DEF Targets
<1>5. ASSUME NEW u \in known, NEW o \in Orgs, NEW role \in ManagerRoles, createCustomerACLAssignment(o, u, role)
      PROVE AssignRest /\ \E targets \in SUBSET Targets : InsertAssignments(u, targets)
  BY <1>1, <1>4, <1>5 DEF createCustomerACLAssignment
<1> QED BY <1>1, <1>2, <1>3, <1>5 DEF AssignNext, createACLRoleAssignment, deleteACLRoleAssignment,
                                      deleteCustomerACLAssignment

\* The rows that targets mean for a user.
LEMMA TargetRows ==
  ASSUME NEW targets \in SUBSET Targets, NEW u
  PROVE  /\ On(u, "platform", targets) \subseteq {u} \X PlatformRoles
         /\ On(u, "product", targets) \subseteq {u} \X ProductRoles
         /\ OnOrgs(u, targets) \subseteq Orgs \X {u} \X ManagerRoles
<1>1. ASSUME NEW t \in targets
      PROVE  /\ t[1] = "platform" => t[2] \in PlatformRoles
             /\ t[1] = "product" => t[2] \in ProductRoles
             /\ t[1] \in Orgs => t[2] \in ManagerRoles
  BY DEF Targets, Orgs
<1> QED BY <1>1 DEF On, OnOrgs

-----------------------------------------------------------------------------
(* A sealed platform keeps an administrator.                               *)

\* No step of the administration takes the role from the last administrator.
LEMMA AdminKeepsAdmin ==
  ASSUME AdminNext, sealed, FullAdmins # {}
  PROVE  FullAdmins' # {}
<1>1. UNCHANGED users /\ flag \subseteq flag' /\ assigned \subseteq assigned'
  <2>1. CASE \E r \in Recoveries, u \in known : adminRecovery(r, u)
    BY <2>1 DEF adminRecovery, AdminRecovery, CreateRecovery, ApproveRecovery, CancelRecovery, ExecuteRecovery, roleVars
  <2>2. CASE \/ RequirePlatformAdmin \/ \E r \in Recoveries : RecoveryExpires(r)
             \/ \E role \in PlatformRoles : deleteACLRole(role)
             \/ \E g \in Groups, t \in Targets :
                  createACLExternalGroupMapping(g, t) \/ deleteACLExternalGroupMapping(g, t)
    BY <2>2 DEF RequirePlatformAdmin, RecoveryExpires, deleteACLRole, DisableRole, createACLExternalGroupMapping,
                CreateExternalGroupMapping, deleteACLExternalGroupMapping, DisableExternalGroupMapping, adminVars, roleVars
  <2> QED BY <2>1, <2>2 DEF AdminNext
<1> QED BY <1>1 DEF FullAdmins, IsPlatformAdmin, users

\* An assignment is revoked from the last administrator by nobody.
LEMMA AssignKeepsAdmin ==
  ASSUME AssignNext, sealed, FullAdmins # {}
  PROVE  FullAdmins' # {}
<1>1. UNCHANGED <<flag, enabled, verified>>
  BY AssignSteps DEF AssignRest, users
<1>2. ASSUME NEW u \in known, NEW targets \in SUBSET Targets, InsertAssignments(u, targets)
      PROVE FullAdmins' # {}
  BY <1>1, <1>2 DEF InsertAssignments, FullAdmins, IsPlatformAdmin
<1>3. ASSUME NEW u \in known, NEW t \in Targets, DisableRoleAssignment(u, t) PROVE FullAdmins' # {}
  <2>1. PICK v \in FullAdmins : t = <<"platform", "platform_admin">> => v # u
    BY <1>3 DEF DisableRoleAssignment, MayRevoke, Survives
  <2>2. <<v, "platform_admin">> \notin On(u, "platform", {t})
    BY <2>1 DEF On, Targets
  <2>3. <<v, "platform_admin">> \in assigned'
    BY <1>3, <2>1, <2>2 DEF DisableRoleAssignment, FullAdmins
  <2> QED BY <1>1, <2>1, <2>3 DEF FullAdmins, IsPlatformAdmin
<1> QED BY <1>2, <1>3, AssignSteps

\* No step of the members disables the last administrator.
LEMMA MembersKeepAdmin ==
  ASSUME MembersNext, UNCHANGED adminVars, sealed, FullAdmins # {}
  PROVE  FullAdmins' # {}
<1>1. flag' = flag /\ assigned' = assigned
  BY DEF adminVars, roleVars
<1>2. CASE enabled \subseteq enabled'
  BY <1>1, <1>2, AccountsMove DEF FullAdmins, IsPlatformAdmin
<1>3. ASSUME NEW u \in known, MayDisable(u), enabled' = enabled \ {u} PROVE FullAdmins' # {}
  <2>1. PICK v \in FullAdmins : v # u
    BY <1>3 DEF MayDisable, Survives, FullAdmins
  <2> QED BY <1>1, <1>3, <2>1, AccountsMove DEF FullAdmins, IsPlatformAdmin
<1> QED BY <1>2, <1>3, AccountsMove

\* A step of the quotas changes no account of a sealed platform.
LEMMA QuotaKeepsAdmin ==
  ASSUME QuotaNext, sealed
  PROVE  UNCHANGED <<users, flag, assigned>>
BY DEF QuotaNext, BootstrapPlatformAdmin, createBrandCloud, CreateBrandCloud, createBrandCloudOwnerTransfer,
       CreateBrandCloudOwnerTransfer, createDeveloperBrandCloud, CreateManagedBrandCloud, updateDeveloperBrandCloud,
       UpdateManagedBrandCloud, acceptBrandCloudOwnerTransfer, AcceptOwnerHandoff, cancelBrandCloudOwnerTransfer,
       CancelOffer, CommitTransfer, CancelTransfer, updateOwnerTransferLimit, SetOwnerTransferLimit,
       createQuotaRaiseRequest, CreateQuotaRaiseRequest, decideQuotaRaiseRequest, DecideQuotaRaiseRequest,
       adminVars, roleVars

\* protect_last_platform_admin (migration 076) is enough: revocations, disabled
\* accounts, sign-ins, recoveries and provisioning, in any order and from any
\* organization, leave a sealed platform that has an administrator with one.
THEOREM PlatformKeepsAnAdmin == Spec => AdminStays
<1>1. ASSUME Next, sealed, FullAdmins # {} PROVE FullAdmins' # {}
  <2>1. CASE AdminNext
    BY <1>1, <2>1, AdminKeepsAdmin
  <2>2. CASE MembersNext /\ UNCHANGED adminVars
    BY <1>1, <2>2, MembersKeepAdmin
  <2>3. CASE QuotaNext
    BY <1>1, <2>3, QuotaKeepsAdmin DEF FullAdmins, IsPlatformAdmin, users
  <2>4. CASE AssignNext
    BY <1>1, <2>4, AssignKeepsAdmin
  <2> QED BY <1>1, <2>1, <2>2, <2>3, <2>4 DEF Next
<1>2. [Next]_vars => [sealed /\ FullAdmins # {} => FullAdmins' # {}]_<<users, roleVars>>
  BY <1>1 DEF vars, adminVars
<1> QED BY <1>2, PTL DEF Spec, AdminStays

-----------------------------------------------------------------------------
(* Accounts, roles and recoveries.                                         *)

AccountsInv ==
  /\ enabled \subseteq known /\ verified \subseteq known /\ known \subseteq Users
  /\ flag \subseteq known /\ assigned \subseteq known \X PlatformRoles
  /\ revoked \in [Users -> Nat] /\ disabledRoles \subseteq PlatformRoles
  /\ sealed \in BOOLEAN /\ mappings \subseteq Groups \X Targets

ApprovingRoles == {"pki_admin", "security_custodian"}
RecoveryRows ==
  [status : {"none", "requested", "completed", "cancelled"}, by : Users \cup {NoUser},
   target : Users \cup {NoUser}, approvals : SUBSET (Users \X ApprovingRoles), late : BOOLEAN]

\* An open recovery names two different accounts, and neither of them approves
\* it; no two of its approvals share a principal or a role.
RecoveryInv(r) ==
  LET row == recovery[r]
  IN  /\ row.status # "none" => row.target \in known \ {row.by}
      /\ \A a \in row.approvals : a[1] \in known \ {row.by, row.target}
      /\ \A a, b \in row.approvals : a[1] = b[1] \/ a[2] = b[2] => a = b

RecoveriesInv == recovery \in [Recoveries -> RecoveryRows] /\ \A r \in Recoveries : RecoveryInv(r)

AdminInv == AccountsInv /\ RecoveriesInv

\* The start of the administration.
LEMMA AdminStarts ==
  ASSUME NEW start \in Starts, AdminInit(start)
  PROVE  AdminInv
<1>1. AccountsInv
  BY StartsAssumption DEF AdminInit, AccountsInv
<1>2. RecoveriesInv
  BY DEF AdminInit, RecoveriesInv, RecoveryRows, RecoveryInv, NoRecovery
<1> QED BY <1>1, <1>2 DEF AdminInv

\* No step takes an account away.
LEMMA AccountsStay ==
  ASSUME Next PROVE known \subseteq known'
<1>1. AdminNext => known' = known
  BY DEF AdminNext, RequirePlatformAdmin, RecoveryExpires, deleteACLRole, DisableRole, createACLExternalGroupMapping,
         CreateExternalGroupMapping, deleteACLExternalGroupMapping, DisableExternalGroupMapping,
         adminRecovery, AdminRecovery, users
<1>2. QuotaNext => known \subseteq known'
  BY DEF QuotaNext, BootstrapPlatformAdmin, EnsurePlatformAdmin, createBrandCloud, CreateBrandCloud,
       createBrandCloudOwnerTransfer,
       CreateBrandCloudOwnerTransfer, createDeveloperBrandCloud, CreateManagedBrandCloud, updateDeveloperBrandCloud,
       UpdateManagedBrandCloud, acceptBrandCloudOwnerTransfer, AcceptOwnerHandoff, cancelBrandCloudOwnerTransfer,
       CancelOffer, CommitTransfer, CancelTransfer, updateOwnerTransferLimit, SetOwnerTransferLimit,
       createQuotaRaiseRequest, CreateQuotaRaiseRequest, decideQuotaRaiseRequest, DecideQuotaRaiseRequest, users
<1>3. AssignNext => known' = known
  BY AssignSteps DEF AssignRest, users
<1> QED BY <1>1, <1>2, <1>3, AccountsMove DEF Next

\* The steps of the administration keep the accounts and the roles.
LEMMA AdminKeepsAccounts ==
  ASSUME AccountsInv, RecoveriesInv, AdminNext
  PROVE  AccountsInv'
<1>1. CASE \/ RequirePlatformAdmin \/ \E r \in Recoveries : RecoveryExpires(r)
  BY <1>1 DEF RequirePlatformAdmin, RecoveryExpires, users, adminVars, roleVars, AccountsInv
<1>2. ASSUME NEW role \in PlatformRoles, DisableRole(role) PROVE AccountsInv'
  BY <1>2 DEF DisableRole, users, AccountsInv
<1>3. ASSUME NEW g \in Groups, NEW t \in Targets,
             CreateExternalGroupMapping(g, t) \/ DisableExternalGroupMapping(g, t) PROVE AccountsInv'
  BY <1>3 DEF CreateExternalGroupMapping, DisableExternalGroupMapping, users, AccountsInv
<1>4. ASSUME NEW r \in Recoveries, NEW u \in known, AdminRecovery(r, u) PROVE AccountsInv'
  <2>1. CASE ExecuteRecovery(r, u)
    <3>1. recovery[r].target \in known
      BY <2>1 DEF ExecuteRecovery, RecoveryTarget, AccountsInv
    <3> QED BY <1>4, <2>1, <3>1 DEF AdminRecovery, ExecuteRecovery, users, AccountsInv, PlatformRoles
  <2>2. CASE ~ExecuteRecovery(r, u)
    BY <1>4, <2>2 DEF AdminRecovery, CreateRecovery, ApproveRecovery, CancelRecovery, users, roleVars, AccountsInv
  <2> QED BY <2>1, <2>2
<1> QED BY <1>1, <1>2, <1>3, <1>4
     DEF AdminNext, deleteACLRole, createACLExternalGroupMapping, deleteACLExternalGroupMapping, adminRecovery

\* So do the assignments.
LEMMA AssignKeepsAccounts ==
  ASSUME AccountsInv, AssignNext
  PROVE  AccountsInv'
<1>1. UNCHANGED <<users, flag, disabledRoles, sealed, mappings>>
  BY AssignSteps DEF AssignRest
<1>2. ASSUME NEW u \in known, NEW targets \in SUBSET Targets, InsertAssignments(u, targets) PROVE AccountsInv'
  <2>1. On(u, "platform", targets) \subseteq {u} \X PlatformRoles
    BY TargetRows
  <2> QED BY <1>1, <1>2, <2>1 DEF InsertAssignments, users, AccountsInv
<1>3. ASSUME NEW u \in known, NEW t \in Targets, DisableRoleAssignment(u, t) PROVE AccountsInv'
  BY <1>1, <1>3 DEF DisableRoleAssignment, users, AccountsInv
<1> QED BY <1>2, <1>3, AssignSteps

\* So do the steps of the members and of the quotas.
LEMMA OthersKeepAccounts ==
  ASSUME AccountsInv, (MembersNext /\ UNCHANGED adminVars) \/ QuotaNext
  PROVE  AccountsInv'
<1>1. CASE AccountStep /\ UNCHANGED adminVars
  <2>1. UNCHANGED roleVars
    BY <1>1 DEF adminVars
  <2>2. enabled' \subseteq known' /\ verified' \subseteq known' /\ known' \subseteq Users /\ known \subseteq known'
    <3>1. CASE \E o \in Orgs, u \in known : DisableMemberUser(o, u) \/ EnableMemberUser(o, u)
      BY <3>1 DEF AccountsInv, DisableMemberUser, EnableMemberUser
    <3>2. CASE \E u \in known : DisableCurrentUser(u) \/ VerifyEmail(u)
      BY <3>2 DEF AccountsInv, DisableCurrentUser, VerifyEmail
    <3>3. ASSUME NEW u \in Users, NEW role, NEW mode, NEW rotate, ProvisionBrandCloudAccount(u, role, mode, rotate)
          PROVE enabled' \subseteq known' /\ verified' \subseteq known' /\ known' \subseteq Users /\ known \subseteq known'
      BY <3>3 DEF AccountsInv, ProvisionBrandCloudAccount
    <3> QED BY <1>1, <3>1, <3>2, <3>3 DEF AccountStep
  <2> QED BY <2>1, <2>2 DEF roleVars, AccountsInv
<1>2. CASE UNCHANGED <<users, adminVars>>
  BY <1>2 DEF users, adminVars, roleVars, AccountsInv
<1>3. CASE QuotaNext
  <2>1. ASSUME NEW c \in Clouds, NEW u \in Users, BootstrapPlatformAdmin(c, u) PROVE AccountsInv'
    <3>1. CASE IsInstalled
      BY <2>1, <3>1 DEF BootstrapPlatformAdmin, users, AccountsInv
    <3>2. CASE ~IsInstalled
      BY <2>1, <3>2 DEF BootstrapPlatformAdmin, EnsurePlatformAdmin, AccountsInv, PlatformRoles
    <3> QED BY <3>1, <3>2
  <2>2. CASE ~\E c \in Clouds, u \in Users : BootstrapPlatformAdmin(c, u)
    <3>1. UNCHANGED <<users, roleVars>>
      BY <1>3, <2>2 DEF QuotaNext, createBrandCloud, CreateBrandCloud, createBrandCloudOwnerTransfer,
         CreateBrandCloudOwnerTransfer, createDeveloperBrandCloud, CreateManagedBrandCloud, updateDeveloperBrandCloud,
         UpdateManagedBrandCloud, acceptBrandCloudOwnerTransfer, AcceptOwnerHandoff, cancelBrandCloudOwnerTransfer,
         CancelOffer, CommitTransfer, CancelTransfer, updateOwnerTransferLimit, SetOwnerTransferLimit,
         createQuotaRaiseRequest, CreateQuotaRaiseRequest, decideQuotaRaiseRequest, DecideQuotaRaiseRequest, adminVars
    <3> QED BY <3>1 DEF users, roleVars, AccountsInv
  <2> QED BY <2>1, <2>2
<1> QED BY <1>1, <1>2, <1>3, MembersSteps, AccountsRest

\* Only the requests about recoveries and the time change a recovery.
LEMMA RecoverySteps ==
  ASSUME Next
  PROVE  UNCHANGED recovery \/ \E r \in Recoveries : RecoveryExpires(r) \/ \E u \in known : AdminRecovery(r, u)
<1>1. AdminNext => UNCHANGED recovery \/ \E r \in Recoveries : RecoveryExpires(r) \/ \E u \in known : AdminRecovery(r, u)
  BY DEF AdminNext, RequirePlatformAdmin, deleteACLRole, DisableRole, createACLExternalGroupMapping,
         CreateExternalGroupMapping, deleteACLExternalGroupMapping, DisableExternalGroupMapping, adminRecovery, adminVars
<1>2. QuotaNext => UNCHANGED recovery
  BY DEF QuotaNext, BootstrapPlatformAdmin, createBrandCloud, CreateBrandCloud, createBrandCloudOwnerTransfer,
       CreateBrandCloudOwnerTransfer, createDeveloperBrandCloud, CreateManagedBrandCloud, updateDeveloperBrandCloud,
       UpdateManagedBrandCloud, acceptBrandCloudOwnerTransfer, AcceptOwnerHandoff, cancelBrandCloudOwnerTransfer,
       CancelOffer, CommitTransfer, CancelTransfer, updateOwnerTransferLimit, SetOwnerTransferLimit,
       createQuotaRaiseRequest, CreateQuotaRaiseRequest, decideQuotaRaiseRequest, DecideQuotaRaiseRequest, adminVars
<1>3. AssignNext => UNCHANGED recovery
  BY AssignSteps DEF AssignRest
<1> QED BY <1>1, <1>2, <1>3 DEF Next, adminVars

\* Every step keeps the recoveries.
LEMMA RecoveriesStep ==
  ASSUME AccountsInv, RecoveriesInv, Next
  PROVE  RecoveriesInv'
<1>1. CASE UNCHANGED recovery
  BY <1>1, AccountsStay DEF RecoveriesInv, RecoveryInv
<1>2. ASSUME NEW r \in Recoveries, NEW row \in RecoveryRows,
             recovery' = [recovery EXCEPT ![r] = row],
             /\ row.status # "none" => row.target \in known \ {row.by}
             /\ \A a \in row.approvals : a[1] \in known \ {row.by, row.target}
             /\ \A a, b \in row.approvals : a[1] = b[1] \/ a[2] = b[2] => a = b
      PROVE RecoveriesInv'
  <2>1. recovery' \in [Recoveries -> RecoveryRows] /\ recovery'[r] = row
    BY <1>2 DEF RecoveriesInv
  <2>2. ASSUME NEW s \in Recoveries PROVE RecoveryInv(s)'
    <3>1. CASE s = r
      BY <1>2, <2>1, <3>1, AccountsStay DEF RecoveryInv
    <3>2. CASE s # r
      <4>1. recovery'[s] = recovery[s]
        BY <1>2, <3>2 DEF RecoveriesInv
      <4> QED BY <4>1, AccountsStay DEF RecoveriesInv, RecoveryInv
    <3> QED BY <3>1, <3>2
  <2> QED BY <2>1, <2>2 DEF RecoveriesInv
<1>3. ASSUME NEW r \in Recoveries, NEW u \in known, NEW target \in known, CreateRecovery(r, u, target)
      PROVE RecoveriesInv'
  <2> DEFINE row == [NoRecovery EXCEPT !.status = "requested", !.by = u, !.target = target]
         first == [NoRecovery EXCEPT !.status = "requested"]
         second == [first EXCEPT !.by = u]
  <2>1. /\ NoRecovery \in RecoveryRows /\ first \in RecoveryRows /\ first.status = "requested"
        /\ first.approvals = {}
    BY DEF NoRecovery, RecoveryRows
  <2>4. second \in RecoveryRows /\ second.status = "requested" /\ second.approvals = {} /\ second.by = u
    BY <2>1 DEF RecoveryRows, AccountsInv
  <2>5. row = [second EXCEPT !.target = target]
    OBVIOUS
  <2>2. /\ row \in RecoveryRows /\ row.status = "requested" /\ row.approvals = {} /\ row.by = u
        /\ row.target = target
    BY <2>4, <2>5 DEF RecoveryRows, AccountsInv
  <2>3. recovery' = [recovery EXCEPT ![r] = row] /\ target # u
    BY <1>3 DEF CreateRecovery
  <2> HIDE DEF row
  <2> QED BY <1>2, <2>2, <2>3
<1>4. ASSUME NEW r \in Recoveries, NEW u \in known, NEW role \in PlatformRoles, ApproveRecovery(r, u, role)
      PROVE RecoveriesInv'
  <2> DEFINE row == [recovery[r] EXCEPT !.approvals = @ \cup {<<u, role>>}]
  <2>1. recovery[r] \in RecoveryRows /\ RecoveryInv(r)
    BY DEF RecoveriesInv
  <2>2. recovery' = [recovery EXCEPT ![r] = row]
    BY <1>4 DEF ApproveRecovery
  <2>3. /\ row \in RecoveryRows /\ row.status = recovery[r].status /\ row.by = recovery[r].by
        /\ row.target = recovery[r].target /\ row.approvals = recovery[r].approvals \cup {<<u, role>>}
    BY <1>4, <2>1 DEF ApproveRecovery, RecoveryRows, ApprovingRoles, AccountsInv
  <2>4. \A a \in row.approvals : a[1] \in known \ {row.by, row.target}
    BY <1>4, <2>1, <2>3 DEF ApproveRecovery, RecoveryInv
  <2>5. \A a, b \in row.approvals : a[1] = b[1] \/ a[2] = b[2] => a = b
    BY <1>4, <2>1, <2>3 DEF ApproveRecovery, RecoveryInv
  <2>6. row.status # "none" => row.target \in known \ {row.by}
    BY <2>1, <2>3 DEF RecoveryInv
  <2> HIDE DEF row
  <2> QED BY <1>2, <2>2, <2>3, <2>4, <2>5, <2>6
<1>5. ASSUME NEW r \in Recoveries, NEW row,
             \/ row = [recovery[r] EXCEPT !.status = "cancelled"]
             \/ row = [recovery[r] EXCEPT !.status = "completed"]
             \/ row = [recovery[r] EXCEPT !.late = TRUE],
             recovery[r].status = "requested",
             recovery' = [recovery EXCEPT ![r] = row]
      PROVE RecoveriesInv'
  <2>1. recovery[r] \in RecoveryRows /\ RecoveryInv(r)
    BY DEF RecoveriesInv
  <2>2. /\ row \in RecoveryRows /\ row.by = recovery[r].by
        /\ row.target = recovery[r].target /\ row.approvals = recovery[r].approvals
    BY <1>5, <2>1 DEF RecoveryRows
  <2> QED BY <1>2, <1>5, <2>1, <2>2 DEF RecoveryInv
<1>6. ASSUME NEW r \in Recoveries, NEW u \in known, AdminRecovery(r, u) PROVE RecoveriesInv'
  <2>1. CASE CancelRecovery(r, u)
    BY <1>5, <2>1 DEF CancelRecovery, IsOpen
  <2>2. CASE ExecuteRecovery(r, u)
    BY <1>5, <2>2 DEF ExecuteRecovery, IsOpen
  <2> QED BY <1>3, <1>4, <1>6, <2>1, <2>2 DEF AdminRecovery
<1>7. ASSUME NEW r \in Recoveries, RecoveryExpires(r) PROVE RecoveriesInv'
  BY <1>5, <1>7 DEF RecoveryExpires, IsOpen
<1> QED BY <1>1, <1>6, <1>7, RecoverySteps

\* The accounts, the roles and the recoveries are always in order.
LEMMA AdminAlways == Spec => []AdminInv
<1>1. Init => AdminInv
  BY AdminStarts DEF Init
<1>2. AdminInv /\ Next => AdminInv'
  BY AdminKeepsAccounts, AssignKeepsAccounts, OthersKeepAccounts, RecoveriesStep DEF AdminInv, Next
<1>3. AdminInv /\ UNCHANGED vars => AdminInv'
  BY DEF vars, users, adminVars, roleVars, AdminInv, AccountsInv, RecoveriesInv, RecoveryInv
<1> QED BY <1>1, <1>2, <1>3, PTL DEF Spec

\* Two approvals are one of each role.
LEMMA TwoApprovals ==
  ASSUME AdminInv, NEW r \in Recoveries, ApprovalsCount(r)
  PROVE  \E a, b \in recovery[r].approvals : a # b /\ a[2] = "pki_admin" /\ b[2] = "security_custodian"
<1> DEFINE S == recovery[r].approvals
<1>1. S \subseteq Users \X ApprovingRoles
  BY DEF AdminInv, RecoveriesInv, RecoveryRows
<1>2. IsFiniteSet(ApprovingRoles)
  <2>1. IsFiniteSet({"pki_admin"} \cup {"security_custodian"})
    BY FS_Singleton, FS_AddElement
  <2>2. ApprovingRoles = {"pki_admin"} \cup {"security_custodian"}
    BY DEF ApprovingRoles
  <2> QED BY <2>1, <2>2
<1>3. IsFiniteSet(Users \X ApprovingRoles)
  BY <1>2, FS_Product, AdminAssumption
<1>4. IsFiniteSet(S)
  BY <1>1, <1>3, FS_Subset
<1>5. Cardinality(S) = 2
  BY DEF ApprovalsCount
<1> HIDE DEF S
<1>6. S # {}
  BY <1>5, FS_EmptySet
<1>7. PICK a \in S : TRUE
  BY <1>6
<1>8. S # {a}
  BY <1>5, FS_Singleton
<1>9. PICK b \in S : b # a
  BY <1>7, <1>8
<1>10. a[2] # b[2]
  BY <1>9 DEF S, AdminInv, RecoveriesInv, RecoveryInv
<1>11. a[2] \in ApprovingRoles /\ b[2] \in ApprovingRoles
  BY <1>1
<1> QED BY <1>9, <1>10, <1>11 DEF S, ApprovingRoles

\* Only the execution of a recovery completes it.
LEMMA CompletedByExecution ==
  ASSUME AdminInv, Next, NEW r \in Recoveries,
         recovery[r].status # "completed", recovery'[r].status = "completed"
  PROVE  \E u \in known : ExecuteRecovery(r, u)
<1>1. recovery[r] \in RecoveryRows
  BY DEF AdminInv, RecoveriesInv
<1>2. ASSUME NEW s \in Recoveries, RecoveryExpires(s) PROVE FALSE
  BY <1>1, <1>2 DEF RecoveryExpires, AdminInv, RecoveriesInv, RecoveryRows
<1>3. ASSUME NEW s \in Recoveries, NEW u \in known, AdminRecovery(s, u) PROVE ExecuteRecovery(r, u)
  <2>1. recovery \in [Recoveries -> RecoveryRows] /\ recovery[s] \in RecoveryRows
    BY DEF AdminInv, RecoveriesInv
  <2>2. CASE \E target \in known : CreateRecovery(s, u, target)
    <3>1. PICK target \in known :
            recovery' = [recovery EXCEPT ![s] = [NoRecovery EXCEPT !.status = "requested", !.by = u, !.target = target]]
      BY <2>2 DEF CreateRecovery
    <3>2. [NoRecovery EXCEPT !.status = "requested", !.by = u, !.target = target].status = "requested"
      BY DEF NoRecovery
    <3> QED BY <2>1, <3>1, <3>2
  <2>3. CASE \E role \in PlatformRoles : ApproveRecovery(s, u, role)
    BY <2>1, <2>3 DEF ApproveRecovery, RecoveryRows
  <2>4. CASE CancelRecovery(s, u)
    BY <2>1, <2>4 DEF CancelRecovery, RecoveryRows
  <2>5. CASE ExecuteRecovery(s, u)
    BY <2>1, <2>5 DEF ExecuteRecovery
  <2> QED BY <1>3, <2>2, <2>3, <2>4, <2>5 DEF AdminRecovery
<1> QED BY <1>2, <1>3, RecoverySteps

\* A recovery takes two people beside the one who asks and the one who gains
\* (AdminRecovery, "execute"): the two approvals are of different accounts and of
\* the two approving roles, and both hold when the recovery is executed.
THEOREM RecoveryTakesTwo == Spec => TwoPersonRule
<1>1. ASSUME AdminInv, Next, NEW r \in Recoveries,
             recovery[r].status # "completed", recovery'[r].status = "completed"
      PROVE \E a, b \in Users \ {recovery[r].by, recovery[r].target} :
              /\ a # b
              /\ {<<a, "pki_admin">>, <<b, "security_custodian">>} \subseteq recovery[r].approvals
              /\ RecoveryRole(a, {"pki_admin"}) /\ RecoveryRole(b, {"security_custodian"})
  <2>1. ApprovalsCount(r) /\ \A a \in recovery[r].approvals : RecoveryRole(a[1], {a[2]})
    BY <1>1, CompletedByExecution DEF ExecuteRecovery, ApprovalsStand
  <2>2. PICK a, b \in recovery[r].approvals : a # b /\ a[2] = "pki_admin" /\ b[2] = "security_custodian"
    BY <1>1, <2>1, TwoApprovals
  <2>3. recovery[r].approvals \subseteq Users \X ApprovingRoles
    BY <1>1 DEF AdminInv, RecoveriesInv, RecoveryRows
  <2>4. a = <<a[1], a[2]>> /\ b = <<b[1], b[2]>> /\ a[1] \in Users /\ b[1] \in Users
    BY <2>3
  <2>5. a[1] # b[1] /\ {a[1], b[1]} \cap {recovery[r].by, recovery[r].target} = {}
    BY <1>1, <2>2 DEF AdminInv, RecoveriesInv, RecoveryInv
  <2>6. RecoveryRole(a[1], {"pki_admin"}) /\ RecoveryRole(b[1], {"security_custodian"})
    BY <2>1, <2>2
  <2>7. {<<a[1], "pki_admin">>, <<b[1], "security_custodian">>} \subseteq recovery[r].approvals
    BY <2>2, <2>4
  <2> QED BY <2>4, <2>5, <2>6, <2>7
<1>2. AdminInv /\ [Next]_vars =>
        [\A r \in Recoveries :
           recovery[r].status # "completed" /\ recovery'[r].status = "completed" =>
             \E a, b \in Users \ {recovery[r].by, recovery[r].target} :
               /\ a # b
               /\ {<<a, "pki_admin">>, <<b, "security_custodian">>} \subseteq recovery[r].approvals
               /\ RecoveryRole(a, {"pki_admin"}) /\ RecoveryRole(b, {"security_custodian"})]_recovery
  BY <1>1 DEF vars, adminVars
<1> QED BY <1>2, AdminAlways, PTL DEF Spec, TwoPersonRule

-----------------------------------------------------------------------------
(* The limits.                                                             *)

CloudRows ==
  [owner : Users \cup {NoUser}, version : Nat, active : BOOLEAN, target : Users \cup {NoUser},
   allowed : Nat, granted : Nat]

\* An accepted transfer has its place in the allowance it was accepted under.
CloudInv(c) ==
  /\ {clouds[c].owner, clouds[c].target} \subseteq known \cup {NoUser}
  /\ clouds[c].active => clouds[c].version > 0
  /\ clouds[c].version <= clouds[c].granted + 1
  /\ clouds[c].target # NoUser => clouds[c].version <= clouds[c].granted

Places(u) == {c \in Clouds : u \in {clouds[c].owner, clouds[c].target}}

OffersInv ==
  /\ offers \subseteq [cloud : Clouds, by : Users, target : Users, version : Nat]
  /\ \A o \in offers : {o.by, o.target} \subseteq known

CloudsInv ==
  /\ clouds \in [Clouds -> CloudRows] /\ OffersInv
  /\ \A c \in Clouds : CloudInv(c)
  /\ \A u \in Users : Cardinality(Places(u)) <= Limit

\* A key that has written has its receipt.
WritesInv ==
  /\ receipts \in [Writes -> [cloud : Clouds \cup {Create}, version : Nat]] /\ writes \in [Writes -> Nat]
  /\ \A w \in Writes : writes[w] <= 1 /\ (writes[w] = 1 => receipts[w] # NoReceipt)

RaisesInv ==
  /\ asked \in [QuotaRequests -> [status : {"none", "pending", "approved", "declined"}, amount : Nat, granted : Nat]]
  /\ quota \in BaseQuota..MaxQuota
  /\ quota = BaseQuota \/ \E q \in QuotaRequests : asked[q].status = "approved" /\ asked[q].granted = quota
  /\ \A q \in QuotaRequests : asked[q].status = "approved" => asked[q].granted <= quota

QuotaInv == CloudsInv /\ WritesInv /\ RaisesInv

\* The start of the limits.
LEMMA QuotaStarts ==
  ASSUME QuotaInit PROVE QuotaInv
<1>1. CloudsInv
  <2>1. clouds \in [Clouds -> CloudRows]
    BY DEF QuotaInit, NoCloud, CloudRows
  <2>2. OffersInv /\ \A c \in Clouds : CloudInv(c)
    BY DEF QuotaInit, NoCloud, OffersInv, CloudInv
  <2>3. ASSUME NEW u \in Users PROVE Cardinality(Places(u)) <= Limit
    <3>1. Places(u) = {}
      BY AdminAssumption DEF QuotaInit, NoCloud, Places
    <3> QED BY <3>1, FS_EmptySet, QuotaAssumption
  <2> QED BY <2>1, <2>2, <2>3 DEF CloudsInv
<1>2. WritesInv
  BY DEF QuotaInit, NoReceipt, WritesInv
<1>3. RaisesInv
  BY QuotaAssumption DEF QuotaInit, NoRequest, RaisesInv
<1> QED BY <1>1, <1>2, <1>3 DEF QuotaInv

\* The clouds of a user are counted by its usage, once each.
LEMMA UsageCounts ==
  ASSUME NEW u
  PROVE  /\ IsFiniteSet(Places(u)) /\ Cardinality(Places(u)) \in Nat
         /\ Usage(u) \in Nat /\ Cardinality(Places(u)) <= Usage(u)
<1>1. Places(u) = Owned(u) \cup Reserved(u)
  BY DEF Places, Owned, Reserved
<1>2. IsFiniteSet(Owned(u)) /\ IsFiniteSet(Reserved(u)) /\ IsFiniteSet(Owned(u) \cap Reserved(u))
  BY FS_Subset, QuotaAssumption DEF Owned, Reserved
<1>3. /\ Cardinality(Owned(u)) \in Nat /\ Cardinality(Reserved(u)) \in Nat
      /\ Cardinality(Owned(u) \cap Reserved(u)) \in Nat
  BY <1>2, FS_CardinalityType
<1>4. /\ IsFiniteSet(Owned(u) \cup Reserved(u))
      /\ Cardinality(Owned(u) \cup Reserved(u)) =
           Cardinality(Owned(u)) + Cardinality(Reserved(u)) - Cardinality(Owned(u) \cap Reserved(u))
  BY <1>2, FS_Union
<1>5. Cardinality(Places(u)) \in Nat
  BY <1>1, <1>4, FS_CardinalityType
<1> QED BY <1>1, <1>3, <1>4, <1>5 DEF Usage

\* A cloud may be written when every user of the new row had it, or has a place left.
LEMMA CloudWritten ==
  ASSUME CloudsInv, Next, NEW c \in Clouds, clouds' \in [Clouds -> CloudRows],
         \A d \in Clouds \ {c} : clouds'[d] = clouds[d],
         CloudInv(c)', OffersInv',
         \A u \in Users : u \in {clouds'[c].owner, clouds'[c].target} =>
           c \in Places(u) \/ Cardinality(Places(u)) < Limit
  PROVE  CloudsInv'
<1>1. ASSUME NEW d \in Clouds PROVE CloudInv(d)'
  BY <1>1, AccountsStay DEF CloudsInv, CloudInv
<1>2. ASSUME NEW u \in Users PROVE Cardinality(Places(u))' <= Limit
  <2>1. IsFiniteSet(Places(u)) /\ Cardinality(Places(u)) \in Nat /\ Cardinality(Places(u)) <= Limit
    BY UsageCounts DEF CloudsInv
  <2>2. CASE c \in Places(u) \/ u \notin {clouds'[c].owner, clouds'[c].target}
    <3>1. Places(u)' \subseteq Places(u)
      BY <2>2 DEF Places
    <3>2. IsFiniteSet(Places(u)') /\ Cardinality(Places(u)') <= Cardinality(Places(u))
      BY <2>1, <3>1, FS_Subset
    <3> QED BY <2>1, <3>2, FS_CardinalityType, QuotaAssumption
  <2>3. CASE c \notin Places(u) /\ u \in {clouds'[c].owner, clouds'[c].target}
    <3>1. Places(u)' \subseteq Places(u) \cup {c}
      BY <2>3 DEF Places
    <3>2. IsFiniteSet(Places(u) \cup {c}) /\ Cardinality(Places(u) \cup {c}) = Cardinality(Places(u)) + 1
      BY <2>1, <2>3, FS_AddElement
    <3>3. IsFiniteSet(Places(u)') /\ Cardinality(Places(u)') <= Cardinality(Places(u)) + 1
      BY <3>1, <3>2, FS_Subset
    <3> QED BY <2>1, <2>3, <3>3, FS_CardinalityType, QuotaAssumption
  <2> QED BY <2>2, <2>3
<1> QED BY <1>1, <1>2 DEF CloudsInv

\* Without a write the clouds stay within the limits.
LEMMA CloudsRest ==
  ASSUME CloudsInv, Next, UNCHANGED clouds, OffersInv'
  PROVE  CloudsInv'
BY AccountsStay DEF CloudsInv, CloudInv, Places

\* A new cloud takes a place of its owner.
LEMMA CloudCreated ==
  ASSUME CloudsInv, AdminInv, Next, NEW c \in Clouds, NEW u \in Users, u \in known',
         clouds[c] = NoCloud, clouds' = [clouds EXCEPT ![c] = NewCloud(u)],
         Cardinality(Places(u)) < Limit, OffersInv'
  PROVE  CloudsInv'
<1> DEFINE row == NewCloud(u)
<1>1. /\ row \in CloudRows /\ row.owner = u /\ row.target = NoUser /\ row.version = 1 /\ row.granted = 0
  <2> DEFINE one == [NoCloud EXCEPT !.owner = u]
             two == [one EXCEPT !.version = 1]
             three == [two EXCEPT !.active = TRUE]
  <2>1. /\ NoCloud \in CloudRows /\ NoCloud.target = NoUser /\ NoCloud.granted = 0
    BY DEF NoCloud, CloudRows
  <2>2. one \in CloudRows /\ one.owner = u /\ one.target = NoUser /\ one.granted = 0
    BY <2>1 DEF CloudRows
  <2>3. two \in CloudRows /\ two.owner = u /\ two.target = NoUser /\ two.granted = 0 /\ two.version = 1
    BY <2>2 DEF CloudRows
  <2>4. three \in CloudRows /\ three.owner = u /\ three.target = NoUser /\ three.granted = 0 /\ three.version = 1
    BY <2>3 DEF CloudRows
  <2>5. row = [three EXCEPT !.allowed = FirstTransfers]
    BY DEF NewCloud
  <2> HIDE DEF row
  <2> QED BY <2>4, <2>5, QuotaAssumption DEF CloudRows
<1> HIDE DEF row
<1>2. clouds' \in [Clouds -> CloudRows] /\ clouds'[c] = row /\ \A d \in Clouds \ {c} : clouds'[d] = clouds[d]
  BY <1>1 DEF CloudsInv, row
<1>3. CloudInv(c)'
  BY <1>1, <1>2, AccountsStay DEF CloudInv
<1>4. \A v \in Users : v \in {clouds'[c].owner, clouds'[c].target} =>
           c \in Places(v) \/ Cardinality(Places(v)) < Limit
  BY <1>1, <1>2, AdminAssumption
<1> QED BY <1>2, <1>3, <1>4, CloudWritten

\* Accepting an offer takes a place of the target, and one of the allowance.
LEMMA TransferAccepted ==
  ASSUME QuotaInv, AdminInv, Next, NEW offer \in offers, AcceptOwnerHandoff(offer)
  PROVE  CloudsInv'
<1> DEFINE c == offer.cloud
           one == [clouds EXCEPT ![c].target = offer.target]
<1>1. c \in Clouds /\ offer.target \in Users /\ offer.target \in known /\ offer \in [cloud : Clouds, by : Users, target : Users, version : Nat]
  BY DEF QuotaInv, CloudsInv, OffersInv
<1>2. clouds \in [Clouds -> CloudRows] /\ clouds[c] \in CloudRows /\ CloudInv(c)
  BY <1>1 DEF QuotaInv, CloudsInv
<1>3. /\ one \in [Clouds -> CloudRows] /\ one[c].target = offer.target /\ one[c].owner = clouds[c].owner
      /\ one[c].version = clouds[c].version /\ one[c].active = clouds[c].active
      /\ \A d \in Clouds \ {c} : one[d] = clouds[d]
  BY <1>1, <1>2 DEF CloudRows
<1>4. clouds' = [one EXCEPT ![c].granted = clouds[c].allowed]
  BY DEF AcceptOwnerHandoff
<1> HIDE DEF one
<1>5. /\ clouds' \in [Clouds -> CloudRows] /\ clouds'[c].target = offer.target /\ clouds'[c].owner = clouds[c].owner
      /\ clouds'[c].version = clouds[c].version /\ clouds'[c].active = clouds[c].active
      /\ clouds'[c].granted = clouds[c].allowed
      /\ \A d \in Clouds \ {c} : clouds'[d] = clouds[d]
  BY <1>1, <1>2, <1>3, <1>4 DEF CloudRows
<1>6. clouds[c].version - 1 < clouds[c].allowed /\ clouds[c].version \in Nat /\ clouds[c].allowed \in Nat
  BY <1>2 DEF AcceptOwnerHandoff, CheckOwnerTransferQuota, OwnerTransferUsed, CloudRows
<1>7. CloudInv(c)'
  BY <1>1, <1>2, <1>5, <1>6, AccountsStay DEF CloudInv
<1>8. OffersInv'
  BY AccountsStay DEF AcceptOwnerHandoff, QuotaInv, CloudsInv, OffersInv
<1>9. Cardinality(Places(offer.target)) < Limit
  <2>1. Usage(offer.target) < Limit
    BY DEF AcceptOwnerHandoff, MayOwnMore
  <2> QED BY <2>1, UsageCounts, QuotaAssumption
<1>10. \A u \in Users : u \in {clouds'[c].owner, clouds'[c].target} =>
           c \in Places(u) \/ Cardinality(Places(u)) < Limit
  BY <1>1, <1>5, <1>9 DEF Places
<1> QED BY <1>1, <1>5, <1>7, <1>8, <1>10, CloudWritten DEF QuotaInv

\* The commit uses the place that was reserved.
LEMMA TransferCommitted ==
  ASSUME CloudsInv, AdminInv, Next, NEW c \in Clouds, CommitTransfer(c)
  PROVE  CloudsInv'
<1> DEFINE target == clouds[c].target
           one == [clouds EXCEPT ![c].owner = target]
           two == [one EXCEPT ![c].target = NoUser]
<1>1. clouds \in [Clouds -> CloudRows] /\ clouds[c] \in CloudRows /\ CloudInv(c)
  BY DEF CloudsInv
<1>2. /\ one \in [Clouds -> CloudRows] /\ one[c].owner = target /\ one[c].granted = clouds[c].granted
      /\ one[c].version = clouds[c].version /\ \A d \in Clouds \ {c} : one[d] = clouds[d]
  BY <1>1 DEF CloudRows
<1> HIDE DEF one
<1>3. /\ two \in [Clouds -> CloudRows] /\ two[c].owner = target /\ two[c].granted = clouds[c].granted
      /\ two[c].target = NoUser
      /\ two[c].version = clouds[c].version /\ \A d \in Clouds \ {c} : two[d] = clouds[d]
  BY <1>2 DEF CloudRows
<1>4. clouds' = [two EXCEPT ![c].version = @ + 1] /\ target # NoUser
  BY DEF CommitTransfer, one
<1> HIDE DEF two
<1>5. /\ clouds' \in [Clouds -> CloudRows] /\ clouds'[c].owner = target /\ clouds'[c].granted = clouds[c].granted
      /\ clouds'[c].target = NoUser
      /\ clouds'[c].version = clouds[c].version + 1 /\ \A d \in Clouds \ {c} : clouds'[d] = clouds[d]
  BY <1>1, <1>3, <1>4 DEF CloudRows
<1>6. CloudInv(c)'
  <2>1. clouds[c].version \in Nat /\ clouds[c].granted \in Nat /\ clouds[c].version <= clouds[c].granted
    BY <1>1, <1>4 DEF CloudInv, CloudRows
  <2>2. target \in known'
    BY <1>1, <1>4, AccountsStay DEF CloudInv
  <2> QED BY <1>5, <2>1, <2>2 DEF CloudInv
<1>7. OffersInv'
  BY AccountsStay DEF CommitTransfer, CloudsInv, OffersInv
<1>8. \A u \in Users : u \in {clouds'[c].owner, clouds'[c].target} =>
           c \in Places(u) \/ Cardinality(Places(u)) < Limit
  BY <1>5, AdminAssumption DEF Places
<1> QED BY <1>5, <1>6, <1>7, <1>8, CloudWritten

\* The steps of the quotas keep the clouds within the limits.
LEMMA CloudsStep ==
  ASSUME QuotaInv, AdminInv, Next, QuotaNext
  PROVE  CloudsInv'
<1>1. ASSUME NEW c \in Clouds, NEW u \in Users, BootstrapPlatformAdmin(c, u) PROVE CloudsInv'
  <2>1. OffersInv'
    BY <1>1, AccountsStay DEF BootstrapPlatformAdmin, QuotaInv, CloudsInv, OffersInv
  <2>2. CASE IsInstalled
    BY <1>1, <2>1, <2>2, CloudsRest DEF BootstrapPlatformAdmin, QuotaInv
  <2>3. CASE ~IsInstalled
    <3>1. Places(u) = {}
      <4>1. u \notin known /\ u # NoUser
        BY <1>1, <2>3, AdminAssumption DEF BootstrapPlatformAdmin
      <4> QED BY <4>1 DEF QuotaInv, CloudsInv, CloudInv, Places
    <3>2. Cardinality(Places(u)) < Limit
      BY <3>1, FS_EmptySet, QuotaAssumption
    <3>3. u \in known' /\ clouds[c] = NoCloud /\ clouds' = [clouds EXCEPT ![c] = NewCloud(u)]
      BY <1>1, <2>3 DEF BootstrapPlatformAdmin, EnsurePlatformAdmin
    <3> QED BY <2>1, <3>2, <3>3, CloudCreated DEF QuotaInv
  <2> QED BY <2>2, <2>3
<1>2. ASSUME NEW c \in Clouds, NEW u \in known, CreateDeveloperBrandCloud(c, u), offers' = offers PROVE CloudsInv'
  <2>1. u \in Users /\ u \in known'
    BY AccountsStay DEF AdminInv, AccountsInv
  <2>2. Cardinality(Places(u)) < Limit
    <3>1. Usage(u) < Limit
      BY <1>2 DEF CreateDeveloperBrandCloud, MayOwnMore
    <3> QED BY <3>1, UsageCounts, QuotaAssumption
  <2>3. OffersInv'
    BY <1>2, AccountsStay DEF QuotaInv, CloudsInv, OffersInv
  <2> QED BY <1>2, <2>1, <2>2, <2>3, CloudCreated DEF QuotaInv, CreateDeveloperBrandCloud
<1>3. ASSUME NEW c \in Clouds, NEW target \in known, CreateBrandCloudOwnerTransfer(c, target) PROVE CloudsInv'
  <2>1. clouds[c] \in CloudRows /\ clouds[c].owner \in known
    BY <1>3 DEF QuotaInv, CloudsInv, CreateBrandCloudOwnerTransfer, HandoffVersion, OwnsCloud, IsActivated, AdminInv,
                AccountsInv
  <2>2. [cloud |-> c, by |-> clouds[c].owner, target |-> target, version |-> clouds[c].version]
          \in [cloud : Clouds, by : Users, target : Users, version : Nat]
    BY <2>1 DEF CloudRows, AdminInv, AccountsInv
  <2>3. OffersInv'
    BY <1>3, <2>1, <2>2, AccountsStay DEF CreateBrandCloudOwnerTransfer, QuotaInv, CloudsInv, OffersInv
  <2> QED BY <1>3, <2>3, CloudsRest DEF CreateBrandCloudOwnerTransfer, QuotaInv
<1>4. ASSUME NEW offer \in offers, CancelOffer(offer) PROVE CloudsInv'
  <2>1. OffersInv'
    BY <1>4, AccountsStay DEF CancelOffer, QuotaInv, CloudsInv, OffersInv
  <2> QED BY <1>4, <2>1, CloudsRest DEF CancelOffer, QuotaInv
<1>5. ASSUME NEW c \in Clouds, offers' = offers,
             \/ clouds' = [clouds EXCEPT ![c].target = NoUser]
             \/ \E limit \in Transfers : clouds' = [clouds EXCEPT ![c].allowed = limit]
      PROVE CloudsInv'
  <2>1. clouds \in [Clouds -> CloudRows] /\ clouds[c] \in CloudRows /\ CloudInv(c)
    BY DEF QuotaInv, CloudsInv
  <2>2. /\ clouds' \in [Clouds -> CloudRows] /\ clouds'[c].owner = clouds[c].owner
        /\ clouds'[c].version = clouds[c].version /\ clouds'[c].active = clouds[c].active
        /\ clouds'[c].granted = clouds[c].granted
        /\ clouds'[c].target \in {clouds[c].target, NoUser} /\ \A d \in Clouds \ {c} : clouds'[d] = clouds[d]
    BY <1>5, <2>1, QuotaAssumption DEF CloudRows
  <2>3. CloudInv(c)'
    BY <2>1, <2>2, AccountsStay DEF CloudInv
  <2>4. OffersInv'
    BY <1>5, AccountsStay DEF QuotaInv, CloudsInv, OffersInv
  <2>5. \A u \in Users : u \in {clouds'[c].owner, clouds'[c].target} =>
           c \in Places(u) \/ Cardinality(Places(u)) < Limit
    BY <2>2, AdminAssumption DEF Places
  <2> QED BY <2>2, <2>3, <2>4, <2>5, CloudWritten DEF QuotaInv
<1>6. CASE UNCHANGED <<clouds, offers>>
  <2>1. OffersInv'
    BY <1>6, AccountsStay DEF QuotaInv, CloudsInv, OffersInv
  <2> QED BY <1>6, <2>1, CloudsRest DEF QuotaInv
<1>7. ASSUME NEW c \in Clouds, NEW u \in known,
             \/ createBrandCloud(c, u)
             \/ \E key \in Keys : createDeveloperBrandCloud(u, key, c) \/ updateDeveloperBrandCloud(u, key, c)
      PROVE CloudsInv'
  BY <1>2, <1>6, <1>7 DEF createBrandCloud, CreateBrandCloud, createDeveloperBrandCloud, CreateManagedBrandCloud,
                          updateDeveloperBrandCloud, UpdateManagedBrandCloud
<1>8. ASSUME NEW offer \in offers, acceptBrandCloudOwnerTransfer(offer) \/ cancelBrandCloudOwnerTransfer(offer)
      PROVE CloudsInv'
  BY <1>4, <1>8, TransferAccepted DEF acceptBrandCloudOwnerTransfer, cancelBrandCloudOwnerTransfer
<1>9. ASSUME NEW c \in Clouds, CommitTransfer(c) \/ CancelTransfer(c) \/ \E limit \in Transfers : updateOwnerTransferLimit(c, limit)
      PROVE CloudsInv'
  BY <1>5, <1>9, TransferCommitted DEF CancelTransfer, updateOwnerTransferLimit, SetOwnerTransferLimit, QuotaInv
<1>10. ASSUME NEW q \in QuotaRequests, NEW amount \in Amounts,
              \/ createQuotaRaiseRequest(q, amount)
              \/ \E approved \in BOOLEAN : decideQuotaRaiseRequest(q, approved, amount)
       PROVE CloudsInv'
  BY <1>6, <1>10 DEF createQuotaRaiseRequest, CreateQuotaRaiseRequest, decideQuotaRaiseRequest, DecideQuotaRaiseRequest
<1> QED BY <1>1, <1>3, <1>7, <1>8, <1>9, <1>10 DEF QuotaNext, createBrandCloudOwnerTransfer

\* A write leaves the receipt that refuses the next one with its key.
LEMMA WritesStep ==
  ASSUME QuotaInv, AdminInv, QuotaNext
  PROVE  WritesInv'
<1>1. ASSUME NEW w \in Writes, NEW receipt \in [cloud : Clouds \cup {Create}, version : Nat], receipt.version > 0,
             receipts[w] = NoReceipt,
             receipts' = [receipts EXCEPT ![w] = receipt], writes' = [writes EXCEPT ![w] = @ + 1]
      PROVE WritesInv'
  <2>1. writes[w] = 0 /\ receipt # NoReceipt
    <3>1. receipt # NoReceipt
      BY <1>1 DEF NoReceipt
    <3>2. writes[w] \in Nat /\ writes[w] <= 1 /\ writes[w] # 1
      BY <1>1 DEF QuotaInv, WritesInv
    <3> QED BY <3>1, <3>2
  <2> QED BY <1>1, <2>1 DEF QuotaInv, WritesInv
<1>2. ASSUME NEW u \in known, NEW key \in Keys, NEW c \in Clouds, NEW scope \in Clouds \cup {Create},
             NEW version \in Nat, version > 0,
             WriteManagedBrandCloud(u, scope, key, c, version)
      PROVE WritesInv'
  <2>1. <<u, scope, key>> \in Writes
    BY DEF Writes, AdminInv, AccountsInv
  <2>2. [cloud |-> c, version |-> version] \in [cloud : Clouds \cup {Create}, version : Nat]
    OBVIOUS
  <2> QED BY <1>1, <1>2, <2>1, <2>2 DEF WriteManagedBrandCloud, IsReplay
<1>3. ASSUME NEW u \in known, NEW key \in Keys, NEW c \in Clouds, UpdateManagedBrandCloud(u, key, c)
      PROVE WritesInv'
  <2>1. clouds[c].version \in Nat /\ clouds[c].version > 0
    BY <1>3 DEF UpdateManagedBrandCloud, OwnsCloud, QuotaInv, CloudsInv, CloudRows, CloudInv
  <2> QED BY <1>2, <1>3, <2>1 DEF UpdateManagedBrandCloud
<1>4. ASSUME NEW u \in known, NEW key \in Keys, NEW c \in Clouds, CreateManagedBrandCloud(u, key, c)
      PROVE WritesInv'
  BY <1>2, <1>4 DEF CreateManagedBrandCloud
<1>5. CASE UNCHANGED <<receipts, writes>>
  BY <1>5 DEF QuotaInv, WritesInv
<1> QED BY <1>3, <1>4, <1>5
     DEF QuotaNext, BootstrapPlatformAdmin, createBrandCloud, CreateBrandCloud, createBrandCloudOwnerTransfer,
         CreateBrandCloudOwnerTransfer, createDeveloperBrandCloud, updateDeveloperBrandCloud,
         acceptBrandCloudOwnerTransfer, AcceptOwnerHandoff, cancelBrandCloudOwnerTransfer,
         CancelOffer, CommitTransfer, CancelTransfer, updateOwnerTransferLimit, SetOwnerTransferLimit,
         createQuotaRaiseRequest, CreateQuotaRaiseRequest, decideQuotaRaiseRequest, DecideQuotaRaiseRequest

\* An approval raises the quota to what it grants, or leaves it above that.
LEMMA RaisesStep ==
  ASSUME QuotaInv, QuotaNext
  PROVE  RaisesInv'
<1> DEFINE Requests == [status : {"none", "pending", "approved", "declined"}, amount : Nat, granted : Nat]
<1>1. asked \in [QuotaRequests -> Requests] /\ quota \in BaseQuota..MaxQuota /\ quota \in Nat
  BY QuotaAssumption DEF QuotaInv, RaisesInv
<1>2. ASSUME NEW q \in QuotaRequests, NEW amount \in Amounts, CreateQuotaRaiseRequest(q, amount) PROVE RaisesInv'
  <2> DEFINE one == [NoRequest EXCEPT !.status = "pending"]
             row == [NoRequest EXCEPT !.status = "pending", !.amount = amount]
  <2>1. one \in Requests /\ one.status = "pending"
    BY DEF NoRequest
  <2>2. row = [one EXCEPT !.amount = amount] /\ amount \in Nat
    BY QuotaAssumption
  <2>3. row \in Requests /\ row.status = "pending"
    BY <2>1, <2>2
  <2>4. asked' = [asked EXCEPT ![q] = row] /\ quota' = quota /\ asked[q].status = "none"
    BY <1>2 DEF CreateQuotaRaiseRequest, NoRequest
  <2> HIDE DEF row
  <2> QED BY <1>1, <2>3, <2>4 DEF QuotaInv, RaisesInv
<1>3. ASSUME NEW q \in QuotaRequests, NEW amount \in Amounts, NEW approved \in BOOLEAN,
             DecideQuotaRaiseRequest(q, approved, amount)
      PROVE RaisesInv'
  <2> DEFINE limit == ApprovedLimit(q, amount)
             status == IF approved THEN "approved" ELSE "declined"
             granted == IF approved THEN limit ELSE 0
             one == [asked EXCEPT ![q].status = status]
  <2>1. limit \in Nat /\ limit <= MaxQuota
    BY <1>1, QuotaAssumption DEF ApprovedLimit, Lower
  <2>2. status \in {"approved", "declined"} /\ (status = "approved" <=> approved)
    OBVIOUS
  <2>3. granted \in Nat /\ (approved => granted = limit)
    BY <2>1
  <2>4. asked' = [one EXCEPT ![q].granted = granted]
    BY <1>3 DEF DecideQuotaRaiseRequest
  <2>5. quota' = IF approved THEN (IF limit > quota THEN limit ELSE quota) ELSE quota
    BY <1>3 DEF DecideQuotaRaiseRequest, ApprovedQuota
  <2>6. asked[q].status = "pending"
    BY <1>3 DEF DecideQuotaRaiseRequest
  <2> HIDE DEF limit, status, granted
  <2>7. /\ one \in [QuotaRequests -> Requests] /\ one[q].status = status
        /\ \A p \in QuotaRequests \ {q} : one[p] = asked[p]
    BY <1>1, <2>2
  <2> HIDE DEF one
  <2>8. /\ asked' \in [QuotaRequests -> Requests] /\ asked'[q].status = status /\ asked'[q].granted = granted
        /\ \A p \in QuotaRequests \ {q} : asked'[p] = asked[p]
    BY <2>3, <2>4, <2>7
  <2>9. quota' \in BaseQuota..MaxQuota /\ quota' >= quota
    BY <1>1, <2>1, <2>5, QuotaAssumption
  <2>10. quota' = BaseQuota \/ \E p \in QuotaRequests : asked'[p].status = "approved" /\ asked'[p].granted = quota'
    <3>1. CASE quota' = quota
      BY <2>6, <2>8, <3>1 DEF QuotaInv, RaisesInv
    <3>2. CASE approved /\ quota' = limit
      BY <2>2, <2>3, <2>8, <3>2
    <3> QED BY <2>5, <3>1, <3>2
  <2>11. ASSUME NEW p \in QuotaRequests, asked'[p].status = "approved" PROVE asked'[p].granted <= quota'
    <3>1. CASE p = q
      BY <1>1, <2>1, <2>2, <2>3, <2>5, <2>8, <2>11, <3>1
    <3>2. CASE p # q
      <4>1. asked[p].granted \in Nat /\ asked[p].granted <= quota
        BY <1>1, <2>8, <2>11, <3>2 DEF QuotaInv, RaisesInv
      <4> QED BY <1>1, <2>8, <2>9, <3>2, <4>1, QuotaAssumption
    <3> QED BY <3>1, <3>2
  <2> QED BY <2>8, <2>9, <2>10, <2>11 DEF RaisesInv
<1>4. CASE UNCHANGED <<asked, quota>>
  BY <1>4 DEF QuotaInv, RaisesInv
<1> QED BY <1>2, <1>3, <1>4
     DEF QuotaNext, BootstrapPlatformAdmin, createBrandCloud, CreateBrandCloud, createBrandCloudOwnerTransfer,
         CreateBrandCloudOwnerTransfer, createDeveloperBrandCloud, CreateManagedBrandCloud, updateDeveloperBrandCloud,
         UpdateManagedBrandCloud, acceptBrandCloudOwnerTransfer, AcceptOwnerHandoff, cancelBrandCloudOwnerTransfer,
         CancelOffer, CommitTransfer, CancelTransfer, updateOwnerTransferLimit, SetOwnerTransferLimit,
         createQuotaRaiseRequest, decideQuotaRaiseRequest

\* The clouds, the writes and the quota are always within their limits.
LEMMA QuotaAlways == Spec => []QuotaInv
<1>1. Init => QuotaInv
  BY QuotaStarts DEF Init
<1>2. QuotaInv /\ AdminInv /\ Next => QuotaInv'
  <2> SUFFICES ASSUME QuotaInv, AdminInv, Next PROVE QuotaInv'
    OBVIOUS
  <2>1. CASE QuotaNext
    BY <2>1, CloudsStep, WritesStep, RaisesStep DEF QuotaInv
  <2>2. CASE UNCHANGED quotaVars
    <3>1. OffersInv'
      BY <2>2, AccountsStay DEF quotaVars, QuotaInv, CloudsInv, OffersInv
    <3>2. CloudsInv'
      BY <2>2, <3>1, CloudsRest DEF quotaVars, QuotaInv
    <3> QED BY <2>2, <3>2 DEF quotaVars, QuotaInv, WritesInv, RaisesInv
  <2> QED BY <2>1, <2>2 DEF Next
<1>3. QuotaInv /\ UNCHANGED vars => QuotaInv'
  BY DEF vars, users, quotaVars, QuotaInv, CloudsInv, OffersInv, CloudInv, Places, WritesInv, RaisesInv
<1> QED BY <1>1, <1>2, <1>3, AdminAlways, PTL DEF Spec

\* Whatever order clouds are created, offered and taken over in and raises are
\* asked for and approved in: nobody owns or has reserved more clouds than the
\* limit, no cloud changes hands more often than allowed, no key writes twice, and
\* the device quota is the largest one approved.
THEOREM LimitsAlwaysHold == Spec => []LimitsHold
<1>1. QuotaInv => LimitsHold
  <2> SUFFICES ASSUME QuotaInv PROVE LimitsHold
    OBVIOUS
  <2>1. LimitHolds
    BY DEF QuotaInv, CloudsInv, Places, LimitHolds
  <2>2. AllowanceHolds
    BY DEF QuotaInv, CloudsInv, CloudRows, CloudInv, AllowanceHolds, OwnerTransferUsed
  <2>3. AppliedOnce
    BY DEF QuotaInv, WritesInv, AppliedOnce
  <2>4. QuotaIsApproved
    BY QuotaAssumption DEF QuotaInv, RaisesInv, QuotaIsApproved
  <2> QED BY <2>1, <2>2, <2>3, <2>4 DEF LimitsHold
<1> QED BY <1>1, QuotaAlways, PTL

-----------------------------------------------------------------------------
(* The members.                                                            *)

MemberInvitations ==
  {i \in [by : Users, role : {"admin", "member", "viewer"}, scope : Scopes, age : 0..Lapsed] :
     (i.role = "viewer") <=> (i.scope # "none")}
ProductInvitations == [by : Users, role : Collaborators, scope : {"none"}, age : 0..Lapsed]

MembersTyped ==
  /\ member \in [Orgs -> [Users -> MemberRows]]
  /\ hold \subseteq Users
  /\ minvite \in [Users -> MemberInvitations \cup {NoInvite}]
  /\ pinvite \in [Users -> ProductInvitations \cup {NoInvite}]
  /\ admitted \subseteq Users /\ grants \subseteq Users \X ProductRoles /\ direct \subseteq grants
  /\ cloud \in [active : BOOLEAN, handoff : [target : Users \cup {NoUser}, committed : BOOLEAN]]

\* A member is an account, a viewer of a cloud and nobody else has a scope, and
\* whoever has no role is no member.
RowInv(o, u) ==
  LET row == member[o][u]
  IN  /\ row.role # "none" => u \in known
      /\ row.role = "none" => row = NoMember
      /\ (row.role = "viewer") <=> (row.scope # "none")
      /\ row.role = "viewer" => o = "cloud"

\* The cloud has one owner, who is not the target of a handoff that is not committed.
OwnerInv ==
  /\ \E u \in Users : \A v \in Users : IsOwner("cloud", v) <=> v = u
  /\ cloud.handoff.target # NoUser /\ ~cloud.handoff.committed => ~IsOwner("cloud", cloud.handoff.target)

\* The roles on the product that its managers gave rest on the membership.
GrantsInv ==
  /\ \A g \in grants \ direct : IsBacked(g)
  /\ \A u \in admitted : member["cloud"][u].role \notin {"none", "viewer"}
  /\ \A g, h \in grants \ direct : g[2] = "owner" /\ h[2] = "owner" => g = h

InvitesInv ==
  /\ \A u \in Users : IsPending(pinvite, u) => IsMember("cloud", u) /\ IsMember("cloud", pinvite[u].by)
  /\ \A u \in Users : IsPending(minvite, u) => IsOwner("cloud", minvite[u].by)

RowsInv == \A o \in Orgs, u \in Users : RowInv(o, u)

MembersInv == MembersTyped /\ RowsInv /\ OwnerInv /\ HoldIsOurs /\ GrantsInv /\ InvitesInv

\* The start of the members.
LEMMA MembersStart ==
  ASSUME NEW start \in Starts, AdminInit(start), MembersInit(start)
  PROVE  MembersInv
<1> DEFINE rows(o) == Users \cap DOMAIN start.member[o]
<1>1. \A o \in Orgs, u \in Users : member[o][u] = IF u \in rows(o) THEN start.member[o][u] ELSE NoMember
  BY DEF MembersInit
<1>2. ASSUME NEW o \in Orgs, NEW u \in Users PROVE member[o][u] \in MemberRows /\ RowInv(o, u)
  <2>1. CASE u \in rows(o)
    BY <1>1, <2>1, MembersAssumption DEF RowInv, AdminInit
  <2>2. CASE u \notin rows(o)
    BY <1>1, <2>2 DEF RowInv, NoMember, Row, MemberRows, Scopes
  <2> QED BY <2>1, <2>2
<1>3. member \in [Orgs -> [Users -> MemberRows]]
  BY <1>2 DEF MembersInit
<1>4. \E u \in Users : \A v \in Users : IsOwner("cloud", v) <=> v = u
  <2>1. "cloud" \in Orgs
    BY DEF Orgs
  <2>2. PICK u \in Users : \A v \in Users :
          (v \in DOMAIN start.member["cloud"] /\ start.member["cloud"][v].role = "owner") <=> v = u
    BY MembersAssumption
  <2>3. ASSUME NEW v \in Users PROVE IsOwner("cloud", v) <=> v = u
    BY <1>1, <2>1, <2>2 DEF IsOwner, NoMember, Row
  <2> QED BY <2>3
<1>5. cloud \in [active : BOOLEAN, handoff : [target : Users \cup {NoUser}, committed : BOOLEAN]] /\ OwnerInv
  BY <1>4 DEF MembersInit, NoHandoff, OwnerInv
<1>6. /\ minvite \in [Users -> MemberInvitations \cup {NoInvite}] /\ pinvite \in [Users -> ProductInvitations \cup {NoInvite}]
      /\ InvitesInv
  BY DEF MembersInit, InvitesInv, IsPending
<1>7. \A g \in grants : g \in Users \X ProductRoles /\ member["cloud"][g[1]].role = "owner" /\ g[2] = "owner"
  <2>1. grants = {<<u, "owner">> : u \in {v \in Users : member["cloud"][v].role = "owner"}}
    BY DEF MembersInit
  <2> QED BY <2>1 DEF ProductRoles
<1>8. MembersTyped
  BY <1>3, <1>5, <1>6, <1>7 DEF MembersTyped, MembersInit
<1>9. GrantsInv
  <2>1. \A g, h \in grants : g = h
    BY <1>4, <1>7 DEF IsOwner
  <2> QED BY <1>7, <2>1 DEF GrantsInv, IsBacked, MembersInit
<1>10. HoldIsOurs
  BY DEF MembersInit, HoldIsOurs
<1> QED BY <1>2, <1>5, <1>6, <1>8, <1>9, <1>10 DEF MembersInv, RowsInv

-----------------------------------------------------------------------------
(* The rows a step writes.                                                 *)

\* The step writes one row.
Wrote(o, u, row) ==
  /\ member' \in [Orgs -> [Users -> MemberRows]] /\ member'[o][u] = row
  /\ \A p \in Orgs, v \in Users : p # o \/ v # u => member'[p][v] = member[p][v]

\* An assignment to a row writes it and no other.
LEMMA RowWritten ==
  ASSUME MembersTyped, NEW o \in Orgs, NEW u \in Users, NEW row \in MemberRows,
         member' = [member EXCEPT ![o][u] = row]
  PROVE  Wrote(o, u, row)
BY DEF MembersTyped, Wrote

\* A change of "off" or of "role" writes the row with that change.
LEMMA FieldWritten ==
  ASSUME MembersTyped, NEW o \in Orgs, NEW u \in Users
  PROVE  /\ \A off \in {"no", "pending", "disabled"} : member' = [member EXCEPT ![o][u].off = off] =>
              Wrote(o, u, Row(member[o][u].role, off, member[o][u].scope))
         /\ \A role \in {"owner", "admin", "member"} : member' = [member EXCEPT ![o][u].role = role] =>
              Wrote(o, u, Row(role, member[o][u].off, member[o][u].scope))
<1>1. member[o][u] \in MemberRows
  BY DEF MembersTyped
<1>2. ASSUME NEW off \in {"no", "pending", "disabled"}, member' = [member EXCEPT ![o][u].off = off]
      PROVE Wrote(o, u, Row(member[o][u].role, off, member[o][u].scope))
  <2>1. [member[o][u] EXCEPT !.off = off] = Row(member[o][u].role, off, member[o][u].scope)
    BY <1>1 DEF MemberRows, Row
  <2>2. Row(member[o][u].role, off, member[o][u].scope) \in MemberRows
    BY <1>1 DEF MemberRows, Row
  <2>3. member' = [member EXCEPT ![o][u] = [member[o][u] EXCEPT !.off = off]]
    BY <1>2 DEF MembersTyped
  <2> QED BY <2>1, <2>2, <2>3, RowWritten
<1>3. ASSUME NEW role \in {"owner", "admin", "member"}, member' = [member EXCEPT ![o][u].role = role]
      PROVE Wrote(o, u, Row(role, member[o][u].off, member[o][u].scope))
  <2>1. [member[o][u] EXCEPT !.role = role] = Row(role, member[o][u].off, member[o][u].scope)
    BY <1>1 DEF MemberRows, Row
  <2>2. Row(role, member[o][u].off, member[o][u].scope) \in MemberRows
    BY <1>1 DEF MemberRows, Row
  <2>3. member' = [member EXCEPT ![o][u] = [member[o][u] EXCEPT !.role = role]]
    BY <1>3 DEF MembersTyped
  <2> QED BY <2>1, <2>2, <2>3, RowWritten
<1> QED BY <1>2, <1>3

\* A member is whoever has a role.
LEMMA MembersHaveRoles ==
  ASSUME MembersTyped, RowsInv, NEW o \in Orgs, NEW u \in Users
  PROVE  IsMember(o, u) <=> member[o][u].role # "none"
BY DEF RowsInv, RowInv, IsMember, NoMember, Row

\* CloudOwner is the owner of the cloud.
LEMMA OwnerIs ==
  ASSUME OwnerInv
  PROVE  CloudOwner \in Users /\ IsOwner("cloud", CloudOwner) /\ \A v \in Users : IsOwner("cloud", v) => v = CloudOwner
BY DEF OwnerInv, CloudOwner

\* The rows stay in order when the row that is written is.
LEMMA RowsWrite ==
  ASSUME MembersTyped, RowsInv, NEW o \in Orgs, NEW u \in Users, NEW row, Wrote(o, u, row), known \subseteq known',
         /\ row.role # "none" => u \in known'
         /\ row.role = "none" => row = NoMember
         /\ (row.role = "viewer") <=> (row.scope # "none")
         /\ row.role = "viewer" => o = "cloud"
  PROVE  RowsInv'
<1>1. ASSUME NEW p \in Orgs, NEW v \in Users PROVE RowInv(p, v)'
  <2>1. CASE p = o /\ v = u
    BY <2>1 DEF Wrote, RowInv
  <2>2. CASE p # o \/ v # u
    <3>1. member'[p][v] = member[p][v]
      BY <2>2 DEF Wrote
    <3> QED BY <3>1 DEF RowsInv, RowInv
  <2> QED BY <2>1, <2>2
<1> QED BY <1>1 DEF RowsInv

\* With the roles and the scopes of the cloud, what rests on them stays.
LEMMA RolesKept ==
  ASSUME MembersInv, MembersTyped', RowsInv',
         \A v \in Users : /\ member'["cloud"][v].role = member["cloud"][v].role
                          /\ member'["cloud"][v].scope = member["cloud"][v].scope,
         UNCHANGED <<invites, product>>, cloud'.handoff = cloud.handoff
  PROVE  OwnerInv' /\ GrantsInv' /\ InvitesInv'
<1>1. UNCHANGED <<minvite, pinvite, admitted, grants, direct>>
  BY DEF invites, product
<1>2. \A v \in Users : IsOwner("cloud", v)' <=> IsOwner("cloud", v)
  BY DEF IsOwner
<1>3. \A v \in Users : IsMember("cloud", v)' <=> IsMember("cloud", v)
  <2>1. "cloud" \in Orgs
    BY DEF Orgs
  <2>2. ASSUME NEW v \in Users PROVE IsMember("cloud", v)' <=> member'["cloud"][v].role # "none"
    BY <2>1 DEF RowsInv, RowInv, IsMember, NoMember, Row
  <2> QED BY <2>1, <2>2, MembersHaveRoles DEF MembersInv
<1>4. OwnerInv'
  <2>1. cloud.handoff.target \in Users \cup {NoUser}
    BY DEF MembersInv, MembersTyped
  <2> QED BY <1>2, <2>1 DEF MembersInv, OwnerInv
<1>5. GrantsInv'
  <2>1. \A g \in grants : g[1] \in Users
    BY DEF MembersInv, MembersTyped
  <2> QED BY <1>1, <2>1 DEF MembersInv, MembersTyped, GrantsInv, IsBacked
<1>6. InvitesInv'
  <2>1. \A v \in Users : IsPending(pinvite, v) => pinvite[v].by \in Users
    BY DEF MembersInv, MembersTyped, IsPending, ProductInvitations
  <2>2. \A v \in Users : IsPending(minvite, v) => minvite[v].by \in Users
    BY DEF MembersInv, MembersTyped, IsPending, MemberInvitations
  <2> QED BY <1>1, <1>2, <1>3, <2>1, <2>2 DEF MembersInv, InvitesInv, IsPending
<1> QED BY <1>4, <1>5, <1>6

\* A step that only writes a row of the customer organization.
LEMMA OrgWrite ==
  ASSUME MembersInv, NEW u \in Users, NEW row, Wrote("org", u, row),
         UNCHANGED <<users, hold, invites, product, cloud>>,
         row.role # "none" => u \in known, row.role = "none" => row = NoMember,
         row.role # "viewer", row.scope = "none"
  PROVE  MembersInv'
<1>1. "org" \in Orgs /\ "cloud" \in Orgs
  BY DEF Orgs
<1>2. MembersTyped'
  BY DEF MembersInv, MembersTyped, Wrote, invites, product
<1>3. RowsInv'
  BY <1>1, RowsWrite DEF MembersInv, users
<1>4. \A v \in Users : member'["cloud"][v] = member["cloud"][v]
  BY <1>1 DEF Wrote
<1>5. OwnerInv' /\ GrantsInv' /\ InvitesInv'
  BY <1>2, <1>3, <1>4, RolesKept
<1>6. HoldIsOurs'
  BY <1>4 DEF MembersInv, MembersTyped, HoldIsOurs, users
<1> QED BY <1>2, <1>3, <1>5, <1>6 DEF MembersInv

\* A step that suspends a member of the cloud, or lifts a suspension.
LEMMA OffWrite ==
  ASSUME MembersInv, NEW u \in Users, NEW off, IsMember("cloud", u),
         Wrote("cloud", u, Row(member["cloud"][u].role, off, member["cloud"][u].scope)),
         known' = known, hold' \subseteq hold \ {u}, \A v \in hold' : v \in enabled' \ verified',
         UNCHANGED <<invites, product, cloud>>
  PROVE  MembersInv'
<1> DEFINE row == Row(member["cloud"][u].role, off, member["cloud"][u].scope)
<1>1. "cloud" \in Orgs /\ hold' \subseteq Users
  BY DEF Orgs, MembersInv, MembersTyped
<1>2. MembersTyped'
  BY <1>1 DEF MembersInv, MembersTyped, Wrote, invites, product
<1>3. row.role = member["cloud"][u].role /\ row.scope = member["cloud"][u].scope
  BY DEF Row
<1>4. row.role # "none"
  BY <1>1, <1>3, MembersHaveRoles DEF MembersInv
<1>5. RowInv("cloud", u)
  BY <1>1 DEF MembersInv, RowsInv
<1> HIDE DEF row
<1>6. RowsInv'
  BY <1>1, <1>3, <1>4, <1>5, RowsWrite DEF MembersInv, RowInv, row
<1>7. \A v \in Users : /\ member'["cloud"][v].role = member["cloud"][v].role
                       /\ member'["cloud"][v].scope = member["cloud"][v].scope
                       /\ v # u => member'["cloud"][v].off = member["cloud"][v].off
  BY <1>1, <1>3 DEF Wrote, row
<1>8. OwnerInv' /\ GrantsInv' /\ InvitesInv'
  BY <1>2, <1>6, <1>7, RolesKept
<1>9. HoldIsOurs'
  BY <1>1, <1>7 DEF MembersInv, HoldIsOurs
<1> QED BY <1>2, <1>6, <1>8, <1>9 DEF MembersInv

\* A step that leaves the rows alone and changes only accounts and holds.
LEMMA AccountWrite ==
  ASSUME MembersInv, known \subseteq known', hold' \subseteq hold, \A v \in hold' : v \in enabled' \ verified',
         UNCHANGED <<member, invites, product, cloud>>
  PROVE  MembersInv'
<1>1. MembersTyped'
  BY DEF MembersInv, MembersTyped, invites, product
<1>2. RowsInv'
  BY DEF MembersInv, RowsInv, RowInv
<1>3. OwnerInv' /\ GrantsInv' /\ InvitesInv'
  BY <1>1, <1>2, RolesKept
<1>4. HoldIsOurs'
  BY DEF MembersInv, HoldIsOurs
<1> QED BY <1>1, <1>2, <1>3, <1>4 DEF MembersInv

\* The handlers of the customer organization keep the members in order.
LEMMA OrganizationSteps ==
  ASSUME MembersInv, AccountsInv, NEW u \in known, NEW role \in {"owner", "admin", "member"},
         \/ CreateOrganization(u) \/ AddMember(u, role) \/ UpdateMemberRole(u, role) \/ RemoveMember("org", u)
  PROVE  MembersInv'
<1>1. "org" \in Orgs /\ u \in Users /\ MembersTyped
  BY DEF Orgs, AccountsInv, MembersInv
<1>2. CASE CreateOrganization(u) \/ AddMember(u, role)
  <2>1. PICK given \in {"owner", "admin", "member"} : member' = [member EXCEPT !["org"][u] = Row(given, "no", "none")]
    BY <1>2 DEF CreateOrganization, AddMember
  <2> DEFINE row == Row(given, "no", "none")
  <2>2. row \in MemberRows /\ row.role \in {"owner", "admin", "member"} /\ row.scope = "none"
    BY <2>1 DEF Row, MemberRows, Scopes
  <2> HIDE DEF row
  <2>3. Wrote("org", u, row)
    BY <1>1, <2>1, <2>2, RowWritten DEF row
  <2>4. UNCHANGED <<users, hold, invites, product, cloud>>
    BY <1>2 DEF CreateOrganization, AddMember
  <2> QED BY <1>1, <2>2, <2>3, <2>4, OrgWrite
<1>3. CASE UpdateMemberRole(u, role)
  <2> DEFINE row == Row(role, member["org"][u].off, member["org"][u].scope)
  <2>1. RowInv("org", u) /\ member["org"][u] \in MemberRows
    BY <1>1 DEF MembersInv, RowsInv, MembersTyped
  <2>2. row.role = role /\ row.scope = "none"
    BY <2>1 DEF Row, RowInv
  <2>3. Wrote("org", u, row)
    BY <1>1, <1>3, FieldWritten DEF UpdateMemberRole
  <2>4. UNCHANGED <<users, hold, invites, product, cloud>>
    BY <1>3 DEF UpdateMemberRole
  <2> HIDE DEF row
  <2> QED BY <1>1, <2>2, <2>3, <2>4, OrgWrite
<1>4. CASE RemoveMember("org", u)
  <2>1. NoMember \in MemberRows /\ NoMember.role = "none" /\ NoMember.scope = "none"
    BY DEF NoMember, Row, MemberRows, Scopes
  <2>2. Wrote("org", u, NoMember)
    BY <1>1, <1>4, <2>1, RowWritten DEF RemoveMember
  <2>3. UNCHANGED <<users, hold, invites, product, cloud>>
    BY <1>4 DEF RemoveMember
  <2> QED BY <1>1, <2>1, <2>2, <2>3, OrgWrite
<1> QED BY <1>2, <1>3, <1>4

\* So do the handlers that disable and enable accounts and suspend members, and the verification of an e-mail.
LEMMA SuspensionSteps ==
  ASSUME MembersInv, AccountsInv, NEW u \in known, NEW o \in Orgs,
         \/ DisableMemberUser(o, u) \/ EnableMemberUser(o, u) \/ DisableCurrentUser(u) \/ VerifyEmail(u)
         \/ DisableDeveloperBrandCloudMember(u) \/ EnableDeveloperBrandCloudMember(u)
  PROVE  MembersInv'
<1>1. "cloud" \in Orgs /\ u \in Users /\ MembersTyped /\ HoldIsOurs
  BY DEF Orgs, AccountsInv, MembersInv
<1>2. CASE DisableMemberUser(o, u) \/ DisableCurrentUser(u)
  <2>1. hold' = hold \ {u} /\ enabled' = enabled \ {u} /\ UNCHANGED <<known, verified, member, invites, product, cloud>>
    BY <1>2 DEF DisableMemberUser, DisableCurrentUser
  <2> QED BY <1>1, <2>1, AccountWrite DEF HoldIsOurs
<1>3. CASE EnableMemberUser(o, u)
  <2>1. hold' = hold /\ enabled' = enabled \cup {u} /\ UNCHANGED <<known, verified, member, invites, product, cloud>>
    BY <1>3 DEF EnableMemberUser, memberVars
  <2> QED BY <1>1, <2>1, AccountWrite DEF HoldIsOurs
<1>4. CASE VerifyEmail(u)
  <2>1. hold' = hold \ {u} /\ verified' = verified \cup {u} /\ UNCHANGED <<known, enabled, invites, product, cloud>>
    BY <1>4 DEF VerifyEmail
  <2>2. CASE u \in hold
    <3>1. IsMember("cloud", u)
      BY <1>1, <2>2 DEF HoldIsOurs, IsMember, NoMember, Row
    <3>2. Wrote("cloud", u, Row(member["cloud"][u].role, "no", member["cloud"][u].scope))
      BY <1>1, <1>4, <2>2, FieldWritten DEF VerifyEmail
    <3> QED BY <1>1, <2>1, <3>1, <3>2, OffWrite DEF HoldIsOurs
  <2>3. CASE u \notin hold
    BY <1>1, <1>4, <2>1, <2>3, AccountWrite DEF HoldIsOurs, VerifyEmail
  <2> QED BY <2>2, <2>3
<1>5. CASE DisableDeveloperBrandCloudMember(u) \/ EnableDeveloperBrandCloudMember(u)
  <2>1. PICK off \in {"no", "disabled"} : member' = [member EXCEPT !["cloud"][u].off = off]
    BY <1>5 DEF DisableDeveloperBrandCloudMember, EnableDeveloperBrandCloudMember
  <2>2. Wrote("cloud", u, Row(member["cloud"][u].role, off, member["cloud"][u].scope))
    BY <1>1, <2>1, FieldWritten
  <2>3. IsMember("cloud", u) /\ hold' = hold \ {u} /\ UNCHANGED <<users, invites, product, cloud>>
    BY <1>5 DEF DisableDeveloperBrandCloudMember, EnableDeveloperBrandCloudMember, EnsureNotLastActiveOwner,
                InvalidateActivationHold
  <2> QED BY <1>1, <2>2, <2>3, OffWrite DEF HoldIsOurs, users
<1> QED BY <1>2, <1>3, <1>4, <1>5

\* A member of the cloud who is neither owner nor viewer, and stays so or joins so,
\* takes nothing along.
LEMMA ProvisionStep ==
  ASSUME MembersInv, AccountsInv, NEW u \in Users, NEW role \in {"admin", "member"},
         NEW mode \in {"email", "immediate"}, NEW rotate \in BOOLEAN,
         ProvisionBrandCloudAccount(u, role, mode, rotate)
  PROVE  MembersInv'
<1> DEFINE new == u \notin known
           proven == u \in verified \/ (mode = "immediate" /\ (new \/ rotate))
           waits == mode = "email" /\ ~proven
           old == member["cloud"][u]
           fresh == old = NoMember
           off == IF ~waits THEN "no" ELSE IF fresh THEN "pending" ELSE old.off
           row == Row(role, off, "none")
           held == waits /\ (fresh \/ (old.role = role /\ u \in hold))
<1>1. "cloud" \in Orgs /\ MembersTyped /\ old \in MemberRows /\ RowInv("cloud", u)
  BY DEF Orgs, MembersInv, MembersTyped, RowsInv
<1>2. /\ old.role \notin {"owner", "viewer"} /\ known' = known \cup {u} /\ enabled' = enabled \cup {u}
      /\ member' = [member EXCEPT !["cloud"][u] = row]
      /\ hold' = IF held THEN hold \cup {u} ELSE hold \ {u}
      /\ verified' = IF proven THEN verified \cup {u} ELSE verified
      /\ UNCHANGED <<invites, product, cloud>>
  BY DEF ProvisionBrandCloudAccount
<1>3. off \in {"no", "pending", "disabled"}
  BY <1>1 DEF MemberRows
<1>4. row \in MemberRows /\ row.role = role /\ row.scope = "none" /\ row.off = off
  BY <1>3 DEF MemberRows, Row, Scopes
<1>5. Wrote("cloud", u, row)
  BY <1>1, <1>2, <1>4, RowWritten
<1>6. held => u \notin verified /\ off = "pending"
  BY DEF MembersInv, HoldIsOurs
<1>7. HoldIsOurs'
  <2>1. ASSUME NEW v \in hold' PROVE v \in enabled' \ verified' /\ member'["cloud"][v].off = "pending"
    <3>1. CASE v = u
      BY <1>2, <1>4, <1>5, <1>6, <2>1, <3>1 DEF Wrote
    <3>2. CASE v # u
      <4>1. v \in hold /\ v \in Users
        BY <1>1, <1>2, <2>1, <3>2 DEF MembersTyped
      <4> QED BY <1>1, <1>2, <1>5, <3>2, <4>1 DEF Wrote, MembersInv, HoldIsOurs
    <3> QED BY <3>1, <3>2
  <2> QED BY <2>1 DEF HoldIsOurs
<1> HIDE DEF row, off, held
<1>8. MembersTyped'
  <2>1. hold' \subseteq Users
    BY <1>1, <1>2 DEF MembersTyped
  <2> QED BY <1>1, <1>2, <1>5, <2>1 DEF MembersTyped, Wrote, invites, product
<1>9. RowsInv'
  BY <1>1, <1>2, <1>4, <1>5, RowsWrite DEF MembersInv
<1>10. \A v \in Users \ {u} : member'["cloud"][v] = member["cloud"][v]
  BY <1>1, <1>5 DEF Wrote
<1>11. member'["cloud"][u].role = role
  BY <1>4, <1>5 DEF Wrote
<1>12. \A v \in Users : IsOwner("cloud", v)' <=> IsOwner("cloud", v)
  BY <1>2, <1>10, <1>11 DEF IsOwner
<1>13. OwnerInv'
  <2>1. cloud.handoff.target \in Users \cup {NoUser}
    BY <1>1 DEF MembersTyped
  <2> QED BY <1>2, <1>12, <2>1 DEF MembersInv, OwnerInv
<1>14. GrantsInv'
  <2>1. UNCHANGED <<admitted, grants, direct>>
    BY <1>2 DEF product
  <2>2. ASSUME NEW g \in grants \ direct PROVE IsBacked(g)'
    <3>1. g[1] \in Users /\ IsBacked(g)
      BY <1>1 DEF MembersTyped, MembersInv, GrantsInv
    <3>2. CASE g[1] = u
      BY <1>2, <1>11, <2>1, <3>1, <3>2 DEF IsBacked
    <3>3. CASE g[1] # u
      BY <1>10, <2>1, <3>1, <3>3 DEF IsBacked
    <3> QED BY <3>2, <3>3
  <2>3. ASSUME NEW v \in admitted PROVE member'["cloud"][v].role \notin {"none", "viewer"}
    BY <1>1, <1>10, <1>11 DEF MembersTyped, MembersInv, GrantsInv
  <2> QED BY <2>1, <2>2, <2>3 DEF MembersInv, GrantsInv
<1>15. InvitesInv'
  <2>1. UNCHANGED <<minvite, pinvite>>
    BY <1>2 DEF invites
  <2>2. \A v \in Users : IsMember("cloud", v) => IsMember("cloud", v)'
    BY <1>10, <1>11 DEF IsMember, NoMember, Row
  <2>3. \A v \in Users : IsPending(pinvite, v) => pinvite[v].by \in Users
    BY <1>1 DEF MembersTyped, IsPending, ProductInvitations
  <2>4. \A v \in Users : IsPending(minvite, v) => minvite[v].by \in Users
    BY <1>1 DEF MembersTyped, IsPending, MemberInvitations
  <2> QED BY <1>12, <2>1, <2>2, <2>3, <2>4 DEF MembersInv, InvitesInv, IsPending
<1> QED BY <1>7, <1>8, <1>9, <1>13, <1>14, <1>15 DEF MembersInv

\* Writing the row of somebody who is not the owner and does not become it leaves the ownership.
LEMMA OwnerKept ==
  ASSUME MembersInv, NEW u \in Users, NEW row, Wrote("cloud", u, row), ~IsOwner("cloud", u), row.role # "owner",
         cloud'.handoff = cloud.handoff
  PROVE  /\ OwnerInv' /\ \A v \in Users : IsOwner("cloud", v)' <=> IsOwner("cloud", v)
         /\ member'["cloud"][u] = row /\ \A v \in Users \ {u} : member'["cloud"][v] = member["cloud"][v]
<1>1. member'["cloud"][u] = row /\ \A v \in Users \ {u} : member'["cloud"][v] = member["cloud"][v]
  BY DEF Wrote, Orgs
<1>2. \A v \in Users : IsOwner("cloud", v)' <=> IsOwner("cloud", v)
  BY <1>1 DEF IsOwner
<1>3. cloud.handoff.target \in Users \cup {NoUser}
  BY DEF MembersInv, MembersTyped
<1> QED BY <1>1, <1>2, <1>3 DEF MembersInv, OwnerInv

\* Taking a user from the invitations to the cloud leaves the others as they were.
LEMMA MemberInvitesWithout ==
  ASSUME NEW invite \in [Users -> MemberInvitations \cup {NoInvite}], NEW u \in Users
  PROVE  /\ Without(invite, u) \in [Users -> MemberInvitations \cup {NoInvite}]
         /\ WithoutTarget(invite, u) \in [Users -> MemberInvitations \cup {NoInvite}]
         /\ \A t \in Users : IsPending(Without(invite, u), t) =>
              /\ IsPending(invite, t) /\ t # u /\ invite[t].by # u
              /\ Without(invite, u)[t] = invite[t] /\ invite[t].by \in Users
         /\ \A t \in Users : IsPending(WithoutTarget(invite, u), t) =>
              /\ IsPending(invite, t) /\ t # u
              /\ WithoutTarget(invite, u)[t] = invite[t] /\ invite[t].by \in Users
<1>1. \A t \in Users : IsPending(invite, t) => invite[t].by \in Users
  BY DEF IsPending, MemberInvitations
<1>2. /\ Without(invite, u) \in [Users -> MemberInvitations \cup {NoInvite}]
      /\ \A t \in Users : Without(invite, u)[t] = IF u \in {t, invite[t].by} THEN NoInvite ELSE invite[t]
  BY DEF Without
<1>3. /\ WithoutTarget(invite, u) \in [Users -> MemberInvitations \cup {NoInvite}]
      /\ \A t \in Users : WithoutTarget(invite, u)[t] = IF t = u THEN NoInvite ELSE invite[t]
  BY DEF WithoutTarget
<1> QED BY <1>1, <1>2, <1>3 DEF IsPending

\* So it does with the invitations to the product.
LEMMA ProductInvitesWithout ==
  ASSUME NEW invite \in [Users -> ProductInvitations \cup {NoInvite}], NEW u \in Users
  PROVE  /\ Without(invite, u) \in [Users -> ProductInvitations \cup {NoInvite}]
         /\ WithoutTarget(invite, u) \in [Users -> ProductInvitations \cup {NoInvite}]
         /\ \A t \in Users : IsPending(Without(invite, u), t) =>
              /\ IsPending(invite, t) /\ t # u /\ invite[t].by # u
              /\ Without(invite, u)[t] = invite[t] /\ invite[t].by \in Users
         /\ \A t \in Users : IsPending(WithoutTarget(invite, u), t) =>
              /\ IsPending(invite, t) /\ t # u
              /\ WithoutTarget(invite, u)[t] = invite[t] /\ invite[t].by \in Users
<1>1. \A t \in Users : IsPending(invite, t) => invite[t].by \in Users
  BY DEF IsPending, ProductInvitations
<1>2. /\ Without(invite, u) \in [Users -> ProductInvitations \cup {NoInvite}]
      /\ \A t \in Users : Without(invite, u)[t] = IF u \in {t, invite[t].by} THEN NoInvite ELSE invite[t]
  BY DEF Without
<1>3. /\ WithoutTarget(invite, u) \in [Users -> ProductInvitations \cup {NoInvite}]
      /\ \A t \in Users : WithoutTarget(invite, u)[t] = IF t = u THEN NoInvite ELSE invite[t]
  BY DEF WithoutTarget
<1> QED BY <1>1, <1>2, <1>3 DEF IsPending

\* The owner of the cloud cannot be removed or suspended: there is no other one.
LEMMA OwnerIsLast ==
  ASSUME MembersInv, NEW u \in Users, EnsureNotLastActiveOwner("cloud", u)
  PROVE  ~IsOwner("cloud", u)
BY DEF MembersInv, OwnerInv, EnsureNotLastActiveOwner, AnotherActiveOwner, ActiveOwners

\* A removed member takes along its roles, its admission, its invitations and its hold.
LEMMA RemovalStep ==
  ASSUME MembersInv, AccountsInv, NEW u \in known, RemoveMember("cloud", u)
  PROVE  MembersInv'
<1>1. "cloud" \in Orgs /\ u \in Users /\ MembersTyped
  BY DEF Orgs, AccountsInv, MembersInv
<1>2. /\ member' = [member EXCEPT !["cloud"][u] = NoMember]
      /\ grants' = {g \in grants : g[1] # u} /\ direct' = {g \in direct : g[1] # u} /\ admitted' = admitted \ {u}
      /\ minvite' = Without(minvite, u) /\ pinvite' = Without(pinvite, u)
      /\ hold' = hold \ {u} /\ UNCHANGED <<users, cloud>>
  BY DEF RemoveMember, RevokeMember, RevokedMemberInvites, NotOf
<1>3. NoMember \in MemberRows /\ NoMember.role = "none" /\ NoMember.scope = "none"
  BY DEF NoMember, Row, MemberRows, Scopes
<1>4. Wrote("cloud", u, NoMember)
  BY <1>1, <1>2, <1>3, RowWritten
<1>5. /\ OwnerInv' /\ \A v \in Users : IsOwner("cloud", v)' <=> IsOwner("cloud", v)
      /\ member'["cloud"][u] = NoMember /\ \A v \in Users \ {u} : member'["cloud"][v] = member["cloud"][v]
  BY <1>1, <1>2, <1>3, <1>4, OwnerKept, OwnerIsLast DEF RemoveMember
<1>6. /\ minvite' \in [Users -> MemberInvitations \cup {NoInvite}]
      /\ \A t \in Users : IsPending(minvite', t) => IsPending(minvite, t) /\ minvite'[t] = minvite[t] /\ minvite[t].by \in Users
  BY <1>1, <1>2, MemberInvitesWithout DEF MembersTyped
<1>7. /\ pinvite' \in [Users -> ProductInvitations \cup {NoInvite}]
      /\ \A t \in Users : IsPending(pinvite', t) =>
           IsPending(pinvite, t) /\ t # u /\ pinvite[t].by # u /\ pinvite'[t] = pinvite[t] /\ pinvite[t].by \in Users
  <2>1. pinvite \in [Users -> ProductInvitations \cup {NoInvite}] /\ pinvite' = Without(pinvite, u)
    BY <1>1, <1>2 DEF MembersTyped
  <2> QED BY <1>1, <2>1, ProductInvitesWithout
<1>8. MembersTyped'
  <2>1. direct' \subseteq grants' /\ grants' \subseteq Users \X ProductRoles
    BY <1>1, <1>2 DEF MembersTyped
  <2> QED BY <1>1, <1>2, <1>4, <1>6, <1>7, <2>1 DEF MembersTyped, Wrote
<1>9. RowsInv'
  BY <1>1, <1>2, <1>3, <1>4, RowsWrite DEF MembersInv, users
<1>10. GrantsInv'
  <2>1. \A g \in grants : g[1] \in Users
    BY <1>1 DEF MembersTyped
  <2> QED BY <1>1, <1>2, <1>5, <2>1 DEF MembersInv, MembersTyped, GrantsInv, IsBacked
<1>11. InvitesInv'
  BY <1>5, <1>6, <1>7 DEF MembersInv, InvitesInv, IsMember
<1>12. HoldIsOurs'
  BY <1>1, <1>2, <1>5 DEF MembersInv, MembersTyped, HoldIsOurs, users
<1> QED BY <1>5, <1>8, <1>9, <1>10, <1>11, <1>12 DEF MembersInv

\* A changed role or scope takes along what went beyond it.
LEMMA UpdateStep ==
  ASSUME MembersInv, AccountsInv, NEW actor \in known, NEW u \in known, NEW role \in {"admin", "member", "viewer"},
         NEW scope \in Scopes, UpdateDeveloperBrandCloudMember(actor, u, role, scope)
  PROVE  MembersInv'
<1> DEFINE old == member["cloud"][u]
           row == Row(role, old.off, scope)
<1>1. "cloud" \in Orgs /\ u \in Users /\ MembersTyped /\ old \in MemberRows /\ RowInv("cloud", u)
  BY DEF Orgs, AccountsInv, MembersInv, MembersTyped, RowsInv
<1>2. /\ member' = [member EXCEPT !["cloud"][u] = row] /\ ~IsOwner("cloud", u) /\ IsMember("cloud", u)
      /\ (role = "viewer") <=> (scope # "none")
      /\ hold' = hold \ {u} /\ UNCHANGED <<users, minvite, cloud>>
      /\ InvalidateChangedViewerGrants(u, row)
  BY DEF UpdateDeveloperBrandCloudMember, NormalizeCloudMemberScope, InvalidateActivationHold
<1>3. row \in MemberRows /\ row.role = role /\ row.scope = scope
  BY <1>1 DEF Row, MemberRows
<1> HIDE DEF row
<1>4. Wrote("cloud", u, row)
  BY <1>1, <1>2, <1>3, RowWritten
<1>5. /\ OwnerInv' /\ \A v \in Users : IsOwner("cloud", v)' <=> IsOwner("cloud", v)
      /\ member'["cloud"][u] = row /\ \A v \in Users \ {u} : member'["cloud"][v] = member["cloud"][v]
  BY <1>1, <1>2, <1>3, <1>4, OwnerKept
<1>6. RowsInv'
  BY <1>1, <1>2, <1>3, <1>4, RowsWrite DEF MembersInv, users
<1>7. HoldIsOurs'
  BY <1>1, <1>2, <1>5 DEF MembersInv, MembersTyped, HoldIsOurs, users
<1>8. \A v \in Users : IsMember("cloud", v) => IsMember("cloud", v)'
  BY <1>3, <1>5 DEF IsMember, NoMember, Row
<1>9. (\A t \in Users : IsPending(minvite, t) => IsOwner("cloud", minvite[t].by))'
  <2>1. \A t \in Users : IsPending(minvite, t) => minvite[t].by \in Users
    BY <1>1 DEF MembersTyped, IsPending, MemberInvitations
  <2> QED BY <1>2, <1>5, <2>1 DEF MembersInv, InvitesInv
<1>10. \A g \in grants \ direct : g[1] \in Users /\ IsBacked(g)
  BY <1>1 DEF MembersTyped, MembersInv, GrantsInv
<1>11. CASE ChangesCeiling(u, row)
  <2>1. /\ grants' = {g \in grants : g[1] # u} /\ direct' = {g \in direct : g[1] # u}
        /\ admitted' = admitted \ {u} /\ pinvite' = Without(pinvite, u)
    BY <1>2, <1>11 DEF InvalidateChangedViewerGrants, NotOf
  <2>2. /\ pinvite' \in [Users -> ProductInvitations \cup {NoInvite}]
        /\ \A t \in Users : IsPending(pinvite', t) =>
             IsPending(pinvite, t) /\ pinvite'[t] = pinvite[t] /\ pinvite[t].by \in Users
    BY <1>1, <2>1, ProductInvitesWithout DEF MembersTyped
  <2>3. MembersTyped'
    BY <1>1, <1>2, <1>4, <2>1, <2>2 DEF MembersTyped, Wrote
  <2>4. GrantsInv'
    BY <1>1, <1>5, <1>10, <2>1 DEF MembersInv, MembersTyped, GrantsInv, IsBacked
  <2>5. InvitesInv'
    BY <1>8, <1>9, <2>2 DEF MembersInv, InvitesInv
  <2> QED BY <1>5, <1>6, <1>7, <2>3, <2>4, <2>5 DEF MembersInv
<1>12. CASE ~ChangesCeiling(u, row)
  <2>1. UNCHANGED <<grants, direct, admitted, pinvite>>
    BY <1>2, <1>12 DEF InvalidateChangedViewerGrants, product
  <2>2. \/ "viewer" \notin {old.role, role}
        \/ old.role = role /\ old.scope = scope
    BY <1>3, <1>12 DEF ChangesCeiling
  <2>3. MembersTyped'
    BY <1>1, <1>2, <1>4, <2>1 DEF MembersTyped, Wrote
  <2>4. old.role \notin {"none", "owner"}
    BY <1>1, <1>2, MembersHaveRoles DEF MembersInv, IsOwner
  <2>5. GrantsInv'
    <3>1. ASSUME NEW g \in grants \ direct PROVE IsBacked(g)'
      <4>1. CASE g[1] = u
        BY <1>3, <1>5, <1>10, <2>1, <2>2, <2>4, <4>1 DEF IsBacked
      <4>2. CASE g[1] # u
        BY <1>5, <1>10, <2>1, <4>2 DEF IsBacked
      <4> QED BY <4>1, <4>2
    <3>2. ASSUME NEW v \in admitted PROVE member'["cloud"][v].role \notin {"none", "viewer"}
      BY <1>1, <1>3, <1>5, <2>2 DEF MembersTyped, MembersInv, GrantsInv
    <3> QED BY <2>1, <3>1, <3>2 DEF MembersInv, GrantsInv
  <2>6. InvitesInv'
    <3>1. \A v \in Users : IsPending(pinvite, v) => pinvite[v].by \in Users
      BY <1>1 DEF MembersTyped, IsPending, ProductInvitations
    <3> QED BY <1>8, <1>9, <2>1, <3>1 DEF MembersInv, InvitesInv
  <2> QED BY <1>5, <1>6, <1>7, <2>3, <2>5, <2>6 DEF MembersInv
<1> QED BY <1>11, <1>12

\* Who accepts an invitation to the cloud was no member, and had nothing there.
LEMMA JoinStep ==
  ASSUME MembersInv, AccountsInv, NEW t \in known, AcceptBrandCloudMemberInvitation(t)
  PROVE  MembersInv'
<1> DEFINE invite == minvite[t]
           row == Row(invite.role, "no", invite.scope)
<1>1. "cloud" \in Orgs /\ t \in Users /\ MembersTyped
  BY DEF Orgs, AccountsInv, MembersInv
<1>2. /\ IsPending(minvite, t) /\ t \in verified /\ minvite' = WithoutTarget(minvite, t)
      /\ UNCHANGED <<users, hold, pinvite, product, cloud>>
  BY DEF AcceptBrandCloudMemberInvitation, CanBeInvited
<1>3. /\ minvite' \in [Users -> MemberInvitations \cup {NoInvite}]
      /\ \A u \in Users : IsPending(minvite', u) => IsPending(minvite, u) /\ minvite'[u] = minvite[u] /\ minvite[u].by \in Users
  BY <1>1, <1>2, MemberInvitesWithout DEF MembersTyped
<1>4. invite \in MemberInvitations
  BY <1>1, <1>2 DEF MembersTyped, IsPending
<1>5. CASE invite.age = Lapsed
  <2>1. member' = member
    BY <1>5 DEF AcceptBrandCloudMemberInvitation
  <2>2. MembersTyped'
    BY <1>1, <1>2, <1>3, <2>1 DEF MembersTyped, product
  <2>3. RowsInv' /\ OwnerInv' /\ HoldIsOurs'
    BY <1>2, <2>1 DEF MembersInv, RowsInv, RowInv, OwnerInv, IsOwner, HoldIsOurs, users
  <2>4. GrantsInv' /\ InvitesInv'
    BY <1>2, <1>3, <2>1 DEF MembersInv, GrantsInv, IsBacked, InvitesInv, IsMember, IsOwner, product
  <2> QED BY <2>2, <2>3, <2>4 DEF MembersInv
<1>6. CASE invite.age # Lapsed
  <2>1. ~IsMember("cloud", t) /\ member' = [member EXCEPT !["cloud"][t] = row]
    BY <1>6 DEF AcceptBrandCloudMemberInvitation
  <2>2. /\ row \in MemberRows /\ row.role \in {"admin", "member", "viewer"}
        /\ (row.role = "viewer") <=> (row.scope # "none")
    BY <1>4 DEF MemberInvitations, Row, MemberRows
  <2> HIDE DEF row
  <2>3. Wrote("cloud", t, row)
    BY <1>1, <2>1, <2>2, RowWritten
  <2>4. member["cloud"][t].role = "none"
    BY <1>1, <2>1, MembersHaveRoles DEF MembersInv
  <2>5. /\ OwnerInv' /\ \A v \in Users : IsOwner("cloud", v)' <=> IsOwner("cloud", v)
        /\ member'["cloud"][t] = row /\ \A v \in Users \ {t} : member'["cloud"][v] = member["cloud"][v]
    BY <1>1, <1>2, <2>2, <2>3, <2>4, OwnerKept DEF IsOwner
  <2>6. MembersTyped'
    BY <1>1, <1>2, <1>3, <2>3 DEF MembersTyped, Wrote, product
  <2>7. RowsInv'
    BY <1>1, <1>2, <2>2, <2>3, RowsWrite DEF MembersInv, users
  <2>8. HoldIsOurs'
    BY <1>1, <1>2, <2>5 DEF MembersInv, MembersTyped, HoldIsOurs, users
  <2>9. GrantsInv'
    <3>1. \A g \in grants \ direct : g[1] \in Users /\ g[1] # t
      BY <1>1, <2>4 DEF MembersTyped, MembersInv, GrantsInv, IsBacked
    <3>2. \A v \in admitted : v \in Users /\ v # t
      BY <1>1, <2>4 DEF MembersTyped, MembersInv, GrantsInv
    <3> QED BY <1>2, <2>5, <3>1, <3>2 DEF MembersInv, GrantsInv, IsBacked, product
  <2>10. InvitesInv'
    <3>1. \A v \in Users : IsMember("cloud", v) => IsMember("cloud", v)'
      BY <2>1, <2>5 DEF IsMember
    <3>2. \A v \in Users : IsPending(pinvite, v) => pinvite[v].by \in Users
      BY <1>1 DEF MembersTyped, IsPending, ProductInvitations
    <3> QED BY <1>2, <1>3, <2>5, <3>1, <3>2 DEF MembersInv, InvitesInv
  <2> QED BY <2>5, <2>6, <2>7, <2>8, <2>9, <2>10 DEF MembersInv
<1> QED BY <1>5, <1>6

-----------------------------------------------------------------------------
(* Invitations.                                                            *)

\* A step that only changes invitations to the cloud.
LEMMA MemberInvitesWrite ==
  ASSUME MembersInv, NEW new \in [Users -> MemberInvitations \cup {NoInvite}], MemberInvites(new),
         \A t \in Users : IsPending(new, t) => IsOwner("cloud", new[t].by)
  PROVE  MembersInv'
<1>1. minvite' = new /\ UNCHANGED <<users, member, hold, pinvite, product, cloud>>
  BY DEF MemberInvites
<1>2. MembersTyped' /\ RowsInv' /\ OwnerInv' /\ HoldIsOurs'
  BY <1>1 DEF MembersInv, MembersTyped, RowsInv, RowInv, OwnerInv, IsOwner, HoldIsOurs, users, product
<1>3. GrantsInv' /\ InvitesInv'
  BY <1>1 DEF MembersInv, GrantsInv, IsBacked, InvitesInv, IsMember, IsOwner, product
<1> QED BY <1>2, <1>3 DEF MembersInv

\* A step that only changes invitations to the product.
LEMMA ProductInvitesWrite ==
  ASSUME MembersInv, NEW new \in [Users -> ProductInvitations \cup {NoInvite}], ProductInvites(new),
         \A t \in Users : IsPending(new, t) => IsMember("cloud", t) /\ IsMember("cloud", new[t].by)
  PROVE  MembersInv'
<1>1. pinvite' = new /\ UNCHANGED <<users, member, hold, minvite, product, cloud>>
  BY DEF ProductInvites
<1>2. MembersTyped' /\ RowsInv' /\ OwnerInv' /\ HoldIsOurs'
  BY <1>1 DEF MembersInv, MembersTyped, RowsInv, RowInv, OwnerInv, IsOwner, HoldIsOurs, users, product
<1>3. GrantsInv' /\ InvitesInv'
  BY <1>1 DEF MembersInv, GrantsInv, IsBacked, InvitesInv, IsMember, IsOwner, product
<1> QED BY <1>2, <1>3 DEF MembersInv

\* Sweeping changes no inviter and invites nobody.
LEMMA InvitesSwept ==
  ASSUME MembersTyped
  PROVE  /\ Swept(minvite) \in [Users -> MemberInvitations \cup {NoInvite}]
         /\ Swept(pinvite) \in [Users -> ProductInvitations \cup {NoInvite}]
         /\ \A t \in Users : IsPending(Swept(minvite), t) => IsPending(minvite, t) /\ Swept(minvite)[t] = minvite[t]
         /\ \A t \in Users : IsPending(Swept(pinvite), t) => IsPending(pinvite, t) /\ Swept(pinvite)[t] = pinvite[t]
<1>1. /\ Swept(minvite) \in [Users -> MemberInvitations \cup {NoInvite}]
      /\ Swept(pinvite) \in [Users -> ProductInvitations \cup {NoInvite}]
  BY DEF MembersTyped, Swept
<1>2. /\ \A t \in Users : IsPending(Swept(minvite), t) => IsPending(minvite, t) /\ Swept(minvite)[t] = minvite[t]
      /\ \A t \in Users : IsPending(Swept(pinvite), t) => IsPending(pinvite, t) /\ Swept(pinvite)[t] = pinvite[t]
  BY DEF MembersTyped, Swept, IsPending
<1> QED BY <1>1, <1>2

\* Nor do resending and ageing.
LEMMA InvitesAge ==
  ASSUME MembersTyped, NEW u \in Users, NEW age \in 0..Lapsed
  PROVE  /\ IsPending(minvite, u) =>
              /\ [minvite EXCEPT ![u].age = age] \in [Users -> MemberInvitations \cup {NoInvite}]
              /\ \A t \in Users : IsPending([minvite EXCEPT ![u].age = age], t) =>
                   IsPending(minvite, t) /\ [minvite EXCEPT ![u].age = age][t].by = minvite[t].by
         /\ IsPending(pinvite, u) =>
              /\ [pinvite EXCEPT ![u].age = age] \in [Users -> ProductInvitations \cup {NoInvite}]
              /\ \A t \in Users : IsPending([pinvite EXCEPT ![u].age = age], t) =>
                   IsPending(pinvite, t) /\ [pinvite EXCEPT ![u].age = age][t].by = pinvite[t].by
<1>1. ASSUME IsPending(minvite, u)
      PROVE /\ [minvite EXCEPT ![u].age = age] \in [Users -> MemberInvitations \cup {NoInvite}]
            /\ \A t \in Users : IsPending([minvite EXCEPT ![u].age = age], t) =>
                 IsPending(minvite, t) /\ [minvite EXCEPT ![u].age = age][t].by = minvite[t].by
  <2>1. minvite[u] \in MemberInvitations /\ minvite \in [Users -> MemberInvitations \cup {NoInvite}]
    BY <1>1 DEF IsPending, MembersTyped
  <2>2. [minvite[u] EXCEPT !.age = age] \in MemberInvitations /\ [minvite[u] EXCEPT !.age = age].by = minvite[u].by
    BY <2>1 DEF MemberInvitations
  <2> QED BY <1>1, <2>1, <2>2 DEF IsPending
<1>2. ASSUME IsPending(pinvite, u)
      PROVE /\ [pinvite EXCEPT ![u].age = age] \in [Users -> ProductInvitations \cup {NoInvite}]
            /\ \A t \in Users : IsPending([pinvite EXCEPT ![u].age = age], t) =>
                 IsPending(pinvite, t) /\ [pinvite EXCEPT ![u].age = age][t].by = pinvite[t].by
  <2>1. pinvite[u] \in ProductInvitations /\ pinvite \in [Users -> ProductInvitations \cup {NoInvite}]
    BY <1>2 DEF IsPending, MembersTyped
  <2>2. [pinvite[u] EXCEPT !.age = age] \in ProductInvitations /\ [pinvite[u] EXCEPT !.age = age].by = pinvite[u].by
    BY <2>1 DEF ProductInvitations
  <2> QED BY <1>2, <2>1, <2>2 DEF IsPending
<1> QED BY <1>1, <1>2

\* The steps of the invitations keep the members in order.
LEMMA InviteSteps ==
  ASSUME MembersInv, AccountsInv, InviteStep
  PROVE  MembersInv'
<1>1. MembersTyped /\ InvitesInv /\ known \subseteq Users
  BY DEF MembersInv, AccountsInv
<1>2. ASSUME NEW actor \in known, NEW t \in known, NEW role \in {"admin", "member", "viewer"}, NEW scope \in Scopes,
             CreateBrandCloudMemberInvitation(actor, t, role, scope)
      PROVE MembersInv'
  <2> DEFINE now == Swept(minvite)
             new == IF IsPending(now, t) THEN now ELSE [now EXCEPT ![t] = Invite(actor, role, scope)]
  <2>1. MemberInvites(new) /\ IsOwner("cloud", actor) /\ ((role = "viewer") <=> (scope # "none"))
    BY <1>2 DEF CreateBrandCloudMemberInvitation, NormalizeCloudMemberScope, RequireBrandCloudOwner
  <2>2. Invite(actor, role, scope) \in MemberInvitations /\ Invite(actor, role, scope).by = actor
    BY <1>1, <2>1 DEF Invite, MemberInvitations, Lapsed
  <2>3. /\ now \in [Users -> MemberInvitations \cup {NoInvite}]
        /\ \A u \in Users : IsPending(now, u) => IsOwner("cloud", now[u].by)
    BY <1>1, InvitesSwept DEF InvitesInv
  <2> HIDE DEF now
  <2>4. /\ new \in [Users -> MemberInvitations \cup {NoInvite}]
        /\ \A u \in Users : IsPending(new, u) => IsOwner("cloud", new[u].by)
    BY <1>1, <2>1, <2>2, <2>3 DEF IsPending
  <2> HIDE DEF new
  <2> QED BY <2>1, <2>4, MemberInvitesWrite
<1>3. ASSUME NEW u \in known, NEW age \in 0..Lapsed,
             \/ MemberInvites(Swept(minvite)) \/ MemberInvites(WithoutTarget(minvite, u))
             \/ IsPending(minvite, u) /\ MemberInvites([minvite EXCEPT ![u].age = age])
      PROVE MembersInv'
  <2>1. CASE MemberInvites(Swept(minvite))
    BY <1>1, <2>1, InvitesSwept, MemberInvitesWrite DEF InvitesInv
  <2>2. CASE MemberInvites(WithoutTarget(minvite, u))
    <3>1. /\ WithoutTarget(minvite, u) \in [Users -> MemberInvitations \cup {NoInvite}]
          /\ \A t \in Users : IsPending(WithoutTarget(minvite, u), t) =>
               IsPending(minvite, t) /\ WithoutTarget(minvite, u)[t] = minvite[t]
      BY <1>1, MemberInvitesWithout DEF MembersTyped
    <3> QED BY <1>1, <2>2, <3>1, MemberInvitesWrite DEF InvitesInv
  <2>3. CASE IsPending(minvite, u) /\ MemberInvites([minvite EXCEPT ![u].age = age])
    <3> DEFINE new == [minvite EXCEPT ![u].age = age]
    <3>1. /\ new \in [Users -> MemberInvitations \cup {NoInvite}]
          /\ \A t \in Users : IsPending(new, t) => IsPending(minvite, t) /\ new[t].by = minvite[t].by
      <4>1. u \in Users /\ MembersTyped
        BY <1>1
      <4> QED BY <2>3, <4>1, InvitesAge
    <3>2. MemberInvites(new)
      BY <2>3
    <3> HIDE DEF new
    <3> QED BY <1>1, <3>1, <3>2, MemberInvitesWrite DEF InvitesInv
  <2> QED BY <1>3, <2>1, <2>2, <2>3
<1>4. ASSUME NEW actor \in known, NEW t \in known, NEW role \in Collaborators,
             CreateProductCollaboratorInvitation(actor, t, role)
      PROVE MembersInv'
  <2> DEFINE now == Swept(pinvite)
             new == [now EXCEPT ![t] = Invite(actor, role, "none")]
  <2>1. ProductInvites(new) /\ IsMember("cloud", actor) /\ IsMember("cloud", t)
    BY <1>4 DEF CreateProductCollaboratorInvitation, ProductInvitationAdmission, CanAccess, IsActive
  <2>2. Invite(actor, role, "none") \in ProductInvitations /\ Invite(actor, role, "none").by = actor
    BY <1>1 DEF Invite, ProductInvitations, Lapsed
  <2>3. /\ now \in [Users -> ProductInvitations \cup {NoInvite}]
        /\ \A u \in Users : IsPending(now, u) => IsMember("cloud", u) /\ IsMember("cloud", now[u].by)
    BY <1>1, InvitesSwept DEF InvitesInv
  <2> HIDE DEF now
  <2>4. /\ new \in [Users -> ProductInvitations \cup {NoInvite}]
        /\ \A u \in Users : IsPending(new, u) => IsMember("cloud", u) /\ IsMember("cloud", new[u].by)
    BY <1>1, <2>1, <2>2, <2>3 DEF IsPending
  <2> HIDE DEF new
  <2> QED BY <2>1, <2>4, ProductInvitesWrite
<1>5. ASSUME NEW u \in known, NEW age \in 0..Lapsed,
             \/ ProductInvites(Swept(pinvite)) \/ ProductInvites(WithoutTarget(pinvite, u))
             \/ IsPending(pinvite, u) /\ ProductInvites([pinvite EXCEPT ![u].age = age])
      PROVE MembersInv'
  <2>1. CASE ProductInvites(Swept(pinvite))
    BY <1>1, <2>1, InvitesSwept, ProductInvitesWrite DEF InvitesInv
  <2>2. CASE ProductInvites(WithoutTarget(pinvite, u))
    <3>1. /\ WithoutTarget(pinvite, u) \in [Users -> ProductInvitations \cup {NoInvite}]
          /\ \A t \in Users : IsPending(WithoutTarget(pinvite, u), t) =>
               IsPending(pinvite, t) /\ WithoutTarget(pinvite, u)[t] = pinvite[t]
      BY <1>1, ProductInvitesWithout DEF MembersTyped
    <3> QED BY <1>1, <2>2, <3>1, ProductInvitesWrite DEF InvitesInv
  <2>3. CASE IsPending(pinvite, u) /\ ProductInvites([pinvite EXCEPT ![u].age = age])
    <3> DEFINE new == [pinvite EXCEPT ![u].age = age]
    <3>1. /\ new \in [Users -> ProductInvitations \cup {NoInvite}]
          /\ \A t \in Users : IsPending(new, t) => IsPending(pinvite, t) /\ new[t].by = pinvite[t].by
      <4>1. u \in Users /\ MembersTyped
        BY <1>1
      <4> QED BY <2>3, <4>1, InvitesAge
    <3>2. ProductInvites(new)
      BY <2>3
    <3> HIDE DEF new
    <3> QED BY <1>1, <3>1, <3>2, ProductInvitesWrite DEF InvitesInv
  <2> QED BY <1>5, <2>1, <2>2, <2>3
<1>6. ASSUME NEW u \in known, TimePasses(u) PROVE MembersInv'
  <2>1. CASE IsLive(minvite, u) /\ MemberInvites([minvite EXCEPT ![u].age = @ + 1])
    <3>1. minvite[u].age + 1 \in 0..Lapsed
      BY <1>1, <2>1 DEF IsLive, IsPending, MembersTyped, MemberInvitations, Lapsed
    <3> QED BY <1>3, <2>1, <3>1 DEF IsLive
  <2>2. CASE IsLive(pinvite, u) /\ ProductInvites([pinvite EXCEPT ![u].age = @ + 1])
    <3>1. pinvite[u].age + 1 \in 0..Lapsed
      BY <1>1, <2>2 DEF IsLive, IsPending, MembersTyped, ProductInvitations, Lapsed
    <3> QED BY <1>5, <2>2, <3>1 DEF IsLive
  <2> QED BY <1>6, <2>1, <2>2 DEF TimePasses
<1>7. ASSUME NEW actor \in known, NEW u \in known,
             \/ ListBrandCloudMemberInvitations(u)
             \/ ResendBrandCloudMemberInvitation(actor, u) \/ CancelBrandCloudMemberInvitation(actor, u)
      PROVE MembersInv'
  <2>1. 0 \in 0..Lapsed
    BY DEF Lapsed
  <2> QED BY <1>3, <1>7, <2>1 DEF ListBrandCloudMemberInvitations, ResendBrandCloudMemberInvitation,
                CancelBrandCloudMemberInvitation, Reinvited, IsLive
<1>8. ASSUME NEW actor \in known, NEW u \in known,
             \/ ListProductCollaboratorInvitations(u)
             \/ ResendProductCollaboratorInvitation(actor, u) \/ CancelProductCollaboratorInvitation(actor, u)
      PROVE MembersInv'
  <2>1. 0 \in 0..Lapsed
    BY DEF Lapsed
  <2> QED BY <1>5, <1>8, <2>1 DEF ListProductCollaboratorInvitations, ResendProductCollaboratorInvitation,
                CancelProductCollaboratorInvitation, Reinvited, IsLive
<1> QED BY <1>2, <1>4, <1>6, <1>7, <1>8 DEF InviteStep

-----------------------------------------------------------------------------
(* The product and the handoff.                                            *)

\* A step that only changes the product and its invitations.
LEMMA ProductWrite ==
  ASSUME MembersInv, UNCHANGED <<users, member, hold, minvite, cloud>>,
         admitted' \subseteq Users, grants' \subseteq Users \X ProductRoles, direct' \subseteq grants', GrantsInv',
         pinvite' \in [Users -> ProductInvitations \cup {NoInvite}],
         \A t \in Users : IsPending(pinvite', t) => IsPending(pinvite, t) /\ pinvite'[t] = pinvite[t]
  PROVE  MembersInv'
<1>1. MembersTyped' /\ RowsInv' /\ OwnerInv' /\ HoldIsOurs'
  BY DEF MembersInv, MembersTyped, RowsInv, RowInv, OwnerInv, IsOwner, HoldIsOurs, users
<1>2. InvitesInv'
  BY DEF MembersInv, InvitesInv, IsMember, IsOwner
<1> QED BY <1>1, <1>2 DEF MembersInv

\* A role on the product that the ceiling allows, for a member whose access is
\* approved, rests on the membership.
LEMMA AccessBacks ==
  ASSUME MembersInv, NEW t \in Users, NEW role \in ProductRoles, IsMember("cloud", t),
         RequireProductRoleCeiling(t, role), CanAccessProduct(t) \/ (t \in admitted /\ member["cloud"][t].role # "viewer")
  PROVE  IsBacked(<<t, role>>)
<1>1. member["cloud"][t].role \in {"none", "owner", "admin", "member", "viewer"} /\ member["cloud"][t].role # "none"
  <2>1. "cloud" \in Orgs
    BY DEF Orgs
  <2>2. member["cloud"][t] \in MemberRows
    BY <2>1 DEF MembersInv, MembersTyped
  <2> QED BY <2>1, <2>2, MembersHaveRoles DEF MembersInv, MemberRows
<1> QED BY <1>1 DEF IsBacked, RequireProductRoleCeiling, CanAccessProduct

\* Accepting an invitation to the product gives a role the membership carries.
LEMMA AcceptProductStep ==
  ASSUME MembersInv, AccountsInv, NEW t \in known, AcceptProductCollaboratorInvitation(t)
  PROVE  MembersInv'
<1> DEFINE invite == pinvite[t]
<1>1. "cloud" \in Orgs /\ t \in Users /\ MembersTyped /\ GrantsInv
  BY DEF Orgs, AccountsInv, MembersInv
<1>2. /\ IsPending(pinvite, t) /\ pinvite' = WithoutTarget(pinvite, t)
      /\ UNCHANGED <<users, member, hold, minvite, cloud>>
  BY DEF AcceptProductCollaboratorInvitation
<1>3. /\ pinvite' \in [Users -> ProductInvitations \cup {NoInvite}]
      /\ \A u \in Users : IsPending(pinvite', u) => IsPending(pinvite, u) /\ pinvite'[u] = pinvite[u]
  BY <1>1, <1>2, ProductInvitesWithout DEF MembersTyped
<1>4. invite \in ProductInvitations
  BY <1>1, <1>2 DEF MembersTyped, IsPending
<1>5. CASE invite.age = Lapsed
  <2>1. UNCHANGED <<admitted, grants, direct>>
    BY <1>5 DEF AcceptProductCollaboratorInvitation, product
  <2>2. GrantsInv'
    BY <1>1, <1>2, <2>1 DEF GrantsInv, IsBacked
  <2> QED BY <1>1, <1>2, <1>3, <2>1, <2>2, ProductWrite DEF MembersTyped
<1>6. CASE invite.age # Lapsed
  <2> DEFINE approved == ApprovesProduct(invite.by, t)
  <2>0. PICK role \in Collaborators : role = invite.role
    BY <1>4 DEF ProductInvitations
  <2>1. /\ IsMember("cloud", t) /\ (approved \/ CanAccessProduct(t)) /\ RequireProductRoleCeiling(t, role)
        /\ admitted' = (IF approved THEN admitted \cup {t} ELSE admitted)
        /\ grants' = grants \cup {<<t, role>>} /\ direct' = direct /\ <<t, role>> \notin direct
    BY <1>1, <1>6, <2>0 DEF MembersTyped, AcceptProductCollaboratorInvitation, ProductInvitationAdmission, CanAccess, IsActive
  <2>2. role \in ProductRoles /\ role # "owner"
    BY DEF Collaborators, ProductRoles
  <2>3. approved => member["cloud"][t].role \notin {"none", "viewer"}
    BY <1>1, <2>1, MembersHaveRoles DEF MembersInv, ApprovesProduct
  <2>4. member["cloud"][t].role \in {"owner", "admin", "member", "viewer"}
    BY <1>1, <2>1, MembersHaveRoles DEF MembersInv, MembersTyped, MemberRows
  <2> HIDE DEF approved
  <2>5. IsBacked(<<t, role>>)'
    BY <1>2, <2>1, <2>3, <2>4 DEF IsBacked, CanAccessProduct, RequireProductRoleCeiling
  <2>6. ASSUME NEW g \in grants \ direct PROVE IsBacked(g)'
    BY <1>1, <1>2, <2>1 DEF GrantsInv, IsBacked
  <2>7. \A u \in admitted' : member'["cloud"][u].role \notin {"none", "viewer"}
    BY <1>1, <1>2, <2>1, <2>3 DEF GrantsInv
  <2>8. \A g, h \in grants' \ direct' : g[2] = "owner" /\ h[2] = "owner" => g = h
    BY <1>1, <2>1, <2>2 DEF GrantsInv
  <2>9. GrantsInv'
    BY <2>1, <2>5, <2>6, <2>7, <2>8 DEF GrantsInv
  <2>10. admitted' \subseteq Users /\ grants' \subseteq Users \X ProductRoles /\ direct' \subseteq grants'
    BY <1>1, <2>1, <2>2 DEF MembersTyped
  <2> QED BY <1>2, <1>3, <2>9, <2>10, ProductWrite
<1> QED BY <1>5, <1>6

\* Changing, removing and transferring roles on the product keeps them within the memberships, and its one owner.
LEMMA ProductSteps ==
  ASSUME MembersInv, AccountsInv, NEW actor \in known, NEW t \in known, NEW role \in Collaborators,
         \/ UpdateProductCollaborator(actor, t, role) \/ RemoveProductCollaborator(actor, t)
         \/ TransferProductOwnership(actor, t)
  PROVE  MembersInv'
<1>1. "cloud" \in Orgs /\ t \in Users /\ MembersTyped /\ GrantsInv
  BY DEF Orgs, AccountsInv, MembersInv
<1>2. \A g \in grants : g[1] \in Users /\ g[2] \in ProductRoles /\ g = <<g[1], g[2]>>
  BY <1>1 DEF MembersTyped
<1>3. CASE UpdateProductCollaborator(actor, t, role)
  <2>1. PICK old \in Collaborators : Grants((grants \ {<<t, old>>}) \cup {<<t, role>>}, direct \ {<<t, old>>})
    BY <1>3 DEF UpdateProductCollaborator
  <2>2. /\ grants' = (grants \ {<<t, old>>}) \cup {<<t, role>>} /\ direct' = direct \ {<<t, old>>}
        /\ UNCHANGED <<users, member, hold, minvite, pinvite, admitted, cloud>>
    BY <2>1 DEF Grants, invites
  <2>3. role \in ProductRoles /\ role # "owner"
    BY DEF Collaborators, ProductRoles
  <2>4. IsBacked(<<t, role>>)
    BY <1>1, <1>3, <2>3, AccessBacks DEF UpdateProductCollaborator, CanAccessProduct, CanAccess, IsActive
  <2>5. GrantsInv'
    BY <1>1, <2>2, <2>3, <2>4 DEF GrantsInv, IsBacked
  <2> QED BY <1>1, <2>2, <2>3, <2>5, ProductWrite DEF MembersTyped
<1>4. CASE RemoveProductCollaborator(actor, t)
  <2>1. /\ grants' = {g \in grants : g[1] # t} /\ direct' = {g \in direct : g[1] # t}
        /\ admitted' \subseteq admitted /\ admitted \ {t} \subseteq admitted'
        /\ pinvite' = WithoutTarget(pinvite, t) /\ UNCHANGED <<users, member, hold, minvite, cloud>>
    BY <1>4 DEF RemoveProductCollaborator, NotOf
  <2>2. GrantsInv'
    <3>1. ASSUME NEW g \in grants' \ direct' PROVE IsBacked(g)'
      BY <1>1, <1>2, <2>1 DEF GrantsInv, IsBacked
    <3> QED BY <1>1, <2>1, <3>1 DEF GrantsInv
  <2>3. /\ pinvite' \in [Users -> ProductInvitations \cup {NoInvite}]
        /\ \A u \in Users : IsPending(pinvite', u) => IsPending(pinvite, u) /\ pinvite'[u] = pinvite[u]
    BY <1>1, <2>1, ProductInvitesWithout DEF MembersTyped
  <2> QED BY <1>1, <2>1, <2>2, <2>3, ProductWrite DEF MembersTyped
<1>5. CASE TransferProductOwnership(actor, t)
  <2> DEFINE demoted == Demoted(grants)
             others == Demoted(direct)
  <2>1. PICK old \in Collaborators : Grants((demoted \ {<<t, old>>}) \cup {<<t, "owner">>}, others \ {<<t, old>>})
    BY <1>5 DEF TransferProductOwnership
  <2>2. /\ grants' = (demoted \ {<<t, old>>}) \cup {<<t, "owner">>} /\ direct' = others \ {<<t, old>>}
        /\ UNCHANGED <<users, member, hold, minvite, pinvite, admitted, cloud>>
    BY <2>1 DEF Grants, invites
  <2>3. ASSUME NEW g \in demoted
        PROVE /\ g \in Users \X ProductRoles /\ g[2] # "owner"
              /\ g \notin others =>
                   g \in grants \ direct \/ (g[2] = "editor" /\ <<g[1], "owner">> \in grants \ direct)
    <3>1. PICK h \in grants : g = IF h[2] = "owner" THEN <<h[1], "editor">> ELSE h
      BY DEF Demoted
    <3>2. g \notin others => h \notin direct
      BY <3>1 DEF Demoted
    <3>3. h[1] \in Users /\ h[2] \in ProductRoles /\ h = <<h[1], h[2]>>
      BY <1>2
    <3>4. CASE h[2] = "owner"
      BY <3>1, <3>2, <3>3, <3>4 DEF ProductRoles
    <3>5. CASE h[2] # "owner"
      <4>1. g = h
        BY <3>1, <3>5
      <4> QED BY <3>2, <3>3, <3>5, <4>1
    <3> QED BY <3>4, <3>5
  <2>4. others \subseteq demoted
    BY <1>1 DEF Demoted, MembersTyped
  <2> HIDE DEF demoted, others
  <2>5. IsBacked(<<t, "owner">>)
    BY <1>1, <1>5, AccessBacks DEF TransferProductOwnership, CanAccessProduct, CanAccess, IsActive, ProductRoles
  <2>6. ASSUME NEW g \in demoted \ others PROVE IsBacked(g)
    BY <1>1, <2>3 DEF GrantsInv, IsBacked
  <2>7. GrantsInv'
    <3>1. \A g \in grants' \ direct' : g = <<t, "owner">> \/ g \in demoted \ others
      BY <2>2
    <3>2. \A g \in grants' \ direct' : IsBacked(g)'
      BY <2>2, <2>5, <2>6, <3>1 DEF IsBacked
    <3>3. \A g \in grants' \ direct' : g[2] = "owner" => g = <<t, "owner">>
      BY <2>3, <3>1
    <3> QED BY <1>1, <2>2, <3>2, <3>3 DEF GrantsInv
  <2>8. grants' \subseteq Users \X ProductRoles /\ direct' \subseteq grants'
    <3>1. demoted \subseteq Users \X ProductRoles
      BY <2>3
    <3>2. <<t, "owner">> \in Users \X ProductRoles
      BY <1>1 DEF ProductRoles
    <3> QED BY <2>2, <2>4, <3>1, <3>2
  <2> QED BY <1>1, <2>2, <2>7, <2>8, ProductWrite DEF MembersTyped
<1> QED BY <1>3, <1>4, <1>5

\* Opening and ending a handoff and changing the status of the cloud touch no member.
LEMMA CloudSteps ==
  ASSUME MembersInv, AccountsInv, CloudStep
  PROVE  MembersInv'
<1>1. UNCHANGED <<users, member, hold, invites, product>>
  BY DEF CloudStep, UpdateBrandCloud, OpenOwnerHandoff, EndOwnerHandoff
<1>2. cloud \in [active : BOOLEAN, handoff : [target : Users \cup {NoUser}, committed : BOOLEAN]]
  BY DEF MembersInv, MembersTyped
<1>3. /\ cloud' \in [active : BOOLEAN, handoff : [target : Users \cup {NoUser}, committed : BOOLEAN]]
      /\ \/ cloud'.handoff = cloud.handoff \/ cloud'.handoff.target = NoUser
         \/ ~IsOwner("cloud", cloud'.handoff.target)
  <2>1. ASSUME NEW u \in known, OpenOwnerHandoff(u)
        PROVE /\ cloud' \in [active : BOOLEAN, handoff : [target : Users \cup {NoUser}, committed : BOOLEAN]]
              /\ ~IsOwner("cloud", cloud'.handoff.target)
    <3>1. cloud' = [cloud EXCEPT !.handoff = [target |-> u, committed |-> FALSE]] /\ u # CloudOwner /\ u \in Users
      BY <2>1 DEF OpenOwnerHandoff, AccountsInv
    <3>2. ~IsOwner("cloud", u)
      BY <3>1, OwnerIs DEF MembersInv
    <3> QED BY <1>2, <3>1, <3>2
  <2>2. CASE \E active \in BOOLEAN : UpdateBrandCloud(active)
    BY <1>2, <2>2 DEF UpdateBrandCloud
  <2>3. CASE EndOwnerHandoff
    BY <1>2, <2>3 DEF EndOwnerHandoff, NoHandoff
  <2> QED BY <2>1, <2>2, <2>3 DEF CloudStep
<1>4. UNCHANGED <<minvite, pinvite, admitted, grants, direct>>
  BY <1>1 DEF invites, product
<1>5. MembersTyped' /\ RowsInv' /\ HoldIsOurs' /\ GrantsInv' /\ InvitesInv'
  BY <1>1, <1>3, <1>4 DEF MembersInv, MembersTyped, RowsInv, RowInv, HoldIsOurs, users, GrantsInv, IsBacked,
                          InvitesInv, IsMember, IsOwner
<1>6. OwnerInv'
  BY <1>1, <1>3 DEF MembersInv, OwnerInv, IsOwner
<1> QED BY <1>5, <1>6 DEF MembersInv

\* The commit of a handoff replaces the owner, and what the former owner had goes.
LEMMA CommitStep ==
  ASSUME MembersInv, AccountsInv, CommitOwnerHandoff
  PROVE  MembersInv'
<1>1. PICK s, t \in Users :
        /\ s = CloudOwner /\ t = cloud.handoff.target /\ s # t /\ IsOwner("cloud", s) /\ ~IsOwner("cloud", t)
        /\ \A v \in Users : IsOwner("cloud", v) => v = s
  <2>1. cloud.handoff.target \in Users \cup {NoUser} /\ cloud.handoff.target # NoUser /\ ~cloud.handoff.committed
    BY DEF MembersInv, MembersTyped, CommitOwnerHandoff
  <2>2. ~IsOwner("cloud", cloud.handoff.target)
    BY <2>1 DEF MembersInv, OwnerInv
  <2> QED BY <2>1, <2>2, OwnerIs DEF MembersInv
<1> DEFINE owner == Row("owner", "no", "none")
           raised == ChangesCeiling(t, owner)
           moves == <<s, "owner">> \in grants
           gone == IF raised \/ moves THEN {s, t} ELSE {s}
           inherits == <<s, "owner">> \in direct /\ (raised \/ <<t, "owner">> \notin grants \ direct)
           first == [member EXCEPT !["cloud"][t] = owner]
<1>2. "cloud" \in Orgs /\ MembersTyped /\ GrantsInv /\ InvitesInv
  BY DEF Orgs, MembersInv
<1>3. /\ t \in enabled \cap verified /\ member' = [first EXCEPT !["cloud"][s] = NoMember]
      /\ grants' = {g \in grants : g[1] \notin gone} \cup (IF moves THEN {<<t, "owner">>} ELSE {})
      /\ direct' = {g \in direct : g[1] \notin gone} \cup (IF inherits THEN {<<t, "owner">>} ELSE {})
      /\ admitted' = admitted \ (IF raised THEN {s, t} ELSE {s})
      /\ pinvite' = (IF raised THEN Without(Without(pinvite, t), s) ELSE Without(pinvite, s))
      /\ minvite' = Without(minvite, s) /\ hold' = hold \ {s, t}
      /\ cloud' = [cloud EXCEPT !.handoff.committed = TRUE] /\ UNCHANGED users
  BY <1>1 DEF CommitOwnerHandoff, RevokedMemberInvites
<1>4. /\ member' \in [Orgs -> [Users -> MemberRows]] /\ member'["cloud"][t] = owner /\ member'["cloud"][s] = NoMember
      /\ \A v \in Users \ {s, t} : member'["cloud"][v] = member["cloud"][v]
      /\ \A o \in Orgs \ {"cloud"}, v \in Users : member'[o][v] = member[o][v]
  <2>1. owner \in MemberRows /\ NoMember \in MemberRows
    BY DEF Row, NoMember, MemberRows, Scopes
  <2> HIDE DEF owner
  <2>2. /\ first \in [Orgs -> [Users -> MemberRows]] /\ first["cloud"][t] = owner
        /\ \A v \in Users \ {t} : first["cloud"][v] = member["cloud"][v]
        /\ \A o \in Orgs \ {"cloud"}, v \in Users : first[o][v] = member[o][v]
    BY <1>1, <1>2, <2>1 DEF MembersTyped
  <2> HIDE DEF first
  <2> QED BY <1>1, <1>2, <1>3, <2>1, <2>2
<1>5. owner.role = "owner" /\ owner.scope = "none" /\ NoMember.role = "none" /\ NoMember.scope = "none" /\ owner # NoMember
  BY DEF Row, NoMember
<1> HIDE DEF owner, raised, first
<1>6. RowsInv'
  <2>1. ASSUME NEW o \in Orgs, NEW v \in Users PROVE RowInv(o, v)'
    <3>1. t \in known' /\ known' = known
      BY <1>3 DEF users, AccountsInv
    <3>2. CASE o = "cloud" /\ v \in {s, t}
      BY <1>4, <1>5, <3>1, <3>2 DEF RowInv
    <3>3. CASE o # "cloud" \/ v \notin {s, t}
      <4>1. member'[o][v] = member[o][v]
        BY <1>4, <3>3
      <4> QED BY <3>1, <4>1 DEF MembersInv, RowsInv, RowInv
    <3> QED BY <3>2, <3>3
  <2> QED BY <2>1 DEF RowsInv
<1>7. cloud' \in [active : BOOLEAN, handoff : [target : Users \cup {NoUser}, committed : BOOLEAN]] /\ cloud'.handoff.committed
  BY <1>2, <1>3 DEF MembersTyped
<1>8. OwnerInv'
  <2>1. \A v \in Users : IsOwner("cloud", v)' <=> v = t
    BY <1>1, <1>4, <1>5 DEF IsOwner
  <2> QED BY <1>7, <2>1 DEF OwnerInv
<1>9. HoldIsOurs'
  BY <1>2, <1>3, <1>4 DEF MembersInv, MembersTyped, HoldIsOurs, users
<1>10. \A g \in grants : g[1] \in Users /\ g[2] \in ProductRoles /\ g = <<g[1], g[2]>>
  BY <1>2 DEF MembersTyped
<1>11. \A g \in grants' : \/ g \in grants /\ g[1] # s /\ (moves => g[1] # t) /\ (g \in direct => g \in direct')
                          \/ g = <<t, "owner">> /\ moves
  BY <1>3
<1>12. GrantsInv'
  <2>1. ASSUME NEW g \in grants' \ direct' PROVE IsBacked(g)'
    <3>1. CASE g[1] = t
      BY <1>4, <1>5, <3>1 DEF IsBacked
    <3>2. CASE g[1] # t
      <4>1. g \in grants \ direct /\ g[1] \in Users \ {s, t}
        BY <1>10, <1>11, <3>2
      <4>2. g[1] \in admitted => g[1] \in admitted'
        BY <1>3, <4>1
      <4> QED BY <1>2, <1>4, <4>1, <4>2 DEF GrantsInv, IsBacked
    <3> QED BY <3>1, <3>2
  <2>2. ASSUME NEW v \in admitted' PROVE member'["cloud"][v].role \notin {"none", "viewer"}
    <3>1. v \in admitted /\ v # s /\ v \in Users
      BY <1>2, <1>3 DEF MembersTyped
    <3> QED BY <1>2, <1>4, <1>5, <3>1 DEF GrantsInv
  <2>3. ASSUME NEW g \in grants' \ direct', NEW h \in grants' \ direct', g[2] = "owner", h[2] = "owner" PROVE g = h
    <3>1. ASSUME <<t, "owner">> \notin direct', moves,
                 NEW x \in grants \ direct, x[2] = "owner", x[1] # s, x[1] # t
          PROVE FALSE
      <4>1. ~inherits
        BY <1>3, <3>1
      <4>2. <<s, "owner">> \in grants \ direct \/ <<t, "owner">> \in grants \ direct
        BY <3>1, <4>1
      <4> QED BY <1>2, <3>1, <4>2 DEF GrantsInv
    <3>2. CASE g = <<t, "owner">> /\ moves
      BY <1>11, <2>3, <3>1, <3>2
    <3>3. CASE h = <<t, "owner">> /\ moves
      BY <1>11, <2>3, <3>1, <3>3
    <3>4. CASE g \in grants \ direct /\ h \in grants \ direct
      BY <1>2, <2>3, <3>4 DEF GrantsInv
    <3> QED BY <1>11, <2>3, <3>2, <3>3, <3>4
  <2> QED BY <2>1, <2>2, <2>3 DEF GrantsInv
<1>13. /\ minvite' \in [Users -> MemberInvitations \cup {NoInvite}]
       /\ \A u \in Users : IsPending(minvite', u) => IsPending(minvite, u) /\ minvite[u].by # s /\ minvite[u].by \in Users
  BY <1>2, <1>3, MemberInvitesWithout DEF MembersTyped
<1>14. /\ pinvite' \in [Users -> ProductInvitations \cup {NoInvite}]
       /\ \A u \in Users : IsPending(pinvite', u) =>
            IsPending(pinvite, u) /\ u # s /\ pinvite[u].by # s /\ pinvite'[u] = pinvite[u] /\ pinvite[u].by \in Users
  <2>1. pinvite \in [Users -> ProductInvitations \cup {NoInvite}]
    BY <1>2 DEF MembersTyped
  <2>2. CASE ~raised
    BY <1>3, <2>1, <2>2, ProductInvitesWithout
  <2>3. CASE raised
    <3> DEFINE mid == Without(pinvite, t)
    <3>1. /\ mid \in [Users -> ProductInvitations \cup {NoInvite}]
          /\ \A u \in Users : IsPending(mid, u) => IsPending(pinvite, u) /\ mid[u] = pinvite[u]
      BY <2>1, ProductInvitesWithout
    <3>2. pinvite' = Without(mid, s)
      BY <1>3, <2>3
    <3> HIDE DEF mid
    <3> QED BY <3>1, <3>2, ProductInvitesWithout
  <2> QED BY <2>2, <2>3
<1>15. InvitesInv'
  <2>1. \A v \in Users \ {s} : IsMember("cloud", v) => IsMember("cloud", v)'
    BY <1>4, <1>5 DEF IsMember
  <2>2. \A u \in Users : ~IsPending(minvite', u)
    BY <1>1, <1>2, <1>13 DEF InvitesInv
  <2> QED BY <1>2, <1>14, <2>1, <2>2 DEF InvitesInv
<1>16. MembersTyped'
  <2>1. grants' \subseteq Users \X ProductRoles
    BY <1>2, <1>11 DEF MembersTyped, ProductRoles
  <2>2. direct' \subseteq grants'
    BY <1>2, <1>3 DEF MembersTyped
  <2>3. hold' \subseteq Users /\ admitted' \subseteq Users
    BY <1>2, <1>3 DEF MembersTyped
  <2> QED BY <1>4, <1>7, <1>13, <1>14, <2>1, <2>2, <2>3 DEF MembersTyped
<1> QED BY <1>6, <1>8, <1>9, <1>12, <1>15, <1>16 DEF MembersInv

\* An assignment outside the product's own collaborators leaves theirs as they are.
LEMMA AssignStep ==
  ASSUME MembersInv, AccountsInv, AssignNext
  PROVE  MembersInv'
<1>1. UNCHANGED <<users, member, hold, minvite, pinvite, admitted, cloud>> /\ MembersTyped
  BY AssignSteps DEF AssignRest, invites, MembersInv
<1>2. /\ grants' \subseteq Users \X ProductRoles /\ direct' \subseteq grants'
      /\ grants' \ direct' \subseteq grants \ direct
  <2>1. ASSUME NEW u \in known, NEW targets \in SUBSET Targets, InsertAssignments(u, targets)
        PROVE <1>2
    <3>1. On(u, "product", targets) \subseteq Users \X ProductRoles
      <4>1. u \in Users /\ On(u, "product", targets) \subseteq {u} \X ProductRoles
        BY TargetRows DEF AccountsInv
      <4> QED BY <4>1
    <3> QED BY <1>1, <2>1, <3>1 DEF InsertAssignments, MembersTyped
  <2>2. ASSUME NEW u \in known, NEW t \in Targets, DisableRoleAssignment(u, t)
        PROVE <1>2
    BY <1>1, <2>2 DEF DisableRoleAssignment, MembersTyped
  <2> QED BY <2>1, <2>2, AssignSteps
<1>3. GrantsInv'
  BY <1>1, <1>2 DEF MembersInv, GrantsInv, IsBacked
<1> QED BY <1>1, <1>2, <1>3, ProductWrite DEF MembersTyped

\* Every step keeps the members in order.
LEMMA MembersKept ==
  ASSUME MembersInv, AccountsInv, Next
  PROVE  MembersInv'
<1>1. CASE MembersNext
  <2>1. CASE AccountStep
    BY <2>1, SuspensionSteps, ProvisionStep DEF AccountStep, Orgs
  <2>2. CASE RowStep
    <3>1. ASSUME NEW o \in Orgs, NEW u \in known, RemoveMember(o, u) PROVE MembersInv'
      BY <3>1, RemovalStep, OrganizationSteps DEF Orgs
    <3>2. ASSUME NEW u \in known, DisableDeveloperBrandCloudMember(u) \/ EnableDeveloperBrandCloudMember(u)
          PROVE MembersInv'
      BY <3>2, SuspensionSteps DEF Orgs
    <3>3. ASSUME NEW u \in known, CreateOrganization(u) PROVE MembersInv'
      BY <3>3, OrganizationSteps
    <3> QED BY <2>2, <3>1, <3>2, <3>3, OrganizationSteps, UpdateStep, JoinStep, CommitStep DEF RowStep
  <2>3. CASE ProductStep
    <3>1. ASSUME NEW actor \in known, NEW u \in known, RemoveProductCollaborator(actor, u) \/ TransferProductOwnership(actor, u)
          PROVE MembersInv'
      BY <3>1, ProductSteps DEF Collaborators
    <3> QED BY <2>3, <3>1, ProductSteps, AcceptProductStep DEF ProductStep
  <2>4. CASE UNCHANGED <<users, memberVars>>
    <3>1. hold' = hold /\ UNCHANGED <<known, enabled, verified, member, invites, product, cloud>>
      BY <2>4 DEF users, memberVars
    <3> QED BY <3>1, AccountWrite DEF MembersInv, HoldIsOurs
  <2> QED BY <1>1, <2>1, <2>2, <2>3, <2>4, InviteSteps, CloudSteps, MembersSteps
<1>2. CASE (AdminNext \/ QuotaNext) /\ UNCHANGED memberVars
  <2>1. hold' = hold /\ UNCHANGED <<member, invites, product, cloud>>
    BY <1>2 DEF memberVars
  <2>2. enabled \subseteq enabled' /\ verified' \ verified \subseteq Users \ enabled
    <3>1. CASE UNCHANGED users
      BY <3>1 DEF users
    <3>2. ASSUME NEW c \in Clouds, NEW u \in Users, BootstrapPlatformAdmin(c, u), ~UNCHANGED users
          PROVE enabled \subseteq enabled' /\ verified' \ verified \subseteq Users \ enabled
      <4>1. ~IsInstalled
        BY <3>2 DEF BootstrapPlatformAdmin
      <4> QED BY <3>2, <4>1 DEF BootstrapPlatformAdmin, EnsurePlatformAdmin, AccountsInv
    <3>3. AdminNext => UNCHANGED users
      BY DEF AdminNext, RequirePlatformAdmin, RecoveryExpires, deleteACLRole, DisableRole, createACLExternalGroupMapping,
         CreateExternalGroupMapping, deleteACLExternalGroupMapping, DisableExternalGroupMapping, adminRecovery,
         AdminRecovery
    <3>4. QuotaNext => UNCHANGED users \/ \E c \in Clouds, u \in Users : BootstrapPlatformAdmin(c, u)
      BY DEF QuotaNext, createBrandCloud, CreateBrandCloud, createBrandCloudOwnerTransfer,
       CreateBrandCloudOwnerTransfer, createDeveloperBrandCloud, CreateManagedBrandCloud, updateDeveloperBrandCloud,
       UpdateManagedBrandCloud, acceptBrandCloudOwnerTransfer, AcceptOwnerHandoff, cancelBrandCloudOwnerTransfer,
       CancelOffer, CommitTransfer, CancelTransfer, updateOwnerTransferLimit, SetOwnerTransferLimit,
       createQuotaRaiseRequest, CreateQuotaRaiseRequest, decideQuotaRaiseRequest, DecideQuotaRaiseRequest
    <3> QED BY <1>2, <3>1, <3>2, <3>3, <3>4
  <2> QED BY <2>1, <2>2, AccountsStay, AccountWrite DEF MembersInv, HoldIsOurs
<1> QED BY <1>1, <1>2, AssignStep DEF Next

\* The members are always in order.
LEMMA MembersAlways == Spec => []MembersInv
<1>1. Init => MembersInv
  BY MembersStart DEF Init
<1>2. MembersInv /\ AdminInv /\ Next => MembersInv'
  BY MembersKept DEF AdminInv
<1>3. MembersInv /\ UNCHANGED vars => MembersInv'
  <2> SUFFICES ASSUME MembersInv, UNCHANGED vars PROVE MembersInv'
    OBVIOUS
  <2>1. hold' = hold /\ UNCHANGED <<known, enabled, verified, member, invites, product, cloud>>
    BY DEF vars, users, memberVars
  <2> QED BY <2>1, AccountWrite DEF MembersInv, HoldIsOurs
<1> QED BY <1>1, <1>2, <1>3, AdminAlways, PTL DEF Spec

\* The checks a request may have passed.
PastTyped == past \subseteq Checks

\* They are the only ones the administration records.
LEMMA PastAlways == Spec => []PastTyped
<1>1. Init => PastTyped
  BY DEF PastTyped, Init, AdminInit
<1>2. ASSUME PastTyped, Next PROVE PastTyped'
  <2>1. CASE AdminNext
    BY <1>2, <2>1 DEF PastTyped, Checks, AdminNext, RequirePlatformAdmin, RecoveryExpires, deleteACLRole,
         createACLExternalGroupMapping, deleteACLExternalGroupMapping, adminRecovery, AdminRecovery, Proceed
  <2>2. CASE QuotaNext
    BY <1>2, <2>2 DEF PastTyped, QuotaNext, BootstrapPlatformAdmin, createBrandCloud, createBrandCloudOwnerTransfer,
       CreateBrandCloudOwnerTransfer, createDeveloperBrandCloud, CreateManagedBrandCloud, updateDeveloperBrandCloud,
       UpdateManagedBrandCloud, acceptBrandCloudOwnerTransfer, AcceptOwnerHandoff, cancelBrandCloudOwnerTransfer,
       CancelOffer, CommitTransfer, CancelTransfer, updateOwnerTransferLimit,
       createQuotaRaiseRequest, CreateQuotaRaiseRequest, decideQuotaRaiseRequest, Proceed
  <2>3. CASE MembersNext
    BY <1>2, <2>3 DEF PastTyped, Checks, RoleCheck, MembersNext, DeveloperBrandCloudManager, RequirePermission, Checked, Request, Proceed,
       createOrganization, VerifyEmail, deleteCurrentUser, addMember, updateMemberRole, removeMember,
       disableMemberUser, enableMemberUser, disableDeveloperBrandCloudMember, enableDeveloperBrandCloudMember,
       removeDeveloperBrandCloudMember, disableBrandCloudUser, enableBrandCloudUser, deleteBrandCloudUser,
       ListBrandCloudMemberInvitations, acceptDeveloperBrandCloudMemberInvitation,
       ListProductCollaboratorInvitations, acceptProductCollaboratorInvitation, OpenOwnerHandoff, TimePasses,
       createBrandCloudUser, updateDeveloperBrandCloudMember, inviteDeveloperBrandCloudMember,
       resendDeveloperBrandCloudMemberInvitation, CancelBrandCloudMemberInvitation, inviteProductCollaborator,
       UpdateProductCollaborator, resendProductCollaboratorInvitation, CancelProductCollaboratorInvitation,
       RemoveProductCollaborator, TransferProductOwnership, updateBrandCloud, CommitOwnerHandoff, EndOwnerHandoff
  <2>4. CASE AssignNext
    BY <1>2, <2>4 DEF PastTyped, AssignNext, createACLRoleAssignment, deleteACLRoleAssignment,
       createCustomerACLAssignment, deleteCustomerACLAssignment, ApplyExternalGroupMappings, Checked, Request, Proceed
  <2> QED BY <1>2, <2>1, <2>2, <2>3, <2>4 DEF Next
<1>3. PastTyped /\ UNCHANGED vars => PastTyped'
  BY DEF PastTyped, vars
<1> QED BY <1>1, <1>2, <1>3, PTL DEF Spec

\* The assignments on an organization are of managers' roles.
BoundTyped == bound \subseteq Orgs \X Users \X ManagerRoles

\* Only those are ever made, by a membership, a handoff or an assignment.
LEMMA BoundAlways == Spec => []BoundTyped
<1>1. Init => BoundTyped
  BY DEF BoundTyped, Init, MembersInit
<1>2. ASSUME BoundTyped, AdminInv, MembersInv, Next PROVE BoundTyped'
  <2>1. ASSUME NEW o \in Orgs, NEW u \in Users, NEW roles PROVE Rebound(o, u, roles) \subseteq Orgs \X Users \X ManagerRoles
    BY <1>2 DEF BoundTyped, Rebound, Unbound
  <2>2. "cloud" \in Orgs /\ "org" \in Orgs /\ known \subseteq Users
    BY <1>2 DEF Orgs, AdminInv, AccountsInv
  <2>3. CASE MembersNext
    <3>1. CASE AccountStep
      BY <1>2, <2>1, <2>2, <3>1 DEF BoundTyped, AccountStep, DisableMemberUser, EnableMemberUser, DisableCurrentUser,
         VerifyEmail, ProvisionBrandCloudAccount, memberVars
    <3>2. CASE RowStep
      <4>1. CASE CommitOwnerHandoff
        <5>1. cloud.handoff.target \in Users
          BY <1>2, <4>1 DEF CommitOwnerHandoff, MembersInv, MembersTyped
        <5>2. bound' \subseteq bound \cup {<<"cloud", cloud.handoff.target, "owner">>}
          BY <4>1 DEF CommitOwnerHandoff, Unbound
        <5> QED BY <1>2, <2>2, <5>1, <5>2 DEF BoundTyped, ManagerRoles
      <4>2. ASSUME NEW o \in Orgs, NEW u \in known, RemoveMember(o, u) PROVE BoundTyped'
        BY <1>2, <4>2 DEF BoundTyped, RemoveMember, Unbound
      <4>3. ASSUME NEW u \in known, NEW role \in {"owner", "admin", "member"},
                   CreateOrganization(u) \/ AddMember(u, role) \/ UpdateMemberRole(u, role)
            PROVE BoundTyped'
        BY <2>1, <2>2, <4>3 DEF BoundTyped, CreateOrganization, AddMember, UpdateMemberRole, Synced
      <4>4. ASSUME NEW u \in known,
                   \/ DisableDeveloperBrandCloudMember(u) \/ EnableDeveloperBrandCloudMember(u)
                   \/ AcceptBrandCloudMemberInvitation(u)
            PROVE BoundTyped'
        BY <1>2, <2>1, <2>2, <4>4 DEF BoundTyped, DisableDeveloperBrandCloudMember, EnableDeveloperBrandCloudMember,
           AcceptBrandCloudMemberInvitation, Synced
      <4>5. ASSUME NEW actor \in known, NEW u \in known, NEW role \in {"admin", "member", "viewer"}, NEW scope \in Scopes,
                   UpdateDeveloperBrandCloudMember(actor, u, role, scope)
            PROVE BoundTyped'
        BY <2>1, <2>2, <4>5 DEF BoundTyped, UpdateDeveloperBrandCloudMember, Synced
      <4>6. ASSUME NEW u \in known, CreateOrganization(u) PROVE BoundTyped'
        BY <4>3, <4>6
      <4> QED BY <3>2, <4>1, <4>2, <4>3, <4>4, <4>5, <4>6 DEF RowStep
    <3>3. InviteStep => UNCHANGED bound
      BY DEF InviteStep, CreateBrandCloudMemberInvitation, ListBrandCloudMemberInvitations, TimePasses,
         ResendBrandCloudMemberInvitation, CancelBrandCloudMemberInvitation, CreateProductCollaboratorInvitation,
         ListProductCollaboratorInvitations, ResendProductCollaboratorInvitation,
         CancelProductCollaboratorInvitation, MemberInvites, ProductInvites
    <3>4. ProductStep \/ CloudStep \/ UNCHANGED <<users, memberVars>> => UNCHANGED bound
      BY DEF ProductStep, AcceptProductCollaboratorInvitation, UpdateProductCollaborator, RemoveProductCollaborator,
         TransferProductOwnership, Grants, CloudStep, UpdateBrandCloud, OpenOwnerHandoff, EndOwnerHandoff, memberVars
    <3> QED BY <1>2, <2>3, <3>1, <3>2, <3>3, <3>4, MembersSteps DEF BoundTyped
  <2>4. CASE AssignNext
    <3>1. ASSUME NEW u \in known, NEW targets \in SUBSET Targets, InsertAssignments(u, targets) PROVE BoundTyped'
      <4>1. OnOrgs(u, targets) \subseteq Orgs \X Users \X ManagerRoles
        BY <2>2, TargetRows
      <4> QED BY <1>2, <3>1, <4>1 DEF BoundTyped, InsertAssignments
    <3>2. ASSUME NEW u \in known, NEW t \in Targets, DisableRoleAssignment(u, t) PROVE BoundTyped'
      BY <1>2, <3>2 DEF BoundTyped, DisableRoleAssignment
    <3> QED BY <2>4, <3>1, <3>2, AssignSteps
  <2>5. CASE UNCHANGED memberVars
    BY <1>2, <2>5 DEF BoundTyped, memberVars
  <2> QED BY <1>2, <2>3, <2>4, <2>5 DEF Next
<1>3. BoundTyped /\ UNCHANGED vars => BoundTyped'
  BY DEF BoundTyped, vars, memberVars
<1> QED BY <1>1, <1>2, <1>3, AdminAlways, MembersAlways, PTL DEF Spec

\* The invariants give the types.
LEMMA TypesFollow ==
  ASSUME AdminInv, MembersInv, QuotaInv, PastTyped, BoundTyped
  PROVE  TypeOK
<1>1. AdminTypeOK
  <2>1. ASSUME NEW r \in Recoveries
        PROVE /\ recovery[r].status \in {"none", "requested", "completed", "cancelled"}
              /\ recovery[r].status # "none" => recovery[r].target \in known \ {recovery[r].by}
              /\ recovery[r].approvals \subseteq known \X PlatformRoles
    <3>1. recovery[r] \in RecoveryRows /\ RecoveryInv(r)
      BY DEF AdminInv, RecoveriesInv
    <3>2. ASSUME NEW a \in recovery[r].approvals PROVE a \in known \X PlatformRoles
      <4>1. a \in Users \X ApprovingRoles /\ a[1] \in known
        BY <3>1 DEF RecoveryRows, RecoveryInv
      <4>2. a = <<a[1], a[2]>> /\ a[2] \in PlatformRoles
        BY <4>1 DEF ApprovingRoles, PlatformRoles
      <4>3. <<a[1], a[2]>> \in known \X PlatformRoles
        BY <4>1, <4>2
      <4> QED BY <4>2, <4>3
    <3> QED BY <3>1, <3>2 DEF RecoveryRows, RecoveryInv
  <2> QED BY <2>1 DEF AdminInv, AccountsInv, PastTyped, AdminTypeOK
<1>2. MembersTypeOK
  <2>1. \A u \in Users : minvite[u].age \in 0..Lapsed /\ pinvite[u].age \in 0..Lapsed
    <3>1. NoInvite.age \in 0..Lapsed
      BY DEF NoInvite, Invite, Lapsed
    <3> QED BY <3>1 DEF MembersInv, MembersTyped, MemberInvitations, ProductInvitations
  <2>2. \A o \in Orgs, u \in Users :
          /\ member[o][u].role # "none" => u \in known
          /\ (member[o][u].role = "viewer") <=> (member[o][u].scope # "none")
    BY DEF MembersInv, RowsInv, RowInv
  <2> QED BY <2>1, <2>2 DEF MembersInv, MembersTyped, BoundTyped, MembersTypeOK
<1>3. QuotaTypeOK
  <2>1. \A c \in Clouds : /\ clouds[c].owner \in known \cup {NoUser} /\ clouds[c].target \in known \cup {NoUser}
                          /\ clouds[c].version \in Nat /\ {clouds[c].allowed, clouds[c].granted} \subseteq Nat
    BY DEF QuotaInv, CloudsInv, CloudRows, CloudInv
  <2>2. \A w \in Writes : receipts[w].cloud \in Clouds \cup {Create} /\ writes[w] \in Nat
    BY DEF QuotaInv, WritesInv
  <2>3. /\ \A q \in QuotaRequests : asked[q].status \in {"none", "pending", "approved", "declined"}
        /\ quota \in BaseQuota..MaxQuota
    BY DEF QuotaInv, RaisesInv
  <2>4. \A o \in offers : o.cloud \in Clouds /\ {o.by, o.target} \subseteq known
    BY DEF QuotaInv, CloudsInv, OffersInv
  <2> QED BY <2>1, <2>2, <2>3, <2>4 DEF QuotaTypeOK
<1> QED BY <1>1, <1>2, <1>3 DEF PastTyped, TypeOK

\* Whichever handler, trigger or handoff changes a membership, what rests on it
\* goes with it: holds (migration 051), roles, admissions and invitations of the
\* product (053), what a viewer may have (054) and the invitations of a former owner.
\* The roles on the product that administrators and group mappings give in between
\* (CreateRoleAssignment) are not among those that rest on a membership.
THEOREM MembershipStaysConsistent == Spec => []MembershipIsConsistent
<1>1. ASSUME MembersInv PROVE HoldIsOurs /\ GrantsFollowMembership /\ PendingIsLive
  <2>1. HoldIsOurs
    BY <1>1 DEF MembersInv
  <2>2. GrantsFollowMembership
    BY <1>1 DEF MembersInv, GrantsInv, InvitesInv, GrantsFollowMembership
  <2>3. PendingIsLive
    <3>1. \A u \in Users : IsPending(minvite, u) => minvite[u].by \in Users /\ IsOwner("cloud", minvite[u].by)
      BY <1>1 DEF MembersInv, MembersTyped, IsPending, MemberInvitations, InvitesInv
    <3> QED BY <1>1, <3>1, OwnerIs DEF MembersInv, PendingIsLive
  <2> QED BY <2>1, <2>2, <2>3
<1>2. AdminInv /\ MembersInv /\ QuotaInv /\ PastTyped /\ BoundTyped => MembershipIsConsistent
  BY <1>1, TypesFollow DEF MembershipIsConsistent
<1> QED BY <1>2, AdminAlways, MembersAlways, QuotaAlways, PastAlways, BoundAlways, PTL

-----------------------------------------------------------------------------
(* The last owner.                                                         *)

\* An active owner whose row and account keep that is one afterwards.
LEMMA OwnerRemains ==
  ASSUME NEW o \in Orgs, NEW v \in Users, member'[o][v].role = "owner", member'[o][v].off = "no", v \in enabled'
  PROVE  v \in ActiveOwners(o)'
BY DEF ActiveOwners, IsOwner, IsActive, IsMember, NoMember, Row

\* A write of a row leaves an active owner when somebody else is one, or the row is
\* no owner's, or stays the row of an owner who is not suspended.
LEMMA WriteKeepsOwner ==
  ASSUME MembersInv, NEW o \in Orgs, NEW p \in Orgs, NEW u \in Users, NEW row, Wrote(p, u, row),
         enabled \subseteq enabled', ActiveOwners(o) # {},
         \/ IsOwner(p, u) => AnotherActiveOwner(p, u)
         \/ row.role = "owner" /\ (row.off = "no" \/ row.off = member[p][u].off)
  PROVE  ActiveOwners(o)' # {}
<1>1. ASSUME NEW v \in ActiveOwners(o), o # p \/ v # u PROVE v \in ActiveOwners(o)'
  <2>1. v \in Users /\ IsOwner(o, v) /\ member[o][v].off = "no" /\ v \in enabled
    BY <1>1 DEF ActiveOwners, IsActive
  <2>2. member'[o][v] = member[o][v]
    BY <1>1, <2>1 DEF Wrote
  <2> QED BY <2>1, <2>2, OwnerRemains DEF IsOwner
<1>2. PICK v \in ActiveOwners(o) : TRUE
  OBVIOUS
<1>3. CASE o = p /\ v = u
  <2>1. CASE IsOwner(p, u) => AnotherActiveOwner(p, u)
    <3>1. IsOwner(p, u)
      BY <1>2, <1>3 DEF ActiveOwners
    <3>2. PICK w \in ActiveOwners(p) : w # u
      BY <2>1, <3>1 DEF AnotherActiveOwner
    <3> QED BY <1>1, <1>3, <3>2
  <2>2. CASE row.role = "owner" /\ (row.off = "no" \/ row.off = member[p][u].off)
    <3>1. member[p][u].off = "no" /\ u \in enabled
      BY <1>2, <1>3 DEF ActiveOwners, IsActive
    <3>2. member'[p][u] = row
      BY DEF Wrote
    <3> QED BY <1>3, <2>2, <3>1, <3>2, OwnerRemains
  <2> QED BY <2>1, <2>2
<1> QED BY <1>1, <1>2, <1>3

\* Disabling an account leaves an active owner where it was none, or where another one is.
LEMMA DisableKeepsOwner ==
  ASSUME NEW o \in Orgs, NEW u, member' = member, enabled' = enabled \ {u}, ActiveOwners(o) # {},
         IsOwner(o, u) => AnotherActiveOwner(o, u)
  PROVE  ActiveOwners(o)' # {}
<1>1. ASSUME NEW v \in ActiveOwners(o), v # u PROVE v \in ActiveOwners(o)'
  BY <1>1 DEF ActiveOwners, IsOwner, IsActive, IsMember
<1>2. PICK v \in ActiveOwners(o) : v # u
  BY DEF AnotherActiveOwner, ActiveOwners
<1> QED BY <1>1, <1>2

\* An account step takes the last active owner only with an account that is
\* disabled through another organization.
LEMMA AccountStepOwner ==
  ASSUME MembersInv, AccountsInv, AccountStep, NEW o \in Orgs, ActiveOwners(o) # {}, ActiveOwners(o)' = {}
  PROVE  \E u \in enabled \ enabled', p \in Orgs \ {o} : IsMember(p, u)
<1>1. "cloud" \in Orgs /\ MembersTyped /\ known \subseteq Users
  BY DEF Orgs, MembersInv, AccountsInv
<1>2. ASSUME NEW p \in Orgs, NEW u \in known, DisableMemberUser(p, u)
      PROVE \E w \in enabled \ enabled', q \in Orgs \ {o} : IsMember(q, w)
  <2>1. /\ EnsureNotLastActiveOwner(p, u) /\ u \in enabled /\ enabled' = enabled \ {u} /\ member' = member
    BY <1>2 DEF DisableMemberUser
  <2>2. p # o
    BY <2>1, DisableKeepsOwner DEF EnsureNotLastActiveOwner
  <2>3. IsMember(p, u)
    BY <2>1 DEF EnsureNotLastActiveOwner
  <2> QED BY <2>1, <2>2, <2>3
<1>3. ASSUME NEW u \in known, DisableCurrentUser(u) PROVE FALSE
  BY <1>3, DisableKeepsOwner DEF DisableCurrentUser
<1>4. ASSUME member' = member, enabled \subseteq enabled' PROVE FALSE
  BY <1>4 DEF ActiveOwners, IsOwner, IsActive, IsMember
<1>5. ASSUME NEW p \in Orgs, NEW u \in known, EnableMemberUser(p, u) PROVE FALSE
  BY <1>4, <1>5 DEF EnableMemberUser, memberVars
<1>6. ASSUME NEW u \in known, VerifyEmail(u) PROVE FALSE
  <2>1. CASE u \in hold
    <3> DEFINE row == Row(member["cloud"][u].role, "no", member["cloud"][u].scope)
    <3>1. Wrote("cloud", u, row) /\ enabled' = enabled
      BY <1>1, <1>6, <2>1, FieldWritten DEF VerifyEmail
    <3>2. row.role = member["cloud"][u].role /\ row.off = "no"
      BY DEF Row
    <3> HIDE DEF row
    <3>3. (IsOwner("cloud", u) => AnotherActiveOwner("cloud", u)) \/ row.role = "owner"
      BY <3>2 DEF IsOwner
    <3> QED BY <1>1, <3>1, <3>2, <3>3, WriteKeepsOwner
  <2>2. CASE u \notin hold
    BY <1>4, <1>6, <2>2 DEF VerifyEmail
  <2> QED BY <2>1, <2>2
<1>7. ASSUME NEW u \in Users, NEW role \in {"admin", "member"}, NEW mode \in {"email", "immediate"}, NEW rotate \in BOOLEAN,
             ProvisionBrandCloudAccount(u, role, mode, rotate)
      PROVE FALSE
  <2>1. member["cloud"][u] \in MemberRows
    BY <1>1 DEF MembersTyped
  <2>2. PICK off \in {"no", "pending", "disabled"} : member' = [member EXCEPT !["cloud"][u] = Row(role, off, "none")]
    BY <1>7, <2>1 DEF ProvisionBrandCloudAccount, MemberRows
  <2>3. Row(role, off, "none") \in MemberRows
    BY DEF Row, MemberRows, Scopes
  <2>4. Wrote("cloud", u, Row(role, off, "none"))
    BY <1>1, <2>2, <2>3, RowWritten
  <2>5. ~IsOwner("cloud", u) /\ enabled \subseteq enabled'
    BY <1>7 DEF ProvisionBrandCloudAccount, IsOwner
  <2> QED BY <1>1, <2>4, <2>5, WriteKeepsOwner
<1> QED BY <1>2, <1>3, <1>5, <1>6, <1>7 DEF AccountStep

\* A write of a membership never takes the last active owner.
LEMMA RowStepOwner ==
  ASSUME MembersInv, AccountsInv, RowStep, NEW o \in Orgs, ActiveOwners(o) # {}
  PROVE  ActiveOwners(o)' # {}
<1>1. "cloud" \in Orgs /\ "org" \in Orgs /\ MembersTyped /\ known \subseteq Users
  BY DEF Orgs, MembersInv, AccountsInv
<1>2. enabled' = enabled
  BY AccountsRest DEF users
<1>3. NoMember \in MemberRows
  BY DEF NoMember, Row, MemberRows, Scopes
<1>4. ASSUME NEW p \in Orgs, NEW u \in Users, ~IsMember(p, u) PROVE ~IsOwner(p, u)
  BY <1>1, <1>4, MembersHaveRoles DEF MembersInv, IsOwner
<1>5. ASSUME NEW u \in known, NEW role \in {"owner", "admin", "member"},
             CreateOrganization(u) \/ AddMember(u, role) \/ UpdateMemberRole(u, role)
      PROVE ActiveOwners(o)' # {}
  <2>1. CASE CreateOrganization(u) \/ AddMember(u, role)
    <3>1. PICK given \in {"owner", "admin", "member"} : member' = [member EXCEPT !["org"][u] = Row(given, "no", "none")]
      BY <2>1 DEF CreateOrganization, AddMember
    <3>2. Row(given, "no", "none") \in MemberRows
      BY <3>1 DEF Row, MemberRows, Scopes
    <3>3. Wrote("org", u, Row(given, "no", "none"))
      BY <1>1, <3>1, <3>2, RowWritten
    <3>4. ~IsOwner("org", u)
      BY <1>1, <1>4, <2>1 DEF CreateOrganization, AddMember
    <3> QED BY <1>1, <1>2, <3>3, <3>4, WriteKeepsOwner
  <2>2. CASE UpdateMemberRole(u, role)
    <3> DEFINE row == Row(role, member["org"][u].off, member["org"][u].scope)
    <3>1. Wrote("org", u, row)
      BY <1>1, <2>2, FieldWritten DEF UpdateMemberRole
    <3>2. row.role = role /\ row.off = member["org"][u].off
      BY DEF Row
    <3>3. (IsOwner("org", u) => AnotherActiveOwner("org", u)) \/ role = "owner"
      BY <2>2 DEF UpdateMemberRole, EnsureNotLastActiveOwner
    <3> HIDE DEF row
    <3> QED BY <1>1, <1>2, <3>1, <3>2, <3>3, WriteKeepsOwner
  <2> QED BY <1>5, <2>1, <2>2
<1>6. ASSUME NEW p \in Orgs, NEW u \in known, RemoveMember(p, u) PROVE ActiveOwners(o)' # {}
  <2>1. Wrote(p, u, NoMember)
    BY <1>1, <1>3, <1>6, RowWritten DEF RemoveMember
  <2>2. IsOwner(p, u) => AnotherActiveOwner(p, u)
    BY <1>6 DEF RemoveMember, EnsureNotLastActiveOwner
  <2> QED BY <1>1, <1>2, <2>1, <2>2, WriteKeepsOwner
<1>7. ASSUME NEW u \in known, DisableDeveloperBrandCloudMember(u) \/ EnableDeveloperBrandCloudMember(u)
      PROVE ActiveOwners(o)' # {}
  <2>1. CASE DisableDeveloperBrandCloudMember(u)
    <3>1. Wrote("cloud", u, Row(member["cloud"][u].role, "disabled", member["cloud"][u].scope))
      BY <1>1, <2>1, FieldWritten DEF DisableDeveloperBrandCloudMember
    <3>2. IsOwner("cloud", u) => AnotherActiveOwner("cloud", u)
      BY <2>1 DEF DisableDeveloperBrandCloudMember, EnsureNotLastActiveOwner
    <3> QED BY <1>1, <1>2, <3>1, <3>2, WriteKeepsOwner
  <2>2. CASE EnableDeveloperBrandCloudMember(u)
    <3> DEFINE row == Row(member["cloud"][u].role, "no", member["cloud"][u].scope)
    <3>1. Wrote("cloud", u, row)
      BY <1>1, <2>2, FieldWritten DEF EnableDeveloperBrandCloudMember
    <3>2. row.role = member["cloud"][u].role /\ row.off = "no"
      BY DEF Row
    <3>3. (IsOwner("cloud", u) => AnotherActiveOwner("cloud", u)) \/ row.role = "owner"
      BY <3>2 DEF IsOwner
    <3> HIDE DEF row
    <3> QED BY <1>1, <1>2, <3>1, <3>2, <3>3, WriteKeepsOwner
  <2> QED BY <1>7, <2>1, <2>2
<1>8. ASSUME NEW actor \in known, NEW u \in known, NEW role \in {"admin", "member", "viewer"}, NEW scope \in Scopes,
             UpdateDeveloperBrandCloudMember(actor, u, role, scope)
      PROVE ActiveOwners(o)' # {}
  <2> DEFINE row == Row(role, member["cloud"][u].off, scope)
  <2>1. member' = [member EXCEPT !["cloud"][u] = row] /\ ~IsOwner("cloud", u)
    BY <1>8 DEF UpdateDeveloperBrandCloudMember
  <2>2. row \in MemberRows
    BY <1>1 DEF MembersTyped, Row, MemberRows
  <2> HIDE DEF row
  <2>3. Wrote("cloud", u, row)
    BY <1>1, <2>1, <2>2, RowWritten
  <2> QED BY <1>1, <1>2, <2>1, <2>3, WriteKeepsOwner
<1>9. ASSUME NEW t \in known, AcceptBrandCloudMemberInvitation(t) PROVE ActiveOwners(o)' # {}
  <2>1. CASE member' = member
    BY <1>2, <2>1 DEF ActiveOwners, IsOwner, IsActive, IsMember
  <2>2. CASE member' # member
    <3> DEFINE row == Row(minvite[t].role, "no", minvite[t].scope)
    <3>1. member' = [member EXCEPT !["cloud"][t] = row] /\ ~IsMember("cloud", t) /\ IsPending(minvite, t)
      BY <1>9, <2>2 DEF AcceptBrandCloudMemberInvitation
    <3>2. minvite[t] \in MemberInvitations
      BY <1>1, <3>1 DEF MembersTyped, IsPending
    <3>3. row \in MemberRows
      BY <3>2 DEF MemberInvitations, Row, MemberRows
    <3> HIDE DEF row
    <3>4. Wrote("cloud", t, row)
      BY <1>1, <3>1, <3>3, RowWritten
    <3>5. ~IsOwner("cloud", t)
      BY <1>1, <1>4, <3>1
    <3> QED BY <1>1, <1>2, <3>4, <3>5, WriteKeepsOwner
  <2> QED BY <2>1, <2>2
<1>10. ASSUME CommitOwnerHandoff PROVE ActiveOwners(o)' # {}
  <2> DEFINE s == CloudOwner
             t == cloud.handoff.target
             owner == Row("owner", "no", "none")
             first == [member EXCEPT !["cloud"][t] = owner]
  <2>1. /\ t \in Users \cup {NoUser} /\ t # NoUser /\ ~cloud.handoff.committed /\ t \in enabled
        /\ member' = [first EXCEPT !["cloud"][s] = NoMember]
    BY <1>1, <1>10 DEF MembersTyped, CommitOwnerHandoff
  <2>2. s \in Users /\ t \in Users /\ s # t
    BY <2>1, OwnerIs DEF MembersInv, OwnerInv
  <2> HIDE DEF s, t
  <2>3. owner \in MemberRows /\ owner.role = "owner" /\ owner.off = "no"
    BY DEF Row, MemberRows, Scopes
  <2> HIDE DEF owner
  <2>4. /\ first \in [Orgs -> [Users -> MemberRows]] /\ first["cloud"][t] = owner
        /\ \A p \in Orgs \ {"cloud"}, v \in Users : first[p][v] = member[p][v]
    BY <1>1, <2>2, <2>3 DEF MembersTyped
  <2> HIDE DEF first
  <2>5. member'["cloud"][t] = owner /\ \A p \in Orgs \ {"cloud"}, v \in Users : member'[p][v] = member[p][v]
    BY <1>1, <2>1, <2>2, <2>4
  <2>6. CASE o = "cloud"
    BY <1>1, <1>2, <2>1, <2>2, <2>3, <2>5, <2>6, OwnerRemains
  <2>7. CASE o # "cloud"
    BY <1>2, <2>5, <2>7 DEF ActiveOwners, IsOwner, IsActive, IsMember
  <2> QED BY <2>6, <2>7
<1> QED BY <1>5, <1>6, <1>7, <1>8, <1>9, <1>10 DEF RowStep

\* ensureNotLastActiveOwnerTx is enough: removals, demotions, suspensions,
\* departures and handoffs, in any order, leave an organization that has an active
\* owner with one, but for an account that is disabled through another organization.
THEOREM OrganizationsKeepAnOwner == Spec => LastOwnerStays
<1>1. ASSUME MembersInv, AccountsInv, Next, NEW o \in Orgs, ActiveOwners(o) # {}, ActiveOwners(o)' = {}
      PROVE \E u \in enabled \ enabled', p \in Orgs \ {o} : IsMember(p, u)
  <2>1. ASSUME member' = member, enabled \subseteq enabled' PROVE FALSE
    BY <1>1, <2>1 DEF ActiveOwners, IsOwner, IsActive, IsMember
  <2>2. CASE MembersNext
    <3>1. InviteStep \/ ProductStep \/ CloudStep => UNCHANGED member
      BY DEF InviteStep, CreateBrandCloudMemberInvitation, ListBrandCloudMemberInvitations, TimePasses,
         ResendBrandCloudMemberInvitation, CancelBrandCloudMemberInvitation, CreateProductCollaboratorInvitation,
         ListProductCollaboratorInvitations, ResendProductCollaboratorInvitation,
         CancelProductCollaboratorInvitation, MemberInvites, ProductInvites, ProductStep,
         AcceptProductCollaboratorInvitation, UpdateProductCollaborator, RemoveProductCollaborator,
         TransferProductOwnership, Grants, CloudStep, UpdateBrandCloud, OpenOwnerHandoff, EndOwnerHandoff
    <3>2. ~(InviteStep \/ ProductStep \/ CloudStep)
      BY <2>1, <3>1, AccountsRest DEF users
    <3>3. ~UNCHANGED <<users, memberVars>>
      BY <2>1 DEF users, memberVars
    <3> QED BY <1>1, <2>2, <3>2, <3>3, MembersSteps, AccountStepOwner, RowStepOwner
  <2>3. AdminNext => UNCHANGED users
    BY DEF AdminNext, RequirePlatformAdmin, RecoveryExpires, deleteACLRole, DisableRole, createACLExternalGroupMapping,
       CreateExternalGroupMapping, deleteACLExternalGroupMapping, DisableExternalGroupMapping, adminRecovery, AdminRecovery
  <2>4. QuotaNext => enabled \subseteq enabled'
    BY DEF QuotaNext, BootstrapPlatformAdmin, EnsurePlatformAdmin, createBrandCloud, CreateBrandCloud,
       createBrandCloudOwnerTransfer,
       CreateBrandCloudOwnerTransfer, createDeveloperBrandCloud, CreateManagedBrandCloud, updateDeveloperBrandCloud,
       UpdateManagedBrandCloud, acceptBrandCloudOwnerTransfer, AcceptOwnerHandoff, cancelBrandCloudOwnerTransfer,
       CancelOffer, CommitTransfer, CancelTransfer, updateOwnerTransferLimit, SetOwnerTransferLimit,
       createQuotaRaiseRequest, CreateQuotaRaiseRequest, decideQuotaRaiseRequest, DecideQuotaRaiseRequest, users
  <2>5. AssignNext => UNCHANGED <<users, member>>
    BY AssignSteps DEF AssignRest
  <2> QED BY <1>1, <2>1, <2>2, <2>3, <2>4, <2>5 DEF Next, users, memberVars
<1>2. AdminInv /\ MembersInv /\ [Next]_vars =>
        [\A o \in Orgs : ActiveOwners(o) # {} /\ ActiveOwners(o)' = {} =>
           \E u \in enabled \ enabled', p \in Orgs \ {o} : IsMember(p, u)]_<<users, member>>
  BY <1>1 DEF AdminInv, vars, memberVars
<1> QED BY <1>2, AdminAlways, MembersAlways, PTL DEF Spec, LastOwnerStays
=============================================================================
