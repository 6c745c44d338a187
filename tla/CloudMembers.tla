---------------------------- MODULE CloudMembers ----------------------------
(***************************************************************************)
(* The members of a brand cloud and of a customer organization, and the    *)
(* collaborators of one product of the cloud: provisioning, invitations,   *)
(* roles and viewer scopes, suspension and removal, and the moment a       *)
(* handoff changes the owner; and the assignments of roles on the          *)
(* platform, on either organization and on the product that administrators *)
(* and the customer's own managers make and revoke.                        *)
(*                                                                         *)
(* A store operation is one transaction, with the triggers of the          *)
(* membership tables in it.  Where the handler checks the caller and the   *)
(* store does not check again, the check is a step of its own.  A handoff  *)
(* is only its fence and its commit here; module OwnershipHandoff has the  *)
(* rest.  Roles other than the four of a member and the three of a product *)
(* are left out, and so are the scopes of a region, a group and a device   *)
(* and a role assigned on a scope that is not its own.                     *)
(***************************************************************************)
EXTENDS PlatformAdmin

VARIABLES
  member,    \* organization_members, by organization and user
  bound,     \* active assignments of a manager's role on an organization
  hold,      \* organization_member_activation_holds of the cloud
  minvite,   \* pending brand_cloud_member_invitations, by target
  pinvite,   \* pending product_collaborator_invitations, by target
  admitted,  \* brand_cloud_product_admissions
  grants,    \* active role assignments on the product
  direct,    \* history: those of them nobody granted as a manager of the product
  cloud      \* the status of the cloud and its open handoff

invites == <<minvite, pinvite>>
product == <<admitted, grants, direct>>
memberVars == <<member, bound, hold, invites, product, cloud>>

Scopes == {"none", "in", "out"}  \* a viewer's scope holds the product, or not
Lapsed == 2  \* the age of an invitation past its expiry

Row(role, off, scope) == [role |-> role, off |-> off, scope |-> scope]
NoMember == Row("none", "no", "none")
Invite(by, role, scope) == [by |-> by, role |-> role, scope |-> scope, age |-> 0]
NoInvite == Invite(NoUser, "none", "none")
NoHandoff == [target |-> NoUser, committed |-> FALSE]

MemberRows == [role : {"none", "owner", "admin", "member", "viewer"},
               off : {"no", "pending", "disabled"}, scope : Scopes]

\* In an initial situation the members are accounts, a viewer and nobody else
\* has a scope, only a cloud has viewers (both as migration 054 requires), and the
\* cloud has one owner (as migration 051 requires of every cloud).
ASSUME MembersAssumption ==
  \A start \in Starts :
    /\ \A o \in Orgs : \A u \in Users \cap DOMAIN start.member[o] :
         LET row == start.member[o][u]
         IN  /\ u \in start.known /\ row \in MemberRows /\ row.role # "none"
             /\ (row.role = "viewer") <=> (row.scope # "none")
             /\ row.role = "viewer" => o = "cloud"
    /\ \E u \in Users : \A v \in Users :
         (v \in DOMAIN start.member["cloud"] /\ start.member["cloud"][v].role = "owner") <=> v = u

MembersTypeOK ==
  /\ member \in [Orgs -> [Users -> MemberRows]]
  /\ \A o \in Orgs, u \in Users :
       /\ member[o][u].role # "none" => u \in known
       /\ (member[o][u].role = "viewer") <=> (member[o][u].scope # "none")
  /\ bound \subseteq Orgs \X Users \X ManagerRoles /\ hold \subseteq Users
  /\ \A u \in Users : minvite[u].age \in 0..Lapsed /\ pinvite[u].age \in 0..Lapsed
  /\ admitted \subseteq Users /\ grants \subseteq Users \X ProductRoles /\ direct \subseteq grants
  /\ cloud.active \in BOOLEAN /\ cloud.handoff.target \in Users \cup {NoUser}

\* sync_membership_role_assignment: the assignment a row of this role gets.  In a
\* cloud an admin gets none.
Syncs(o, role, assignment) == role = assignment /\ (o = "cloud" => role = "owner")

\* The owner of the cloud created the product.
MembersInit(start) ==
  /\ member = [o \in Orgs |-> [u \in Users |->
                 IF u \in DOMAIN start.member[o] THEN start.member[o][u] ELSE NoMember]]
  /\ bound = {b \in Orgs \X Users \X ManagerRoles : Syncs(b[1], member[b[1]][b[2]].role, b[3])}
  /\ hold = {} /\ admitted = {} /\ direct = {}
  /\ minvite = [u \in Users |-> NoInvite] /\ pinvite = [u \in Users |-> NoInvite]
  /\ grants = {<<u, "owner">> : u \in {v \in Users : member["cloud"][v].role = "owner"}}
  /\ cloud = [active |-> TRUE, handoff |-> NoHandoff]

-----------------------------------------------------------------------------
(* Who may do what.                                                        *)

IsMember(o, u) == member[o][u] # NoMember
IsOwner(o, u) == member[o][u].role = "owner"
IsActive(o, u) == IsMember(o, u) /\ member[o][u].off = "no" /\ u \in enabled
ActiveOwners(o) == {u \in Users : IsOwner(o, u) /\ IsActive(o, u)}
CloudOwner == CHOOSE u \in Users : IsOwner("cloud", u)

\* user_can_access_brand_cloud: an open handoff keeps everyone out.
CanAccess(u) ==
  /\ cloud.active /\ cloud.handoff = NoHandoff
  /\ IsActive("cloud", u) /\ u \in verified
  /\ IsActive("cloud", CloudOwner) /\ CloudOwner \in verified

\* user_can_access_brand_cloud_product
CanAccessProduct(u) ==
  LET role == member["cloud"][u].role
  IN  /\ CanAccess(u)
      /\ \/ role = "owner"
         \/ role = "viewer" /\ member["cloud"][u].scope = "in"
         \/ role \in {"admin", "member"} /\ u \in admitted

RequireBrandCloudOwner(u) == CanAccess(u) /\ IsOwner("cloud", u)

RequireProductManager(u) ==
  /\ CanAccessProduct(u) /\ member["cloud"][u].role # "viewer"
  /\ IsOwner("cloud", u) \/ <<u, "owner">> \in grants

\* Whether the owner approves the product for a member; otherwise the target
\* has to be approved already.
ApprovesProduct(actor, target) == IsOwner("cloud", actor) /\ member["cloud"][target].role # "viewer"
ProductInvitationAdmission(actor, target) ==
  /\ CanAccess(actor) /\ CanAccess(target)
  /\ ApprovesProduct(actor, target) \/ CanAccessProduct(target)

RequireProductRoleCeiling(target, role) == member["cloud"][target].role = "viewer" => role = "viewer"

\* hasOrganizationPermission, for a permission that these roles have.
HasPermission(o, u, roles) ==
  /\ IsActive(o, u) /\ u \in verified
  /\ o = "cloud" => CanAccess(u) /\ member[o][u].role # "viewer"
  /\ \E role \in roles : <<o, u, role>> \in bound

\* A platform administrator passes for an organization it is a member of.
RequirePermission(o, check, roles) ==
  /\ Spend("checks") /\ check \notin past
  /\ \E u \in Users : HasPermission(o, u, roles) \/ (o = "org" /\ IsMember(o, u) /\ IsPlatformAdmin(u))
  /\ past' = past \cup {check}
  /\ UNCHANGED <<users, memberVars>>

\* What a request of a customer is checked for: membership.manage, which the owner's
\* role has, or role_assignment.manage, which the admin's role has too.
RoleCheck(o) == IF o = "cloud" THEN "cloud_roles" ELSE "org_roles"
Checks == {"admin", "owner", "cloud_roles", "org_roles"} \cup Orgs

DeveloperBrandCloudManager ==
  /\ Spend("checks") /\ "owner" \notin past /\ RequireBrandCloudOwner(CloudOwner)
  /\ past' = past \cup {"owner"}
  /\ UNCHANGED <<users, memberVars>>

Checked(part, check) == Spend(part) /\ Proceed(check)
Request(part) == Spend(part) /\ UNCHANGED past

-----------------------------------------------------------------------------
(* Membership triggers.                                                    *)

Without(invite, u) == [t \in Users |-> IF u \in {t, invite[t].by} THEN NoInvite ELSE invite[t]]
WithoutTarget(invite, u) == [invite EXCEPT ![u] = NoInvite]

\* sync_membership_role_assignment: the row's own assignment, and no other manager's role.
Unbound(o, u) == {b \in bound : <<b[1], b[2]>> # <<o, u>>}
Rebound(o, u, roles) == Unbound(o, u) \cup {<<o, u, role>> : role \in roles \cap ManagerRoles}
Synced(o, u, role) == Rebound(o, u, {r \in ManagerRoles : Syncs(o, role, r)})

\* revoke_removed_brand_cloud_member_grants
NotOf(u, set) == {g \in set : g[1] # u}
RevokedMemberInvites(u) == Without(minvite, u)
RevokeMember(u) ==
  /\ grants' = NotOf(u, grants) /\ direct' = NotOf(u, direct) /\ admitted' = admitted \ {u}
  /\ minvite' = RevokedMemberInvites(u) /\ pinvite' = Without(pinvite, u)
  /\ hold' = hold \ {u}

\* invalidate_changed_viewer_grants
ChangesRole(u, row) == LET old == member["cloud"][u] IN "viewer" \in {old.role, row.role} /\ old.role # row.role
ChangesCeiling(u, row) ==
  LET old == member["cloud"][u]
  IN  "viewer" \in {old.role, row.role} /\ (old.role # row.role \/ old.scope # row.scope)
InvalidateChangedViewerGrants(u, row) ==
  IF ChangesCeiling(u, row)
  THEN /\ grants' = NotOf(u, grants) /\ direct' = NotOf(u, direct) /\ admitted' = admitted \ {u}
       /\ pinvite' = Without(pinvite, u)
  ELSE UNCHANGED <<product, pinvite>>

\* ensureNotLastActiveOwnerTx
AnotherOwner(o, u) == \E w \in Users \ {u} : IsOwner(o, w)
AnotherActiveOwner(o, u) == ActiveOwners(o) \ {u} # {}
EnsureNotLastActiveOwner(o, u) == IsMember(o, u) /\ (IsOwner(o, u) => AnotherActiveOwner(o, u))

\* prevent_last_owner_removal, for customer organizations.
PreventLastOwnerRemoval(u) == \E w \in Users \ {u} : IsOwner("org", w) /\ w \in enabled

-----------------------------------------------------------------------------
(* The customer organization.                                              *)

CreateOrganization(u) ==
  /\ \A w \in Users : ~IsMember("org", w)
  /\ member' = [member EXCEPT !["org"][u] = Row("owner", "no", "none")]
  /\ bound' = Synced("org", u, "owner")
  /\ UNCHANGED <<users, hold, invites, product, cloud>>

createOrganization(u) == Request("org") /\ u \in enabled \cap verified /\ CreateOrganization(u)

AddMember(u, role) ==
  /\ u \in enabled /\ ~IsMember("org", u)
  /\ member' = [member EXCEPT !["org"][u] = Row(role, "no", "none")]
  /\ bound' = Synced("org", u, role)
  /\ UNCHANGED <<users, hold, invites, product, cloud>>

addMember(u, role) == Checked("org", "org") /\ AddMember(u, role)

UpdateMemberRole(u, role) ==
  /\ IsMember("org", u) /\ u \in enabled
  /\ role # "owner" => EnsureNotLastActiveOwner("org", u)
  /\ role # "owner" /\ IsOwner("org", u) => PreventLastOwnerRemoval(u)
  /\ member' = [member EXCEPT !["org"][u].role = role]
  /\ bound' = Synced("org", u, role)
  /\ UNCHANGED <<users, hold, invites, product, cloud>>

updateMemberRole(u, role) == Checked("org", "org") /\ UpdateMemberRole(u, role)

RemoveMember(o, u) ==
  /\ EnsureNotLastActiveOwner(o, u)
  /\ member' = [member EXCEPT ![o][u] = NoMember]
  /\ bound' = Unbound(o, u)
  /\ IF o = "cloud" THEN RevokeMember(u)
                    ELSE PreventLastOwnerRemoval(u) /\ UNCHANGED <<hold, invites, product>>
  /\ UNCHANGED <<users, cloud>>

removeMember(o, u) == Checked("org", o) /\ RemoveMember(o, u)

\* The account itself is disabled, for every organization.
DisableMemberUser(o, u) ==
  /\ EnsureNotLastActiveOwner(o, u) /\ u \in enabled /\ MayDisable(u)
  /\ enabled' = enabled \ {u} /\ hold' = hold \ {u}
  /\ UNCHANGED <<known, verified, member, bound, invites, product, cloud>>

disableMemberUser(o, u) == Checked("org", o) /\ DisableMemberUser(o, u)

\* Whoever leaves the platform leaves an active owner behind in every organization.
DisableCurrentUser(u) ==
  /\ u \in enabled /\ MayDisable(u)
  /\ \A o \in Orgs : IsOwner(o, u) => AnotherActiveOwner(o, u)
  /\ enabled' = enabled \ {u} /\ hold' = hold \ {u}
  /\ UNCHANGED <<known, verified, member, bound, invites, product, cloud>>

deleteCurrentUser(u) == Request("org") /\ u \in verified /\ DisableCurrentUser(u)

EnableMemberUser(o, u) ==
  /\ IsMember(o, u) /\ enabled' = enabled \cup {u}
  /\ UNCHANGED <<known, verified, memberVars>>

enableMemberUser(o, u) == Checked("org", o) /\ u \notin enabled /\ EnableMemberUser(o, u)

-----------------------------------------------------------------------------
(* The members of the cloud.                                               *)

\* A new or an unverified account waits for its e-mail; a row somebody else
\* suspended stays suspended and gets no hold.
ProvisionBrandCloudAccount(u, role, mode, rotate) ==
  LET new == u \notin known
      proven == u \in verified \/ (mode = "immediate" /\ (new \/ rotate))
      waits == mode = "email" /\ ~proven
      old == member["cloud"][u]
      fresh == old = NoMember
      row == Row(role, IF ~waits THEN "no" ELSE IF fresh THEN "pending" ELSE old.off, "none")
      held == waits /\ (fresh \/ (old.role = role /\ u \in hold))
  IN  /\ cloud.active /\ (new \/ u \in enabled)
      /\ old.role \notin {"owner", "viewer"}
      /\ known' = known \cup {u} /\ enabled' = enabled \cup {u}
      /\ verified' = IF proven THEN verified \cup {u} ELSE verified
      /\ member' = [member EXCEPT !["cloud"][u] = row]
      /\ hold' = IF held THEN hold \cup {u} ELSE hold \ {u}
      /\ bound' = Rebound("cloud", u, IF mode = "immediate" THEN {role} ELSE {})
      /\ UNCHANGED <<invites, product, cloud>>

createBrandCloudUser(u, role, mode, rotate) ==
  Checked("cloud", "admin") /\ ProvisionBrandCloudAccount(u, role, mode, rotate)

\* The hold names the suspension it may lift.
VerifyEmail(u) ==
  /\ Request("cloud") /\ u \in enabled \ verified
  /\ verified' = verified \cup {u} /\ hold' = hold \ {u}
  /\ member' = IF u \in hold THEN [member EXCEPT !["cloud"][u].off = "no"] ELSE member
  /\ UNCHANGED <<known, enabled, bound, invites, product, cloud>>

\* An update of a row ends the hold on it, and what is off from then on is off
\* by an administrator.
InvalidateActivationHold(u) == hold \ {u}

DisableDeveloperBrandCloudMember(u) ==
  /\ EnsureNotLastActiveOwner("cloud", u)
  /\ member' = [member EXCEPT !["cloud"][u].off = "disabled"]
  /\ hold' = InvalidateActivationHold(u)
  /\ UNCHANGED <<users, bound, invites, product, cloud>>

EnableDeveloperBrandCloudMember(u) ==
  /\ IsMember("cloud", u) /\ member' = [member EXCEPT !["cloud"][u].off = "no"]
  /\ hold' = InvalidateActivationHold(u)
  /\ UNCHANGED <<users, bound, invites, product, cloud>>

disableDeveloperBrandCloudMember(u) == Checked("cloud", "owner") /\ DisableDeveloperBrandCloudMember(u)
enableDeveloperBrandCloudMember(u) == Checked("cloud", "owner") /\ EnableDeveloperBrandCloudMember(u)
removeDeveloperBrandCloudMember(u) == Checked("cloud", "owner") /\ RemoveMember("cloud", u)
disableBrandCloudUser(u) == Checked("cloud", "admin") /\ DisableDeveloperBrandCloudMember(u)
enableBrandCloudUser(u) == Checked("cloud", "admin") /\ EnableDeveloperBrandCloudMember(u)
deleteBrandCloudUser(u) == Checked("cloud", "admin") /\ RemoveMember("cloud", u)

\* normalizeCloudMemberScope: a viewer and nobody else has a scope.
NormalizeCloudMemberScope(role, scope) == (role = "viewer") <=> (scope # "none")

UpdateDeveloperBrandCloudMember(actor, u, role, scope) ==
  LET row == Row(role, member["cloud"][u].off, scope)
  IN  /\ RequireBrandCloudOwner(actor)
      /\ IsMember("cloud", u) /\ ~IsOwner("cloud", u)
      /\ NormalizeCloudMemberScope(role, scope)
      /\ member' = [member EXCEPT !["cloud"][u] = row]
      /\ hold' = InvalidateActivationHold(u) /\ bound' = Synced("cloud", u, role)
      /\ InvalidateChangedViewerGrants(u, row)
      /\ UNCHANGED <<users, minvite, cloud>>

updateDeveloperBrandCloudMember(actor, u, role, scope) ==
  Request("cloud") /\ UpdateDeveloperBrandCloudMember(actor, u, role, scope)

UpdateBrandCloud(active) ==
  /\ cloud' = [cloud EXCEPT !.active = active]
  /\ UNCHANGED <<users, member, bound, hold, invites, product>>

updateBrandCloud(active) == Checked("cloud", "admin") /\ cloud.active # active /\ UpdateBrandCloud(active)

-----------------------------------------------------------------------------
(* Invitations to the cloud.                                               *)

Swept(invite) == [t \in Users |-> IF invite[t].age = Lapsed THEN NoInvite ELSE invite[t]]
IsPending(invite, t) == invite[t] # NoInvite
IsLive(invite, t) == IsPending(invite, t) /\ invite[t].age < Lapsed
Reinvited(invite, t) == [invite EXCEPT ![t].age = 0]
CanBeInvited(t) == t \in enabled \cap verified
MemberInvites(new) == minvite' = new /\ UNCHANGED <<users, member, bound, hold, pinvite, product, cloud>>

CreateBrandCloudMemberInvitation(actor, t, role, scope) ==
  LET now == Swept(minvite)
  IN  /\ NormalizeCloudMemberScope(role, scope)
      /\ RequireBrandCloudOwner(actor) /\ CanBeInvited(t) /\ ~IsMember("cloud", t)
      /\ IsPending(now, t) => now[t].role = role /\ now[t].scope = scope
      /\ MemberInvites(IF IsPending(now, t) THEN now ELSE [now EXCEPT ![t] = Invite(actor, role, scope)])

inviteDeveloperBrandCloudMember(actor, t, role, scope) ==
  Request("invites") /\ CreateBrandCloudMemberInvitation(actor, t, role, scope)

ListBrandCloudMemberInvitations(actor) ==
  /\ Request("invites") /\ RequireBrandCloudOwner(actor) /\ MemberInvites(Swept(minvite))

ResendBrandCloudMemberInvitation(actor, t) ==
  RequireBrandCloudOwner(actor) /\ IsLive(minvite, t) /\ MemberInvites(Reinvited(minvite, t))

resendDeveloperBrandCloudMemberInvitation(actor, t) ==
  Request("invites") /\ ResendBrandCloudMemberInvitation(actor, t)

CancelBrandCloudMemberInvitation(actor, t) ==
  /\ Request("invites")
  /\ RequireBrandCloudOwner(actor) /\ IsLive(minvite, t) /\ MemberInvites(WithoutTarget(minvite, t))

AcceptBrandCloudMemberInvitation(t) ==
  LET invite == minvite[t]
  IN  /\ IsPending(minvite, t) /\ RequireBrandCloudOwner(invite.by) /\ CanBeInvited(t)
      /\ minvite' = WithoutTarget(minvite, t)
      /\ IF invite.age = Lapsed THEN UNCHANGED <<member, bound>>
         ELSE /\ ~IsMember("cloud", t)
              /\ member' = [member EXCEPT !["cloud"][t] = Row(invite.role, "no", invite.scope)]
              /\ bound' = Synced("cloud", t, invite.role)
      /\ UNCHANGED <<users, hold, pinvite, product, cloud>>

acceptDeveloperBrandCloudMemberInvitation(t) == Request("invites") /\ AcceptBrandCloudMemberInvitation(t)

-----------------------------------------------------------------------------
(* Collaborators of the product.                                           *)

Collaborators == {"editor", "viewer"}
Holds(u) == {role \in ProductRoles : <<u, role>> \in grants}
ProductInvites(new) == pinvite' = new /\ UNCHANGED <<users, member, bound, hold, minvite, product, cloud>>
Grants(new, others) ==
  /\ grants' = new /\ direct' = others
  /\ UNCHANGED <<users, member, bound, hold, invites, admitted, cloud>>

CreateProductCollaboratorInvitation(actor, t, role) ==
  /\ RequireProductManager(actor) /\ CanBeInvited(t)
  /\ ProductInvitationAdmission(actor, t) /\ RequireProductRoleCeiling(t, role)
  /\ Holds(t) = {} /\ ~IsLive(pinvite, t)
  /\ ProductInvites([Swept(pinvite) EXCEPT ![t] = Invite(actor, role, "none")])

inviteProductCollaborator(actor, t, role) ==
  Request("product") /\ CreateProductCollaboratorInvitation(actor, t, role)

ListProductCollaboratorInvitations(actor) ==
  Request("product") /\ RequireProductManager(actor) /\ ProductInvites(Swept(pinvite))

ResendProductCollaboratorInvitation(actor, t) ==
  /\ IsLive(pinvite, t) /\ RequireProductManager(actor) /\ ProductInvitationAdmission(actor, t)
  /\ ProductInvites(Reinvited(pinvite, t))

resendProductCollaboratorInvitation(actor, t) ==
  Request("product") /\ ResendProductCollaboratorInvitation(actor, t)

CancelProductCollaboratorInvitation(actor, t) ==
  /\ Request("product")
  /\ IsPending(pinvite, t) /\ RequireProductManager(actor) /\ ProductInvites(WithoutTarget(pinvite, t))

\* The inviter is judged again: it must still manage the product.
AcceptProductCollaboratorInvitation(t) ==
  LET invite == pinvite[t]
  IN  /\ IsPending(pinvite, t) /\ CanBeInvited(t)
      /\ pinvite' = WithoutTarget(pinvite, t)
      /\ IF invite.age = Lapsed THEN UNCHANGED product
         ELSE /\ RequireProductManager(invite.by) /\ ProductInvitationAdmission(invite.by, t)
              /\ RequireProductRoleCeiling(t, invite.role)
              /\ <<t, invite.role>> \notin grants
              /\ admitted' = IF ApprovesProduct(invite.by, t) THEN admitted \cup {t} ELSE admitted
              /\ grants' = grants \cup {<<t, invite.role>>} /\ UNCHANGED direct
      /\ UNCHANGED <<users, member, bound, hold, minvite, cloud>>

acceptProductCollaboratorInvitation(t) == Request("product") /\ AcceptProductCollaboratorInvitation(t)

\* Every collaborator row of the target becomes the one role, which the unique
\* index refuses when there are two.
UpdateProductCollaborator(actor, t, role) ==
  /\ Request("product")
  /\ RequireProductManager(actor) /\ CanAccessProduct(t) /\ RequireProductRoleCeiling(t, role)
  /\ \E old \in Collaborators :
       /\ Holds(t) \cap Collaborators = {old} /\ old # role
       /\ Grants((grants \ {<<t, old>>}) \cup {<<t, role>>}, direct \ {<<t, old>>})

\* The cloud owner withdraws the admission with the role.
RemoveProductCollaborator(actor, t) ==
  LET withdrawn == IsOwner("cloud", actor) /\ t \in admitted
  IN  /\ Request("product")
      /\ RequireProductManager(actor) /\ "owner" \notin Holds(t)
      /\ Holds(t) # {} \/ withdrawn
      /\ grants' = NotOf(t, grants) /\ direct' = NotOf(t, direct)
      /\ admitted' = IF withdrawn THEN admitted \ {t} ELSE admitted
      /\ pinvite' = WithoutTarget(pinvite, t)
      /\ UNCHANGED <<users, member, bound, hold, minvite, cloud>>

\* Every owner becomes an editor, which the unique index refuses for one that is
\* one already, and then the target's row becomes the owner's.
Demoted(set) == {IF g[2] = "owner" THEN <<g[1], "editor">> ELSE g : g \in set}
TransferProductOwnership(actor, t) ==
  /\ Request("product")
  /\ RequireProductManager(actor) /\ CanAccessProduct(t) /\ RequireProductRoleCeiling(t, "owner")
  /\ \A u \in Users : ~({"owner", "editor"} \subseteq Holds(u))
  /\ \E old \in Holds(t) \cap Collaborators :
       Grants((Demoted(grants) \ {<<t, old>>}) \cup {<<t, "owner">>}, Demoted(direct) \ {<<t, old>>})

-----------------------------------------------------------------------------
(* The handoff of the cloud, and time.                                     *)

OpenOwnerHandoff(t) ==
  /\ Request("handoff")
  /\ RequireBrandCloudOwner(CloudOwner) /\ CanBeInvited(t) /\ t # CloudOwner
  /\ cloud' = [cloud EXCEPT !.handoff = [target |-> t, committed |-> FALSE]]
  /\ UNCHANGED <<users, member, bound, hold, invites, product>>

\* commitAuthorizedHandoff: the target becomes owner, with the product the
\* source owns, and the source's membership is deleted with its triggers.
CommitOwnerHandoff ==
  LET s == CloudOwner
      t == cloud.handoff.target
      raised == ChangesCeiling(t, Row("owner", "no", "none"))
      moves == <<s, "owner">> \in grants
      gone == IF raised \/ moves THEN {s, t} ELSE {s}
      inherits == <<s, "owner">> \in direct /\ (raised \/ <<t, "owner">> \notin grants \ direct)
  IN  /\ Request("handoff")
      /\ t # NoUser /\ ~cloud.handoff.committed /\ cloud.active
      /\ {s, t} \subseteq enabled \cap verified
      /\ member["cloud"][t].off = "no"
      /\ member' = [member EXCEPT !["cloud"][t] = Row("owner", "no", "none"), !["cloud"][s] = NoMember]
      /\ grants' = {g \in grants : g[1] \notin gone} \cup (IF moves THEN {<<t, "owner">>} ELSE {})
      /\ direct' = {g \in direct : g[1] \notin gone} \cup (IF inherits THEN {<<t, "owner">>} ELSE {})
      /\ admitted' = admitted \ (IF raised THEN {s, t} ELSE {s})
      /\ pinvite' = IF raised THEN Without(Without(pinvite, t), s) ELSE Without(pinvite, s)
      /\ minvite' = RevokedMemberInvites(s)
      /\ bound' = (Unbound("cloud", s) \cap Unbound("cloud", t)) \cup {<<"cloud", t, "owner">>}
      /\ hold' = hold \ {s, t}
      /\ cloud' = [cloud EXCEPT !.handoff.committed = TRUE]
      /\ UNCHANGED users

\* Cancelled before the commit, or finalized after it.
EndOwnerHandoff ==
  /\ Request("handoff") /\ cloud.handoff # NoHandoff
  /\ cloud' = [cloud EXCEPT !.handoff = NoHandoff]
  /\ UNCHANGED <<users, member, bound, hold, invites, product>>

TimePasses(t) ==
  /\ Request("time")
  /\ \/ IsLive(minvite, t) /\ MemberInvites([minvite EXCEPT ![t].age = @ + 1])
     \/ IsLive(pinvite, t) /\ ProductInvites([pinvite EXCEPT ![t].age = @ + 1])

MembersNext ==
  \/ DeveloperBrandCloudManager
  \/ \E o \in Orgs : RequirePermission(o, o, {"owner"}) \/ RequirePermission(o, RoleCheck(o), ManagerRoles)
  \/ \E u \in known :
       \/ createOrganization(u) \/ VerifyEmail(u) \/ deleteCurrentUser(u)
       \/ \E role \in {"owner", "admin", "member"} : addMember(u, role) \/ updateMemberRole(u, role)
       \/ \E o \in Orgs : removeMember(o, u) \/ disableMemberUser(o, u) \/ enableMemberUser(o, u)
       \/ disableDeveloperBrandCloudMember(u) \/ enableDeveloperBrandCloudMember(u)
       \/ removeDeveloperBrandCloudMember(u)
       \/ disableBrandCloudUser(u) \/ enableBrandCloudUser(u) \/ deleteBrandCloudUser(u)
       \/ ListBrandCloudMemberInvitations(u) \/ acceptDeveloperBrandCloudMemberInvitation(u)
       \/ ListProductCollaboratorInvitations(u) \/ acceptProductCollaboratorInvitation(u)
       \/ OpenOwnerHandoff(u) \/ TimePasses(u)
  \/ \E u \in Users, role \in {"admin", "member"}, mode \in {"email", "immediate"}, rotate \in BOOLEAN :
       createBrandCloudUser(u, role, mode, rotate)
  \/ \E actor, u \in known :
       \/ \E role \in {"admin", "member", "viewer"}, scope \in Scopes :
            \/ updateDeveloperBrandCloudMember(actor, u, role, scope)
            \/ inviteDeveloperBrandCloudMember(actor, u, role, scope)
       \/ resendDeveloperBrandCloudMemberInvitation(actor, u) \/ CancelBrandCloudMemberInvitation(actor, u)
       \/ \E role \in Collaborators :
            inviteProductCollaborator(actor, u, role) \/ UpdateProductCollaborator(actor, u, role)
       \/ resendProductCollaboratorInvitation(actor, u) \/ CancelProductCollaboratorInvitation(actor, u)
       \/ RemoveProductCollaborator(actor, u) \/ TransferProductOwnership(actor, u)
  \/ \E active \in BOOLEAN : updateBrandCloud(active)
  \/ CommitOwnerHandoff \/ EndOwnerHandoff

-----------------------------------------------------------------------------
(* Assignments of roles.  Administrators and the groups of the identity    *)
(* provider give any role on any scope: nothing asks for a membership, an  *)
(* admission or a viewer's ceiling, or for another owner of the product.   *)

Has(u, t) ==
  \/ t[1] = "platform" /\ <<u, t[2]>> \in assigned
  \/ t[1] = "product" /\ <<u, t[2]>> \in grants
  \/ t[1] \in Orgs /\ <<t[1], u, t[2]>> \in bound

\* The rows of table role_assignments that these targets mean for a user.
On(u, scope, targets) == {<<u, t[2]>> : t \in {x \in targets : x[1] = scope}}
OnOrgs(u, targets) == {<<t[1], u, t[2]>> : t \in {x \in targets : x[1] \in Orgs}}

\* An assignment is one row; the rest of the state stays as it is.
AssignRest == UNCHANGED <<users, flag, disabledRoles, sealed, mappings, recovery,
                          member, hold, invites, admitted, cloud>>

InsertAssignments(u, targets) ==
  /\ assigned' = assigned \cup On(u, "platform", targets)
  /\ grants' = grants \cup On(u, "product", targets) /\ direct' = direct \cup On(u, "product", targets)
  /\ bound' = bound \cup OnOrgs(u, targets)
  /\ UNCHANGED revoked /\ AssignRest

CreateRoleAssignment(u, t) == IsLiveRole(t) /\ ~Has(u, t) /\ InsertAssignments(u, {t})

createACLRoleAssignment(u, t) == Checked(AclPart(t), "admin") /\ CreateRoleAssignment(u, t)

DisableRoleAssignment(u, t) ==
  /\ Has(u, t) /\ (t[1] = "platform" => MayRevoke(u, t[2]))
  /\ assigned' = assigned \ On(u, "platform", {t})
  /\ grants' = grants \ On(u, "product", {t}) /\ direct' = direct \ On(u, "product", {t})
  /\ bound' = bound \ OnOrgs(u, {t})
  /\ revoked' = IF t = <<"platform", "platform_admin">> THEN [revoked EXCEPT ![u] = @ + 1] ELSE revoked
  /\ AssignRest

deleteACLRoleAssignment(u, t) == Checked(AclPart(t), "admin") /\ DisableRoleAssignment(u, t)

\* The customer's own: the roles of the product are refused by name.  The handler
\* looks at the membership just before the insert; were it to end in between, the
\* new row would have no effect, and be disabled when the user joins again.
createCustomerACLAssignment(o, u, role) ==
  /\ Checked("scoped", RoleCheck(o))
  /\ IsActive(o, u) /\ u \in verified /\ (o = "cloud" => CanAccess(u))
  /\ CreateRoleAssignment(u, <<o, role>>)

\* The assignments on the organization and on its products, but no product owner's.
OwnTargets(o) == ({o} \X ManagerRoles) \cup (IF o = "cloud" THEN {"product"} \X (ProductRoles \ {"owner"}) ELSE {})

deleteCustomerACLAssignment(o, u, t) ==
  Checked("scoped", RoleCheck(o)) /\ t \in OwnTargets(o) /\ DisableRoleAssignment(u, t)

\* At a sign-in, the mappings of a group in the order the rows come.  An
\* assignment the user already has ends the group: its rows are closed.
ApplyExternalGroupMappings(u, g) ==
  LET mapped == {t \in Targets : <<g, t>> \in mappings /\ IsLiveRole(t)}
      held == {t \in mapped : Has(u, t)}
  IN  /\ Request("signins") /\ u \in enabled \cap verified
      /\ \E granted \in SUBSET (mapped \ held) :
           /\ held = {} => granted = mapped
           /\ granted # {}
           /\ InsertAssignments(u, granted)

AssignNext ==
  \E u \in known :
    \/ \E t \in Targets : createACLRoleAssignment(u, t) \/ deleteACLRoleAssignment(u, t)
    \/ \E o \in Orgs : \/ \E role \in ManagerRoles : createCustomerACLAssignment(o, u, role)
                       \/ \E t \in Targets : deleteCustomerACLAssignment(o, u, t)
    \/ \E g \in Groups : ApplyExternalGroupMappings(u, g)

-----------------------------------------------------------------------------
(* Verifying an e-mail lifts only the suspension that waits for it         *)
(* (ProvisionBrandCloudAccount, migration 051): a hold belongs to an       *)
(* enabled account that is not verified and to a row no administrator has  *)
(* suspended since.                                                        *)
HoldIsOurs ==
  \A u \in hold : u \in enabled \ verified /\ member["cloud"][u].off = "pending"

(* Nobody keeps a role on the product, an admission or a part in a pending *)
(* product invitation without the membership behind it, a viewer never has *)
(* more than viewing within its scope, and the product has at most one     *)
(* owner: removals, role and scope changes and handoffs all take along     *)
(* what they must (migrations 053 and 054, commitAuthorizedHandoff).  The  *)
(* roles an administrator or a group mapping gives on the product are      *)
(* outside it: CreateRoleAssignment checks none of this.  They end with    *)
(* the membership and with a change of the ceiling like the others.        *)
IsBacked(g) ==
  LET m == member["cloud"][g[1]]
  IN  \/ m.role = "owner"
      \/ m.role \in {"admin", "member"} /\ g[1] \in admitted
      \/ m.role = "viewer" /\ m.scope = "in" /\ g[2] = "viewer"
GrantsFollowMembership ==
  /\ \A g \in grants \ direct : IsBacked(g)
  /\ \A g, h \in grants \ direct : g[2] = "owner" /\ h[2] = "owner" => g = h
  /\ \A u \in admitted : member["cloud"][u].role \notin {"none", "viewer"}
  /\ \A u \in Users : IsPending(pinvite, u) => IsMember("cloud", u) /\ IsMember("cloud", pinvite[u].by)

(* A pending invitation to the cloud was made by the owner the cloud has   *)
(* now: a handoff does not leave the former owner's invitations behind     *)
(* (revoke_removed_brand_cloud_member_grants).                             *)
PendingIsLive ==
  \A u \in Users : IsPending(minvite, u) => minvite[u].by = CloudOwner

(* No order of removals, demotions, suspensions and handoffs takes the     *)
(* last active owner from an organization (ensureNotLastActiveOwnerTx),    *)
(* with the one exception the code has: an account disabled through the    *)
(* other organization it belongs to (DisableMemberUser).                   *)
LastOwnerStays ==
  [][\A o \in Orgs :
       ActiveOwners(o) # {} /\ ActiveOwners(o)' = {} =>
         \E u \in enabled \ enabled', p \in Orgs \ {o} : IsMember(p, u)]_<<users, member>>
=============================================================================
