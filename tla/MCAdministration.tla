-------------------------- MODULE MCAdministration --------------------------
(***************************************************************************)
(* An instance of Administration for TLC: four accounts, one cloud with    *)
(* its product and one organization.  Each initial situation lets the      *)
(* behaviour be long in one part and short in the others.                  *)
(***************************************************************************)
EXTENDS Administration, TLC

Idle == [part \in {"checks", "acl", "scoped", "signins", "recovery", "org", "cloud", "invites",
                   "product", "handoff", "time", "quota", "raises"} |-> 0]

\* ann owns the cloud, and is an administrator.
Owner == Row("owner", "no", "none")
Member == Row("member", "no", "none")
Plain == [known |-> {"ann", "bob", "cat"}, verified |-> {"ann", "bob", "cat"},
          flag |-> {"ann"}, assigned |-> {<<"ann", "platform_admin">>}, sealed |-> TRUE,
          member |-> [cloud |-> ("ann" :> Owner), org |-> ("ann" :> Owner)],
          calls |-> Idle]
Calling(start, calls) == [start EXCEPT !.calls = calls @@ Idle]

\* Four accounts and every role of a recovery.
Recovering ==
  [Plain EXCEPT !.known = Users, !.verified = Users,
                !.assigned = @ \cup {<<"bob", "pki_admin">>, <<"cat", "security_custodian">>},
                !.member.org = @ @@ ("cat" :> Member)]

\* Two administrators who share the organization, and only it.
TwoAdmins ==
  [Plain EXCEPT !.flag = {"ann", "bob"}, !.assigned = @ \cup {<<"bob", "platform_admin">>},
                !.member.org = ("ann" :> Owner) @@ ("bob" :> Owner)]

\* bob is a member of the cloud and cat may only look at the product.
Populated ==
  [Plain EXCEPT !.member.cloud = @ @@ ("bob" :> Member) @@ ("cat" :> Row("viewer", "no", "in"))]

Empty == [Plain EXCEPT !.known = {"bob", "cat"}, !.verified = @ \ {"ann"}, !.flag = {},
                       !.assigned = {}, !.sealed = FALSE,
                       !.member = [cloud |-> ("bob" :> Owner), org |-> <<>>]]

MCStarts ==
  {Calling(Recovering, [recovery |-> 5, checks |-> 2, acl |-> 1, org |-> 1]),
   Calling(TwoAdmins, [acl |-> 3, signins |-> 1, checks |-> 4, org |-> 1]),
   Calling(TwoAdmins, [org |-> 6, checks |-> 6]),
   Calling(Plain, [cloud |-> 4, checks |-> 3, org |-> 1]),
   Calling(Plain, [invites |-> 4, time |-> 2, handoff |-> 2, cloud |-> 1, checks |-> 1]),
   Calling(Populated, [product |-> 5, cloud |-> 1, checks |-> 1, time |-> 2]),
   Calling(Populated, [product |-> 5, cloud |-> 2, handoff |-> 2]),
   Calling(Populated, [scoped |-> 2, signins |-> 1, checks |-> 2, product |-> 1, cloud |-> 1]),
   Calling(Populated, [scoped |-> 2, checks |-> 2, product |-> 2, handoff |-> 2]),
   Calling(Empty, [quota |-> 7, checks |-> 1]),
   Calling(Empty, [org |-> 3, checks |-> 2]),
   Calling([Plain EXCEPT !.sealed = FALSE], [raises |-> 4, checks |-> 2, quota |-> 1])}
=============================================================================
