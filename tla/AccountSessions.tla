-------------------------- MODULE AccountSessions --------------------------
(***************************************************************************)
(* One platform account, the ways to sign in to it, its sessions and the   *)
(* copy of it kept in the user cache (usercache.Store in front of          *)
(* store.Store); beside it one end user of the app.                        *)
(*                                                                         *)
(* A request does its database work in one step and then works through     *)
(* "todo", the calls the handler still has to make: cache commands, the    *)
(* issuing of tokens, the creation of an end user.  A cache command may    *)
(* fail; the handler logs that and goes on.  The cache has no expiry, so   *)
(* what is written late stays.                                             *)
(*                                                                         *)
(* Passwords are numbers: 0 is the random one of an account nobody has     *)
(* chosen a password for, and every change takes the next.  The times of   *)
(* tokens are left out: an expired token is a used one.                    *)
(***************************************************************************)
EXTENDS Naturals, Sequences, FiniteSets

CONSTANTS
  Requests,       \* handlers at work
  AuthTokens,     \* tokens sent by mail
  LoginStates,    \* states of logins at an identity provider
  Refresh,        \* refresh tokens
  None,           \* nobody, nothing
  RateLimit,      \* auth tokens of a purpose per window
  MaxPasswords,   \* bound: passwords chosen
  MaxCalls,       \* bound: requests, changes of providers and identities, tokens that expire
  MaxFaults       \* bound: cache commands that fail

ASSUME BoundsAssumption ==
  /\ IsFiniteSet(Requests) /\ IsFiniteSet(AuthTokens)
  /\ RateLimit \in Nat \ {0} /\ MaxPasswords \in Nat
  /\ MaxCalls \in Nat /\ MaxFaults \in Nat

\* Nothing is none of the values it is written beside, and no token is of two kinds.
ASSUME NamesAssumption ==
  /\ None \notin Requests /\ None \notin 0..MaxPasswords
  /\ None \notin {"user", "end", "email_verification", "password_reset", "login_activation"}
  /\ None \notin [pending : BOOLEAN, verified : BOOLEAN]
  /\ None \notin [pending : BOOLEAN, verified : BOOLEAN, hash : 0..MaxPasswords]
  /\ AuthTokens \cap LoginStates = {} /\ AuthTokens \cap Refresh = {} /\ LoginStates \cap Refresh = {}

VARIABLES
  acct,      \* the row of users
  linked,    \* providers with a user_identities row for it
  locker,    \* the rotation that holds the user's row
  tok,       \* auth_tokens
  flow,      \* oidc_login_states
  idp,       \* the row of the OIDC provider
  refresh,   \* refresh_tokens and end_user_refresh_tokens
  cUser,     \* platform:id
  cEmail,    \* platform:email
  cAuth,     \* platform:auth
  eu, euCache, euOpened,   \* the end user, its cached login, passwords that opened a session
  req,       \* what each request still has to do
  former,    \* refresh tokens of sessions that are older than the last password change
  uses,      \* how often a token or a state has been redeemed
  apart,     \* copies that may differ from the row, until they are written or deleted again
  faults, calls

db == <<acct, linked, locker, tok, flow, idp, refresh>>
cache == <<cUser, cEmail, cAuth>>
endUser == <<eu, euCache, euOpened>>
ghosts == <<former, uses, apart>>
vars == <<db, cache, endUser, req, ghosts, faults, calls>>

Purposes == {"email_verification", "password_reset", "login_activation"}
Providers == {"oidc", "social"}
Idle == [op |-> "idle", todo |-> <<>>, seen |-> None, arg |-> None]
Copies == {"user", "auth"}
Evidence == AuthTokens \cup LoginStates \cup Refresh

NoAccount == [made |-> FALSE, hash |-> 0, verified |-> FALSE, pending |-> FALSE, disabled |-> FALSE]

Init ==
  /\ acct = NoAccount /\ linked = {} /\ locker = None
  /\ tok = [t \in AuthTokens |-> [purpose |-> None, st |-> "none"]]
  /\ flow = [s \in LoginStates |-> "none"] /\ idp = "absent"
  /\ refresh = [t \in Refresh |-> [of |-> None, st |-> "none"]]
  /\ cUser = None /\ cEmail = FALSE /\ cAuth = None
  /\ eu = None /\ euCache = None /\ euOpened = {}
  /\ req = [r \in Requests |-> Idle]
  /\ former = {} /\ uses = [e \in Evidence |-> 0] /\ apart = {}
  /\ faults = 0 /\ calls = 0

(***************************************************************************)
(* Rows, projections and what a request does next.                         *)
(***************************************************************************)
GetUser == acct.made /\ ~acct.disabled

\* The projection kept under platform:id, and with the hash the one under platform:auth.
View == [pending |-> acct.pending, verified |-> acct.verified]
AuthView == [pending |-> acct.pending, verified |-> acct.verified, hash |-> acct.hash]
UserPart(v) == [pending |-> v.pending, verified |-> v.verified]

CheckPassword(v, pw) == v.hash = pw /\ ~v.pending

Call == calls < MaxCalls /\ calls' = calls + 1

\* A request begins; "op" tells the provider of a sign-in.
Start(r, op, todo, seen, arg) ==
  /\ req[r] = Idle /\ Call
  /\ req' = [req EXCEPT ![r] = IF todo = <<>> THEN Idle
                               ELSE [op |-> op, todo |-> todo, seen |-> seen, arg |-> arg]]

Doing(r, what) == req[r].todo # <<>> /\ Head(req[r].todo) = what

Go(r, todo, seen) ==
  req' = [req EXCEPT ![r] = IF todo = <<>> THEN Idle ELSE [@ EXCEPT !.todo = todo, !.seen = seen]]
Done(r) == Go(r, Tail(req[r].todo), req[r].seen)

PutAuth == <<"putUser", "setAuth">>
DeletePut == <<"delete", "putUser">>
RowFree == locker = None

(***************************************************************************)
(* The cache.                                                              *)
(***************************************************************************)
\* The copies there are.
Cached == {c \in Copies : (c = "user" /\ cUser # None) \/ (c = "auth" /\ cAuth # None)}

Outdated(v) == ~GetUser \/ v # UserPart(AuthView)

PutPlatformUser(r) ==
  /\ Doing(r, "putUser")
  /\ cUser' = UserPart(req[r].seen) /\ cEmail' = TRUE
  /\ apart' = IF Outdated(UserPart(req[r].seen)) THEN apart \cup {"user"} ELSE apart \ {"user"}
  /\ Done(r)
  /\ UNCHANGED <<db, cAuth, endUser, former, uses, faults, calls>>

PutPlatformAuth(r) ==
  /\ Doing(r, "setAuth")
  /\ cAuth' = req[r].seen
  /\ apart' = IF GetUser /\ req[r].seen = AuthView THEN apart \ {"auth"} ELSE apart \cup {"auth"}
  /\ Done(r)
  /\ UNCHANGED <<db, cUser, cEmail, endUser, former, uses, faults, calls>>

\* The key of the address is found through the cached user.
DeletePlatformUser(r) ==
  /\ Doing(r, "delete")
  /\ cUser' = None /\ cAuth' = None /\ cEmail' = (cEmail /\ cUser = None) /\ apart' = {}
  /\ Done(r)
  /\ UNCHANGED <<db, endUser, former, uses, faults, calls>>

FlushPlatformAuth(r) ==
  /\ Doing(r, "flush")
  /\ cAuth' = None /\ apart' = apart \ {"auth"}
  /\ Done(r)
  /\ UNCHANGED <<db, cUser, cEmail, endUser, former, uses, faults, calls>>

\* The commands of a cache call that a failed one leaves out.
CommandLost(r) ==
  /\ \/ Doing(r, "putUser") \/ Doing(r, "setAuth") \/ Doing(r, "delete")
     \/ Doing(r, "flush") \/ Doing(r, "putEnd")
  /\ faults < MaxFaults /\ faults' = faults + 1
  /\ LET rest == Tail(req[r].todo)
     IN  Go(r, IF rest # <<>> /\ Head(rest) = "setAuth" THEN Tail(rest) ELSE rest, req[r].seen)
  /\ \/ UNCHANGED cache
     \/ /\ Doing(r, "putUser")        \* the user is written, the address is not
        /\ cUser' = UserPart(req[r].seen) /\ UNCHANGED <<cEmail, cAuth>>
  /\ apart' = IF Doing(r, "putEnd") THEN apart ELSE Copies
  /\ UNCHANGED <<db, endUser, former, uses, calls>>

\* A read through the cache: what it finds, and the filling it leaves to do.
CachedAuth(byEmail) == cAuth # None /\ (byEmail => cEmail)
Known(byEmail) == CachedAuth(byEmail) \/ GetUser
AuthSeen(byEmail) == IF CachedAuth(byEmail) THEN cAuth ELSE AuthView
AuthFill(byEmail) == IF CachedAuth(byEmail) THEN <<>> ELSE PutAuth

CachedUser(byEmail) == cUser # None /\ (byEmail => cEmail)
UserSeen(byEmail) == IF CachedUser(byEmail) THEN cUser ELSE View
UserFill(byEmail) == IF CachedUser(byEmail) THEN <<>> ELSE <<"putUser">>

\* requireAuth and me on a user that is not cached.
Authenticate(r) ==
  /\ ~CachedUser(FALSE) /\ GetUser
  /\ Start(r, "local", UserFill(FALSE), AuthView, None)
  /\ UNCHANGED <<db, cache, endUser, ghosts, faults>>

\* The user-cache command: rebuild and delete.
RebuildCache(r) ==
  /\ GetUser
  /\ Start(r, "local", PutAuth, AuthView, None)
  /\ UNCHANGED <<db, cache, endUser, ghosts, faults>>

DeleteFromCache(r) ==
  /\ cUser # None \/ cAuth # None
  /\ Start(r, "local", <<"delete">>, None, None)
  /\ UNCHANGED <<db, cache, endUser, ghosts, faults>>

(***************************************************************************)
(* Tokens sent by mail.                                                    *)
(***************************************************************************)
\* Tokens a transaction in progress has marked as superseded are locked.
Superseding(t) == \E r \in Requests : Doing(r, "insert") /\ t \in req[r].arg.old

Live(p) == {t \in AuthTokens : tok[t] = [purpose |-> p, st |-> "live"]}
Created(p) == {t \in AuthTokens : tok[t].purpose = p}

Consumable(t, p) == t \in Live(p) /\ ~Superseding(t) /\ GetUser

Redeem(e) == uses' = [uses EXCEPT ![e] = @ + 1]

\* Who is sent a token: the account is read before the transaction.
MayBeIssued(p) ==
  /\ GetUser
  /\ p = "login_activation" => ~acct.pending
  /\ p = "email_verification" => ~acct.verified

IssueAuthTokenForEmail(r, p) ==
  /\ MayBeIssued(p)
  /\ Start(r, "local", <<"count", "insert">>, None, [purpose |-> p, old |-> {}])
  /\ UNCHANGED <<db, cache, endUser, ghosts, faults>>

SignIn(r) == IssueAuthTokenForEmail(r, "login_activation")
ResendVerification(r) == IssueAuthTokenForEmail(r, "email_verification")
ForgotPassword(r) == IssueAuthTokenForEmail(r, "password_reset")

OverLimit(p) == Cardinality(Created(p)) >= RateLimit

CountAuthTokens(r) ==
  /\ Doing(r, "count")
  /\ LET p == req[r].arg.purpose
     IN  req' = [req EXCEPT ![r] = IF OverLimit(p) THEN Idle
                                   ELSE [op |-> "local", todo |-> <<"insert">>, seen |-> None,
                                         arg |-> [purpose |-> p, old |-> Live(p)]]]
  /\ UNCHANGED <<db, cache, endUser, ghosts, faults, calls>>

CreateAuthToken(r, t) ==
  /\ Doing(r, "insert") /\ tok[t].st = "none"
  /\ tok' = [x \in AuthTokens |->
               IF x = t THEN [purpose |-> req[r].arg.purpose, st |-> "live"]
               ELSE IF x \in req[r].arg.old THEN [tok[x] EXCEPT !.st = "used"] ELSE tok[x]]
  /\ Done(r)
  /\ UNCHANGED <<acct, linked, locker, flow, idp, refresh, cache, endUser, ghosts, faults, calls>>

\* A link that has run out of time.
ExpireAuthToken(t) ==
  /\ tok[t].st = "live" /\ Call
  /\ tok' = [tok EXCEPT ![t].st = "used"]
  /\ UNCHANGED <<acct, linked, locker, flow, idp, refresh, cache, endUser, req, ghosts, faults>>

(***************************************************************************)
(* Signing up and choosing a password.                                     *)
(***************************************************************************)
NextPassword == acct.hash + 1
MayChoose == NextPassword <= MaxPasswords

SignupDeveloper(r, t) ==
  /\ ~acct.made /\ tok[t].st = "none"
  /\ acct' = [NoAccount EXCEPT !.made = TRUE, !.pending = TRUE]
  /\ tok' = [tok EXCEPT ![t] = [purpose |-> "email_verification", st |-> "live"]]
  /\ Start(r, "local", PutAuth, [pending |-> TRUE, verified |-> FALSE, hash |-> 0], None)
  /\ UNCHANGED <<linked, locker, flow, idp, refresh, cache, endUser, ghosts, faults>>

\* Signing up again once the link has run out.
ResumeExpiredSignup(r) ==
  /\ GetUser /\ ~acct.verified /\ acct.pending /\ Live("email_verification") = {}
  /\ Start(r, "local", <<"count", "insert">>, None, [purpose |-> "email_verification", old |-> {}])
  /\ UNCHANGED <<db, cache, endUser, ghosts, faults>>

Signup(r, t) == SignupDeveloper(r, t) \/ ResumeExpiredSignup(r)

VerifiedRow == [acct EXCEPT !.verified = TRUE, !.pending = FALSE]
AsView(row) == [pending |-> row.pending, verified |-> row.verified, hash |-> row.hash]

VerifyEmailToken(t) ==
  /\ Consumable(t, "email_verification") /\ MayChoose /\ RowFree
  /\ acct' = [VerifiedRow EXCEPT !.hash = NextPassword]
  /\ tok' = [tok EXCEPT ![t].st = "used"] /\ Redeem(t)

VerifyEmail(r, t) ==
  /\ VerifyEmailToken(t)
  /\ Start(r, "local", DeletePut \o <<"issue">>, AsView(acct'), None)
  /\ UNCHANGED <<linked, locker, flow, idp, refresh, cache, endUser, former, apart, faults>>

ActivateLoginToken(t) ==
  /\ Consumable(t, "login_activation") /\ ~acct.pending
  /\ tok' = [tok EXCEPT ![t].st = "used"] /\ Redeem(t)

ActivateLogin(r, t) ==
  /\ ActivateLoginToken(t)
  /\ Start(r, "local", DeletePut \o <<"issue">>, AuthView, None)
  /\ UNCHANGED <<acct, linked, locker, flow, idp, refresh, cache, endUser, former, apart, faults>>

UserTokens == {t \in Refresh : refresh[t].of = "user"}
RevokeUserRefreshTokens ==
  /\ refresh' = [t \in Refresh |->
                   IF t \in UserTokens THEN [refresh[t] EXCEPT !.st = "revoked"] ELSE refresh[t]]
  /\ former' = former \cup UserTokens

ResetPasswordWithToken(t) ==
  /\ Consumable(t, "password_reset") /\ MayChoose /\ RowFree
  /\ acct' = [acct EXCEPT !.hash = NextPassword]
  /\ tok' = [tok EXCEPT ![t].st = "used"] /\ Redeem(t)
  /\ RevokeUserRefreshTokens

\* Mutant: the cached password is not flushed.
ResetKeepsCache(r, t) ==
  /\ ResetPasswordWithToken(t)
  /\ Start(r, "local", <<>>, None, None)
  /\ UNCHANGED <<linked, locker, flow, idp, cache, endUser, apart, faults>>

ResetPassword(r, t) ==
  /\ ResetPasswordWithToken(t)
  /\ Start(r, "local", <<"flush">>, None, None)
  /\ UNCHANGED <<linked, locker, flow, idp, cache, endUser, apart, faults>>

\* The current password is checked against what the cache or the row says.
ChangePassword(r, pw) ==
  /\ Known(FALSE) /\ AuthSeen(FALSE).hash = pw
  /\ Start(r, "local", AuthFill(FALSE) \o <<"update">>, AuthView, None)
  /\ UNCHANGED <<db, cache, endUser, ghosts, faults>>

UpdateUserPassword(r) ==
  /\ Doing(r, "update") /\ RowFree
  /\ \/ /\ GetUser /\ MayChoose
        /\ acct' = [acct EXCEPT !.hash = NextPassword]
        /\ RevokeUserRefreshTokens /\ Go(r, <<"reread">>, None)
     \/ ~GetUser /\ Go(r, <<>>, None) /\ UNCHANGED <<acct, refresh, former>>
  /\ UNCHANGED <<linked, locker, tok, flow, idp, cache, endUser, uses, apart, faults, calls>>

RereadPassword(r) ==
  /\ Doing(r, "reread")
  /\ IF GetUser THEN Go(r, PutAuth, AuthView) ELSE Go(r, <<"delete">>, None)
  /\ UNCHANGED <<db, cache, endUser, ghosts, faults, calls>>

\* deleteCurrentUser; CloudMembers has its check of the organizations the user owns.
DisableCurrentUser(r) ==
  /\ GetUser /\ ~acct.pending /\ RowFree
  /\ acct' = [acct EXCEPT !.disabled = TRUE]
  /\ RevokeUserRefreshTokens
  /\ Start(r, "local", <<"delete">>, None, None)
  /\ UNCHANGED <<linked, locker, tok, flow, idp, cache, endUser, uses, apart, faults>>

\* An administrator of an organization suspends the account and gives it back, also
\* one its user has deleted.  The cache is not told; CloudMembers has the owners' guard.
DisableMemberUser(r) ==
  /\ GetUser /\ RowFree
  /\ acct' = [acct EXCEPT !.disabled = TRUE]
  /\ RevokeUserRefreshTokens
  /\ apart' = apart \cup Cached
  /\ Start(r, "local", <<>>, None, None)
  /\ UNCHANGED <<linked, locker, tok, flow, idp, cache, endUser, uses, faults>>

EnableMemberUser(r) ==
  /\ acct.made /\ acct.disabled /\ RowFree
  /\ acct' = [acct EXCEPT !.disabled = FALSE]
  /\ Start(r, "local", <<>>, None, None)
  /\ UNCHANGED <<linked, locker, tok, flow, idp, refresh, cache, endUser, ghosts, faults>>

(***************************************************************************)
(* A platform operator gives a brand cloud an account, new or not, and     *)
(* with a password or by mail; CloudMembers has the membership.            *)
(***************************************************************************)
\* A new account, verified at once.
ProvisionNew(r) ==
  /\ ~acct.made /\ 1 <= MaxPasswords
  /\ acct' = [NoAccount EXCEPT !.made = TRUE, !.verified = TRUE, !.hash = 1]
  /\ Start(r, "local", PutAuth, AsView(acct'), None)
  /\ UNCHANGED <<linked, locker, tok, flow, idp, refresh, cache, endUser, ghosts, faults>>

\* A new account that the mail verifies.
ProvisionByMail(r, t) ==
  /\ ~acct.made /\ tok[t].st = "none"
  /\ acct' = [NoAccount EXCEPT !.made = TRUE, !.pending = TRUE]
  /\ tok' = [tok EXCEPT ![t] = [purpose |-> "email_verification", st |-> "live"]]
  /\ Start(r, "local", DeletePut, AsView(acct'), None)
  /\ UNCHANGED <<linked, locker, flow, idp, refresh, cache, endUser, ghosts, faults>>

\* An account that is there gets the password, but keeps its sessions.
ProvisionRotating(r) ==
  /\ GetUser /\ MayChoose /\ RowFree
  /\ acct' = [VerifiedRow EXCEPT !.hash = NextPassword]
  /\ Start(r, "local", PutAuth, AsView(acct'), None)
  /\ UNCHANGED <<linked, locker, tok, flow, idp, refresh, cache, endUser, ghosts, faults>>

\* Or does not get it; the one that was given is cached all the same.
ProvisionKeeping(r, pw) ==
  /\ GetUser /\ RowFree
  /\ Start(r, "local", PutAuth, [AuthView EXCEPT !.hash = pw], None)
  /\ UNCHANGED <<db, cache, endUser, ghosts, faults>>

\* Or is sent a link, in the same transaction, which takes the row of the user first.
ProvisionMailing(r, t) ==
  LET p == IF acct.verified THEN "login_activation" ELSE "email_verification" IN
  /\ GetUser /\ RowFree /\ tok[t].st = "none" /\ ~OverLimit(p)
  /\ \A x \in Live(p) : ~Superseding(x)
  /\ tok' = [x \in AuthTokens |-> IF x = t THEN [purpose |-> p, st |-> "live"]
                                 ELSE IF x \in Live(p) THEN [tok[x] EXCEPT !.st = "used"] ELSE tok[x]]
  /\ Start(r, "local", DeletePut, AuthView, None)
  /\ UNCHANGED <<acct, linked, locker, flow, idp, refresh, cache, endUser, ghosts, faults>>

ProvisionBrandCloudAccount(r) ==
  \/ ProvisionNew(r) \/ ProvisionRotating(r)
  \/ \E pw \in 1..MaxPasswords : ProvisionKeeping(r, pw)
  \/ \E t \in AuthTokens : ProvisionByMail(r, t) \/ ProvisionMailing(r, t)

(***************************************************************************)
(* Signing in.                                                             *)
(***************************************************************************)
Login(r, pw) ==
  /\ Known(TRUE)
  /\ Start(r, "local", AuthFill(TRUE) \o (IF CheckPassword(AuthSeen(TRUE), pw) THEN <<"issue">> ELSE <<>>),
           AuthView, None)
  /\ UNCHANGED <<db, cache, endUser, ghosts, faults>>

\* The foreign key of the new row waits for a rotation that holds the user's row.
SaveRefreshToken(r, n) ==
  /\ Doing(r, "issue") /\ RowFree /\ refresh[n].st = "none"
  /\ refresh' = [refresh EXCEPT ![n] = [of |-> "user", st |-> "live"]]
  /\ Done(r)
  /\ UNCHANGED <<acct, linked, locker, tok, flow, idp, cache, endUser, ghosts, faults, calls>>

\* The OIDC provider is configured; its row is made by the first login and by
\* administrators, who may switch it off.
CreateIdentityProvider(on) ==
  /\ idp = "absent" /\ idp' = on /\ Call
  /\ UNCHANGED <<acct, linked, locker, tok, flow, refresh, cache, endUser, req, ghosts, faults>>

UpdateIdentityProvider ==
  /\ idp = "off" /\ idp' = "on" /\ Call
  /\ UNCHANGED <<acct, linked, locker, tok, flow, refresh, cache, endUser, req, ghosts, faults>>

DisableIdentityProvider ==
  /\ idp = "on" /\ idp' = "off" /\ Call
  /\ UNCHANGED <<acct, linked, locker, tok, flow, refresh, cache, endUser, req, ghosts, faults>>

ResolveOIDCProvider == idp # "off" /\ idp' = "on"

StartOIDCLogin(s) ==
  /\ flow[s] = "none" /\ ResolveOIDCProvider
  /\ flow' = [flow EXCEPT ![s] = "oidc"]
  /\ UNCHANGED <<acct, linked, locker, tok, refresh, cache, endUser, req, ghosts, faults, calls>>

StartSocialLogin(s) ==
  /\ flow[s] = "none"
  /\ flow' = [flow EXCEPT ![s] = "social"]
  /\ UNCHANGED <<acct, linked, locker, tok, idp, refresh, cache, endUser, req, ghosts, faults, calls>>

\* Mutant: the state is not marked as consumed.
ConsumeAgain(s) == Redeem(s) /\ UNCHANGED flow

ConsumeLoginState(s) == flow' = [flow EXCEPT ![s] = "consumed"] /\ Redeem(s)

OIDCCallback(r, s) ==
  /\ flow[s] = "oidc" /\ ResolveOIDCProvider
  /\ ConsumeLoginState(s)
  /\ Start(r, "oidc", <<"exchange", "resolve">>, None, None)
  /\ UNCHANGED <<acct, linked, locker, tok, refresh, cache, endUser, former, apart, faults>>

\* The row's switch is not asked here: social providers are configured.
SocialCallback(r, s) ==
  /\ flow[s] = "social"
  /\ ConsumeLoginState(s)
  /\ Start(r, "social", <<"exchange", "resolve">>, None, None)
  /\ UNCHANGED <<acct, linked, locker, tok, idp, refresh, cache, endUser, former, apart, faults>>

\* The provider names a user with a verified address, or the sign-in ends.
ExchangeAndValidate(r) ==
  /\ Doing(r, "exchange") /\ req[r].op = "oidc"
  /\ Done(r) \/ Go(r, <<>>, None)
  /\ UNCHANGED <<db, cache, endUser, ghosts, faults, calls>>

ExchangeAndIdentify(r) ==
  /\ Doing(r, "exchange") /\ req[r].op = "social"
  /\ Done(r) \/ Go(r, <<>>, None)
  /\ UNCHANGED <<db, cache, endUser, ghosts, faults, calls>>

\* A linked identity names the user, an unlinked one the address.
ByEmail(r) == req[r].op \notin linked
Found(r) == CachedUser(ByEmail(r)) \/ GetUser
ThenLink(r) == (IF ByEmail(r) THEN <<"link">> ELSE <<>>) \o <<"issue">>

ResolveOIDCUser(r) ==
  /\ Doing(r, "resolve") /\ req[r].op = "oidc"
  /\ IF Found(r)
     THEN Go(r, UserFill(ByEmail(r)) \o (IF UserSeen(ByEmail(r)).pending THEN <<>> ELSE ThenLink(r)), AuthView)
     ELSE Go(r, <<>>, None)
  /\ UNCHANGED <<db, cache, endUser, ghosts, faults, calls>>

Unverified(v) == v.pending \/ ~v.verified

ResolveSocialUser(r) ==
  /\ Doing(r, "resolve") \/ Doing(r, "again")
  /\ req[r].op = "social"
  /\ IF Found(r)
     THEN Go(r, UserFill(ByEmail(r)) \o (IF Unverified(UserSeen(ByEmail(r))) THEN <<"activate">> ELSE <<>>)
                \o ThenLink(r), AuthView)
     ELSE Go(r, IF ByEmail(r) /\ Doing(r, "resolve") THEN <<"signup">> ELSE <<>>, None)
  /\ UNCHANGED <<db, cache, endUser, ghosts, faults, calls>>

SignupFromProvider(r) ==
  /\ Doing(r, "signup")
  /\ IF acct.made
     THEN Go(r, <<"again">>, None) /\ UNCHANGED acct
     ELSE /\ acct' = [NoAccount EXCEPT !.made = TRUE, !.verified = TRUE]
          /\ Go(r, PutAuth \o <<"link", "issue">>, AsView(acct'))
  /\ UNCHANGED <<linked, locker, tok, flow, idp, refresh, cache, endUser, ghosts, faults, calls>>

ActivateUserFromSocialEmail(r) ==
  /\ Doing(r, "activate") /\ RowFree
  /\ IF GetUser
     THEN /\ acct' = VerifiedRow
          /\ tok' = [t \in AuthTokens |-> IF t \in Live("email_verification")
                                          THEN [tok[t] EXCEPT !.st = "used"] ELSE tok[t]]
          /\ Go(r, DeletePut \o Tail(req[r].todo), AsView(acct'))
     ELSE Go(r, <<>>, None) /\ UNCHANGED <<acct, tok>>
  /\ UNCHANGED <<linked, locker, flow, idp, refresh, cache, endUser, ghosts, faults, calls>>

\* A second link of the same identity breaks the unique index and the sign-in ends.
CreateUserIdentity(r) ==
  /\ Doing(r, "link")
  /\ linked' = linked \cup {req[r].op}
  /\ IF req[r].op \in linked THEN Go(r, <<>>, None) ELSE Done(r)
  /\ UNCHANGED <<acct, locker, tok, flow, idp, refresh, cache, endUser, ghosts, faults, calls>>

DeleteUserIdentity(p) ==
  /\ p \in linked /\ linked' = linked \ {p} /\ Call
  /\ UNCHANGED <<acct, locker, tok, flow, idp, refresh, cache, endUser, req, ghosts, faults>>

(***************************************************************************)
(* Sessions: a refresh token is exchanged once, under the user's row.      *)
(***************************************************************************)
\* A signed token names its subject.
ParseRefreshToken(t, subject) == refresh[t].of = subject

RefreshTokenActive(t) ==
  /\ ParseRefreshToken(t, "user") /\ refresh[t].st = "live"
  /\ GetUser /\ ~acct.pending

\* Mutant: FOR UPDATE OF the token alone.
RotateTokenOnly(r, t) ==
  /\ RefreshTokenActive(t) /\ \A q \in Requests : ~(Doing(q, "rotate") /\ req[q].arg = t)
  /\ Start(r, "local", <<"rotate">>, None, t)
  /\ UNCHANGED <<acct, linked, locker, tok, flow, idp, refresh, cache, endUser, ghosts, faults>>

RotateLock(r, t) ==
  /\ RefreshTokenActive(t) /\ RowFree
  /\ locker' = r
  /\ Start(r, "local", <<"rotate">>, None, t)
  /\ UNCHANGED <<acct, linked, tok, flow, idp, refresh, cache, endUser, ghosts, faults>>

RotateCommit(r, n) ==
  /\ Doing(r, "rotate") /\ refresh[n].st = "none"
  /\ refresh' = [refresh EXCEPT ![req[r].arg].st = "revoked", ![n] = [of |-> "user", st |-> "live"]]
  /\ former' = IF req[r].arg \in former THEN former \cup {n} ELSE former
  /\ Redeem(req[r].arg) /\ locker' = IF locker = r THEN None ELSE locker
  /\ Done(r)
  /\ UNCHANGED <<acct, linked, tok, flow, idp, cache, endUser, apart, faults, calls>>

Rotating(t) == \E r \in Requests : Doing(r, "rotate") /\ req[r].arg = t

\* Logout, and a token that has run out of time.
RevokeRefreshToken(t) ==
  /\ refresh[t].st = "live" /\ ~Rotating(t) /\ Call
  /\ refresh' = [refresh EXCEPT ![t].st = "revoked"]
  /\ UNCHANGED <<acct, linked, locker, tok, flow, idp, cache, endUser, req, ghosts, faults>>

(***************************************************************************)
(* End users: the first login registers.                                   *)
(***************************************************************************)
EndUserLogin(r, pw) ==
  /\ LET hash == IF euCache # None THEN euCache ELSE eu
         fill == IF euCache # None THEN <<>> ELSE <<"putEnd">>
     IN  Start(r, "local", IF hash = None THEN <<"create">>
                         ELSE fill \o (IF hash = pw THEN <<"issueEnd">> ELSE <<>>), hash, pw)
  /\ UNCHANGED <<db, cache, endUser, ghosts, faults>>

CreateEndUser(r) ==
  /\ Doing(r, "create")
  /\ IF eu = None
     THEN eu' = req[r].arg /\ Go(r, <<"putEnd", "issueEnd">>, req[r].arg)
     ELSE Go(r, <<>>, None) /\ UNCHANGED eu
  /\ UNCHANGED <<db, cache, euCache, euOpened, ghosts, faults, calls>>

PutEndUserLogin(r) ==
  /\ Doing(r, "putEnd")
  /\ euCache' = req[r].seen
  /\ Done(r)
  /\ UNCHANGED <<db, cache, eu, euOpened, ghosts, faults, calls>>

SaveEndUserRefreshToken(r, n) ==
  /\ Doing(r, "issueEnd") /\ refresh[n].st = "none"
  /\ refresh' = [refresh EXCEPT ![n] = [of |-> "end", st |-> "live"]]
  /\ euOpened' = euOpened \cup {req[r].arg}
  /\ Done(r)
  /\ UNCHANGED <<acct, linked, locker, tok, flow, idp, cache, eu, euCache, ghosts, faults, calls>>

RotateEndUserRefreshToken(t, n) ==
  /\ ParseRefreshToken(t, "end") /\ refresh[t].st = "live" /\ refresh[n].st = "none"
  /\ refresh' = [refresh EXCEPT ![t].st = "revoked", ![n] = [of |-> "end", st |-> "live"]]
  /\ Redeem(t)
  /\ UNCHANGED <<acct, linked, locker, tok, flow, idp, cache, endUser, req, former, apart, faults, calls>>

Next ==
  \/ \E r \in Requests :
       \/ PutPlatformUser(r) \/ PutPlatformAuth(r) \/ DeletePlatformUser(r)
       \/ FlushPlatformAuth(r) \/ CommandLost(r)
       \/ Authenticate(r) \/ RebuildCache(r) \/ DeleteFromCache(r)
       \/ SignIn(r) \/ ResendVerification(r) \/ ForgotPassword(r) \/ CountAuthTokens(r)
       \/ \E t \in AuthTokens : \/ CreateAuthToken(r, t) \/ Signup(r, t)
                                \/ VerifyEmail(r, t) \/ ActivateLogin(r, t) \/ ResetPassword(r, t)
       \/ \E pw \in 1..MaxPasswords : ChangePassword(r, pw) \/ Login(r, pw) \/ EndUserLogin(r, pw)
       \/ UpdateUserPassword(r) \/ RereadPassword(r) \/ DisableCurrentUser(r)
       \/ DisableMemberUser(r) \/ EnableMemberUser(r) \/ ProvisionBrandCloudAccount(r)
       \/ \E s \in LoginStates : OIDCCallback(r, s) \/ SocialCallback(r, s)
       \/ ExchangeAndValidate(r) \/ ExchangeAndIdentify(r)
       \/ ResolveOIDCUser(r) \/ ResolveSocialUser(r) \/ SignupFromProvider(r)
       \/ ActivateUserFromSocialEmail(r) \/ CreateUserIdentity(r)
       \/ \E t \in Refresh : SaveRefreshToken(r, t) \/ RotateLock(r, t) \/ RotateCommit(r, t)
                             \/ SaveEndUserRefreshToken(r, t)
       \/ CreateEndUser(r) \/ PutEndUserLogin(r)
  \/ \E t \in AuthTokens : ExpireAuthToken(t)
  \/ \E s \in LoginStates : StartOIDCLogin(s) \/ StartSocialLogin(s)
  \/ \E on \in {"on", "off"} : CreateIdentityProvider(on)
  \/ UpdateIdentityProvider \/ DisableIdentityProvider
  \/ \E p \in Providers : DeleteUserIdentity(p)
  \/ \E t \in Refresh : RevokeRefreshToken(t)
  \/ \E t, n \in Refresh : RotateEndUserRefreshToken(t, n)

Spec == Init /\ [][Next]_vars

(***************************************************************************)
(* Properties.                                                             *)
(***************************************************************************)
\* The types of the rows; a user who is pending is not verified.
TypeOK ==
  /\ acct.hash \in 0..MaxPasswords /\ ~(acct.pending /\ acct.verified)
  /\ linked \subseteq Providers /\ locker \in Requests \cup {None}
  /\ tok \in [AuthTokens -> [purpose : Purposes \cup {None}, st : {"none", "live", "used"}]]
  /\ flow \in [LoginStates -> Providers \cup {"none", "consumed"}] /\ idp \in {"absent", "on", "off"}
  /\ refresh \in [Refresh -> [of : {"user", "end", None}, st : {"none", "live", "revoked"}]]
  /\ locker # None => Doing(locker, "rotate")
  /\ faults \in 0..MaxFaults /\ calls \in 0..MaxCalls

\* Nobody has a session before the address is verified, whichever way in was taken: a
\* reset password of a pending signup opens nothing.
SessionsAreVerified == UserTokens # {} => acct.verified

\* A reset, a change, the deletion and the suspension of the account end every session there was, those
\* that were being renewed at that moment included.
SessionsEndWithPassword == \A t \in former : refresh[t].st # "live"

\* A link, a login state and a refresh token are redeemed at most once.
UsedOnce == \A e \in Evidence : uses[e] <= 1

\* Concurrent requests pass the rate limit by at most one token each but the first.
RateLimitHolds ==
  \A p \in Purposes : Cardinality(Created(p)) <= RateLimit + Cardinality(Requests) - 1

\* Nobody being at work, a copy in the cache is what the row says, or its last write
\* explains why not: it was overtaken by a change of the row, a command of the cache
\* failed, or the change went past the cache (usercache.Store).  The next write or
\* deletion of the copy that succeeds repairs it: no path that changes the row leaves
\* a copy behind unnoticed, and copies have no expiry.
CacheIsCurrent ==
  (\A r \in Requests : req[r] = Idle) =>
    /\ cUser # None /\ "user" \notin apart => GetUser /\ cUser = View
    /\ cAuth # None /\ "auth" \notin apart => GetUser /\ cAuth = AuthView

\* Of two first logins of an end user one registers; only its password opens sessions.
EndUserSessionsMatch == \A pw \in euOpened : pw = eu

\* Nobody is signed in with what no longer counts or counts for another: verification,
\* links, login states, refresh tokens and first logins race through two requests
\* without a session that the row would not give (VerifyEmailToken, consumeAuthTokenTx,
\* ConsumeOIDCLoginState, RotateRefreshToken, CreateEndUser).
SignInIsSound ==
  TypeOK /\ SessionsAreVerified /\ UsedOnce /\ RateLimitHolds /\ EndUserSessionsMatch
=============================================================================
