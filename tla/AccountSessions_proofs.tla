----------------------- MODULE AccountSessions_proofs -----------------------
(***************************************************************************)
(* Proofs about AccountSessions: whichever requests race, nobody is signed *)
(* in with what no longer counts; a change of the password ends every      *)
(* session there was; and a copy in the cache agrees with the row whenever *)
(* nobody is at work and its last write was neither late, lost nor passed. *)
(***************************************************************************)
EXTENDS AccountSessions, FiniteSetTheorems, TLAPS

(***************************************************************************)
(* The inductive invariant.                                                *)
(***************************************************************************)
Accounts == [made : BOOLEAN, hash : 0..MaxPasswords, verified : BOOLEAN, pending : BOOLEAN, disabled : BOOLEAN]
Views == [pending : BOOLEAN, verified : BOOLEAN]
AuthViews == [pending : BOOLEAN, verified : BOOLEAN, hash : 0..MaxPasswords]
Tokens == [purpose : Purposes \cup {None}, st : {"none", "live", "used"}]
Sessions == [of : {"user", "end", None}, st : {"none", "live", "revoked"}]

\* An account is pending until it is verified.
AcctInv ==
  /\ acct \in Accounts /\ linked \subseteq Providers
  /\ acct.made => (acct.pending <=> ~acct.verified)
  /\ ~acct.made => acct = NoAccount /\ \A t \in AuthTokens : tok[t] = [purpose |-> None, st |-> "none"]
  /\ faults \in 0..MaxFaults /\ calls \in 0..MaxCalls

\* A view that is not pending was taken of a verified account.
Honest(v, made, verified) == made /\ (~v.pending => verified)

CopiesInv ==
  /\ cUser \in Views \cup {None} /\ (cUser # None => Honest(cUser, acct.made, acct.verified))
  /\ cAuth \in AuthViews \cup {None} /\ (cAuth # None => Honest(cAuth, acct.made, acct.verified))

\* What requests have left to do: the cache commands of a view and what follows them, ...
Fillings ==
  {<<"putUser", "setAuth">>, <<"setAuth">>, <<"putUser">>, <<"putUser", "setAuth", "update">>,
   <<"setAuth", "update">>, <<"delete", "putUser">>}
Activating ==
  {<<"putUser", "activate", "link", "issue">>, <<"putUser", "activate", "issue">>}
Entering ==
  {<<"putUser", "setAuth", "issue">>, <<"setAuth", "issue">>, <<"putUser", "issue">>,
   <<"delete", "putUser", "issue">>}
Linking ==
  {<<"putUser", "link", "issue">>, <<"putUser", "setAuth", "link", "issue">>,
   <<"setAuth", "link", "issue">>, <<"delete", "putUser", "link", "issue">>}
Viewing == Fillings \cup Activating \cup Entering \cup Linking
\* ... what needs no view, ...
Repairs == {<<"delete">>, <<"flush">>, <<"update">>, <<"reread">>}
Mails == {<<"count", "insert">>, <<"insert">>}
\* ... the ways through an identity provider and those of an end user.
Strangers == {<<"exchange", "resolve">>, <<"resolve">>, <<"signup">>}
Answers == {<<"activate", "link", "issue">>, <<"activate", "issue">>, <<"again">>}

\* A request q, when the account is made, is verified, and user is the registered end user.
ReqInv(q, made, verified, user) ==
  \/ q = Idle
  \/ /\ q.todo \in Viewing /\ q.seen \in AuthViews /\ Honest(q.seen, made, verified)
     /\ q.todo \in Entering \cup Linking => verified
     /\ q.todo \in Activating \cup Linking => q.op \in Providers
  \/ q.todo \in Repairs /\ made
  \/ q.todo = <<"issue">> /\ verified
  \/ q.todo = <<"link", "issue">> /\ verified /\ q.op \in Providers
  \/ q.todo \in Answers /\ made /\ q.op \in Providers
  \/ q.todo \in Mails /\ made /\ q.arg \in [purpose : Purposes, old : SUBSET AuthTokens]
  \/ q.todo \in Strangers /\ q.op \in Providers
  \/ q.todo = <<"rotate">> /\ q.arg \in Refresh
  \/ q.todo = <<"create">> /\ q.arg \in 1..MaxPasswords
  \/ q.todo = <<"putEnd", "issueEnd">> /\ user # None /\ q.seen = user /\ q.arg = user
  \/ q.todo = <<"putEnd">> /\ user # None /\ q.seen = user
  \/ q.todo = <<"issueEnd">> /\ user # None /\ q.arg = user

IsRequest(q) == q = [op |-> q.op, todo |-> q.todo, seen |-> q.seen, arg |-> q.arg]

RequestsInv ==
  /\ req = [r \in Requests |-> req[r]]
  /\ \A r \in Requests : IsRequest(req[r]) /\ ReqInv(req[r], acct.made, acct.verified, eu)

\* A token that was redeemed is used, and one that a rotation holds is live.
TokensInv ==
  /\ tok \in [AuthTokens -> Tokens]
  /\ flow \in [LoginStates -> Providers \cup {"none", "consumed"}] /\ idp \in {"absent", "on", "off"}
  /\ uses \in [Evidence -> {0, 1}]
  /\ \A t \in AuthTokens : uses[t] = 1 => tok[t].st = "used"
  /\ \A s \in LoginStates : uses[s] = 1 => flow[s] = "consumed"

SessionsInv ==
  /\ refresh \in [Refresh -> Sessions]
  /\ \A t \in Refresh : uses[t] = 1 => refresh[t].st = "revoked"
  /\ \A t \in former : t \in Refresh /\ refresh[t].st = "revoked"
  /\ UserTokens # {} => acct.verified

LockInv ==
  /\ locker \in Requests \cup {None}
  /\ locker # None => req[locker].todo = <<"rotate">>
  /\ \A r \in Requests : req[r].todo = <<"rotate">> =>
       locker = r /\ refresh[req[r].arg] = [of |-> "user", st |-> "live"]

\* The registered password is the only one that is cached or has opened a session.
EndUserInv ==
  /\ eu \in (1..MaxPasswords) \cup {None}
  /\ euCache # None => euCache = eu
  /\ \A pw \in euOpened : pw = eu /\ eu # None

\* Tokens that were counted and are still to be inserted.
Inserting(p) == {r \in Requests : req[r].todo = <<"insert">> /\ req[r].arg.purpose = p}

RateInv ==
  \A p \in Purposes :
    Cardinality(Created(p)) + Cardinality(Inserting(p)) <= RateLimit + Cardinality(Requests) - 1

\* What a request does that will still remove or replace the copy.
Deleting ==
  {<<"delete">>, <<"delete", "putUser">>, <<"delete", "putUser", "issue">>,
   <<"delete", "putUser", "link", "issue">>}
SettingAuth == {<<"setAuth">>, <<"setAuth", "update">>, <<"setAuth", "issue">>, <<"setAuth", "link", "issue">>}
PuttingAuth ==
  {<<"putUser", "setAuth">>, <<"putUser", "setAuth", "update">>, <<"putUser", "setAuth", "issue">>,
   <<"putUser", "setAuth", "link", "issue">>}
UserFixes == Deleting \cup PuttingAuth
AuthFixes == Deleting \cup {<<"flush">>, <<"reread">>} \cup SettingAuth \cup PuttingAuth

WillFix(fixes) == \E r \in Requests : req[r].todo \in fixes

\* A copy that its last write does not set apart is what the row says, or will be fixed.
CacheInv ==
  /\ cUser # None /\ "user" \notin apart => (GetUser /\ cUser = View) \/ WillFix(UserFixes)
  /\ cAuth # None /\ "auth" \notin apart => (GetUser /\ cAuth = AuthView) \/ WillFix(AuthFixes)

SessionInv ==
  AcctInv /\ CopiesInv /\ RequestsInv /\ TokensInv /\ SessionsInv /\ LockInv /\ EndUserInv /\ RateInv /\ CacheInv

(***************************************************************************)
(* Sequences of steps.                                                     *)
(***************************************************************************)
\* A sequence that begins like s and goes on like t.
LEMMA Join ==
  ASSUME NEW S, NEW s \in Seq(S), NEW t \in Seq(S), NEW u \in Seq(S), Len(u) = Len(s) + Len(t),
         \A i \in 1..Len(s) : u[i] = s[i], \A i \in 1..Len(t) : u[Len(s) + i] = t[i]
  PROVE  s \o t = u
<1>1. s \o t \in Seq(S) /\ Len(s \o t) = Len(u)
  OBVIOUS
<1>2. ASSUME NEW i \in 1..Len(u) PROVE (s \o t)[i] = u[i]
  <2>1. CASE i \in 1..Len(s)
    BY <2>1
  <2>2. CASE i \notin 1..Len(s)
    <3>1. i - Len(s) \in 1..Len(t) /\ i = Len(s) + (i - Len(s))
      BY <2>2
    <3> QED BY <2>2, <3>1
  <2> QED BY <2>1, <2>2
<1> QED BY <1>1, <1>2

\* Short sequences put together.
LEMMA Joins ==
  /\ \A a : <<>> \o <<a>> = <<a>> /\ <<a>> \o <<>> = <<a>>
  /\ \A a, b : <<>> \o <<a, b>> = <<a, b>> /\ <<a, b>> \o <<>> = <<a, b>> /\ <<a>> \o <<b>> = <<a, b>>
  /\ \A a, b, c : <<a, b>> \o <<c>> = <<a, b, c>> /\ <<a>> \o <<b, c>> = <<a, b, c>>
  /\ \A a, b, c, d : <<a, b>> \o <<c, d>> = <<a, b, c, d>>
  /\ <<>> \o <<>> = <<>>
<1>1. ASSUME NEW a PROVE <<>> \o <<a>> = <<a>> /\ <<a>> \o <<>> = <<a>>
  OBVIOUS
<1>2. ASSUME NEW a, NEW b PROVE <<>> \o <<a, b>> = <<a, b>> /\ <<a, b>> \o <<>> = <<a, b>>
  OBVIOUS
<1>3. ASSUME NEW a, NEW b PROVE <<a>> \o <<b>> = <<a, b>>
  <2> DEFINE S == {a, b} s == <<a>> t == <<b>> u == <<a, b>>
  <2>1. s \in Seq(S) /\ t \in Seq(S) /\ u \in Seq(S)
    OBVIOUS
  <2>2. Len(s) = 1 /\ Len(t) = 1 /\ Len(u) = 2
    OBVIOUS
  <2>3. (\A i \in 1..1 : u[i] = s[i]) /\ (\A i \in 1..1 : u[1 + i] = t[i])
    OBVIOUS
  <2> HIDE DEF S, s, t, u
  <2>4. /\ Len(u) = Len(s) + Len(t)
        /\ \A i \in 1..Len(s) : u[i] = s[i]
        /\ \A i \in 1..Len(t) : u[Len(s) + i] = t[i]
    BY <2>2, <2>3
  <2>5. s \o t = u
    BY <2>1, <2>4, Join, Zenon
  <2> QED BY <2>5 DEF s, t, u
<1>4. ASSUME NEW a, NEW b, NEW c PROVE <<a, b>> \o <<c>> = <<a, b, c>>
  <2> DEFINE S == {a, b, c} s == <<a, b>> t == <<c>> u == <<a, b, c>>
  <2>1. s \in Seq(S) /\ t \in Seq(S) /\ u \in Seq(S)
    OBVIOUS
  <2>2. Len(s) = 2 /\ Len(t) = 1 /\ Len(u) = 3
    OBVIOUS
  <2>3. (\A i \in 1..2 : u[i] = s[i]) /\ (\A i \in 1..1 : u[2 + i] = t[i])
    OBVIOUS
  <2> HIDE DEF S, s, t, u
  <2>4. /\ Len(u) = Len(s) + Len(t)
        /\ \A i \in 1..Len(s) : u[i] = s[i]
        /\ \A i \in 1..Len(t) : u[Len(s) + i] = t[i]
    BY <2>2, <2>3
  <2>5. s \o t = u
    BY <2>1, <2>4, Join, Zenon
  <2> QED BY <2>5 DEF s, t, u
<1>5. ASSUME NEW a, NEW b, NEW c PROVE <<a>> \o <<b, c>> = <<a, b, c>>
  <2> DEFINE S == {a, b, c} s == <<a>> t == <<b, c>> u == <<a, b, c>>
  <2>1. s \in Seq(S) /\ t \in Seq(S) /\ u \in Seq(S)
    OBVIOUS
  <2>2. Len(s) = 1 /\ Len(t) = 2 /\ Len(u) = 3
    OBVIOUS
  <2>3. (\A i \in 1..1 : u[i] = s[i]) /\ (\A i \in 1..2 : u[1 + i] = t[i])
    OBVIOUS
  <2> HIDE DEF S, s, t, u
  <2>4. /\ Len(u) = Len(s) + Len(t)
        /\ \A i \in 1..Len(s) : u[i] = s[i]
        /\ \A i \in 1..Len(t) : u[Len(s) + i] = t[i]
    BY <2>2, <2>3
  <2>5. s \o t = u
    BY <2>1, <2>4, Join, Zenon
  <2> QED BY <2>5 DEF s, t, u
<1>6. ASSUME NEW a, NEW b, NEW c, NEW d PROVE <<a, b>> \o <<c, d>> = <<a, b, c, d>>
  <2> DEFINE S == {a, b, c, d} s == <<a, b>> t == <<c, d>> u == <<a, b, c, d>>
  <2>1. s \in Seq(S) /\ t \in Seq(S) /\ u \in Seq(S)
    OBVIOUS
  <2>2. Len(s) = 2 /\ Len(t) = 2 /\ Len(u) = 4
    OBVIOUS
  <2>3. (\A i \in 1..2 : u[i] = s[i]) /\ (\A i \in 1..2 : u[2 + i] = t[i])
    OBVIOUS
  <2> HIDE DEF S, s, t, u
  <2>4. /\ Len(u) = Len(s) + Len(t)
        /\ \A i \in 1..Len(s) : u[i] = s[i]
        /\ \A i \in 1..Len(t) : u[Len(s) + i] = t[i]
    BY <2>2, <2>3
  <2>5. s \o t = u
    BY <2>1, <2>4, Join, Zenon
  <2> QED BY <2>5 DEF s, t, u
<1>7. <<>> \o <<>> = <<>>
  OBVIOUS
<1> QED BY <1>1, <1>2, <1>3, <1>4, <1>5, <1>6, <1>7

\* Their heads and tails.
LEMMA Parts ==
  /\ \A a : <<a>> # <<>> /\ Head(<<a>>) = a /\ Tail(<<a>>) = <<>>
  /\ \A a, b : <<a, b>> # <<>> /\ Head(<<a, b>>) = a /\ Tail(<<a, b>>) = <<b>>
  /\ \A a, b, c : <<a, b, c>> # <<>> /\ Head(<<a, b, c>>) = a /\ Tail(<<a, b, c>>) = <<b, c>>
  /\ \A a, b, c, d : <<a, b, c, d>> # <<>> /\ Head(<<a, b, c, d>>) = a /\ Tail(<<a, b, c, d>>) = <<b, c, d>>
<1>1. ASSUME NEW a PROVE <<a>> # <<>> /\ Head(<<a>>) = a /\ Tail(<<a>>) = <<>>
  OBVIOUS
<1>2. ASSUME NEW a, NEW b PROVE <<a, b>> # <<>> /\ Head(<<a, b>>) = a /\ Tail(<<a, b>>) = <<b>>
  OBVIOUS
<1>3. ASSUME NEW a, NEW b, NEW c
      PROVE <<a, b, c>> # <<>> /\ Head(<<a, b, c>>) = a /\ Tail(<<a, b, c>>) = <<b, c>>
  OBVIOUS
<1>4. ASSUME NEW a, NEW b, NEW c, NEW d
      PROVE <<a, b, c, d>> # <<>> /\ Head(<<a, b, c, d>>) = a /\ Tail(<<a, b, c, d>>) = <<b, c, d>>
  OBVIOUS
<1> QED BY <1>1, <1>2, <1>3, <1>4

\* The rests of what requests have to do.
LEMMA Rests ==
  ASSUME NEW s
  PROVE  /\ s = <<"putUser", "setAuth">> => Head(s) = "putUser" /\ Tail(s) = <<"setAuth">>
         /\ s = <<"putUser", "setAuth", "update">> => Head(s) = "putUser" /\ Tail(s) = <<"setAuth", "update">>
         /\ s = <<"putUser", "setAuth", "issue">> => Head(s) = "putUser" /\ Tail(s) = <<"setAuth", "issue">>
         /\ s = <<"putUser", "setAuth", "link", "issue">> => Head(s) = "putUser" /\ Tail(s) = <<"setAuth", "link", "issue">>
         /\ s = <<"putUser", "activate", "link", "issue">> => Head(s) = "putUser" /\ Tail(s) = <<"activate", "link", "issue">>
         /\ s = <<"putUser", "activate", "issue">> => Head(s) = "putUser" /\ Tail(s) = <<"activate", "issue">>
         /\ s = <<"putUser", "issue">> => Head(s) = "putUser" /\ Tail(s) = <<"issue">>
         /\ s = <<"putUser", "link", "issue">> => Head(s) = "putUser" /\ Tail(s) = <<"link", "issue">>
         /\ s = <<"setAuth", "update">> => Head(s) = "setAuth" /\ Tail(s) = <<"update">>
         /\ s = <<"setAuth", "issue">> => Head(s) = "setAuth" /\ Tail(s) = <<"issue">>
         /\ s = <<"setAuth", "link", "issue">> => Head(s) = "setAuth" /\ Tail(s) = <<"link", "issue">>
         /\ s = <<"delete", "putUser", "issue">> => Head(s) = "delete" /\ Tail(s) = <<"putUser", "issue">>
         /\ s = <<"delete", "putUser", "link", "issue">> => Head(s) = "delete" /\ Tail(s) = <<"putUser", "link", "issue">>
         /\ s = <<"link", "issue">> => Head(s) = "link" /\ Tail(s) = <<"issue">>
         /\ s = <<"activate", "issue">> => Head(s) = "activate" /\ Tail(s) = <<"issue">>
         /\ s = <<"activate", "link", "issue">> => Head(s) = "activate" /\ Tail(s) = <<"link", "issue">>
         /\ s = <<"exchange", "resolve">> => Head(s) = "exchange" /\ Tail(s) = <<"resolve">>
         /\ s = <<"count", "insert">> => Head(s) = "count" /\ Tail(s) = <<"insert">>
         /\ s = <<"putEnd", "issueEnd">> => Head(s) = "putEnd" /\ Tail(s) = <<"issueEnd">>
         /\ s = <<"putUser">> => Head(s) = "putUser" /\ Tail(s) = <<>>
         /\ s = <<"setAuth">> => Head(s) = "setAuth" /\ Tail(s) = <<>>
         /\ s = <<"delete">> => Head(s) = "delete" /\ Tail(s) = <<>>
         /\ s = <<"flush">> => Head(s) = "flush" /\ Tail(s) = <<>>
         /\ s = <<"putEnd">> => Head(s) = "putEnd" /\ Tail(s) = <<>>
         /\ s = <<"insert">> => Head(s) = "insert" /\ Tail(s) = <<>>
         /\ s = <<"issue">> => Head(s) = "issue" /\ Tail(s) = <<>>
         /\ s = <<"issueEnd">> => Head(s) = "issueEnd" /\ Tail(s) = <<>>
         /\ s = <<"rotate">> => Head(s) = "rotate" /\ Tail(s) = <<>>
         /\ s = <<"delete", "putUser">> => Head(s) = "delete" /\ Tail(s) = <<"putUser">>
<1>1. ASSUME s = <<"putUser", "setAuth">> PROVE Head(s) = "putUser" /\ Tail(s) = <<"setAuth">>
  <2>1. Head(<<"putUser", "setAuth">>) = "putUser" /\ Tail(<<"putUser", "setAuth">>) = <<"setAuth">>
    OBVIOUS
  <2> QED BY <1>1, <2>1, Zenon
<1>2. ASSUME s = <<"putUser", "setAuth", "update">> PROVE Head(s) = "putUser" /\ Tail(s) = <<"setAuth", "update">>
  <2>1. Head(<<"putUser", "setAuth", "update">>) = "putUser" /\ Tail(<<"putUser", "setAuth", "update">>) = <<"setAuth", "update">>
    OBVIOUS
  <2> QED BY <1>2, <2>1, Zenon
<1>3. ASSUME s = <<"putUser", "setAuth", "issue">> PROVE Head(s) = "putUser" /\ Tail(s) = <<"setAuth", "issue">>
  <2>1. Head(<<"putUser", "setAuth", "issue">>) = "putUser" /\ Tail(<<"putUser", "setAuth", "issue">>) = <<"setAuth", "issue">>
    OBVIOUS
  <2> QED BY <1>3, <2>1, Zenon
<1>4. ASSUME s = <<"putUser", "setAuth", "link", "issue">> PROVE Head(s) = "putUser" /\ Tail(s) = <<"setAuth", "link", "issue">>
  <2>1. Head(<<"putUser", "setAuth", "link", "issue">>) = "putUser" /\ Tail(<<"putUser", "setAuth", "link", "issue">>) = <<"setAuth", "link", "issue">>
    OBVIOUS
  <2> QED BY <1>4, <2>1, Zenon
<1>5. ASSUME s = <<"putUser", "activate", "link", "issue">> PROVE Head(s) = "putUser" /\ Tail(s) = <<"activate", "link", "issue">>
  <2>1. Head(<<"putUser", "activate", "link", "issue">>) = "putUser" /\ Tail(<<"putUser", "activate", "link", "issue">>) = <<"activate", "link", "issue">>
    OBVIOUS
  <2> QED BY <1>5, <2>1, Zenon
<1>6. ASSUME s = <<"putUser", "activate", "issue">> PROVE Head(s) = "putUser" /\ Tail(s) = <<"activate", "issue">>
  <2>1. Head(<<"putUser", "activate", "issue">>) = "putUser" /\ Tail(<<"putUser", "activate", "issue">>) = <<"activate", "issue">>
    OBVIOUS
  <2> QED BY <1>6, <2>1, Zenon
<1>7. ASSUME s = <<"putUser", "issue">> PROVE Head(s) = "putUser" /\ Tail(s) = <<"issue">>
  <2>1. Head(<<"putUser", "issue">>) = "putUser" /\ Tail(<<"putUser", "issue">>) = <<"issue">>
    OBVIOUS
  <2> QED BY <1>7, <2>1, Zenon
<1>8. ASSUME s = <<"putUser", "link", "issue">> PROVE Head(s) = "putUser" /\ Tail(s) = <<"link", "issue">>
  <2>1. Head(<<"putUser", "link", "issue">>) = "putUser" /\ Tail(<<"putUser", "link", "issue">>) = <<"link", "issue">>
    OBVIOUS
  <2> QED BY <1>8, <2>1, Zenon
<1>9. ASSUME s = <<"setAuth", "update">> PROVE Head(s) = "setAuth" /\ Tail(s) = <<"update">>
  <2>1. Head(<<"setAuth", "update">>) = "setAuth" /\ Tail(<<"setAuth", "update">>) = <<"update">>
    OBVIOUS
  <2> QED BY <1>9, <2>1, Zenon
<1>10. ASSUME s = <<"setAuth", "issue">> PROVE Head(s) = "setAuth" /\ Tail(s) = <<"issue">>
  <2>1. Head(<<"setAuth", "issue">>) = "setAuth" /\ Tail(<<"setAuth", "issue">>) = <<"issue">>
    OBVIOUS
  <2> QED BY <1>10, <2>1, Zenon
<1>11. ASSUME s = <<"setAuth", "link", "issue">> PROVE Head(s) = "setAuth" /\ Tail(s) = <<"link", "issue">>
  <2>1. Head(<<"setAuth", "link", "issue">>) = "setAuth" /\ Tail(<<"setAuth", "link", "issue">>) = <<"link", "issue">>
    OBVIOUS
  <2> QED BY <1>11, <2>1, Zenon
<1>12. ASSUME s = <<"delete", "putUser", "issue">> PROVE Head(s) = "delete" /\ Tail(s) = <<"putUser", "issue">>
  <2>1. Head(<<"delete", "putUser", "issue">>) = "delete" /\ Tail(<<"delete", "putUser", "issue">>) = <<"putUser", "issue">>
    OBVIOUS
  <2> QED BY <1>12, <2>1, Zenon
<1>13. ASSUME s = <<"delete", "putUser", "link", "issue">> PROVE Head(s) = "delete" /\ Tail(s) = <<"putUser", "link", "issue">>
  <2>1. Head(<<"delete", "putUser", "link", "issue">>) = "delete" /\ Tail(<<"delete", "putUser", "link", "issue">>) = <<"putUser", "link", "issue">>
    OBVIOUS
  <2> QED BY <1>13, <2>1, Zenon
<1>14. ASSUME s = <<"link", "issue">> PROVE Head(s) = "link" /\ Tail(s) = <<"issue">>
  <2>1. Head(<<"link", "issue">>) = "link" /\ Tail(<<"link", "issue">>) = <<"issue">>
    OBVIOUS
  <2> QED BY <1>14, <2>1, Zenon
<1>15. ASSUME s = <<"activate", "issue">> PROVE Head(s) = "activate" /\ Tail(s) = <<"issue">>
  <2>1. Head(<<"activate", "issue">>) = "activate" /\ Tail(<<"activate", "issue">>) = <<"issue">>
    OBVIOUS
  <2> QED BY <1>15, <2>1, Zenon
<1>16. ASSUME s = <<"activate", "link", "issue">> PROVE Head(s) = "activate" /\ Tail(s) = <<"link", "issue">>
  <2>1. Head(<<"activate", "link", "issue">>) = "activate" /\ Tail(<<"activate", "link", "issue">>) = <<"link", "issue">>
    OBVIOUS
  <2> QED BY <1>16, <2>1, Zenon
<1>17. ASSUME s = <<"exchange", "resolve">> PROVE Head(s) = "exchange" /\ Tail(s) = <<"resolve">>
  <2>1. Head(<<"exchange", "resolve">>) = "exchange" /\ Tail(<<"exchange", "resolve">>) = <<"resolve">>
    OBVIOUS
  <2> QED BY <1>17, <2>1, Zenon
<1>18. ASSUME s = <<"count", "insert">> PROVE Head(s) = "count" /\ Tail(s) = <<"insert">>
  <2>1. Head(<<"count", "insert">>) = "count" /\ Tail(<<"count", "insert">>) = <<"insert">>
    OBVIOUS
  <2> QED BY <1>18, <2>1, Zenon
<1>19. ASSUME s = <<"putEnd", "issueEnd">> PROVE Head(s) = "putEnd" /\ Tail(s) = <<"issueEnd">>
  <2>1. Head(<<"putEnd", "issueEnd">>) = "putEnd" /\ Tail(<<"putEnd", "issueEnd">>) = <<"issueEnd">>
    OBVIOUS
  <2> QED BY <1>19, <2>1, Zenon
<1>20. ASSUME s = <<"putUser">> PROVE Head(s) = "putUser" /\ Tail(s) = <<>>
  <2>1. Head(<<"putUser">>) = "putUser" /\ Tail(<<"putUser">>) = <<>>
    OBVIOUS
  <2> QED BY <1>20, <2>1, Zenon
<1>21. ASSUME s = <<"setAuth">> PROVE Head(s) = "setAuth" /\ Tail(s) = <<>>
  <2>1. Head(<<"setAuth">>) = "setAuth" /\ Tail(<<"setAuth">>) = <<>>
    OBVIOUS
  <2> QED BY <1>21, <2>1, Zenon
<1>22. ASSUME s = <<"delete">> PROVE Head(s) = "delete" /\ Tail(s) = <<>>
  <2>1. Head(<<"delete">>) = "delete" /\ Tail(<<"delete">>) = <<>>
    OBVIOUS
  <2> QED BY <1>22, <2>1, Zenon
<1>23. ASSUME s = <<"flush">> PROVE Head(s) = "flush" /\ Tail(s) = <<>>
  <2>1. Head(<<"flush">>) = "flush" /\ Tail(<<"flush">>) = <<>>
    OBVIOUS
  <2> QED BY <1>23, <2>1, Zenon
<1>24. ASSUME s = <<"putEnd">> PROVE Head(s) = "putEnd" /\ Tail(s) = <<>>
  <2>1. Head(<<"putEnd">>) = "putEnd" /\ Tail(<<"putEnd">>) = <<>>
    OBVIOUS
  <2> QED BY <1>24, <2>1, Zenon
<1>25. ASSUME s = <<"insert">> PROVE Head(s) = "insert" /\ Tail(s) = <<>>
  <2>1. Head(<<"insert">>) = "insert" /\ Tail(<<"insert">>) = <<>>
    OBVIOUS
  <2> QED BY <1>25, <2>1, Zenon
<1>26. ASSUME s = <<"issue">> PROVE Head(s) = "issue" /\ Tail(s) = <<>>
  <2>1. Head(<<"issue">>) = "issue" /\ Tail(<<"issue">>) = <<>>
    OBVIOUS
  <2> QED BY <1>26, <2>1, Zenon
<1>27. ASSUME s = <<"issueEnd">> PROVE Head(s) = "issueEnd" /\ Tail(s) = <<>>
  <2>1. Head(<<"issueEnd">>) = "issueEnd" /\ Tail(<<"issueEnd">>) = <<>>
    OBVIOUS
  <2> QED BY <1>27, <2>1, Zenon
<1>28. ASSUME s = <<"rotate">> PROVE Head(s) = "rotate" /\ Tail(s) = <<>>
  <2>1. Head(<<"rotate">>) = "rotate" /\ Tail(<<"rotate">>) = <<>>
    OBVIOUS
  <2> QED BY <1>28, <2>1, Zenon
<1>29. ASSUME s = <<"delete", "putUser">> PROVE Head(s) = "delete" /\ Tail(s) = <<"putUser">>
  <2>1. Head(<<"delete", "putUser">>) = "delete" /\ Tail(<<"delete", "putUser">>) = <<"putUser">>
    OBVIOUS
  <2> QED BY <1>29, <2>1, Zenon
<1> QED BY <1>1, <1>2, <1>3, <1>4, <1>5, <1>6, <1>7, <1>8, <1>9, <1>10, <1>11, <1>12, <1>13, <1>14, <1>15, <1>16, <1>17, <1>18, <1>19, <1>20, <1>21, <1>22, <1>23, <1>24, <1>25, <1>26, <1>27, <1>28, <1>29, Zenon

\* What a request goes on to be.
GoTo(q, todo, seen) == IF todo = <<>> THEN Idle ELSE [q EXCEPT !.todo = todo, !.seen = seen]

\* The fields of what it goes on to be.
LEMMA GoFields ==
  ASSUME NEW q, IsRequest(q), NEW todo, NEW seen
  PROVE  /\ IsRequest(GoTo(q, todo, seen)) /\ GoTo(q, todo, seen).todo = todo
         /\ todo # <<>> => /\ GoTo(q, todo, seen).op = q.op /\ GoTo(q, todo, seen).arg = q.arg
                           /\ GoTo(q, todo, seen).seen = seen
BY DEF IsRequest, GoTo, Idle

\* A request stays what it is while the account grows.
LEMMA ReqStays ==
  ASSUME NEW q, NEW m, NEW v, NEW u, NEW m2, NEW v2, NEW u2, ReqInv(q, m, v, u), m => m2, v => v2,
         u # None => u2 = u
  PROVE  ReqInv(q, m2, v2, u2)
BY DEF ReqInv, Honest

\* What the next step of a request tells about it.
LEMMA CacheHeads ==
  ASSUME NEW q, NEW m, NEW v, NEW u, ReqInv(q, m, v, u), q.todo # <<>>
  PROVE  /\ Head(q.todo) = "putUser" =>
              /\ q.todo \in PuttingAuth \cup Activating \cup
                   {<<"putUser">>, <<"putUser", "issue">>, <<"putUser", "link", "issue">>}
              /\ q.seen \in AuthViews /\ Honest(q.seen, m, v)
         /\ Head(q.todo) = "setAuth" =>
              q.todo \in SettingAuth /\ q.seen \in AuthViews /\ Honest(q.seen, m, v)
         /\ Head(q.todo) = "delete" => q.todo \in Deleting /\ (q.todo = <<"delete", "putUser">> => q.seen \in AuthViews /\ Honest(q.seen, m, v))
         /\ Head(q.todo) = "flush" => q.todo = <<"flush">>
BY DEF ReqInv, Viewing, Fillings, Activating, Entering, Linking, Repairs, Mails, Strangers, Answers, Idle,
       PuttingAuth, SettingAuth, Deleting

\* The next step outside the cache.
LEMMA OtherHeads ==
  ASSUME NEW q, NEW m, NEW v, NEW u, ReqInv(q, m, v, u), q.todo # <<>>
  PROVE  /\ Head(q.todo) = "count" => q.todo = <<"count", "insert">>
         /\ Head(q.todo) = "insert" => q.todo = <<"insert">>
         /\ Head(q.todo) \in {"count", "insert"} => m /\ q.arg \in [purpose : Purposes, old : SUBSET AuthTokens]
         /\ Head(q.todo) = "issue" => q.todo = <<"issue">> /\ v
         /\ Head(q.todo) = "update" => q.todo = <<"update">> /\ m
         /\ Head(q.todo) = "reread" => q.todo = <<"reread">> /\ m
         /\ Head(q.todo) = "link" => q.todo = <<"link", "issue">> /\ v /\ q.op \in Providers
         /\ Head(q.todo) = "activate" =>
              q.todo \in {<<"activate", "link", "issue">>, <<"activate", "issue">>} /\ m /\ q.op \in Providers
         /\ Head(q.todo) = "again" => q.todo = <<"again">> /\ m /\ q.op \in Providers
         /\ Head(q.todo) = "exchange" => q.todo = <<"exchange", "resolve">> /\ q.op \in Providers
         /\ Head(q.todo) = "resolve" => q.todo = <<"resolve">> /\ q.op \in Providers
         /\ Head(q.todo) = "signup" => q.todo = <<"signup">> /\ q.op \in Providers
         /\ Head(q.todo) = "rotate" => q.todo = <<"rotate">> /\ q.arg \in Refresh
         /\ Head(q.todo) = "create" => q.todo = <<"create">> /\ q.arg \in 1..MaxPasswords
         /\ Head(q.todo) = "putEnd" => /\ q.todo \in {<<"putEnd", "issueEnd">>, <<"putEnd">>}
                                       /\ u # None /\ q.seen = u
                                       /\ q.todo = <<"putEnd", "issueEnd">> => q.arg = u
         /\ Head(q.todo) = "issueEnd" => q.todo = <<"issueEnd">> /\ u # None /\ q.arg = u
<1>1. CASE q.todo \in Viewing \cup Repairs
  BY <1>1 DEF ReqInv, Viewing, Fillings, Activating, Entering, Linking, Repairs, Mails, Strangers, Answers, Idle
<1>2. CASE q.todo \in Mails \cup Strangers
  BY <1>2 DEF ReqInv, Viewing, Fillings, Activating, Entering, Linking, Repairs, Mails, Strangers, Answers, Idle
<1>3. CASE q.todo \in Answers \cup {<<"issue">>, <<"link", "issue">>}
  BY <1>3 DEF ReqInv, Viewing, Fillings, Activating, Entering, Linking, Repairs, Mails, Strangers, Answers, Idle
<1>4. CASE q.todo = <<"rotate">> /\ q.arg \in Refresh
  BY <1>4 DEF ReqInv, Viewing, Fillings, Activating, Entering, Linking, Repairs, Mails, Strangers, Answers, Idle
<1>5. CASE q.todo \in {<<"create">>, <<"putEnd", "issueEnd">>, <<"putEnd">>, <<"issueEnd">>}
  BY <1>5 DEF ReqInv, Viewing, Fillings, Activating, Entering, Linking, Repairs, Mails, Strangers, Answers, Idle
<1>0. q # Idle
  BY DEF Idle
<1>6. \/ q.todo \in Viewing \cup Repairs \/ q.todo \in Mails \cup Strangers
      \/ q.todo \in Answers \cup {<<"issue">>, <<"link", "issue">>}
      \/ q.todo = <<"rotate">> /\ q.arg \in Refresh
      \/ q.todo \in {<<"create">>, <<"putEnd", "issueEnd">>, <<"putEnd">>, <<"issueEnd">>}
  BY <1>0, Zenon DEF ReqInv
<1> QED BY <1>1, <1>2, <1>3, <1>4, <1>5, <1>6

\* After its cache command a request goes on with the rest.
LEMMA PutAdvances ==
  ASSUME NEW q, NEW m, NEW v, NEW u, ReqInv(q, m, v, u), IsRequest(q), q.todo # <<>>, Head(q.todo) = "putUser"
  PROVE  /\ ReqInv(GoTo(q, Tail(q.todo), q.seen), m, v, u)
         /\ q.todo \in PuttingAuth => Tail(q.todo) \in SettingAuth
         /\ q.todo \notin PuttingAuth => q.todo \notin AuthFixes
<1> DEFINE t == Tail(q.todo) g == GoTo(q, t, q.seen)
<1>1. /\ q.todo \in PuttingAuth \cup Activating \cup
           {<<"putUser">>, <<"putUser", "issue">>, <<"putUser", "link", "issue">>}
      /\ q.seen \in AuthViews /\ Honest(q.seen, m, v)
  BY CacheHeads
<1>2. /\ q.todo \in Entering \cup Linking => v
      /\ q.todo \in Activating \cup Linking => q.op \in Providers
  BY <1>1, Parts DEF ReqInv, Idle, PuttingAuth, Activating, Entering, Linking, Repairs, Mails, Strangers, Answers
<1>3. IsRequest(g) /\ g.todo = t /\ (t # <<>> => g.op = q.op /\ g.arg = q.arg /\ g.seen = q.seen)
  BY DEF IsRequest, GoTo, Idle
<1>4. t = <<>> => g = Idle
  BY DEF GoTo
<1> HIDE DEF t, g
<1>5. CASE q.todo \in PuttingAuth
  <2>0. /\ q.todo = <<"putUser", "setAuth">> => t = <<"setAuth">>
        /\ q.todo = <<"putUser", "setAuth", "update">> => t = <<"setAuth", "update">>
        /\ q.todo = <<"putUser", "setAuth", "issue">> => t = <<"setAuth", "issue">>
        /\ q.todo = <<"putUser", "setAuth", "link", "issue">> => t = <<"setAuth", "link", "issue">>
    BY Rests, Zenon DEF t
  <2>1. t \in SettingAuth /\ t # <<>>
    BY <1>5, <2>0 DEF PuttingAuth, SettingAuth
  <2>2. t \in Viewing
    BY <2>1 DEF SettingAuth, Viewing, Fillings, Entering, Linking
  <2>3. t \in Entering \cup Linking => q.todo \in Entering \cup Linking
    <3>1. CASE q.todo \in {<<"putUser", "setAuth">>, <<"putUser", "setAuth", "update">>}
      <4>1. t \in {<<"setAuth">>, <<"setAuth", "update">>}
        BY <3>1, Rests DEF t
      <4> QED BY <4>1 DEF Entering, Linking
    <3>2. CASE q.todo \in {<<"putUser", "setAuth", "issue">>, <<"putUser", "setAuth", "link", "issue">>}
      BY <3>2 DEF Entering, Linking
    <3> QED BY <1>5, <3>1, <3>2 DEF PuttingAuth
  <2>4. t \in Activating \cup Linking => q.todo \in Linking
    BY <1>5, <2>0 DEF PuttingAuth, Activating, Linking
  <2> QED BY <1>1, <1>2, <1>3, <1>5, <2>1, <2>2, <2>3, <2>4 DEF ReqInv, g, t
<1>6. CASE q.todo \notin PuttingAuth
  <2>1. q.todo \notin AuthFixes
    BY <1>1, <1>6 DEF AuthFixes, UserFixes, Deleting, SettingAuth, PuttingAuth, Activating
  <2>2. CASE q.todo = <<"putUser">>
    BY <1>4, <1>6, <2>1, <2>2, Parts DEF ReqInv, g, t
  <2>3. CASE q.todo = <<"putUser", "issue">>
    <3>1. t = <<"issue">> /\ t # <<>> /\ v
      BY <1>2, <2>3, Rests DEF t, Entering
    <3> QED BY <1>3, <1>6, <2>1, <3>1 DEF ReqInv, g, t
  <2>4. CASE q.todo = <<"putUser", "link", "issue">>
    <3>1. t = <<"link", "issue">> /\ t # <<>> /\ v /\ q.op \in Providers
      BY <1>2, <2>4, Rests DEF t, Linking
    <3> QED BY <1>3, <1>6, <2>1, <3>1 DEF ReqInv, g, t
  <2>5. CASE q.todo \in Activating
    <3>1. t \in {<<"activate", "link", "issue">>, <<"activate", "issue">>} /\ q.op \in Providers
      BY <1>2, <2>5, Rests DEF t, Activating
    <3>2. t \in Answers /\ t # <<>>
      BY <3>1 DEF Answers
    <3> QED BY <3>2, <1>1, <1>3, <1>6, <2>1, <3>1 DEF ReqInv, Honest, g, t
  <2> QED BY <1>1, <1>6, <2>2, <2>3, <2>4, <2>5
<1> QED BY <1>5, <1>6

\* The same after the credentials are cached, ...
LEMMA SetAdvances ==
  ASSUME NEW q, NEW m, NEW v, NEW u, ReqInv(q, m, v, u), IsRequest(q), q.todo # <<>>, Head(q.todo) = "setAuth"
  PROVE  ReqInv(GoTo(q, Tail(q.todo), q.seen), m, v, u)
<1> DEFINE t == Tail(q.todo) g == GoTo(q, t, q.seen)
<1>1. q.todo \in SettingAuth /\ q.seen \in AuthViews /\ Honest(q.seen, m, v)
  BY CacheHeads
<1>2. /\ q.todo \in Entering \cup Linking => v
      /\ q.todo \in Linking => q.op \in Providers
  BY <1>1, Parts DEF ReqInv, Idle, SettingAuth, Entering, Linking, Repairs, Mails, Strangers, Answers
<1>3. IsRequest(g) /\ g.todo = t /\ (t # <<>> => g.op = q.op /\ g.arg = q.arg /\ g.seen = q.seen)
  BY DEF IsRequest, GoTo, Idle
<1>4. t = <<>> => g = Idle
  BY DEF GoTo
<1> HIDE DEF t, g
<1>5. CASE q.todo = <<"setAuth">>
  BY <1>4, <1>5, Parts DEF ReqInv, g, t
<1>6. CASE q.todo = <<"setAuth", "update">>
  <2>1. t = <<"update">> /\ t # <<>> /\ m
    BY <1>1, <1>6, Rests DEF t, Honest
  <2> QED BY <1>3, <2>1 DEF ReqInv, Repairs, g, t
<1>7. CASE q.todo = <<"setAuth", "issue">>
  <2>1. t = <<"issue">> /\ t # <<>> /\ v
    BY <1>2, <1>7, Rests DEF t, Entering
  <2> QED BY <1>3, <2>1 DEF ReqInv, g, t
<1>8. CASE q.todo = <<"setAuth", "link", "issue">>
  <2>1. t = <<"link", "issue">> /\ t # <<>> /\ v /\ q.op \in Providers
    BY <1>2, <1>8, Rests DEF t, Linking
  <2> QED BY <1>3, <2>1 DEF ReqInv, g, t
<1> QED BY <1>1, <1>5, <1>6, <1>7, <1>8 DEF SettingAuth

\* ... and after a deletion or a flush.
LEMMA DeleteAdvances ==
  ASSUME NEW q, NEW m, NEW v, NEW u, ReqInv(q, m, v, u), IsRequest(q), q.todo # <<>>,
         Head(q.todo) \in {"delete", "flush"}
  PROVE  ReqInv(GoTo(q, Tail(q.todo), q.seen), m, v, u) /\ q.todo \in AuthFixes
<1> DEFINE t == Tail(q.todo) g == GoTo(q, t, q.seen)
<1>1. q.todo \in Deleting \/ q.todo = <<"flush">>
  BY CacheHeads
<1>2. /\ q.todo \in Entering \cup Linking => v /\ q.seen \in AuthViews /\ Honest(q.seen, m, v)
      /\ q.todo \in Linking => q.op \in Providers
  BY <1>1, Parts DEF ReqInv, Idle, UserFixes, Deleting, PuttingAuth, Entering, Linking, Repairs, Mails, Strangers, Answers
<1>3. IsRequest(g) /\ g.todo = t /\ (t # <<>> => g.op = q.op /\ g.arg = q.arg /\ g.seen = q.seen)
  BY DEF IsRequest, GoTo, Idle
<1>4. t = <<>> => g = Idle
  BY DEF GoTo
<1> HIDE DEF t, g
<1>5. CASE q.todo \in {<<"delete">>, <<"flush">>}
  BY <1>4, <1>5, Parts DEF ReqInv, g, t, AuthFixes, UserFixes, Deleting, PuttingAuth
<1>6. CASE q.todo = <<"delete", "putUser", "issue">>
  <2>0. v /\ q.seen \in AuthViews /\ Honest(q.seen, m, v)
    BY <1>2, <1>6 DEF Entering
  <2>1. t = <<"putUser", "issue">>
    BY <1>6, Rests DEF t
  <2>2. t \in Viewing /\ t \notin Activating \cup Linking
    BY <2>1 DEF Viewing, Entering, Activating, Linking
  <2>3. t # <<>>
    BY <2>1
  <2> QED BY <1>3, <1>6, <2>0, <2>2, <2>3 DEF ReqInv, g, t, AuthFixes, UserFixes, Deleting, PuttingAuth
<1>7. CASE q.todo = <<"delete", "putUser", "link", "issue">>
  <2>0. v /\ q.seen \in AuthViews /\ Honest(q.seen, m, v) /\ q.op \in Providers
    BY <1>2, <1>7 DEF Linking
  <2>1. t = <<"putUser", "link", "issue">>
    BY <1>7, Rests DEF t
  <2>2. t \in Viewing
    BY <2>1 DEF Viewing, Linking
  <2>3. t # <<>>
    BY <2>1
  <2> QED BY <1>3, <1>7, <2>0, <2>2, <2>3 DEF ReqInv, g, t, AuthFixes, UserFixes, Deleting, PuttingAuth
<1>8. CASE q.todo = <<"delete", "putUser">>
  <2>0. q.seen \in AuthViews /\ Honest(q.seen, m, v)
    BY <1>8, Rests, CacheHeads
  <2>1. t = <<"putUser">>
    BY <1>8, Rests DEF t
  <2>2. t \in Viewing /\ t \notin Activating \cup Linking \cup Entering
    BY <2>1 DEF Viewing, Fillings, Entering, Activating, Linking
  <2>3. t # <<>>
    BY <2>1
  <2> QED BY <1>3, <1>8, <2>0, <2>2, <2>3 DEF ReqInv, g, t, AuthFixes, Deleting
<1> QED BY <1>1, <1>5, <1>6, <1>7, <1>8 DEF UserFixes, Deleting, PuttingAuth

(***************************************************************************)
(* A request takes its turn.                                               *)
(***************************************************************************)
\* Request r becomes q.
Turn(r, q) ==
  /\ req' = [req EXCEPT ![r] = q] /\ IsRequest(q)
  /\ ReqInv(q, acct'.made, acct'.verified, eu')

\* An account stays made and verified, an end user registered.
Grows ==
  /\ acct.made => acct'.made
  /\ acct.verified => acct'.verified
  /\ eu # None => eu' = eu

\* The others stay as they are.
LEMMA TurnOthers ==
  ASSUME RequestsInv, NEW r \in Requests, NEW q, Turn(r, q)
  PROVE  /\ req'[r] = q
         /\ \A x \in Requests : x # r => req'[x] = req[x]
         /\ req' = [x \in Requests |-> req'[x]]
BY DEF RequestsInv, Turn

\* All requests are in order after a turn.
LEMMA TurnRequests ==
  ASSUME RequestsInv, NEW r \in Requests, NEW q, Turn(r, q), Grows
  PROVE  RequestsInv'
<1>1. ASSUME NEW x \in Requests PROVE IsRequest(req'[x]) /\ ReqInv(req'[x], acct'.made, acct'.verified, eu')
  <2>1. CASE x = r
    BY <2>1, TurnOthers DEF Turn
  <2>2. CASE x # r
    <3>1. req'[x] = req[x] /\ IsRequest(req[x]) /\ ReqInv(req[x], acct.made, acct.verified, eu)
      BY <2>2, TurnOthers DEF RequestsInv
    <3>2. ReqInv(req[x], acct'.made, acct'.verified, eu')
      BY <3>1, ReqStays DEF Grows
    <3> QED BY <3>1, <3>2
  <2> QED BY <2>1, <2>2
<1>2. req' = [x \in Requests |-> req'[x]]
  BY TurnOthers
<1> QED BY <1>1, <1>2 DEF RequestsInv

\* A turn that is not about to insert a token does not count against the limit.
LEMMA TurnRate ==
  ASSUME RequestsInv, RateInv, NEW r \in Requests, NEW q, Turn(r, q), q.todo # <<"insert">>,
         \A p \in Purposes : Created(p)' = Created(p)
  PROVE  RateInv'
<1> SUFFICES ASSUME NEW p \in Purposes
             PROVE Cardinality(Created(p)') + Cardinality(Inserting(p)')
                     <= RateLimit + Cardinality(Requests) - 1
  BY DEF RateInv
<1>1. Inserting(p)' \subseteq Inserting(p)
  BY TurnOthers DEF Inserting
<1>2. IsFiniteSet(Inserting(p)) /\ IsFiniteSet(Requests) /\ IsFiniteSet(Created(p))
  BY FS_Subset, BoundsAssumption DEF Inserting, Created
<1>3. /\ Cardinality(Inserting(p)') <= Cardinality(Inserting(p)) /\ Cardinality(Inserting(p)') \in Nat
      /\ Cardinality(Inserting(p)) \in Nat /\ Cardinality(Created(p)) \in Nat /\ Cardinality(Requests) \in Nat
  BY <1>1, <1>2, FS_Subset, FS_CardinalityType
<1>4. Cardinality(Created(p)) + Cardinality(Inserting(p)) <= RateLimit + Cardinality(Requests) - 1
  BY DEF RateInv
<1> QED BY <1>3, <1>4, BoundsAssumption

\* A turn of a request that holds no row leaves the lock where it is.
LEMMA TurnLock ==
  ASSUME RequestsInv, LockInv, NEW r \in Requests, NEW q, Turn(r, q), q.todo # <<"rotate">>,
         req[r].todo # <<"rotate">>, locker' = locker,
         locker # None => refresh'[req[locker].arg] = refresh[req[locker].arg]
  PROVE  LockInv'
<1>1. ASSUME NEW x \in Requests, req'[x].todo = <<"rotate">>
      PROVE locker' = x /\ refresh'[req'[x].arg] = [of |-> "user", st |-> "live"]
  <2>1. x # r /\ req'[x] = req[x]
    BY <1>1, TurnOthers
  <2>2. locker = x /\ refresh[req[x].arg] = [of |-> "user", st |-> "live"]
    BY <1>1, <2>1 DEF LockInv
  <2> QED BY <2>1, <2>2, NamesAssumption
<1>2. locker' # None => req'[locker'].todo = <<"rotate">>
  <2> SUFFICES ASSUME locker # None PROVE req'[locker].todo = <<"rotate">>
    OBVIOUS
  <2>1. locker \in Requests /\ req[locker].todo = <<"rotate">>
    BY DEF LockInv
  <2> QED BY <2>1, TurnOthers
<1> QED BY <1>1, <1>2 DEF LockInv

\* What will still be repaired stays so unless the request that was to do it is done.
LEMMA TurnFixes ==
  ASSUME RequestsInv, NEW r \in Requests, NEW q, Turn(r, q), NEW fixes, req[r].todo \notin fixes \/ q.todo \in fixes,
         \E x \in Requests : req[x].todo \in fixes
  PROVE  \E x \in Requests : req'[x].todo \in fixes
BY TurnOthers

\* A turn that leaves the rows, the tokens and the end users alone.
LEMMA TurnOnly ==
  ASSUME SessionInv, NEW r \in Requests, NEW q, Turn(r, q), UNCHANGED <<db, endUser, former, uses>>,
         q.todo \notin {<<"insert">>, <<"rotate">>}, req[r].todo # <<"rotate">>,
         faults' \in 0..MaxFaults, calls' \in 0..MaxCalls, CopiesInv', CacheInv'
  PROVE  SessionInv'
<1>1. RequestsInv'
  BY TurnRequests DEF SessionInv, Grows, db, endUser
<1>2. RateInv'
  <2>1. \A p \in Purposes : Created(p)' = Created(p)
    BY DEF db, Created
  <2> QED BY <2>1, TurnRate DEF SessionInv
<1>3. LockInv'
  BY TurnLock DEF SessionInv, db
<1>4. AcctInv' /\ TokensInv' /\ SessionsInv' /\ EndUserInv'
  BY DEF SessionInv, AcctInv, TokensInv, SessionsInv, EndUserInv, UserTokens, db, endUser
<1> QED BY <1>1, <1>2, <1>3, <1>4 DEF SessionInv

\* ... and the cache, too.
LEMMA TurnQuiet ==
  ASSUME SessionInv, NEW r \in Requests, NEW q, Turn(r, q), UNCHANGED <<db, cache, endUser, ghosts>>,
         q.todo \notin {<<"insert">>, <<"rotate">>}, req[r].todo # <<"rotate">>,
         faults' \in 0..MaxFaults, calls' \in 0..MaxCalls,
         \/ req[r].todo \notin AuthFixes
         \/ req[r].todo \notin UserFixes /\ q.todo \in AuthFixes
  PROVE  SessionInv'
<1>1. CopiesInv'
  BY DEF SessionInv, CopiesInv, db, cache
<1>2. CacheInv'
  <2>0. req[r].todo \notin UserFixes /\ (req[r].todo \notin AuthFixes \/ q.todo \in AuthFixes)
    BY DEF AuthFixes, UserFixes
  <2>1. WillFix(AuthFixes) => WillFix(AuthFixes)'
    BY <2>0, TurnFixes DEF WillFix, SessionInv
  <2>2. WillFix(UserFixes) => WillFix(UserFixes)'
    BY <2>0, TurnFixes DEF WillFix, SessionInv
  <2>3. /\ apart' = apart /\ cUser' = cUser /\ cAuth' = cAuth /\ acct' = acct
        /\ View' = View /\ AuthView' = AuthView /\ (GetUser <=> GetUser')
    BY DEF ghosts, cache, db, View, AuthView, GetUser
  <2> QED BY <2>1, <2>2, <2>3 DEF SessionInv, CacheInv
<1>3. UNCHANGED <<db, endUser, former, uses>>
  BY DEF ghosts
<1> QED BY <1>1, <1>2, <1>3, TurnOnly

(***************************************************************************)
(* Requests that begin.                                                    *)
(***************************************************************************)
StartOf(op, todo, seen, arg) ==
  IF todo = <<>> THEN Idle ELSE [op |-> op, todo |-> todo, seen |-> seen, arg |-> arg]

\* The fields of a request that begins.
LEMMA StartFields ==
  ASSUME NEW op, NEW todo, NEW seen, NEW arg
  PROVE  LET q == StartOf(op, todo, seen, arg)
         IN  /\ IsRequest(q) /\ q.todo = todo
             /\ todo = <<>> => q = Idle
             /\ todo # <<>> => q.op = op /\ q.seen = seen /\ q.arg = arg
BY DEF IsRequest, StartOf, Idle

\* A request begins only where none is at work.
LEMMA StartTurns ==
  ASSUME SessionInv, NEW r \in Requests, NEW op, NEW todo, NEW seen, NEW arg, Start(r, op, todo, seen, arg),
         ReqInv(StartOf(op, todo, seen, arg), acct'.made, acct'.verified, eu')
  PROVE  /\ Turn(r, StartOf(op, todo, seen, arg)) /\ StartOf(op, todo, seen, arg).todo = todo
         /\ req[r].todo = <<>> /\ calls' \in 0..MaxCalls
<1>1. req[r].todo = <<>> /\ req' = [req EXCEPT ![r] = StartOf(op, todo, seen, arg)]
  BY DEF Start, StartOf, Idle
<1>2. calls' \in 0..MaxCalls
  BY BoundsAssumption DEF Start, Call, SessionInv, AcctInv
<1> QED BY <1>1, <1>2, StartFields DEF Turn

\* An empty list is none of the lists that matter.
LEMMA NothingToDo ==
  /\ <<>> \notin {<<"insert">>, <<"rotate">>} /\ <<>> # <<"rotate">> /\ <<>> \notin AuthFixes
  /\ <<>> \notin UserFixes
BY DEF AuthFixes, UserFixes, Deleting, SettingAuth, PuttingAuth

\* A request that begins and writes nothing itself.
LEMMA StartsQuietly ==
  ASSUME SessionInv, NEW r \in Requests, NEW op, NEW todo, NEW seen, NEW arg, Start(r, op, todo, seen, arg),
         UNCHANGED <<db, cache, endUser, ghosts, faults>>, todo \notin {<<"insert">>, <<"rotate">>},
         ReqInv(StartOf(op, todo, seen, arg), acct.made, acct.verified, eu)
  PROVE  SessionInv'
<1> DEFINE q == StartOf(op, todo, seen, arg)
<1>1. acct' = acct /\ eu' = eu
  BY DEF db, endUser
<1>2. ReqInv(q, acct'.made, acct'.verified, eu')
  BY <1>1
<1>3. Turn(r, q) /\ q.todo = todo /\ req[r].todo = <<>> /\ calls' \in 0..MaxCalls
  BY <1>2, StartTurns
<1>4. faults' \in 0..MaxFaults /\ faults' = faults
  BY DEF SessionInv, AcctInv
<1>5. UNCHANGED <<db, cache, endUser, ghosts>>
  OBVIOUS
<1> HIDE DEF q
<1> QED BY <1>3, <1>4, <1>5, NothingToDo, TurnQuiet

\* The view a request takes of the row.
LEMMA ViewIsHonest ==
  ASSUME AcctInv, GetUser
  PROVE  AuthView \in AuthViews /\ Honest(AuthView, acct.made, acct.verified)
BY DEF AcctInv, Accounts, GetUser, AuthView, AuthViews, Honest

\* requireAuth reads the row and fills the cache.
LEMMA AuthenticateKeeps ==
  ASSUME SessionInv, NEW r \in Requests, Authenticate(r)
  PROVE  SessionInv'
<1>1. AuthView \in AuthViews /\ Honest(AuthView, acct.made, acct.verified)
  BY ViewIsHonest DEF SessionInv, Authenticate
<1>2. UserFill(FALSE) = <<"putUser">>
  BY DEF Authenticate, UserFill
<1>3. <<"putUser">> # <<>> /\ <<"putUser">> \notin {<<"insert">>, <<"rotate">>} /\ <<"putUser">> \in Viewing
      /\ <<"putUser">> \notin Entering \cup Linking \cup Activating
  BY DEF Viewing, Fillings, Entering, Linking, Activating
<1>4. ReqInv(StartOf("local", <<"putUser">>, AuthView, None), acct.made, acct.verified, eu)
  BY <1>1, <1>3, StartFields DEF ReqInv
<1> QED BY <1>2, <1>3, <1>4, StartsQuietly DEF Authenticate

\* So does the rebuild of the user-cache command, ...
LEMMA RebuildKeeps ==
  ASSUME SessionInv, NEW r \in Requests, RebuildCache(r)
  PROVE  SessionInv'
<1>1. AuthView \in AuthViews /\ Honest(AuthView, acct.made, acct.verified)
  BY ViewIsHonest DEF SessionInv, RebuildCache
<1>3. PutAuth # <<>> /\ PutAuth \notin {<<"insert">>, <<"rotate">>} /\ PutAuth \in Viewing
      /\ PutAuth \notin Entering \cup Linking \cup Activating
  BY DEF PutAuth, Viewing, Fillings, Entering, Linking, Activating
<1>4. ReqInv(StartOf("local", PutAuth, AuthView, None), acct.made, acct.verified, eu)
  BY <1>1, <1>3, StartFields DEF ReqInv
<1> QED BY <1>3, <1>4, StartsQuietly DEF RebuildCache

\* ... and its delete removes what is cached.
LEMMA DropKeeps ==
  ASSUME SessionInv, NEW r \in Requests, DeleteFromCache(r)
  PROVE  SessionInv'
<1>1. acct.made
  BY DEF SessionInv, CopiesInv, DeleteFromCache, Honest
<1>3. <<"delete">> # <<>> /\ <<"delete">> \notin {<<"insert">>, <<"rotate">>} /\ <<"delete">> \in Repairs
  BY DEF Repairs
<1>4. ReqInv(StartOf("local", <<"delete">>, None, None), acct.made, acct.verified, eu)
  <2> DEFINE q == StartOf("local", <<"delete">>, None, None)
  <2>1. q.todo = <<"delete">>
    BY <1>3, StartFields
  <2> HIDE DEF q
  <2>2. ReqInv(q, acct.made, acct.verified, eu)
    BY <1>1, <1>3, <2>1 DEF ReqInv
  <2> QED BY <2>2 DEF q
<1> QED BY <1>3, <1>4, StartsQuietly DEF DeleteFromCache

\* The mails: a verification, a login link or a reset asked for.
LEMMA MailKeeps ==
  ASSUME SessionInv, NEW r \in Requests, NEW p \in Purposes, acct.made,
         Start(r, "local", <<"count", "insert">>, None, [purpose |-> p, old |-> {}]),
         UNCHANGED <<db, cache, endUser, ghosts, faults>>
  PROVE  SessionInv'
<1> DEFINE arg == [purpose |-> p, old |-> {}] todo == <<"count", "insert">>
<1>1. todo # <<>> /\ todo \notin {<<"insert">>, <<"rotate">>} /\ todo \in Mails
  BY DEF Mails
<1>2. arg \in [purpose : Purposes, old : SUBSET AuthTokens]
  OBVIOUS
<1> HIDE DEF arg, todo
<1>3. ReqInv(StartOf("local", todo, None, arg), acct.made, acct.verified, eu)
  <2> DEFINE q == StartOf("local", todo, None, arg)
  <2>1. q.todo = todo /\ q.arg = arg
    BY <1>1, StartFields
  <2> HIDE DEF q
  <2>2. ReqInv(q, acct.made, acct.verified, eu)
    BY <1>1, <1>2, <2>1 DEF ReqInv
  <2> QED BY <2>2 DEF q
<1>4. Start(r, "local", todo, None, arg)
  BY DEF arg, todo
<1> QED BY <1>1, <1>3, <1>4, StartsQuietly

\* The sign-in link, the verification sent again and the forgotten password.
LEMMA IssueKeeps ==
  ASSUME SessionInv, NEW r \in Requests, NEW p \in Purposes, IssueAuthTokenForEmail(r, p)
  PROVE  SessionInv'
BY MailKeeps DEF IssueAuthTokenForEmail, MayBeIssued, GetUser

\* Signing up again once the link has run out.
LEMMA ResumeKeeps ==
  ASSUME SessionInv, NEW r \in Requests, ResumeExpiredSignup(r)
  PROVE  SessionInv'
BY MailKeeps DEF ResumeExpiredSignup, GetUser, Purposes

\* Filling the cache from the row, and what may follow.
LEMMA FillingLists ==
  /\ <<"putUser", "setAuth", "update">> \in Viewing \ (Entering \cup Linking \cup Activating)
  /\ <<"putUser", "setAuth">> \in Viewing \ (Entering \cup Linking \cup Activating)
  /\ <<"putUser", "setAuth", "issue">> \in Viewing \ (Linking \cup Activating)
  /\ <<"delete", "putUser">> \in Viewing \ (Entering \cup Linking \cup Activating)
  /\ <<"update">> \in Repairs
  /\ \A s \in Viewing \cup Repairs : s # <<>> /\ s \notin {<<"insert">>, <<"rotate">>}
BY DEF Viewing, Fillings, Entering, Linking, Activating, Repairs

\* A request that begins with a view.
LEMMA StartsViewing ==
  ASSUME NEW op, NEW todo \in Viewing, NEW seen \in AuthViews, NEW arg, NEW m, NEW v, NEW u, Honest(seen, m, v),
         todo \in Entering \cup Linking => v, todo \notin Activating \cup Linking
  PROVE  ReqInv(StartOf(op, todo, seen, arg), m, v, u)
<1> DEFINE q == StartOf(op, todo, seen, arg)
<1>1. q.todo = todo /\ q.seen = seen
  BY FillingLists, StartFields
<1> HIDE DEF q
<1>2. ReqInv(q, m, v, u)
  BY <1>1 DEF ReqInv
<1> QED BY <1>2 DEF q

\* Changing the password begins with a check of the current one.
LEMMA ChangeKeeps ==
  ASSUME SessionInv, NEW r \in Requests, NEW pw, ChangePassword(r, pw)
  PROVE  SessionInv'
<1> DEFINE todo == AuthFill(FALSE) \o <<"update">>
<1>1. ReqInv(StartOf("local", todo, AuthView, None), acct.made, acct.verified, eu)
      /\ todo \notin {<<"insert">>, <<"rotate">>}
  <2>1. CASE CachedAuth(FALSE)
    <3>1. todo = <<"update">>
      BY <2>1, Joins DEF AuthFill
    <3>2. acct.made
      BY <2>1 DEF CachedAuth, SessionInv, CopiesInv, Honest
    <3> DEFINE q == StartOf("local", todo, AuthView, None)
    <3> HIDE DEF todo
    <3>3. q.todo = todo
      BY StartFields
    <3> HIDE DEF q
    <3>4. ReqInv(q, acct.made, acct.verified, eu)
      BY <3>1, <3>2, <3>3, FillingLists DEF ReqInv
    <3> QED BY <3>1, <3>4, FillingLists DEF q
  <2>2. CASE ~CachedAuth(FALSE)
    <3>1. todo = <<"putUser", "setAuth", "update">>
      BY <2>2, Joins DEF AuthFill, PutAuth
    <3>2. AuthView \in AuthViews /\ Honest(AuthView, acct.made, acct.verified)
      BY <2>2, ViewIsHonest DEF SessionInv, ChangePassword, Known
    <3> QED BY <3>1, <3>2, FillingLists, StartsViewing
  <2> QED BY <2>1, <2>2
<1>2. Start(r, "local", todo, AuthView, None) /\ UNCHANGED <<db, cache, endUser, ghosts, faults>>
  BY DEF ChangePassword
<1> HIDE DEF todo
<1> QED BY <1>1, <1>2, StartsQuietly

\* Only who is verified gets past the password.
LEMMA LoginKeeps ==
  ASSUME SessionInv, NEW r \in Requests, NEW pw, Login(r, pw)
  PROVE  SessionInv'
<1> DEFINE ok == CheckPassword(AuthSeen(TRUE), pw)
           todo == AuthFill(TRUE) \o (IF ok THEN <<"issue">> ELSE <<>>)
<1>1. ReqInv(StartOf("local", todo, AuthView, None), acct.made, acct.verified, eu)
      /\ todo \notin {<<"insert">>, <<"rotate">>}
  <2>1. CASE CachedAuth(TRUE)
    <3>1. AuthFill(TRUE) = <<>> /\ AuthSeen(TRUE) = cAuth
      BY <2>1 DEF AuthFill, AuthSeen
    <3> DEFINE q == StartOf("local", todo, AuthView, None)
    <3>2. CASE ok
      <4>0. todo = <<>> \o <<"issue">>
        BY <3>1, <3>2
      <4> HIDE DEF todo
      <4>1. todo = <<"issue">> /\ todo # <<>>
        BY <4>0, Joins
      <4>2. acct.verified
        BY <2>1, <3>1, <3>2 DEF CachedAuth, CheckPassword, SessionInv, CopiesInv, Honest
      <4>3. q.todo = todo
        BY StartFields
      <4> HIDE DEF q
      <4>4. ReqInv(q, acct.made, acct.verified, eu)
        BY <4>1, <4>2, <4>3 DEF ReqInv
      <4> QED BY <4>1, <4>4 DEF q
    <3>3. CASE ~ok
      <4>1. todo = <<>>
        BY <3>1, <3>3, Joins
      <4> HIDE DEF todo
      <4>2. StartOf("local", todo, AuthView, None) = Idle
        BY <4>1 DEF StartOf
      <4>3. todo \notin {<<"insert">>, <<"rotate">>}
        BY <4>1
      <4> QED BY <4>2, <4>3 DEF ReqInv
    <3> QED BY <3>2, <3>3
  <2>2. CASE ~CachedAuth(TRUE)
    <3>1. AuthFill(TRUE) = <<"putUser", "setAuth">> /\ AuthSeen(TRUE) = AuthView
      BY <2>2 DEF AuthFill, AuthSeen, PutAuth
    <3>2. AuthView \in AuthViews /\ Honest(AuthView, acct.made, acct.verified)
      BY <2>2, ViewIsHonest DEF SessionInv, Login, Known
    <3>3. CASE ok
      <4>0. todo = <<"putUser", "setAuth">> \o <<"issue">>
        BY <3>1, <3>3
      <4> HIDE DEF todo
      <4>1. todo = <<"putUser", "setAuth", "issue">>
        BY <4>0, Joins
      <4>2. acct.verified
        BY <3>1, <3>2, <3>3 DEF CheckPassword, Honest
      <4> QED BY <3>2, <4>1, <4>2, FillingLists, StartsViewing
    <3>4. CASE ~ok
      <4>1. todo = <<"putUser", "setAuth">>
        BY <3>1, <3>4, Joins
      <4> QED BY <3>2, <4>1, FillingLists, StartsViewing
    <3> QED BY <3>3, <3>4
  <2> QED BY <2>1, <2>2
<1>2. Start(r, "local", todo, AuthView, None) /\ UNCHANGED <<db, cache, endUser, ghosts, faults>>
  BY DEF Login
<1> HIDE DEF todo, ok
<1> QED BY <1>1, <1>2, StartsQuietly

\* An end user who is not known is about to be created, a known one has its password checked.
LEMMA EndUserLoginKeeps ==
  ASSUME SessionInv, NEW r \in Requests, NEW pw \in 1..MaxPasswords, EndUserLogin(r, pw)
  PROVE  SessionInv'
<1> DEFINE hash == IF euCache # None THEN euCache ELSE eu
           fill == IF euCache # None THEN <<>> ELSE <<"putEnd">>
           todo == IF hash = None THEN <<"create">> ELSE fill \o (IF hash = pw THEN <<"issueEnd">> ELSE <<>>)
           q == StartOf("local", todo, hash, pw)
<1>1. hash # None => eu # None /\ hash = eu
  BY DEF SessionInv, EndUserInv
<1>2. \/ todo = <<"create">>
      \/ hash # None /\ todo \in {<<>>, <<"putEnd">>}
      \/ hash # None /\ hash = pw /\ todo \in {<<"issueEnd">>, <<"putEnd", "issueEnd">>}
  BY Joins
<1>3. Start(r, "local", todo, hash, pw) /\ UNCHANGED <<db, cache, endUser, ghosts, faults>>
  BY DEF EndUserLogin
<1> HIDE DEF hash, fill, todo
<1>4. q.todo = todo /\ (todo = <<>> => q = Idle) /\ (todo # <<>> => q.seen = hash /\ q.arg = pw)
  BY StartFields
<1> HIDE DEF q
<1>5. todo \notin {<<"insert">>, <<"rotate">>}
  BY <1>2
<1>6. ReqInv(q, acct.made, acct.verified, eu)
  <2>1. CASE todo = <<>>
    BY <1>4, <2>1 DEF ReqInv
  <2>2. CASE todo = <<"create">>
    BY <1>4, <2>2 DEF ReqInv
  <2>3. CASE hash # None /\ todo = <<"putEnd">>
    BY <1>1, <1>4, <2>3 DEF ReqInv
  <2>4. CASE hash # None /\ hash = pw /\ todo = <<"issueEnd">>
    BY <1>1, <1>4, <2>4 DEF ReqInv
  <2>5. CASE hash # None /\ hash = pw /\ todo = <<"putEnd", "issueEnd">>
    BY <1>1, <1>4, <2>5 DEF ReqInv
  <2> QED BY <1>2, <2>1, <2>2, <2>3, <2>4, <2>5
<1> QED BY <1>3, <1>5, <1>6, StartsQuietly DEF q

(***************************************************************************)
(* Requests that go on.                                                    *)
(***************************************************************************)
\* Going on is a turn, too.
LEMMA GoTurns ==
  ASSUME SessionInv, NEW r \in Requests, NEW todo, NEW seen, Go(r, todo, seen),
         ReqInv(GoTo(req[r], todo, seen), acct'.made, acct'.verified, eu')
  PROVE  Turn(r, GoTo(req[r], todo, seen)) /\ GoTo(req[r], todo, seen).todo = todo
<1>1. IsRequest(req[r])
  BY DEF SessionInv, RequestsInv
<1>2. req' = [req EXCEPT ![r] = GoTo(req[r], todo, seen)]
  BY DEF Go, GoTo
<1> QED BY <1>1, <1>2, GoFields DEF Turn

\* A request that goes on and writes nothing itself.
LEMMA GoesQuietly ==
  ASSUME SessionInv, NEW r \in Requests, NEW todo, NEW seen, Go(r, todo, seen),
         UNCHANGED <<db, cache, endUser, ghosts, faults, calls>>, todo \notin {<<"insert">>, <<"rotate">>},
         req[r].todo # <<"rotate">>,
         \/ req[r].todo \notin AuthFixes
         \/ req[r].todo \notin UserFixes /\ todo \in AuthFixes,
         ReqInv(GoTo(req[r], todo, seen), acct.made, acct.verified, eu)
  PROVE  SessionInv'
<1> DEFINE q == GoTo(req[r], todo, seen)
<1>1. acct' = acct /\ eu' = eu
  BY DEF db, endUser
<1>2. ReqInv(q, acct'.made, acct'.verified, eu')
  BY <1>1
<1>3. Turn(r, q) /\ q.todo = todo
  BY <1>2, GoTurns
<1>4. faults' \in 0..MaxFaults /\ faults' = faults /\ calls' \in 0..MaxCalls
  BY DEF SessionInv, AcctInv
<1>5. UNCHANGED <<db, cache, endUser, ghosts>>
  OBVIOUS
<1> HIDE DEF q
<1> QED BY <1>3, <1>4, <1>5, TurnQuiet

\* What is known of a request by its next step.
LEMMA RequestAt ==
  ASSUME SessionInv, NEW r \in Requests
  PROVE  IsRequest(req[r]) /\ ReqInv(req[r], acct.made, acct.verified, eu)
BY DEF SessionInv, RequestsInv

\* A request that goes on with a view, or with one list of the others.
LEMMA GoesViewing ==
  ASSUME NEW q0, IsRequest(q0), NEW todo \in Viewing, NEW seen \in AuthViews, NEW m, NEW v, NEW u, Honest(seen, m, v),
         todo \in Entering \cup Linking => v, todo \in Activating \cup Linking => q0.op \in Providers
  PROVE  ReqInv(GoTo(q0, todo, seen), m, v, u)
<1> DEFINE q == GoTo(q0, todo, seen)
<1>1. q.todo = todo /\ q.seen = seen /\ q.op = q0.op
  BY FillingLists, GoFields
<1> HIDE DEF q
<1>2. ReqInv(q, m, v, u)
  BY <1>1 DEF ReqInv
<1> QED BY <1>2 DEF q

\* It goes on without a view, ...
LEMMA GoesAnswering ==
  ASSUME NEW q0, IsRequest(q0), NEW todo, NEW seen, NEW m, NEW v, NEW u, todo # <<>>, q0.op \in Providers,
         \/ todo \in Answers /\ m
         \/ todo \in {<<"issue">>, <<"link", "issue">>} /\ v
         \/ todo \in Strangers
  PROVE  ReqInv(GoTo(q0, todo, seen), m, v, u)
<1> DEFINE q == GoTo(q0, todo, seen)
<1>1. q.todo = todo /\ q.op = q0.op
  BY GoFields
<1> HIDE DEF q
<1>2. ReqInv(q, m, v, u)
  BY <1>1 DEF ReqInv
<1> QED BY <1>2 DEF q

\* ... or ends.
LEMMA GoesNowhere ==
  ASSUME NEW q, NEW seen, NEW m, NEW v, NEW u
  PROVE  ReqInv(GoTo(q, <<>>, seen), m, v, u)
BY DEF GoTo, ReqInv

\* After the change the row is read again, and cached or deleted.
LEMMA RereadKeeps ==
  ASSUME SessionInv, NEW r \in Requests, RereadPassword(r)
  PROVE  SessionInv'
<1>1. req[r].todo = <<"reread">> /\ acct.made /\ IsRequest(req[r])
  BY RequestAt, OtherHeads DEF RereadPassword, Doing
<1>2. req[r].todo # <<"rotate">> /\ req[r].todo \notin UserFixes
  BY <1>1 DEF UserFixes, Deleting, PuttingAuth
<1>3. CASE GetUser
  <2>1. AuthView \in AuthViews /\ Honest(AuthView, acct.made, acct.verified)
    BY <1>3, ViewIsHonest DEF SessionInv
  <2>2. PutAuth \in AuthFixes /\ PutAuth \notin {<<"insert">>, <<"rotate">>} /\ PutAuth \in Viewing
        /\ PutAuth \notin Entering \cup Linking \cup Activating
    BY FillingLists DEF PutAuth, AuthFixes, PuttingAuth
  <2>3. ReqInv(GoTo(req[r], PutAuth, AuthView), acct.made, acct.verified, eu)
    BY <1>1, <2>1, <2>2, GoesViewing
  <2> QED BY <1>2, <1>3, <2>2, <2>3, GoesQuietly DEF RereadPassword
<1>4. CASE ~GetUser
  <2> DEFINE q == GoTo(req[r], <<"delete">>, None)
  <2>1. <<"delete">> \in AuthFixes /\ <<"delete">> \notin {<<"insert">>, <<"rotate">>} /\ <<"delete">> \in Repairs
    BY DEF AuthFixes, UserFixes, Deleting, PuttingAuth, Repairs
  <2>2. q.todo = <<"delete">>
    BY <1>1, GoFields
  <2>3. ReqInv(q, acct.made, acct.verified, eu)
    <3> HIDE DEF q
    <3> QED BY <1>1, <2>1, <2>2 DEF ReqInv
  <2> QED BY <1>2, <1>4, <2>1, <2>3, GoesQuietly DEF RereadPassword
<1> QED BY <1>3, <1>4

\* The provider answers, or does not.
LEMMA ExchangeKeeps ==
  ASSUME SessionInv, NEW r \in Requests, ExchangeAndValidate(r) \/ ExchangeAndIdentify(r)
  PROVE  SessionInv'
<1>1. req[r].todo = <<"exchange", "resolve">> /\ req[r].op \in Providers /\ IsRequest(req[r])
  BY RequestAt, OtherHeads DEF ExchangeAndValidate, ExchangeAndIdentify, Doing
<1>2. req[r].todo # <<"rotate">> /\ req[r].todo \notin AuthFixes
  BY <1>1 DEF AuthFixes, UserFixes, Deleting, SettingAuth, PuttingAuth
<1>3. UNCHANGED <<db, cache, endUser, ghosts, faults, calls>>
  BY DEF ExchangeAndValidate, ExchangeAndIdentify
<1>4. CASE Done(r)
  <2>1. Tail(req[r].todo) = <<"resolve">>
    BY <1>1, Rests
  <2>2. <<"resolve">> # <<>> /\ <<"resolve">> \in Strangers /\ <<"resolve">> \notin {<<"insert">>, <<"rotate">>}
    BY DEF Strangers
  <2>3. ReqInv(GoTo(req[r], <<"resolve">>, req[r].seen), acct.made, acct.verified, eu)
    BY <1>1, <2>2, GoesAnswering
  <2>4. Go(r, <<"resolve">>, req[r].seen)
    BY <1>4, <2>1 DEF Done
  <2> QED BY <1>2, <1>3, <2>2, <2>3, <2>4, GoesQuietly
<1>5. CASE Go(r, <<>>, None)
  BY <1>2, <1>3, <1>5, GoesNowhere, NothingToDo, GoesQuietly
<1> QED BY <1>4, <1>5 DEF ExchangeAndValidate, ExchangeAndIdentify

\* The ways a sign-in through a provider goes on.
LEMMA Ways ==
  ASSUME NEW fill \in {<<>>, <<"putUser">>}, NEW act \in {<<>>, <<"activate">>}, NEW link \in {<<>>, <<"link">>}
  PROVE  LET then == link \o <<"issue">>
         IN  /\ then = IF link = <<>> THEN <<"issue">> ELSE <<"link", "issue">>
             /\ fill = <<>> /\ act = <<>> => (fill \o act) \o then = then /\ fill \o then = then
             /\ fill = <<>> /\ act # <<>> => (fill \o act) \o then \in Answers
             /\ fill # <<>> /\ act = <<>> =>
                  /\ (fill \o act) \o then = fill \o then
                  /\ fill \o then = IF link = <<>> THEN <<"putUser", "issue">> ELSE <<"putUser", "link", "issue">>
             /\ fill # <<>> /\ act # <<>> => (fill \o act) \o then \in Activating
<1> DEFINE then == link \o <<"issue">>
<1>0. fill # <<>> => fill = <<"putUser">>
  OBVIOUS
<1>00. act # <<>> => act = <<"activate">>
  OBVIOUS
<1>1. then = IF link = <<>> THEN <<"issue">> ELSE <<"link", "issue">>
  <2>1. CASE link = <<>>
    BY <2>1, Joins
  <2>2. CASE link = <<"link">>
    <3>1. <<"link">> \o <<"issue">> = <<"link", "issue">> /\ <<"link">> # <<>>
      BY Joins
    <3> QED BY <2>2, <3>1
  <2> QED BY <2>1, <2>2
<1>2. link # <<>> => link = <<"link">>
  OBVIOUS
<1> HIDE DEF then
<1>3. then \in {<<"issue">>, <<"link", "issue">>}
  BY <1>1
<1>4. ASSUME fill = <<>>, act = <<>> PROVE (fill \o act) \o then = then /\ fill \o then = then
  <2>1. fill \o act = <<>>
    BY <1>4, Joins
  <2>2. <<>> \o then = then
    BY <1>3, Joins
  <2> QED BY <1>4, <2>1, <2>2
<1>5. ASSUME fill = <<>>, act # <<>> PROVE (fill \o act) \o then \in Answers
  <2>1. fill \o act = <<"activate">>
    BY <1>00, <1>5, Joins
  <2>2. <<"activate">> \o then \in {<<"activate", "issue">>, <<"activate", "link", "issue">>}
    <3>1. /\ <<"activate">> \o <<"issue">> = <<"activate", "issue">>
          /\ <<"activate">> \o <<"link", "issue">> = <<"activate", "link", "issue">>
      BY Joins
    <3> QED BY <1>3, <3>1
  <2> QED BY <2>1, <2>2 DEF Answers
<1>6. ASSUME fill # <<>>, act = <<>>
      PROVE /\ (fill \o act) \o then = fill \o then
            /\ fill \o then = IF link = <<>> THEN <<"putUser", "issue">> ELSE <<"putUser", "link", "issue">>
  <2>1. fill \o act = fill
    BY <1>0, <1>6, Joins
  <2>2. /\ <<"putUser">> \o <<"issue">> = <<"putUser", "issue">>
        /\ <<"putUser">> \o <<"link", "issue">> = <<"putUser", "link", "issue">>
    BY Joins
  <2> QED BY <1>0, <1>1, <1>6, <2>1, <2>2
<1>7. ASSUME fill # <<>>, act # <<>> PROVE (fill \o act) \o then \in Activating
  <2>1. fill \o act = <<"putUser", "activate">>
    <3>1. <<"putUser">> \o <<"activate">> = <<"putUser", "activate">>
      BY Joins
    <3> QED BY <1>0, <1>00, <1>7, <3>1
  <2>2. <<"putUser", "activate">> \o then \in {<<"putUser", "activate", "issue">>, <<"putUser", "activate", "link", "issue">>}
    <3>1. /\ <<"putUser", "activate">> \o <<"issue">> = <<"putUser", "activate", "issue">>
          /\ <<"putUser", "activate">> \o <<"link", "issue">> = <<"putUser", "activate", "link", "issue">>
      BY Joins
    <3> QED BY <1>3, <3>1
  <2> QED BY <2>1, <2>2 DEF Activating
<1> QED BY <1>1, <1>4, <1>5, <1>6, <1>7 DEF then

\* The user that a provider's answer leads to: who is seen as verified is.
LEMMA FoundIsHonest ==
  ASSUME SessionInv, NEW r \in Requests, Found(r)
  PROVE  LET seen == UserSeen(ByEmail(r))
         IN  /\ Honest(seen, acct.made, acct.verified)
             /\ UserFill(ByEmail(r)) \in {<<>>, <<"putUser">>}
             /\ UserFill(ByEmail(r)) # <<>> =>
                  AuthView \in AuthViews /\ Honest(AuthView, acct.made, acct.verified)
<1>1. CASE CachedUser(ByEmail(r))
  <2>1. UserFill(ByEmail(r)) = <<>> /\ UserSeen(ByEmail(r)) = cUser
    BY <1>1 DEF UserFill, UserSeen
  <2>2. Honest(cUser, acct.made, acct.verified)
    BY <1>1 DEF CachedUser, SessionInv, CopiesInv
  <2> QED BY <2>1, <2>2
<1>2. CASE ~CachedUser(ByEmail(r))
  <2>1. UserFill(ByEmail(r)) = <<"putUser">> /\ UserSeen(ByEmail(r)) = View
    BY <1>2 DEF UserFill, UserSeen
  <2>2. GetUser
    BY <1>2 DEF Found
  <2>3. AuthView \in AuthViews /\ Honest(AuthView, acct.made, acct.verified)
    BY <2>2, ViewIsHonest DEF SessionInv
  <2>4. Honest(View, acct.made, acct.verified)
    BY <2>3 DEF Honest, View, AuthView
  <2> QED BY <2>1, <2>3, <2>4
<1> QED BY <1>1, <1>2

\* Whichever way it goes on, the request is in order: who has not been seen as
\* verified is activated before a session is issued.
LEMMA WayIsInOrder ==
  ASSUME NEW q, IsRequest(q), q.op \in Providers, NEW fill \in {<<>>, <<"putUser">>}, NEW act \in {<<>>, <<"activate">>},
         NEW link \in {<<>>, <<"link">>}, NEW seen, NEW m, NEW v, NEW u, m, act = <<>> => v,
         fill # <<>> => seen \in AuthViews /\ Honest(seen, m, v)
  PROVE  LET way == (fill \o act) \o (link \o <<"issue">>)
         IN  ReqInv(GoTo(q, way, seen), m, v, u) /\ way \notin {<<"insert">>, <<"rotate">>}
<1> DEFINE then == link \o <<"issue">>
           way == (fill \o act) \o then
<1>1. /\ then = IF link = <<>> THEN <<"issue">> ELSE <<"link", "issue">>
      /\ fill = <<>> /\ act = <<>> => way = then
      /\ fill = <<>> /\ act # <<>> => way \in Answers
      /\ fill # <<>> /\ act = <<>> =>
           way = IF link = <<>> THEN <<"putUser", "issue">> ELSE <<"putUser", "link", "issue">>
      /\ fill # <<>> /\ act # <<>> => way \in Activating
  BY Ways
<1> HIDE DEF way, then
<1>2. CASE fill = <<>> /\ act = <<>>
  <2>1. way \in {<<"issue">>, <<"link", "issue">>}
    BY <1>1, <1>2
  <2>2. way # <<>> /\ way \notin {<<"insert">>, <<"rotate">>}
    BY <2>1
  <2>3. ReqInv(GoTo(q, way, seen), m, v, u)
    BY <1>2, <2>1, <2>2, GoesAnswering
  <2> QED BY <2>2, <2>3 DEF way, then
<1>3. CASE fill = <<>> /\ act # <<>>
  <2>1. way \in Answers
    BY <1>1, <1>3
  <2>2. way # <<>> /\ way \notin {<<"insert">>, <<"rotate">>}
    BY <2>1 DEF Answers
  <2>3. ReqInv(GoTo(q, way, seen), m, v, u)
    BY <1>3, <2>1, <2>2, GoesAnswering
  <2> QED BY <2>2, <2>3 DEF way, then
<1>4. CASE fill # <<>> /\ act = <<>>
  <2>1. way \in {<<"putUser", "issue">>, <<"putUser", "link", "issue">>}
    BY <1>1, <1>4
  <2>2. way \in Viewing
    BY <2>1 DEF Viewing, Entering, Linking
  <2>3. ReqInv(GoTo(q, way, seen), m, v, u)
    BY <1>4, <2>2, GoesViewing
  <2>4. way \notin {<<"insert">>, <<"rotate">>}
    BY <2>2, FillingLists
  <2> QED BY <2>3, <2>4 DEF way, then
<1>5. CASE fill # <<>> /\ act # <<>>
  <2>1. way \in Activating
    BY <1>1, <1>5
  <2>2. way \in Viewing /\ way \notin Entering \cup Linking
    BY <2>1 DEF Viewing, Activating, Entering, Linking
  <2>3. ReqInv(GoTo(q, way, seen), m, v, u)
    BY <1>5, <2>2, GoesViewing
  <2>4. way \notin {<<"insert">>, <<"rotate">>}
    BY <2>2, FillingLists
  <2> QED BY <2>3, <2>4 DEF way, then
<1> QED BY <1>2, <1>3, <1>4, <1>5

\* A social login finds its user, signs one up or ends.
LEMMA ResolveSocialKeeps ==
  ASSUME SessionInv, NEW r \in Requests, ResolveSocialUser(r)
  PROVE  SessionInv'
<1>1. req[r].todo \in {<<"resolve">>, <<"again">>} /\ req[r].op \in Providers /\ IsRequest(req[r])
  BY RequestAt, OtherHeads DEF ResolveSocialUser, Doing
<1>2. req[r].todo # <<"rotate">> /\ req[r].todo \notin AuthFixes
  BY <1>1 DEF AuthFixes, UserFixes, Deleting, SettingAuth, PuttingAuth
<1>3. UNCHANGED <<db, cache, endUser, ghosts, faults, calls>>
  BY DEF ResolveSocialUser
<1>4. CASE Found(r)
  <2> DEFINE fill == UserFill(ByEmail(r))
             seen == UserSeen(ByEmail(r))
             act == IF Unverified(seen) THEN <<"activate">> ELSE <<>>
             link == IF ByEmail(r) THEN <<"link">> ELSE <<>>
             way == (fill \o act) \o (link \o <<"issue">>)
  <2>1. /\ Honest(seen, acct.made, acct.verified) /\ fill \in {<<>>, <<"putUser">>}
        /\ fill # <<>> => AuthView \in AuthViews /\ Honest(AuthView, acct.made, acct.verified)
    BY <1>4, FoundIsHonest
  <2>2. act \in {<<>>, <<"activate">>} /\ link \in {<<>>, <<"link">>}
    OBVIOUS
  <2>3. acct.made /\ (act = <<>> => acct.verified)
    BY <2>1 DEF Honest, Unverified
  <2>4. Go(r, way, AuthView)
    BY <1>4 DEF ResolveSocialUser, ThenLink
  <2> HIDE DEF fill, seen, act, link
  <2>5. ReqInv(GoTo(req[r], way, AuthView), acct.made, acct.verified, eu) /\ way \notin {<<"insert">>, <<"rotate">>}
    BY <1>1, <2>1, <2>2, <2>3, WayIsInOrder
  <2> HIDE DEF way
  <2> QED BY <1>2, <1>3, <2>4, <2>5, GoesQuietly
<1>5. CASE ~Found(r)
  <2>1. CASE Go(r, <<"signup">>, None)
    <3>1. <<"signup">> # <<>> /\ <<"signup">> \in Strangers /\ <<"signup">> \notin {<<"insert">>, <<"rotate">>}
      BY DEF Strangers
    <3>2. ReqInv(GoTo(req[r], <<"signup">>, None), acct.made, acct.verified, eu)
      BY <1>1, <3>1, GoesAnswering
    <3> QED BY <1>2, <1>3, <2>1, <3>1, <3>2, GoesQuietly
  <2>2. CASE Go(r, <<>>, None)
    BY <1>2, <1>3, <2>2, GoesNowhere, NothingToDo, GoesQuietly
  <2> QED BY <1>5, <2>1, <2>2 DEF ResolveSocialUser
<1> QED BY <1>4, <1>5

\* An OIDC login finds its user or ends; who is pending gets no further.
LEMMA ResolveOIDCKeeps ==
  ASSUME SessionInv, NEW r \in Requests, ResolveOIDCUser(r)
  PROVE  SessionInv'
<1>1. req[r].todo = <<"resolve">> /\ req[r].op \in Providers /\ IsRequest(req[r])
  BY RequestAt, OtherHeads DEF ResolveOIDCUser, Doing
<1>2. req[r].todo # <<"rotate">> /\ req[r].todo \notin AuthFixes
  BY <1>1 DEF AuthFixes, UserFixes, Deleting, SettingAuth, PuttingAuth
<1>3. UNCHANGED <<db, cache, endUser, ghosts, faults, calls>>
  BY DEF ResolveOIDCUser
<1>4. CASE Found(r)
  <2> DEFINE fill == UserFill(ByEmail(r))
             seen == UserSeen(ByEmail(r))
             link == IF ByEmail(r) THEN <<"link">> ELSE <<>>
  <2>1. /\ Honest(seen, acct.made, acct.verified) /\ fill \in {<<>>, <<"putUser">>}
        /\ fill # <<>> => AuthView \in AuthViews /\ Honest(AuthView, acct.made, acct.verified)
    BY <1>4, FoundIsHonest
  <2>2. link \in {<<>>, <<"link">>}
    OBVIOUS
  <2>3. CASE seen.pending
    <3>1. Go(r, fill \o <<>>, AuthView)
      BY <1>4, <2>3 DEF ResolveOIDCUser
    <3> HIDE DEF fill, seen
    <3>2. CASE fill = <<>>
      <4>1. Go(r, <<>>, AuthView)
        BY <3>1, <3>2, Joins
      <4> QED BY <1>2, <1>3, <4>1, GoesNowhere, NothingToDo, GoesQuietly
    <3>3. CASE fill = <<"putUser">>
      <4>0. <<"putUser">> \o <<>> = <<"putUser">> /\ <<"putUser">> # <<>>
        BY Joins
      <4>1. Go(r, <<"putUser">>, AuthView)
        BY <3>1, <3>3, <4>0
      <4>2. <<"putUser">> \in Viewing /\ <<"putUser">> \notin Entering \cup Linking \cup Activating
        BY DEF Viewing, Fillings, Entering, Linking, Activating
      <4>3. ReqInv(GoTo(req[r], <<"putUser">>, AuthView), acct.made, acct.verified, eu)
        BY <1>1, <2>1, <3>3, <4>0, <4>2, GoesViewing
      <4>4. <<"putUser">> \notin {<<"insert">>, <<"rotate">>}
        OBVIOUS
      <4> QED BY <1>2, <1>3, <4>1, <4>3, <4>4, GoesQuietly
    <3> QED BY <2>1, <3>2, <3>3
  <2>4. CASE ~seen.pending
    <3> DEFINE way == fill \o (link \o <<"issue">>)
    <3>1. acct.made /\ acct.verified
      BY <2>1, <2>4 DEF Honest
    <3>2. Go(r, way, AuthView)
      BY <1>4, <2>4 DEF ResolveOIDCUser, ThenLink
    <3> HIDE DEF fill, seen, link
    <3>3. way = (fill \o <<>>) \o (link \o <<"issue">>)
      <4>1. fill \o <<>> = fill
        BY <2>1, Joins
      <4> QED BY <4>1
    <3>4. ReqInv(GoTo(req[r], way, AuthView), acct.made, acct.verified, eu) /\ way \notin {<<"insert">>, <<"rotate">>}
      <4> HIDE DEF way
      <4> QED BY <1>1, <2>1, <2>2, <3>1, <3>3, WayIsInOrder
    <3> HIDE DEF way
    <3> QED BY <1>2, <1>3, <3>2, <3>4, GoesQuietly
  <2> QED BY <2>3, <2>4
<1>5. CASE ~Found(r)
  <2>1. Go(r, <<>>, None)
    BY <1>5 DEF ResolveOIDCUser
  <2> QED BY <1>2, <1>3, <2>1, GoesNowhere, NothingToDo, GoesQuietly
<1> QED BY <1>4, <1>5

(***************************************************************************)
(* Cache commands.                                                         *)
(***************************************************************************)
CacheCommands == {"putUser", "setAuth", "delete", "flush", "putEnd"}

\* After any cache command the request is in order.
LEMMA Advances ==
  ASSUME NEW q, NEW m, NEW v, NEW u, ReqInv(q, m, v, u), IsRequest(q), q.todo # <<>>, Head(q.todo) \in CacheCommands
  PROVE  /\ ReqInv(GoTo(q, Tail(q.todo), q.seen), m, v, u)
         /\ Tail(q.todo) \notin {<<"insert">>, <<"rotate">>} /\ q.todo # <<"rotate">>
<1> DEFINE t == Tail(q.todo)
<1> HIDE DEF t
<1>0. q.todo # <<"rotate">>
  <2>1. Head(<<"rotate">>) = "rotate"
    BY Parts
  <2> QED BY <2>1 DEF CacheCommands
<1>1. CASE Head(q.todo) = "putUser"
  <2>1. q.todo \in PuttingAuth \cup Activating \cup
          {<<"putUser">>, <<"putUser", "issue">>, <<"putUser", "link", "issue">>}
    BY <1>1, CacheHeads
  <2>2. CASE q.todo \in PuttingAuth
    <3>1. t \in SettingAuth
      BY <1>1, <2>2, PutAdvances DEF t
    <3>2. t \notin {<<"insert">>, <<"rotate">>}
      BY <3>1 DEF SettingAuth
    <3> QED BY <1>0, <1>1, <3>2, PutAdvances DEF t
  <2>3. CASE q.todo \notin PuttingAuth
    <3>1. t \in {<<>>, <<"issue">>, <<"link", "issue">>, <<"activate", "issue">>, <<"activate", "link", "issue">>}
      BY <2>1, <2>3, Rests DEF t, Activating
    <3>2. t \notin {<<"insert">>, <<"rotate">>}
      BY <3>1
    <3> QED BY <1>0, <1>1, <3>2, PutAdvances DEF t
  <2> QED BY <2>2, <2>3
<1>2. CASE Head(q.todo) = "setAuth"
  <2>1. q.todo \in SettingAuth
    BY <1>2, CacheHeads
  <2>2. t \in {<<>>, <<"update">>, <<"issue">>, <<"link", "issue">>}
    BY <2>1, Rests DEF t, SettingAuth
  <2>3. t \notin {<<"insert">>, <<"rotate">>}
    BY <2>2
  <2> QED BY <1>0, <1>2, <2>3, SetAdvances DEF t
<1>3. CASE Head(q.todo) \in {"delete", "flush"}
  <2>1. q.todo \in Deleting \cup {<<"flush">>}
    BY <1>3, CacheHeads
  <2>2. t \in {<<>>, <<"putUser">>, <<"putUser", "issue">>, <<"putUser", "link", "issue">>}
    BY <2>1, Rests DEF t, Deleting
  <2>3. t \notin {<<"insert">>, <<"rotate">>}
    BY <2>2
  <2> QED BY <1>0, <1>3, <2>3, DeleteAdvances DEF t
<1>4. CASE Head(q.todo) = "putEnd"
  <2>1. /\ q.todo \in {<<"putEnd", "issueEnd">>, <<"putEnd">>} /\ u # None /\ q.seen = u
        /\ q.todo = <<"putEnd", "issueEnd">> => q.arg = u
    BY <1>4, OtherHeads
  <2>2. CASE q.todo = <<"putEnd">>
    <3>1. Tail(q.todo) = <<>>
      BY <2>2, Rests
    <3> QED BY <1>0, <3>1, GoesNowhere, NothingToDo
  <2>3. CASE q.todo = <<"putEnd", "issueEnd">>
    <3>1. t = <<"issueEnd">>
      BY <2>3, Rests DEF t
    <3> DEFINE g == GoTo(q, t, q.seen)
    <3>2. t # <<>> /\ t \notin {<<"insert">>, <<"rotate">>}
      BY <3>1
    <3>3. g.todo = t /\ g.arg = q.arg
      BY <3>2, GoFields
    <3> HIDE DEF g
    <3>4. ReqInv(g, m, v, u)
      BY <2>1, <2>3, <3>1, <3>3 DEF ReqInv
    <3> QED BY <1>0, <3>2, <3>4 DEF g, t
  <2> QED BY <2>1, <2>2, <2>3
<1> QED BY <1>1, <1>2, <1>3, <1>4 DEF CacheCommands

\* A cache command is a turn of its request.
LEMMA CommandTurns ==
  ASSUME SessionInv, NEW r \in Requests, req[r].todo # <<>>, Head(req[r].todo) \in CacheCommands, Done(r),
         acct' = acct, eu' = eu
  PROVE  LET q == GoTo(req[r], Tail(req[r].todo), req[r].seen)
         IN  /\ Turn(r, q) /\ q.todo = Tail(req[r].todo) /\ q.todo \notin {<<"insert">>, <<"rotate">>}
             /\ req[r].todo # <<"rotate">>
<1> DEFINE q == GoTo(req[r], Tail(req[r].todo), req[r].seen)
<1>1. ReqInv(q, acct.made, acct.verified, eu) /\ Tail(req[r].todo) \notin {<<"insert">>, <<"rotate">>}
      /\ req[r].todo # <<"rotate">>
  BY RequestAt, Advances
<1>2. ReqInv(q, acct'.made, acct'.verified, eu')
  BY <1>1
<1>3. Turn(r, q) /\ q.todo = Tail(req[r].todo)
  BY <1>2, GoTurns DEF Done
<1> QED BY <1>1, <1>3

\* Caching the user: the view is current, or the copy is set apart.
LEMMA PutUserKeeps ==
  ASSUME SessionInv, NEW r \in Requests, PutPlatformUser(r)
  PROVE  SessionInv'
<1> DEFINE q == GoTo(req[r], Tail(req[r].todo), req[r].seen)
<1>0. req[r].todo # <<>> /\ Head(req[r].todo) = "putUser" /\ Done(r)
  BY DEF PutPlatformUser, Doing
<1>1. UNCHANGED <<db, cAuth, endUser, former, uses, faults, calls>>
  BY DEF PutPlatformUser
<1>2. acct' = acct /\ eu' = eu
  BY <1>1 DEF db, endUser
<1>3. /\ Turn(r, q) /\ q.todo = Tail(req[r].todo) /\ q.todo \notin {<<"insert">>, <<"rotate">>}
      /\ req[r].todo # <<"rotate">>
  BY <1>0, <1>2, CommandTurns DEF CacheCommands
<1>4. /\ req[r].seen \in AuthViews /\ Honest(req[r].seen, acct.made, acct.verified)
      /\ req[r].todo \in PuttingAuth => Tail(req[r].todo) \in SettingAuth
      /\ req[r].todo \notin PuttingAuth => req[r].todo \notin AuthFixes
  BY <1>0, RequestAt, CacheHeads, PutAdvances
<1>5. UserPart(req[r].seen) \in Views /\ Honest(UserPart(req[r].seen), acct.made, acct.verified)
      /\ cUser' = UserPart(req[r].seen)
  BY <1>4 DEF UserPart, Views, AuthViews, Honest, PutPlatformUser
<1>6. CopiesInv'
  BY <1>1, <1>2, <1>5 DEF SessionInv, CopiesInv
<1>7. CacheInv'
  <2>1. req[r].todo \notin AuthFixes \/ q.todo \in AuthFixes
    BY <1>3, <1>4 DEF AuthFixes
  <2>2. WillFix(AuthFixes) => WillFix(AuthFixes)'
    BY <1>3, <2>1, TurnFixes DEF WillFix, SessionInv
  <2>3. AuthView' = AuthView /\ View' = View /\ (GetUser <=> GetUser') /\ UserPart(AuthView) = View
    BY <1>2 DEF AuthView, View, GetUser, UserPart
  <2>4. ASSUME "user" \notin apart' PROVE cUser' # None => (GetUser' /\ cUser' = View')
    BY <1>5, <2>3, <2>4 DEF PutPlatformUser, Outdated
  <2>5. ASSUME "auth" \notin apart', cAuth' # None
        PROVE  (GetUser' /\ cAuth' = AuthView') \/ WillFix(AuthFixes)'
    <3>1. "auth" \notin apart /\ cAuth # None /\ cAuth' = cAuth
      BY <1>1, <2>5 DEF PutPlatformUser
    <3>2. (GetUser /\ cAuth = AuthView) \/ WillFix(AuthFixes)
      BY <3>1 DEF SessionInv, CacheInv
    <3> QED BY <2>2, <2>3, <3>1, <3>2
  <2> QED BY <2>4, <2>5 DEF CacheInv
<1>8. faults' \in 0..MaxFaults /\ calls' \in 0..MaxCalls
  BY <1>1 DEF SessionInv, AcctInv
<1>9. UNCHANGED <<db, endUser, former, uses>>
  BY <1>1
<1> HIDE DEF q
<1> QED BY <1>3, <1>6, <1>7, <1>8, <1>9, TurnOnly

\* Caching the credentials, likewise.
LEMMA PutAuthKeeps ==
  ASSUME SessionInv, NEW r \in Requests, PutPlatformAuth(r)
  PROVE  SessionInv'
<1> DEFINE q == GoTo(req[r], Tail(req[r].todo), req[r].seen)
<1>0. req[r].todo # <<>> /\ Head(req[r].todo) = "setAuth" /\ Done(r)
  BY DEF PutPlatformAuth, Doing
<1>1. UNCHANGED <<db, cUser, cEmail, endUser, former, uses, faults, calls>>
  BY DEF PutPlatformAuth
<1>2. acct' = acct /\ eu' = eu
  BY <1>1 DEF db, endUser
<1>3. /\ Turn(r, q) /\ q.todo = Tail(req[r].todo) /\ q.todo \notin {<<"insert">>, <<"rotate">>}
      /\ req[r].todo # <<"rotate">>
  BY <1>0, <1>2, CommandTurns DEF CacheCommands
<1>4. /\ req[r].seen \in AuthViews /\ Honest(req[r].seen, acct.made, acct.verified)
      /\ req[r].todo \in SettingAuth
  BY <1>0, RequestAt, CacheHeads
<1>6. CopiesInv'
  BY <1>1, <1>2, <1>4 DEF SessionInv, CopiesInv, PutPlatformAuth
<1>7. CacheInv'
  <2>1. req[r].todo \notin UserFixes
    BY <1>4 DEF UserFixes, Deleting, PuttingAuth, SettingAuth
  <2>2. WillFix(UserFixes) => WillFix(UserFixes)'
    BY <1>3, <2>1, TurnFixes DEF WillFix, SessionInv
  <2>3. AuthView' = AuthView /\ View' = View /\ (GetUser <=> GetUser')
    BY <1>2 DEF AuthView, View, GetUser
  <2>4. ASSUME "auth" \notin apart' PROVE cAuth' # None => (GetUser' /\ cAuth' = AuthView')
    BY <2>3, <2>4 DEF PutPlatformAuth
  <2>5. ASSUME "user" \notin apart', cUser' # None
        PROVE  (GetUser' /\ cUser' = View') \/ WillFix(UserFixes)'
    <3>1. "user" \notin apart /\ cUser # None /\ cUser' = cUser
      BY <1>1, <2>5 DEF PutPlatformAuth
    <3>2. (GetUser /\ cUser = View) \/ WillFix(UserFixes)
      BY <3>1 DEF SessionInv, CacheInv
    <3> QED BY <2>2, <2>3, <3>1, <3>2
  <2> QED BY <2>4, <2>5 DEF CacheInv
<1>8. faults' \in 0..MaxFaults /\ calls' \in 0..MaxCalls
  BY <1>1 DEF SessionInv, AcctInv
<1>9. UNCHANGED <<db, endUser, former, uses>>
  BY <1>1
<1> HIDE DEF q
<1> QED BY <1>3, <1>6, <1>7, <1>8, <1>9, TurnOnly

\* Deleting both copies.
LEMMA DeleteKeeps ==
  ASSUME SessionInv, NEW r \in Requests, DeletePlatformUser(r)
  PROVE  SessionInv'
<1> DEFINE q == GoTo(req[r], Tail(req[r].todo), req[r].seen)
<1>0. req[r].todo # <<>> /\ Head(req[r].todo) = "delete" /\ Done(r)
  BY DEF DeletePlatformUser, Doing
<1>1. UNCHANGED <<db, endUser, former, uses, faults, calls>>
  BY DEF DeletePlatformUser
<1>2. acct' = acct /\ eu' = eu
  BY <1>1 DEF db, endUser
<1>3. /\ Turn(r, q) /\ q.todo = Tail(req[r].todo) /\ q.todo \notin {<<"insert">>, <<"rotate">>}
      /\ req[r].todo # <<"rotate">>
  BY <1>0, <1>2, CommandTurns DEF CacheCommands
<1>4. cUser' = None /\ cAuth' = None
  BY DEF DeletePlatformUser
<1>5. CopiesInv' /\ CacheInv'
  BY <1>4 DEF CopiesInv, CacheInv
<1>8. faults' \in 0..MaxFaults /\ calls' \in 0..MaxCalls
  BY <1>1 DEF SessionInv, AcctInv
<1>9. UNCHANGED <<db, endUser, former, uses>>
  BY <1>1
<1> HIDE DEF q
<1> QED BY <1>3, <1>5, <1>8, <1>9, TurnOnly

\* Deleting the credentials only.
LEMMA FlushKeeps ==
  ASSUME SessionInv, NEW r \in Requests, FlushPlatformAuth(r)
  PROVE  SessionInv'
<1> DEFINE q == GoTo(req[r], Tail(req[r].todo), req[r].seen)
<1>0. req[r].todo # <<>> /\ Head(req[r].todo) = "flush" /\ Done(r)
  BY DEF FlushPlatformAuth, Doing
<1>1. UNCHANGED <<db, cUser, endUser, former, uses, faults, calls>>
  BY DEF FlushPlatformAuth
<1>2. acct' = acct /\ eu' = eu /\ ("user" \notin apart' => "user" \notin apart)
  BY <1>1 DEF db, endUser, FlushPlatformAuth
<1>3. /\ Turn(r, q) /\ q.todo = Tail(req[r].todo) /\ q.todo \notin {<<"insert">>, <<"rotate">>}
      /\ req[r].todo # <<"rotate">>
  BY <1>0, <1>2, CommandTurns DEF CacheCommands
<1>4. cUser' = cUser /\ cAuth' = None
  BY <1>1 DEF FlushPlatformAuth
<1>5. CopiesInv'
  BY <1>2, <1>4 DEF SessionInv, CopiesInv
<1>6. CacheInv'
  <2>1. req[r].todo = <<"flush">>
    BY <1>0, RequestAt, CacheHeads
  <2>2. req[r].todo \notin UserFixes
    BY <2>1 DEF UserFixes, Deleting, PuttingAuth
  <2>3. WillFix(UserFixes) => WillFix(UserFixes)'
    BY <1>3, <2>2, TurnFixes DEF WillFix, SessionInv
  <2>4. View' = View /\ (GetUser <=> GetUser')
    BY <1>2 DEF View, GetUser
  <2> QED BY <1>1, <1>2, <1>4, <2>3, <2>4 DEF SessionInv, CacheInv
<1>8. faults' \in 0..MaxFaults /\ calls' \in 0..MaxCalls
  BY <1>1 DEF SessionInv, AcctInv
<1>9. UNCHANGED <<db, endUser, former, uses>>
  BY <1>1
<1> HIDE DEF q
<1> QED BY <1>3, <1>5, <1>6, <1>8, <1>9, TurnOnly

\* The cache agrees with the row as before when neither is written.
LEMMA CacheRests ==
  ASSUME SessionInv, NEW r \in Requests, NEW q, Turn(r, q), req[r].todo \notin AuthFixes,
         acct' = acct, apart' = apart, UNCHANGED cache
  PROVE  CacheInv'
<1>1. req[r].todo \notin UserFixes
  BY DEF AuthFixes, UserFixes
<1>2. WillFix(AuthFixes) => WillFix(AuthFixes)'
  BY TurnFixes DEF WillFix, SessionInv
<1>3. WillFix(UserFixes) => WillFix(UserFixes)'
  BY <1>1, TurnFixes DEF WillFix, SessionInv
<1>4. cUser' = cUser /\ cAuth' = cAuth /\ View' = View /\ AuthView' = AuthView /\ (GetUser <=> GetUser')
  BY DEF cache, View, AuthView, GetUser
<1> QED BY <1>2, <1>3, <1>4 DEF SessionInv, CacheInv

\* A command that fails, and the password of the same call that is left out with it.
LEMMA LostKeeps ==
  ASSUME SessionInv, NEW r \in Requests, CommandLost(r)
  PROVE  SessionInv'
<1> DEFINE rest == Tail(req[r].todo)
           todo == IF rest # <<>> /\ Head(rest) = "setAuth" THEN Tail(rest) ELSE rest
           q1 == GoTo(req[r], rest, req[r].seen)
           q == GoTo(req[r], todo, req[r].seen)
<1>0. req[r].todo # <<>> /\ Head(req[r].todo) \in CacheCommands
  BY DEF CommandLost, Doing, CacheCommands
<1>1. UNCHANGED <<db, endUser, former, uses, calls>>
  BY DEF CommandLost
<1>2. acct' = acct /\ eu' = eu
  BY <1>1 DEF db, endUser
<1>3. /\ ReqInv(q1, acct.made, acct.verified, eu) /\ rest \notin {<<"insert">>, <<"rotate">>}
      /\ req[r].todo # <<"rotate">> /\ IsRequest(req[r])
  BY <1>0, RequestAt, Advances
<1>4. ReqInv(q, acct.made, acct.verified, eu) /\ todo \notin {<<"insert">>, <<"rotate">>}
  <2>1. CASE ~(rest # <<>> /\ Head(rest) = "setAuth")
    <3>1. todo = rest
      BY <2>1
    <3> QED BY <1>3, <3>1
  <2>2. CASE rest # <<>> /\ Head(rest) = "setAuth"
    <3>1. todo = Tail(rest)
      BY <2>2
    <3> HIDE DEF rest, todo
    <3>2. IsRequest(q1) /\ q1.todo = rest /\ q1.seen = req[r].seen /\ q1.op = req[r].op /\ q1.arg = req[r].arg
      BY <1>3, <2>2, GoFields
    <3>3. q = GoTo(q1, todo, q1.seen)
      BY <1>3, <2>2, <3>2 DEF GoTo, IsRequest
    <3>4. ReqInv(GoTo(q1, Tail(q1.todo), q1.seen), acct.made, acct.verified, eu)
          /\ Tail(q1.todo) \notin {<<"insert">>, <<"rotate">>}
      <4> HIDE DEF q1
      <4> QED BY <1>3, <2>2, <3>2, Advances DEF CacheCommands
    <3> HIDE DEF q, q1
    <3> QED BY <3>1, <3>2, <3>3, <3>4
  <2> QED BY <2>1, <2>2
<1>5. Go(r, todo, req[r].seen)
  BY DEF CommandLost
<1> HIDE DEF todo
<1>6. Turn(r, q) /\ q.todo = todo
  BY <1>2, <1>4, <1>5, GoTurns
<1>7. faults' \in 0..MaxFaults /\ calls' \in 0..MaxCalls
  BY <1>1, BoundsAssumption DEF CommandLost, SessionInv, AcctInv
<1>8. CacheInv'
  <2>1. CASE Doing(r, "putEnd")
    <3>1. apart' = apart /\ UNCHANGED cache
      BY <2>1 DEF CommandLost, Doing
    <3>2. req[r].todo \in {<<"putEnd", "issueEnd">>, <<"putEnd">>}
      BY <2>1, RequestAt, OtherHeads DEF Doing
    <3>3. req[r].todo \notin AuthFixes
      BY <3>2 DEF AuthFixes, Deleting, SettingAuth, PuttingAuth
    <3> HIDE DEF q
    <3> QED BY <1>2, <1>6, <3>1, <3>3, CacheRests
  <2>2. CASE ~Doing(r, "putEnd")
    BY <2>2 DEF CommandLost, CacheInv, Copies
  <2> QED BY <2>1, <2>2
<1>9. CopiesInv'
  <2>1. CASE UNCHANGED cache
    BY <1>2, <2>1 DEF SessionInv, CopiesInv, cache
  <2>2. CASE Doing(r, "putUser") /\ cUser' = UserPart(req[r].seen) /\ UNCHANGED <<cEmail, cAuth>>
    <3>1. req[r].seen \in AuthViews /\ Honest(req[r].seen, acct.made, acct.verified)
      BY <2>2, RequestAt, CacheHeads DEF Doing
    <3>2. UserPart(req[r].seen) \in Views /\ Honest(UserPart(req[r].seen), acct.made, acct.verified)
      BY <3>1 DEF UserPart, Views, AuthViews, Honest
    <3> QED BY <1>2, <2>2, <3>2 DEF SessionInv, CopiesInv
  <2> QED BY <2>1, <2>2 DEF CommandLost
<1>10. UNCHANGED <<db, endUser, former, uses>>
  BY <1>1
<1> HIDE DEF q
<1> QED BY <1>3, <1>4, <1>6, <1>7, <1>8, <1>9, <1>10, TurnOnly

(***************************************************************************)
(* Requests that write rows.                                               *)
(***************************************************************************)
\* What a turn leaves alone that creates no token, starts or ends no rotation and
\* does not write the cache.
LEMMA TurnRest ==
  ASSUME SessionInv, NEW r \in Requests, NEW q, Turn(r, q), Grows, q.todo \notin {<<"insert">>, <<"rotate">>},
         req[r].todo # <<"rotate">>, \A p \in Purposes : Created(p)' = Created(p), locker' = locker,
         locker # None => refresh'[req[locker].arg] = refresh[req[locker].arg], UNCHANGED cache
  PROVE  RequestsInv' /\ RateInv' /\ LockInv' /\ CopiesInv'
<1>1. RequestsInv'
  BY TurnRequests DEF SessionInv
<1>2. RateInv'
  BY TurnRate DEF SessionInv
<1>3. LockInv'
  BY TurnLock DEF SessionInv
<1>4. CopiesInv'
  BY DEF SessionInv, CopiesInv, cache, Grows, Honest
<1> QED BY <1>1, <1>2, <1>3, <1>4

\* It will agree when the request is to delete or replace both copies, ...
LEMMA CacheWillBeDeleted ==
  ASSUME SessionInv, NEW r \in Requests, NEW q, Turn(r, q), q.todo \in UserFixes
  PROVE  CacheInv'
<1>1. req'[r].todo \in UserFixes /\ req'[r].todo \in AuthFixes
  BY TurnOthers DEF SessionInv, AuthFixes, UserFixes
<1> QED BY <1>1 DEF CacheInv, WillFix

\* ... or, after a new password, to drop or replace the copy that has it.
LEMMA CacheWillBeFlushed ==
  ASSUME SessionInv, NEW r \in Requests, NEW q, Turn(r, q), req[r].todo \notin AuthFixes, q.todo \in AuthFixes,
         View' = View, GetUser <=> GetUser', apart' = apart, UNCHANGED cache
  PROVE  CacheInv'
<1>1. req'[r].todo \in AuthFixes
  BY TurnOthers DEF SessionInv
<1>2. req[r].todo \notin UserFixes
  BY DEF AuthFixes, UserFixes
<1>3. WillFix(UserFixes) => WillFix(UserFixes)'
  BY <1>2, TurnFixes DEF WillFix, SessionInv
<1>4. WillFix(AuthFixes)'
  BY <1>1 DEF WillFix
<1> QED BY <1>3, <1>4 DEF SessionInv, CacheInv, cache

\* A request that finds room under the limit is one of those still to insert.
LEMMA CountKeeps ==
  ASSUME SessionInv, NEW r \in Requests, CountAuthTokens(r)
  PROVE  SessionInv'
<1> DEFINE p0 == req[r].arg.purpose
           arg == [purpose |-> p0, old |-> Live(p0)]
           q == [op |-> "local", todo |-> <<"insert">>, seen |-> None, arg |-> arg]
<1>1. /\ req[r].todo = <<"count", "insert">> /\ acct.made /\ IsRequest(req[r])
      /\ req[r].arg \in [purpose : Purposes, old : SUBSET AuthTokens]
  BY RequestAt, OtherHeads DEF CountAuthTokens, Doing
<1>2. req[r].todo # <<"rotate">> /\ req[r].todo \notin AuthFixes
  BY <1>1 DEF AuthFixes, UserFixes, Deleting, SettingAuth, PuttingAuth
<1>3. UNCHANGED <<db, cache, endUser, ghosts, faults, calls>>
  BY DEF CountAuthTokens
<1>4. acct' = acct /\ eu' = eu /\ apart' = apart /\ locker' = locker /\ refresh' = refresh
      /\ \A p \in Purposes : Created(p)' = Created(p)
  BY <1>3 DEF db, endUser, ghosts, Created
<1>5. CASE OverLimit(p0)
  <2>1. Turn(r, Idle)
    BY <1>5 DEF CountAuthTokens, Turn, ReqInv, IsRequest, Idle
  <2>2. Idle.todo = <<>>
    BY DEF Idle
  <2>3. faults' \in 0..MaxFaults /\ calls' \in 0..MaxCalls
    BY <1>3 DEF SessionInv, AcctInv
  <2> QED BY <1>2, <1>3, <2>1, <2>2, <2>3, NothingToDo, TurnQuiet
<1>6. CASE ~OverLimit(p0)
  <2>1. req' = [req EXCEPT ![r] = q]
    BY <1>6 DEF CountAuthTokens
  <2>a. arg \in [purpose : Purposes, old : SUBSET AuthTokens] /\ arg.purpose = p0
    <3>1. p0 \in Purposes /\ Live(p0) \in SUBSET AuthTokens
      BY <1>1 DEF Live
    <3> HIDE DEF p0
    <3> QED BY <3>1
  <2> HIDE DEF arg
  <2>b. IsRequest(q) /\ q.todo = <<"insert">> /\ q.arg = arg
    BY DEF IsRequest
  <2> HIDE DEF q
  <2>2. q.todo = <<"insert">> /\ q.arg \in [purpose : Purposes, old : SUBSET AuthTokens] /\ q.arg.purpose = p0
        /\ IsRequest(q)
    BY <2>a, <2>b
  <2>3. ReqInv(q, acct'.made, acct'.verified, eu')
    BY <1>1, <1>4, <2>2 DEF ReqInv, Mails
  <2>4. Turn(r, q)
    BY <2>1, <2>2, <2>3 DEF Turn
  <2>5. q.todo # <<"rotate">>
    BY <2>2
  <2>6. RequestsInv' /\ LockInv' /\ CacheInv'
    BY <1>2, <1>3, <1>4, <2>4, <2>5, TurnRequests, TurnLock, CacheRests DEF SessionInv, Grows
  <2>7. RateInv'
    <3> SUFFICES ASSUME NEW p \in Purposes
                 PROVE Cardinality(Created(p)') + Cardinality(Inserting(p)')
                         <= RateLimit + Cardinality(Requests) - 1
      BY DEF RateInv
    <3>1. IsFiniteSet(Requests) /\ IsFiniteSet(Created(p)) /\ Inserting(p) \subseteq Requests
          /\ Inserting(p)' \subseteq Requests
      BY FS_Subset, BoundsAssumption DEF Inserting, Created
    <3>2. /\ IsFiniteSet(Inserting(p)) /\ IsFiniteSet(Inserting(p)')
          /\ Cardinality(Inserting(p)') <= Cardinality(Requests)
      BY <3>1, FS_Subset
    <3>3. /\ Cardinality(Inserting(p)') \in Nat /\ Cardinality(Inserting(p)) \in Nat
          /\ Cardinality(Created(p)) \in Nat /\ Cardinality(Requests) \in Nat
      BY <3>1, <3>2, FS_CardinalityType
    <3>4. CASE p = p0
      <4>1. Cardinality(Created(p)) < RateLimit
        BY <1>6, <3>3, <3>4, BoundsAssumption DEF OverLimit
      <4> QED BY <1>4, <3>2, <3>3, <4>1, BoundsAssumption
    <3>5. CASE p # p0
      <4>1. Inserting(p)' \subseteq Inserting(p)
        BY <2>2, <2>4, <3>5, TurnOthers DEF SessionInv, Inserting
      <4>2. Cardinality(Inserting(p)') <= Cardinality(Inserting(p))
        BY <3>2, <4>1, FS_Subset
      <4>3. Cardinality(Created(p)) + Cardinality(Inserting(p)) <= RateLimit + Cardinality(Requests) - 1
        BY DEF SessionInv, RateInv
      <4> QED BY <1>4, <3>3, <4>2, <4>3, BoundsAssumption
    <3> QED BY <3>4, <3>5
  <2>8. AcctInv' /\ CopiesInv' /\ TokensInv' /\ SessionsInv' /\ EndUserInv'
    BY <1>3 DEF SessionInv, AcctInv, CopiesInv, TokensInv, SessionsInv, EndUserInv, UserTokens, db, cache,
         endUser, ghosts
  <2> QED BY <2>6, <2>7, <2>8 DEF SessionInv
<1> QED BY <1>5, <1>6

\* Steps that are no request's.
LEMMA StillRest ==
  ASSUME SessionInv, req' = req, acct' = acct, eu' = eu, \A p \in Purposes : Created(p)' = Created(p),
         locker' = locker, locker # None => refresh'[req[locker].arg] = refresh[req[locker].arg],
         UNCHANGED cache, apart' = apart
  PROVE  RequestsInv' /\ RateInv' /\ LockInv' /\ CopiesInv' /\ CacheInv'
<1>1. RequestsInv' /\ CopiesInv'
  BY DEF SessionInv, RequestsInv, CopiesInv, cache
<1>2. RateInv'
  BY DEF SessionInv, RateInv, Inserting
<1>3. LockInv'
  <2>1. ASSUME NEW r \in Requests, req[r].todo = <<"rotate">>
        PROVE locker = r /\ refresh'[req[r].arg] = [of |-> "user", st |-> "live"]
    BY <2>1, NamesAssumption DEF SessionInv, LockInv
  <2> QED BY <2>1 DEF SessionInv, LockInv
<1>4. CacheInv'
  BY DEF SessionInv, CacheInv, WillFix, cache, View, AuthView, GetUser
<1> QED BY <1>1, <1>2, <1>3, <1>4

\* What is counted stays within its bound.
LEMMA CallCounts ==
  ASSUME SessionInv, Call
  PROVE  calls' \in 0..MaxCalls
BY BoundsAssumption DEF SessionInv, AcctInv, Call

\* A link runs out of time.
LEMMA ExpireKeeps ==
  ASSUME SessionInv, NEW t \in AuthTokens, ExpireAuthToken(t)
  PROVE  SessionInv'
<1>1. tok' = [tok EXCEPT ![t].st = "used"] /\ tok[t].st = "live"
      /\ UNCHANGED <<acct, linked, locker, flow, idp, refresh, cache, endUser, req, ghosts, faults>> /\ calls' \in 0..MaxCalls
  BY CallCounts DEF ExpireAuthToken
<1>2. tok \in [AuthTokens -> Tokens]
  BY DEF SessionInv, TokensInv
<1>3. /\ tok' \in [AuthTokens -> Tokens] /\ tok'[t].st = "used"
      /\ \A x \in AuthTokens : tok'[x].purpose = tok[x].purpose /\ (x # t => tok'[x] = tok[x])
  BY <1>1, <1>2 DEF Tokens
<1>4. \A p \in Purposes : Created(p)' = Created(p)
  BY <1>3 DEF Created
<1>5. RequestsInv' /\ RateInv' /\ LockInv' /\ CopiesInv' /\ CacheInv'
  BY <1>1, <1>4, StillRest DEF endUser, ghosts
<1>6. TokensInv'
  BY <1>1, <1>3 DEF SessionInv, TokensInv, ghosts
<1>7. AcctInv'
  <2>1. acct.made
    BY <1>1 DEF SessionInv, AcctInv
  <2> QED BY <1>1, <2>1 DEF SessionInv, AcctInv
<1>8. SessionsInv' /\ EndUserInv'
  BY <1>1 DEF SessionInv, SessionsInv, EndUserInv, UserTokens, endUser, ghosts
<1> QED BY <1>5, <1>6, <1>7, <1>8 DEF SessionInv

\* The token that was counted is inserted; the ones before it are used up.
LEMMA CreateTokenKeeps ==
  ASSUME SessionInv, NEW r \in Requests, NEW t \in AuthTokens, CreateAuthToken(r, t)
  PROVE  SessionInv'
<1> DEFINE p0 == req[r].arg.purpose
<1>1. /\ req[r].todo = <<"insert">> /\ acct.made /\ IsRequest(req[r])
      /\ req[r].arg \in [purpose : Purposes, old : SUBSET AuthTokens]
  BY RequestAt, OtherHeads DEF CreateAuthToken, Doing
<1>2. req[r].todo # <<"rotate">> /\ req[r].todo \notin AuthFixes /\ Tail(req[r].todo) = <<>>
  BY <1>1, Rests DEF AuthFixes, UserFixes, Deleting, SettingAuth, PuttingAuth
<1>3. UNCHANGED <<acct, linked, locker, flow, idp, refresh, cache, endUser, ghosts, faults, calls>>
      /\ tok[t].st = "none"
      /\ tok' = [x \in AuthTokens |->
                   IF x = t THEN [purpose |-> p0, st |-> "live"]
                   ELSE IF x \in req[r].arg.old THEN [tok[x] EXCEPT !.st = "used"] ELSE tok[x]]
  BY DEF CreateAuthToken
<1>4. Go(r, <<>>, req[r].seen)
  BY <1>2 DEF CreateAuthToken, Done
<1>5. Turn(r, GoTo(req[r], <<>>, req[r].seen)) /\ GoTo(req[r], <<>>, req[r].seen).todo = <<>>
  BY <1>4, GoesNowhere, GoTurns
<1> DEFINE q == GoTo(req[r], <<>>, req[r].seen)
<1> HIDE DEF q
<1>6. Turn(r, q) /\ q.todo = <<>>
  BY <1>5 DEF q
<1>7. Grows
  BY <1>3 DEF Grows, endUser
<1>8. RequestsInv' /\ LockInv' /\ CacheInv'
  BY <1>2, <1>3, <1>6, <1>7, TurnRequests, TurnLock, CacheRests, NothingToDo DEF SessionInv, ghosts
<1>9. tok \in [AuthTokens -> Tokens] /\ p0 \in Purposes
  BY <1>1 DEF SessionInv, TokensInv
<1>10. /\ tok' \in [AuthTokens -> Tokens]
       /\ \A x \in AuthTokens : x # t => /\ tok'[x].purpose = tok[x].purpose
                                         /\ tok[x].st = "used" => tok'[x].st = "used"
       /\ tok'[t] = [purpose |-> p0, st |-> "live"]
  <2> HIDE DEF p0
  <2>1. ASSUME NEW x \in AuthTokens
        PROVE /\ tok'[x] \in Tokens
              /\ x # t => tok'[x].purpose = tok[x].purpose /\ (tok[x].st = "used" => tok'[x].st = "used")
    <3>1. CASE x = t
      BY <1>3, <1>9, <3>1 DEF Tokens
    <3>2. CASE x # t /\ x \in req[r].arg.old
      <4>1. tok'[x] = [tok[x] EXCEPT !.st = "used"] /\ tok[x] \in Tokens
        BY <1>3, <1>9, <3>2
      <4> QED BY <4>1 DEF Tokens
    <3>3. CASE x # t /\ x \notin req[r].arg.old
      BY <1>3, <1>9, <3>3
    <3> QED BY <3>1, <3>2, <3>3
  <2> QED BY <1>3, <2>1
<1>11. TokensInv'
  BY <1>3, <1>10 DEF SessionInv, TokensInv, ghosts
<1>12. RateInv'
  <2> SUFFICES ASSUME NEW p \in Purposes
               PROVE Cardinality(Created(p)') + Cardinality(Inserting(p)')
                       <= RateLimit + Cardinality(Requests) - 1
    BY DEF RateInv
  <2>1. IsFiniteSet(Created(p)) /\ IsFiniteSet(Created(p)') /\ IsFiniteSet(Inserting(p)) /\ IsFiniteSet(Requests)
    BY FS_Subset, BoundsAssumption DEF Created, Inserting
  <2>2. Inserting(p)' \subseteq Inserting(p) /\ (p = p0 => r \in Inserting(p) /\ r \notin Inserting(p)')
    BY <1>1, <1>6, TurnOthers DEF SessionInv, Inserting
  <2>3. IsFiniteSet(Inserting(p)') /\ Cardinality(Inserting(p)') <= Cardinality(Inserting(p))
    BY <2>1, <2>2, FS_Subset
  <2>4. /\ Cardinality(Created(p)) \in Nat /\ Cardinality(Created(p)') \in Nat
        /\ Cardinality(Inserting(p)) \in Nat /\ Cardinality(Inserting(p)') \in Nat /\ Cardinality(Requests) \in Nat
    BY <2>1, <2>3, FS_CardinalityType
  <2>5. Cardinality(Created(p)) + Cardinality(Inserting(p)) <= RateLimit + Cardinality(Requests) - 1
    BY DEF SessionInv, RateInv
  <2>6. CASE p = p0
    <3>1. Created(p)' \subseteq Created(p) \cup {t}
      BY <1>10 DEF Created
    <3>2. Cardinality(Created(p)') <= Cardinality(Created(p)) + 1
      <4>1. IsFiniteSet(Created(p) \cup {t}) /\ Cardinality(Created(p) \cup {t}) <= Cardinality(Created(p)) + 1
        BY <2>1, <2>4, FS_AddElement
      <4>2. Cardinality(Created(p)') <= Cardinality(Created(p) \cup {t}) /\ Cardinality(Created(p) \cup {t}) \in Nat
        BY <3>1, <4>1, FS_Subset, FS_CardinalityType
      <4> QED BY <2>4, <4>1, <4>2
    <3>3. Cardinality(Inserting(p)') <= Cardinality(Inserting(p)) - 1
      <4>1. Inserting(p)' \subseteq Inserting(p) \ {r}
        BY <2>2, <2>6
      <4>2. IsFiniteSet(Inserting(p) \ {r}) /\ Cardinality(Inserting(p) \ {r}) = Cardinality(Inserting(p)) - 1
        BY <2>1, <2>2, <2>6, FS_RemoveElement
      <4> QED BY <4>1, <4>2, FS_Subset
    <3> QED BY <2>4, <2>5, <3>2, <3>3, BoundsAssumption
  <2>7. CASE p # p0
    <3>1. Created(p)' \subseteq Created(p)
      BY <1>10, <2>7 DEF Created
    <3>2. Cardinality(Created(p)') <= Cardinality(Created(p))
      BY <2>1, <3>1, FS_Subset
    <3> QED BY <2>3, <2>4, <2>5, <3>2, BoundsAssumption
  <2> QED BY <2>6, <2>7
<1>13. AcctInv' /\ CopiesInv' /\ SessionsInv' /\ EndUserInv'
  BY <1>1, <1>3 DEF SessionInv, AcctInv, CopiesInv, SessionsInv, EndUserInv, UserTokens, cache, endUser, ghosts
<1> QED BY <1>8, <1>11, <1>12, <1>13 DEF SessionInv

(***************************************************************************)
(* Steps that are no request's: providers, links and tokens.               *)
(***************************************************************************)
\* What was not redeemed before is redeemed once now.
LEMMA RedeemOnce ==
  ASSUME TokensInv, NEW e \in Evidence, uses[e] # 1, Redeem(e)
  PROVE  /\ uses' \in [Evidence -> {0, 1}] /\ uses'[e] = 1
         /\ \A x \in Evidence : x # e => uses'[x] = uses[x]
BY DEF TokensInv, Redeem

\* Administrators switch the OIDC provider on and off.
LEMMA ProviderKeeps ==
  ASSUME SessionInv,
         (\E on \in {"on", "off"} : CreateIdentityProvider(on)) \/ UpdateIdentityProvider \/ DisableIdentityProvider
  PROVE  SessionInv'
<1>1. UNCHANGED <<acct, linked, locker, tok, flow, refresh, cache, endUser, req, ghosts, faults>> /\ calls' \in 0..MaxCalls
      /\ idp' \in {"on", "off"}
  BY CallCounts DEF CreateIdentityProvider, UpdateIdentityProvider, DisableIdentityProvider
<1>2. \A p \in Purposes : Created(p)' = Created(p)
  BY <1>1 DEF Created
<1>3. RequestsInv' /\ RateInv' /\ LockInv' /\ CopiesInv' /\ CacheInv'
  BY <1>1, <1>2, StillRest DEF endUser, ghosts
<1>4. AcctInv' /\ TokensInv' /\ SessionsInv' /\ EndUserInv'
  BY <1>1 DEF SessionInv, AcctInv, TokensInv, SessionsInv, EndUserInv, UserTokens, endUser, ghosts
<1> QED BY <1>3, <1>4 DEF SessionInv

\* A login at a provider leaves a new state behind.
LEMMA LoginStateKeeps ==
  ASSUME SessionInv, NEW s \in LoginStates, StartOIDCLogin(s) \/ StartSocialLogin(s)
  PROVE  SessionInv'
<1>1. /\ UNCHANGED <<acct, linked, locker, tok, refresh, cache, endUser, req, ghosts, faults, calls>>
      /\ idp' \in {idp, "on"} /\ flow[s] = "none"
      /\ \E p \in Providers : flow' = [flow EXCEPT ![s] = p]
  BY DEF StartOIDCLogin, StartSocialLogin, ResolveOIDCProvider, Providers
<1>2. \A p \in Purposes : Created(p)' = Created(p)
  BY <1>1 DEF Created
<1>3. RequestsInv' /\ RateInv' /\ LockInv' /\ CopiesInv' /\ CacheInv'
  BY <1>1, <1>2, StillRest DEF endUser, ghosts
<1>4. TokensInv'
  <2>1. flow \in [LoginStates -> Providers \cup {"none", "consumed"}] /\ uses[s] # 1 /\ idp \in {"absent", "on", "off"}
    BY <1>1 DEF SessionInv, TokensInv
  <2>2. /\ flow' \in [LoginStates -> Providers \cup {"none", "consumed"}]
        /\ \A x \in LoginStates : x # s => flow'[x] = flow[x]
    BY <1>1, <2>1
  <2> QED BY <1>1, <2>1, <2>2 DEF SessionInv, TokensInv, ghosts
<1>5. AcctInv' /\ SessionsInv' /\ EndUserInv'
  BY <1>1 DEF SessionInv, AcctInv, SessionsInv, EndUserInv, UserTokens, endUser, ghosts
<1> QED BY <1>3, <1>4, <1>5 DEF SessionInv

\* An identity is unlinked.
LEMMA UnlinkKeeps ==
  ASSUME SessionInv, NEW p \in Providers, DeleteUserIdentity(p)
  PROVE  SessionInv'
<1>1. UNCHANGED <<acct, locker, tok, flow, idp, refresh, cache, endUser, req, ghosts, faults>> /\ calls' \in 0..MaxCalls
      /\ linked' = linked \ {p}
  BY CallCounts DEF DeleteUserIdentity
<1>2. \A x \in Purposes : Created(x)' = Created(x)
  BY <1>1 DEF Created
<1>3. RequestsInv' /\ RateInv' /\ LockInv' /\ CopiesInv' /\ CacheInv'
  BY <1>1, <1>2, StillRest DEF endUser, ghosts
<1>4. AcctInv' /\ TokensInv' /\ SessionsInv' /\ EndUserInv'
  BY <1>1 DEF SessionInv, AcctInv, TokensInv, SessionsInv, EndUserInv, UserTokens, endUser, ghosts
<1> QED BY <1>3, <1>4 DEF SessionInv

\* The token that a rotation holds is neither revoked nor taken for a new one.
LEMMA HeldToken ==
  ASSUME SessionInv, locker # None
  PROVE  /\ locker \in Requests /\ req[locker].todo = <<"rotate">> /\ Doing(locker, "rotate")
         /\ req[locker].arg \in Refresh /\ refresh[req[locker].arg] = [of |-> "user", st |-> "live"]
<1>1. locker \in Requests /\ req[locker].todo = <<"rotate">>
  BY DEF SessionInv, LockInv
<1>2. req[locker].todo # <<>> /\ Head(req[locker].todo) = "rotate"
  BY <1>1, Rests
<1>3. req[locker].arg \in Refresh
  BY <1>1, <1>2, RequestAt, OtherHeads
<1>4. refresh[req[locker].arg] = [of |-> "user", st |-> "live"]
  BY <1>1 DEF SessionInv, LockInv
<1> QED BY <1>1, <1>2, <1>3, <1>4 DEF Doing

\* A logout leaves alone the token that is being exchanged.
LEMMA RevokeKeeps ==
  ASSUME SessionInv, NEW t \in Refresh, RevokeRefreshToken(t)
  PROVE  SessionInv'
<1>1. /\ UNCHANGED <<acct, linked, locker, tok, flow, idp, cache, endUser, req, ghosts, faults>> /\ calls' \in 0..MaxCalls
      /\ refresh' = [refresh EXCEPT ![t].st = "revoked"] /\ ~Rotating(t)
  BY CallCounts DEF RevokeRefreshToken
<1>2. \A p \in Purposes : Created(p)' = Created(p)
  BY <1>1 DEF Created
<1>3. refresh \in [Refresh -> Sessions]
  BY DEF SessionInv, SessionsInv
<1>4. /\ refresh' \in [Refresh -> Sessions] /\ refresh'[t].st = "revoked"
      /\ \A x \in Refresh : refresh'[x].of = refresh[x].of /\ (x # t => refresh'[x] = refresh[x])
  BY <1>1, <1>3 DEF Sessions
<1>5. locker # None => refresh'[req[locker].arg] = refresh[req[locker].arg]
  BY <1>1, <1>4, HeldToken DEF Rotating
<1>6. RequestsInv' /\ RateInv' /\ LockInv' /\ CopiesInv' /\ CacheInv'
  BY <1>1, <1>2, <1>5, StillRest DEF endUser, ghosts
<1>7. UserTokens' = UserTokens
  BY <1>4 DEF UserTokens
<1>8. SessionsInv'
  BY <1>1, <1>4, <1>7 DEF SessionInv, SessionsInv, ghosts
<1>9. AcctInv' /\ TokensInv' /\ EndUserInv'
  BY <1>1 DEF SessionInv, AcctInv, TokensInv, EndUserInv, endUser, ghosts
<1> QED BY <1>6, <1>8, <1>9 DEF SessionInv

\* An end user's token is exchanged in one step.
LEMMA RotateEndKeeps ==
  ASSUME SessionInv, NEW t \in Refresh, NEW n \in Refresh, RotateEndUserRefreshToken(t, n)
  PROVE  SessionInv'
<1>1. /\ UNCHANGED <<acct, linked, locker, tok, flow, idp, cache, endUser, req, former, apart, faults, calls>>
      /\ refresh' = [refresh EXCEPT ![t].st = "revoked", ![n] = [of |-> "end", st |-> "live"]]
      /\ refresh[t].of = "end" /\ refresh[t].st = "live" /\ refresh[n].st = "none" /\ Redeem(t)
  BY DEF RotateEndUserRefreshToken, ParseRefreshToken
<1>2. \A p \in Purposes : Created(p)' = Created(p)
  BY <1>1 DEF Created
<1>3. refresh \in [Refresh -> Sessions] /\ t # n
  BY <1>1 DEF SessionInv, SessionsInv
<1>4. /\ refresh' \in [Refresh -> Sessions] /\ refresh'[t].st = "revoked" /\ refresh'[t].of = "end"
      /\ refresh'[n] = [of |-> "end", st |-> "live"]
      /\ \A x \in Refresh : x # t /\ x # n => refresh'[x] = refresh[x]
  BY <1>1, <1>3 DEF Sessions
<1>5. locker # None => refresh'[req[locker].arg] = refresh[req[locker].arg]
  <2> SUFFICES ASSUME locker # None PROVE refresh'[req[locker].arg] = refresh[req[locker].arg]
    OBVIOUS
  <2>1. req[locker].arg \in Refresh /\ refresh[req[locker].arg].of = "user" /\ refresh[req[locker].arg].st = "live"
    BY HeldToken
  <2> QED BY <1>1, <1>4, <2>1
<1>6. RequestsInv' /\ RateInv' /\ LockInv' /\ CopiesInv' /\ CacheInv'
  BY <1>1, <1>2, <1>5, StillRest DEF endUser
<1>7. UserTokens' \subseteq UserTokens
  BY <1>1, <1>4 DEF UserTokens
<1>8. uses[t] # 1 /\ t \in Evidence
  BY <1>1 DEF SessionInv, SessionsInv, Evidence
<1>9. /\ uses' \in [Evidence -> {0, 1}] /\ uses'[t] = 1
      /\ \A x \in Evidence : x # t => uses'[x] = uses[x]
  BY <1>1, <1>8, RedeemOnce DEF SessionInv
<1>10. SessionsInv'
  <2>1. \A x \in Refresh : uses'[x] = 1 => refresh'[x].st = "revoked"
    <3>1. ASSUME NEW x \in Refresh, uses'[x] = 1, x # t PROVE refresh'[x].st = "revoked"
      <4>1. uses[x] = 1 /\ refresh[x].st = "revoked"
        BY <1>9, <3>1 DEF SessionInv, SessionsInv, Evidence
      <4> QED BY <1>1, <1>4, <3>1, <4>1
    <3> QED BY <1>4, <3>1
  <2>2. \A x \in former : x \in Refresh /\ refresh'[x].st = "revoked"
    BY <1>1, <1>4 DEF SessionInv, SessionsInv
  <2>3. UserTokens' # {} => acct'.verified
    BY <1>1, <1>7 DEF SessionInv, SessionsInv
  <2> QED BY <1>1, <1>4, <2>1, <2>2, <2>3 DEF SessionsInv
<1>11. TokensInv'
  <2>1. \A x \in AuthTokens \cup LoginStates : uses'[x] = uses[x]
    BY <1>9, NamesAssumption DEF Evidence
  <2> QED BY <1>1, <1>9, <2>1 DEF SessionInv, TokensInv
<1>12. AcctInv' /\ EndUserInv'
  BY <1>1 DEF SessionInv, AcctInv, EndUserInv, endUser
<1> QED BY <1>6, <1>10, <1>11, <1>12 DEF SessionInv

(***************************************************************************)
(* Sessions that begin.                                                    *)
(***************************************************************************)
\* A new token disturbs no other.
LEMMA NewSession ==
  ASSUME SessionInv, NEW n \in Refresh, refresh[n].st = "none", NEW who \in {"user", "end"},
         refresh' = [refresh EXCEPT ![n] = [of |-> who, st |-> "live"]]
  PROVE  /\ refresh' \in [Refresh -> Sessions] /\ n \notin former /\ uses[n] # 1
         /\ refresh'[n] = [of |-> who, st |-> "live"]
         /\ \A x \in Refresh : x # n => refresh'[x] = refresh[x]
         /\ locker # None => refresh'[req[locker].arg] = refresh[req[locker].arg]
<1>1. refresh \in [Refresh -> Sessions] /\ [of |-> who, st |-> "live"] \in Sessions
  BY DEF SessionInv, SessionsInv, Sessions
<1>2. /\ refresh' \in [Refresh -> Sessions] /\ refresh'[n] = [of |-> who, st |-> "live"]
      /\ \A x \in Refresh : x # n => refresh'[x] = refresh[x]
  BY <1>1
<1>3. n \notin former /\ uses[n] # 1
  BY DEF SessionInv, SessionsInv
<1>4. ASSUME locker # None PROVE refresh'[req[locker].arg] = refresh[req[locker].arg]
  <2>1. req[locker].arg \in Refresh /\ refresh[req[locker].arg].st = "live"
    BY <1>4, HeldToken
  <2> QED BY <1>2, <2>1
<1> QED BY <1>2, <1>3, <1>4

\* A request that has done its last step.
LEMMA LastStep ==
  ASSUME SessionInv, NEW r \in Requests, Done(r), Tail(req[r].todo) = <<>>
  PROVE  \E q : Turn(r, q) /\ q.todo = <<>>
<1>1. Go(r, <<>>, req[r].seen)
  BY DEF Done
<1> QED BY <1>1, GoesNowhere, GoTurns

\* A session of the account: the request that issues it knows the account as verified.
LEMMA SaveKeeps ==
  ASSUME SessionInv, NEW r \in Requests, NEW n \in Refresh, SaveRefreshToken(r, n)
  PROVE  SessionInv'
<1>1. req[r].todo = <<"issue">> /\ acct.verified
  BY RequestAt, OtherHeads DEF SaveRefreshToken, Doing
<1>2. req[r].todo # <<"rotate">> /\ req[r].todo \notin AuthFixes /\ Tail(req[r].todo) = <<>>
  BY <1>1, Rests DEF AuthFixes, UserFixes, Deleting, SettingAuth, PuttingAuth
<1>3. /\ UNCHANGED <<acct, linked, locker, tok, flow, idp, cache, endUser, ghosts, faults, calls>>
      /\ refresh[n].st = "none" /\ refresh' = [refresh EXCEPT ![n] = [of |-> "user", st |-> "live"]]
  BY DEF SaveRefreshToken
<1>4. /\ refresh' \in [Refresh -> Sessions] /\ n \notin former /\ uses[n] # 1
      /\ \A x \in Refresh : x # n => refresh'[x] = refresh[x]
      /\ locker # None => refresh'[req[locker].arg] = refresh[req[locker].arg]
  BY <1>3, NewSession
<1>5. PICK q : Turn(r, q) /\ q.todo = <<>>
  BY <1>2, LastStep DEF SaveRefreshToken
<1>6. Grows /\ \A p \in Purposes : Created(p)' = Created(p)
  BY <1>3 DEF Grows, endUser, Created
<1>7. RequestsInv' /\ RateInv' /\ LockInv' /\ CopiesInv'
  BY <1>2, <1>3, <1>4, <1>5, <1>6, NothingToDo, TurnRest
<1>8. CacheInv'
  BY <1>2, <1>3, <1>5, CacheRests DEF ghosts
<1>9. SessionsInv'
  BY <1>1, <1>3, <1>4 DEF SessionInv, SessionsInv, ghosts
<1>10. AcctInv' /\ TokensInv' /\ EndUserInv'
  BY <1>3 DEF SessionInv, AcctInv, TokensInv, EndUserInv, endUser, ghosts
<1> QED BY <1>7, <1>8, <1>9, <1>10 DEF SessionInv

\* A session of the end user: it was the registered password that was given.
LEMMA SaveEndKeeps ==
  ASSUME SessionInv, NEW r \in Requests, NEW n \in Refresh, SaveEndUserRefreshToken(r, n)
  PROVE  SessionInv'
<1>1. req[r].todo = <<"issueEnd">> /\ req[r].arg = eu /\ eu # None
  BY RequestAt, OtherHeads DEF SaveEndUserRefreshToken, Doing
<1>2. req[r].todo # <<"rotate">> /\ req[r].todo \notin AuthFixes /\ Tail(req[r].todo) = <<>>
  BY <1>1, Rests DEF AuthFixes, UserFixes, Deleting, SettingAuth, PuttingAuth
<1>3. /\ UNCHANGED <<acct, linked, locker, tok, flow, idp, cache, eu, euCache, ghosts, faults, calls>>
      /\ refresh[n].st = "none" /\ refresh' = [refresh EXCEPT ![n] = [of |-> "end", st |-> "live"]]
      /\ euOpened' = euOpened \cup {req[r].arg}
  BY DEF SaveEndUserRefreshToken
<1>4. /\ refresh' \in [Refresh -> Sessions] /\ n \notin former /\ uses[n] # 1
      /\ refresh'[n] = [of |-> "end", st |-> "live"]
      /\ \A x \in Refresh : x # n => refresh'[x] = refresh[x]
      /\ locker # None => refresh'[req[locker].arg] = refresh[req[locker].arg]
  BY <1>3, NewSession
<1>5. PICK q : Turn(r, q) /\ q.todo = <<>>
  BY <1>2, LastStep DEF SaveEndUserRefreshToken
<1>6. Grows /\ \A p \in Purposes : Created(p)' = Created(p)
  BY <1>3 DEF Grows, Created
<1>7. RequestsInv' /\ RateInv' /\ LockInv' /\ CopiesInv'
  BY <1>2, <1>3, <1>4, <1>5, <1>6, NothingToDo, TurnRest
<1>8. CacheInv'
  BY <1>2, <1>3, <1>5, CacheRests DEF ghosts
<1>9. SessionsInv'
  <2>1. UserTokens' \subseteq UserTokens
    BY <1>4 DEF UserTokens
  <2> QED BY <1>3, <1>4, <2>1 DEF SessionInv, SessionsInv, ghosts
<1>10. EndUserInv'
  BY <1>1, <1>3 DEF SessionInv, EndUserInv
<1>11. AcctInv' /\ TokensInv'
  BY <1>3 DEF SessionInv, AcctInv, TokensInv, ghosts
<1> QED BY <1>7, <1>8, <1>9, <1>10, <1>11 DEF SessionInv

(***************************************************************************)
(* The end user.                                                           *)
(***************************************************************************)
\* The first login registers; the second one's password opens nothing.
LEMMA CreateEndKeeps ==
  ASSUME SessionInv, NEW r \in Requests, CreateEndUser(r)
  PROVE  SessionInv'
<1>1. req[r].todo = <<"create">> /\ req[r].arg \in 1..MaxPasswords /\ IsRequest(req[r])
  BY RequestAt, OtherHeads DEF CreateEndUser, Doing
<1>2. req[r].todo # <<"rotate">> /\ req[r].todo \notin AuthFixes
  BY <1>1 DEF AuthFixes, UserFixes, Deleting, SettingAuth, PuttingAuth
<1>3. UNCHANGED <<db, cache, euCache, euOpened, ghosts, faults, calls>>
  BY DEF CreateEndUser
<1>4. CASE eu = None
  <2> DEFINE todo == <<"putEnd", "issueEnd">>
             q == GoTo(req[r], todo, req[r].arg)
  <2>1. eu' = req[r].arg /\ Go(r, todo, req[r].arg) /\ todo # <<>> /\ todo \notin {<<"insert">>, <<"rotate">>}
    BY <1>4 DEF CreateEndUser
  <2>2. eu' # None
    BY <1>1, <2>1, NamesAssumption
  <2>3. ReqInv(q, acct'.made, acct'.verified, eu')
    <3>1. q.todo = <<"putEnd", "issueEnd">> /\ q.seen = eu' /\ q.arg = eu'
      BY <1>1, <2>1, GoFields
    <3> HIDE DEF q
    <3> QED BY <2>2, <3>1 DEF ReqInv
  <2> HIDE DEF todo
  <2>4. Turn(r, q) /\ q.todo = todo
    BY <2>1, <2>3, GoTurns
  <2>5. Grows /\ \A p \in Purposes : Created(p)' = Created(p)
    BY <1>3, <1>4 DEF Grows, Created, db
  <2> HIDE DEF q
  <2>6. locker' = locker /\ refresh' = refresh /\ acct' = acct /\ apart' = apart /\ faults' = faults
        /\ UNCHANGED cache
    BY <1>3 DEF db, ghosts
  <2>7. RequestsInv' /\ RateInv' /\ LockInv' /\ CopiesInv'
    BY <1>2, <2>1, <2>4, <2>5, <2>6, TurnRest
  <2>8. CacheInv'
    BY <1>2, <2>4, <2>6, CacheRests
  <2>9. EndUserInv'
    BY <1>1, <1>3, <1>4, <2>1, NamesAssumption DEF SessionInv, EndUserInv
  <2>10. AcctInv' /\ TokensInv' /\ SessionsInv'
    BY <1>3 DEF SessionInv, AcctInv, TokensInv, SessionsInv, UserTokens, db, ghosts
  <2> QED BY <2>7, <2>8, <2>9, <2>10 DEF SessionInv
<1>5. CASE eu # None
  <2>1. Go(r, <<>>, None) /\ UNCHANGED <<db, cache, endUser, ghosts, faults, calls>>
    BY <1>3, <1>5 DEF CreateEndUser, endUser
  <2> QED BY <1>2, <2>1, GoesNowhere, NothingToDo, GoesQuietly
<1> QED BY <1>4, <1>5

\* The cached login is the registered one.
LEMMA PutEndKeeps ==
  ASSUME SessionInv, NEW r \in Requests, PutEndUserLogin(r)
  PROVE  SessionInv'
<1> DEFINE todo == Tail(req[r].todo)
           q == GoTo(req[r], todo, req[r].seen)
<1>1. /\ req[r].todo \in {<<"putEnd", "issueEnd">>, <<"putEnd">>} /\ eu # None /\ req[r].seen = eu
      /\ req[r].todo = <<"putEnd", "issueEnd">> => req[r].arg = eu
      /\ IsRequest(req[r])
  BY RequestAt, OtherHeads DEF PutEndUserLogin, Doing
<1>2. req[r].todo # <<"rotate">> /\ req[r].todo \notin AuthFixes
  BY <1>1 DEF AuthFixes, UserFixes, Deleting, SettingAuth, PuttingAuth
<1>3. UNCHANGED <<db, cache, eu, euOpened, ghosts, faults, calls>> /\ euCache' = req[r].seen /\ Go(r, todo, req[r].seen)
  BY DEF PutEndUserLogin, Done
<1>4. (todo = <<"issueEnd">> /\ req[r].arg = eu) \/ todo = <<>>
  BY <1>1, Rests
<1> HIDE DEF todo
<1>5. todo \notin {<<"insert">>, <<"rotate">>}
  BY <1>4
<1>6. acct' = acct /\ eu' = eu
  BY <1>3 DEF db
<1>7. ReqInv(q, acct'.made, acct'.verified, eu')
  <2>1. CASE todo = <<"issueEnd">> /\ req[r].arg = eu
    <3>1. q.todo = <<"issueEnd">> /\ q.arg = eu
      BY <1>1, <2>1, GoFields
    <3> HIDE DEF q
    <3> QED BY <1>1, <1>6, <3>1 DEF ReqInv
  <2>2. CASE todo = <<>>
    BY <2>2, GoesNowhere
  <2> QED BY <1>4, <2>1, <2>2
<1>8. Turn(r, q) /\ q.todo = todo
  BY <1>3, <1>7, GoTurns
<1>9. Grows /\ \A p \in Purposes : Created(p)' = Created(p)
  BY <1>3 DEF Grows, Created, db
<1> HIDE DEF q
<1>10. locker' = locker /\ refresh' = refresh /\ apart' = apart /\ faults' = faults /\ UNCHANGED cache
  BY <1>3 DEF db, ghosts
<1>11. RequestsInv' /\ RateInv' /\ LockInv' /\ CopiesInv'
  BY <1>2, <1>5, <1>8, <1>9, <1>10, TurnRest
<1>12. CacheInv'
  BY <1>2, <1>6, <1>8, <1>10, CacheRests
<1>13. EndUserInv'
  BY <1>1, <1>3 DEF SessionInv, EndUserInv
<1>14. AcctInv' /\ TokensInv' /\ SessionsInv'
  BY <1>3 DEF SessionInv, AcctInv, TokensInv, SessionsInv, UserTokens, db, ghosts
<1> QED BY <1>11, <1>12, <1>13, <1>14 DEF SessionInv

(***************************************************************************)
(* Links from mails and new passwords.                                     *)
(***************************************************************************)
\* A link is used up.
LEMMA LinkIsUsed ==
  ASSUME SessionInv, NEW t \in AuthTokens, NEW p, t \in Live(p), tok' = [tok EXCEPT ![t].st = "used"],
         Redeem(t), flow' = flow, idp' = idp
  PROVE  /\ TokensInv' /\ \A x \in Purposes : Created(x)' = Created(x)
         /\ \A x \in Refresh : uses'[x] = uses[x]
<1>1. tok \in [AuthTokens -> Tokens] /\ tok[t].st = "live"
  BY DEF SessionInv, TokensInv, Live
<1>2. /\ tok' \in [AuthTokens -> Tokens] /\ tok'[t].st = "used"
      /\ \A x \in AuthTokens : tok'[x].purpose = tok[x].purpose /\ (x # t => tok'[x] = tok[x])
  BY <1>1 DEF Tokens
<1>3. uses[t] # 1 /\ t \in Evidence
  BY <1>1 DEF SessionInv, TokensInv, Evidence
<1>4. /\ uses' \in [Evidence -> {0, 1}] /\ uses'[t] = 1
      /\ \A x \in Evidence : x # t => uses'[x] = uses[x]
  BY <1>3, RedeemOnce DEF SessionInv
<1>5. \A x \in LoginStates \cup Refresh : uses'[x] = uses[x]
  BY <1>4, NamesAssumption DEF Evidence
<1>6. \A x \in AuthTokens : uses'[x] = 1 => tok'[x].st = "used"
  BY <1>2, <1>4 DEF SessionInv, TokensInv, Evidence
<1>7. TokensInv'
  BY <1>2, <1>4, <1>5, <1>6 DEF SessionInv, TokensInv
<1>8. \A x \in Purposes : Created(x)' = Created(x)
  BY <1>2 DEF Created
<1> QED BY <1>5, <1>7, <1>8

\* A list that begins with the deletion of both copies.
LEMMA DeletingLists ==
  /\ DeletePut \o <<"issue">> = <<"delete", "putUser", "issue">>
  /\ DeletePut \o <<"link", "issue">> = <<"delete", "putUser", "link", "issue">>
  /\ <<"delete", "putUser", "issue">> \in UserFixes
  /\ <<"delete", "putUser", "link", "issue">> \in UserFixes
  /\ <<"delete", "putUser", "issue">> \in Entering
  /\ <<"delete", "putUser", "link", "issue">> \in Linking
  /\ <<"delete", "putUser", "issue">> \notin Activating \cup Linking
  /\ <<"delete", "putUser", "link", "issue">> \notin Activating
  /\ <<"delete">> \in UserFixes /\ <<"delete">> \in Repairs
  /\ DeletePut \in UserFixes /\ PutAuth \in UserFixes
  /\ <<"flush">> \in AuthFixes /\ <<"flush">> \in Repairs
  /\ <<"reread">> \in AuthFixes /\ <<"reread">> \in Repairs
  /\ Entering \subseteq Viewing /\ Linking \subseteq Viewing
<1>1. DeletePut \o <<"issue">> = <<"delete", "putUser", "issue">>
  BY Joins DEF DeletePut
<1>2. DeletePut \o <<"link", "issue">> = <<"delete", "putUser", "link", "issue">>
  BY Joins DEF DeletePut
<1>3. /\ <<"delete", "putUser", "issue">> \in UserFixes
      /\ <<"delete", "putUser", "link", "issue">> \in UserFixes
      /\ <<"delete", "putUser", "issue">> \in Entering
      /\ <<"delete", "putUser", "link", "issue">> \in Linking
  BY DEF UserFixes, Deleting, PuttingAuth, Entering, Linking
<1>4. /\ <<"delete", "putUser", "issue">> \notin Activating \cup Linking
      /\ <<"delete", "putUser", "link", "issue">> \notin Activating
  BY DEF Activating, Linking
<1>5. /\ <<"delete">> \in UserFixes /\ <<"delete">> \in Repairs
      /\ DeletePut \in UserFixes /\ PutAuth \in UserFixes
      /\ <<"flush">> \in AuthFixes /\ <<"flush">> \in Repairs
      /\ <<"reread">> \in AuthFixes /\ <<"reread">> \in Repairs
  BY DEF UserFixes, Deleting, PuttingAuth, AuthFixes, Repairs, DeletePut, PutAuth
<1>6. Entering \subseteq Viewing /\ Linking \subseteq Viewing
  BY DEF Viewing
<1> QED BY <1>1, <1>2, <1>3, <1>4, <1>5, <1>6

\* Verifying the address: the row is verified before anybody is signed in.
LEMMA VerifyKeeps ==
  ASSUME SessionInv, NEW r \in Requests, NEW t \in AuthTokens, VerifyEmail(r, t)
  PROVE  SessionInv'
<1> DEFINE todo == DeletePut \o <<"issue">>
           seen == AsView(acct')
           q == StartOf("local", todo, seen, None)
<1>1. /\ UNCHANGED <<linked, locker, flow, idp, refresh, cache, endUser, former, apart, faults>>
      /\ t \in Live("email_verification") /\ GetUser /\ MayChoose /\ locker = None
      /\ acct' = [VerifiedRow EXCEPT !.hash = NextPassword]
      /\ tok' = [tok EXCEPT ![t].st = "used"] /\ Redeem(t)
      /\ Start(r, "local", todo, seen, None)
  BY DEF VerifyEmail, VerifyEmailToken, Consumable, RowFree
<1>2. acct \in Accounts /\ acct.made
  BY <1>1 DEF SessionInv, AcctInv, GetUser
<1>3. acct' \in Accounts /\ acct'.made /\ acct'.verified /\ ~acct'.pending
  <2>1. NextPassword \in 0..MaxPasswords
    BY <1>1, <1>2, BoundsAssumption DEF NextPassword, MayChoose, Accounts
  <2>2. VerifiedRow \in Accounts /\ VerifiedRow.made /\ VerifiedRow.verified /\ ~VerifiedRow.pending
    BY <1>2 DEF VerifiedRow, Accounts
  <2> QED BY <1>1, <2>1, <2>2 DEF Accounts
<1>4. seen \in AuthViews /\ Honest(seen, acct'.made, acct'.verified)
  BY <1>3 DEF AsView, AuthViews, Honest, Accounts
<1>5. todo \in Entering /\ todo \in Viewing /\ todo \in UserFixes /\ todo \notin Activating \cup Linking
      /\ todo \notin {<<"insert">>, <<"rotate">>}
  BY DeletingLists, FillingLists
<1> HIDE DEF todo, seen
<1>6. ReqInv(q, acct'.made, acct'.verified, eu')
  BY <1>3, <1>4, <1>5, StartsViewing
<1>7. Turn(r, q) /\ q.todo = todo /\ req[r].todo = <<>> /\ calls' \in 0..MaxCalls
  BY <1>1, <1>6, StartTurns
<1> HIDE DEF q
<1>8. TokensInv' /\ (\A x \in Purposes : Created(x)' = Created(x)) /\ \A x \in Refresh : uses'[x] = uses[x]
  BY <1>1, LinkIsUsed
<1>9. Grows
  BY <1>1, <1>2, <1>3 DEF Grows, endUser
<1>10. RequestsInv' /\ RateInv' /\ LockInv' /\ CopiesInv'
  BY <1>1, <1>5, <1>7, <1>8, <1>9, NothingToDo, TurnRest
<1>11. CacheInv'
  BY <1>5, <1>7, CacheWillBeDeleted
<1>12. AcctInv'
  BY <1>1, <1>3, <1>7 DEF SessionInv, AcctInv
<1>13. SessionsInv' /\ EndUserInv'
  BY <1>1, <1>3, <1>8 DEF SessionInv, SessionsInv, EndUserInv, UserTokens, endUser
<1> QED BY <1>8, <1>10, <1>11, <1>12, <1>13 DEF SessionInv

\* A login link of an account that is not pending.
LEMMA ActivateLoginKeeps ==
  ASSUME SessionInv, NEW r \in Requests, NEW t \in AuthTokens, ActivateLogin(r, t)
  PROVE  SessionInv'
<1> DEFINE todo == DeletePut \o <<"issue">>
           q == StartOf("local", todo, AuthView, None)
<1>1. /\ UNCHANGED <<acct, linked, locker, flow, idp, refresh, cache, endUser, former, apart, faults>>
      /\ t \in Live("login_activation") /\ GetUser /\ ~acct.pending
      /\ tok' = [tok EXCEPT ![t].st = "used"] /\ Redeem(t)
      /\ Start(r, "local", todo, AuthView, None)
  BY DEF ActivateLogin, ActivateLoginToken, Consumable
<1>2. acct.made /\ acct.verified
  BY <1>1 DEF SessionInv, AcctInv, GetUser
<1>3. AuthView \in AuthViews /\ Honest(AuthView, acct'.made, acct'.verified)
  BY <1>1, ViewIsHonest DEF SessionInv
<1>5. todo \in Entering /\ todo \in Viewing /\ todo \in UserFixes /\ todo \notin Activating \cup Linking
      /\ todo \notin {<<"insert">>, <<"rotate">>}
  BY DeletingLists, FillingLists
<1> HIDE DEF todo
<1>6. ReqInv(q, acct'.made, acct'.verified, eu')
  BY <1>1, <1>2, <1>3, <1>5, StartsViewing
<1>7. Turn(r, q) /\ q.todo = todo /\ req[r].todo = <<>> /\ calls' \in 0..MaxCalls
  BY <1>1, <1>6, StartTurns
<1> HIDE DEF q
<1>8. TokensInv' /\ (\A x \in Purposes : Created(x)' = Created(x)) /\ \A x \in Refresh : uses'[x] = uses[x]
  BY <1>1, LinkIsUsed
<1>9. Grows
  BY <1>1 DEF Grows, endUser
<1>10. RequestsInv' /\ RateInv' /\ LockInv' /\ CopiesInv'
  BY <1>1, <1>5, <1>7, <1>8, <1>9, NothingToDo, TurnRest
<1>11. CacheInv'
  BY <1>5, <1>7, CacheWillBeDeleted
<1>12. AcctInv'
  BY <1>1, <1>2, <1>7 DEF SessionInv, AcctInv
<1>13. SessionsInv' /\ EndUserInv'
  BY <1>1, <1>8 DEF SessionInv, SessionsInv, EndUserInv, UserTokens, endUser
<1> QED BY <1>8, <1>10, <1>11, <1>12, <1>13 DEF SessionInv

\* Every session there was ends.
LEMMA SessionsEnd ==
  ASSUME SessionInv, RevokeUserRefreshTokens, \A x \in Refresh : uses'[x] = uses[x],
         acct.verified => acct'.verified
  PROVE  SessionsInv'
<1>1. refresh \in [Refresh -> Sessions]
  BY DEF SessionInv, SessionsInv
<1>2. ASSUME NEW x \in Refresh
      PROVE /\ refresh'[x] \in Sessions /\ refresh'[x].of = refresh[x].of
            /\ x \in UserTokens => refresh'[x].st = "revoked"
            /\ refresh[x].st = "revoked" => refresh'[x].st = "revoked"
  BY <1>1 DEF RevokeUserRefreshTokens, Sessions
<1>3. refresh' \in [Refresh -> Sessions]
  BY <1>2 DEF RevokeUserRefreshTokens
<1>4. UserTokens' = UserTokens
  BY <1>2 DEF UserTokens
<1>5. \A x \in former' : x \in Refresh /\ refresh'[x].st = "revoked"
  <2>1. former' = former \cup UserTokens /\ UserTokens \subseteq Refresh
    BY DEF RevokeUserRefreshTokens, UserTokens
  <2> QED BY <1>2, <2>1 DEF SessionInv, SessionsInv
<1> QED BY <1>2, <1>3, <1>4, <1>5 DEF SessionInv, SessionsInv

\* A request that is left with one repair of the cache, or with the change itself.
LEMMA StartsRepairing ==
  ASSUME NEW op, NEW todo \in Repairs, NEW seen, NEW arg, NEW m, NEW v, NEW u, m
  PROVE  ReqInv(StartOf(op, todo, seen, arg), m, v, u)
<1> DEFINE q == StartOf(op, todo, seen, arg)
<1>1. q.todo = todo
  BY StartFields
<1> HIDE DEF q
<1>2. ReqInv(q, m, v, u)
  BY <1>1 DEF ReqInv
<1> QED BY <1>2 DEF q

\* The same for a request that goes on.
LEMMA GoesRepairing ==
  ASSUME NEW q0, IsRequest(q0), NEW todo \in Repairs, NEW seen, NEW m, NEW v, NEW u, m
  PROVE  ReqInv(GoTo(q0, todo, seen), m, v, u)
<1> DEFINE q == GoTo(q0, todo, seen)
<1>1. q.todo = todo
  BY GoFields
<1> HIDE DEF q
<1>2. ReqInv(q, m, v, u)
  BY <1>1 DEF ReqInv
<1> QED BY <1>2 DEF q

\* A new password changes nothing else of the row.
LEMMA NewPassword ==
  ASSUME AcctInv, GetUser, MayChoose, acct' = [acct EXCEPT !.hash = NextPassword]
  PROVE  /\ acct' \in Accounts /\ acct'.made /\ (GetUser <=> GetUser') /\ View' = View
         /\ acct'.pending = acct.pending /\ acct'.verified = acct.verified
<1>1. acct \in Accounts /\ acct.made
  BY DEF AcctInv, GetUser
<1>2. NextPassword \in 0..MaxPasswords
  BY <1>1, BoundsAssumption DEF NextPassword, MayChoose, Accounts
<1>3. /\ acct' \in Accounts /\ acct'.made = acct.made /\ acct'.disabled = acct.disabled
      /\ acct'.pending = acct.pending /\ acct'.verified = acct.verified
  BY <1>1, <1>2 DEF Accounts
<1> QED BY <1>1, <1>3 DEF GetUser, View

\* A reset: new password, no sessions, and the cached credentials are to be flushed.
LEMMA ResetKeeps ==
  ASSUME SessionInv, NEW r \in Requests, NEW t \in AuthTokens, ResetPassword(r, t)
  PROVE  SessionInv'
<1> DEFINE todo == <<"flush">>
           q == StartOf("local", todo, None, None)
<1>1. /\ UNCHANGED <<linked, locker, flow, idp, cache, endUser, apart, faults>>
      /\ t \in Live("password_reset") /\ GetUser /\ MayChoose /\ locker = None
      /\ acct' = [acct EXCEPT !.hash = NextPassword] /\ RevokeUserRefreshTokens
      /\ tok' = [tok EXCEPT ![t].st = "used"] /\ Redeem(t)
      /\ Start(r, "local", todo, None, None)
  BY DEF ResetPassword, ResetPasswordWithToken, Consumable, RowFree
<1>2. acct.made
  BY <1>1 DEF GetUser
<1>3. /\ acct' \in Accounts /\ acct'.made /\ (GetUser <=> GetUser') /\ View' = View
      /\ acct'.pending = acct.pending /\ acct'.verified = acct.verified
  BY <1>1, NewPassword DEF SessionInv
<1>5. todo \in AuthFixes /\ todo \in Repairs /\ todo \notin {<<"insert">>, <<"rotate">>}
  BY DeletingLists, FillingLists
<1> HIDE DEF todo
<1>6. ReqInv(q, acct'.made, acct'.verified, eu')
  BY <1>3, <1>5, StartsRepairing
<1>7. Turn(r, q) /\ q.todo = todo /\ req[r].todo = <<>> /\ calls' \in 0..MaxCalls
  BY <1>1, <1>6, StartTurns
<1> HIDE DEF q
<1>8. TokensInv' /\ (\A x \in Purposes : Created(x)' = Created(x)) /\ \A x \in Refresh : uses'[x] = uses[x]
  BY <1>1, LinkIsUsed
<1>9. Grows
  BY <1>1, <1>2, <1>3 DEF Grows, endUser
<1>10. RequestsInv' /\ RateInv' /\ LockInv' /\ CopiesInv'
  BY <1>1, <1>5, <1>7, <1>8, <1>9, NothingToDo, TurnRest
<1>11. CacheInv'
  BY <1>1, <1>3, <1>5, <1>7, NothingToDo, CacheWillBeFlushed
<1>12. AcctInv'
  BY <1>1, <1>2, <1>3, <1>7 DEF SessionInv, AcctInv
<1>13. SessionsInv'
  BY <1>1, <1>3, <1>8, SessionsEnd
<1>14. EndUserInv'
  BY <1>1 DEF SessionInv, EndUserInv, endUser
<1> QED BY <1>8, <1>10, <1>11, <1>12, <1>13, <1>14 DEF SessionInv

\* A change of the password: the cached credentials are to be replaced.
LEMMA UpdateKeeps ==
  ASSUME SessionInv, NEW r \in Requests, UpdateUserPassword(r)
  PROVE  SessionInv'
<1>1. req[r].todo = <<"update">> /\ acct.made /\ IsRequest(req[r])
  BY RequestAt, OtherHeads DEF UpdateUserPassword, Doing
<1>2. req[r].todo # <<"rotate">> /\ req[r].todo \notin AuthFixes
  BY <1>1 DEF AuthFixes, UserFixes, Deleting, SettingAuth, PuttingAuth
<1>3. /\ UNCHANGED <<linked, locker, tok, flow, idp, cache, endUser, uses, apart, faults, calls>>
      /\ locker = None
  BY DEF UpdateUserPassword, RowFree
<1>4. CASE /\ GetUser /\ MayChoose /\ acct' = [acct EXCEPT !.hash = NextPassword]
           /\ RevokeUserRefreshTokens /\ Go(r, <<"reread">>, None)
  <2> DEFINE todo == <<"reread">>
             q == GoTo(req[r], todo, None)
  <2>1. /\ acct' \in Accounts /\ acct'.made /\ (GetUser <=> GetUser') /\ View' = View
        /\ acct'.pending = acct.pending /\ acct'.verified = acct.verified
    BY <1>4, NewPassword DEF SessionInv
  <2>2. todo \in AuthFixes /\ todo \in Repairs /\ todo \notin {<<"insert">>, <<"rotate">>}
    BY DeletingLists, FillingLists
  <2>3. Go(r, todo, None)
    BY <1>4
  <2> HIDE DEF todo
  <2>4. ReqInv(q, acct'.made, acct'.verified, eu')
    BY <1>1, <2>1, <2>2, GoesRepairing
  <2>5. Turn(r, q) /\ q.todo = todo
    BY <2>3, <2>4, GoTurns
  <2> HIDE DEF q
  <2>6. Grows /\ \A p \in Purposes : Created(p)' = Created(p)
    BY <1>1, <1>3, <2>1 DEF Grows, endUser, Created
  <2>7. RequestsInv' /\ RateInv' /\ LockInv' /\ CopiesInv'
    BY <1>2, <1>3, <2>2, <2>5, <2>6, TurnRest
  <2>8. CacheInv'
    BY <1>2, <1>3, <2>1, <2>2, <2>5, CacheWillBeFlushed
  <2>9. SessionsInv'
    BY <1>3, <1>4, <2>1, SessionsEnd
  <2>10. AcctInv' /\ TokensInv' /\ EndUserInv'
    BY <1>1, <1>3, <2>1 DEF SessionInv, AcctInv, TokensInv, EndUserInv, endUser
  <2> QED BY <2>7, <2>8, <2>9, <2>10 DEF SessionInv
<1>5. CASE ~GetUser /\ Go(r, <<>>, None) /\ UNCHANGED <<acct, refresh, former>>
  <2>1. UNCHANGED <<db, cache, endUser, ghosts, faults, calls>>
    BY <1>3, <1>5 DEF db, ghosts
  <2> QED BY <1>2, <1>5, <2>1, GoesNowhere, NothingToDo, GoesQuietly
<1> QED BY <1>4, <1>5 DEF UpdateUserPassword

\* The deletion of the account: both copies are to be deleted.
LEMMA DisableKeeps ==
  ASSUME SessionInv, NEW r \in Requests, DisableCurrentUser(r)
  PROVE  SessionInv'
<1> DEFINE todo == <<"delete">>
           q == StartOf("local", todo, None, None)
<1>1. /\ UNCHANGED <<linked, locker, tok, flow, idp, cache, endUser, uses, apart, faults>>
      /\ GetUser /\ locker = None
      /\ acct' = [acct EXCEPT !.disabled = TRUE] /\ RevokeUserRefreshTokens
      /\ Start(r, "local", todo, None, None)
  BY DEF DisableCurrentUser, RowFree
<1>2. acct \in Accounts /\ acct.made
  BY <1>1 DEF SessionInv, AcctInv, GetUser
<1>3. /\ acct' \in Accounts /\ acct'.made
      /\ acct'.pending = acct.pending /\ acct'.verified = acct.verified
  BY <1>1, <1>2 DEF Accounts
<1>5. todo \in UserFixes /\ todo \in Repairs /\ todo \notin {<<"insert">>, <<"rotate">>}
  BY DeletingLists, FillingLists
<1> HIDE DEF todo
<1>6. ReqInv(q, acct'.made, acct'.verified, eu')
  BY <1>3, <1>5, StartsRepairing
<1>7. Turn(r, q) /\ q.todo = todo /\ req[r].todo = <<>> /\ calls' \in 0..MaxCalls
  BY <1>1, <1>6, StartTurns
<1> HIDE DEF q
<1>8. Grows /\ \A x \in Purposes : Created(x)' = Created(x)
  BY <1>1, <1>2, <1>3 DEF Grows, endUser, Created
<1>9. RequestsInv' /\ RateInv' /\ LockInv' /\ CopiesInv'
  BY <1>1, <1>5, <1>7, <1>8, NothingToDo, TurnRest
<1>10. CacheInv'
  BY <1>5, <1>7, CacheWillBeDeleted
<1>11. SessionsInv'
  BY <1>1, <1>3, SessionsEnd
<1>12. AcctInv' /\ TokensInv' /\ EndUserInv'
  BY <1>1, <1>2, <1>3, <1>7 DEF SessionInv, AcctInv, TokensInv, EndUserInv, endUser
<1> QED BY <1>9, <1>10, <1>11, <1>12 DEF SessionInv

(***************************************************************************)
(* The way back from an identity provider.                                 *)
(***************************************************************************)
\* The state of the login is consumed before the provider is asked.
LEMMA CallbackKeeps ==
  ASSUME SessionInv, NEW r \in Requests, NEW s \in LoginStates, OIDCCallback(r, s) \/ SocialCallback(r, s)
  PROVE  SessionInv'
<1> DEFINE todo == <<"exchange", "resolve">>
<1>1. /\ UNCHANGED <<acct, linked, locker, tok, refresh, cache, endUser, former, apart, faults>>
      /\ flow[s] \in Providers /\ idp' \in {idp, "on"} /\ ConsumeLoginState(s)
      /\ \E op \in Providers : Start(r, op, todo, None, None)
  BY DEF OIDCCallback, SocialCallback, ResolveOIDCProvider, Providers
<1>2. PICK op \in Providers : Start(r, op, todo, None, None)
  BY <1>1
<1> DEFINE q == StartOf(op, todo, None, None)
<1>3. todo # <<>> /\ todo \notin {<<"insert">>, <<"rotate">>} /\ todo \in Strangers
  BY DEF Strangers
<1> HIDE DEF todo
<1>4. q.todo = todo /\ q.op = op
  BY <1>3, StartFields
<1>5. ReqInv(q, acct'.made, acct'.verified, eu')
  <2> HIDE DEF q
  <2> QED BY <1>3, <1>4 DEF ReqInv
<1>6. Turn(r, q) /\ req[r].todo = <<>> /\ calls' \in 0..MaxCalls
  BY <1>2, <1>5, StartTurns
<1> HIDE DEF q
<1>7. Grows /\ \A x \in Purposes : Created(x)' = Created(x)
  BY <1>1 DEF Grows, endUser, Created
<1>8. RequestsInv' /\ RateInv' /\ LockInv' /\ CopiesInv'
  BY <1>1, <1>3, <1>4, <1>6, <1>7, NothingToDo, TurnRest
<1>9. CacheInv'
  BY <1>1, <1>6, NothingToDo, CacheRests
<1>10. /\ flow' \in [LoginStates -> Providers \cup {"none", "consumed"}] /\ flow'[s] = "consumed"
       /\ \A x \in LoginStates : x # s => flow'[x] = flow[x]
  BY <1>1 DEF SessionInv, TokensInv, ConsumeLoginState
<1>11. uses[s] # 1 /\ s \in Evidence
  BY <1>1 DEF SessionInv, TokensInv, Evidence, Providers
<1>12. /\ uses' \in [Evidence -> {0, 1}] /\ uses'[s] = 1
       /\ \A x \in Evidence : x # s => uses'[x] = uses[x]
  BY <1>1, <1>11, RedeemOnce DEF SessionInv, ConsumeLoginState
<1>13. \A x \in AuthTokens \cup Refresh : uses'[x] = uses[x]
  BY <1>12, NamesAssumption DEF Evidence
<1>14. TokensInv'
  <2>1. \A x \in LoginStates : uses'[x] = 1 => flow'[x] = "consumed"
    BY <1>10, <1>12 DEF SessionInv, TokensInv, Evidence
  <2> QED BY <1>1, <1>10, <1>12, <1>13, <2>1 DEF SessionInv, TokensInv
<1>15. AcctInv' /\ SessionsInv' /\ EndUserInv'
  BY <1>1, <1>6, <1>13 DEF SessionInv, AcctInv, SessionsInv, EndUserInv, UserTokens, endUser
<1> QED BY <1>8, <1>9, <1>14, <1>15 DEF SessionInv

\* The identity is linked, or was by somebody else and the sign-in ends.
LEMMA LinkKeeps ==
  ASSUME SessionInv, NEW r \in Requests, CreateUserIdentity(r)
  PROVE  SessionInv'
<1>1. req[r].todo = <<"link", "issue">> /\ acct.verified /\ req[r].op \in Providers /\ IsRequest(req[r])
  BY RequestAt, OtherHeads DEF CreateUserIdentity, Doing
<1>2. req[r].todo # <<"rotate">> /\ req[r].todo \notin AuthFixes /\ Tail(req[r].todo) = <<"issue">>
  BY <1>1, Rests DEF AuthFixes, UserFixes, Deleting, SettingAuth, PuttingAuth
<1>3. /\ UNCHANGED <<acct, locker, tok, flow, idp, refresh, cache, endUser, ghosts, faults, calls>>
      /\ linked' = linked \cup {req[r].op}
  BY DEF CreateUserIdentity
<1>4. \E q : Turn(r, q) /\ q.todo \notin {<<"insert">>, <<"rotate">>}
  <2>1. CASE req[r].op \in linked
    <3>1. Go(r, <<>>, None)
      BY <2>1 DEF CreateUserIdentity
    <3> QED BY <3>1, GoesNowhere, GoTurns, NothingToDo
  <2>2. CASE req[r].op \notin linked
    <3> DEFINE todo == <<"issue">>
    <3>1. Go(r, todo, req[r].seen)
      BY <1>2, <2>2 DEF CreateUserIdentity, Done
    <3>2. todo # <<>> /\ todo \notin {<<"insert">>, <<"rotate">>}
      OBVIOUS
    <3>3. ReqInv(GoTo(req[r], todo, req[r].seen), acct'.made, acct'.verified, eu')
      <4>1. acct' = acct /\ todo \in {<<"issue">>, <<"link", "issue">>}
        BY <1>3
      <4> HIDE DEF todo
      <4> QED BY <1>1, <3>2, <4>1, GoesAnswering
    <3> HIDE DEF todo
    <3> QED BY <3>1, <3>2, <3>3, GoTurns
  <2> QED BY <2>1, <2>2
<1>5. PICK q : Turn(r, q) /\ q.todo \notin {<<"insert">>, <<"rotate">>}
  BY <1>4
<1>6. Grows /\ \A p \in Purposes : Created(p)' = Created(p)
  BY <1>3 DEF Grows, endUser, Created
<1>7. RequestsInv' /\ RateInv' /\ LockInv' /\ CopiesInv'
  BY <1>2, <1>3, <1>5, <1>6, TurnRest
<1>8. CacheInv'
  BY <1>2, <1>3, <1>5, CacheRests DEF ghosts
<1>9. AcctInv' /\ TokensInv' /\ SessionsInv' /\ EndUserInv'
  BY <1>1, <1>3 DEF SessionInv, AcctInv, TokensInv, SessionsInv, EndUserInv, UserTokens, endUser, ghosts
<1> QED BY <1>7, <1>8, <1>9 DEF SessionInv

\* Before the account is made nothing is cached, nothing was sent and nobody counts.
LEMMA BeforeSignup ==
  ASSUME SessionInv, ~acct.made
  PROVE  /\ acct = NoAccount /\ cUser = None /\ cAuth = None
         /\ \A t \in AuthTokens : tok[t] = [purpose |-> None, st |-> "none"]
         /\ \A p \in Purposes : Created(p) = {} /\ Inserting(p) = {}
<1>1. acct = NoAccount /\ \A t \in AuthTokens : tok[t] = [purpose |-> None, st |-> "none"]
  BY DEF SessionInv, AcctInv
<1>2. cUser = None /\ cAuth = None
  BY DEF SessionInv, CopiesInv, Honest
<1>3. ASSUME NEW p \in Purposes PROVE Created(p) = {}
  BY <1>1, NamesAssumption DEF Created, Purposes
<1>4. ASSUME NEW r \in Requests, req[r].todo = <<"insert">> PROVE FALSE
  <2>1. req[r].todo # <<>> /\ Head(req[r].todo) = "insert"
    BY <1>4, Rests
  <2>2. ReqInv(req[r], acct.made, acct.verified, eu)
    BY RequestAt
  <2>3. acct.made
    BY <2>1, <2>2, OtherHeads
  <2> QED BY <2>3
<1>5. ASSUME NEW p \in Purposes PROVE Inserting(p) = {}
  BY <1>4 DEF Inserting
<1> QED BY <1>1, <1>2, <1>3, <1>5

\* An account made with a mail.
MadeByMail(r, t, todo) ==
  /\ ~acct.made /\ tok[t].st = "none"
  /\ acct' = [NoAccount EXCEPT !.made = TRUE, !.pending = TRUE]
  /\ tok' = [tok EXCEPT ![t] = [purpose |-> "email_verification", st |-> "live"]]
  /\ Start(r, "local", todo, [pending |-> TRUE, verified |-> FALSE, hash |-> 0], None)
  /\ UNCHANGED <<linked, locker, flow, idp, refresh, cache, endUser, ghosts, faults>>

\* Its first token is within the limit.
LEMMA MadeByMailKeeps ==
  ASSUME SessionInv, NEW r \in Requests, NEW t \in AuthTokens, NEW todo \in {PutAuth, DeletePut},
         MadeByMail(r, t, todo)
  PROVE  SessionInv'
<1> DEFINE row == [made |-> TRUE, hash |-> 0, verified |-> FALSE, pending |-> TRUE, disabled |-> FALSE]
           seen == [pending |-> TRUE, verified |-> FALSE, hash |-> 0]
           q == StartOf("local", todo, seen, None)
<1>1. /\ UNCHANGED <<linked, locker, flow, idp, refresh, cache, endUser, ghosts, faults>>
      /\ ~acct.made /\ tok[t].st = "none" /\ acct' = row
      /\ tok' = [tok EXCEPT ![t] = [purpose |-> "email_verification", st |-> "live"]]
      /\ Start(r, "local", todo, seen, None)
  BY DEF MadeByMail, NoAccount
<1>2. /\ acct = NoAccount /\ cUser = None /\ cAuth = None
      /\ \A p \in Purposes : Created(p) = {} /\ Inserting(p) = {}
  BY <1>1, BeforeSignup
<1>3. acct' \in Accounts /\ acct'.made /\ ~acct'.verified /\ acct'.pending /\ ~acct.verified
  BY <1>1, <1>2, BoundsAssumption DEF Accounts, NoAccount
<1>4. seen \in AuthViews /\ Honest(seen, acct'.made, acct'.verified)
  BY <1>3, BoundsAssumption DEF AuthViews, Honest
<1>5. todo \in Viewing /\ todo \notin Entering \cup Linking \cup Activating
      /\ todo \notin {<<"insert">>, <<"rotate">>}
  BY FillingLists DEF PutAuth, DeletePut
<1> HIDE DEF row, seen
<1>6. ReqInv(q, acct'.made, acct'.verified, eu')
  BY <1>3, <1>4, <1>5, StartsViewing
<1>7. Turn(r, q) /\ q.todo = todo /\ req[r].todo = <<>> /\ calls' \in 0..MaxCalls
  BY <1>1, <1>6, StartTurns
<1> HIDE DEF q
<1>8. Grows
  BY <1>1, <1>3 DEF Grows, endUser
<1>9. RequestsInv'
  BY <1>7, <1>8, TurnRequests DEF SessionInv
<1>10. LockInv'
  BY <1>1, <1>5, <1>7, NothingToDo, TurnLock DEF SessionInv
<1>11. CopiesInv' /\ CacheInv'
  BY <1>1, <1>2 DEF CopiesInv, CacheInv, cache
<1>12. RateInv'
  <2> SUFFICES ASSUME NEW p \in Purposes
               PROVE Cardinality(Created(p)') + Cardinality(Inserting(p)')
                       <= RateLimit + Cardinality(Requests) - 1
    BY DEF RateInv
  <2>1. Created(p)' \subseteq {t}
    BY <1>1, <1>2 DEF Created, SessionInv, TokensInv
  <2>2. Inserting(p)' = {}
    <3>1. Inserting(p) = {}
      BY <1>2
    <3>2. ASSUME NEW x \in Requests, req'[x].todo = <<"insert">>, req'[x].arg.purpose = p PROVE FALSE
      <4>1. x # r /\ req'[x] = req[x]
        BY <1>5, <1>7, <3>2, TurnOthers DEF SessionInv
      <4> QED BY <3>1, <3>2, <4>1 DEF Inserting
    <3> QED BY <3>2 DEF Inserting
  <2>3. Cardinality(Created(p)') <= 1 /\ Cardinality(Created(p)') \in Nat
    <3>1. IsFiniteSet({t}) /\ Cardinality({t}) = 1
      BY FS_Singleton
    <3> QED BY <2>1, <3>1, FS_Subset, FS_CardinalityType
  <2>4. Cardinality(Inserting(p)') = 0
    BY <2>2, FS_EmptySet
  <2>5. Cardinality(Requests) \in Nat /\ Cardinality(Requests) # 0
    BY BoundsAssumption, FS_CardinalityType, FS_EmptySet
  <2> QED BY <2>3, <2>4, <2>5, BoundsAssumption
<1>13. TokensInv'
  <2>1. /\ tok' \in [AuthTokens -> Tokens]
        /\ \A x \in AuthTokens : x # t => tok'[x] = tok[x]
    BY <1>1 DEF SessionInv, TokensInv, Tokens, Purposes
  <2>2. uses[t] # 1
    BY <1>1 DEF SessionInv, TokensInv
  <2> QED BY <1>1, <2>1, <2>2 DEF SessionInv, TokensInv, ghosts
<1>14. AcctInv'
  BY <1>1, <1>3, <1>7 DEF SessionInv, AcctInv
<1>15. SessionsInv' /\ EndUserInv'
  BY <1>1, <1>3 DEF SessionInv, SessionsInv, EndUserInv, UserTokens, endUser, ghosts
<1> QED BY <1>9, <1>10, <1>11, <1>12, <1>13, <1>14, <1>15 DEF SessionInv

\* So are those of a signup ...
LEMMA SignupKeeps ==
  ASSUME SessionInv, NEW r \in Requests, NEW t \in AuthTokens, SignupDeveloper(r, t)
  PROVE  SessionInv'
BY MadeByMailKeeps DEF SignupDeveloper, MadeByMail

\* ... and of an account that an operator has made.
LEMMA ProvisionByMailKeeps ==
  ASSUME SessionInv, NEW r \in Requests, NEW t \in AuthTokens, ProvisionByMail(r, t)
  PROVE  SessionInv'
<1>1. AsView(acct') = [pending |-> TRUE, verified |-> FALSE, hash |-> 0]
  BY DEF ProvisionByMail, AsView, NoAccount
<1> QED BY <1>1, MadeByMailKeeps DEF ProvisionByMail, MadeByMail

\* A signup through a provider: the address is verified from the start.
LEMMA ProviderSignupKeeps ==
  ASSUME SessionInv, NEW r \in Requests, SignupFromProvider(r)
  PROVE  SessionInv'
<1>1. req[r].todo = <<"signup">> /\ req[r].op \in Providers /\ IsRequest(req[r])
  BY RequestAt, OtherHeads DEF SignupFromProvider, Doing
<1>2. req[r].todo # <<"rotate">> /\ req[r].todo \notin AuthFixes
  BY <1>1 DEF AuthFixes, UserFixes, Deleting, SettingAuth, PuttingAuth
<1>3. UNCHANGED <<linked, locker, tok, flow, idp, refresh, cache, endUser, ghosts, faults, calls>>
  BY DEF SignupFromProvider
<1>4. CASE acct.made
  <2>1. Go(r, <<"again">>, None) /\ UNCHANGED <<db, cache, endUser, ghosts, faults, calls>>
    BY <1>3, <1>4 DEF SignupFromProvider, db
  <2>2. <<"again">> # <<>> /\ <<"again">> \in Answers /\ <<"again">> \notin {<<"insert">>, <<"rotate">>}
    BY DEF Answers
  <2>3. ReqInv(GoTo(req[r], <<"again">>, None), acct.made, acct.verified, eu)
    BY <1>1, <1>4, <2>2, GoesAnswering
  <2> QED BY <1>2, <2>1, <2>2, <2>3, GoesQuietly
<1>5. CASE ~acct.made
  <2> DEFINE row == [made |-> TRUE, hash |-> 0, verified |-> TRUE, pending |-> FALSE, disabled |-> FALSE]
             seen == AsView(acct')
             todo == PutAuth \o <<"link", "issue">>
             q == GoTo(req[r], todo, seen)
  <2>1. acct' = row /\ Go(r, todo, seen)
    BY <1>5 DEF SignupFromProvider, NoAccount
  <2>2. acct = NoAccount /\ cUser = None /\ cAuth = None
    BY <1>5, BeforeSignup
  <2>3. acct' \in Accounts /\ acct'.made /\ acct'.verified /\ ~acct'.pending
    BY <2>1, BoundsAssumption DEF Accounts
  <2>4. seen \in AuthViews /\ Honest(seen, acct'.made, acct'.verified)
    BY <2>3 DEF AsView, AuthViews, Honest, Accounts
  <2>5. todo = <<"putUser", "setAuth", "link", "issue">>
    BY Joins DEF PutAuth
  <2> HIDE DEF row, seen, todo
  <2>6. todo \in Linking /\ todo \in Viewing
    BY <2>5 DEF Linking, Viewing
  <2>7. todo \notin {<<"insert">>, <<"rotate">>}
    BY <2>6, FillingLists
  <2>8. ReqInv(q, acct'.made, acct'.verified, eu')
    BY <1>1, <2>3, <2>4, <2>6, GoesViewing
  <2>9. Turn(r, q) /\ q.todo = todo
    BY <2>1, <2>8, GoTurns
  <2> HIDE DEF q
  <2>10. Grows /\ \A p \in Purposes : Created(p)' = Created(p)
    BY <1>3, <2>3 DEF Grows, endUser, Created
  <2>11. RequestsInv' /\ RateInv' /\ LockInv' /\ CopiesInv'
    BY <1>2, <1>3, <2>7, <2>9, <2>10, TurnRest
  <2>12. CacheInv'
    BY <1>3, <2>2 DEF CacheInv, cache
  <2>13. AcctInv' /\ TokensInv' /\ SessionsInv' /\ EndUserInv'
    BY <1>3, <2>3 DEF SessionInv, AcctInv, TokensInv, SessionsInv, EndUserInv, UserTokens, endUser, ghosts
  <2> QED BY <2>11, <2>12, <2>13 DEF SessionInv
<1> QED BY <1>4, <1>5

\* An address that the provider has verified counts as verified.
LEMMA SocialActivateKeeps ==
  ASSUME SessionInv, NEW r \in Requests, ActivateUserFromSocialEmail(r)
  PROVE  SessionInv'
<1>1. /\ req[r].todo \in {<<"activate", "link", "issue">>, <<"activate", "issue">>}
      /\ req[r].op \in Providers /\ IsRequest(req[r])
  BY RequestAt, OtherHeads DEF ActivateUserFromSocialEmail, Doing
<1>2. req[r].todo # <<"rotate">> /\ req[r].todo \notin AuthFixes
      /\ Tail(req[r].todo) \in {<<"link", "issue">>, <<"issue">>}
  BY <1>1, Rests DEF AuthFixes, UserFixes, Deleting, SettingAuth, PuttingAuth
<1>3. UNCHANGED <<linked, locker, flow, idp, refresh, cache, endUser, ghosts, faults, calls>>
  BY DEF ActivateUserFromSocialEmail
<1>4. CASE GetUser
  <2> DEFINE seen == AsView(acct')
             todo == DeletePut \o Tail(req[r].todo)
             q == GoTo(req[r], todo, seen)
  <2>1. /\ acct' = VerifiedRow /\ Go(r, todo, seen)
        /\ tok' = [t \in AuthTokens |-> IF t \in Live("email_verification")
                                        THEN [tok[t] EXCEPT !.st = "used"] ELSE tok[t]]
    BY <1>4 DEF ActivateUserFromSocialEmail
  <2>2. acct \in Accounts /\ acct.made
    BY <1>4 DEF SessionInv, AcctInv, GetUser
  <2>3. acct' \in Accounts /\ acct'.made /\ acct'.verified /\ ~acct'.pending
    BY <2>1, <2>2 DEF VerifiedRow, Accounts
  <2>4. seen \in AuthViews /\ Honest(seen, acct'.made, acct'.verified)
    BY <2>3 DEF AsView, AuthViews, Honest, Accounts
  <2>5. todo \in {<<"delete", "putUser", "link", "issue">>, <<"delete", "putUser", "issue">>}
    BY <1>2, DeletingLists
  <2> HIDE DEF seen, todo
  <2>6. todo \in Viewing /\ todo \in UserFixes
    BY <2>5, DeletingLists
  <2>7. todo \notin {<<"insert">>, <<"rotate">>}
    BY <2>6, FillingLists
  <2>8. ReqInv(q, acct'.made, acct'.verified, eu')
    BY <1>1, <2>3, <2>4, <2>6, GoesViewing
  <2>9. Turn(r, q) /\ q.todo = todo
    BY <2>1, <2>8, GoTurns
  <2> HIDE DEF q
  <2>10. tok \in [AuthTokens -> Tokens]
    BY DEF SessionInv, TokensInv
  <2>11. ASSUME NEW x \in AuthTokens
         PROVE /\ tok'[x] \in Tokens /\ tok'[x].purpose = tok[x].purpose
               /\ tok[x].st = "used" => tok'[x].st = "used"
    BY <2>1, <2>10 DEF Tokens
  <2>12. tok' \in [AuthTokens -> Tokens]
    BY <2>1, <2>11
  <2>13. Grows /\ \A p \in Purposes : Created(p)' = Created(p)
    BY <1>3, <2>2, <2>3, <2>11 DEF Grows, endUser, Created
  <2>14. RequestsInv' /\ RateInv' /\ LockInv' /\ CopiesInv'
    BY <1>2, <1>3, <2>7, <2>9, <2>13, TurnRest
  <2>15. CacheInv'
    BY <2>6, <2>9, CacheWillBeDeleted
  <2>16. TokensInv'
    BY <1>3, <2>11, <2>12 DEF SessionInv, TokensInv, ghosts
  <2>17. AcctInv' /\ SessionsInv' /\ EndUserInv'
    BY <1>3, <2>3 DEF SessionInv, AcctInv, SessionsInv, EndUserInv, UserTokens, endUser, ghosts
  <2> QED BY <2>14, <2>15, <2>16, <2>17 DEF SessionInv
<1>5. CASE ~GetUser
  <2>1. Go(r, <<>>, None) /\ UNCHANGED <<db, cache, endUser, ghosts, faults, calls>>
    BY <1>3, <1>5 DEF ActivateUserFromSocialEmail, db
  <2> QED BY <1>2, <2>1, GoesNowhere, NothingToDo, GoesQuietly
<1> QED BY <1>4, <1>5

(***************************************************************************)
(* Administrators: suspensions, and accounts for a brand cloud.            *)
(***************************************************************************)
\* Nothing is left to do: the request is idle again.
LEMMA StartsAndEnds ==
  ASSUME SessionInv, NEW r \in Requests, Start(r, "local", <<>>, None, None)
  PROVE  Turn(r, Idle) /\ Idle.todo = <<>> /\ req[r].todo = <<>> /\ calls' \in 0..MaxCalls
<1>1. StartOf("local", <<>>, None, None) = Idle
  BY StartFields
<1>2. ReqInv(Idle, acct'.made, acct'.verified, eu')
  BY DEF ReqInv
<1> QED BY <1>1, <1>2, StartTurns

\* A suspension: no sessions, and the copies are set apart.
LEMMA DisableMemberKeeps ==
  ASSUME SessionInv, NEW r \in Requests, DisableMemberUser(r)
  PROVE  SessionInv'
<1>1. /\ UNCHANGED <<linked, locker, tok, flow, idp, cache, endUser, uses, faults>>
      /\ GetUser /\ locker = None
      /\ acct' = [acct EXCEPT !.disabled = TRUE] /\ RevokeUserRefreshTokens
      /\ Start(r, "local", <<>>, None, None) /\ apart' = apart \cup Cached
  BY DEF DisableMemberUser, RowFree
<1>2. acct \in Accounts /\ acct.made
  BY <1>1 DEF SessionInv, AcctInv, GetUser
<1>3. /\ acct' \in Accounts /\ acct'.made
      /\ acct'.pending = acct.pending /\ acct'.verified = acct.verified
  BY <1>1, <1>2 DEF Accounts
<1>4. Turn(r, Idle) /\ Idle.todo = <<>> /\ req[r].todo = <<>> /\ calls' \in 0..MaxCalls
  BY <1>1, StartsAndEnds
<1>5. Grows /\ \A x \in Purposes : Created(x)' = Created(x)
  BY <1>1, <1>2, <1>3 DEF Grows, endUser, Created
<1>6. RequestsInv' /\ RateInv' /\ LockInv' /\ CopiesInv'
  BY <1>1, <1>4, <1>5, NothingToDo, TurnRest
<1>7. CacheInv'
  <2>1. cUser # None => "user" \in apart'
    BY <1>1 DEF Cached, Copies
  <2>2. cAuth # None => "auth" \in apart'
    BY <1>1 DEF Cached, Copies
  <2> QED BY <1>1, <2>1, <2>2 DEF CacheInv, cache
<1>8. SessionsInv'
  BY <1>1, <1>3, SessionsEnd
<1>9. AcctInv' /\ TokensInv' /\ EndUserInv'
  BY <1>1, <1>2, <1>3, <1>4 DEF SessionInv, AcctInv, TokensInv, EndUserInv, endUser
<1> QED BY <1>6, <1>7, <1>8, <1>9 DEF SessionInv

\* Its end: a copy that is not set apart was to be fixed and still is.
LEMMA EnableMemberKeeps ==
  ASSUME SessionInv, NEW r \in Requests, EnableMemberUser(r)
  PROVE  SessionInv'
<1>1. /\ UNCHANGED <<linked, locker, tok, flow, idp, refresh, cache, endUser, ghosts, faults>>
      /\ acct.made /\ ~GetUser /\ locker = None /\ acct' = [acct EXCEPT !.disabled = FALSE]
      /\ Start(r, "local", <<>>, None, None)
  BY DEF EnableMemberUser, RowFree, GetUser
<1>2. acct \in Accounts
  BY DEF SessionInv, AcctInv
<1>3. /\ acct' \in Accounts /\ acct'.made
      /\ acct'.pending = acct.pending /\ acct'.verified = acct.verified
  BY <1>1, <1>2 DEF Accounts
<1>4. Turn(r, Idle) /\ Idle.todo = <<>> /\ req[r].todo = <<>> /\ calls' \in 0..MaxCalls
  BY <1>1, StartsAndEnds
<1>5. Grows /\ \A x \in Purposes : Created(x)' = Created(x)
  BY <1>1, <1>3 DEF Grows, endUser, Created
<1>6. RequestsInv' /\ RateInv' /\ LockInv' /\ CopiesInv'
  BY <1>1, <1>4, <1>5, NothingToDo, TurnRest
<1>7. CacheInv'
  <2>1. WillFix(AuthFixes) => WillFix(AuthFixes)'
    BY <1>4, NothingToDo, TurnFixes DEF WillFix, SessionInv
  <2>2. WillFix(UserFixes) => WillFix(UserFixes)'
    BY <1>4, NothingToDo, TurnFixes DEF WillFix, SessionInv
  <2> QED BY <1>1, <2>1, <2>2 DEF SessionInv, CacheInv, cache, ghosts
<1>8. AcctInv' /\ TokensInv' /\ SessionsInv' /\ EndUserInv'
  BY <1>1, <1>3, <1>4 DEF SessionInv, AcctInv, TokensInv, SessionsInv, EndUserInv, UserTokens, endUser, ghosts
<1> QED BY <1>6, <1>7, <1>8 DEF SessionInv

\* A request has written a verified row and is to cache it.
Verifying(r) ==
  /\ acct' \in Accounts /\ acct'.made /\ acct'.verified /\ ~acct'.pending
  /\ Start(r, "local", PutAuth, AsView(acct'), None)
  /\ UNCHANGED <<linked, locker, tok, flow, idp, refresh, cache, endUser, ghosts, faults>>

\* Both copies will be replaced.
LEMMA VerifiedKeeps ==
  ASSUME SessionInv, NEW r \in Requests, Verifying(r)
  PROVE  SessionInv'
<1> DEFINE seen == AsView(acct')
           todo == PutAuth
           q == StartOf("local", todo, seen, None)
<1>0. /\ acct' \in Accounts /\ acct'.made /\ acct'.verified /\ ~acct'.pending
      /\ UNCHANGED <<linked, locker, tok, flow, idp, refresh, cache, endUser, ghosts, faults>>
      /\ Start(r, "local", PutAuth, seen, None)
  BY DEF Verifying
<1>1. seen \in AuthViews /\ Honest(seen, acct'.made, acct'.verified)
  BY <1>0 DEF AsView, AuthViews, Honest, Accounts
<1>2. todo \in Viewing /\ todo \notin Entering \cup Linking \cup Activating
      /\ todo \notin {<<"insert">>, <<"rotate">>} /\ todo \in UserFixes
  BY FillingLists, DeletingLists DEF PutAuth
<1>9. Start(r, "local", todo, seen, None)
  BY <1>0
<1> HIDE DEF seen, todo
<1>3. ReqInv(q, acct'.made, acct'.verified, eu')
  BY <1>0, <1>1, <1>2, StartsViewing
<1>4. Turn(r, q) /\ q.todo = todo /\ req[r].todo = <<>> /\ calls' \in 0..MaxCalls
  BY <1>9, <1>3, StartTurns
<1> HIDE DEF q
<1>5. Grows /\ \A p \in Purposes : Created(p)' = Created(p)
  BY <1>0 DEF Grows, endUser, Created
<1>6. RequestsInv' /\ RateInv' /\ LockInv' /\ CopiesInv'
  BY <1>0, <1>2, <1>4, <1>5, NothingToDo, TurnRest
<1>7. CacheInv'
  BY <1>2, <1>4, CacheWillBeDeleted
<1>8. AcctInv' /\ TokensInv' /\ SessionsInv' /\ EndUserInv'
  BY <1>0, <1>4 DEF SessionInv, AcctInv, TokensInv, SessionsInv, EndUserInv, UserTokens, endUser, ghosts
<1> QED BY <1>6, <1>7, <1>8 DEF SessionInv

\* An operator makes an account with a password, ...
LEMMA ProvisionNewKeeps ==
  ASSUME SessionInv, NEW r \in Requests, ProvisionNew(r)
  PROVE  SessionInv'
<1>1. acct' = [made |-> TRUE, hash |-> 1, verified |-> TRUE, pending |-> FALSE, disabled |-> FALSE]
  BY DEF ProvisionNew, NoAccount
<1>2. acct' \in Accounts /\ acct'.made /\ acct'.verified /\ ~acct'.pending
  <2>1. 1 \in 0..MaxPasswords
    BY BoundsAssumption DEF ProvisionNew
  <2> QED BY <1>1, <2>1 DEF Accounts
<1> QED BY <1>2, VerifiedKeeps DEF ProvisionNew, Verifying

\* ... gives one that is there a new password, ...
LEMMA ProvisionRotatingKeeps ==
  ASSUME SessionInv, NEW r \in Requests, ProvisionRotating(r)
  PROVE  SessionInv'
<1>1. acct \in Accounts /\ acct.made
  BY DEF ProvisionRotating, SessionInv, AcctInv, GetUser
<1>2. acct' \in Accounts /\ acct'.made /\ acct'.verified /\ ~acct'.pending
  <2>1. NextPassword \in 0..MaxPasswords
    BY <1>1, BoundsAssumption DEF ProvisionRotating, NextPassword, MayChoose, Accounts
  <2>2. VerifiedRow \in Accounts /\ VerifiedRow.made /\ VerifiedRow.verified /\ ~VerifiedRow.pending
    BY <1>1 DEF VerifiedRow, Accounts
  <2>3. acct' = [VerifiedRow EXCEPT !.hash = NextPassword]
    BY DEF ProvisionRotating
  <2> QED BY <2>1, <2>2, <2>3 DEF Accounts
<1> QED BY <1>2, VerifiedKeeps DEF ProvisionRotating, Verifying

\* ... only caches the one he has given, ...
LEMMA ProvisionKeepingKeeps ==
  ASSUME SessionInv, NEW r \in Requests, NEW pw \in 1..MaxPasswords, ProvisionKeeping(r, pw)
  PROVE  SessionInv'
<1> DEFINE seen == [AuthView EXCEPT !.hash = pw]
<1>1. AuthView \in AuthViews /\ Honest(AuthView, acct.made, acct.verified)
  BY ViewIsHonest DEF SessionInv, ProvisionKeeping
<1>2. pw \in 0..MaxPasswords
  BY BoundsAssumption
<1>3. seen \in AuthViews /\ Honest(seen, acct.made, acct.verified)
  BY <1>1, <1>2 DEF AuthViews, Honest
<1>4. PutAuth \in Viewing /\ PutAuth \notin Entering \cup Linking \cup Activating
      /\ PutAuth \notin {<<"insert">>, <<"rotate">>}
  BY FillingLists DEF PutAuth
<1>5. Start(r, "local", PutAuth, seen, None) /\ UNCHANGED <<db, cache, endUser, ghosts, faults>>
  BY DEF ProvisionKeeping
<1> HIDE DEF seen
<1>6. ReqInv(StartOf("local", PutAuth, seen, None), acct.made, acct.verified, eu)
  BY <1>3, <1>4, StartsViewing
<1> QED BY <1>4, <1>5, <1>6, StartsQuietly

\* ... or sends a link: the limit was asked in the same step.
LEMMA ProvisionMailingKeeps ==
  ASSUME SessionInv, NEW r \in Requests, NEW t \in AuthTokens, ProvisionMailing(r, t)
  PROVE  SessionInv'
<1> DEFINE p0 == IF acct.verified THEN "login_activation" ELSE "email_verification"
           q == StartOf("local", DeletePut, AuthView, None)
<1>1. /\ UNCHANGED <<acct, linked, locker, flow, idp, refresh, cache, endUser, ghosts, faults>>
      /\ GetUser /\ tok[t].st = "none" /\ ~OverLimit(p0)
      /\ tok' = [x \in AuthTokens |-> IF x = t THEN [purpose |-> p0, st |-> "live"]
                                      ELSE IF x \in Live(p0) THEN [tok[x] EXCEPT !.st = "used"] ELSE tok[x]]
      /\ Start(r, "local", DeletePut, AuthView, None)
  BY DEF ProvisionMailing
<1>2. AuthView \in AuthViews /\ Honest(AuthView, acct'.made, acct'.verified) /\ acct.made
  BY <1>1, ViewIsHonest DEF SessionInv, GetUser
<1>3. DeletePut \in Viewing /\ DeletePut \notin Entering \cup Linking \cup Activating
      /\ DeletePut \notin {<<"insert">>, <<"rotate">>}
  BY FillingLists DEF DeletePut
<1>4. p0 \in Purposes
  BY DEF Purposes
<1> HIDE DEF p0
<1>5. ReqInv(q, acct'.made, acct'.verified, eu')
  BY <1>2, <1>3, StartsViewing
<1>6. Turn(r, q) /\ q.todo = DeletePut /\ req[r].todo = <<>> /\ calls' \in 0..MaxCalls
  BY <1>1, <1>5, StartTurns
<1> HIDE DEF q
<1>7. Grows
  BY <1>1 DEF Grows, endUser
<1>8. RequestsInv' /\ LockInv'
  BY <1>1, <1>3, <1>6, <1>7, NothingToDo, TurnRequests, TurnLock DEF SessionInv
<1>9. CacheInv'
  BY <1>6, DeletingLists, CacheWillBeDeleted
<1>10. tok \in [AuthTokens -> Tokens]
  BY DEF SessionInv, TokensInv
<1>11. /\ tok' \in [AuthTokens -> Tokens]
       /\ \A x \in AuthTokens : x # t => /\ tok'[x].purpose = tok[x].purpose
                                         /\ tok[x].st = "used" => tok'[x].st = "used"
       /\ tok'[t] = [purpose |-> p0, st |-> "live"]
  <2>1. ASSUME NEW x \in AuthTokens
        PROVE /\ tok'[x] \in Tokens
              /\ x # t => tok'[x].purpose = tok[x].purpose /\ (tok[x].st = "used" => tok'[x].st = "used")
    <3>1. CASE x = t
      BY <1>1, <1>4, <3>1 DEF Tokens
    <3>2. CASE x # t /\ x \in Live(p0)
      <4>1. tok'[x] = [tok[x] EXCEPT !.st = "used"] /\ tok[x] \in Tokens
        BY <1>1, <1>10, <3>2
      <4> QED BY <4>1 DEF Tokens
    <3>3. CASE x # t /\ x \notin Live(p0)
      BY <1>1, <1>10, <3>3
    <3> QED BY <3>1, <3>2, <3>3
  <2> QED BY <1>1, <2>1
<1>12. TokensInv'
  <2>1. uses[t] # 1
    BY <1>1 DEF SessionInv, TokensInv
  <2> QED BY <1>1, <1>11, <2>1 DEF SessionInv, TokensInv, ghosts
<1>13. RateInv'
  <2> SUFFICES ASSUME NEW p \in Purposes
               PROVE Cardinality(Created(p)') + Cardinality(Inserting(p)')
                       <= RateLimit + Cardinality(Requests) - 1
    BY DEF RateInv
  <2>1. IsFiniteSet(Created(p)) /\ IsFiniteSet(Created(p)') /\ IsFiniteSet(Inserting(p)) /\ IsFiniteSet(Requests)
    BY FS_Subset, BoundsAssumption DEF Created, Inserting
  <2>2. Inserting(p)' \subseteq Inserting(p) /\ Inserting(p) \subseteq Requests \ {r}
    BY <1>3, <1>6, NothingToDo, TurnOthers DEF SessionInv, Inserting
  <2>3. IsFiniteSet(Inserting(p)') /\ Cardinality(Inserting(p)') <= Cardinality(Inserting(p))
    BY <2>1, <2>2, FS_Subset
  <2>4. /\ Cardinality(Created(p)) \in Nat /\ Cardinality(Created(p)') \in Nat
        /\ Cardinality(Inserting(p)) \in Nat /\ Cardinality(Inserting(p)') \in Nat /\ Cardinality(Requests) \in Nat
    BY <2>1, <2>3, FS_CardinalityType
  <2>5. CASE p = p0
    <3>1. Created(p)' \subseteq Created(p) \cup {t}
      BY <1>11 DEF Created
    <3>2. Cardinality(Created(p)') <= Cardinality(Created(p)) + 1
      <4>1. IsFiniteSet(Created(p) \cup {t}) /\ Cardinality(Created(p) \cup {t}) <= Cardinality(Created(p)) + 1
        BY <2>1, <2>4, FS_AddElement
      <4>2. Cardinality(Created(p)') <= Cardinality(Created(p) \cup {t}) /\ Cardinality(Created(p) \cup {t}) \in Nat
        BY <3>1, <4>1, FS_Subset, FS_CardinalityType
      <4> QED BY <2>4, <4>1, <4>2
    <3>3. Cardinality(Created(p)) < RateLimit
      BY <1>1, <2>4, <2>5, BoundsAssumption DEF OverLimit
    <3>4. Cardinality(Inserting(p)) <= Cardinality(Requests) - 1
      <4>1. IsFiniteSet(Requests \ {r}) /\ Cardinality(Requests \ {r}) = Cardinality(Requests) - 1
        BY <2>1, FS_RemoveElement
      <4> QED BY <2>2, <4>1, FS_Subset
    <3> QED BY <2>3, <2>4, <3>2, <3>3, <3>4, BoundsAssumption
  <2>6. CASE p # p0
    <3>1. Created(p)' \subseteq Created(p)
      BY <1>11, <2>6 DEF Created
    <3>2. Cardinality(Created(p)') <= Cardinality(Created(p))
      BY <2>1, <3>1, FS_Subset
    <3>3. Cardinality(Created(p)) + Cardinality(Inserting(p)) <= RateLimit + Cardinality(Requests) - 1
      BY DEF SessionInv, RateInv
    <3> QED BY <2>3, <2>4, <3>2, <3>3, BoundsAssumption
  <2> QED BY <2>5, <2>6
<1>14. AcctInv' /\ CopiesInv' /\ SessionsInv' /\ EndUserInv'
  BY <1>1, <1>2, <1>6
     DEF SessionInv, AcctInv, CopiesInv, SessionsInv, EndUserInv, UserTokens, cache, endUser, ghosts
<1> QED BY <1>8, <1>9, <1>12, <1>13, <1>14 DEF SessionInv

\* In all the ways there are.
LEMMA ProvisionKeeps ==
  ASSUME SessionInv, NEW r \in Requests, ProvisionBrandCloudAccount(r)
  PROVE  SessionInv'
BY ProvisionNewKeeps, ProvisionRotatingKeeps, ProvisionKeepingKeeps, ProvisionByMailKeeps, ProvisionMailingKeeps
   DEF ProvisionBrandCloudAccount

(***************************************************************************)
(* The exchange of a refresh token.                                        *)
(***************************************************************************)
\* The exchange begins: the request holds the user's row and the token is live.
LEMMA RotateLockKeeps ==
  ASSUME SessionInv, NEW r \in Requests, NEW t \in Refresh, RotateLock(r, t)
  PROVE  SessionInv'
<1> DEFINE todo == <<"rotate">>
           q == StartOf("local", todo, None, t)
<1>1. /\ UNCHANGED <<acct, linked, tok, flow, idp, refresh, cache, endUser, ghosts, faults>>
      /\ refresh[t].of = "user" /\ refresh[t].st = "live" /\ locker = None /\ locker' = r
      /\ Start(r, "local", todo, None, t)
  BY DEF RotateLock, RefreshTokenActive, ParseRefreshToken, RowFree
<1>2. todo # <<>> /\ todo # <<"insert">> /\ todo = <<"rotate">>
  OBVIOUS
<1> HIDE DEF todo
<1>3. q.todo = todo /\ q.arg = t
  BY <1>2, StartFields
<1>4. ReqInv(q, acct'.made, acct'.verified, eu')
  <2> HIDE DEF q
  <2> QED BY <1>2, <1>3 DEF ReqInv
<1>5. Turn(r, q) /\ req[r].todo = <<>> /\ calls' \in 0..MaxCalls
  BY <1>1, <1>4, StartTurns
<1> HIDE DEF q
<1>6. Grows /\ \A x \in Purposes : Created(x)' = Created(x)
  BY <1>1 DEF Grows, endUser, Created
<1>7. RequestsInv'
  BY <1>5, <1>6, TurnRequests DEF SessionInv
<1>8. RateInv'
  BY <1>2, <1>3, <1>5, <1>6, TurnRate DEF SessionInv
<1>9. CopiesInv' /\ CacheInv'
  BY <1>1, <1>5, NothingToDo, CacheRests DEF SessionInv, CopiesInv, cache, ghosts
<1>10. LockInv'
  <2>1. req'[r] = q /\ \A x \in Requests : x # r => req'[x] = req[x]
    BY <1>5, TurnOthers DEF SessionInv
  <2>2. refresh'[t] = [of |-> "user", st |-> "live"]
    BY <1>1 DEF SessionInv, SessionsInv, Sessions
  <2>3. \A x \in Requests : x # r => req[x].todo # <<"rotate">>
    BY <1>1, NamesAssumption DEF SessionInv, LockInv
  <2>4. ASSUME NEW x \in Requests, req'[x].todo = <<"rotate">>
        PROVE locker' = x /\ refresh'[req'[x].arg] = [of |-> "user", st |-> "live"]
    <3>1. x = r
      BY <2>1, <2>3, <2>4
    <3> QED BY <1>1, <1>3, <2>1, <2>2, <3>1
  <2> QED BY <1>1, <1>2, <1>3, <2>1, <2>4 DEF LockInv
<1>11. AcctInv' /\ TokensInv' /\ SessionsInv' /\ EndUserInv'
  BY <1>1, <1>5 DEF SessionInv, AcctInv, TokensInv, SessionsInv, EndUserInv, UserTokens, endUser, ghosts
<1> QED BY <1>7, <1>8, <1>9, <1>10, <1>11 DEF SessionInv

\* The token is still live: nothing that ends sessions gets past the row's lock.
LEMMA RotateCommitKeeps ==
  ASSUME SessionInv, NEW r \in Requests, NEW n \in Refresh, RotateCommit(r, n)
  PROVE  SessionInv'
<1> DEFINE t == req[r].arg
<1>1. req[r].todo = <<"rotate">> /\ t \in Refresh
  BY RequestAt, OtherHeads DEF RotateCommit, Doing
<1>2. locker = r /\ refresh[t] = [of |-> "user", st |-> "live"]
  BY <1>1 DEF SessionInv, LockInv
<1>3. /\ UNCHANGED <<acct, linked, tok, flow, idp, cache, endUser, apart, faults, calls>>
      /\ refresh[n].st = "none" /\ locker' = None
      /\ refresh' = [refresh EXCEPT ![t].st = "revoked", ![n] = [of |-> "user", st |-> "live"]]
      /\ former' = IF t \in former THEN former \cup {n} ELSE former
      /\ Redeem(t)
  BY <1>2 DEF RotateCommit
<1> HIDE DEF t
<1>4. Tail(req[r].todo) = <<>> /\ req[r].todo \notin AuthFixes
  BY <1>1, Rests DEF AuthFixes, UserFixes, Deleting, SettingAuth, PuttingAuth
<1>5. PICK q : Turn(r, q) /\ q.todo = <<>>
  BY <1>4, LastStep DEF RotateCommit
<1>6. Grows /\ \A p \in Purposes : Created(p)' = Created(p)
  BY <1>3 DEF Grows, endUser, Created
<1>7. RequestsInv'
  BY <1>5, <1>6, TurnRequests DEF SessionInv
<1>8. RateInv'
  BY <1>5, <1>6, NothingToDo, TurnRate DEF SessionInv
<1>9. CopiesInv'
  BY <1>3 DEF SessionInv, CopiesInv, cache
<1>10. CacheInv'
  BY <1>3, <1>4, <1>5, CacheRests
<1>11. LockInv'
  <2>1. \A x \in Requests : req'[x].todo # <<"rotate">>
    <3>1. \A x \in Requests : x # r => req[x].todo # <<"rotate">> /\ req'[x] = req[x]
      BY <1>2, <1>5, TurnOthers DEF SessionInv, LockInv
    <3>2. req'[r].todo # <<"rotate">>
      BY <1>5, NothingToDo, TurnOthers DEF SessionInv
    <3> QED BY <3>1, <3>2
  <2> QED BY <1>3, <2>1 DEF LockInv
<1>12. refresh \in [Refresh -> Sessions] /\ t # n /\ t \notin former /\ n \notin former /\ uses[t] # 1 /\ uses[n] # 1
  BY <1>1, <1>2, <1>3 DEF SessionInv, SessionsInv
<1>13. /\ refresh' \in [Refresh -> Sessions] /\ refresh'[t].st = "revoked"
       /\ \A x \in Refresh : x # t /\ x # n => refresh'[x] = refresh[x]
  BY <1>1, <1>3, <1>12 DEF Sessions
<1>14. acct.verified
  BY <1>1, <1>2 DEF SessionInv, SessionsInv, UserTokens
<1>15. t \in Evidence
  BY <1>1 DEF Evidence
<1>16. /\ uses' \in [Evidence -> {0, 1}] /\ uses'[t] = 1
       /\ \A x \in Evidence : x # t => uses'[x] = uses[x]
  BY <1>3, <1>12, <1>15, RedeemOnce DEF SessionInv
<1>17. SessionsInv'
  <2>1. \A x \in Refresh : uses'[x] = 1 => refresh'[x].st = "revoked"
    <3>1. ASSUME NEW x \in Refresh, uses'[x] = 1, x # t PROVE refresh'[x].st = "revoked"
      <4>1. uses[x] = 1 /\ refresh[x].st = "revoked"
        BY <1>16, <3>1 DEF SessionInv, SessionsInv, Evidence
      <4> QED BY <1>12, <1>13, <3>1, <4>1
    <3> QED BY <1>13, <3>1
  <2>2. \A x \in former' : x \in Refresh /\ refresh'[x].st = "revoked"
    <3>1. former' = former
      BY <1>3, <1>12
    <3> QED BY <1>12, <1>13, <3>1 DEF SessionInv, SessionsInv
  <2> QED BY <1>3, <1>13, <1>14, <2>1, <2>2 DEF SessionsInv
<1>18. TokensInv'
  <2>1. \A x \in AuthTokens \cup LoginStates : uses'[x] = uses[x]
    BY <1>1, <1>16, NamesAssumption DEF Evidence
  <2> QED BY <1>3, <1>16, <2>1 DEF SessionInv, TokensInv
<1>19. AcctInv' /\ EndUserInv'
  BY <1>3 DEF SessionInv, AcctInv, EndUserInv, endUser
<1> QED BY <1>7, <1>8, <1>9, <1>10, <1>11, <1>17, <1>18, <1>19 DEF SessionInv

(***************************************************************************)
(* The invariant holds in every state.                                     *)
(***************************************************************************)
\* At the start nobody is at work and nothing is there.
LEMMA InitHolds == Init => SessionInv
<1> SUFFICES ASSUME Init PROVE SessionInv
  OBVIOUS
<1>1. AcctInv
  BY BoundsAssumption DEF Init, AcctInv, Accounts, NoAccount
<1>2. CopiesInv /\ EndUserInv /\ CacheInv
  BY DEF Init, CopiesInv, EndUserInv, CacheInv
<1>3. RequestsInv
  BY DEF Init, RequestsInv, IsRequest, ReqInv, Idle
<1>4. TokensInv
  BY DEF Init, TokensInv, Tokens, Evidence
<1>5. SessionsInv
  <2>1. refresh \in [Refresh -> Sessions]
    BY DEF Init, Sessions
  <2>2. UserTokens = {}
    BY NamesAssumption DEF Init, UserTokens
  <2> QED BY <2>1, <2>2 DEF Init, SessionsInv, Evidence
<1>6. \A r \in Requests : req[r].todo = <<>>
  BY DEF Init, Idle
<1>7. LockInv
  BY <1>6, NothingToDo DEF Init, LockInv
<1>8. RateInv
  <2> SUFFICES ASSUME NEW p \in Purposes
               PROVE Cardinality(Created(p)) + Cardinality(Inserting(p)) <= RateLimit + Cardinality(Requests) - 1
    BY DEF RateInv
  <2>1. Created(p) = {}
    BY NamesAssumption DEF Init, Created, Purposes
  <2>2. Inserting(p) = {}
    BY <1>6, NothingToDo DEF Inserting
  <2>3. Cardinality(Created(p)) = 0 /\ Cardinality(Inserting(p)) = 0 /\ Cardinality(Requests) \in Nat
    BY <2>1, <2>2, FS_EmptySet, BoundsAssumption, FS_CardinalityType
  <2> QED BY <2>3, BoundsAssumption
<1> QED BY <1>1, <1>2, <1>3, <1>4, <1>5, <1>7, <1>8 DEF SessionInv

\* Every step keeps the invariant.
LEMMA NextKeeps ==
  ASSUME SessionInv, [Next]_vars
  PROVE  SessionInv'
<1>1. ASSUME NEW r \in Requests, PutPlatformUser(r) \/ PutPlatformAuth(r) \/ DeletePlatformUser(r)
                                 \/ FlushPlatformAuth(r) \/ CommandLost(r)
      PROVE SessionInv'
  BY <1>1, PutUserKeeps, PutAuthKeeps, DeleteKeeps, FlushKeeps, LostKeeps
<1>2. ASSUME NEW r \in Requests, \/ Authenticate(r) \/ RebuildCache(r) \/ DeleteFromCache(r) \/ CountAuthTokens(r)
                                 \/ SignIn(r) \/ ResendVerification(r) \/ ForgotPassword(r)
      PROVE SessionInv'
  BY <1>2, AuthenticateKeeps, RebuildKeeps, DropKeeps, CountKeeps, IssueKeeps
     DEF SignIn, ResendVerification, ForgotPassword, Purposes
<1>3. ASSUME NEW r \in Requests, NEW t \in AuthTokens,
             \/ CreateAuthToken(r, t) \/ Signup(r, t) \/ VerifyEmail(r, t) \/ ActivateLogin(r, t) \/ ResetPassword(r, t)
      PROVE SessionInv'
  BY <1>3, CreateTokenKeeps, SignupKeeps, ResumeKeeps, VerifyKeeps, ActivateLoginKeeps, ResetKeeps DEF Signup
<1>4. ASSUME NEW r \in Requests, NEW pw \in 1..MaxPasswords,
             ChangePassword(r, pw) \/ Login(r, pw) \/ EndUserLogin(r, pw)
      PROVE SessionInv'
  BY <1>4, ChangeKeeps, LoginKeeps, EndUserLoginKeeps
<1>5. ASSUME NEW r \in Requests, \/ UpdateUserPassword(r) \/ RereadPassword(r) \/ DisableCurrentUser(r)
                                 \/ DisableMemberUser(r) \/ EnableMemberUser(r) \/ ProvisionBrandCloudAccount(r)
                                 \/ ExchangeAndValidate(r) \/ ExchangeAndIdentify(r)
      PROVE SessionInv'
  BY <1>5, UpdateKeeps, RereadKeeps, DisableKeeps, DisableMemberKeeps, EnableMemberKeeps, ProvisionKeeps,
     ExchangeKeeps
<1>6. ASSUME NEW r \in Requests, NEW s \in LoginStates, OIDCCallback(r, s) \/ SocialCallback(r, s)
      PROVE SessionInv'
  BY <1>6, CallbackKeeps
<1>7. ASSUME NEW r \in Requests, \/ ResolveOIDCUser(r) \/ ResolveSocialUser(r) \/ SignupFromProvider(r)
                                 \/ ActivateUserFromSocialEmail(r) \/ CreateUserIdentity(r)
      PROVE SessionInv'
  BY <1>7, ResolveOIDCKeeps, ResolveSocialKeeps, ProviderSignupKeeps, SocialActivateKeeps, LinkKeeps
<1>8. ASSUME NEW r \in Requests, NEW t \in Refresh,
             SaveRefreshToken(r, t) \/ RotateLock(r, t) \/ RotateCommit(r, t) \/ SaveEndUserRefreshToken(r, t)
      PROVE SessionInv'
  BY <1>8, SaveKeeps, RotateLockKeeps, RotateCommitKeeps, SaveEndKeeps
<1>9. ASSUME NEW r \in Requests, CreateEndUser(r) \/ PutEndUserLogin(r)
      PROVE SessionInv'
  BY <1>9, CreateEndKeeps, PutEndKeeps
<1>10. ASSUME NEW t \in AuthTokens, ExpireAuthToken(t) PROVE SessionInv'
  BY <1>10, ExpireKeeps
<1>11. ASSUME NEW s \in LoginStates, StartOIDCLogin(s) \/ StartSocialLogin(s) PROVE SessionInv'
  BY <1>11, LoginStateKeeps
<1>12. ASSUME \/ \E on \in {"on", "off"} : CreateIdentityProvider(on)
              \/ UpdateIdentityProvider \/ DisableIdentityProvider
       PROVE SessionInv'
  BY <1>12, ProviderKeeps
<1>13. ASSUME NEW p \in Providers, DeleteUserIdentity(p) PROVE SessionInv'
  BY <1>13, UnlinkKeeps
<1>14. ASSUME NEW t \in Refresh, RevokeRefreshToken(t) PROVE SessionInv'
  BY <1>14, RevokeKeeps
<1>15. ASSUME NEW t \in Refresh, NEW n \in Refresh, RotateEndUserRefreshToken(t, n) PROVE SessionInv'
  BY <1>15, RotateEndKeeps
<1>16. CASE UNCHANGED vars
  <2>1. UNCHANGED <<acct, linked, locker, tok, flow, idp, refresh, cUser, cEmail, cAuth, eu, euCache, euOpened, req,
                    former, uses, apart, faults, calls>>
    BY <1>16 DEF vars, db, cache, endUser, ghosts
  <2>2. \A p \in Purposes : Created(p)' = Created(p)
    BY <2>1 DEF Created
  <2>3. RequestsInv' /\ RateInv' /\ LockInv' /\ CopiesInv' /\ CacheInv'
    BY <2>1, <2>2, StillRest DEF cache
  <2>4. AcctInv' /\ TokensInv' /\ SessionsInv' /\ EndUserInv'
    BY <2>1 DEF SessionInv, AcctInv, TokensInv, SessionsInv, EndUserInv, UserTokens
  <2> QED BY <2>3, <2>4 DEF SessionInv
<1> QED BY <1>1, <1>2, <1>3, <1>4, <1>5, <1>6, <1>7, <1>8, <1>9, <1>10, <1>11, <1>12, <1>13, <1>14, <1>15, <1>16,
           Zenon DEF Next

\* So it holds in every state of every behaviour.
LEMMA SessionAlways == Spec => []SessionInv
<1>1. Init => SessionInv
  BY InitHolds
<1>2. SessionInv /\ [Next]_vars => SessionInv'
  BY NextKeeps
<1> QED BY <1>1, <1>2, PTL DEF Spec

\* Whichever requests race through verification, links, provider logins, renewals and
\* first logins, and however many: the rows have their types, a session exists only of a
\* verified account, nothing is redeemed twice, the rate limit is passed by at most one
\* token for each request but the first, and only the registered password opens the
\* sessions of an end user (VerifyEmailToken, consumeAuthTokenTx, ConsumeOIDCLoginState,
\* RotateRefreshToken, CreateEndUser).
THEOREM NobodySlipsIn == Spec => []SignInIsSound
<1>1. SessionInv => SignInIsSound
  <2> SUFFICES ASSUME SessionInv PROVE SignInIsSound
    OBVIOUS
  <2>1. locker # None => Doing(locker, "rotate")
    BY HeldToken
  <2>2. acct.hash \in 0..MaxPasswords /\ ~(acct.pending /\ acct.verified)
    BY DEF SessionInv, AcctInv, Accounts, NoAccount
  <2>3. TypeOK
    BY <2>1, <2>2 DEF SessionInv, AcctInv, TokensInv, SessionsInv, LockInv, Tokens, Sessions, TypeOK
  <2>4. SessionsAreVerified
    BY DEF SessionInv, SessionsInv, SessionsAreVerified
  <2>5. UsedOnce
    BY DEF SessionInv, TokensInv, UsedOnce
  <2>6. RateLimitHolds
    <3> SUFFICES ASSUME NEW p \in Purposes
                 PROVE Cardinality(Created(p)) <= RateLimit + Cardinality(Requests) - 1
      BY DEF RateLimitHolds
    <3>1. Cardinality(Created(p)) + Cardinality(Inserting(p)) <= RateLimit + Cardinality(Requests) - 1
      BY DEF SessionInv, RateInv
    <3>2. IsFiniteSet(Created(p)) /\ IsFiniteSet(Inserting(p))
      BY FS_Subset, BoundsAssumption DEF Created, Inserting
    <3>3. /\ Cardinality(Created(p)) \in Nat /\ Cardinality(Inserting(p)) \in Nat /\ Cardinality(Requests) \in Nat
      BY <3>2, FS_CardinalityType, BoundsAssumption
    <3> QED BY <3>1, <3>3, BoundsAssumption
  <2>7. EndUserSessionsMatch
    BY DEF SessionInv, EndUserInv, EndUserSessionsMatch
  <2> QED BY <2>3, <2>4, <2>5, <2>6, <2>7 DEF SignInIsSound
<1> QED BY <1>1, SessionAlways, PTL

\* A reset, a change of the password, the deletion and the suspension of the account leave no
\* session of before alive, a renewal that was under way included: it holds the user's row, and what
\* ends sessions waits for it (ResetPasswordWithToken, UpdateUserPassword,
\* DisableUser, DisableMemberUser, RotateRefreshToken).
THEOREM PasswordsEndSessions == Spec => []SessionsEndWithPassword
<1>1. SessionInv => SessionsEndWithPassword
  BY DEF SessionInv, SessionsInv, SessionsEndWithPassword
<1> QED BY <1>1, SessionAlways, PTL

\* When no request is at work the cached user and the cached credentials are those of the
\* row, unless the last write of that copy explains why not: it came after the row had
\* changed, a command of the cache failed since, or the row was changed past the cache.
\* A path that changes the row and forgets the cache would show (usercache.Store).
THEOREM CacheAgreesAtRest == Spec => []CacheIsCurrent
<1>1. SessionInv => CacheIsCurrent
  <2> SUFFICES ASSUME SessionInv, \A r \in Requests : req[r] = Idle
               PROVE /\ cUser # None /\ "user" \notin apart => GetUser /\ cUser = View
                     /\ cAuth # None /\ "auth" \notin apart => GetUser /\ cAuth = AuthView
    BY DEF CacheIsCurrent
  <2>1. \A r \in Requests : req[r].todo = <<>>
    BY DEF Idle
  <2>2. ~WillFix(UserFixes) /\ ~WillFix(AuthFixes)
    BY <2>1, NothingToDo DEF WillFix
  <2> QED BY <2>2 DEF SessionInv, CacheInv
<1> QED BY <1>1, SessionAlways, PTL
=============================================================================
