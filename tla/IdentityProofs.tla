---------------------------- MODULE IdentityProofs ----------------------------
(***************************************************************************)
(* For any users, subjects, logins and requests: sessions that are         *)
(* accepted are current, a login leads to one code and one session, the    *)
(* setup stays closed while there are users, and pending logins are        *)
(* bounded for each browser.                                               *)
(***************************************************************************)
EXTENDS Identity, FiniteSetTheorems, TLAPS

USE IdentityAssumption

-----------------------------------------------------------------------------
(* Types. *)

LEMMA NothingKnown == Nothing \in Known
BY DEF Nothing, Known

LEMMA InitTypeOK == Init => TypeOK
<1> SUFFICES ASSUME Init PROVE TypeOK
  OBVIOUS
<1>1. /\ user \in [Users -> User \cup {None}] /\ unused \subseteq LocalUsers \cup Logins
      /\ config \in [setting: Settings, revision: Nat]
      /\ login \in [Logins -> Login \cup {None}]
      /\ code \in [Logins -> [user: Users, consumed: BOOLEAN] \cup {None}]
      /\ codes \in [Logins -> Nat] /\ sessions \in [Logins -> Nat]
  BY DEF Init
<1>2. pc \in [Requests -> Steps] /\ request \in [Requests -> Known]
  BY NothingKnown DEF Init, Steps
<1>3. \A r \in Requests : pc[r] = "idle" /\ lock # r
  BY DEF Init
<1>. QED BY <1>1, <1>2, <1>3 DEF Init, TypeOK, KnowsEnough

\* A request that goes on with what is typed keeps every request typed.
LEMMA GoTyped ==
  ASSUME TypeOK, NEW r \in Requests, NEW p \in Steps, NEW v \in Known, Go(r, p, v)
  PROVE  /\ pc' \in [Requests -> Steps] /\ request' \in [Requests -> Known]
         /\ pc'[r] = p /\ request'[r] = v
         /\ \A q \in Requests \ {r} : pc'[q] = pc[q] /\ request'[q] = request[q]
BY DEF TypeOK, Go

LEMMA TokenTyped ==
  ASSUME NEW u \in Users, NEW x \in User
  PROVE  TokenOf(u, x) \in Token
BY DEF User, Token, TokenOf

LEMMA VoidTyped ==
  ASSUME NEW x \in User
  PROVE  Void(x) \in User
<1>1. x.version + 1 \in Nat /\ x.epoch + 1 \in Nat
  BY DEF User
<1>. QED BY <1>1 DEF User, Void

LEMMA RestoreTyped ==
  ASSUME NEW x \in User
  PROVE  Restore(x) \in User
<1>1. x.epoch + 1 \in Nat
  BY DEF User
<1>. QED BY <1>1 DEF User, Restore

LEMMA NewUserTyped ==
  ASSUME NEW role \in Roles, created \in Nat
  PROVE  NewUser(role) \in User
BY DEF User, NewUser

\* Every step of a request that has gone through: what it writes is typed.
TypedButRequests ==
  /\ user \in [Users -> User \cup {None}]
  /\ unused \subseteq LocalUsers \cup Logins
  /\ lock \in Requests \cup {None}
  /\ config \in [setting: Settings, revision: Nat]
  /\ login \in [Logins -> Login \cup {None}]
  /\ code \in [Logins -> [user: Users, consumed: BOOLEAN] \cup {None}]
  /\ expired \subseteq {"login", "code"} \X Logins
  /\ token \subseteq Token
  /\ operations \in Nat /\ created \in Nat
  /\ codes \in [Logins -> Nat] /\ sessions \in [Logins -> Nat]
  /\ setups \in Nat /\ emptied \in Nat /\ overlapped \in BOOLEAN

\* The request r, which was in no transaction of the setup, takes a typed step.
LEMMA PlainStep ==
  ASSUME TypeOK, NEW r \in Requests, NEW p \in Steps \ {"create"}, NEW v \in Known,
         Go(r, p, v), pc[r] # "create", lock' = lock, unused' \subseteq unused,
         TypedButRequests', KnowsEnough(p, v, Logins \ unused')
  PROVE  TypeOK'
<1>1. /\ pc' \in [Requests -> Steps] /\ request' \in [Requests -> Known]
      /\ pc'[r] = p /\ request'[r] = v
      /\ \A q \in Requests \ {r} : pc'[q] = pc[q] /\ request'[q] = request[q]
  BY GoTyped
<1>2. \A q \in Requests : KnowsEnough(pc'[q], request'[q], Logins \ unused')
  <2>1. ASSUME NEW q \in Requests \ {r}
        PROVE  KnowsEnough(pc'[q], request'[q], Logins \ unused')
    BY <1>1, <2>1 DEF TypeOK, KnowsEnough
  <2>. QED BY <1>1, <2>1
<1>3. \A q \in Requests : lock' = q <=> pc'[q] = "create"
  BY <1>1 DEF TypeOK
<1>. QED BY <1>1, <1>2, <1>3 DEF TypeOK, TypedButRequests

\* What a request knows is typed.
LEMMA KnownFields ==
  ASSUME TypeOK, NEW r \in Requests
  PROVE  /\ request[r] \in Known
         /\ KnowsEnough(pc[r], request[r], Logins \ unused)
BY DEF TypeOK

\* A step that leaves everything but requests alone.
LEMMA QuietStep ==
  ASSUME TypeOK, NEW r \in Requests, NEW p \in Steps \ {"create"}, NEW v \in Known,
         Go(r, p, v), pc[r] # "create", operations' \in Nat,
         UNCHANGED <<user, unused, lock, oidc, token, history>>,
         KnowsEnough(p, v, Logins \ unused)
  PROVE  TypeOK'
<1>1. TypedButRequests' /\ lock' = lock /\ unused' \subseteq unused
  BY DEF TypedButRequests, TypeOK, oidc, history
<1>2. KnowsEnough(p, v, Logins \ unused')
  OBVIOUS
<1>. QED BY <1>1, <1>2, PlainStep

\* A request ends.
LEMMA EndStep ==
  ASSUME TypeOK, NEW r \in Requests, End(r), pc[r] # "create",
         lock' = lock, unused' \subseteq unused, TypedButRequests'
  PROVE  TypeOK'
<1>1. "idle" \in Steps \ {"create"}
  BY DEF Steps
<1>2. KnowsEnough("idle", Nothing, Logins \ unused')
  BY DEF KnowsEnough
<1>. QED BY <1>1, <1>2, PlainStep, NothingKnown DEF End

\* Requests that begin.
Beginning(r) ==
  \/ \E u \in LocalUsers :
       SignIn(r, u) \/ \E session \in BOOLEAN : ReadForPassword(r, u, session)
  \/ Add(r) \/ ReadConfig(r)
  \/ \E t \in token, u \in Existing : Remove(r, t, u)
  \/ \E b \in Browsers : Begin(r, b) \/ \E l \in Logins : Callback(r, b, l)
  \/ \E l \in Logins : Exchange(r, l)

LEMMA BeginningTyped ==
  ASSUME TypeOK, NEW r \in Requests, Beginning(r)
  PROVE  TypeOK'
<1>1. /\ pc[r] # "create" /\ operations' \in Nat
      /\ UNCHANGED <<user, unused, lock, oidc, token, history>>
  <2>1. Start(r) /\ UNCHANGED <<user, unused, lock, oidc, token, history>>
    BY DEF Beginning, SignIn, ReadForPassword, Add, ReadConfig, Begin, Remove, Callback,
           Exchange
  <2>. QED BY <2>1 DEF Start, TypeOK
<1>. DEFINE Typed(p, v) == /\ p \in Steps \ {"create"} /\ v \in Known
                           /\ KnowsEnough(p, v, Logins \ unused) /\ Go(r, p, v)
<1>2. ASSUME NEW p, NEW v, Typed(p, v) PROVE TypeOK'
  BY <1>1, <1>2, QuietStep
<1>. HIDE DEF Typed
<1>3. ASSUME NEW u \in LocalUsers, SignIn(r, u)
      PROVE  TypeOK'
  <2>1. user[u] \in User
    BY <1>3 DEF SignIn, TypeOK, Users
  <2>2. TokenOf(u, user[u]) \in Token
    BY <2>1, TokenTyped DEF Users
  <2>3. Typed("sign", [Nothing EXCEPT !.token = TokenOf(u, user[u])])
    BY <1>3, <2>2 DEF SignIn, Typed, Nothing, Known, KnowsEnough, Steps
  <2>. QED BY <1>2, <2>3
<1>4. ASSUME NEW u \in LocalUsers, NEW session \in BOOLEAN, ReadForPassword(r, u, session)
      PROVE  TypeOK'
  <2>1. user[u] \in User /\ u \in Users
    BY <1>4 DEF ReadForPassword, TypeOK, Users
  <2>2. user[u].version \in Nat
    BY <2>1 DEF User
  <2>3. Typed("password", [Nothing EXCEPT !.user = u, !.session = session,
                                          !.seen = user[u].version])
    BY <1>4, <2>1, <2>2 DEF ReadForPassword, Typed, Nothing, Known, KnowsEnough, Steps
  <2>. QED BY <1>2, <2>3
<1>5. CASE Add(r)
  BY <1>2, <1>5, NothingKnown DEF Add, Typed, KnowsEnough, Steps
<1>6. CASE ReadConfig(r)
  <2>1. Typed("configure", [Nothing EXCEPT !.previous = config.setting])
    BY <1>6 DEF ReadConfig, Typed, Nothing, Known, KnowsEnough, Steps, TypeOK
  <2>. QED BY <1>2, <2>1
<1>7. ASSUME NEW b \in Browsers, Begin(r, b)
      PROVE  TypeOK'
  <2>1. Typed("begin", [Nothing EXCEPT !.browser = b, !.seen = config.revision])
    BY <1>7 DEF Begin, Typed, Nothing, Known, KnowsEnough, Steps, TypeOK
  <2>. QED BY <1>2, <2>1
<1>8. ASSUME NEW t \in token, NEW u \in Existing, Remove(r, t, u)
      PROVE  TypeOK'
  <2>1. u \in Users
    BY DEF Existing
  <2>2. Typed("remove", [Nothing EXCEPT !.user = u])
    BY <1>8, <2>1 DEF Remove, Typed, Nothing, Known, KnowsEnough, Steps
  <2>. QED BY <1>2, <2>2
<1>9. ASSUME NEW b \in Browsers, NEW l \in Logins, Callback(r, b, l)
      PROVE  TypeOK'
  <2>1. Typed("find", [Nothing EXCEPT !.login = l, !.browser = b, !.seen = config.revision])
    BY <1>9 DEF Callback, Typed, Nothing, Known, KnowsEnough, Steps, TypeOK
  <2>. QED BY <1>2, <2>1
<1>10. ASSUME NEW l \in Logins, Exchange(r, l)
       PROVE  TypeOK'
  <2>1. code[l].user \in Users
    BY <1>10 DEF Exchange, TypeOK
  <2>2. Typed("exchange", [Nothing EXCEPT !.login = l, !.user = code[l].user])
    BY <1>10, <2>1 DEF Exchange, Typed, Nothing, Known, KnowsEnough, Steps
  <2>. QED BY <1>2, <2>2
<1>. QED BY <1>3, <1>4, <1>5, <1>6, <1>7, <1>8, <1>9, <1>10 DEF Beginning

\* Steps that change users or tokens.
LEMMA SignTokenTyped ==
  ASSUME TypeOK, NEW r \in Requests, SignToken(r)
  PROVE  TypeOK'
<1>1. request[r].token \in Token
  BY KnownFields DEF SignToken, KnowsEnough
<1>2. TypedButRequests'
  BY <1>1 DEF TypedButRequests, TypeOK, SignToken, oidc, history
<1>. QED BY <1>2, EndStep DEF SignToken

\* The users stay typed if one becomes another record.
LEMMA UserTyped ==
  ASSUME TypeOK, NEW u \in Users, NEW x \in User \cup {None},
         user' = [user EXCEPT ![u] = x]
  PROVE  user' \in [Users -> User \cup {None}] /\ user'[u] = x
BY DEF TypeOK

LEMMA WritePasswordTyped ==
  ASSUME TypeOK, NEW r \in Requests, WritePassword(r)
  PROVE  TypeOK'
<1>. DEFINE u == request[r].user
<1>1. u \in Users
  BY KnownFields DEF WritePassword, KnowsEnough
<1>2. user' \in [Users -> User \cup {None}] /\ token' \subseteq Token
  <2>1. CASE user[u] = None
    <3>1. user' = user /\ token' = token
      BY <2>1 DEF WritePassword
    <3>. QED BY <3>1 DEF TypeOK
  <2>2. CASE user[u] # None
    <3>1. Void(user[u]) \in User
      BY <1>1, <2>2, VoidTyped DEF TypeOK
    <3>2. user' = [user EXCEPT ![u] = Void(user[u])]
      BY <2>2 DEF WritePassword
    <3>. HIDE DEF u
    <3>3. user' \in [Users -> User \cup {None}] /\ user'[u] = Void(user[u])
      BY <1>1, <3>1, <3>2, UserTyped
    <3>4. TokenOf(u, user'[u]) \in Token
      BY <1>1, <3>1, <3>3, TokenTyped
    <3>5. token' \subseteq token \cup {TokenOf(u, user'[u])}
      BY <2>2 DEF WritePassword, u
    <3>. QED BY <3>3, <3>4, <3>5 DEF TypeOK
  <2>. QED BY <2>1, <2>2
<1>3. TypedButRequests'
  BY <1>2 DEF TypedButRequests, TypeOK, WritePassword, oidc, history
<1>. QED BY <1>3, EndStep DEF WritePassword

LEMMA AddUserTyped ==
  ASSUME TypeOK, NEW r \in Requests, AddUser(r)
  PROVE  TypeOK'
<1>1. PICK u \in unused \cap LocalUsers, role \in Roles :
        user' = [user EXCEPT ![u] = NewUser(role)] /\ unused' = unused \ {u}
  BY DEF AddUser
<1>2. created' \in Nat /\ NewUser(role) \in User
  BY NewUserTyped DEF AddUser, TypeOK
<1>3. user' \in [Users -> User \cup {None}]
  BY <1>1, <1>2, UserTyped DEF Users
<1>4. TypedButRequests'
  BY <1>1, <1>2, <1>3 DEF TypedButRequests, TypeOK, AddUser, oidc, history
<1>. QED BY <1>1, <1>4, EndStep DEF AddUser

LEMMA RemoveUserTyped ==
  ASSUME TypeOK, NEW r \in Requests, RemoveUser(r)
  PROVE  TypeOK'
<1>1. request[r].user \in Users
  BY KnownFields DEF RemoveUser, KnowsEnough
<1>2. user' \in [Users -> User \cup {None}]
  BY <1>1, UserTyped DEF RemoveUser
<1>3. code' \in [Logins -> [user: Users, consumed: BOOLEAN] \cup {None}]
  BY DEF RemoveUser, TypeOK
<1>4. emptied' \in Nat /\ overlapped' \in BOOLEAN
  BY DEF RemoveUser, TypeOK
<1>5. TypedButRequests'
  BY <1>2, <1>3, <1>4 DEF TypedButRequests, TypeOK, RemoveUser
<1>. QED BY <1>5, EndStep DEF RemoveUser

LEMMA SaveConfigTyped ==
  ASSUME TypeOK, NEW r \in Requests, SaveConfig(r)
  PROVE  TypeOK'
<1>1. \A u \in Existing \cap Subjects : Void(user[u]) \in User /\ Restore(user[u]) \in User
  BY VoidTyped, RestoreTyped DEF Existing, TypeOK
<1>2. PICK s \in Settings : ChangeSettings(s) \/ RewriteSettings(s)
  BY DEF SaveConfig
<1>3. /\ user' \in [Users -> User \cup {None}]
      /\ config' \in [setting: Settings, revision: Nat]
      /\ login' \in [Logins -> Login \cup {None}]
      /\ code' \in [Logins -> [user: Users, consumed: BOOLEAN] \cup {None}]
  <2>1. CASE ChangeSettings(s)
    BY <1>1, <2>1 DEF ChangeSettings, TypeOK
  <2>2. CASE RewriteSettings(s)
    BY <1>1, <2>2 DEF RewriteSettings, TypeOK
  <2>. QED BY <1>2, <2>1, <2>2
<1>4. TypedButRequests'
  BY <1>3 DEF TypedButRequests, TypeOK, SaveConfig, Tick, history
<1>. QED BY <1>4, EndStep DEF SaveConfig, Tick

LEMMA CreateSessionTyped ==
  ASSUME TypeOK, NEW r \in Requests, CreateSession(r)
  PROVE  TypeOK'
<1>. DEFINE u == request[r].user
<1>1. u \in Users /\ request[r].login \in Logins
  BY KnownFields DEF CreateSession, KnowsEnough
<1>2. token' \subseteq Token /\ sessions' \in [Logins -> Nat]
  <2>1. CASE user[u] = None
    BY <2>1 DEF CreateSession, TypeOK
  <2>2. CASE user[u] # None
    <3>1. TokenOf(u, user[u]) \in Token
      BY <1>1, <2>2, TokenTyped DEF TypeOK
    <3>. QED BY <1>1, <2>2, <3>1 DEF CreateSession, TypeOK
  <2>. QED BY <2>1, <2>2
<1>3. TypedButRequests'
  BY <1>2 DEF TypedButRequests, TypeOK, CreateSession, oidc
<1>. QED BY <1>3, EndStep DEF CreateSession

-----------------------------------------------------------------------------
(* Steps of single sign-on. *)

LEMMA CountPendingTyped ==
  ASSUME TypeOK, NEW r \in Requests, CountPending(r)
  PROVE  TypeOK'
<1>1. TypedButRequests'
  BY DEF TypedButRequests, TypeOK, CountPending, Tick, history
<1>2. CASE End(r)
  BY <1>1, <1>2, EndStep DEF CountPending, Tick
<1>3. CASE Go(r, "login", request[r])
  <2>1. "login" \in Steps \ {"create"} /\ KnowsEnough("login", request[r], Logins \ unused')
    BY KnownFields DEF Steps, KnowsEnough, CountPending, Tick
  <2>. QED BY <1>1, <1>3, <2>1, KnownFields, PlainStep DEF CountPending, Tick
<1>. QED BY <1>2, <1>3 DEF CountPending

LEMMA CreateLoginTyped ==
  ASSUME TypeOK, NEW r \in Requests, CreateLogin(r)
  PROVE  TypeOK'
<1>1. request[r].seen \in Nat /\ request[r].browser \in Browsers
  BY KnownFields DEF Known, KnowsEnough, CreateLogin
<1>2. /\ login' \in [Logins -> Login \cup {None}]
      /\ unused' \subseteq unused
  <2>1. PICK l \in unused \cap Logins :
          /\ login' = [login EXCEPT ![l] = [revision |-> request[r].seen,
                                            consumed |-> FALSE,
                                            browser |-> request[r].browser]]
          /\ unused' = unused \ {l}
    BY DEF CreateLogin
  <2>2. [revision |-> request[r].seen, consumed |-> FALSE, browser |-> request[r].browser]
          \in Login
    BY <1>1 DEF Login
  <2>. QED BY <2>1, <2>2 DEF TypeOK
<1>3. TypedButRequests'
  BY <1>2 DEF TypedButRequests, TypeOK, CreateLogin, history
<1>. QED BY <1>2, <1>3, EndStep DEF CreateLogin

LEMMA FindLoginTyped ==
  ASSUME TypeOK, NEW r \in Requests, FindLogin(r)
  PROVE  TypeOK'
<1>1. TypedButRequests'
  BY DEF TypedButRequests, TypeOK, FindLogin, Tick, oidc, history
<1>2. CASE End(r)
  BY <1>1, <1>2, EndStep DEF FindLogin, Tick
<1>3. CASE Go(r, "consume", request[r])
  <2>1. "consume" \in Steps \ {"create"}
    BY DEF Steps
  <2>2. KnowsEnough("consume", request[r], Logins \ unused')
    BY KnownFields DEF KnowsEnough, FindLogin, Tick
  <2>. QED BY <1>1, <1>3, <2>1, <2>2, KnownFields, PlainStep DEF FindLogin, Tick
<1>. QED BY <1>2, <1>3 DEF FindLogin

\* A function of logins stays typed if one value becomes another of the type.
LEMMA LoginsTyped ==
  ASSUME NEW T, NEW f \in [Logins -> T], NEW l \in Logins, NEW x \in T
  PROVE  /\ [f EXCEPT ![l] = x] \in [Logins -> T]
         /\ [f EXCEPT ![l] = x][l] = x
         /\ \A m \in Logins \ {l} : [f EXCEPT ![l] = x][m] = f[m]
OBVIOUS

LEMMA ConsumeLoginTyped ==
  ASSUME TypeOK, NEW r \in Requests, ConsumeLogin(r)
  PROVE  TypeOK'
<1>1. request[r].login \in Logins \ unused
  BY KnownFields DEF ConsumeLogin, KnowsEnough
<1>2. login' \in [Logins -> Login \cup {None}]
  <2>. DEFINE l == request[r].login
              x == [login[l] EXCEPT !.consumed = TRUE]
  <2>1. CASE login' = login
    BY <2>1 DEF TypeOK
  <2>2. CASE login[l] # None /\ login' = [login EXCEPT ![l] = x]
    <3>1. x \in Login \cup {None}
      <4>1. login[l] \in Login
        BY <1>1, <2>2 DEF TypeOK
      <4>. QED BY <4>1 DEF Login
    <3>. HIDE DEF x, l
    <3>. QED BY <1>1, <2>2, <3>1, LoginsTyped DEF TypeOK, l
  <2>. QED BY <2>1, <2>2 DEF ConsumeLogin
<1>3. TypedButRequests'
  BY <1>2 DEF TypedButRequests, TypeOK, ConsumeLogin, Tick, history
<1>4. CASE End(r)
  BY <1>3, <1>4, EndStep DEF ConsumeLogin, Tick
<1>5. CASE Go(r, "authorize", request[r])
  <2>1. "authorize" \in Steps \ {"create"}
    BY DEF Steps
  <2>2. KnowsEnough("authorize", request[r], Logins \ unused')
    BY <1>1 DEF KnowsEnough, ConsumeLogin, Tick
  <2>. QED BY <1>3, <1>5, <2>1, <2>2, KnownFields, PlainStep DEF ConsumeLogin, Tick
<1>. QED BY <1>4, <1>5 DEF ConsumeLogin

LEMMA AuthorizeTyped ==
  ASSUME TypeOK, NEW r \in Requests, Authorize(r)
  PROVE  TypeOK'
<1>1. request[r] \in Known /\ request[r].login \in Logins \ unused
  BY KnownFields DEF Authorize, KnowsEnough
<1>2. user' \in [Users -> User \cup {None}]
  <2>1. ASSUME NEW u \in Subjects,
               user' = [user EXCEPT ![u] = IF @ = None THEN @ ELSE Void(@)]
        PROVE  user' \in [Users -> User \cup {None}]
    <3>1. user[u] # None => Void(user[u]) \in User
      BY VoidTyped DEF TypeOK, Users
    <3>. QED BY <2>1, <3>1 DEF TypeOK
  <2>2. CASE user' = user
    BY <2>2 DEF TypeOK
  <2>. QED BY <2>1, <2>2 DEF Authorize
<1>3. TypedButRequests'
  BY <1>2 DEF TypedButRequests, TypeOK, Authorize, Tick, oidc, history
<1>4. CASE End(r)
  BY <1>3, <1>4, EndStep DEF Authorize, Tick
<1>5. ASSUME NEW u \in Subjects, NEW role \in Roles,
             Go(r, "provision", [request[r] EXCEPT !.user = u, !.role = role])
      PROVE  TypeOK'
  <2>. DEFINE v == [request[r] EXCEPT !.user = u, !.role = role]
  <2>1. v \in Known /\ KnowsEnough("provision", v, Logins \ unused)
    BY <1>1 DEF Known, KnowsEnough, Users
  <2>2. "provision" \in Steps \ {"create"}
    BY DEF Steps
  <2>3. unused' = unused /\ lock' = lock /\ pc[r] # "create"
    BY DEF Authorize, Tick
  <2>. HIDE DEF v
  <2>. QED BY <1>3, <1>5, <2>1, <2>2, <2>3, PlainStep DEF v
<1>. QED BY <1>4, <1>5 DEF Authorize

LEMMA ReadExistingTyped ==
  ASSUME TypeOK, NEW r \in Requests, ReadExisting(r)
  PROVE  TypeOK'
<1>. DEFINE u == request[r].user
            previous == IF user[u] = None THEN None ELSE user[u].role
            v == [request[r] EXCEPT !.previous = previous]
<1>1. /\ request[r] \in Known /\ request[r].login \in Logins \ unused
      /\ u \in Subjects /\ request[r].role \in Roles
  BY KnownFields DEF ReadExisting, KnowsEnough
<1>2. previous \in Roles \cup {None}
  BY <1>1 DEF TypeOK, Users, User
<1>3. v \in Known /\ KnowsEnough("upsert", v, Logins \ unused)
  BY <1>1, <1>2 DEF Known, KnowsEnough
<1>4. "upsert" \in Steps \ {"create"}
  BY DEF Steps
<1>5. /\ Go(r, "upsert", v) /\ pc[r] # "create" /\ operations' \in Nat
      /\ UNCHANGED <<user, unused, lock, oidc, token, history>>
  BY DEF ReadExisting, Tick, TypeOK
<1>. HIDE DEF v
<1>. QED BY <1>3, <1>4, <1>5, QuietStep

LEMMA UpsertTyped ==
  ASSUME TypeOK, NEW r \in Requests, Upsert(r)
  PROVE  TypeOK'
<1>. DEFINE u == request[r].user
            v == [request[r] EXCEPT !.seen = user'[u].born]
<1>1. /\ request[r] \in Known /\ request[r].login \in Logins \ unused
      /\ u \in Subjects /\ u \in Users /\ request[r].role \in Roles
  BY KnownFields DEF Upsert, KnowsEnough, Users
<1>2. user' \in [Users -> User \cup {None}] /\ user'[u] \in User
  <2>1. CASE user[u] = None
    <3>. DEFINE x == NewUser(request[r].role)
    <3>1. x \in User
      BY <1>1, NewUserTyped DEF TypeOK
    <3>2. user' = [user EXCEPT ![u] = x]
      BY <2>1 DEF Upsert
    <3>. HIDE DEF x, u, v
    <3>3. user' \in [Users -> User \cup {None}] /\ user'[u] = x
      BY <1>1, <3>1, <3>2, UserTyped
    <3>. QED BY <3>1, <3>3
  <2>2. CASE user[u] # None
    <3>. DEFINE x == Refreshed(user[u], request[r].previous, request[r].role)
    <3>1. user[u] \in User
      BY <1>1, <2>2 DEF TypeOK
    <3>2. user[u].version \in Nat /\ user[u].version + 1 \in Nat
      BY <3>1 DEF User
    <3>3. x \in User
      BY <1>1, <3>1, <3>2 DEF User, Refreshed
    <3>4. user' = [user EXCEPT ![u] = x]
      BY <2>2 DEF Upsert
    <3>. HIDE DEF x
    <3>. QED BY <1>1, <3>3, <3>4, UserTyped
  <2>. QED BY <2>1, <2>2
<1>3. v \in Known /\ KnowsEnough("code", v, Logins \ unused)
  BY <1>1, <1>2 DEF Known, KnowsEnough, User
<1>4. created' \in Nat
  BY DEF Upsert, TypeOK
<1>5. TypedButRequests'
  BY <1>2, <1>4 DEF TypedButRequests, TypeOK, Upsert, oidc
<1>6. "code" \in Steps \ {"create"}
  BY DEF Steps
<1>7. Go(r, "code", v) /\ pc[r] # "create" /\ lock' = lock /\ unused' = unused
  BY DEF Upsert
<1>. HIDE DEF v
<1>. QED BY <1>3, <1>5, <1>6, <1>7, PlainStep

LEMMA CreateCodeTyped ==
  ASSUME TypeOK, NEW r \in Requests, CreateCode(r)
  PROVE  TypeOK'
<1>1. request[r].login \in Logins /\ request[r].user \in Users
  BY KnownFields DEF CreateCode, KnowsEnough, Users
<1>2. [user |-> request[r].user, consumed |-> FALSE] \in [user: Users, consumed: BOOLEAN]
  BY <1>1
<1>3. /\ code' \in [Logins -> [user: Users, consumed: BOOLEAN] \cup {None}]
      /\ codes' \in [Logins -> Nat]
  <2>. DEFINE l == request[r].login
              x == [user |-> request[r].user, consumed |-> FALSE]
  <2>1. CASE code' = code /\ codes' = codes
    BY <2>1 DEF TypeOK
  <2>2. CASE code' = [code EXCEPT ![l] = x] /\ codes' = [codes EXCEPT ![l] = codes[l] + 1]
    <3>1. codes[l] + 1 \in Nat
      BY <1>1 DEF TypeOK
    <3>. HIDE DEF x, l
    <3>. QED BY <1>1, <1>2, <2>2, <3>1, LoginsTyped DEF TypeOK, l, x
  <2>. QED BY <2>1, <2>2 DEF CreateCode
<1>4. TypedButRequests'
  BY <1>3 DEF TypedButRequests, TypeOK, CreateCode
<1>. QED BY <1>4, EndStep DEF CreateCode

LEMMA ConsumeCodeTyped ==
  ASSUME TypeOK, NEW r \in Requests, ConsumeCode(r)
  PROVE  TypeOK'
<1>1. request[r].login \in Logins /\ request[r].user \in Users
  BY KnownFields DEF ConsumeCode, KnowsEnough
<1>2. code' \in [Logins -> [user: Users, consumed: BOOLEAN] \cup {None}]
  <2>. DEFINE l == request[r].login
              x == [code[l] EXCEPT !.consumed = TRUE]
  <2>1. CASE code' = code
    BY <2>1 DEF TypeOK
  <2>2. CASE code[l] # None /\ code' = [code EXCEPT ![l] = x]
    <3>1. x \in [user: Users, consumed: BOOLEAN] \cup {None}
      <4>1. code[l] \in [user: Users, consumed: BOOLEAN]
        BY <1>1, <2>2 DEF TypeOK
      <4>. QED BY <4>1
    <3>. HIDE DEF x, l
    <3>. QED BY <1>1, <2>2, <3>1, LoginsTyped DEF TypeOK, l
  <2>. QED BY <2>1, <2>2 DEF ConsumeCode
<1>3. TypedButRequests'
  BY <1>2 DEF TypedButRequests, TypeOK, ConsumeCode, Tick, history
<1>4. CASE End(r)
  BY <1>3, <1>4, EndStep DEF ConsumeCode, Tick
<1>5. CASE Go(r, "session", request[r])
  <2>1. "session" \in Steps \ {"create"}
    BY DEF Steps
  <2>2. KnowsEnough("session", request[r], Logins \ unused')
    BY <1>1 DEF KnowsEnough
  <2>. QED BY <1>3, <1>5, <2>1, <2>2, KnownFields, PlainStep DEF ConsumeCode, Tick
<1>. QED BY <1>4, <1>5 DEF ConsumeCode

-----------------------------------------------------------------------------
(* The setup, failures and the clock. *)

LEMMA CountUsersTyped ==
  ASSUME TypeOK, NEW r \in Requests, CountUsers(r)
  PROVE  TypeOK'
<1>1. "create" \in Steps /\ KnowsEnough("create", Nothing, Logins \ unused')
  BY DEF Steps, KnowsEnough
<1>2. Start(r) /\ Go(r, "create", Nothing) /\ lock = None /\ lock' = r
      /\ UNCHANGED <<user, unused, oidc, token, history>>
  BY DEF CountUsers
<1>3. /\ pc' \in [Requests -> Steps] /\ request' \in [Requests -> Known]
      /\ pc'[r] = "create" /\ request'[r] = Nothing
      /\ \A q \in Requests \ {r} : pc'[q] = pc[q] /\ request'[q] = request[q]
  BY <1>1, <1>2, GoTyped, NothingKnown
<1>4. \A q \in Requests : KnowsEnough(pc'[q], request'[q], Logins \ unused')
  BY <1>1, <1>2, <1>3, ZenonT(60) DEF TypeOK
<1>5. \A q \in Requests : lock' = q <=> pc'[q] = "create"
  BY <1>2, <1>3 DEF TypeOK
<1>6. operations' \in Nat
  BY <1>2 DEF Start, TypeOK
<1>. QED BY <1>2, <1>3, <1>4, <1>5, <1>6 DEF TypeOK, oidc, history

LEMMA CreateFirstTyped ==
  ASSUME TypeOK, NEW r \in Requests, CreateFirst(r)
  PROVE  TypeOK'
<1>1. PICK u \in unused \cap LocalUsers :
        /\ user' = [user EXCEPT ![u] = NewUser("SYSTEM_ADMIN")]
        /\ unused' = unused \ {u}
        /\ token' = token \cup {TokenOf(u, user'[u])}
  BY DEF CreateFirst
<1>2. "idle" \in Steps /\ \A v, given : KnowsEnough("idle", v, given)
  BY DEF Steps, KnowsEnough
<1>3. /\ pc' \in [Requests -> Steps] /\ request' \in [Requests -> Known]
      /\ pc'[r] = "idle" /\ request'[r] = Nothing
      /\ \A q \in Requests \ {r} : pc'[q] = pc[q] /\ request'[q] = request[q]
  BY <1>2, GoTyped, NothingKnown DEF CreateFirst, End
<1>4. created' \in Nat /\ setups' \in Nat /\ lock' = None /\ lock = r
  BY DEF CreateFirst, TypeOK
<1>5. NewUser("SYSTEM_ADMIN") \in User /\ u \in Users
  BY NewUserTyped DEF TypeOK, Roles, Users
<1>6. user' \in [Users -> User \cup {None}] /\ user'[u] \in User
  BY <1>1, <1>5, UserTyped
<1>7. token' \subseteq Token
  BY <1>1, <1>5, <1>6, TokenTyped DEF TypeOK
<1>8. \A q \in Requests : KnowsEnough(pc'[q], request'[q], Logins \ unused')
  BY <1>1, <1>2, <1>3 DEF TypeOK, KnowsEnough
<1>9. \A q \in Requests : lock' = q <=> pc'[q] = "create"
  BY <1>3, <1>4 DEF TypeOK
<1>10. UNCHANGED <<oidc, operations, codes, sessions, emptied, overlapped>>
  BY DEF CreateFirst
<1>. QED BY <1>1, <1>3, <1>4, <1>6, <1>7, <1>8, <1>9, <1>10 DEF TypeOK, oidc

LEMMA AbortTyped ==
  ASSUME TypeOK, NEW r \in Requests, Abort(r)
  PROVE  TypeOK'
<1>1. "idle" \in Steps /\ \A v, given : KnowsEnough("idle", v, given)
  BY DEF Steps, KnowsEnough
<1>2. /\ pc' \in [Requests -> Steps] /\ request' \in [Requests -> Known]
      /\ pc'[r] = "idle" /\ request'[r] = Nothing
      /\ \A q \in Requests \ {r} : pc'[q] = pc[q] /\ request'[q] = request[q]
  BY <1>1, GoTyped, NothingKnown DEF Abort, End
<1>3. UNCHANGED <<user, unused, oidc, token, operations, history>>
  BY DEF Abort
<1>4. \A q \in Requests : KnowsEnough(pc'[q], request'[q], Logins \ unused')
  <2>1. ASSUME NEW q \in Requests \ {r}
        PROVE  KnowsEnough(pc'[q], request'[q], Logins \ unused')
    <3>1. KnowsEnough(pc[q], request[q], Logins \ unused)
      BY DEF TypeOK
    <3>2. pc'[q] = pc[q] /\ request'[q] = request[q] /\ unused' = unused
      BY <1>2, <1>3
    <3>. QED BY <3>1, <3>2
  <2>2. KnowsEnough(pc'[r], request'[r], Logins \ unused')
    BY <1>1, <1>2
  <2>. QED BY <2>1, <2>2
<1>5. /\ lock' \in Requests \cup {None}
      /\ \A q \in Requests : lock' = q <=> pc'[q] = "create"
  BY <1>2 DEF TypeOK, Abort
<1>. QED BY <1>2, <1>3, <1>4, <1>5 DEF TypeOK, oidc, history

LEMMA ExpireTyped ==
  ASSUME TypeOK, NEW x \in {"login", "code"} \X Logins, Expire(x)
  PROVE  TypeOK'
BY DEF TypeOK, Expire, history

LEMMA StutterTyped == ASSUME TypeOK, UNCHANGED vars PROVE TypeOK'
BY DEF TypeOK, vars, oidc, history

\* The requests' steps that do not begin one.
LEMMA StepTypeOK == TypeOK /\ [Next]_vars => TypeOK'
<1> SUFFICES ASSUME TypeOK, [Next]_vars PROVE TypeOK'
  OBVIOUS
<1>1. ASSUME NEW r \in Requests, Beginning(r) PROVE TypeOK'
  BY <1>1, BeginningTyped
<1>2. ASSUME NEW r \in Requests,
             \/ CountUsers(r) \/ CreateFirst(r) \/ SignToken(r) \/ WritePassword(r)
             \/ AddUser(r) \/ RemoveUser(r) \/ SaveConfig(r)
      PROVE  TypeOK'
  BY <1>2, CountUsersTyped, CreateFirstTyped, SignTokenTyped, WritePasswordTyped,
     AddUserTyped, RemoveUserTyped, SaveConfigTyped
<1>3. ASSUME NEW r \in Requests,
             \/ CountPending(r) \/ CreateLogin(r) \/ FindLogin(r) \/ ConsumeLogin(r)
             \/ Authorize(r) \/ ReadExisting(r) \/ Upsert(r) \/ CreateCode(r)
             \/ ConsumeCode(r) \/ CreateSession(r) \/ Abort(r)
      PROVE  TypeOK'
  BY <1>3, CountPendingTyped, CreateLoginTyped, FindLoginTyped, ConsumeLoginTyped,
     AuthorizeTyped, ReadExistingTyped, UpsertTyped, CreateCodeTyped, ConsumeCodeTyped,
     CreateSessionTyped, AbortTyped
<1>4. ASSUME NEW x \in {"login", "code"} \X Logins, Expire(x) PROVE TypeOK'
  BY <1>4, ExpireTyped
<1>. QED BY <1>1, <1>2, <1>3, <1>4, StutterTyped DEF Next, Beginning

\* Every reachable state is well typed, and a request has read what its step needs, for
\* any users, subjects, logins and requests: at each step of auth.service.ts and
\* oidc.service.ts, and the advisory lock is held by the setup that creates the user.
THEOREM TypeCorrect == Spec => []TypeOK
BY InitTypeOK, StepTypeOK, PTL DEF Spec

-----------------------------------------------------------------------------
(* Sessions. *)

\* Sessions that were issued, and the one each sign-in is about to sign.
KnownTokens ==
  token \cup {request[r].token : r \in {q \in Requests : pc[q] = "sign"}}

\* What a session t says of user x is outdated, or all of it is current.
Follows(t, x) ==
  x # None /\ t.born = x.born =>
    /\ t.version <= x.version
    /\ t.version = x.version => t.epoch = x.epoch \/ x.restored

\* The inductive invariant: versions are given in order, and a version tells one
\* epoch until settings are stored back; a user who comes back is another one.
SessionsFollow ==
  /\ \A u \in Users : user[u] # None => user[u].born < created
  /\ \A t \in KnownTokens : t \in Token /\ t.born < created /\ Follows(t, user[t.user])

\* How a step changes one user.
Moves(x, y, before, after) ==
  \/ y = None
  \/ y = x
  \/ y # None /\ y.born = before /\ before < after
  \/ /\ x # None /\ y # None /\ y.born = x.born
     /\ \/ y.version > x.version
        \/ /\ y.version = x.version
           /\ y.restored \/ (y.epoch = x.epoch /\ y.restored = x.restored)

LEMMA MovesKeep ==
  ASSUME NEW x \in User \cup {None}, NEW y \in User \cup {None},
         NEW before \in Nat, NEW after \in Nat, before <= after,
         x # None => x.born < before,
         Moves(x, y, before, after)
  PROVE  /\ y # None => y.born < after
         /\ \A t \in Token : t.born < before /\ Follows(t, x) =>
              t.born < after /\ Follows(t, y)
<1>1. ASSUME NEW z \in User
      PROVE  z.born \in Nat /\ z.version \in Nat /\ z.epoch \in Nat
  BY DEF User
<1>2. ASSUME NEW t \in Token
      PROVE  t.born \in Nat /\ t.version \in Nat /\ t.epoch \in Nat
  BY DEF Token
<1>3. y # None => y.born < after
  BY <1>1 DEF Moves
<1>4. ASSUME NEW t \in Token, t.born < before, Follows(t, x)
      PROVE  t.born < after /\ Follows(t, y)
  <2>1. t.born < after
    BY <1>2, <1>4
  <2>2. CASE y = None \/ y = x
    BY <1>4, <2>1, <2>2 DEF Follows
  <2>3. CASE y # None /\ y.born = before
    BY <1>2, <1>4, <2>1, <2>3 DEF Follows
  <2>4. CASE /\ x # None /\ y # None /\ y.born = x.born
             /\ \/ y.version > x.version
                \/ /\ y.version = x.version
                   /\ y.restored \/ (y.epoch = x.epoch /\ y.restored = x.restored)
    <3>1. x \in User /\ y \in User
      BY <2>4
    <3>. QED BY <1>1, <1>2, <1>4, <2>1, <2>4, <3>1 DEF Follows
  <2>. QED BY <2>2, <2>3, <2>4 DEF Moves
<1>. QED BY <1>3, <1>4

\* A step in which users move, and new sessions say what the user is by then.
LEMMA SessionStep ==
  ASSUME TypeOK, TypeOK', SessionsFollow, created <= created',
         \A u \in Users : Moves(user[u], user'[u], created, created'),
         \A t \in KnownTokens' : \/ t \in KnownTokens
                                 \/ \E u \in Users : user'[u] # None
                                                     /\ t = TokenOf(u, user'[u])
  PROVE  SessionsFollow'
<1>1. created \in Nat /\ created' \in Nat
      /\ user \in [Users -> User \cup {None}] /\ user' \in [Users -> User \cup {None}]
  BY DEF TypeOK
<1>2. \A u \in Users : /\ user'[u] # None => user'[u].born < created'
                       /\ \A t \in Token : t.born < created /\ Follows(t, user[u]) =>
                            t.born < created' /\ Follows(t, user'[u])
  BY <1>1, MovesKeep DEF SessionsFollow
<1>3. ASSUME NEW t \in KnownTokens
      PROVE  t \in Token /\ t.born < created' /\ Follows(t, user'[t.user])
  <2>1. t \in Token /\ t.born < created /\ Follows(t, user[t.user]) /\ t.user \in Users
    BY DEF SessionsFollow, Token
  <2>. QED BY <1>2, <2>1
<1>4. ASSUME NEW u \in Users, user'[u] # None
      PROVE  /\ TokenOf(u, user'[u]) \in Token
             /\ TokenOf(u, user'[u]).born < created'
             /\ Follows(TokenOf(u, user'[u]), user'[TokenOf(u, user'[u]).user])
  <2>1. user'[u] \in User
    BY <1>1, <1>4
  <2>2. TokenOf(u, user'[u]) \in Token
    BY <2>1, TokenTyped
  <2>3. user'[u].version \in Nat
    BY <2>1 DEF User
  <2>. QED BY <1>2, <1>4, <2>2, <2>3 DEF TokenOf, Follows
<1>5. \A t \in KnownTokens' : t \in Token /\ t.born < created'
                              /\ Follows(t, user'[t.user])
  BY <1>3, <1>4
<1>6. (\A t \in KnownTokens : t \in Token /\ t.born < created /\ Follows(t, user[t.user]))'
  BY <1>5 DEF Token, Follows, User
<1>. QED BY <1>2, <1>6 DEF SessionsFollow, Users

\* What requests know of sessions after a request goes on: no more than before, but
\* for what it has read.
LEMMA TokensAfterGo ==
  ASSUME TypeOK, NEW r \in Requests, NEW p \in Steps, NEW v \in Known, Go(r, p, v)
  PROVE  \A t \in KnownTokens' :
           \/ t \in KnownTokens
           \/ t \in token'
           \/ p = "sign" /\ t = v.token
<1>1. /\ pc'[r] = p /\ request'[r] = v
      /\ \A q \in Requests \ {r} : pc'[q] = pc[q] /\ request'[q] = request[q]
  BY GoTyped
<1>2. ASSUME NEW t \in KnownTokens', t \notin token'
      PROVE  \/ t \in KnownTokens
             \/ p = "sign" /\ t = v.token
  <2>1. PICK q \in Requests : pc'[q] = "sign" /\ t = request'[q].token
    BY <1>2 DEF KnownTokens
  <2>2. CASE q = r
    BY <1>1, <2>1, <2>2
  <2>3. CASE q # r
    <3>1. pc[q] = "sign" /\ t = request[q].token
      BY <1>1, <2>1, <2>3
    <3>. QED BY <3>1 DEF KnownTokens
  <2>. QED BY <2>2, <2>3
<1>. QED BY <1>2

LEMMA TokensAfterEnd ==
  ASSUME TypeOK, NEW r \in Requests, End(r)
  PROVE  \A t \in KnownTokens' : t \in KnownTokens \/ t \in token'
<1>1. "idle" \in Steps
  BY DEF Steps
<1>. QED BY <1>1, TokensAfterGo, NothingKnown DEF End

\* Steps that change neither users nor tokens, nor what is about to be signed.
LEMMA QuietForSessions ==
  ASSUME TypeOK, TypeOK', SessionsFollow, UNCHANGED <<user, token, created>>,
         NEW r \in Requests, NEW p \in Steps \ {"sign"}, NEW v \in Known, Go(r, p, v)
  PROVE  SessionsFollow'
<1>1. \A u \in Users : Moves(user[u], user'[u], created, created')
  BY DEF Moves
<1>2. \A t \in KnownTokens' : t \in KnownTokens
  BY TokensAfterGo DEF KnownTokens
<1>3. created <= created'
  BY DEF TypeOK
<1>. QED BY <1>1, <1>2, <1>3, SessionStep

\* The step of a request goes on from a typed state to a typed state.
LEMMA GoesSomewhere ==
  ASSUME TypeOK, TypeOK', NEW r \in Requests, NEW p, NEW v, Go(r, p, v)
  PROVE  p \in Steps /\ v \in Known
BY DEF TypeOK, Go

LEMMA BeginningFollows ==
  ASSUME TypeOK, TypeOK', SessionsFollow, NEW r \in Requests, Beginning(r)
  PROVE  SessionsFollow'
<1>1. UNCHANGED <<user, token, created>>
  BY DEF Beginning, SignIn, ReadForPassword, Add, ReadConfig, Begin, Remove, Callback,
         Exchange, history
<1>2. CASE \E u \in LocalUsers : SignIn(r, u)
  <2>1. PICK u \in LocalUsers : SignIn(r, u)
    BY <1>2
  <2>. DEFINE v == [Nothing EXCEPT !.token = TokenOf(u, user[u])]
  <2>2. Go(r, "sign", v) /\ user[u] # None /\ u \in Users
    BY <2>1 DEF SignIn, Users
  <2>3. v.token = TokenOf(u, user'[u])
    BY <1>1 DEF Nothing
  <2>. HIDE DEF v
  <2>4. "sign" \in Steps /\ v \in Known
    BY <2>2, GoesSomewhere
  <2>5. \A t \in KnownTokens' : t \in KnownTokens \/ t = TokenOf(u, user'[u])
    BY <1>1, <2>2, <2>3, <2>4, TokensAfterGo DEF KnownTokens
  <2>6. \A w \in Users : Moves(user[w], user'[w], created, created')
    BY <1>1 DEF Moves
  <2>7. created <= created'
    BY <1>1 DEF TypeOK
  <2>. QED BY <1>1, <2>2, <2>5, <2>6, <2>7, SessionStep
<1>3. CASE ~ \E u \in LocalUsers : SignIn(r, u)
  <2>1. \E p \in {"password", "add", "configure", "begin", "remove", "find", "exchange"} :
           \E v : Go(r, p, v)
    BY <1>3 DEF Beginning, ReadForPassword, Add, ReadConfig, Begin, Remove, Callback,
                Exchange
  <2>2. PICK p \in {"password", "add", "configure", "begin", "remove", "find",
                    "exchange"} : \E v : Go(r, p, v)
    BY <2>1
  <2>3. PICK v : Go(r, p, v)
    BY <2>2
  <2>4. p \in Steps \ {"sign"} /\ v \in Known
    BY <2>3, GoesSomewhere
  <2>. QED BY <1>1, <2>3, <2>4, QuietForSessions
<1>. QED BY <1>2, <1>3

\* A request that does not sign moves users, and gives out what they are by then.
LEMMA StepFollows ==
  ASSUME TypeOK, TypeOK', SessionsFollow, NEW r \in Requests,
         \E p \in Steps \ {"sign"} : \E v : Go(r, p, v),
         created <= created',
         \A u \in Users : Moves(user[u], user'[u], created, created'),
         \A t \in token' : \/ t \in KnownTokens
                           \/ \E u \in Users : user'[u] # None
                                               /\ t = TokenOf(u, user'[u])
  PROVE  SessionsFollow'
<1>1. PICK p \in Steps \ {"sign"} : \E v : Go(r, p, v)
  OBVIOUS
<1>2. PICK v : Go(r, p, v)
  BY <1>1
<1>3. v \in Known
  BY <1>2, GoesSomewhere
<1>4. \A t \in KnownTokens' : t \in KnownTokens \/ t \in token'
  BY <1>1, <1>2, <1>3, TokensAfterGo
<1>. QED BY <1>4, SessionStep

\* Steps that leave users, tokens and what is about to be signed alone.
LEMMA OtherStepsFollow ==
  ASSUME TypeOK, TypeOK', SessionsFollow, NEW r \in Requests,
         \/ CountUsers(r) \/ CountPending(r) \/ CreateLogin(r) \/ FindLogin(r)
         \/ ConsumeLogin(r) \/ ReadExisting(r) \/ CreateCode(r) \/ ConsumeCode(r)
         \/ Abort(r)
  PROVE  SessionsFollow'
<1>1. UNCHANGED <<user, token, created>>
  BY DEF CountUsers, CountPending, CreateLogin, FindLogin, ConsumeLogin, ReadExisting,
         CreateCode, ConsumeCode, Abort, Tick, history
<1>2. \E p \in {"create", "login", "idle", "consume", "authorize", "upsert", "session"} :
         \E v : Go(r, p, v)
  BY DEF CountUsers, CountPending, CreateLogin, FindLogin, ConsumeLogin, ReadExisting,
         CreateCode, ConsumeCode, Abort, End
<1>3. PICK p \in {"create", "login", "idle", "consume", "authorize", "upsert",
                  "session"} : \E v : Go(r, p, v)
  BY <1>2
<1>4. PICK v : Go(r, p, v)
  BY <1>3
<1>5. p \in Steps \ {"sign"} /\ v \in Known
  BY <1>4, GoesSomewhere
<1>. QED BY <1>1, <1>4, <1>5, QuietForSessions

\* One user changes; the others stay as they are.
LEMMA OneMoves ==
  ASSUME TypeOK, NEW u \in Users, NEW x, user' = [user EXCEPT ![u] = x],
         Moves(user[u], x, created, created')
  PROVE  \A w \in Users : Moves(user[w], user'[w], created, created')
<1>1. user'[u] = x /\ \A w \in Users \ {u} : user'[w] = user[w]
  BY DEF TypeOK
<1>. QED BY <1>1 DEF Moves

LEMMA NewUserMoves ==
  ASSUME TypeOK, NEW role, NEW x, created' = created + 1
  PROVE  Moves(x, NewUser(role), created, created') /\ created <= created'
<1>1. NewUser(role).born = created
  BY DEF NewUser
<1>2. created < created' /\ created <= created'
  BY DEF TypeOK
<1>. QED BY <1>1, <1>2 DEF Moves

LEMMA VoidMoves ==
  ASSUME TypeOK, NEW x \in User, created' = created
  PROVE  Moves(x, Void(x), created, created')
<1>1. x # None /\ Void(x) # None /\ x.version \in Nat
  BY VoidTyped DEF User
<1>2. Void(x).born = x.born /\ Void(x).version = x.version + 1
  BY DEF User, Void
<1>. QED BY <1>1, <1>2 DEF Moves

LEMMA RestoreMoves ==
  ASSUME TypeOK, NEW x \in User
  PROVE  Moves(x, Restore(x), created, created')
<1>1. x # None /\ Restore(x) # None
  BY RestoreTyped DEF User
<1>2. Restore(x).born = x.born /\ Restore(x).version = x.version /\ Restore(x).restored
  BY DEF User, Restore
<1>. QED BY <1>1, <1>2 DEF Moves

LEMMA SignTokenFollows ==
  ASSUME TypeOK, TypeOK', SessionsFollow, NEW r \in Requests, SignToken(r)
  PROVE  SessionsFollow'
<1>1. UNCHANGED <<user, created>> /\ token' = token \cup {request[r].token}
      /\ pc[r] = "sign" /\ \E p \in Steps \ {"sign"} : \E v : Go(r, p, v)
  BY DEF SignToken, history, End, Steps
<1>2. \A t \in token' : t \in KnownTokens
  BY <1>1 DEF KnownTokens
<1>3. \A u \in Users : Moves(user[u], user'[u], created, created')
  BY <1>1 DEF Moves
<1>4. created <= created'
  BY <1>1 DEF TypeOK
<1>. QED BY <1>1, <1>2, <1>3, <1>4, StepFollows

\* A request that ends goes on, and not to sign.
LEMMA EndGoes ==
  ASSUME NEW r \in Requests, End(r)
  PROVE  \E p \in Steps \ {"sign"} : \E v : Go(r, p, v)
BY DEF End, Steps

LEMMA CreateFirstFollows ==
  ASSUME TypeOK, TypeOK', SessionsFollow, NEW r \in Requests, CreateFirst(r)
  PROVE  SessionsFollow'
<1>1. PICK u \in unused \cap LocalUsers :
        /\ user' = [user EXCEPT ![u] = NewUser("SYSTEM_ADMIN")]
        /\ token' = token \cup {TokenOf(u, user'[u])}
  BY DEF CreateFirst
<1>2. u \in Users /\ created' = created + 1 /\ End(r)
  BY DEF CreateFirst, Users
<1>3. user'[u] # None
  <2>1. user'[u] = NewUser("SYSTEM_ADMIN") /\ NewUser("SYSTEM_ADMIN") \in User
    BY <1>1, <1>2, NewUserTyped DEF TypeOK, Roles
  <2>. QED BY <2>1 DEF User
<1>4. \A w \in Users : Moves(user[w], user'[w], created, created')
  BY <1>1, <1>2, OneMoves, NewUserMoves
<1>5. \A t \in token' : t \in KnownTokens \/ t = TokenOf(u, user'[u])
  BY <1>1 DEF KnownTokens
<1>6. created <= created'
  BY <1>2 DEF TypeOK
<1>. QED BY <1>2, <1>3, <1>4, <1>5, <1>6, EndGoes, StepFollows

LEMMA WritePasswordFollows ==
  ASSUME TypeOK, TypeOK', SessionsFollow, NEW r \in Requests, WritePassword(r)
  PROVE  SessionsFollow'
<1>. DEFINE u == request[r].user
<1>1. u \in Users
  BY KnownFields DEF WritePassword, KnowsEnough
<1>2. created' = created /\ End(r) /\ created <= created'
  BY DEF WritePassword, history, TypeOK
<1>3. CASE user[u] = None
  <2>1. user' = user /\ token' = token
    BY <1>3 DEF WritePassword
  <2>2. /\ \A w \in Users : Moves(user[w], user'[w], created, created')
        /\ \A t \in token' : t \in KnownTokens
    BY <2>1 DEF Moves, KnownTokens
  <2>. QED BY <1>2, <2>2, EndGoes, StepFollows
<1>4. CASE user[u] # None
  <2>1. user' = [user EXCEPT ![u] = Void(user[u])]
        /\ token' \subseteq token \cup {TokenOf(u, user'[u])}
    BY <1>4 DEF WritePassword
  <2>. HIDE DEF u
  <2>2. user[u] \in User
    BY <1>1, <1>4 DEF TypeOK
  <2>3. \A w \in Users : Moves(user[w], user'[w], created, created')
    BY <1>1, <1>2, <2>1, <2>2, OneMoves, VoidMoves
  <2>4. user'[u] # None
    <3>1. user'[u] = Void(user[u]) /\ Void(user[u]) \in User
      BY <1>1, <2>1, <2>2, VoidTyped DEF TypeOK
    <3>. QED BY <3>1 DEF User
  <2>5. \A t \in token' : t \in KnownTokens \/ t = TokenOf(u, user'[u])
    BY <2>1 DEF KnownTokens
  <2>. QED BY <1>1, <1>2, <2>3, <2>4, <2>5, EndGoes, StepFollows
<1>. QED BY <1>3, <1>4

LEMMA UserStepsFollow ==
  ASSUME TypeOK, TypeOK', SessionsFollow, NEW r \in Requests,
         AddUser(r) \/ RemoveUser(r) \/ SaveConfig(r) \/ Authorize(r)
  PROVE  SessionsFollow'
<1>1. token' = token /\ \E p \in Steps \ {"sign"} : \E v : Go(r, p, v)
  BY DEF AddUser, RemoveUser, SaveConfig, Authorize, Tick, End, Steps
<1>2. \A t \in token' : t \in KnownTokens
  BY <1>1 DEF KnownTokens
<1>3. /\ created <= created'
      /\ \A u \in Users : Moves(user[u], user'[u], created, created')
  <2>1. CASE AddUser(r)
    <3>1. PICK u \in unused \cap LocalUsers, role \in Roles :
            user' = [user EXCEPT ![u] = NewUser(role)]
      BY <2>1 DEF AddUser
    <3>2. u \in Users /\ created' = created + 1
      BY <2>1 DEF AddUser, Users
    <3>. QED BY <3>1, <3>2, OneMoves, NewUserMoves
  <2>2. CASE RemoveUser(r)
    <3>1. request[r].user \in Users
      BY <2>2, KnownFields DEF RemoveUser, KnowsEnough
    <3>2. user' = [user EXCEPT ![request[r].user] = None] /\ created' = created
      BY <2>2 DEF RemoveUser
    <3>3. \A w \in Users : Moves(user[w], user'[w], created, created')
      <4>. DEFINE v == request[r].user
      <4>1. v \in Users /\ user' = [user EXCEPT ![v] = None]
        BY <3>1, <3>2
      <4>2. Moves(user[v], None, created, created')
        BY DEF Moves
      <4>. HIDE DEF v
      <4>. QED BY <4>1, <4>2, OneMoves
    <3>4. created <= created'
      BY <3>2 DEF TypeOK
    <3>. QED BY <3>3, <3>4
  <2>3. CASE SaveConfig(r)
    <3>1. created' = created
      BY <2>3 DEF SaveConfig, Tick, history
    <3>2. PICK s \in Settings : ChangeSettings(s) \/ RewriteSettings(s)
      BY <2>3 DEF SaveConfig
    <3>3. ASSUME NEW u \in Users
          PROVE  Moves(user[u], user'[u], created, created')
      <4>1. \/ user'[u] = user[u]
            \/ /\ user[u] \in User
               /\ user'[u] = Void(user[u]) \/ user'[u] = Restore(user[u])
        BY <3>2 DEF ChangeSettings, RewriteSettings, Existing, TypeOK
      <4>2. CASE user'[u] = user[u]
        BY <4>2 DEF Moves
      <4>. QED BY <3>1, <4>1, <4>2, VoidMoves, RestoreMoves
    <3>. QED BY <3>1, <3>3 DEF TypeOK
  <2>4. CASE Authorize(r)
    <3>1. created' = created
      BY <2>4 DEF Authorize, Tick, history
    <3>2. ASSUME user' = user
          PROVE  \A w \in Users : Moves(user[w], user'[w], created, created')
      BY <3>2 DEF Moves
    <3>3. ASSUME NEW u \in Subjects,
                 user' = [user EXCEPT ![u] = IF @ = None THEN @ ELSE Void(@)]
          PROVE  \A w \in Users : Moves(user[w], user'[w], created, created')
      <4>1. u \in Users
        BY DEF Users
      <4>2. Moves(user[u], IF user[u] = None THEN user[u] ELSE Void(user[u]),
                  created, created')
        <5>1. CASE user[u] = None
          BY <5>1 DEF Moves
        <5>2. CASE user[u] # None
          BY <3>1, <4>1, <5>2, VoidMoves DEF TypeOK
        <5>. QED BY <5>1, <5>2
      <4>. QED BY <3>3, <4>1, <4>2, OneMoves
    <3>4. \/ user' = user
          \/ \E u \in Subjects :
               user' = [user EXCEPT ![u] = IF @ = None THEN @ ELSE Void(@)]
      BY <2>4 DEF Authorize
    <3>5. created <= created'
      BY <3>1 DEF TypeOK
    <3>. QED BY <3>2, <3>3, <3>4, <3>5
  <2>. QED BY <2>1, <2>2, <2>3, <2>4
<1>. QED BY <1>1, <1>2, <1>3, StepFollows

LEMMA RefreshedMoves ==
  ASSUME NEW y \in User, NEW previous, NEW role \in Roles
  PROVE  LET x == Refreshed(y, previous, role) IN
         /\ x \in User /\ x.born = y.born /\ x.epoch = y.epoch /\ x.restored = y.restored
         /\ x.version = y.version \/ x.version > y.version
<1>1. y.version \in Nat /\ y.version + 1 \in Nat /\ y.version + 1 > y.version
  BY DEF User
<1>2. CASE previous \in {None, role}
  BY <1>1, <1>2 DEF User, Refreshed
<1>3. CASE previous \notin {None, role}
  BY <1>1, <1>3 DEF User, Refreshed
<1>. QED BY <1>2, <1>3

LEMMA UpsertFollows ==
  ASSUME TypeOK, TypeOK', SessionsFollow, NEW r \in Requests, Upsert(r)
  PROVE  SessionsFollow'
<1>. DEFINE u == request[r].user
<1>1. u \in Users
  BY KnownFields DEF Upsert, KnowsEnough, Users
<1>2. token' = token /\ \E p \in Steps \ {"sign"} : \E v : Go(r, p, v)
  BY DEF Upsert, Steps
<1>3. \A t \in token' : t \in KnownTokens
  BY <1>2 DEF KnownTokens
<1>4. /\ created <= created'
      /\ \A w \in Users : Moves(user[w], user'[w], created, created')
  <2>1. CASE user[u] = None
    <3>1. /\ user' = [user EXCEPT ![u] = NewUser(request[r].role)]
          /\ created' = created + 1
      BY <2>1 DEF Upsert, TypeOK
    <3>. HIDE DEF u
    <3>. QED BY <1>1, <3>1, OneMoves, NewUserMoves
  <2>2. CASE user[u] # None
    <3>. DEFINE x == Refreshed(user[u], request[r].previous, request[r].role)
    <3>1. user' = [user EXCEPT ![u] = x] /\ created' = created
      BY <2>2 DEF Upsert, TypeOK
    <3>2. user[u] \in User
      BY <1>1, <2>2 DEF TypeOK
    <3>3. /\ x \in User /\ x.born = user[u].born /\ x.epoch = user[u].epoch
          /\ x.restored = user[u].restored
          /\ x.version = user[u].version \/ x.version > user[u].version
      <4>1. user[u].version \in Nat
        BY <3>2 DEF User
      <4>2. request[r].role \in Roles
        BY KnownFields DEF Upsert, KnowsEnough
      <4>. HIDE DEF u
      <4>. QED BY <3>2, <4>2, RefreshedMoves
    <3>4. x # None
      BY <3>3 DEF User
    <3>. HIDE DEF x
    <3>5. Moves(user[u], x, created, created')
      BY <2>2, <3>3, <3>4 DEF Moves
    <3>6. created <= created'
      BY <3>1 DEF TypeOK
    <3>. HIDE DEF u
    <3>. QED BY <1>1, <3>1, <3>5, <3>6, OneMoves
  <2>. QED BY <2>1, <2>2
<1>. QED BY <1>2, <1>3, <1>4, StepFollows

LEMMA CreateSessionFollows ==
  ASSUME TypeOK, TypeOK', SessionsFollow, NEW r \in Requests, CreateSession(r)
  PROVE  SessionsFollow'
<1>. DEFINE u == request[r].user
<1>1. u \in Users
  BY KnownFields DEF CreateSession, KnowsEnough
<1>2. user' = user /\ created' = created /\ End(r)
  BY DEF CreateSession
<1>3. \A w \in Users : Moves(user[w], user'[w], created, created')
  BY <1>2 DEF Moves
<1>4. \A t \in token' : \/ t \in KnownTokens
                        \/ user'[u] # None /\ t = TokenOf(u, user'[u])
  BY <1>2 DEF CreateSession, KnownTokens
<1>5. created <= created'
  BY <1>2 DEF TypeOK
<1>. HIDE DEF u
<1>. QED BY <1>1, <1>2, <1>3, <1>4, <1>5, EndGoes, StepFollows

\* Steps of no request.
LEMMA TimeFollows ==
  ASSUME TypeOK, TypeOK', SessionsFollow,
         UNCHANGED <<user, token, pc, request, created>>
  PROVE  SessionsFollow'
<1>1. \A u \in Users : Moves(user[u], user'[u], created, created')
  BY DEF Moves
<1>2. KnownTokens' = KnownTokens
  BY DEF KnownTokens
<1>3. created <= created'
  BY DEF TypeOK
<1>. QED BY <1>1, <1>2, <1>3, SessionStep

LEMMA StepSessionsFollow == TypeOK /\ TypeOK' /\ SessionsFollow /\ [Next]_vars => SessionsFollow'
<1> SUFFICES ASSUME TypeOK, TypeOK', SessionsFollow, [Next]_vars PROVE SessionsFollow'
  OBVIOUS
<1>1. ASSUME NEW r \in Requests, Beginning(r) PROVE SessionsFollow'
  BY <1>1, BeginningFollows
<1>2. ASSUME NEW r \in Requests,
             \/ CreateFirst(r) \/ SignToken(r) \/ WritePassword(r) \/ Upsert(r)
             \/ CreateSession(r)
             \/ AddUser(r) \/ RemoveUser(r) \/ SaveConfig(r) \/ Authorize(r)
      PROVE  SessionsFollow'
  BY <1>2, CreateFirstFollows, SignTokenFollows, WritePasswordFollows, UserStepsFollow,
     UpsertFollows, CreateSessionFollows
<1>3. ASSUME NEW r \in Requests,
             \/ CountUsers(r) \/ CountPending(r) \/ CreateLogin(r) \/ FindLogin(r)
             \/ ConsumeLogin(r) \/ ReadExisting(r) \/ CreateCode(r) \/ ConsumeCode(r)
             \/ Abort(r)
      PROVE  SessionsFollow'
  BY <1>3, OtherStepsFollow
<1>4. ASSUME NEW x \in {"login", "code"} \X Logins, Expire(x) PROVE SessionsFollow'
  BY <1>4, TimeFollows DEF Expire, history
<1>5. CASE UNCHANGED vars
  BY <1>5, TimeFollows DEF vars, history
<1>. QED BY <1>1, <1>2, <1>3, <1>4, <1>5 DEF Next, Beginning

\* No session is accepted that was signed with what was read before a change of the
\* password, a refused sign-in or a change of the configuration voided it, however
\* the requests of auth.service.ts and oidc.service.ts overlap; but for the update of
\* the configuration that stores back what another has replaced.
THEOREM AcceptedSessionsAreCurrentHolds == Spec => []AcceptedSessionsAreCurrent
<1>1. Init => SessionsFollow
  BY DEF Init, SessionsFollow, KnownTokens
<1>2. TypeOK /\ TypeOK' /\ SessionsFollow /\ [Next]_vars => SessionsFollow'
  BY StepSessionsFollow
<1>3. SessionsFollow => AcceptedSessionsAreCurrent
  BY DEF SessionsFollow, AcceptedSessionsAreCurrent, Accepted, Follows, KnownTokens
<1>. QED BY <1>1, <1>2, <1>3, TypeCorrect, PTL DEF Spec

-----------------------------------------------------------------------------
(* One sign-in of a login. *)

\* A login that no callback can consume; a code that no exchange can.
SpentLogin(l) == l \notin unused /\ (login[l] = None \/ login[l].consumed)
SpentCode(l)  == code[l] = None \/ code[l].consumed

\* Request r has consumed login l, or the code of l, and is to use it.
BearingSteps == {"authorize", "provision", "upsert", "code"}
Bears(r, l)   == pc[r] \in BearingSteps /\ request[r].login = l
Redeems(r, l) == pc[r] = "session" /\ request[r].login = l

\* The inductive invariant: one request bears a login that is spent and has no code
\* yet; one redeems a code that is spent and has no session yet.
OneSignIn ==
  \A l \in Logins :
    /\ codes[l] \in {0, 1} /\ sessions[l] \in {0, 1}
    /\ code[l] # None => codes[l] = 1
    /\ codes[l] = 1 => SpentLogin(l)
    /\ sessions[l] = 1 => codes[l] = 1 /\ SpentCode(l)
    /\ \A r \in Requests :
         /\ Bears(r, l) => /\ SpentLogin(l) /\ codes[l] = 0
                           /\ \A q \in Requests : Bears(q, l) => q = r
         /\ Redeems(r, l) => /\ codes[l] = 1 /\ sessions[l] = 0 /\ SpentCode(l)
                             /\ \A q \in Requests : Redeems(q, l) => q = r

LEMMA InitOneSignIn == Init => OneSignIn
BY DEF Init, OneSignIn, Bears, Redeems, BearingSteps

\* A step keeps the invariant if it gives no code, no session, and nothing to bear or
\* to redeem.
LEMMA OneSignInKept ==
  ASSUME OneSignIn, codes' = codes, sessions' = sessions,
         \A l \in Logins : SpentLogin(l) => SpentLogin(l)',
         \A l \in Logins : code'[l] = code[l] \/ code'[l] = None,
         \A q \in Requests, l \in Logins :
           (Bears(q, l)' => Bears(q, l)) /\ (Redeems(q, l)' => Redeems(q, l))
  PROVE  OneSignIn'
<1>1. \A l \in Logins : SpentCode(l) => SpentCode(l)'
  BY DEF SpentCode
<1>2. \A l \in Logins : code'[l] # None => code[l] # None
  OBVIOUS
<1>. QED BY <1>1, <1>2 DEF OneSignIn

\* Of what a request that goes on bears and redeems.
LEMMA BearsAfterGo ==
  ASSUME TypeOK, NEW r \in Requests, NEW p \in Steps \ {"session"}, NEW v \in Known,
         Go(r, p, v),
         p \in BearingSteps => pc[r] \in BearingSteps /\ v.login = request[r].login
  PROVE  \A q \in Requests, l \in Logins :
           (Bears(q, l)' => Bears(q, l)) /\ (Redeems(q, l)' => Redeems(q, l))
<1>1. /\ pc'[r] = p /\ request'[r] = v
      /\ \A q \in Requests \ {r} : pc'[q] = pc[q] /\ request'[q] = request[q]
  BY GoTyped
<1>. QED BY <1>1 DEF Bears, Redeems

\* Steps that give up what they bear, if anything.
LEMMA OneSignInAfterGo ==
  ASSUME TypeOK, TypeOK', OneSignIn, NEW r \in Requests,
         \E p \in (Steps \ BearingSteps) \ {"session"} : \E v : Go(r, p, v),
         codes' = codes, sessions' = sessions,
         \A l \in Logins : SpentLogin(l) => SpentLogin(l)',
         \A l \in Logins : code'[l] = code[l] \/ code'[l] = None
  PROVE  OneSignIn'
<1>1. PICK p \in (Steps \ BearingSteps) \ {"session"} : \E v : Go(r, p, v)
  OBVIOUS
<1>2. PICK v : Go(r, p, v)
  BY <1>1
<1>3. v \in Known
  BY <1>2, GoesSomewhere
<1>. QED BY <1>1, <1>2, <1>3, BearsAfterGo, OneSignInKept

LEMMA BeginningOneSignIn ==
  ASSUME TypeOK, TypeOK', OneSignIn, NEW r \in Requests, Beginning(r)
  PROVE  OneSignIn'
<1>1. UNCHANGED <<unused, login, code, codes, sessions>>
  BY DEF Beginning, SignIn, ReadForPassword, Add, ReadConfig, Begin, Remove, Callback,
         Exchange, history, oidc
<1>2. \E p \in {"sign", "password", "add", "configure", "begin", "remove", "find",
                "exchange"} : \E v : Go(r, p, v)
  BY DEF Beginning, SignIn, ReadForPassword, Add, ReadConfig, Begin, Remove, Callback,
         Exchange
<1>3. \E p \in (Steps \ BearingSteps) \ {"session"} : \E v : Go(r, p, v)
  BY <1>2 DEF Steps, BearingSteps
<1>4. \A l \in Logins : SpentLogin(l) => SpentLogin(l)'
  BY <1>1 DEF SpentLogin
<1>. QED BY <1>1, <1>3, <1>4, OneSignInAfterGo

\* Steps that leave logins and codes alone.
LEMMA OtherOneSignIn ==
  ASSUME TypeOK, TypeOK', OneSignIn, NEW r \in Requests,
         \/ CountUsers(r) \/ SignToken(r) \/ WritePassword(r) \/ FindLogin(r) \/ Abort(r)
  PROVE  OneSignIn'
<1>1. UNCHANGED <<unused, login, code, codes, sessions>>
  BY DEF CountUsers, SignToken, WritePassword, FindLogin, Abort, Tick, history, oidc
<1>2. \E p \in {"create", "idle", "consume"} : \E v : Go(r, p, v)
  BY DEF CountUsers, SignToken, WritePassword, FindLogin, Abort, End
<1>3. \E p \in (Steps \ BearingSteps) \ {"session"} : \E v : Go(r, p, v)
  BY <1>2 DEF Steps, BearingSteps
<1>4. \A l \in Logins : SpentLogin(l) => SpentLogin(l)'
  BY <1>1 DEF SpentLogin
<1>. QED BY <1>1, <1>3, <1>4, OneSignInAfterGo

\* Steps that use ids up, or drop logins and codes.
LEMMA DroppingOneSignIn ==
  ASSUME TypeOK, TypeOK', OneSignIn, NEW r \in Requests,
         \/ CreateFirst(r) \/ AddUser(r) \/ RemoveUser(r) \/ SaveConfig(r)
         \/ CountPending(r) \/ CreateLogin(r)
  PROVE  OneSignIn'
<1>1. codes' = codes /\ sessions' = sessions /\ unused' \subseteq unused
  BY DEF CreateFirst, AddUser, RemoveUser, SaveConfig, CountPending, CreateLogin, Tick,
         history
<1>2. \E p \in {"idle", "login"} : \E v : Go(r, p, v)
  BY DEF CreateFirst, AddUser, RemoveUser, SaveConfig, CountPending, CreateLogin, End
<1>3. \E p \in (Steps \ BearingSteps) \ {"session"} : \E v : Go(r, p, v)
  BY <1>2 DEF Steps, BearingSteps
<1>4. \A l \in Logins : code'[l] = code[l] \/ code'[l] = None
  BY DEF CreateFirst, AddUser, RemoveUser, SaveConfig, ChangeSettings, RewriteSettings,
         CountPending, CreateLogin, oidc
<1>5. \A l \in Logins : l \notin unused => login'[l] = login[l] \/ login'[l] = None
  <2>1. CASE CreateLogin(r)
    BY <2>1 DEF CreateLogin, TypeOK
  <2>2. CASE \/ CreateFirst(r) \/ AddUser(r) \/ RemoveUser(r) \/ SaveConfig(r)
             \/ CountPending(r)
    BY <2>2 DEF CreateFirst, AddUser, RemoveUser, SaveConfig, ChangeSettings,
                RewriteSettings, CountPending, oidc
  <2>. QED BY <2>1, <2>2
<1>6. \A l \in Logins : SpentLogin(l) => SpentLogin(l)'
  BY <1>1, <1>5 DEF SpentLogin
<1>. QED BY <1>1, <1>3, <1>4, <1>6, OneSignInAfterGo

\* The provider's answer and the user: the login is borne on.
LEMMA BearingOneSignIn ==
  ASSUME TypeOK, TypeOK', OneSignIn, NEW r \in Requests,
         Authorize(r) \/ ReadExisting(r) \/ Upsert(r)
  PROVE  OneSignIn'
<1>1. UNCHANGED <<unused, login, code, codes, sessions>>
  BY DEF Authorize, ReadExisting, Upsert, Tick, history, oidc
<1>2. \A l \in Logins : SpentLogin(l) => SpentLogin(l)'
  BY <1>1 DEF SpentLogin
<1>3. CASE End(r)
  <2>1. \E p \in (Steps \ BearingSteps) \ {"session"} : \E v : Go(r, p, v)
    BY <1>3 DEF End, Steps, BearingSteps
  <2>. QED BY <1>1, <1>2, <2>1, OneSignInAfterGo
<1>4. CASE ~End(r)
  <2>1. request[r] \in Known
    BY DEF TypeOK
  <2>2. \E p \in BearingSteps : \E v : Go(r, p, v) /\ v.login = request[r].login
    <3>1. ASSUME NEW x, NEW y
          PROVE  /\ [request[r] EXCEPT !.user = x, !.role = y].login = request[r].login
                 /\ [request[r] EXCEPT !.previous = x].login = request[r].login
                 /\ [request[r] EXCEPT !.seen = x].login = request[r].login
      BY <2>1 DEF Known
    <3>2. CASE Authorize(r)
      <4>1. PICK u \in Subjects, role \in Roles :
              Go(r, "provision", [request[r] EXCEPT !.user = u, !.role = role])
        <5>1. End(r) \/ \E u \in Subjects, role \in Roles :
                Go(r, "provision", [request[r] EXCEPT !.user = u, !.role = role])
          BY <3>2, Zenon DEF Authorize
        <5>. QED BY <1>4, <5>1, Zenon
      <4>. DEFINE v == [request[r] EXCEPT !.user = u, !.role = role]
      <4>2. v.login = request[r].login
        BY <3>1
      <4>3. Go(r, "provision", v)
        BY <4>1
      <4>. HIDE DEF v
      <4>. QED BY <4>2, <4>3 DEF BearingSteps
    <3>3. CASE ReadExisting(r)
      BY <3>1, <3>3 DEF ReadExisting, BearingSteps
    <3>4. CASE Upsert(r)
      BY <3>1, <3>4 DEF Upsert, BearingSteps
    <3>. QED BY <3>2, <3>3, <3>4
  <2>3. PICK p \in BearingSteps : \E v : Go(r, p, v) /\ v.login = request[r].login
    BY <2>2
  <2>4. PICK v : Go(r, p, v) /\ v.login = request[r].login
    BY <2>3
  <2>5. pc[r] \in BearingSteps
    BY DEF Authorize, ReadExisting, Upsert, BearingSteps
  <2>6. p \in Steps \ {"session"} /\ v \in Known
    BY <2>4, GoesSomewhere DEF BearingSteps
  <2>. QED BY <1>1, <1>2, <2>4, <2>5, <2>6, BearsAfterGo, OneSignInKept
<1>. QED BY <1>3, <1>4

\* The steps of one login: what others bear and redeem stays.
LEMMA OthersStay ==
  ASSUME TypeOK, TypeOK', NEW r \in Requests, NEW p, NEW v, Go(r, p, v)
  PROVE  /\ pc'[r] = p /\ request'[r] = v
         /\ \A q \in Requests \ {r}, l \in Logins :
              Bears(q, l)' = Bears(q, l) /\ Redeems(q, l)' = Redeems(q, l)
<1>1. p \in Steps /\ v \in Known
  BY GoesSomewhere
<1>2. /\ pc'[r] = p /\ request'[r] = v
      /\ \A q \in Requests \ {r} : pc'[q] = pc[q] /\ request'[q] = request[q]
  BY <1>1, GoTyped
<1>. QED BY <1>2 DEF Bears, Redeems

LEMMA ConsumeLoginOneSignIn ==
  ASSUME TypeOK, TypeOK', OneSignIn, NEW r \in Requests, ConsumeLogin(r)
  PROVE  OneSignIn'
<1>1. PICK m \in Logins :
        m = request[r].login /\ m \notin unused /\ pc[r] = "consume"
  BY KnownFields DEF ConsumeLogin, KnowsEnough
<1>2. UNCHANGED <<unused, code, codes, sessions>>
  BY DEF ConsumeLogin, Tick, history
<1>3. CASE ~(login[m] # None /\ ~login[m].consumed)
  <2>1. login' = login /\ End(r)
    BY <1>1, <1>3 DEF ConsumeLogin
  <2>2. \A l \in Logins : SpentLogin(l) => SpentLogin(l)'
    BY <1>2, <2>1 DEF SpentLogin
  <2>3. \E p \in (Steps \ BearingSteps) \ {"session"} : \E v : Go(r, p, v)
    BY <2>1 DEF End, Steps, BearingSteps
  <2>. QED BY <1>2, <2>2, <2>3, OneSignInAfterGo
<1>4. CASE login[m] # None /\ ~login[m].consumed
  <2>1. /\ login' = [login EXCEPT ![m].consumed = TRUE]
        /\ Go(r, "authorize", request[r])
    BY <1>1, <1>4 DEF ConsumeLogin
  <2>2. login'[m].consumed /\ \A l \in Logins \ {m} : login'[l] = login[l]
    BY <1>1, <1>4, <2>1 DEF TypeOK
  <2>3. /\ \A l \in Logins : SpentLogin(l) => SpentLogin(l)'
        /\ SpentLogin(m)' /\ ~SpentLogin(m)
    BY <1>1, <1>2, <1>4, <2>2 DEF SpentLogin
  <2>4. /\ \A l \in Logins : Bears(r, l)' => l = m
        /\ \A l \in Logins : ~Redeems(r, l)'
        /\ \A q \in Requests \ {r}, l \in Logins :
             Bears(q, l)' = Bears(q, l) /\ Redeems(q, l)' = Redeems(q, l)
    BY <1>1, <2>1, OthersStay DEF Bears, Redeems
  <2>5. codes[m] = 0 /\ \A q \in Requests : ~Bears(q, m)
    BY <1>1, <2>3 DEF OneSignIn
  <2>6. \A l \in Logins : SpentCode(l)' = SpentCode(l)
    BY <1>2 DEF SpentCode
  <2>. QED BY <1>1, <1>2, <2>3, <2>4, <2>5, <2>6 DEF OneSignIn
<1>. QED BY <1>3, <1>4

LEMMA CreateCodeOneSignIn ==
  ASSUME TypeOK, TypeOK', OneSignIn, NEW r \in Requests, CreateCode(r)
  PROVE  OneSignIn'
<1>. DEFINE u == request[r].user
<1>1. PICK m \in Logins : m = request[r].login /\ Bears(r, m) /\ End(r)
  BY KnownFields DEF CreateCode, KnowsEnough, Bears, BearingSteps
<1>2. UNCHANGED <<unused, login, sessions>>
  BY DEF CreateCode
<1>3. \A l \in Logins : SpentLogin(l)' = SpentLogin(l)
  BY <1>2 DEF SpentLogin
<1>4. /\ \A l \in Logins : ~Bears(r, l)' /\ ~Redeems(r, l)'
      /\ \A q \in Requests \ {r}, l \in Logins :
           Bears(q, l)' = Bears(q, l) /\ Redeems(q, l)' = Redeems(q, l)
  BY <1>1, OthersStay DEF End, Bears, Redeems, BearingSteps
<1>5. CASE code' = code /\ codes' = codes
  <2>1. \E p \in (Steps \ BearingSteps) \ {"session"} : \E v : Go(r, p, v)
    BY <1>1 DEF End, Steps, BearingSteps
  <2>. QED BY <1>2, <1>3, <1>5, <2>1, OneSignInAfterGo
<1>6. CASE /\ code' = [code EXCEPT ![m] = [user |-> u, consumed |-> FALSE]]
           /\ codes' = [codes EXCEPT ![m] = @ + 1]
  <2>1. /\ codes'[m] = codes[m] + 1
        /\ \A l \in Logins \ {m} : code'[l] = code[l] /\ codes'[l] = codes[l]
    BY <1>1, <1>6 DEF TypeOK
  <2>2. /\ codes[m] = 0 /\ SpentLogin(m) /\ sessions[m] = 0
        /\ \A q \in Requests : ~Redeems(q, m) /\ (Bears(q, m) => q = r)
    BY <1>1 DEF OneSignIn
  <2>3. \A l \in Logins \ {m} : SpentCode(l)' = SpentCode(l)
    BY <2>1 DEF SpentCode
  <2>. QED BY <1>1, <1>2, <1>3, <1>4, <2>1, <2>2, <2>3 DEF OneSignIn
<1>. QED BY <1>1, <1>5, <1>6 DEF CreateCode

LEMMA ConsumeCodeOneSignIn ==
  ASSUME TypeOK, TypeOK', OneSignIn, NEW r \in Requests, ConsumeCode(r)
  PROVE  OneSignIn'
<1>1. PICK m \in Logins : m = request[r].login
  BY KnownFields DEF ConsumeCode, KnowsEnough
<1>2. UNCHANGED <<unused, login, codes, sessions>>
  BY DEF ConsumeCode, Tick, history
<1>3. \A l \in Logins : SpentLogin(l)' = SpentLogin(l)
  BY <1>2 DEF SpentLogin
<1>4. CASE ~(code[m] # None /\ ~code[m].consumed)
  <2>1. code' = code /\ End(r)
    BY <1>1, <1>4 DEF ConsumeCode
  <2>2. \E p \in (Steps \ BearingSteps) \ {"session"} : \E v : Go(r, p, v)
    BY <2>1 DEF End, Steps, BearingSteps
  <2>. QED BY <1>2, <1>3, <2>1, <2>2, OneSignInAfterGo
<1>5. CASE code[m] # None /\ ~code[m].consumed
  <2>1. /\ code' = [code EXCEPT ![m].consumed = TRUE]
        /\ Go(r, "session", request[r])
    BY <1>1, <1>5 DEF ConsumeCode
  <2>2. code'[m].consumed /\ \A l \in Logins \ {m} : code'[l] = code[l]
    BY <1>1, <1>5, <2>1 DEF TypeOK
  <2>3. SpentCode(m)' /\ \A l \in Logins \ {m} : SpentCode(l)' = SpentCode(l)
    BY <2>2 DEF SpentCode
  <2>4. /\ codes[m] = 1 /\ sessions[m] = 0
        /\ \A q \in Requests : ~Redeems(q, m)
    BY <1>1, <1>5 DEF OneSignIn, SpentCode
  <2>5. /\ \A l \in Logins : ~Bears(r, l)' /\ (Redeems(r, l)' => l = m)
        /\ \A q \in Requests \ {r}, l \in Logins :
             Bears(q, l)' = Bears(q, l) /\ Redeems(q, l)' = Redeems(q, l)
    BY <1>1, <2>1, OthersStay DEF Bears, Redeems, BearingSteps
  <2>. QED BY <1>1, <1>2, <1>3, <2>2, <2>3, <2>4, <2>5 DEF OneSignIn
<1>. QED BY <1>4, <1>5

LEMMA CreateSessionOneSignIn ==
  ASSUME TypeOK, TypeOK', OneSignIn, NEW r \in Requests, CreateSession(r)
  PROVE  OneSignIn'
<1>1. PICK m \in Logins : m = request[r].login /\ Redeems(r, m) /\ End(r)
  BY KnownFields DEF CreateSession, KnowsEnough, Redeems
<1>2. UNCHANGED <<unused, login, code, codes>>
  BY DEF CreateSession, oidc
<1>3. \A l \in Logins : SpentLogin(l)' = SpentLogin(l) /\ SpentCode(l)' = SpentCode(l)
  BY <1>2 DEF SpentLogin, SpentCode
<1>4. CASE sessions' = sessions
  <2>1. \E p \in (Steps \ BearingSteps) \ {"session"} : \E v : Go(r, p, v)
    BY <1>1 DEF End, Steps, BearingSteps
  <2>. QED BY <1>2, <1>3, <1>4, <2>1, OneSignInAfterGo
<1>5. CASE sessions' = [sessions EXCEPT ![m] = @ + 1]
  <2>1. /\ sessions'[m] = sessions[m] + 1
        /\ \A l \in Logins \ {m} : sessions'[l] = sessions[l]
    BY <1>1, <1>5 DEF TypeOK
  <2>2. /\ codes[m] = 1 /\ sessions[m] = 0 /\ SpentCode(m)
        /\ \A q \in Requests : Redeems(q, m) => q = r
    BY <1>1 DEF OneSignIn
  <2>3. /\ \A l \in Logins : ~Bears(r, l)' /\ ~Redeems(r, l)'
        /\ \A q \in Requests \ {r}, l \in Logins :
             Bears(q, l)' = Bears(q, l) /\ Redeems(q, l)' = Redeems(q, l)
    BY <1>1, OthersStay DEF End, Bears, Redeems, BearingSteps
  <2>. QED BY <1>1, <1>2, <1>3, <2>1, <2>2, <2>3 DEF OneSignIn
<1>. QED BY <1>1, <1>4, <1>5 DEF CreateSession

LEMMA StepOneSignIn == TypeOK /\ TypeOK' /\ OneSignIn /\ [Next]_vars => OneSignIn'
<1> SUFFICES ASSUME TypeOK, TypeOK', OneSignIn, [Next]_vars PROVE OneSignIn'
  OBVIOUS
<1>1. ASSUME NEW r \in Requests, Beginning(r) PROVE OneSignIn'
  BY <1>1, BeginningOneSignIn
<1>2. ASSUME NEW r \in Requests,
             \/ CountUsers(r) \/ SignToken(r) \/ WritePassword(r) \/ FindLogin(r)
             \/ Abort(r)
             \/ CreateFirst(r) \/ AddUser(r) \/ RemoveUser(r) \/ SaveConfig(r)
             \/ CountPending(r) \/ CreateLogin(r)
      PROVE  OneSignIn'
  BY <1>2, OtherOneSignIn, DroppingOneSignIn
<1>3. ASSUME NEW r \in Requests,
             \/ Authorize(r) \/ ReadExisting(r) \/ Upsert(r)
             \/ ConsumeLogin(r) \/ CreateCode(r) \/ ConsumeCode(r) \/ CreateSession(r)
      PROVE  OneSignIn'
  BY <1>3, BearingOneSignIn, ConsumeLoginOneSignIn, CreateCodeOneSignIn,
     ConsumeCodeOneSignIn, CreateSessionOneSignIn
<1>4. ASSUME UNCHANGED <<unused, login, code, codes, sessions, pc, request>>
      PROVE  OneSignIn'
  BY <1>4, OneSignInKept DEF SpentLogin, Bears, Redeems
<1>5. ASSUME NEW x \in {"login", "code"} \X Logins, Expire(x) PROVE OneSignIn'
  BY <1>4, <1>5 DEF Expire, history
<1>6. CASE UNCHANGED vars
  BY <1>4, <1>6 DEF vars, history, oidc
<1>. QED BY <1>1, <1>2, <1>3, <1>5, <1>6 DEF Next, Beginning

\* A login ends in one code and one session at most, however often and however
\* concurrently its callback and its code arrive: updateMany of oidc.service.ts takes
\* each of the two once.
THEOREM SignsInOnceHolds == Spec => []SignsInOnce
<1>1. OneSignIn => SignsInOnce
  BY DEF OneSignIn, SignsInOnce
<1>. QED BY <1>1, InitOneSignIn, StepOneSignIn, TypeCorrect, PTL DEF Spec

-----------------------------------------------------------------------------
(* The setup. *)

\* The inductive invariant: a setup follows only the deletion of a last user; and
\* while no two deletions overlapped, another user remains after each under way.
SetupIsClosed ==
  /\ Existing = {} => setups <= emptied
  /\ \A r \in Requests : pc[r] = "create" => setups <= emptied
  /\ setups <= 1 + emptied
  /\ ~overlapped => emptied = 0
  /\ ~overlapped => \A r \in Requests :
       pc[r] = "remove" => \E u \in Existing : u # request[r].user

LEMMA SetupIsClosedKept ==
  ASSUME TypeOK, TypeOK', SetupIsClosed, UNCHANGED <<setups, emptied, overlapped>>,
         Existing \subseteq Existing',
         NEW r \in Requests,
         \E p \in Steps \ {"create", "remove"} : \E v : Go(r, p, v)
  PROVE  SetupIsClosed'
<1>1. PICK p \in Steps \ {"create", "remove"} : \E v : Go(r, p, v)
  OBVIOUS
<1>2. PICK v : Go(r, p, v)
  BY <1>1
<1>3. v \in Known
  BY <1>2, GoesSomewhere
<1>4. /\ pc'[r] = p /\ request'[r] = v
      /\ \A q \in Requests \ {r} : pc'[q] = pc[q] /\ request'[q] = request[q]
  BY <1>2, <1>3, GoTyped
<1>. QED BY <1>4 DEF SetupIsClosed

LEMMA BeginningSetup ==
  ASSUME TypeOK, TypeOK', SetupIsClosed, NEW r \in Requests, Beginning(r)
  PROVE  SetupIsClosed'
<1>1. UNCHANGED <<user, setups, emptied, overlapped>>
  BY DEF Beginning, SignIn, ReadForPassword, Add, ReadConfig, Begin, Remove, Callback,
         Exchange, history
<1>2. Existing' = Existing
  BY <1>1 DEF Existing
<1>3. CASE \E t \in token, u \in Existing : Remove(r, t, u)
  <2>1. PICK t \in token, u \in Existing : Remove(r, t, u)
    BY <1>3
  <2>. DEFINE v == [Nothing EXCEPT !.user = u]
  <2>2. Go(r, "remove", v) /\ t.user # u /\ t.user \in Existing
    BY <2>1 DEF Remove, Administrators, Accepted, Existing, TypeOK, Token
  <2>3. v.user = u
    BY DEF Nothing
  <2>. HIDE DEF v
  <2>4. "remove" \in Steps /\ v \in Known
    BY <2>2, GoesSomewhere
  <2>5. /\ pc'[r] = "remove" /\ request'[r] = v
        /\ \A q \in Requests \ {r} : pc'[q] = pc[q] /\ request'[q] = request[q]
    BY <2>2, <2>4, GoTyped
  <2>. QED BY <1>1, <1>2, <2>2, <2>3, <2>5 DEF SetupIsClosed
<1>4. CASE ~ \E t \in token, u \in Existing : Remove(r, t, u)
  <2>1. \E p \in {"sign", "password", "add", "configure", "begin", "find", "exchange"} :
          \E v : Go(r, p, v)
    BY <1>4 DEF Beginning, SignIn, ReadForPassword, Add, ReadConfig, Begin, Callback,
                Exchange
  <2>2. \E p \in Steps \ {"create", "remove"} : \E v : Go(r, p, v)
    BY <2>1 DEF Steps
  <2>. QED BY <1>1, <1>2, <2>2, SetupIsClosedKept
<1>. QED BY <1>3, <1>4

LEMMA QuietSetup ==
  ASSUME TypeOK, TypeOK', SetupIsClosed, NEW r \in Requests,
         \/ SignToken(r) \/ CountPending(r) \/ CreateLogin(r) \/ FindLogin(r)
         \/ ConsumeLogin(r) \/ ReadExisting(r) \/ CreateCode(r) \/ ConsumeCode(r)
         \/ CreateSession(r) \/ Abort(r)
  PROVE  SetupIsClosed'
<1>1. UNCHANGED <<user, setups, emptied, overlapped>>
  BY DEF SignToken, CountPending, CreateLogin, FindLogin, ConsumeLogin, ReadExisting,
         CreateCode, ConsumeCode, CreateSession, Abort, Tick, history
<1>2. Existing' = Existing
  BY <1>1 DEF Existing
<1>3. \E p \in {"idle", "login", "consume", "authorize", "upsert", "session"} :
        \E v : Go(r, p, v)
  BY DEF SignToken, CountPending, CreateLogin, FindLogin, ConsumeLogin, ReadExisting,
         CreateCode, ConsumeCode, CreateSession, Abort, End
<1>4. \E p \in Steps \ {"create", "remove"} : \E v : Go(r, p, v)
  BY <1>3 DEF Steps
<1>. QED BY <1>1, <1>2, <1>4, SetupIsClosedKept

\* Users who exist and are written are still there.
LEMMA WritingSetup ==
  ASSUME TypeOK, TypeOK', SetupIsClosed, NEW r \in Requests,
         WritePassword(r) \/ AddUser(r) \/ SaveConfig(r) \/ Authorize(r) \/ Upsert(r)
  PROVE  SetupIsClosed'
<1>1. UNCHANGED <<setups, emptied, overlapped>>
  BY DEF WritePassword, AddUser, SaveConfig, Authorize, Upsert, Tick, history
<1>2. ASSUME NEW x \in User
      PROVE  x # None /\ Void(x) # None /\ Restore(x) # None
  BY VoidTyped, RestoreTyped DEF User
<1>3. ASSUME NEW u \in Existing
      PROVE  user'[u] # None
  <2>1. user[u] \in User /\ u \in Users
    BY DEF Existing, TypeOK
  <2>2. CASE WritePassword(r)
    BY <1>2, <2>1, <2>2 DEF WritePassword, TypeOK
  <2>3. CASE AddUser(r)
    <3>1. PICK w \in unused \cap LocalUsers, role \in Roles :
            user' = [user EXCEPT ![w] = NewUser(role)]
      BY <2>3 DEF AddUser
    <3>2. NewUser(role) \in User
      BY NewUserTyped DEF TypeOK
    <3>. QED BY <1>2, <2>1, <3>1, <3>2 DEF TypeOK
  <2>4. CASE SaveConfig(r)
    BY <1>2, <2>1, <2>4 DEF SaveConfig, ChangeSettings, RewriteSettings
  <2>5. CASE Authorize(r)
    <3>1. \/ user' = user
          \/ \E w \in Subjects :
               user' = [user EXCEPT ![w] = IF @ = None THEN @ ELSE Void(@)]
      BY <2>5 DEF Authorize
    <3>. QED BY <1>2, <2>1, <3>1 DEF TypeOK
  <2>6. CASE Upsert(r)
    <3>1. CASE u = request[r].user
      <4>1. user' = [user EXCEPT ![u] =
                       Refreshed(user[u], request[r].previous, request[r].role)]
        BY <2>1, <2>6, <3>1, <1>2 DEF Upsert
      <4>2. request[r].role \in Roles
        BY <2>6, KnownFields DEF Upsert, KnowsEnough
      <4>3. Refreshed(user[u], request[r].previous, request[r].role) \in User
        BY <2>1, <4>2, RefreshedMoves
      <4>. QED BY <1>2, <2>1, <4>1, <4>3 DEF TypeOK
    <3>2. CASE u # request[r].user
      BY <1>2, <2>1, <2>6, <3>2 DEF Upsert, TypeOK
    <3>. QED BY <3>1, <3>2
  <2>. QED BY <2>2, <2>3, <2>4, <2>5, <2>6
<1>4. Existing \subseteq Existing'
  BY <1>3 DEF Existing
<1>5. \E p \in {"idle", "provision", "code"} : \E v : Go(r, p, v)
  BY DEF WritePassword, AddUser, SaveConfig, Authorize, Upsert, End
<1>6. \E p \in Steps \ {"create", "remove"} : \E v : Go(r, p, v)
  BY <1>5 DEF Steps
<1>. QED BY <1>1, <1>4, <1>6, SetupIsClosedKept

LEMMA CountUsersSetup ==
  ASSUME TypeOK, TypeOK', SetupIsClosed, NEW r \in Requests, CountUsers(r)
  PROVE  SetupIsClosed'
<1>1. UNCHANGED <<user, setups, emptied, overlapped>> /\ Existing = {}
  BY DEF CountUsers, history
<1>2. Existing' = {}
  BY <1>1 DEF Existing
<1>3. "create" \in Steps /\ Go(r, "create", Nothing)
  BY DEF CountUsers, Steps
<1>4. /\ pc'[r] = "create"
      /\ \A q \in Requests \ {r} : pc'[q] = pc[q] /\ request'[q] = request[q]
  BY <1>3, GoTyped, NothingKnown
<1>. QED BY <1>1, <1>2, <1>4 DEF SetupIsClosed

LEMMA CreateFirstSetup ==
  ASSUME TypeOK, TypeOK', SetupIsClosed, NEW r \in Requests, CreateFirst(r)
  PROVE  SetupIsClosed'
<1>1. UNCHANGED <<emptied, overlapped>> /\ setups' = setups + 1 /\ setups <= emptied
  BY DEF CreateFirst, SetupIsClosed
<1>2. PICK u \in unused \cap LocalUsers : user' = [user EXCEPT ![u] = NewUser("SYSTEM_ADMIN")]
  BY DEF CreateFirst
<1>3. Existing \subseteq Existing' /\ u \in Existing'
  <2>1. NewUser("SYSTEM_ADMIN") # None /\ u \in Users
    BY NewUserTyped DEF TypeOK, User, Users, Roles
  <2>. QED BY <1>2, <2>1 DEF Existing, TypeOK
<1>4. "idle" \in Steps /\ Go(r, "idle", Nothing)
  BY DEF CreateFirst, End, Steps
<1>5. /\ pc'[r] = "idle"
      /\ \A q \in Requests \ {r} : pc'[q] = pc[q] /\ request'[q] = request[q]
  BY <1>4, GoTyped, NothingKnown
<1>6. \A q \in Requests : pc'[q] # "create"
  BY <1>5 DEF CreateFirst, TypeOK
<1>7. setups' \in Nat /\ emptied' \in Nat /\ setups' <= 1 + emptied'
  BY <1>1 DEF TypeOK
<1>. QED BY <1>1, <1>3, <1>5, <1>6, <1>7 DEF SetupIsClosed

LEMMA RemoveUserSetup ==
  ASSUME TypeOK, TypeOK', SetupIsClosed, NEW r \in Requests, RemoveUser(r)
  PROVE  SetupIsClosed'
<1>1. PICK u \in Users : u = request[r].user
  BY KnownFields DEF RemoveUser, KnowsEnough
<1>2. /\ setups' = setups
      /\ emptied' = emptied + (IF Existing = {u} THEN 1 ELSE 0)
      /\ overlapped' = (overlapped \/ \E s \in Requests \ {r} : pc[s] = "remove")
  BY <1>1 DEF RemoveUser
<1>3. Existing' = Existing \ {u}
  BY <1>1 DEF RemoveUser, Existing, TypeOK
<1>4. "idle" \in Steps /\ Go(r, "idle", Nothing) /\ pc[r] = "remove"
  BY DEF RemoveUser, End, Steps
<1>5. /\ pc'[r] = "idle"
      /\ \A q \in Requests \ {r} : pc'[q] = pc[q] /\ request'[q] = request[q]
  BY <1>4, GoTyped, NothingKnown
<1>6. emptied \in Nat /\ setups \in Nat /\ emptied' \in Nat /\ emptied <= emptied'
  BY <1>2 DEF TypeOK
<1>7. ASSUME Existing' = {}
      PROVE  setups' <= emptied'
  <2>1. Existing = {} \/ Existing = {u}
    BY <1>3, <1>7
  <2>. QED BY <1>2, <1>6, <2>1 DEF SetupIsClosed
<1>8. \A q \in Requests : pc'[q] = "create" => setups' <= emptied'
  BY <1>2, <1>5, <1>6 DEF SetupIsClosed
<1>9. setups' <= 1 + emptied'
  BY <1>2, <1>6 DEF SetupIsClosed
<1>10. ASSUME ~overlapped'
       PROVE  emptied' = 0 /\ \A q \in Requests : pc'[q] # "remove"
  <2>1. ~overlapped /\ \A s \in Requests \ {r} : pc[s] # "remove"
    BY <1>2, <1>10
  <2>2. Existing # {u} /\ emptied = 0
    BY <1>1, <1>4, <2>1 DEF SetupIsClosed
  <2>. QED BY <1>2, <1>5, <2>1, <2>2
<1>. QED BY <1>7, <1>8, <1>9, <1>10 DEF SetupIsClosed

LEMMA StepSetup == TypeOK /\ TypeOK' /\ SetupIsClosed /\ [Next]_vars => SetupIsClosed'
<1> SUFFICES ASSUME TypeOK, TypeOK', SetupIsClosed, [Next]_vars PROVE SetupIsClosed'
  OBVIOUS
<1>1. ASSUME NEW r \in Requests,
             Beginning(r) \/ CountUsers(r) \/ CreateFirst(r) \/ RemoveUser(r)
      PROVE  SetupIsClosed'
  BY <1>1, BeginningSetup, CountUsersSetup, CreateFirstSetup, RemoveUserSetup
<1>2. ASSUME NEW r \in Requests,
             \/ SignToken(r) \/ CountPending(r) \/ CreateLogin(r) \/ FindLogin(r)
             \/ ConsumeLogin(r) \/ ReadExisting(r) \/ CreateCode(r) \/ ConsumeCode(r)
             \/ CreateSession(r) \/ Abort(r)
      PROVE  SetupIsClosed'
  BY <1>2, QuietSetup
<1>3. ASSUME NEW r \in Requests,
             WritePassword(r) \/ AddUser(r) \/ SaveConfig(r) \/ Authorize(r) \/ Upsert(r)
      PROVE  SetupIsClosed'
  BY <1>3, WritingSetup
<1>4. ASSUME UNCHANGED <<user, pc, request, setups, emptied, overlapped>>
      PROVE  SetupIsClosed'
  BY <1>4 DEF SetupIsClosed, Existing
<1>5. ASSUME NEW x \in {"login", "code"} \X Logins, Expire(x) PROVE SetupIsClosed'
  BY <1>4, <1>5 DEF Expire, history
<1>6. CASE UNCHANGED vars
  BY <1>4, <1>6 DEF vars, history
<1>. QED BY <1>1, <1>2, <1>3, <1>5, <1>6 DEF Next, Beginning

\* The setup of auth.service.ts succeeds once, and once more for each time the last
\* user went; and while no two deletions of users.controller.ts overlap, the last
\* user never goes.
THEOREM StaysInitializedHolds == Spec => []StaysInitialized
<1>1. Init => SetupIsClosed
  BY DEF Init, SetupIsClosed
<1>2. SetupIsClosed => StaysInitialized
  BY DEF SetupIsClosed, StaysInitialized
<1>. QED BY <1>1, <1>2, StepSetup, TypeCorrect, PTL DEF Spec

-----------------------------------------------------------------------------
(* Pending logins. *)

\* Requests of a browser that have counted its pending logins and are to add one.
Counting(b) == {r \in Requests : pc[r] = "login" /\ request[r].browser = b}

\* The inductive invariant: a request that has counted is a login to come.
CountedOf(b) ==
  Cardinality(PendingOf(b)) + Cardinality(Counting(b))
    <= MaximumPending + Cardinality(Requests) - 1
PendingIsCounted == \A b \in Browsers : CountedOf(b)

LEMMA CountsAreNumbers ==
  ASSUME NEW S, S \subseteq Logins \/ S \subseteq Requests
  PROVE  IsFiniteSet(S) /\ Cardinality(S) \in Nat
BY FS_Subset, FS_CardinalityType

LEMMA CountsOfSubsets ==
  ASSUME NEW S, S \subseteq Logins \/ S \subseteq Requests, NEW T \in SUBSET S
  PROVE  Cardinality(T) <= Cardinality(S)
BY CountsAreNumbers, FS_Subset

LEMMA CountedKept ==
  ASSUME NEW b \in Browsers, CountedOf(b), PendingOf(b)' \subseteq PendingOf(b),
         Counting(b)' \subseteq Counting(b)
  PROVE  CountedOf(b)'
<1>1. PendingOf(b) \subseteq Logins /\ Counting(b) \subseteq Requests
  BY DEF PendingOf, Counting
<1>2. /\ Cardinality(PendingOf(b)') <= Cardinality(PendingOf(b))
      /\ Cardinality(Counting(b)') <= Cardinality(Counting(b))
  BY <1>1, CountsOfSubsets
<1>3. /\ Cardinality(PendingOf(b)) \in Nat /\ Cardinality(PendingOf(b)') \in Nat
      /\ Cardinality(Counting(b)) \in Nat /\ Cardinality(Counting(b)') \in Nat
      /\ Cardinality(Requests) \in Nat /\ MaximumPending \in Nat
  BY <1>1, CountsAreNumbers
<1>. QED BY <1>2, <1>3 DEF CountedOf

\* A request that goes on has counted only if it goes to create its login, and then
\* for the browser it knows.
LEMMA CountingAfterGo ==
  ASSUME TypeOK, TypeOK', NEW r \in Requests, NEW p, NEW v, Go(r, p, v), NEW b \in Browsers
  PROVE  /\ Counting(b)' \subseteq Counting(b) \cup {r}
         /\ p # "login" \/ v.browser # b => Counting(b)' \subseteq Counting(b) \ {r}
<1>1. p \in Steps /\ v \in Known
  BY GoesSomewhere
<1>2. /\ pc'[r] = p /\ request'[r] = v
      /\ \A q \in Requests \ {r} : pc'[q] = pc[q] /\ request'[q] = request[q]
  BY <1>1, GoTyped
<1>. QED BY <1>2 DEF Counting

\* All but CreateLogin leave no login pending that was not.
LEMMA NoMorePending ==
  ASSUME TypeOK, TypeOK', NEW r \in Requests,
         \/ Beginning(r) \/ CountUsers(r) \/ CreateFirst(r) \/ SignToken(r)
         \/ WritePassword(r) \/ AddUser(r) \/ RemoveUser(r) \/ SaveConfig(r)
         \/ CountPending(r) \/ FindLogin(r) \/ ConsumeLogin(r) \/ Authorize(r)
         \/ ReadExisting(r) \/ Upsert(r) \/ CreateCode(r) \/ ConsumeCode(r)
         \/ CreateSession(r) \/ Abort(r)
  PROVE  \A b \in Browsers : PendingOf(b)' \subseteq PendingOf(b)
<1>1. expired' = expired
  BY DEF Beginning, SignIn, ReadForPassword, Add, ReadConfig, Begin, Remove, Callback,
         Exchange, CountUsers, CreateFirst, SignToken, WritePassword, AddUser, RemoveUser,
         SaveConfig, CountPending, FindLogin, ConsumeLogin, Authorize, ReadExisting,
         Upsert, CreateCode, ConsumeCode, CreateSession, Abort, oidc
<1>2. ASSUME NEW l \in Logins
      PROVE  \/ login'[l] = login[l] \/ login'[l] = None
             \/ login'[l].consumed
  <2>1. CASE ConsumeLogin(r)
    <3>1. PICK m \in Logins : m = request[r].login
      BY <2>1, KnownFields DEF ConsumeLogin, KnowsEnough
    <3>2. login' = login \/ (login[m] # None /\ login' = [login EXCEPT ![m].consumed = TRUE])
      BY <2>1, <3>1 DEF ConsumeLogin
    <3>. QED BY <3>2 DEF TypeOK, Login
  <2>2. CASE CountPending(r)
    BY <2>2 DEF CountPending
  <2>3. CASE SaveConfig(r)
    BY <2>3 DEF SaveConfig, ChangeSettings, RewriteSettings
  <2>4. CASE \/ CountUsers(r) \/ CreateFirst(r) \/ SignToken(r)
             \/ WritePassword(r) \/ AddUser(r) \/ RemoveUser(r)
             \/ FindLogin(r) \/ Authorize(r)
             \/ ReadExisting(r) \/ Upsert(r) \/ CreateCode(r) \/ ConsumeCode(r)
             \/ CreateSession(r) \/ Abort(r)
    BY <2>4 DEF CountUsers, CreateFirst, SignToken, WritePassword, AddUser, RemoveUser,
         FindLogin, Authorize, ReadExisting, Upsert, CreateCode, ConsumeCode,
         CreateSession, Abort, oidc
  <2>5. CASE Beginning(r)
    BY <2>5 DEF Beginning, SignIn, ReadForPassword, Add, ReadConfig, Begin, Remove,
         Callback, Exchange, oidc
  <2>. QED BY <2>1, <2>2, <2>3, <2>4, <2>5
<1>. QED BY <1>1, <1>2 DEF PendingOf, Pending

LEMMA CountPendingCounted ==
  ASSUME TypeOK, TypeOK', PendingIsCounted, NEW r \in Requests, CountPending(r)
  PROVE  PendingIsCounted'
<1>. SUFFICES ASSUME NEW b \in Browsers
              PROVE  CountedOf(b)'
  BY DEF PendingIsCounted
<1>1. PendingOf(b)' \subseteq PendingOf(b) /\ CountedOf(b)
  BY NoMorePending DEF PendingIsCounted
<1>2. CASE request[r].browser # b \/ Cardinality(PendingOf(b)) >= MaximumPending
  <2>1. \E p, v : Go(r, p, v) /\ (p # "login" \/ v.browser # b)
    <3>1. CASE Go(r, "idle", Nothing)
      BY <3>1
    <3>2. CASE Go(r, "login", request[r]) /\ request[r].browser # b
      BY <3>2
    <3>. QED BY <1>2, <3>1, <3>2 DEF CountPending, End
  <2>2. Counting(b)' \subseteq Counting(b)
    BY <2>1, CountingAfterGo
  <2>. QED BY <1>1, <2>2, CountedKept
<1>3. CASE ~(Cardinality(PendingOf(b)) >= MaximumPending)
  <2>1. /\ PendingOf(b) \subseteq Logins /\ PendingOf(b)' \subseteq Logins
        /\ Counting(b)' \subseteq Requests
    BY DEF PendingOf, Counting
  <2>2. /\ Cardinality(PendingOf(b)) \in Nat /\ Cardinality(PendingOf(b)') \in Nat
        /\ Cardinality(Counting(b)') \in Nat /\ Cardinality(Requests) \in Nat
        /\ MaximumPending \in Nat
    BY <2>1, CountsAreNumbers
  <2>3. /\ Cardinality(PendingOf(b)') <= Cardinality(PendingOf(b))
        /\ Cardinality(Counting(b)') <= Cardinality(Requests)
    BY <1>1, <2>1, CountsOfSubsets
  <2>. QED BY <1>3, <2>2, <2>3 DEF CountedOf
<1>. QED BY <1>2, <1>3

LEMMA CreateLoginCounted ==
  ASSUME TypeOK, TypeOK', PendingIsCounted, NEW r \in Requests, CreateLogin(r)
  PROVE  PendingIsCounted'
<1>. SUFFICES ASSUME NEW b \in Browsers
              PROVE  CountedOf(b)'
  BY DEF PendingIsCounted
<1>1. PICK l \in Logins :
        login' = [login EXCEPT ![l] = [revision |-> request[r].seen, consumed |-> FALSE,
                                       browser |-> request[r].browser]]
  BY DEF CreateLogin
<1>2. expired' = expired /\ Go(r, "idle", Nothing)
  BY DEF CreateLogin, End
<1>3. Counting(b)' \subseteq Counting(b) \ {r}
  BY <1>2, CountingAfterGo
<1>4. CASE request[r].browser # b
  <2>1. PendingOf(b)' \subseteq PendingOf(b)
    BY <1>1, <1>2, <1>4 DEF PendingOf, Pending, TypeOK
  <2>2. Counting(b)' \subseteq Counting(b)
    BY <1>3
  <2>. QED BY <2>1, <2>2, CountedKept DEF PendingIsCounted
<1>5. CASE request[r].browser = b
  <2>1. r \in Counting(b)
    BY <1>5 DEF CreateLogin, Counting
  <2>2. PendingOf(b)' \subseteq PendingOf(b) \cup {l}
    BY <1>1, <1>2 DEF PendingOf, Pending, TypeOK
  <2>3. PendingOf(b) \subseteq Logins /\ Counting(b) \subseteq Requests
    BY DEF PendingOf, Counting
  <2>4. /\ PendingOf(b) \cup {l} \subseteq Logins /\ Counting(b) \ {r} \subseteq Requests
        /\ PendingOf(b)' \subseteq Logins /\ Counting(b)' \subseteq Requests
    BY <1>3, <2>2, <2>3
  <2>5. /\ IsFiniteSet(PendingOf(b)) /\ IsFiniteSet(Counting(b))
        /\ Cardinality(PendingOf(b)) \in Nat /\ Cardinality(PendingOf(b)') \in Nat
        /\ Cardinality(PendingOf(b) \cup {l}) \in Nat
        /\ Cardinality(Counting(b)) \in Nat /\ Cardinality(Counting(b)') \in Nat
        /\ Cardinality(Counting(b) \ {r}) \in Nat
        /\ Cardinality(Requests) \in Nat /\ MaximumPending \in Nat
    BY <2>3, <2>4, CountsAreNumbers
  <2>6. Cardinality(PendingOf(b) \cup {l}) <= Cardinality(PendingOf(b)) + 1
    <3>1. Cardinality(PendingOf(b) \cup {l}) =
            IF l \in PendingOf(b) THEN Cardinality(PendingOf(b))
            ELSE Cardinality(PendingOf(b)) + 1
      BY <2>5, FS_AddElement, Zenon
    <3>. QED BY <2>5, <3>1
  <2>7. Cardinality(Counting(b) \ {r}) = Cardinality(Counting(b)) - 1
    BY <2>1, <2>5, FS_RemoveElement
  <2>8. /\ Cardinality(PendingOf(b)') <= Cardinality(PendingOf(b) \cup {l})
        /\ Cardinality(Counting(b)') <= Cardinality(Counting(b) \ {r})
    BY <1>3, <2>2, <2>4, CountsOfSubsets
  <2>. QED BY <2>5, <2>6, <2>7, <2>8 DEF CountedOf, PendingIsCounted
<1>. QED BY <1>4, <1>5

LEMMA OtherCounted ==
  ASSUME TypeOK, TypeOK', PendingIsCounted, NEW r \in Requests,
         \/ Beginning(r) \/ CountUsers(r) \/ CreateFirst(r) \/ SignToken(r)
         \/ WritePassword(r) \/ AddUser(r) \/ RemoveUser(r) \/ SaveConfig(r)
         \/ FindLogin(r) \/ ConsumeLogin(r) \/ Authorize(r)
         \/ ReadExisting(r) \/ Upsert(r) \/ CreateCode(r) \/ ConsumeCode(r)
         \/ CreateSession(r) \/ Abort(r)
  PROVE  PendingIsCounted'
<1>1. \A b \in Browsers : PendingOf(b)' \subseteq PendingOf(b)
  BY NoMorePending
<1>2. \E p \in Steps \ {"login"} : \E v : Go(r, p, v)
  <2>1. CASE Beginning(r)
    BY <2>1 DEF Beginning, SignIn, ReadForPassword, Add, ReadConfig, Begin, Remove,
         Callback, Exchange, Steps
  <2>2. CASE \/ CountUsers(r) \/ CreateFirst(r) \/ SignToken(r)
             \/ WritePassword(r) \/ AddUser(r) \/ RemoveUser(r) \/ SaveConfig(r)
    BY <2>2 DEF CountUsers, CreateFirst, SignToken, WritePassword, AddUser, RemoveUser,
         SaveConfig, End, Steps
  <2>3. CASE \/ FindLogin(r) \/ ConsumeLogin(r) \/ Authorize(r)
             \/ ReadExisting(r) \/ Upsert(r) \/ CreateCode(r) \/ ConsumeCode(r)
             \/ CreateSession(r) \/ Abort(r)
    BY <2>3 DEF FindLogin, ConsumeLogin, Authorize, ReadExisting, Upsert, CreateCode,
         ConsumeCode, CreateSession, Abort, End, Steps
  <2>. QED BY <2>1, <2>2, <2>3
<1>3. PICK p \in Steps \ {"login"} : \E v : Go(r, p, v)
  BY <1>2
<1>4. PICK v : Go(r, p, v)
  BY <1>3
<1>5. \A b \in Browsers : Counting(b)' \subseteq Counting(b)
  BY <1>4, CountingAfterGo
<1>. QED BY <1>1, <1>5, CountedKept DEF PendingIsCounted

LEMMA StepPendingIsCounted ==
  TypeOK /\ TypeOK' /\ PendingIsCounted /\ [Next]_vars => PendingIsCounted'
<1> SUFFICES ASSUME TypeOK, TypeOK', PendingIsCounted, [Next]_vars
             PROVE  PendingIsCounted'
  OBVIOUS
<1>1. ASSUME NEW r \in Requests, CountPending(r) \/ CreateLogin(r)
      PROVE  PendingIsCounted'
  BY <1>1, CountPendingCounted, CreateLoginCounted
<1>2. ASSUME NEW r \in Requests,
             \/ Beginning(r) \/ CountUsers(r) \/ CreateFirst(r) \/ SignToken(r)
             \/ WritePassword(r) \/ AddUser(r) \/ RemoveUser(r) \/ SaveConfig(r)
             \/ FindLogin(r) \/ ConsumeLogin(r) \/ Authorize(r)
             \/ ReadExisting(r) \/ Upsert(r) \/ CreateCode(r) \/ ConsumeCode(r)
             \/ CreateSession(r) \/ Abort(r)
      PROVE  PendingIsCounted'
  BY <1>2, OtherCounted
<1>3. ASSUME NEW x \in {"login", "code"} \X Logins, Expire(x) PROVE PendingIsCounted'
  <2>1. UNCHANGED <<login, pc, request>> /\ expired \subseteq expired'
    BY <1>3 DEF Expire
  <2>2. \A b \in Browsers : PendingOf(b)' \subseteq PendingOf(b) /\ Counting(b)' = Counting(b)
    BY <2>1 DEF PendingOf, Pending, Counting
  <2>. QED BY <2>2, CountedKept DEF PendingIsCounted
<1>4. CASE UNCHANGED vars
  <2>1. UNCHANGED <<login, expired, pc, request>>
    BY <1>4 DEF vars, oidc
  <2>2. \A b \in Browsers : PendingOf(b)' = PendingOf(b) /\ Counting(b)' = Counting(b)
    BY <2>1 DEF PendingOf, Pending, Counting
  <2>. QED BY <2>2, CountedKept DEF PendingIsCounted
<1>. QED BY <1>1, <1>2, <1>3, <1>4 DEF Next, Beginning

\* The pending logins of a browser exceed maximumPendingTransactions of oidc.service.ts
\* by less than the requests that begin one at once, for any number of either.
THEOREM PendingIsBoundedHolds == Spec => []PendingIsBounded
<1>1. Init => PendingIsCounted
  <2>. SUFFICES ASSUME Init, NEW b \in Browsers
                PROVE  CountedOf(b)
    BY DEF PendingIsCounted
  <2>1. PendingOf(b) = {} /\ Counting(b) = {}
    BY DEF Init, PendingOf, Pending, Counting
  <2>2. Cardinality({}) = 0
    BY FS_EmptySet
  <2>3. Cardinality(Requests) \in Nat /\ MaximumPending \in Nat \ {0}
    BY FS_CardinalityType
  <2>4. Cardinality(PendingOf(b)) = 0 /\ Cardinality(Counting(b)) = 0
    BY <2>1, <2>2
  <2>5. 0 + 0 <= MaximumPending + Cardinality(Requests) - 1
    BY <2>3
  <2>. QED BY <2>4, <2>5 DEF CountedOf
<1>2. PendingIsCounted => PendingIsBounded
  <2>. SUFFICES ASSUME PendingIsCounted, NEW b \in Browsers
                PROVE  Cardinality(PendingOf(b)) <= MaximumPending + Cardinality(Requests) - 1
    BY DEF PendingIsBounded
  <2>1. PendingOf(b) \subseteq Logins /\ Counting(b) \subseteq Requests
    BY DEF PendingOf, Counting
  <2>2. /\ Cardinality(PendingOf(b)) \in Nat /\ Cardinality(Counting(b)) \in Nat
        /\ Cardinality(Requests) \in Nat /\ MaximumPending \in Nat
    BY <2>1, CountsAreNumbers
  <2>. QED BY <2>2 DEF PendingIsCounted, CountedOf
<1>. QED BY <1>1, <1>2, StepPendingIsCounted, TypeCorrect, PTL DEF Spec
=============================================================================
