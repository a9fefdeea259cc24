------------------------------- MODULE Identity -------------------------------
(***************************************************************************)
(* Who may use the application: the first administrator, users and their   *)
(* passwords (apps/api/src/modules/auth/auth.service.ts, users.controller, *)
(* password-reset.ts), single sign-on (oidc/oidc.service.ts), and which    *)
(* access tokens are accepted (jwt.strategy.ts).  Requests run             *)
(* concurrently; each step is what a request does between two awaits.      *)
(* Passwords, states and codes are known to whom they were given; which    *)
(* role a login yields (decideOidcAccess) is any.                          *)
(***************************************************************************)
EXTENDS Integers, FiniteSets

CONSTANTS
  LocalUsers,     \* ids of users with a password, each used once
  Subjects,       \* subjects of the identity provider
  Logins,         \* login transactions, each used once
  Browsers,       \* browser bindings: a browser without a cookie begins under a new one
  Settings,       \* what a configuration of single sign-on says of security
  Ready,          \* those with which users can sign in
  Requests,       \* requests under way at once
  None,
  MaximumPending, \* maximumPendingTransactions
  MaxOperations   \* bound

Roles == {"SYSTEM_ADMIN", "VIEWER"}

ASSUME IdentityAssumption ==
  /\ LocalUsers \cap Subjects = {} /\ LocalUsers \cap Logins = {}
  /\ None \notin LocalUsers \cup Subjects \cup Logins \cup Requests \cup Roles
  /\ None \notin Browsers \cup Settings /\ Ready \subseteq Settings
  /\ None \notin [role: Roles, version: Nat, born: Nat, epoch: Nat, restored: BOOLEAN]
  /\ IsFiniteSet(Logins) /\ IsFiniteSet(Requests)
  /\ MaximumPending \in Nat \ {0} /\ MaxOperations \in Nat

Users == LocalUsers \cup Subjects

VARIABLES
  user,        \* users by id, None when there is none
  unused,      \* ids of local users and logins that were never given
  lock,        \* the request that holds the advisory lock of the setup
  config,      \* oidc_config: its settings and configRevision
  login,       \* oidc_login_transactions
  code,        \* oidc_session_exchanges, by the login that led to it
  expired,     \* logins and codes ("login" and "code" with their id) out of time
  token,       \* access tokens that were issued
  pc, request, \* the requests under way
  operations,
  created,     \* history: users that were created
  codes, sessions, \* history: codes and sessions that came of each login
  setups,      \* history: setups that succeeded
  emptied,     \* history: how often the last user was deleted
  overlapped   \* history: a deletion overlapped another

oidc    == <<config, login, code, expired>>
history == <<created, codes, sessions, setups, emptied, overlapped>>
vars == <<user, unused, lock, oidc, token, pc, request, operations, history>>

Existing == {u \in Users : user[u] # None}

\* born tells a subject's user from one deleted before (their ids differ).  History:
\* epoch, the number of events after which older sessions are void; and restored, that
\* the last of them stored back settings which another update had replaced.
NewUser(role) ==
  [role |-> role, version |-> 0, born |-> created, epoch |-> 0, restored |-> FALSE]

\* validate of JwtStrategy, and authenticateAccessToken.
Accepted(t) ==
  /\ user[t.user] # None
  /\ t.born = user[t.user].born /\ t.version = user[t.user].version

Administrators == {t \in token : Accepted(t) /\ user[t.user].role = "SYSTEM_ADMIN"}

\* createAccessToken of a user's row.
TokenOf(u, r) == [user |-> u, born |-> r.born, version |-> r.version, epoch |-> r.epoch]

Void(r)    == [r EXCEPT !.version = @ + 1, !.epoch = @ + 1, !.restored = FALSE]
Restore(r) == [r EXCEPT !.epoch = @ + 1, !.restored = TRUE]

Pending(l) == login[l] # None /\ ~login[l].consumed /\ <<"login", l>> \notin expired

\* The logins that are pending of a browser.
PendingOf(b) == {l \in Logins : Pending(l) /\ login[l].browser = b}

\* What a request knows: a user, a login, its browser, whether it wants a session, a
\* number it has read, what its token will say, the role or the settings it has read,
\* and the role decided upon.
Nothing == [user |-> None, login |-> None, browser |-> None, session |-> FALSE, seen |-> 0,
            token |-> None, previous |-> None, role |-> None]

\* A request goes to its next step with what it knows; or ends.
Go(r, p, v) == pc' = [pc EXCEPT ![r] = p] /\ request' = [request EXCEPT ![r] = v]
End(r)      == Go(r, "idle", Nothing)

Start(r) ==
  /\ pc[r] = "idle" /\ operations < MaxOperations
  /\ operations' = operations + 1

Init ==
  /\ user = [u \in Users |-> None] /\ unused = LocalUsers \cup Logins
  /\ lock = None
  /\ config \in [setting: Settings \ Ready, revision: {0}]
  /\ login = [l \in Logins |-> None] /\ code = [l \in Logins |-> None]
  /\ expired = {} /\ token = {}
  /\ pc = [r \in Requests |-> "idle"] /\ request = [r \in Requests |-> Nothing]
  /\ operations = 0 /\ created = 0
  /\ codes = [l \in Logins |-> 0] /\ sessions = [l \in Logins |-> 0]
  /\ setups = 0 /\ emptied = 0 /\ overlapped = FALSE

-----------------------------------------------------------------------------
(* Setup and passwords. *)

\* setup: the transaction takes the lock and counts the users.
CountUsers(r) ==
  /\ Start(r)
  /\ lock = None
  /\ Existing = {}
  /\ lock' = r
  /\ Go(r, "create", Nothing)
  /\ UNCHANGED <<user, unused, oidc, token, history>>

\* The transaction creates the administrator and releases the lock.
CreateFirst(r) ==
  /\ pc[r] = "create"
  /\ \E u \in unused \cap LocalUsers :
       /\ user' = [user EXCEPT ![u] = NewUser("SYSTEM_ADMIN")]
       /\ unused' = unused \ {u}
       /\ token' = token \cup {TokenOf(u, user'[u])}
  /\ lock' = None
  /\ End(r)
  /\ created' = created + 1 /\ setups' = setups + 1
  /\ UNCHANGED <<oidc, operations, codes, sessions, emptied, overlapped>>

\* signIn reads the user and compares the password.
SignIn(r, u) ==
  /\ Start(r)
  /\ user[u] # None
  /\ Go(r, "sign", [Nothing EXCEPT !.token = TokenOf(u, user[u])])
  /\ UNCHANGED <<user, unused, lock, oidc, token, history>>

\* It signs a token of what it has read.
SignToken(r) ==
  /\ pc[r] = "sign"
  /\ token' = token \cup {request[r].token}
  /\ End(r)
  /\ UNCHANGED <<user, unused, lock, oidc, operations, history>>

\* updatePassword for a session reads the user and compares; resetPassword is the
\* script's, and gives no session.
ReadForPassword(r, u, session) ==
  /\ Start(r)
  /\ user[u] # None
  /\ session => \E t \in token : t.user = u /\ Accepted(t)
  /\ Go(r, "password",
        [Nothing EXCEPT !.user = u, !.session = session, !.seen = user[u].version])
  /\ UNCHANGED <<user, unused, lock, oidc, token, history>>

\* Mutation: the new version is computed from what was read.
WritePasswordAsRead(r) ==
  /\ pc[r] = "password" /\ user[request[r].user] # None
  /\ LET u == request[r].user IN
     /\ user' = [user EXCEPT ![u].version = request[r].seen + 1, ![u].epoch = @ + 1]
     /\ token' = IF request[r].session THEN token \cup {TokenOf(u, user'[u])} ELSE token
  /\ End(r)
  /\ UNCHANGED <<unused, lock, oidc, operations, history>>

\* The password is stored and older sessions are void; a deleted user's is not.
WritePassword(r) ==
  /\ pc[r] = "password"
  /\ LET u == request[r].user IN
     IF user[u] = None THEN UNCHANGED <<user, token>>
     ELSE /\ user' = [user EXCEPT ![u] = Void(@)]
          /\ token' = IF request[r].session THEN token \cup {TokenOf(u, user'[u])}
                      ELSE token
  /\ End(r)
  /\ UNCHANGED <<unused, lock, oidc, operations, history>>

-----------------------------------------------------------------------------
(* Users. *)

\* create of the users' controller: the administrator is authenticated, and the
\* password hashed, before the user is created.
Add(r) ==
  /\ Start(r)
  /\ Administrators # {}
  /\ Go(r, "add", Nothing)
  /\ UNCHANGED <<user, unused, lock, oidc, token, history>>

AddUser(r) ==
  /\ pc[r] = "add"
  /\ \E u \in unused \cap LocalUsers, role \in Roles :
       /\ user' = [user EXCEPT ![u] = NewUser(role)]
       /\ unused' = unused \ {u}
  /\ created' = created + 1
  /\ End(r)
  /\ UNCHANGED <<lock, oidc, token, operations, codes, sessions, setups, emptied,
                 overlapped>>

\* Mutation: an administrator may delete their own account.
RemoveAnyone(r, t, u) ==
  /\ Start(r)
  /\ t \in Administrators
  /\ Go(r, "remove", [Nothing EXCEPT !.user = u])
  /\ UNCHANGED <<user, unused, lock, oidc, token, history>>

\* remove: an administrator, who is authenticated, deletes another.
Remove(r, t, u) ==
  /\ Start(r)
  /\ t \in Administrators /\ u # t.user
  /\ Go(r, "remove", [Nothing EXCEPT !.user = u])
  /\ UNCHANGED <<user, unused, lock, oidc, token, history>>

\* The user goes, and with it its codes.
RemoveUser(r) ==
  /\ pc[r] = "remove"
  /\ LET u == request[r].user IN
     /\ user' = [user EXCEPT ![u] = None]
     /\ code' = [l \in Logins |-> IF code[l] # None /\ code[l].user = u THEN None
                                  ELSE code[l]]
     /\ emptied' = emptied + (IF Existing = {u} THEN 1 ELSE 0)
  /\ overlapped' = (overlapped \/ \E s \in Requests \ {r} : pc[s] = "remove")
  /\ End(r)
  /\ UNCHANGED <<unused, lock, config, login, expired, token, operations, created, codes,
                 sessions, setups>>

-----------------------------------------------------------------------------
(* Single sign-on. *)

Tick(r) == UNCHANGED <<unused, lock, token, operations, history>>

\* updateConfig: an administrator is authenticated and the configuration read.
ReadConfig(r) ==
  /\ Start(r)
  /\ Administrators # {}
  /\ Go(r, "configure", [Nothing EXCEPT !.previous = config.setting])
  /\ UNCHANGED <<user, unused, lock, oidc, token, history>>

\* The settings differ from those that were read: logins and codes go, and the
\* sessions of the provider's users are void.
ChangeSettings(s) ==
  /\ config' = [setting |-> s, revision |-> config.revision + 1]
  /\ login' = [l \in Logins |-> None] /\ code' = [l \in Logins |-> None]
  /\ user' = [u \in Users |-> IF u \in Existing \cap Subjects THEN Void(user[u])
                              ELSE user[u]]

\* They are those that were read (another name of the provider, say): they are
\* written all the same, over what another update may have stored since.
RewriteSettings(s) ==
  /\ config' = [config EXCEPT !.setting = s]
  /\ user' = [u \in Users |->
       IF u \in Existing \cap Subjects /\ s # config.setting THEN Restore(user[u])
       ELSE user[u]]
  /\ UNCHANGED <<login, code>>

\* updateConfig stores what the administrator chose, and otherwise what it has read.
SaveConfig(r) ==
  /\ pc[r] = "configure"
  /\ \E s \in Settings : IF s # request[r].previous THEN ChangeSettings(s)
                          ELSE RewriteSettings(s)
  /\ End(r)
  /\ UNCHANGED expired /\ Tick(r)

\* begin reads the configuration, and asks for an authorization request.
Begin(r, b) ==
  /\ Start(r)
  /\ config.setting \in Ready
  /\ Go(r, "begin", [Nothing EXCEPT !.browser = b, !.seen = config.revision])
  /\ UNCHANGED <<user, unused, lock, oidc, token, history>>

\* Mutation: pending logins are not counted.
CountNothing(r) ==
  /\ pc[r] = "begin"
  /\ login' = [l \in Logins |-> IF <<"login", l>> \in expired THEN None ELSE login[l]]
  /\ Go(r, "login", request[r])
  /\ UNCHANGED <<user, config, code, expired>> /\ Tick(r)

\* The transaction deletes what has expired and counts what is pending of its browser.
CountPending(r) ==
  /\ pc[r] = "begin"
  /\ login' = [l \in Logins |-> IF <<"login", l>> \in expired THEN None ELSE login[l]]
  /\ IF Cardinality(PendingOf(request[r].browser)) >= MaximumPending THEN End(r)
     ELSE Go(r, "login", request[r])
  /\ UNCHANGED <<user, config, code, expired>> /\ Tick(r)

\* It creates the login transaction.
CreateLogin(r) ==
  /\ pc[r] = "login"
  /\ \E l \in unused \cap Logins :
       /\ login' = [login EXCEPT ![l] = [revision |-> request[r].seen, consumed |-> FALSE,
                                       browser |-> request[r].browser]]
       /\ unused' = unused \ {l}
  /\ End(r)
  /\ UNCHANGED <<user, lock, config, code, expired, token, operations, history>>

\* callback, of the browser with this binding, reads the configuration.
Callback(r, b, l) ==
  /\ Start(r)
  /\ config.setting \in Ready /\ l \notin unused
  /\ Go(r, "find",
        [Nothing EXCEPT !.login = l, !.browser = b, !.seen = config.revision])
  /\ UNCHANGED <<user, unused, lock, oidc, token, history>>

\* It finds the login transaction, of its browser and of this configuration.
FindLogin(r) ==
  /\ pc[r] = "find"
  /\ LET l == request[r].login IN
     IF l \in PendingOf(request[r].browser) /\ login[l].revision = request[r].seen
     THEN Go(r, "consume", request[r]) ELSE End(r)
  /\ UNCHANGED <<user, oidc>> /\ Tick(r)

\* Mutation: the transaction is marked, whatever its row says by now.
ConsumeAgain(r) ==
  /\ pc[r] = "consume"
  /\ LET l == request[r].login IN
     IF login[l] # None
     THEN /\ login' = [login EXCEPT ![l].consumed = TRUE]
          /\ Go(r, "authorize", request[r])
     ELSE login' = login /\ End(r)
  /\ UNCHANGED <<user, config, code, expired>> /\ Tick(r)

\* It consumes it, unless another callback has.
ConsumeLogin(r) ==
  /\ pc[r] = "consume"
  /\ LET l == request[r].login IN
     IF login[l] # None /\ ~login[l].consumed
     THEN /\ login' = [login EXCEPT ![l].consumed = TRUE]
          /\ Go(r, "authorize", request[r])
     ELSE login' = login /\ End(r)
  /\ UNCHANGED <<user, config, code, expired>> /\ Tick(r)

\* The provider answers with a subject and groups: they yield a role, or no access
\* and older sessions are void.  Or it refuses, or fails.
Authorize(r) ==
  /\ pc[r] = "authorize"
  /\ \/ /\ \E u \in Subjects, role \in Roles :
             Go(r, "provision", [request[r] EXCEPT !.user = u, !.role = role])
        /\ user' = user
     \/ /\ \E u \in Subjects :
             user' = [user EXCEPT ![u] = IF @ = None THEN @ ELSE Void(@)]
        /\ End(r)
     \/ End(r) /\ user' = user
  /\ UNCHANGED oidc /\ Tick(r)

\* provisionUser reads the subject's user.
ReadExisting(r) ==
  /\ pc[r] = "provision"
  /\ Go(r, "upsert", [request[r] EXCEPT !.previous =
                            IF user[request[r].user] = None THEN None
                            ELSE user[request[r].user].role])
  /\ UNCHANGED <<user, oidc>> /\ Tick(r)

Refreshed(x, previous, role) ==
  [x EXCEPT !.role = role,
            !.version = IF previous \in {None, role} THEN @ ELSE @ + 1]

\* It creates or updates it: sessions are void if its role was read to be another.
Upsert(r) ==
  /\ pc[r] = "upsert"
  /\ LET u == request[r].user IN
     user' = [user EXCEPT ![u] =
                IF @ = None THEN NewUser(request[r].role)
                ELSE Refreshed(@, request[r].previous, request[r].role)]
  /\ created' = created + (IF user[request[r].user] = None THEN 1 ELSE 0)
  /\ Go(r, "code", [request[r] EXCEPT !.seen = user'[request[r].user].born])
  /\ UNCHANGED <<unused, lock, oidc, token, operations, codes, sessions, setups, emptied,
                 overlapped>>

\* It stores a code for the user, who may be gone.
CreateCode(r) ==
  /\ pc[r] = "code"
  /\ LET l == request[r].login
         u == request[r].user
     IN  IF user[u] = None \/ user[u].born # request[r].seen
         THEN UNCHANGED <<code, codes>>
         ELSE /\ code' = [code EXCEPT ![l] = [user |-> u, consumed |-> FALSE]]
              /\ codes' = [codes EXCEPT ![l] = @ + 1]
  /\ End(r)
  /\ UNCHANGED <<user, unused, lock, config, login, expired, token, operations, created,
                 sessions, setups, emptied, overlapped>>

\* exchange finds the code.
Exchange(r, l) ==
  /\ Start(r)
  /\ code[l] # None /\ ~code[l].consumed /\ <<"code", l>> \notin expired
  /\ Go(r, "exchange", [Nothing EXCEPT !.login = l, !.user = code[l].user])
  /\ UNCHANGED <<user, unused, lock, oidc, token, history>>

\* It consumes it, unless another request has.
ConsumeCode(r) ==
  /\ pc[r] = "exchange"
  /\ LET l == request[r].login IN
     IF code[l] # None /\ ~code[l].consumed
     THEN /\ code' = [code EXCEPT ![l].consumed = TRUE]
          /\ Go(r, "session", request[r])
     ELSE code' = code /\ End(r)
  /\ UNCHANGED <<user, config, login, expired>> /\ Tick(r)

\* createSession.
CreateSession(r) ==
  /\ pc[r] = "session"
  /\ LET l == request[r].login
         u == request[r].user
     IN  IF user[u] = None THEN UNCHANGED <<token, sessions>>
         ELSE /\ token' = token \cup {TokenOf(u, user[u])}
              /\ sessions' = [sessions EXCEPT ![l] = @ + 1]
  /\ End(r)
  /\ UNCHANGED <<user, unused, lock, oidc, operations, created, codes, setups, emptied,
                 overlapped>>

\* A login transaction or a code runs out of time.
Expire(x) ==
  /\ x \notin expired
  /\ IF x[1] = "login" THEN login[x[2]] # None ELSE code[x[2]] # None
  /\ expired' = expired \cup {x}
  /\ UNCHANGED <<user, unused, lock, config, login, code, token, pc, request, operations,
                 history>>

\* A request fails, or its process dies: a transaction is rolled back.
Abort(r) ==
  /\ pc[r] # "idle"
  /\ lock' = IF lock = r THEN None ELSE lock
  /\ End(r)
  /\ UNCHANGED <<user, unused, oidc, token, operations, history>>

Next ==
  \/ \E r \in Requests :
       \/ CountUsers(r) \/ CreateFirst(r)
       \/ \E u \in LocalUsers :
            SignIn(r, u) \/ \E session \in BOOLEAN : ReadForPassword(r, u, session)
       \/ SignToken(r) \/ WritePassword(r)
       \/ Add(r) \/ AddUser(r)
       \/ \E t \in token, u \in Existing : Remove(r, t, u)
       \/ RemoveUser(r)
       \/ ReadConfig(r) \/ SaveConfig(r)
       \/ \E b \in Browsers : Begin(r, b) \/ \E l \in Logins : Callback(r, b, l)
       \/ CountPending(r) \/ CreateLogin(r)
       \/ \E l \in Logins : Exchange(r, l)
       \/ FindLogin(r) \/ ConsumeLogin(r) \/ Authorize(r)
       \/ ReadExisting(r) \/ Upsert(r) \/ CreateCode(r)
       \/ ConsumeCode(r) \/ CreateSession(r)
       \/ Abort(r)
  \/ \E x \in {"login", "code"} \X Logins : Expire(x)

Spec == Init /\ [][Next]_vars

-----------------------------------------------------------------------------
(* Properties. *)

Steps == {"idle", "create", "sign", "password", "add", "remove", "configure", "begin",
          "login", "find", "consume", "authorize", "provision", "upsert", "code",
          "exchange", "session"}

User  == [role: Roles, version: Nat, born: Nat, epoch: Nat, restored: BOOLEAN]
Token == [user: Users, born: Nat, version: Nat, epoch: Nat]
Login == [revision: Nat, consumed: BOOLEAN, browser: Browsers]
Known == [user: Users \cup {None}, login: Logins \cup {None}, browser: Browsers \cup {None},
          session: BOOLEAN, seen: Nat, token: Token \cup {None},
          previous: Roles \cup Settings \cup {None}, role: Roles \cup {None}]

\* What a request must have read by step p, when those logins were given.
KnowsEnough(p, v, given) ==
  /\ p = "sign" => v.token \in Token
  /\ p \in {"password", "remove", "exchange", "session"} => v.user \in Users
  /\ p \in {"exchange", "session"} => v.login \in Logins
  /\ p = "configure" => v.previous \in Settings
  /\ p \in {"begin", "login"} => v.browser \in Browsers
  /\ p \in {"provision", "upsert", "code"} => v.user \in Subjects /\ v.role \in Roles
  /\ p \in {"find", "consume", "authorize", "provision", "upsert", "code"} =>
       v.login \in given

TypeOK ==
  /\ user \in [Users -> User \cup {None}]
  /\ unused \subseteq LocalUsers \cup Logins
  /\ lock \in Requests \cup {None}
  /\ config \in [setting: Settings, revision: Nat]
  /\ login \in [Logins -> Login \cup {None}]
  /\ code \in [Logins -> [user: Users, consumed: BOOLEAN] \cup {None}]
  /\ expired \subseteq {"login", "code"} \X Logins
  /\ token \subseteq Token
  /\ pc \in [Requests -> Steps]
  /\ request \in [Requests -> Known]
  /\ operations \in Nat /\ created \in Nat
  /\ codes \in [Logins -> Nat] /\ sessions \in [Logins -> Nat]
  /\ setups \in Nat /\ emptied \in Nat /\ overlapped \in BOOLEAN
  /\ \A r \in Requests : lock = r <=> pc[r] = "create"
  /\ \A r \in Requests : KnowsEnough(pc[r], request[r], Logins \ unused)

\* A login ends in one code at most and in one session at most, however often its
\* callback and its code arrive and however they overlap.
SignsInOnce == \A l \in Logins : codes[l] <= 1 /\ sessions[l] <= 1

\* Once there are users there always are, so that the setup stays closed: no
\* administrator deletes the last user.  Two who delete each other at once may.
StaysInitialized ==
  /\ ~overlapped => emptied = 0
  /\ setups <= 1 + emptied

\* A session is accepted only if since it was issued, or rather since what it says
\* was read, the password was not changed, access not denied, and the configuration
\* of single sign-on not changed; unless that change was the last and stored back
\* what another update had replaced meanwhile.
AcceptedSessionsAreCurrent ==
  \A t \in token : Accepted(t) => t.epoch = user[t.user].epoch \/ user[t.user].restored

\* What docs/authentication.md says: "Security-relevant configuration or role changes
\* invalidate existing OIDC bearer tokens".  Of the configuration: a step that changes
\* what it says of security leaves no session of the provider's users accepted.
ChangesInvalidateSessions ==
  [][config'.setting # config.setting
       => \A t \in token : t.user \in Subjects => ~Accepted(t)']_vars

\* The pending logins of one browser exceed their limit by no more than the requests
\* that count them at once.
PendingIsBounded ==
  \A b \in Browsers :
    Cardinality(PendingOf(b)) <= MaximumPending + Cardinality(Requests) - 1
=============================================================================
