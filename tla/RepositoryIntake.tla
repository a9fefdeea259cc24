-------------------------- MODULE RepositoryIntake --------------------------
(***************************************************************************)
(* How work gets into the synchronization queue from outside: repositories *)
(* are tracked (provider-accounts.service.ts), webhook secrets are managed *)
(* (repository-configuration.service.ts) and the provider delivers         *)
(* webhooks, more than once and at the same time (webhooks/).  The queue   *)
(* is its abstraction RequestRows, which SyncQueue implements.             *)
(*                                                                         *)
(* A request is authenticated against one read of the repository; then a   *)
(* transaction inserts the delivery and enqueues.  An insert waits for an  *)
(* open transaction with the same key, and the deletion of a repository    *)
(* waits for the transactions that refer to it.  A signature is the secret *)
(* it was made with.  A repository that was deleted with its account would *)
(* come back under another id: it does not come back here.                 *)
(***************************************************************************)
EXTENDS Naturals, FiniteSets

CONSTANTS
  Repositories, Accounts, AccountOf,
  Deliveries,      \* webhook events, with the provider's delivery id
  RepositoryOf,    \* the repository each is about
  ScopesOf,        \* the scopes of each: providerWebhookSyncScopes of its event
  Scopes,
  Secrets, NoSecret,
  Requests,        \* concurrent deliveries of webhooks
  Adders,          \* concurrent calls of addRepository
  MaxSends,        \* bound: how often a delivery is sent
  MaxChanges,      \* bound: changes by administrators
  MaxFaults        \* bound: requests and starts that die

ASSUME IntakeConstants ==
  /\ AccountOf \in [Repositories -> Accounts]
  /\ RepositoryOf \in [Deliveries -> Repositories]
  /\ ScopesOf \in [Deliveries -> (SUBSET Scopes) \ {{}}]
  /\ Scopes # {}
  /\ NoSecret \notin Secrets
  /\ {MaxSends, MaxChanges, MaxFaults} \subseteq Nat

VARIABLES
  account,      \* provider_accounts: their switch, or GONE
  repository,   \* repositories: their switch and webhook secret
  recorded,     \* webhook_deliveries
  rows,         \* the abstract queue
  adding,       \* where addRepository is
  request,      \* what each HTTP request is at
  hook,         \* the secret each repository's webhook has at the provider
  sent,         \* how often each delivery was sent
  changes, faults,
  enqueued,     \* history: how often each delivery was enqueued
  answered,     \* history: deliveries the provider was told are accepted
  overtaken,    \* history: deliveries whose repository or account an administrator
                \* switched off while a request for them was between its two reads
  begun         \* history: repositories whose work a worker has begun

admin   == <<account, repository, adding, changes>>
history == <<enqueued, answered, overtaken, begun>>
vars    == <<admin, recorded, rows, request, hook, sent, faults, history>>

Accepts(r) == repository[r].enabled /\ account[AccountOf[r]] = "ENABLED"
Wanted     == {r \in Repositories : Accepts(r)}
Untracked  == [tracked |-> FALSE, enabled |-> FALSE, secret |-> NoSecret]
Idle       == [pc |-> "idle"]
Done       == [pc |-> "done"]

Queue == INSTANCE RequestRows WITH wanted <- Wanted, faulty <- FALSE

\* Requests whose transaction is open.
Open == {q \in Requests : request[q].pc = "inserted"}

Count == faults < MaxFaults /\ faults' = faults + 1

-----------------------------------------------------------------------------
(* Administrators. *)

Administer == changes < MaxChanges /\ changes' = changes + 1

\* The deliveries under way whose repository does not accept them any more.
Overtake ==
  overtaken' = overtaken \cup {d \in Deliveries :
    /\ ~Accepts(RepositoryOf[d])'
    /\ \E q \in Requests :
         request[q].pc \in {"verified", "inserted"} /\ request[q].delivery = d}

\* ProviderAccountsService.update; only its switch matters here.
UpdateAccount(a) ==
  /\ Administer
  /\ account[a] # "GONE"
  /\ account' = [account EXCEPT ![a] = IF @ = "ENABLED" THEN "DISABLED"
                                                        ELSE "ENABLED"]
  /\ UNCHANGED <<repository, adding, recorded, rows, request, hook, sent>>
  /\ Overtake
  /\ UNCHANGED <<faults, enqueued, answered, begun>>

\* Mutation: the requests of its repositories stay.
RemoveAccountOnly(a) ==
  LET R == {r \in Repositories : AccountOf[r] = a} IN
  /\ Administer
  /\ account[a] # "GONE"
  /\ \A q \in Open : RepositoryOf[request[q].delivery] \notin R
  /\ account' = [account EXCEPT ![a] = "GONE"]
  /\ repository' = [r \in Repositories |-> IF r \in R THEN Untracked
                                                     ELSE repository[r]]
  /\ recorded' = {d \in recorded : RepositoryOf[d] \notin R}
  /\ Overtake
  /\ UNCHANGED <<rows, adding, request, hook, sent, faults>>
  /\ UNCHANGED <<enqueued, answered, begun>>

\* ProviderAccountsService.remove: everything of its repositories goes with it.
RemoveAccount(a) ==
  LET R == {r \in Repositories : AccountOf[r] = a} IN
  /\ Administer
  /\ account[a] # "GONE"
  /\ \A q \in Open : RepositoryOf[request[q].delivery] \notin R
  /\ account' = [account EXCEPT ![a] = "GONE"]
  /\ repository' = [r \in Repositories |-> IF r \in R THEN Untracked
                                                     ELSE repository[r]]
  /\ recorded' = {d \in recorded : RepositoryOf[d] \notin R}
  /\ rows' = [r \in Repositories |-> IF r \in R THEN Queue!NoRow ELSE rows[r]]
  /\ Overtake
  /\ UNCHANGED <<adding, request, hook, sent, faults, enqueued, answered, begun>>

\* RepositoriesController.update.
SwitchRepository(r) ==
  /\ Administer
  /\ repository[r].tracked
  /\ repository' = [repository EXCEPT ![r].enabled = ~@]
  /\ UNCHANGED <<account, adding, recorded, rows, request, hook, sent>>
  /\ Overtake
  /\ UNCHANGED <<faults, enqueued, answered, begun>>

\* setWebhookSecret and clearWebhookSecret.
ChangeSecret(r, s) ==
  /\ Administer
  /\ repository[r].tracked /\ s # repository[r].secret
  /\ repository' = [repository EXCEPT ![r].secret = s]
  /\ UNCHANGED <<account, adding, recorded, rows, request, hook, sent>>
  /\ UNCHANGED <<faults, history>>

\* The administrator copies the secret into the provider's settings.
ConfigureHook(r) ==
  /\ repository[r].secret \notin {NoSecret, hook[r]}
  /\ hook' = [hook EXCEPT ![r] = repository[r].secret]
  /\ UNCHANGED <<admin, recorded, rows, request, sent, faults, history>>

\* addRepository: the account is enabled and the provider lists the repository.
Discover(x, r) ==
  /\ adding[x] = Idle
  /\ account[AccountOf[r]] = "ENABLED"
  /\ adding' = [adding EXCEPT ![x] = [pc |-> "found", repository |-> r]]
  /\ UNCHANGED <<account, repository, changes, recorded, rows, request, hook>>
  /\ UNCHANGED <<sent, faults, history>>

\* The row is created, unless the repository is tracked or the account is gone.
Track(x) ==
  LET r == adding[x].repository IN
  /\ adding[x].pc = "found"
  /\ IF repository[r].tracked \/ account[AccountOf[r]] = "GONE"
     THEN /\ adding' = [adding EXCEPT ![x] = Done]
          /\ UNCHANGED repository
     ELSE /\ adding' = [adding EXCEPT ![x].pc = "created"]
          /\ repository' = [repository EXCEPT ![r] =
               [tracked |-> TRUE, enabled |-> TRUE, secret |-> NoSecret]]
  /\ UNCHANGED <<account, changes, recorded, rows, request, hook, sent, faults>>
  /\ UNCHANGED history

\* The first synchronization is asked for in a statement of its own, which fails
\* if the repository went with its account.
AskFirst(x) ==
  LET r == adding[x].repository IN
  /\ adding[x].pc = "created"
  /\ adding' = [adding EXCEPT ![x] = Done]
  /\ IF repository[r].tracked THEN Queue!Ask(r, Scopes) ELSE UNCHANGED rows
  /\ UNCHANGED <<account, repository, changes, recorded, request, hook, sent>>
  /\ UNCHANGED <<faults, history>>

\* The process dies while it adds a repository.
AbandonAdding(x) ==
  /\ Count
  /\ adding[x].pc \in {"found", "created"}
  /\ adding' = [adding EXCEPT ![x] = Done]
  /\ UNCHANGED <<account, repository, changes, recorded, rows, request, hook>>
  /\ UNCHANGED <<sent, history>>

-----------------------------------------------------------------------------
(* Webhooks. *)

\* The provider sends a delivery, for the first time or again, signed with the
\* secret its settings have; the controller hands it to receive.
Send(q, d) ==
  /\ request[q] = Idle
  /\ sent[d] < MaxSends
  /\ hook[RepositoryOf[d]] # NoSecret
  /\ sent' = [sent EXCEPT ![d] = @ + 1]
  /\ request' = [request EXCEPT ![q] =
       [pc |-> "sent", delivery |-> d, signature |-> hook[RepositoryOf[d]]]]
  /\ UNCHANGED <<admin, recorded, rows, hook, faults, history>>

\* The repository that was read takes this signature.
Authentic(r, signature) == Accepts(r) /\ repository[r].secret = signature

\* receive reads the repository and verifies the signature, or answers 401.
Authenticate(q) ==
  LET r == RepositoryOf[request[q].delivery] IN
  /\ request[q].pc = "sent"
  /\ request' = [request EXCEPT ![q] =
       IF Authentic(r, request[q].signature)
       THEN [request[q] EXCEPT !.pc = "verified"] ELSE Idle]
  /\ UNCHANGED <<admin, recorded, rows, hook, sent, faults, history>>

\* Mutation: an insert does not wait for an open transaction with its key.
UnlockedNever(d) == TRUE

\* No open transaction has inserted d.
Unlocked(d) == \A q \in Open : request[q].delivery # d

\* The transaction inserts the delivery.  Its unique key is taken: the answer is
\* that it is a duplicate.  The repository is gone: the request fails.
InsertDelivery(q) ==
  LET d == request[q].delivery IN
  /\ request[q].pc = "verified"
  /\ Unlocked(d)
  /\ IF d \notin recorded /\ repository[RepositoryOf[d]].tracked
     THEN request' = [request EXCEPT ![q].pc = "inserted"]
     ELSE request' = [request EXCEPT ![q] = Idle]
  /\ answered' = IF d \in recorded THEN answered \cup {d} ELSE answered
  /\ UNCHANGED <<admin, recorded, rows, hook, sent, faults, enqueued, overtaken, begun>>

\* enqueueWebhookRepository reads the repository again, in the transaction: if it
\* or its account has been switched off since, nothing is enqueued.
EnqueueWebhookRepository(d) ==
  LET r == RepositoryOf[d] IN
  IF Accepts(r)
  THEN Queue!Ask(r, ScopesOf[d]) /\ enqueued' = [enqueued EXCEPT ![d] = @ + 1]
  ELSE UNCHANGED <<rows, enqueued>>

\* Mutation: the delivery is committed before the request is enqueued.
CommitDeliveryFirst(q) ==
  LET d == request[q].delivery IN
  /\ request[q].pc = "inserted"
  /\ \/ /\ d \notin recorded
        /\ recorded' = recorded \cup {d}
        /\ UNCHANGED <<rows, enqueued, request, answered>>
     \/ /\ d \in recorded
        /\ EnqueueWebhookRepository(d)
        /\ request' = [request EXCEPT ![q] = Idle]
        /\ answered' = answered \cup {d}
        /\ UNCHANGED recorded
  /\ UNCHANGED <<admin, hook, sent, faults, overtaken, begun>>

\* The transaction commits and the answer is that the delivery is accepted, whether
\* or not it was enqueued.
CommitDelivery(q) ==
  LET d == request[q].delivery IN
  /\ request[q].pc = "inserted"
  /\ recorded' = recorded \cup {d}
  /\ EnqueueWebhookRepository(d)
  /\ request' = [request EXCEPT ![q] = Idle]
  /\ answered' = answered \cup {d}
  /\ UNCHANGED <<admin, hook, sent, faults, overtaken, begun>>

\* The process dies or the database rejects: an open transaction is rolled back
\* and the provider gets no answer.
LoseRequest(q) ==
  /\ Count
  /\ request[q] # Idle
  /\ request' = [request EXCEPT ![q] = Idle]
  /\ UNCHANGED <<admin, recorded, rows, hook, sent, history>>

-----------------------------------------------------------------------------
(* The queue and its workers. *)

\* Mutation: only repositories that have a request are enqueued.
ReconcileQueued(r) ==
  /\ r \in Wanted /\ rows[r] # Queue!NoRow
  /\ Queue!Ask(r, Scopes)
  /\ UNCHANGED <<admin, recorded, request, hook, sent, faults, history>>

\* enqueueEnabledRepositories.
Reconcile(r) ==
  /\ r \in Wanted
  /\ Queue!Ask(r, Scopes)
  /\ UNCHANGED <<admin, recorded, request, hook, sent, faults, history>>

\* processDueRequests claims the row ...
Begin(r) ==
  /\ r \in Wanted
  /\ Queue!Begin(r)
  /\ begun' = begun \cup {r}
  /\ UNCHANGED <<admin, recorded, request, hook, sent, faults>>
  /\ UNCHANGED <<enqueued, answered, overtaken>>

\* ... and settles it.
Finish(r) ==
  /\ Queue!Finish(r)
  /\ UNCHANGED <<admin, recorded, request, hook, sent, faults, history>>

\* Mutation: only the rows of disabled repositories are dropped.
DropSwitchedOff ==
  /\ Queue!Drop({r \in Repositories : ~repository[r].enabled})
  /\ UNCHANGED <<admin, recorded, request, hook, sent, faults, history>>

\* processDueRequests begins by dropping what is disabled.
DropUnwanted ==
  /\ Queue!Drop(Repositories \ Wanted)
  /\ UNCHANGED <<admin, recorded, request, hook, sent, faults, history>>

-----------------------------------------------------------------------------
Init ==
  /\ account = [a \in Accounts |-> "ENABLED"]
  /\ repository = [r \in Repositories |-> Untracked]
  /\ recorded = {}
  /\ rows = [r \in Repositories |-> Queue!NoRow]
  /\ adding = [x \in Adders |-> Idle]
  /\ request = [q \in Requests |-> Idle]
  /\ hook = [r \in Repositories |-> NoSecret]
  /\ sent = [d \in Deliveries |-> 0]
  /\ changes = 0 /\ faults = 0
  /\ enqueued = [d \in Deliveries |-> 0]
  /\ answered = {} /\ overtaken = {}
  /\ begun = {}

Add(x)     == (\E r \in Repositories : Discover(x, r)) \/ Track(x) \/ AskFirst(x)
Receive(q) == Authenticate(q) \/ InsertDelivery(q) \/ CommitDelivery(q)
Process(r) == Begin(r) \/ Finish(r)

Manage ==
  \/ \E a \in Accounts : UpdateAccount(a) \/ RemoveAccount(a)
  \/ \E r \in Repositories :
       \/ SwitchRepository(r)
       \/ ConfigureHook(r)
       \/ \E s \in Secrets \cup {NoSecret} : ChangeSecret(r, s)

Next ==
  \/ Manage
  \/ \E x \in Adders : Add(x) \/ AbandonAdding(x)
  \/ \E r \in Repositories : Reconcile(r) \/ Process(r)
  \/ \E q \in Requests :
       \/ \E d \in Deliveries : Send(q, d)
       \/ Receive(q)
       \/ LoseRequest(q)
  \/ DropUnwanted

Spec == Init /\ [][Next]_vars

\* The timers of reconciliation and of the queue's worker fire; HTTP requests and
\* transactions end.  Nothing is assumed of administrators or the provider.
Fairness ==
  /\ \A r \in Repositories : WF_vars(Reconcile(r)) /\ WF_vars(Process(r))
  /\ \A q \in Requests : WF_vars(Receive(q))
  /\ WF_vars(DropUnwanted)

LiveSpec == Spec /\ Fairness

-----------------------------------------------------------------------------
(* Properties. *)

Request == {Idle} \cup [pc: {"sent", "verified", "inserted"},
                        delivery: Deliveries, signature: Secrets]

TypeOK ==
  /\ account \in [Accounts -> {"ENABLED", "DISABLED", "GONE"}]
  /\ repository \in [Repositories ->
       [tracked: BOOLEAN, enabled: BOOLEAN, secret: Secrets \cup {NoSecret}]]
  /\ recorded \subseteq Deliveries
  /\ rows \in [Repositories -> Queue!Row]
  /\ adding \in [Adders -> {Idle, Done} \cup
                   [pc: {"found", "created"}, repository: Repositories]]
  /\ request \in [Requests -> Request]
  /\ hook \in [Repositories -> Secrets \cup {NoSecret}]
  /\ sent \in [Deliveries -> Nat]
  /\ changes \in Nat /\ faults \in Nat
  /\ enqueued \in [Deliveries -> Nat]
  /\ answered \subseteq Deliveries /\ overtaken \subseteq Deliveries
  /\ begun \subseteq Repositories

\* However often, in parallel or after a failure a delivery is sent: it is not
\* enqueued unless it is on record, and if it is, then exactly once; or, when its
\* repository was switched off between the two reads of receive, not at all.
EnqueuedOnce ==
  \A d \in Deliveries :
    repository[RepositoryOf[d]].tracked =>
      \/ enqueued[d] = IF d \in recorded THEN 1 ELSE 0
      \/ enqueued[d] = 0 /\ d \in overtaken

\* What was answered with 202, be it as a duplicate, was enqueued.  The one
\* exception is a switch thrown between the two reads: then the record keeps the
\* delivery from ever being enqueued, however often the provider sends it again.
AcceptedIsEnqueued ==
  \A d \in answered : enqueued[d] = 1 \/ d \in overtaken

\* No foreign row: a request is only queued for a repository that is tracked.
QueuedAreTracked ==
  \A r \in Repositories : rows[r] # Queue!NoRow => repository[r].tracked

\* A tracked repository is in the end synchronized, even if the process died
\* before its first synchronization was asked for, unless it is switched off.
TrackedIsSynchronized ==
  \A r \in Repositories : repository[r].tracked ~> (r \in begun \/ ~Accepts(r))

\* What was enqueued for a repository that is off by then goes away.
DisabledIsDropped ==
  \A r \in Repositories :
    ~Accepts(r) ~> (rows[r] = Queue!NoRow \/ Accepts(r))
=============================================================================
