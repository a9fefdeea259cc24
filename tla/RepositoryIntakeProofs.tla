----------------------- MODULE RepositoryIntakeProofs -----------------------
(***************************************************************************)
(* Proofs about RepositoryIntake, for any numbers of repositories,         *)
(* deliveries, parallel requests, changes and faults: a delivery is        *)
(* enqueued once, what was accepted is enqueued unless a switch was thrown *)
(* while it was received, and no request outlives its repository.          *)
(***************************************************************************)
EXTENDS RepositoryIntake, TLAPS

USE IntakeConstants

\* What is tracked belongs to an account that is there; only what is tracked is
\* enabled or has a request.
Tracking ==
  \A r \in Repositories :
    /\ repository[r].tracked => account[AccountOf[r]] # "GONE"
    /\ repository[r].enabled => repository[r].tracked
    /\ rows[r] # Queue!NoRow => repository[r].tracked

\* Until its account goes, a delivery is enqueued just if it is on record, and what
\* was answered stays enqueued; or neither, if it was overtaken.
Recording ==
  \A d \in Deliveries :
    /\ d \in recorded => repository[RepositoryOf[d]].tracked
    /\ account[AccountOf[RepositoryOf[d]]] # "GONE"
         => \/ enqueued[d] = IF d \in recorded THEN 1 ELSE 0
            \/ enqueued[d] = 0 /\ d \in overtaken
    /\ d \in answered => enqueued[d] = 1 \/ d \in overtaken

\* Between the two reads of receive the repository accepts, or the delivery has been
\* overtaken.
Receiving ==
  \A q \in Requests :
    request[q].pc \in {"verified", "inserted"}
      => \/ Accepts(RepositoryOf[request[q].delivery])
         \/ request[q].delivery \in overtaken

\* An open transaction is the only one that holds its key, and holds its repository.
Transacting ==
  \A q \in Open :
    /\ request[q].delivery \notin recorded
    /\ repository[RepositoryOf[request[q].delivery]].tracked
    /\ \A p \in Open : p # q => request[p].delivery # request[q].delivery

IntakeInvariant == TypeOK /\ Tracking /\ Recording /\ Receiving /\ Transacting

RepositoryRow == [tracked: BOOLEAN, enabled: BOOLEAN, secret: Secrets \cup {NoSecret}]

-----------------------------------------------------------------------------
(* Type correctness. *)

\* Whatever is done to a row leaves a row, and the others as they are.
LEMMA RowTypes ==
  ASSUME TypeOK, NEW r \in Repositories,
         Queue!Begin(r) \/ Queue!Finish(r) \/ \E S \in SUBSET Scopes : Queue!Ask(r, S)
  PROVE  /\ rows' \in [Repositories -> Queue!Row]
         /\ \A p \in Repositories \ {r} : rows'[p] = rows[p]
<1>1. rows \in [Repositories -> Queue!Row] /\ rows[r] \in Queue!Row
  BY DEF TypeOK
<1>2. ASSUME NEW S \in SUBSET Scopes
      PROVE  [state |-> IF rows[r].state = "running" THEN "running" ELSE "waiting",
              scopes |-> rows[r].scopes \cup S] \in Queue!Row
  BY <1>1 DEF Queue!Row
<1>3. ASSUME NEW s \in {"none", "waiting", "running", "finished"}
      PROVE  [rows[r] EXCEPT !.state = s] \in Queue!Row
  BY <1>1 DEF Queue!Row
<1>4. Queue!NoRow \in Queue!Row
  BY DEF Queue!Row, Queue!NoRow
<1>5. PICK x \in Queue!Row : rows' = [rows EXCEPT ![r] = x]
  <2>1. CASE \E S \in SUBSET Scopes : Queue!Ask(r, S)
    BY <1>2, <2>1 DEF Queue!Ask
  <2>2. CASE Queue!Begin(r)
    BY <1>1, <1>3, <2>2 DEF Queue!Begin
  <2>3. CASE Queue!Finish(r)
    BY <1>1, <1>3, <1>4, <2>3 DEF Queue!Finish
  <2>. QED BY <2>1, <2>2, <2>3
<1>. QED BY <1>1, <1>5

LEMMA DropTypes ==
  ASSUME TypeOK, NEW R, rows' = [r \in Repositories |-> IF r \in R THEN Queue!NoRow
                                                               ELSE rows[r]]
  PROVE  rows' \in [Repositories -> Queue!Row]
BY DEF TypeOK, Queue!Row, Queue!NoRow

LEMMA ManageType ==
  ASSUME TypeOK, Manage
  PROVE  TypeOK'
<1>. USE DEF TypeOK, Administer, Overtake, admin, history
<1>1. ASSUME NEW a \in Accounts, UpdateAccount(a)
      PROVE  TypeOK'
  BY <1>1 DEF UpdateAccount
<1>2. ASSUME NEW a \in Accounts, RemoveAccount(a)
      PROVE  TypeOK'
  <2>1. rows' \in [Repositories -> Queue!Row]
    BY <1>2, DropTypes DEF RemoveAccount
  <2>2. repository' \in [Repositories -> RepositoryRow]
    BY <1>2 DEF RemoveAccount, Untracked, RepositoryRow
  <2>3. account' \in [Accounts -> {"ENABLED", "DISABLED", "GONE"}]
    BY <1>2 DEF RemoveAccount
  <2>. QED BY <1>2, <2>1, <2>2, <2>3 DEF RemoveAccount, RepositoryRow
<1>3. ASSUME NEW r \in Repositories, SwitchRepository(r) \/ ConfigureHook(r)
      PROVE  TypeOK'
  <2>1. repository[r] \in RepositoryRow
    BY DEF RepositoryRow
  <2>2. [repository[r] EXCEPT !.enabled = ~@] \in RepositoryRow
    BY <2>1 DEF RepositoryRow
  <2>3. CASE SwitchRepository(r)
    <3>1. repository' = [repository EXCEPT ![r] = [repository[r] EXCEPT !.enabled = ~@]]
      BY <2>3 DEF SwitchRepository
    <3>2. repository' \in [Repositories -> RepositoryRow]
      BY <2>2, <3>1 DEF RepositoryRow
    <3>. QED BY <2>3, <3>2 DEF SwitchRepository, RepositoryRow
  <2>4. CASE ConfigureHook(r)
    <3>1. hook' = [hook EXCEPT ![r] = repository[r].secret]
      BY <2>4 DEF ConfigureHook
    <3>2. hook' \in [Repositories -> Secrets \cup {NoSecret}]
      BY <2>1, <3>1 DEF RepositoryRow
    <3>. QED BY <2>4, <3>2 DEF ConfigureHook
  <2>. QED BY <1>3, <2>3, <2>4
<1>4. ASSUME NEW r \in Repositories, NEW s \in Secrets \cup {NoSecret}, ChangeSecret(r, s)
      PROVE  TypeOK'
  BY <1>4, SMTT(60) DEF ChangeSecret
<1>. QED BY <1>1, <1>2, <1>3, <1>4 DEF Manage

LEMMA AddType ==
  ASSUME TypeOK, NEW x \in Adders, Add(x) \/ AbandonAdding(x)
  PROVE  TypeOK'
<1>. USE DEF TypeOK, Count, admin, history
<1>1. ASSUME NEW r \in Repositories, Discover(x, r)
      PROVE  TypeOK'
  BY <1>1 DEF Discover, Idle, Done
<1>2. adding[x].pc \in {"found", "created"} =>
        /\ adding[x] \in [pc: {"found", "created"}, repository: Repositories]
        /\ adding[x].repository \in Repositories
  BY DEF Idle, Done
<1>3. CASE Track(x)
  <2>1. [tracked |-> TRUE, enabled |-> TRUE, secret |-> NoSecret] \in RepositoryRow
    BY DEF RepositoryRow
  <2>2. repository' \in [Repositories -> RepositoryRow]
    BY <1>2, <1>3, <2>1 DEF Track, RepositoryRow
  <2>3. [adding[x] EXCEPT !.pc = "created"] \in
          [pc: {"found", "created"}, repository: Repositories]
    BY <1>2, <1>3 DEF Track
  <2>4. \/ adding' = [adding EXCEPT ![x] = Done]
        \/ adding' = [adding EXCEPT ![x] = [adding[x] EXCEPT !.pc = "created"]]
    BY <1>3 DEF Track
  <2>5. adding' \in [Adders -> {Idle, Done} \cup
                      [pc: {"found", "created"}, repository: Repositories]]
    BY <2>3, <2>4
  <2>. QED BY <1>3, <2>2, <2>5 DEF Track, RepositoryRow
<1>4. CASE AskFirst(x)
  BY <1>2, <1>4, RowTypes DEF AskFirst
<1>5. CASE AbandonAdding(x)
  BY <1>5 DEF AbandonAdding
<1>. QED BY <1>1, <1>3, <1>4, <1>5 DEF Add

\* A request that has been sent is about a delivery.
LEMMA RequestTypes ==
  ASSUME TypeOK, NEW q \in Requests, request[q].pc # "idle"
  PROVE  /\ request[q] \in [pc: {"sent", "verified", "inserted"},
                            delivery: Deliveries, signature: Secrets]
         /\ request[q].delivery \in Deliveries
         /\ RepositoryOf[request[q].delivery] \in Repositories
         /\ ScopesOf[request[q].delivery] \in SUBSET Scopes
BY DEF TypeOK, Request, Idle

LEMMA RequestType ==
  ASSUME TypeOK, NEW q \in Requests,
         (\E d \in Deliveries : Send(q, d)) \/ Receive(q) \/ LoseRequest(q)
  PROVE  TypeOK'
<1>. USE DEF TypeOK, Count, admin, history
<1>1. Idle \in Request
  BY DEF Request
<1>2. ASSUME NEW d \in Deliveries, Send(q, d)
      PROVE  TypeOK'
  BY <1>2 DEF Send, Request
<1>3. CASE Authenticate(q)
  BY <1>1, <1>3, RequestTypes, SMTT(60) DEF Authenticate, Request
<1>4. CASE InsertDelivery(q)
  <2>1. request[q].pc # "idle" /\ request[q].delivery \in Deliveries
    BY <1>4, RequestTypes DEF InsertDelivery
  <2>2. [request[q] EXCEPT !.pc = "inserted"] \in Request
    BY <2>1, RequestTypes DEF Request
  <2>3. \/ request' = [request EXCEPT ![q] = Idle]
        \/ request' = [request EXCEPT ![q] = [request[q] EXCEPT !.pc = "inserted"]]
    BY <1>4 DEF InsertDelivery
  <2>4. request' \in [Requests -> Request]
    BY <1>1, <2>2, <2>3
  <2>. QED BY <1>4, <2>1, <2>4 DEF InsertDelivery
<1>5. CASE CommitDelivery(q)
  <2>. DEFINE d == request[q].delivery
  <2>1. d \in Deliveries /\ RepositoryOf[d] \in Repositories
    BY <1>5, RequestTypes DEF CommitDelivery
  <2>2. rows' \in [Repositories -> Queue!Row] /\ enqueued' \in [Deliveries -> Nat]
    BY <1>5, <2>1, RequestTypes, RowTypes DEF CommitDelivery, EnqueueWebhookRepository
  <2>. QED BY <1>1, <1>5, <2>1, <2>2 DEF CommitDelivery
<1>6. CASE LoseRequest(q)
  BY <1>1, <1>6 DEF LoseRequest
<1>. QED BY <1>2, <1>3, <1>4, <1>5, <1>6 DEF Receive

LEMMA QueueType ==
  ASSUME TypeOK,
         (\E r \in Repositories : Reconcile(r) \/ Process(r)) \/ DropUnwanted
  PROVE  TypeOK'
<1>. USE DEF TypeOK, admin, history
<1>1. ASSUME NEW r \in Repositories, Reconcile(r) \/ Process(r)
      PROVE  TypeOK'
  BY <1>1, RowTypes DEF Reconcile, Process, Begin, Finish
<1>2. CASE DropUnwanted
  BY <1>2, DropTypes DEF DropUnwanted, Queue!Drop
<1>. QED BY <1>1, <1>2

LEMMA TypeStep == TypeOK /\ [Next]_vars => TypeOK'
<1> SUFFICES ASSUME TypeOK, [Next]_vars PROVE TypeOK'
  OBVIOUS
<1>1. CASE UNCHANGED vars
  BY <1>1 DEF TypeOK, vars, admin, history
<1>. QED BY <1>1, ManageType, AddType, RequestType, QueueType DEF Next

LEMMA TypeInit == Init => TypeOK
BY DEF Init, TypeOK, Untracked, Request, Queue!NoRow, Queue!Row

\* Every reachable state is well typed for every instance: accounts, repositories,
\* requests, the queue's rows and the history have the shape their columns allow.
THEOREM TypeCorrect == Spec => []TypeOK
BY TypeInit, TypeStep, PTL DEF Spec

-----------------------------------------------------------------------------
(* The invariant. *)

\* What neither tracks nor untracks a repository, nor moves a request or a delivery,
\* keeps the invariant.
LEMMA Unmoved ==
  ASSUME TypeOK, Tracking, Recording, Transacting,
         \A r \in Repositories :
           /\ repository'[r].tracked = repository[r].tracked
           /\ repository'[r].enabled => repository[r].tracked
           /\ account'[AccountOf[r]] # "GONE" <=> account[AccountOf[r]] # "GONE"
           /\ rows'[r] # Queue!NoRow => repository[r].tracked,
         UNCHANGED <<recorded, enqueued, answered>>, overtaken \subseteq overtaken',
         \A q \in Open' : q \in Open /\ request'[q] = request[q]
  PROVE  Tracking' /\ Recording' /\ Transacting'
<1>1. Tracking'
  BY DEF Tracking
<1>2. Recording'
  BY DEF Recording
<1>3. Transacting'
  BY RequestTypes DEF Transacting, Open
<1>. QED BY <1>1, <1>2, <1>3

LEMMA ManageKeeps ==
  ASSUME IntakeInvariant, Manage
  PROVE  Tracking' /\ Recording' /\ Transacting'
<1>. USE DEF IntakeInvariant, TypeOK, admin, history
<1>1. ASSUME NEW a \in Accounts, UpdateAccount(a)
      PROVE  Tracking' /\ Recording' /\ Transacting'
  <2>1. \A b \in Accounts : account'[b] # "GONE" <=> account[b] # "GONE"
    BY <1>1 DEF UpdateAccount
  <2>. QED BY <1>1, <2>1, Unmoved DEF UpdateAccount, Overtake, Tracking, Open
<1>2. ASSUME NEW a \in Accounts, RemoveAccount(a)
      PROVE  Tracking' /\ Recording' /\ Transacting'
  <2>1. \A r \in Repositories :
          IF AccountOf[r] = a
          THEN repository'[r] = Untracked /\ rows'[r] = Queue!NoRow
          ELSE /\ repository'[r] = repository[r] /\ rows'[r] = rows[r]
               /\ account'[AccountOf[r]] = account[AccountOf[r]]
    BY <1>2 DEF RemoveAccount
  <2>2. /\ account'[a] = "GONE"
        /\ recorded' = {d \in recorded : AccountOf[RepositoryOf[d]] # a}
        /\ UNCHANGED <<enqueued, answered, request>>
        /\ overtaken \subseteq overtaken'
    BY <1>2 DEF RemoveAccount, Overtake
  <2>3. Tracking'
    BY <2>1, <2>2 DEF Tracking, Untracked
  <2>4. Recording'
    BY <2>1, <2>2 DEF Recording
  <2>5. \A q \in Open : AccountOf[RepositoryOf[request[q].delivery]] # a
    BY <1>2, RequestTypes DEF RemoveAccount, Open
  <2>6. Transacting'
    BY <2>1, <2>2, <2>5, RequestTypes DEF Transacting, Open
  <2>. QED BY <2>3, <2>4, <2>6
<1>3. ASSUME NEW r \in Repositories, SwitchRepository(r)
      PROVE  Tracking' /\ Recording' /\ Transacting'
  <2>1. \A p \in Repositories : /\ repository'[p].tracked = repository[p].tracked
                                /\ repository'[p].enabled => repository[p].tracked
    BY <1>3 DEF SwitchRepository, Tracking
  <2>. QED BY <1>3, <2>1, Unmoved DEF SwitchRepository, Overtake, Tracking, Open
<1>4. ASSUME NEW r \in Repositories, ConfigureHook(r)
      PROVE  Tracking' /\ Recording' /\ Transacting'
  BY <1>4, Unmoved DEF ConfigureHook, Tracking, Open
<1>5. ASSUME NEW r \in Repositories, NEW s \in Secrets \cup {NoSecret}, ChangeSecret(r, s)
      PROVE  Tracking' /\ Recording' /\ Transacting'
  <2>1. \A p \in Repositories : /\ repository'[p].tracked = repository[p].tracked
                                /\ repository'[p].enabled => repository[p].tracked
    BY <1>5 DEF ChangeSecret, Tracking
  <2>. QED BY <1>5, <2>1, Unmoved DEF ChangeSecret, Tracking, Open
<1>. QED BY <1>1, <1>2, <1>3, <1>4, <1>5 DEF Manage

LEMMA AddKeeps ==
  ASSUME IntakeInvariant, NEW x \in Adders, Add(x) \/ AbandonAdding(x)
  PROVE  Tracking' /\ Recording' /\ Transacting'
<1>. USE DEF IntakeInvariant, TypeOK, admin, history
<1>1. adding[x].pc \in {"found", "created"} => adding[x].repository \in Repositories
  BY DEF Idle, Done
<1>2. ASSUME NEW r \in Repositories, Discover(x, r)
      PROVE  Tracking' /\ Recording' /\ Transacting'
  BY <1>2, Unmoved DEF Discover, Tracking, Open
<1>3. CASE AbandonAdding(x)
  BY <1>3, Unmoved DEF AbandonAdding, Tracking, Open
<1>4. CASE Track(x)
  <2>1. UNCHANGED <<account, rows, recorded, request, enqueued, answered, overtaken>>
    BY <1>4 DEF Track
  <2>2. CASE UNCHANGED repository
    BY <2>1, <2>2, Unmoved DEF Tracking, Open
  <2>3. ASSUME NEW r \in Repositories, account[AccountOf[r]] # "GONE",
               repository' = [repository EXCEPT ![r] =
                 [tracked |-> TRUE, enabled |-> TRUE, secret |-> NoSecret]]
        PROVE  Tracking' /\ Recording' /\ Transacting'
    <3>1. \A p \in Repositories : repository[p].tracked => repository'[p].tracked
      BY <2>3
    <3>2. Tracking'
      BY <2>1, <2>3 DEF Tracking
    <3>3. Recording'
      BY <2>1, <3>1 DEF Recording
    <3>4. Transacting'
      BY <2>1, <3>1, RequestTypes DEF Transacting, Open
    <3>. QED BY <3>2, <3>3, <3>4
  <2>. QED BY <1>1, <1>4, <2>2, <2>3 DEF Track
<1>5. CASE AskFirst(x)
  <2>1. \A r \in Repositories : rows'[r] # Queue!NoRow => repository[r].tracked
    BY <1>1, <1>5, RowTypes DEF AskFirst, Tracking
  <2>. QED BY <1>5, <2>1, Unmoved DEF AskFirst, Tracking, Open
<1>. QED BY <1>2, <1>3, <1>4, <1>5 DEF Add

LEMMA RequestKeeps ==
  ASSUME IntakeInvariant, NEW q \in Requests,
         (\E d \in Deliveries : Send(q, d)) \/ Receive(q) \/ LoseRequest(q)
  PROVE  Tracking' /\ Recording' /\ Transacting'
<1>. USE DEF IntakeInvariant, TypeOK, admin, history
<1>1. ASSUME NEW d \in Deliveries, Send(q, d)
      PROVE  Tracking' /\ Recording' /\ Transacting'
  <2>1. \A p \in Open' : p \in Open /\ request'[p] = request[p]
    BY <1>1 DEF Send, Open
  <2>. QED BY <1>1, <2>1, Unmoved DEF Send, Tracking
<1>2. CASE Authenticate(q)
  <2>1. request'[q].pc \in {"verified", "idle"}
    BY <1>2, RequestTypes DEF Authenticate, Idle
  <2>2. \A p \in Open' : p \in Open /\ request'[p] = request[p]
    BY <1>2, <2>1 DEF Authenticate, Open
  <2>. QED BY <1>2, <2>2, Unmoved DEF Authenticate, Tracking
<1>3. CASE LoseRequest(q)
  <2>1. \A p \in Open' : p \in Open /\ request'[p] = request[p]
    BY <1>3 DEF LoseRequest, Open, Idle
  <2>. QED BY <1>3, <2>1, Unmoved DEF LoseRequest, Tracking
<1>4. CASE InsertDelivery(q)
  <2>. DEFINE d == request[q].delivery
  <2>1. request[q].pc # "idle" /\ d \in Deliveries
    BY <1>4, RequestTypes DEF InsertDelivery
  <2>2. UNCHANGED <<account, repository, rows, recorded, enqueued, overtaken>>
    BY <1>4 DEF InsertDelivery
  <2>3. Tracking'
    BY <2>2 DEF Tracking
  <2>4. d \in recorded => enqueued[d] = 1 \/ d \in overtaken
    BY <2>1 DEF Tracking, Recording
  <2>5. Recording'
    BY <1>4, <2>1, <2>2, <2>4 DEF InsertDelivery, Recording
  <2>6. \A p \in Requests \ {q} : request'[p] = request[p]
    BY <1>4 DEF InsertDelivery
  <2>7. \/ request'[q].pc = "idle"
        \/ /\ d \notin recorded /\ repository[RepositoryOf[d]].tracked
           /\ request'[q].delivery = d
           /\ \A p \in Open : request[p].delivery # d
    BY <1>4, RequestTypes DEF InsertDelivery, Unlocked, Idle
  <2>8. Transacting'
    BY <2>2, <2>6, <2>7 DEF Transacting, Open
  <2>. QED BY <2>3, <2>5, <2>8
<1>5. CASE CommitDelivery(q)
  <2>. DEFINE d == request[q].delivery
              r == RepositoryOf[d]
  <2>1. q \in Open /\ d \in Deliveries /\ r \in Repositories
    BY <1>5, RequestTypes DEF CommitDelivery, Open
  <2>2. d \notin recorded /\ repository[r].tracked /\ enqueued[d] = 0
    BY <2>1 DEF Transacting, Tracking, Recording
  <2>3. /\ UNCHANGED <<account, repository, overtaken>>
        /\ recorded' = recorded \cup {d} /\ answered' = answered \cup {d}
        /\ EnqueueWebhookRepository(d)
    BY <1>5 DEF CommitDelivery
  <2>4. /\ enqueued'[d] = 1 \/ (enqueued'[d] = 0 /\ d \in overtaken)
        /\ \A e \in Deliveries \ {d} : enqueued'[e] = enqueued[e]
    <3>1. CASE Accepts(r)
      BY <2>1, <2>2, <2>3, <3>1 DEF EnqueueWebhookRepository
    <3>2. CASE ~Accepts(r)
      BY <2>1, <2>2, <2>3, <3>2 DEF EnqueueWebhookRepository, Receiving, Open
    <3>. QED BY <3>1, <3>2
  <2>5. \A p \in Repositories \ {r} : rows'[p] = rows[p]
    BY <2>1, <2>3, RequestTypes, RowTypes DEF EnqueueWebhookRepository, Open
  <2>6. Tracking'
    BY <2>2, <2>3, <2>5 DEF Tracking
  <2>7. Recording'
    BY <2>1, <2>2, <2>3, <2>4 DEF Recording
  <2>8. \A p \in Open' : p \in Open /\ p # q /\ request'[p] = request[p]
    BY <1>5 DEF CommitDelivery, Open, Idle
  <2>9. Transacting'
    BY <2>1, <2>3, <2>8 DEF Transacting
  <2>. QED BY <2>6, <2>7, <2>9
<1>. QED BY <1>1, <1>2, <1>3, <1>4, <1>5 DEF Receive

LEMMA QueueKeeps ==
  ASSUME IntakeInvariant,
         (\E r \in Repositories : Reconcile(r) \/ Process(r)) \/ DropUnwanted
  PROVE  Tracking' /\ Recording' /\ Transacting'
<1>. USE DEF IntakeInvariant, admin, history
<1>1. ASSUME NEW r \in Repositories, Reconcile(r) \/ Process(r)
      PROVE  Tracking' /\ Recording' /\ Transacting'
  <2>1. repository[r].tracked
    <3>1. CASE r \in Wanted
      BY <3>1 DEF Wanted, Accepts, Tracking
    <3>2. CASE Finish(r)
      BY <3>2 DEF Finish, Queue!Finish, Queue!NoRow, Tracking
    <3>. QED BY <1>1, <3>1, <3>2 DEF Reconcile, Process, Begin
  <2>2. \A p \in Repositories \ {r} : rows'[p] = rows[p]
    BY <1>1, RowTypes DEF Reconcile, Process, Begin, Finish
  <2>3. /\ UNCHANGED <<account, repository, recorded, request>>
        /\ UNCHANGED <<enqueued, answered, overtaken>>
    BY <1>1 DEF Reconcile, Process, Begin, Finish
  <2>. QED BY <2>1, <2>2, <2>3, Unmoved DEF Tracking, Open
<1>2. CASE DropUnwanted
  <2>1. \A p \in Repositories : rows'[p] \in {rows[p], Queue!NoRow}
    BY <1>2 DEF DropUnwanted, Queue!Drop
  <2>2. /\ UNCHANGED <<account, repository, recorded, request>>
        /\ UNCHANGED <<enqueued, answered, overtaken>>
    BY <1>2 DEF DropUnwanted
  <2>. QED BY <2>1, <2>2, Unmoved DEF Tracking, Open
<1>. QED BY <1>1, <1>2

\* Switching off and removing mark what is under way, and nothing else makes a
\* repository refuse.
LEMMA ReceivingKept ==
  ASSUME IntakeInvariant, Next
  PROVE  Receiving'
<1>. USE DEF IntakeInvariant
<1>1. ASSUME overtaken \subseteq overtaken',
             \A r \in Repositories : Accepts(r) => Accepts(r)',
             \A q \in Requests : request'[q].pc \in {"verified", "inserted"}
               => /\ request'[q].delivery \in Deliveries
                  /\ request'[q].delivery = request[q].delivery
                  /\ \/ request[q].pc \in {"verified", "inserted"}
                     \/ Accepts(RepositoryOf[request[q].delivery])
      PROVE  Receiving'
  BY <1>1 DEF Receiving
<1>2. ASSUME Overtake, UNCHANGED request
      PROVE  Receiving'
  <2>1. ASSUME NEW q \in Requests, request[q].pc \in {"verified", "inserted"}
        PROVE  \/ Accepts(RepositoryOf[request[q].delivery])'
               \/ request[q].delivery \in overtaken'
    BY <1>2, <2>1, RequestTypes DEF Overtake
  <2>. QED BY <1>2, <2>1 DEF Receiving
<1>3. \A q \in Requests : request[q].pc \in {"verified", "inserted"}
        => request[q].delivery \in Deliveries
  BY RequestTypes
<1>4. ASSUME UNCHANGED <<account, repository, request, overtaken>>
      PROVE  Receiving'
  BY <1>4 DEF Receiving, Accepts
<1>5. CASE Manage
  <2>1. ASSUME NEW a \in Accounts, UpdateAccount(a) \/ RemoveAccount(a)
        PROVE  Receiving'
    BY <1>2, <2>1 DEF UpdateAccount, RemoveAccount
  <2>2. ASSUME NEW r \in Repositories, SwitchRepository(r)
        PROVE  Receiving'
    BY <1>2, <2>2 DEF SwitchRepository
  <2>3. ASSUME NEW r \in Repositories, ConfigureHook(r)
        PROVE  Receiving'
    BY <1>4, <2>3 DEF ConfigureHook, admin, history
  <2>4. ASSUME NEW r \in Repositories, NEW s \in Secrets \cup {NoSecret}, ChangeSecret(r, s)
        PROVE  Receiving'
    <3>1. UNCHANGED <<account, request, overtaken>>
      BY <2>4 DEF ChangeSecret, history
    <3>2. \A p \in Repositories : repository'[p].enabled = repository[p].enabled
      BY <2>4 DEF ChangeSecret, TypeOK
    <3>. QED BY <1>1, <1>3, <3>1, <3>2 DEF Accepts
  <2>. QED BY <1>5, <2>1, <2>2, <2>3, <2>4 DEF Manage
<1>6. ASSUME NEW x \in Adders, Add(x) \/ AbandonAdding(x)
      PROVE  Receiving'
  <2>1. UNCHANGED <<account, request, overtaken>>
    BY <1>6 DEF Add, Discover, Track, AskFirst, AbandonAdding, history
  <2>2. \A r \in Repositories : repository[r].enabled => repository'[r].enabled
    BY <1>6 DEF Add, Discover, Track, AskFirst, AbandonAdding, TypeOK
  <2>. QED BY <1>1, <1>3, <2>1, <2>2 DEF Accepts
<1>7. ASSUME NEW q \in Requests,
             (\E d \in Deliveries : Send(q, d)) \/ Receive(q) \/ LoseRequest(q)
      PROVE  Receiving'
  <2>1. UNCHANGED <<account, repository, overtaken>>
    BY <1>7 DEF Receive, Send, Authenticate, InsertDelivery, CommitDelivery,
                LoseRequest, admin, history
  <2>2. \A p \in Requests \ {q} : request'[p] = request[p]
    BY <1>7 DEF Receive, Send, Authenticate, InsertDelivery, CommitDelivery,
                LoseRequest, TypeOK
  <2>3. ASSUME request'[q].pc \in {"verified", "inserted"}
        PROVE  /\ request'[q].delivery = request[q].delivery
               /\ request[q].delivery \in Deliveries
               /\ \/ request[q].pc \in {"verified", "inserted"}
                  \/ Accepts(RepositoryOf[request[q].delivery])
    <3>1. CASE Authenticate(q)
      BY <2>3, <3>1, RequestTypes DEF Authenticate, Authentic, Idle, TypeOK
    <3>2. CASE InsertDelivery(q)
      BY <2>3, <3>2, RequestTypes DEF InsertDelivery, Idle, TypeOK
    <3>3. ASSUME request' = [request EXCEPT ![q] = Idle]
          PROVE  FALSE
      BY <2>3, <3>3 DEF Idle, TypeOK
    <3>4. ASSUME NEW d \in Deliveries, Send(q, d)
          PROVE  FALSE
      BY <2>3, <3>4 DEF Send, TypeOK
    <3>. QED BY <1>7, <3>1, <3>2, <3>3, <3>4 DEF Receive, CommitDelivery, LoseRequest
  <2>4. \A r \in Repositories : Accepts(r) => Accepts(r)'
    BY <2>1 DEF Accepts
  <2>. QED BY <1>1, <1>3, <2>1, <2>2, <2>3, <2>4
<1>8. CASE (\E r \in Repositories : Reconcile(r) \/ Process(r)) \/ DropUnwanted
  <2>. QED BY <1>4, <1>8 DEF Reconcile, Process, Begin, Finish, DropUnwanted,
                             admin, history
<1>. QED BY <1>5, <1>6, <1>7, <1>8 DEF Next

LEMMA IntakeInit == Init => IntakeInvariant
<1> SUFFICES ASSUME Init PROVE IntakeInvariant
  OBVIOUS
<1>1. Tracking /\ Recording
  BY DEF Init, Tracking, Recording, Untracked
<1>2. Transacting /\ Receiving
  BY DEF Init, Transacting, Receiving, Open, Idle
<1>. QED BY <1>1, <1>2, TypeInit DEF IntakeInvariant

LEMMA IntakeStep == IntakeInvariant /\ [Next]_vars => IntakeInvariant'
<1> SUFFICES ASSUME IntakeInvariant, [Next]_vars PROVE IntakeInvariant'
  OBVIOUS
<1>1. TypeOK'
  BY TypeStep DEF IntakeInvariant
<1>2. CASE UNCHANGED vars
  BY <1>1, <1>2
  DEF IntakeInvariant, vars, admin, history, Tracking, Recording, Receiving,
      Transacting, Open, Accepts
<1>3. CASE Next
  BY <1>1, <1>3, ManageKeeps, AddKeeps, RequestKeeps, QueueKeeps, ReceivingKept
  DEF Next, IntakeInvariant
<1>. QED BY <1>2, <1>3

LEMMA IntakeAlways == Spec => []IntakeInvariant
BY IntakeInit, IntakeStep, PTL DEF Spec

-----------------------------------------------------------------------------
(* What follows from it. *)

\* A delivery that is sent again, in parallel or after a failure is enqueued once:
\* the key of an open transaction and the record of a committed one keep out the
\* others.  What is on record without being enqueued was overtaken by a switch.
THEOREM EnqueuedOnceHolds == Spec => []EnqueuedOnce
<1>1. IntakeInvariant => EnqueuedOnce
  BY DEF IntakeInvariant, TypeOK, Tracking, Recording, EnqueuedOnce
<1>. QED BY <1>1, IntakeAlways, PTL

\* Whatever the provider was told is accepted has been enqueued, by the request that
\* was answered or by the one it is a duplicate of, unless a switch was thrown between
\* the two reads of the request that put it on record.
THEOREM AcceptedIsEnqueuedHolds == Spec => []AcceptedIsEnqueued
<1>1. IntakeInvariant => AcceptedIsEnqueued
  BY DEF IntakeInvariant, TypeOK, Recording, AcceptedIsEnqueued
<1>. QED BY <1>1, IntakeAlways, PTL

\* No request outlives its repository, although the first one is asked for outside the
\* transaction that tracks it and a webhook's in one that began before.
THEOREM QueuedAreTrackedHolds == Spec => []QueuedAreTracked
<1>1. IntakeInvariant => QueuedAreTracked
  BY DEF IntakeInvariant, Tracking, QueuedAreTracked
<1>. QED BY <1>1, IntakeAlways, PTL
=============================================================================
